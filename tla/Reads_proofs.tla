------------------------------ MODULE Reads_proofs ------------------------------
(***************************************************************************)
(* Proofs, for any writers, plans, clients, requests and page sizes: what  *)
(* a read was pinned at nothing commits below, so a walk lists what it     *)
(* owes, an answer given again is the same answer, and a refusal is true.  *)
(***************************************************************************)
EXTENDS ReadsApi, TLAPS, FiniteSetTheorems, SequenceTheorems

(* The write transactions: xids are drawn once, in order; rows belong to   *)
(* transactions that inserted; uuids are drawn once.                       *)
BookInv ==
  /\ status \in [Writers -> {"idle", "running", "committed", "aborted"}]
  /\ xact \in [Writers -> Nat] /\ nextXact \in Nat /\ 3 <= nextXact /\ nextId \in Nat
  /\ \A w \in Writers :
       IF status[w] = "idle" THEN xact[w] = 0 ELSE xact[w] \in 3..(nextXact - 1)
  /\ \A v, w \in Writers : status[v] # "idle" /\ status[w] # "idle" /\ xact[v] = xact[w] => v = w
  /\ \A e \in entries : /\ e.by \in Writers /\ status[e.by] # "idle"
                        /\ e.id \in Nat /\ e.id < nextId /\ e.date \in Int
  /\ \A a \in accounts : /\ a.by = None \/ (a.by \in Writers /\ status[a.by] # "idle")
                         /\ a.id \in Nat /\ a.id < nextId
  /\ \A chart \in charts : /\ chart.by \in Writers /\ status[chart.by] # "idle"
                           /\ chart.version \in Nat /\ chart.version < nextXact
  /\ \A e, f \in entries : e.id = f.id => e = f
  /\ \A a, b \in accounts : a.id = b.id => a = b

(* A presentation row's line, committed or written with it.                *)
Carries(l, q) ==
  /\ l.version = q.version /\ l.line = q.line /\ l.face = q.face
  /\ l.by = q.by \/ Visible(l)

(* What rows say of each other: an entry's account was there before it, a  *)
(* close is recorded by the transaction it names, and a chart version has  *)
(* one line of a name and one presentation of a type, on a line it has.    *)
ContentInv ==
  /\ \A e \in entries : \E a \in VisibleAccounts(e.book) : a.id = e.account
  /\ \A row \in closes \cup lines \cup presentation :
       row.by \in Writers /\ status[row.by] # "idle"
  /\ \A close \in closes : close.names = close.by
  /\ \A l \in lines : l.line # Earnings
  /\ \A l, k \in lines :
       Live(l) /\ Live(k) /\ l.version = k.version /\ l.line = k.line => l = k
  /\ \A q, o \in presentation :
       Live(q) /\ Live(o) /\ q.version = o.version /\ q.type = o.type => q = o
  /\ \A q \in presentation : \E l \in lines : Carries(l, q)

(* A cursor no running transaction can still commit below.                 *)
AtMostTheHorizon(x) ==
  x \in Nat /\ x <= nextXact /\ \A w \in Running : x <= xact[w]

Committed == {None} \cup {w \in Writers : status[w] = "committed"}
Reports == {"trial_balance"} \cup Faces

(* A client's request and where it is with it.                             *)
Shape(c) ==
  /\ at[c] \in {"idle", "asked", "pinned", "answered", "done"}
  /\ verdict[c] \in Outcomes \cup {None} /\ (verdict[c] # None <=> at[c] = "done")
  /\ timeouts[c] \in 0..MaxTimeouts
  /\ pin[c] = [cursor |-> pin[c].cursor, version |-> pin[c].version]
  /\ at[c] = "idle" => pages[c] = <<>> /\ pin[c] = NoPin /\ first[c] = None
  /\ at[c] # "idle" =>
       /\ DOMAIN ask[c] = RequestFields
       /\ ask[c].read \in PinnedReads \cup {"accounts", "balance", "transaction", "cursor"}
       /\ ask[c].read = "transaction" => ask[c].transaction \in Writers
       /\ ask[c].limit = None \/ ask[c].limit \in Int
       /\ ask[c].cursor \in {None, Garbled} \/ (ask[c].cursor \in Int /\ -Wrap <= ask[c].cursor)
       /\ ask[c].resend \in BOOLEAN
       /\ began[c] \subseteq Committed
  /\ at[c] = "pinned" => ask[c].read \in PinnedReads /\ ~RefusedOnItsFace(ask[c])
  /\ at[c] = "answered" => ask[c].read \in Listings

(* What a read was pinned at nothing commits below, and the chart version  *)
(* a face resolved is there.                                               *)
PinHolds(c) ==
  /\ pin[c].cursor # None => AtMostTheHorizon(pin[c].cursor)
  /\ pin[c].version # None => at[c] # "idle" /\ ask[c].read \in Faces
  /\ at[c] = "pinned" =>
       /\ pin[c].cursor # None
       /\ ask[c].read \in Faces =>
            IF ask[c].version = None THEN pin[c].version \in ChartVersions
                                     ELSE pin[c].version = ask[c].version
  /\ at[c] = "done" /\ verdict[c] = "answered" =>
       /\ ask[c].read \in PinnedReads \cup {"cursor"} => pin[c].cursor # None
       /\ ask[c].read \in Faces => pin[c].version # None

(* The rows of a listing, those of transactions still open included.       *)
Kin(r) == IF r.read = "accounts" THEN accounts ELSE entries

Complete(c) == ask[c].resend \/ ask[c].axis = "recorded"

(* What a walk owes at the cursor it is pinned at.                         *)
Due(c) ==
  IF ask[c].read = "accounts"
    THEN {a \in VisibleAccounts(ask[c].tenant) : a.by \in began[c]}
    ELSE IF Complete(c) THEN RowsOf(ask[c], pin[c].cursor) ELSE {}

Key(c) == IF at[c] = "answered" THEN next[c] ELSE ask[c].after

(* The page key is that of the last row listed, and of what the walk owes  *)
(* nothing at or before it is missing.                                     *)
ListedUpTo(c, last) ==
  /\ Key(c) = KeyOf(last, ask[c])
  /\ \A row \in Listed(c) : ~Before(last, row, ask[c])
  /\ \A row \in Due(c) : ~Before(last, row, ask[c]) => row \in Listed(c)

WalkHolds(c) ==
  at[c] # "idle" /\ ask[c].read \in Listings =>
    /\ pages[c] \in Seq(SUBSET Kin(ask[c]))
    /\ InOrder(c)
    /\ \A row \in Listed(c) : row \in RowsOf(ask[c], pin[c].cursor)
    /\ at[c] = "answered" => pages[c] # <<>>
    /\ at[c] # "done" /\ pages[c] # <<>> => \E last \in Listed(c) : ListedUpTo(c, last)
    /\ at[c] \in {"asked", "pinned"} /\ ask[c].after # None /\ pages[c] = <<>> =>
         ask[c].read = "statement" /\ Len(ask[c].after) # Arity(ask[c])
    /\ ask[c].read = "statement" /\ pages[c] # <<>> =>
         /\ pin[c].cursor # None
         /\ at[c] \in {"asked", "pinned"} =>
              ask[c].cursor = IF ask[c].resend THEN pin[c].cursor ELSE None
    /\ Answered(c) =>
         /\ pages[c] # <<>>
         /\ Due(c) \subseteq Listed(c)
         /\ ask[c].read = "statement" /\ Len(pages[c]) = 1 =>
              Listed(c) = RowsOf(ask[c], pin[c].cursor)

(* What was answered still holds: a trial balance is what the journal      *)
(* gives at its cursor, and a face would be given again, its rows with     *)
(* their amounts, and whatever rows it lacked then at zero.                *)
Stands(answer, r, p) ==
  IF r.read \in Faces
    THEN LET now == FaceOf(r, p.cursor, p.version) IN
         /\ ~Unpresented(r, p.cursor, p.version)
         /\ answer.version = p.version
         /\ answer.rows \subseteq now
         /\ \A row \in now \ answer.rows : row.amount = {}
    ELSE answer = [version |-> None, rows |-> TrialBalance(r, p.cursor)]

(* A report is one page, which stands.                                     *)
ReportHolds(c) ==
  at[c] # "idle" /\ ask[c].read \in Reports \cup {"cursor"} =>
    IF Answered(c) /\ ask[c].read # "cursor"
      THEN pages[c] = <<pages[c][1]>> /\ Stands(pages[c][1], ask[c], pin[c])
      ELSE pages[c] = <<>>

RowsIn(walk) == UNION {walk[i] : i \in DOMAIN walk}

(* A read issued again carries its pin; its first answer stands, and the   *)
(* second is the first with no amount changed.                             *)
RepeatHolds(c) ==
  first[c] # None =>
    /\ ask[c].read \in PinnedReads /\ ask[c].resend
    /\ pin[c].cursor # None /\ ask[c].cursor = pin[c].cursor /\ ask[c].version = pin[c].version
    /\ ask[c].read \in Faces => pin[c].version # None
    /\ ask[c].read = "statement" /\ (ask[c].axis = "recorded" \/ Len(first[c]) = 1) =>
         RowsIn(first[c]) = RowsOf(ask[c], pin[c].cursor)
    /\ ask[c].read \in Reports /\ first[c] # <<>> =>
         /\ first[c] = <<first[c][1]>> /\ Stands(first[c][1], ask[c], pin[c])
         /\ Answered(c) /\ ask[c].read \in Faces => SameAmounts(first[c][1], pages[c][1])

(* What a finished read was told, of what was committed when it began, and *)
(* of the read it was.                                                     *)
Heard(c) ==
  at[c] = "done" =>
    /\ verdict[c] = "account_unknown" =>
         /\ ask[c].read \in {"statement", "balance"}
         /\ \A a \in VisibleAccounts(ask[c].tenant) :
              a.id = ask[c].account => a.by \notin began[c]
    /\ verdict[c] = "transaction_unknown" =>
         ask[c].read = "transaction" /\ ask[c].transaction \notin began[c]
    /\ verdict[c] = "chart_version_unknown" =>
         /\ ask[c].read \in Faces
         /\ \A chart \in charts :
              ask[c].version \in {None, chart.version} => chart.by \notin began[c]
    /\ verdict[c] = "chart_version_incomplete" => ask[c].read \in Faces
    /\ verdict[c] = "cursor_invalid" => ask[c].read \in PinnedReads
    /\ verdict[c] = "invalid_request" => ask[c].read \in PinnedReads \cup {"accounts"}

ClientInv(c) ==
  Shape(c) /\ PinHolds(c) /\ WalkHolds(c) /\ ReportHolds(c) /\ RepeatHolds(c) /\ Heard(c)

ClientVars ==
  /\ at = [c \in Clients |-> at[c]] /\ ask = [c \in Clients |-> ask[c]]
  /\ pin = [c \in Clients |-> pin[c]] /\ pages = [c \in Clients |-> pages[c]]
  /\ next = [c \in Clients |-> next[c]] /\ verdict = [c \in Clients |-> verdict[c]]
  /\ began = [c \in Clients |-> began[c]] /\ first = [c \in Clients |-> first[c]]
  /\ timeouts = [c \in Clients |-> timeouts[c]]

ReadsInv == BookInv /\ ContentInv /\ ClientVars /\ \A c \in Clients : ClientInv(c)

-----------------------------------------------------------------------------
(* Horizons and chart versions *)

(* A bounded set of numbers has a greatest member and a least one.         *)
LEMMA Greatest ==
  ASSUME NEW S \in SUBSET Nat, S # {}, NEW n \in Nat, \A x \in S : x <= n
  PROVE  \E x \in S : \A y \in S : y <= x
<1> DEFINE Above(x) == {y \in S : x < y}
           Aboves == {Above(x) : x \in S}
<1>1. \A T \in Aboves : T \in FiniteSubsetsOf(S)
  <2> SUFFICES ASSUME NEW x \in S PROVE Above(x) \in FiniteSubsetsOf(S)
    OBVIOUS
  <2>1. IsFiniteSet(Above(x))
    BY FS_BoundedSetOfNaturals
  <2> QED
    BY <2>1 DEF FiniteSubsetsOf
<1>2. PICK T \in Aboves : \A U \in Aboves : <<U, T>> \notin StrictSubsetOrdering(S)
  <2>1. Aboves \subseteq FiniteSubsetsOf(S) /\ Aboves # {}
    BY <1>1
  <2>2. IsWellFoundedOn(StrictSubsetOrdering(S), FiniteSubsetsOf(S))
    BY FS_StrictSubsetOrderingWellFounded
  <2> QED
    BY <2>1, <2>2, WFMin
<1>3. PICK x \in S : T = Above(x)
  OBVIOUS
<1>4. ASSUME NEW y \in S, x < y PROVE FALSE
  <2>1. x \in Nat /\ y \in Nat /\ ~(y < y)
    OBVIOUS
  <2>2. \A z \in S : y < z => x < z
    BY <1>4, <2>1
  <2>3. Above(y) \subseteq Above(x) /\ y \in Above(x) /\ y \notin Above(y)
    BY <1>4, <2>1, <2>2
  <2>4. <<Above(y), Above(x)>> \in StrictSubsetOrdering(S)
    BY <2>3 DEF StrictSubsetOrdering
  <2> QED
    BY <2>4, <1>2, <1>3
<1> QED
  BY <1>4

(* A nonempty set of numbers has a least member.                           *)
LEMMA Least ==
  ASSUME NEW S \in SUBSET Nat, S # {}, NEW n \in Nat, \A x \in S : x <= n
  PROVE  \E x \in S : \A y \in S : x <= y
<1> DEFINE T == {n - x : x \in S}
<1>1. \A x \in S : x \in Nat /\ n - x \in Nat /\ n - x <= n
  <2> SUFFICES ASSUME NEW x \in S PROVE x \in Nat /\ n - x \in Nat /\ n - x <= n
    OBVIOUS
  <2>1. x \in Nat /\ x <= n
    OBVIOUS
  <2> QED
    BY <2>1
<1>2. T \in SUBSET Nat /\ T # {} /\ \A y \in T : y <= n
  BY <1>1
<1> HIDE DEF T
<1>3. PICK y \in T : \A z \in T : z <= y
  BY <1>2, Greatest
<1>4. PICK x \in S : y = n - x
  BY DEF T
<1>5. \A z \in S : n - z <= n - x
  BY <1>3, <1>4 DEF T
<1>6. \A z \in S : x <= z
  BY <1>1, <1>5
<1> QED
  BY <1>6

(* There is a horizon, and a cursor is at most it just when no running     *)
(* transaction can commit below the cursor.                                *)
LEMMA HorizonIsOldest ==
  ASSUME BookInv
  PROVE  /\ AtMostTheHorizon(Horizon)
         /\ \A x \in Nat : x <= Horizon <=> AtMostTheHorizon(x)
<1> USE DEF BookInv
<1>1. \A w \in Running : xact[w] \in Nat /\ xact[w] < nextXact
  BY DEF Running
<1>2. \E h \in 0..nextXact : IsHorizon(h)
  <2>1. CASE Running = {}
    BY <2>1 DEF IsHorizon
  <2>2. CASE Running # {}
    <3> DEFINE open == {xact[w] : w \in Running}
    <3>1. open \in SUBSET Nat /\ open # {} /\ \A x \in open : x <= nextXact
      BY <1>1, <2>2
    <3> HIDE DEF open
    <3>2. PICK h \in open : \A x \in open : h <= x
      BY <3>1, Least
    <3>3. h \in 0..nextXact
      BY <3>1
    <3>4. /\ \E w \in Running : h = xact[w]
          /\ \A w \in Running : h <= xact[w]
      BY <3>2 DEF open
    <3> QED
      BY <2>2, <3>3, <3>4 DEF IsHorizon
  <2> QED
    BY <2>1, <2>2
<1>3. Horizon \in 0..nextXact /\ IsHorizon(Horizon)
  BY <1>2 DEF Horizon
<1> HIDE DEF BookInv
<1>4. nextXact \in Nat
  BY DEF BookInv
<1>5. AtMostTheHorizon(Horizon)
  BY <1>3, <1>4 DEF IsHorizon, AtMostTheHorizon
<1>6. ASSUME NEW x \in Nat, x <= Horizon PROVE AtMostTheHorizon(x)
  BY <1>1, <1>3, <1>4, <1>5, <1>6 DEF AtMostTheHorizon
<1>7. ASSUME NEW x \in Nat, AtMostTheHorizon(x) PROVE x <= Horizon
  BY <1>3, <1>4, <1>7 DEF AtMostTheHorizon, IsHorizon
<1> QED
  BY <1>5, <1>6, <1>7

(* There is a newest chart version when there is one at all.               *)
LEMMA NewestIsNewest ==
  ASSUME BookInv
  PROVE  /\ ChartVersions \subseteq Nat
         /\ ChartVersions = {} <=> NewestChart = None
         /\ ChartVersions # {} => /\ NewestChart \in ChartVersions
                                  /\ NewestChart < nextXact
<1>1. ChartVersions \subseteq Nat /\ \A v \in ChartVersions : v < nextXact
  BY DEF BookInv, ChartVersions
<1>2. nextXact \in Nat
  BY DEF BookInv
<1>3. \E v \in ChartVersions \cup {None} : IsNewest(v)
  <2>1. CASE ChartVersions = {}
    BY <2>1 DEF IsNewest
  <2>2. CASE ChartVersions # {}
    <3>1. \A v \in ChartVersions : v <= nextXact
      BY <1>1, <1>2
    <3>2. PICK v \in ChartVersions : \A u \in ChartVersions : u <= v
      BY <1>1, <1>2, <2>2, <3>1, Greatest
    <3> QED
      BY <2>2, <3>2 DEF IsNewest
  <2> QED
    BY <2>1, <2>2
<1>4. IsNewest(NewestChart)
  BY <1>3 DEF NewestChart
<1>5. ChartVersions = {} <=> NewestChart = None
  <2>1. None \notin Nat
    BY SentinelsAssumption
  <2> QED
    BY <1>1, <1>4, <2>1 DEF IsNewest
<1>6. ChartVersions # {} => NewestChart \in ChartVersions /\ NewestChart < nextXact
  BY <1>1, <1>4 DEF IsNewest
<1> QED
  BY <1>1, <1>5, <1>6

-----------------------------------------------------------------------------
(* What writers do to a book *)

(* What was inserted stays and keeps its xid; a cursor no open transaction *)
(* could commit below stays so, and the entries below it stay what they    *)
(* are; what is seen stays seen, and what comes into sight is of a         *)
(* transaction that had not committed.                                     *)
BookGrows ==
  /\ entries \subseteq entries' /\ accounts \subseteq accounts' /\ charts \subseteq charts'
  /\ \A e \in entries : xact'[e.by] = xact[e.by]
  /\ \A x : AtMostTheHorizon(x) =>
       AtMostTheHorizon(x)' /\ \A book : Below(x, book)' = Below(x, book)
  /\ \A row \in entries \cup accounts \cup charts : Visible(row) => Visible(row)'
  /\ \A row \in accounts' : row.by \in Committed => row \in accounts
  /\ \A row \in charts' : row.by \in Committed => row \in charts
  /\ Committed \subseteq Committed'

(* So is the content of charts, and of closes.                             *)
ContentGrows ==
  /\ closes \subseteq closes' /\ lines \subseteq lines' /\ presentation \subseteq presentation'
  /\ \A row \in closes \cup lines \cup presentation : Visible(row) => Visible(row)'
  /\ \A close \in closes' : close.by \in Committed => close \in closes

(* An insert is seen by nobody.                                            *)
LEMMA InsertGrows ==
  ASSUME BookInv, NEW w \in Writers, Insert(w)
  PROVE  BookInv' /\ BookGrows
<1>1. PICK p \in Plans[w] :
        /\ status[w] = "idle"
        /\ IsInsert(w, p)
        /\ status' = [status EXCEPT ![w] = "running"]
        /\ xact' = [xact EXCEPT ![w] = nextXact]
        /\ nextXact' = nextXact + 1
  BY DEF Insert
<1>2. /\ Len(p.legs) \in Nat /\ DOMAIN p.legs = 1..Len(p.legs)
      /\ \A i \in 1..Len(p.legs) : p.legs[i].date \in Int
  <2> DEFINE Leg == [account : Nat, date : Int, posted : BOOLEAN]
  <2>1. p.legs \in Seq(Leg)
    BY PlansAssumption
  <2>2. \A leg \in Leg : leg.date \in Int
    OBVIOUS
  <2> HIDE DEF Leg
  <2>3. Len(p.legs) \in Nat /\ DOMAIN p.legs = 1..Len(p.legs)
    BY <2>1
  <2>4. \A i \in 1..Len(p.legs) : p.legs[i] \in Leg
    BY <2>1, ElementOfSeq
  <2> QED
    BY <2>1, <2>2, <2>3, <2>4
<1>3. /\ nextId \in Nat /\ nextXact \in Nat
      /\ \A v \in Writers \ {w} : status'[v] = status[v] /\ xact'[v] = xact[v]
      /\ status'[w] = "running" /\ xact'[w] = nextXact
  BY <1>1 DEF BookInv
<1>4. \A row \in entries \cup accounts \cup charts : row.by # w
  BY <1>1, SentinelsAssumption DEF BookInv
<1>5. ASSUME NEW row \in accounts' \ accounts
      PROVE  row.id = nextId /\ row.by = w
  BY <1>1, <1>5 DEF IsInsert
<1>6. ASSUME NEW row \in entries' \ entries
      PROVE  \E i \in 1..Len(p.legs) : row =
               [id |-> nextId + i, by |-> w, book |-> p.book, account |-> p.legs[i].account,
                date |-> p.legs[i].date, posted |-> p.legs[i].posted]
  BY <1>1, <1>2, <1>6 DEF IsInsert
<1>7. ASSUME NEW row \in charts' \ charts
      PROVE  row = [version |-> IF NewestChart = None THEN 1 ELSE NewestChart + 1, by |-> w]
  BY <1>1, <1>7 DEF IsInsert, WritesChart, VersionOf
<1>8. /\ entries \subseteq entries' /\ accounts \subseteq accounts' /\ charts \subseteq charts'
      /\ nextId' = nextId + Len(p.legs) + 1
  BY <1>1 DEF IsInsert, WritesChart
<1>9. \A a, b \in accounts' \ accounts : a = b
  BY <1>1 DEF IsInsert
<1>10. Committed' = Committed /\ w \notin Committed
  BY <1>1, <1>3, SentinelsAssumption DEF Committed, BookInv
<1>11. \A row \in entries \cup accounts \cup charts :
         Visible(row)' <=> Visible(row)
  BY <1>3, <1>4 DEF BookInv, Visible
<1>12. /\ status' \in [Writers -> {"idle", "running", "committed", "aborted"}]
       /\ xact' \in [Writers -> Nat] /\ nextXact' \in Nat /\ nextXact' = nextXact + 1
  <2>1. status \in [Writers -> {"idle", "running", "committed", "aborted"}]
        /\ xact \in [Writers -> Nat]
    BY DEF BookInv
  <2>2. nextXact' = nextXact + 1 /\ nextXact' \in Nat
    BY <1>1, <1>3
  <2> QED
    BY <2>1, <2>2, <1>1, <1>3
<1>13. nextId' \in Nat /\ nextId < nextId' /\ \A i \in 1..Len(p.legs) : nextId + i < nextId'
  BY <1>2, <1>3, <1>8
<1>14. \A v \in Writers :
         IF status'[v] = "idle" THEN xact'[v] = 0 ELSE xact'[v] \in 3..(nextXact' - 1)
  <2> SUFFICES ASSUME NEW v \in Writers
               PROVE  IF status'[v] = "idle" THEN xact'[v] = 0
                                             ELSE xact'[v] \in 3..(nextXact' - 1)
    OBVIOUS
  <2>1. CASE v = w
    <3>1. 3 <= nextXact
      BY DEF BookInv
    <3> QED
      BY <2>1, <3>1, <1>3, <1>12
  <2>2. CASE v # w
    <3>1. IF status[v] = "idle" THEN xact[v] = 0 ELSE xact[v] \in 3..(nextXact - 1)
      BY <2>2, <1>3 DEF BookInv
    <3> QED
      BY <2>2, <3>1, <1>3, <1>12
  <2> QED
    BY <2>1, <2>2
<1>15. \A u, v \in Writers :
         status'[u] # "idle" /\ status'[v] # "idle" /\ xact'[u] = xact'[v] => u = v
  <2>1. \A v \in Writers \ {w} : status[v] # "idle" => xact'[v] # nextXact
    <3> SUFFICES ASSUME NEW v \in Writers \ {w}, status[v] # "idle" PROVE xact'[v] # nextXact
      OBVIOUS
    <3>1. xact[v] \in 3..(nextXact - 1)
      BY DEF BookInv
    <3> QED
      BY <3>1, <1>3
  <2> QED
    BY <2>1, <1>3 DEF BookInv
<1>16. \A e \in entries' : /\ e.by \in Writers /\ status'[e.by] # "idle"
                           /\ e.id \in Nat /\ e.id < nextId' /\ e.date \in Int
  <2> SUFFICES ASSUME NEW e \in entries'
               PROVE  /\ e.by \in Writers /\ status'[e.by] # "idle"
                      /\ e.id \in Nat /\ e.id < nextId' /\ e.date \in Int
    OBVIOUS
  <2>1. CASE e \in entries
    <3>1. /\ e.by \in Writers /\ status[e.by] # "idle"
          /\ e.id \in Nat /\ e.id < nextId /\ e.date \in Int
      BY <2>1 DEF BookInv
    <3> QED
      BY <2>1, <3>1, <1>3, <1>4, <1>13
  <2>2. CASE e \notin entries
    BY <2>2, <1>2, <1>3, <1>6, <1>13
  <2> QED
    BY <2>1, <2>2
<1>17. \A a \in accounts' : /\ a.by = None \/ (a.by \in Writers /\ status'[a.by] # "idle")
                            /\ a.id \in Nat /\ a.id < nextId'
  <2> SUFFICES ASSUME NEW a \in accounts'
               PROVE  /\ a.by = None \/ (a.by \in Writers /\ status'[a.by] # "idle")
                      /\ a.id \in Nat /\ a.id < nextId'
    OBVIOUS
  <2>1. CASE a \in accounts
    <3>1. /\ a.by = None \/ (a.by \in Writers /\ status[a.by] # "idle")
          /\ a.id \in Nat /\ a.id < nextId
      BY <2>1 DEF BookInv
    <3> QED
      BY <2>1, <3>1, <1>3, <1>4, <1>13
  <2>2. CASE a \notin accounts
    BY <2>2, <1>3, <1>5, <1>13
  <2> QED
    BY <2>1, <2>2
<1>18. \A chart \in charts' : /\ chart.by \in Writers /\ status'[chart.by] # "idle"
                              /\ chart.version \in Nat /\ chart.version < nextXact'
  <2> SUFFICES ASSUME NEW chart \in charts'
               PROVE  /\ chart.by \in Writers /\ status'[chart.by] # "idle"
                      /\ chart.version \in Nat /\ chart.version < nextXact'
    OBVIOUS
  <2>1. CASE chart \in charts
    <3>1. /\ chart.by \in Writers /\ status[chart.by] # "idle"
          /\ chart.version \in Nat /\ chart.version < nextXact
      BY <2>1 DEF BookInv
    <3> QED
      BY <2>1, <3>1, <1>3, <1>4, <1>12
  <2>2. CASE chart \notin charts
    <3>1. chart.by = w /\ chart.version = IF NewestChart = None THEN 1 ELSE NewestChart + 1
      BY <2>2, <1>7
    <3>2. NewestChart # None => NewestChart \in Nat /\ NewestChart < nextXact
      BY NewestIsNewest
    <3>3. 3 <= nextXact
      BY DEF BookInv
    <3> QED
      BY <3>1, <3>2, <3>3, <1>3, <1>12
  <2> QED
    BY <2>1, <2>2
<1>19. \A e, f \in entries' : e.id = f.id => e = f
  <2>1. \A e \in entries : e.id \in Nat /\ e.id < nextId
    BY DEF BookInv
  <2>2. \A e, f \in entries : e.id = f.id => e = f
    BY DEF BookInv
  <2>3. \A e \in entries' \ entries : \A f \in entries : e.id # f.id
    BY <1>2, <1>3, <1>6, <2>1
  <2>4. \A e, f \in entries' \ entries : e.id = f.id => e = f
    BY <1>2, <1>3, <1>6
  <2> QED
    BY <2>2, <2>3, <2>4
<1>20. \A a, b \in accounts' : a.id = b.id => a = b
  <2>1. \A a \in accounts : a.id \in Nat /\ a.id < nextId
    BY DEF BookInv
  <2>2. \A a, b \in accounts : a.id = b.id => a = b
    BY DEF BookInv
  <2> QED
    BY <2>1, <2>2, <1>3, <1>5, <1>9
<1>21. BookInv'
  BY <1>12, <1>13, <1>14, <1>15, <1>16, <1>17, <1>18, <1>19, <1>20 DEF BookInv
<1>22. ASSUME NEW x, AtMostTheHorizon(x)
       PROVE  AtMostTheHorizon(x)' /\ \A book : Below(x, book)' = Below(x, book)
  <2>1. x \in Nat /\ x <= nextXact /\ \A v \in Running : x <= xact[v]
    BY <1>22 DEF AtMostTheHorizon
  <2>2. \A v \in Running' : v = w \/ v \in Running
    BY <1>3 DEF Running
  <2>3. AtMostTheHorizon(x)'
    BY <2>1, <2>2, <1>3, <1>12 DEF AtMostTheHorizon, Running
  <2>4. \A e \in entries : e.by \in Writers /\ (Visible(e)' <=> Visible(e)) /\ xact'[e.by] = xact[e.by]
    BY <1>3, <1>4, <1>11 DEF BookInv
  <2>5. \A e \in entries' \ entries : ~Visible(e)'
    BY <1>3, <1>6, SentinelsAssumption DEF Visible
  <2>6. ASSUME NEW book PROVE Below(x, book)' = Below(x, book)
    <3>1. VisibleEntries(book)' = VisibleEntries(book)
      BY <2>4, <2>5, <1>8 DEF VisibleEntries
    <3>2. \A e \in VisibleEntries(book) : XactOf(e)' = XactOf(e)
      BY <2>4 DEF VisibleEntries, XactOf
    <3> QED
      BY <3>1, <3>2 DEF Below
  <2> QED
    BY <2>3, <2>6
<1>23. \A e \in entries : xact'[e.by] = xact[e.by]
  BY <1>3, <1>4 DEF BookInv
<1>24. \A row \in accounts' : row.by \in Committed => row \in accounts
  BY <1>5, <1>10
<1>25. \A row \in charts' : row.by \in Committed => row \in charts
  BY <1>7, <1>10
<1> QED
  BY <1>8, <1>10, <1>11, <1>21, <1>22, <1>23, <1>24, <1>25 DEF BookGrows

(* A commit shows rows of a transaction that was open, at or above every   *)
(* horizon since it began.                                                 *)
LEMMA EndGrows ==
  ASSUME BookInv, NEW w \in Writers, End(w)
  PROVE  BookInv' /\ BookGrows
<1>1. /\ status[w] = "running" /\ status'[w] \in {"committed", "aborted"}
      /\ \A v \in Writers \ {w} : status'[v] = status[v]
      /\ status' \in [Writers -> {"idle", "running", "committed", "aborted"}]
      /\ UNCHANGED <<xact, nextXact, nextId, accounts, entries, charts>>
  BY DEF End, BookInv, written
<1>2. \A v \in Writers : (status'[v] # "idle" <=> status[v] # "idle") /\ xact'[v] = xact[v]
  BY <1>1
<1>3. BookInv'
  BY <1>1, <1>2 DEF BookInv
<1>4. ASSUME NEW row, Visible(row), row.by \in Writers \cup {None} PROVE Visible(row)'
  BY <1>1, <1>4 DEF Visible
<1>5. \A row \in entries \cup accounts \cup charts : row.by \in Writers \cup {None}
  BY DEF BookInv
<1>6. ASSUME NEW x, AtMostTheHorizon(x)
      PROVE  AtMostTheHorizon(x)' /\ \A book : Below(x, book)' = Below(x, book)
  <2>1. x \in Nat /\ x <= nextXact /\ \A v \in Running : x <= xact[v]
    BY <1>6 DEF AtMostTheHorizon
  <2>2. Running' \subseteq Running /\ w \in Running
    BY <1>1 DEF Running
  <2>3. AtMostTheHorizon(x)'
    BY <2>1, <2>2, <1>1 DEF AtMostTheHorizon
  <2>4. x <= xact[w] /\ xact[w] \in Nat
    BY <2>1, <2>2 DEF BookInv
  <2>5. \A e \in entries : e.by # w => (Visible(e)' <=> Visible(e))
    BY <1>1 DEF BookInv, Visible
  <2>6. \A e \in entries : e.by = w => ~(xact[e.by] < x)
    BY <2>1, <2>4
  <2>7. \A e \in entries : Visible(e) => Visible(e)'
    BY <1>4, <1>5
  <2> QED
    BY <2>3, <2>5, <2>6, <1>1 DEF Below, VisibleEntries, XactOf
<1>7. Committed \subseteq Committed'
  BY <1>1, SentinelsAssumption DEF Committed
<1> QED
  BY <1>1, <1>3, <1>4, <1>5, <1>6, <1>7 DEF BookGrows

(* A read writes nothing.                                                  *)
LEMMA ReadsWriteNothing ==
  ASSUME UNCHANGED writing
  PROVE  /\ BookInv' <=> BookInv
         /\ BookGrows
         /\ Committed' = Committed /\ ChartVersions' = ChartVersions
         /\ \A row : Visible(row)' <=> Visible(row)
         /\ \A row : XactOf(row)' = XactOf(row)
         /\ \A x : AtMostTheHorizon(x)' <=> AtMostTheHorizon(x)
         /\ \A x, book : Below(x, book)' = Below(x, book)
         /\ \A book : VisibleAccounts(book)' = VisibleAccounts(book)
         /\ \A r : Kin(r)' = Kin(r)
         /\ \A r, row : KeyOf(row, r)' = KeyOf(row, r)
         /\ \A r, a, b : Before(a, b, r)' <=> Before(a, b, r)
         /\ \A r, x : RowsOf(r, x)' = RowsOf(r, x)
         /\ \A answer, r, p : Stands(answer, r, p)' <=> Stands(answer, r, p)
         /\ ContentInv' <=> ContentInv
         /\ ContentGrows
<1> USE DEF writing, written
<1>1. BookInv' <=> BookInv
  BY DEF BookInv
<1>2. \A row : Visible(row)' <=> Visible(row)
  BY DEF Visible
<1>3. \A row : XactOf(row)' = XactOf(row)
  BY DEF XactOf
<1>4. Committed' = Committed
  BY DEF Committed
<1>5. ChartVersions' = ChartVersions
  BY <1>2 DEF ChartVersions
<1>6. \A x : AtMostTheHorizon(x)' <=> AtMostTheHorizon(x)
  BY DEF AtMostTheHorizon, Running
<1>7. \A x, book : Below(x, book)' = Below(x, book)
  BY DEF Below, VisibleEntries, Visible, XactOf
<1>8. \A book : VisibleAccounts(book)' = VisibleAccounts(book)
  BY <1>2 DEF VisibleAccounts
<1>9. BookGrows
  BY <1>2, <1>4, <1>6, <1>7 DEF BookGrows
<1>10. \A r : Kin(r)' = Kin(r)
  BY DEF Kin
<1>11. \A r, row : KeyOf(row, r)' = KeyOf(row, r)
  BY <1>3 DEF KeyOf
<1>12. \A r, a, b : Before(a, b, r)' <=> Before(a, b, r)
  BY <1>11 DEF Before
<1>13. \A r, x : RowsOf(r, x)' = RowsOf(r, x)
  BY <1>7, <1>8 DEF RowsOf
<1>14. \A r, x : Summed(r, x)' = Summed(r, x) /\ InScope(r, x)' = InScope(r, x)
  BY <1>2, <1>7 DEF Summed, InScope, OfAClose
<1>15. \A e, v : PresentedBy(e, v)' = PresentedBy(e, v)
  BY <1>2 DEF PresentedBy
<1>16. \A r, x, v : FaceOf(r, x, v)' = FaceOf(r, x, v)
  <2>1. \A s, l, r, x, v : AmountOf(s, l, r, x, v)' = AmountOf(s, l, r, x, v)
    BY <1>14, <1>15 DEF AmountOf, InCurrency, OnLine
  <2>2. \A book : Scopes(book)' = Scopes(book)
    BY <1>8 DEF Scopes
  <2>3. \A face, v : LinesOf(face, v)' = LinesOf(face, v)
    BY <1>2 DEF LinesOf
  <2> QED
    BY <2>1, <2>2, <2>3 DEF FaceOf
<1>17. \A answer, r, p : Stands(answer, r, p)' <=> Stands(answer, r, p)
  BY <1>14, <1>15, <1>16 DEF Stands, Unpresented, TrialBalance
<1>18. ContentInv' <=> ContentInv
  <2>1. /\ \A row : Live(row)' <=> Live(row)
        /\ \A l, q : Carries(l, q)' <=> Carries(l, q)
    BY <1>2 DEF Live, Carries
  <2> QED
    BY <2>1, <1>8 DEF ContentInv
<1>19. ContentGrows
  BY <1>2 DEF ContentGrows
<1> QED
  BY <1>1, <1>2, <1>3, <1>4, <1>5, <1>6, <1>7, <1>8, <1>9, <1>10, <1>11, <1>12, <1>13,
     <1>17, <1>18, <1>19

-----------------------------------------------------------------------------
(* Orders *)

Width(r) == IF r.read = "accounts" THEN 1 ELSE Arity(r)

(* Sequences of one length are in a strict total order.                    *)
LEMMA LexOrder ==
  ASSUME NEW n \in Nat, NEW s \in Seq(Int), NEW t \in Seq(Int),
         Len(s) = n, Len(t) = n
  PROVE  /\ ~LexLess(s, s)
         /\ s # t => LexLess(s, t) \/ LexLess(t, s)
         /\ \A u \in Seq(Int) :
              Len(u) = n /\ LexLess(s, t) /\ LexLess(t, u) => LexLess(s, u)
<1>1. \A u \in Seq(Int), i \in 1..n : Len(u) = n => u[i] \in Int
  BY ElementOfSeq
<1>2. ~LexLess(s, s)
  BY <1>1 DEF LexLess
<1>3. ASSUME s # t PROVE LexLess(s, t) \/ LexLess(t, s)
  <2> DEFINE differ == {i \in 1..n : s[i] # t[i]}
  <2>1. differ \in SUBSET Nat /\ \A i \in differ : i <= n
    OBVIOUS
  <2>2. differ # {}
    BY <1>3, SeqEqual
  <2> HIDE DEF differ
  <2>3. PICK i \in differ : \A j \in differ : i <= j
    BY <2>1, <2>2, Least
  <2>4. i \in 1..n /\ s[i] # t[i] /\ \A j \in 1..(i - 1) : s[j] = t[j]
    BY <2>3 DEF differ
  <2>5. s[i] < t[i] \/ t[i] < s[i]
    BY <2>4, <1>1
  <2> QED
    BY <2>4, <2>5 DEF LexLess
<1>4. ASSUME NEW u \in Seq(Int), Len(u) = n, LexLess(s, t), LexLess(t, u)
      PROVE  LexLess(s, u)
  <2>1. PICK i \in 1..n : s[i] < t[i] /\ \A j \in 1..(i - 1) : s[j] = t[j]
    BY <1>4 DEF LexLess
  <2>2. PICK k \in 1..n : t[k] < u[k] /\ \A j \in 1..(k - 1) : t[j] = u[j]
    BY <1>4 DEF LexLess
  <2>3. /\ s[i] \in Int /\ t[i] \in Int /\ u[i] \in Int
        /\ s[k] \in Int /\ t[k] \in Int /\ u[k] \in Int
    BY <1>1, <1>4
  <2>4. CASE i < k
    <3>1. i \in 1..(k - 1)
      BY <2>4
    <3>2. s[i] < u[i]
      BY <3>1, <2>1, <2>2, <2>3
    <3>3. \A j \in 1..(i - 1) : j \in 1..(k - 1)
      BY <2>4
    <3>4. \A j \in 1..(i - 1) : s[j] = u[j]
      BY <3>3, <2>1, <2>2
    <3> QED
      BY <3>2, <3>4 DEF LexLess
  <2>5. CASE k <= i
    <3>1. s[k] < u[k]
      <4>1. CASE k = i
        BY <4>1, <2>1, <2>2, <2>3
      <4>2. CASE k < i
        BY <4>2, <2>1, <2>2, <2>3
      <4> QED
        BY <4>1, <4>2, <2>5
    <3>2. \A j \in 1..(k - 1) : j \in 1..(i - 1)
      BY <2>5
    <3>3. \A j \in 1..(k - 1) : s[j] = u[j]
      BY <3>2, <2>1, <2>2
    <3> QED
      BY <3>1, <3>3 DEF LexLess
  <2> QED
    BY <2>4, <2>5
<1> QED
  BY <1>2, <1>3, <1>4

(* A row's key is as wide as its order, and names the row.                 *)
LEMMA KeysNameRows ==
  ASSUME BookInv, NEW r, NEW row \in Kin(r)
  PROVE  /\ KeyOf(row, r) \in Seq(Int) /\ Len(KeyOf(row, r)) = Width(r)
         /\ KeyOf(row, r) # None
         /\ \A other \in Kin(r) : KeyOf(row, r) = KeyOf(other, r) => row = other
<1>1. row.id \in Int /\ \A other \in Kin(r) : other.id = row.id => other = row
  BY DEF BookInv, Kin
<1>2. r.read # "accounts" => XactOf(row) \in Int /\ row.date \in Int
  BY DEF BookInv, Kin, XactOf
<1>3. KeyOf(row, r) \in Seq(Int) /\ Len(KeyOf(row, r)) = Width(r)
  BY <1>1, <1>2 DEF KeyOf, Width, Arity
<1>4. KeyOf(row, r) # None
  BY <1>3, SentinelsAssumption
<1>5. \A other \in Kin(r) : KeyOf(row, r) = KeyOf(other, r) => row.id = other.id
  BY DEF KeyOf
<1> QED
  BY <1>1, <1>3, <1>4, <1>5

(* The rows of a listing are in a strict total order.                      *)
LEMMA RowsAreOrdered ==
  ASSUME BookInv, NEW r, NEW a \in Kin(r), NEW b \in Kin(r)
  PROVE  /\ ~Before(a, a, r)
         /\ a # b => Before(a, b, r) \/ Before(b, a, r)
         /\ \A d \in Kin(r) : Before(a, b, r) /\ Before(b, d, r) => Before(a, d, r)
<1>1. Width(r) \in Nat
  BY DEF Width, Arity
<1>2. \A row \in Kin(r) : KeyOf(row, r) \in Seq(Int) /\ Len(KeyOf(row, r)) = Width(r)
  BY KeysNameRows
<1>3. a # b => KeyOf(a, r) # KeyOf(b, r)
  BY KeysNameRows
<1> QED
  BY <1>1, <1>2, <1>3, LexOrder DEF Before

(* What a read may list are rows of its kind.                              *)
LEMMA RowsAreKin ==
  ASSUME NEW r, NEW x
  PROVE  RowsOf(r, x) \subseteq Kin(r)
BY DEF RowsOf, Kin, VisibleAccounts, Below, VisibleEntries

(* What a read was pinned at it finds again as the book grows.             *)
LEMMA ListingsStay ==
  ASSUME BookInv, BookGrows
  PROVE  /\ \A r : Kin(r) \subseteq Kin(r)'
         /\ \A r : \A row \in Kin(r) : KeyOf(row, r)' = KeyOf(row, r)
         /\ \A r : \A a, b \in Kin(r) : Before(a, b, r)' <=> Before(a, b, r)
         /\ \A r, x : r.read # "accounts" /\ AtMostTheHorizon(x) =>
              RowsOf(r, x)' = RowsOf(r, x)
         /\ \A r, x : r.read = "accounts" => RowsOf(r, x) \subseteq RowsOf(r, x)'
         /\ \A book, a : a \in VisibleAccounts(book)' /\ a.by \in Committed =>
              a \in VisibleAccounts(book)
         /\ \A book, a : a \in VisibleAccounts(book) => a \in VisibleAccounts(book)'
         /\ ChartVersions \subseteq ChartVersions'
<1> USE DEF BookGrows
<1>1. \A r : Kin(r) \subseteq Kin(r)'
  BY DEF Kin
<1>2. \A r : \A row \in Kin(r) : KeyOf(row, r)' = KeyOf(row, r)
  BY DEF Kin, KeyOf, XactOf
<1>3. \A r : \A a, b \in Kin(r) : Before(a, b, r)' <=> Before(a, b, r)
  BY <1>2 DEF Before
<1>4. \A book, a : a \in VisibleAccounts(book) => a \in VisibleAccounts(book)'
  BY DEF VisibleAccounts
<1>5. \A book, a : a \in VisibleAccounts(book)' /\ a.by \in Committed =>
        a \in VisibleAccounts(book)
  BY DEF VisibleAccounts, Visible, Committed
<1>6. \A r, x : r.read # "accounts" /\ AtMostTheHorizon(x) =>
        RowsOf(r, x)' = RowsOf(r, x)
  BY DEF RowsOf
<1>7. \A r, x : r.read = "accounts" => RowsOf(r, x) \subseteq RowsOf(r, x)'
  BY <1>4 DEF RowsOf
<1>9. ChartVersions \subseteq ChartVersions'
  BY DEF ChartVersions
<1> QED
  BY <1>1, <1>2, <1>3, <1>4, <1>5, <1>6, <1>7, <1>9

(* What a report sums at a cursor stays, a close committed since included: *)
(* a transaction below the cursor is over, and its close row with it.      *)
LEMMA SumsStay ==
  ASSUME BookInv, BookGrows, ContentInv', ContentGrows,
         NEW r, NEW x, AtMostTheHorizon(x)
  PROVE  InScope(r, x)' = InScope(r, x) /\ Summed(r, x)' = Summed(r, x)
<1>1. InScope(r, x)' = InScope(r, x)
  BY DEF BookGrows, InScope, InRange
<1>2. ASSUME NEW e \in InScope(r, x) PROVE OfAClose(e)' <=> OfAClose(e)
  <2>1. e.by \in Committed /\ e.by \in Writers /\ e.by # None
    BY SentinelsAssumption DEF InScope, Below, VisibleEntries, Visible, BookInv, Committed
  <2>2. ASSUME NEW close \in closes', Visible(close)', close.names = e.by PROVE OfAClose(e)
    <3>1. close.by = e.by /\ close \in closes
      BY <2>1, <2>2 DEF ContentInv, ContentGrows
    <3>2. Visible(close)
      BY <2>1, <3>1 DEF Visible, Committed
    <3> QED
      BY <2>2, <3>1, <3>2 DEF OfAClose
  <2>3. ASSUME NEW close \in closes, Visible(close), close.names = e.by PROVE OfAClose(e)'
    <3>1. close \in closes' /\ Visible(close)'
      BY <2>3 DEF ContentGrows
    <3> QED
      BY <2>3, <3>1 DEF OfAClose
  <2> QED
    BY <2>2, <2>3 DEF OfAClose
<1> QED
  BY <1>1, <1>2 DEF Summed

(* A face that presents all it reaches keeps its rows and their amounts,   *)
(* and a row that is new sums nothing.                                     *)
LEMMA FacesStay ==
  ASSUME BookInv, BookInv', BookGrows, ContentInv, ContentInv', ContentGrows,
         NEW r, r.read \in Faces, NEW x, AtMostTheHorizon(x), NEW v, ~Unpresented(r, x, v)
  PROVE  /\ ~Unpresented(r, x, v)'
         /\ FaceOf(r, x, v) \subseteq FaceOf(r, x, v)'
         /\ \A row \in FaceOf(r, x, v)' \ FaceOf(r, x, v) : row.amount = {}
<1>1. InScope(r, x)' = InScope(r, x) /\ Summed(r, x)' = Summed(r, x)
  BY SumsStay
<1>2. \A row \in lines' \cup presentation' : Visible(row)' => Live(row)'
  <2>1. \A row \in lines' \cup presentation' : row.by \in Writers
    BY DEF ContentInv
  <2> QED
    BY <2>1, SentinelsAssumption DEF Visible, Live
<1>3. ASSUME NEW e \in InScope(r, x)
      PROVE  /\ \E a \in VisibleAccounts(r.tenant) :
                  a.id = e.account /\ \A b \in accounts' : b.id = e.account => b = a
             /\ PresentedBy(e, v)' = PresentedBy(e, v) /\ PresentedBy(e, v) # {}
             /\ \A currency : InCurrency(e, currency)' <=> InCurrency(e, currency)
  <2>1. e \in entries /\ e.book = r.tenant
    BY DEF InScope, Below, VisibleEntries
  <2>2. PICK a \in VisibleAccounts(r.tenant) : a.id = e.account
    BY <2>1 DEF ContentInv
  <2>3. a \in accounts /\ a \in accounts'
    BY <2>2 DEF VisibleAccounts, BookGrows
  <2>4. \A b \in accounts' : b.id = e.account => b = a
    BY <2>2, <2>3 DEF BookInv
  <2>5. \A b \in accounts : b.id = e.account => b = a
    BY <2>2, <2>3 DEF BookInv
  <2>6. PICK q \in PresentedBy(e, v) : TRUE
    BY DEF Unpresented
  <2>7. q \in presentation /\ Visible(q) /\ q.version = v /\ q.type = a.type
    BY <2>5, <2>6 DEF PresentedBy
  <2>8. q \in presentation' /\ Visible(q)' /\ Live(q)'
    BY <2>7, <1>2 DEF ContentGrows
  <2>9. PresentedBy(e, v) \subseteq PresentedBy(e, v)'
    BY DEF PresentedBy, ContentGrows, BookGrows
  <2>10. ASSUME NEW o \in PresentedBy(e, v)' PROVE o = q
    <3>1. o \in presentation' /\ Visible(o)' /\ o.version = v /\ o.type = a.type
      BY <2>4, <2>10 DEF PresentedBy
    <3> QED
      BY <3>1, <2>7, <2>8, <1>2 DEF ContentInv
  <2>11. \A currency : InCurrency(e, currency)' <=> InCurrency(e, currency)
    BY <2>2, <2>3, <2>4, <2>5 DEF InCurrency
  <2> QED
    BY <2>2, <2>4, <2>6, <2>9, <2>10, <2>11
<1>4. ~Unpresented(r, x, v)'
  BY <1>1, <1>3 DEF Unpresented
<1>5. Summed(r, x) \subseteq InScope(r, x)
  BY DEF Summed
<1>6. \A currency, line : AmountOf(currency, line, r, x, v)' = AmountOf(currency, line, r, x, v)
  BY <1>1, <1>3, <1>5 DEF AmountOf, OnLine
<1>7. Scopes(r.tenant) \subseteq Scopes(r.tenant)' /\ LinesOf(r.read, v) \subseteq LinesOf(r.read, v)'
  <2>1. VisibleAccounts(r.tenant) \subseteq VisibleAccounts(r.tenant)'
    BY ListingsStay
  <2>2. \A l \in lines : Visible(l) => l \in lines' /\ Visible(l)'
    BY DEF ContentGrows
  <2> QED
    BY <2>1, <2>2 DEF Scopes, LinesOf
<1>8. ASSUME NEW currency, NEW line, line \in LinesOf(r.read, v)',
             NEW e \in AmountOf(currency, line, r, x, v)
      PROVE  currency \in Scopes(r.tenant) /\ line \in LinesOf(r.read, v)
  <2>1. e \in InScope(r, x) /\ InCurrency(e, currency) /\ OnLine(e, line, v)
    BY <1>8, <1>5 DEF AmountOf
  <2>2. PICK a \in VisibleAccounts(r.tenant) :
          a.id = e.account /\ \A b \in accounts' : b.id = e.account => b = a
    BY <2>1, <1>3
  <2>3. a.currency = currency
    BY <2>1, <2>2 DEF InCurrency, BookGrows
  <2>4. currency \in Scopes(r.tenant)
    BY <2>3 DEF Scopes
  <2>5. PICK q \in PresentedBy(e, v) :
          q.line = line \/ (line = Earnings /\ q.face = "income_statement")
    BY <2>1 DEF OnLine
  <2>6. CASE line = Earnings
    <3>1. \A l \in lines' : l.line # Earnings
      BY DEF ContentInv
    <3> QED
      BY <2>4, <2>6, <3>1, <1>8 DEF LinesOf
  <2>7. CASE line # Earnings
    <3>1. q.line = line /\ q \in presentation /\ Visible(q) /\ q.version = v
      BY <2>5, <2>7 DEF PresentedBy
    <3>2. PICK l \in lines : Carries(l, q)
      BY <3>1 DEF ContentInv
    <3>3. Visible(l) /\ l.version = v /\ l.line = line /\ l.face = q.face
      BY <3>1, <3>2 DEF Carries, Visible
    <3>4. PICK k \in lines' : Visible(k)' /\ k.version = v /\ k.line = line /\ k.face = r.read
      BY <2>7, <1>8 DEF LinesOf
    <3>5. l \in lines' /\ Visible(l)'
      BY <3>2, <3>3 DEF ContentGrows
    <3>6. l = k
      BY <3>3, <3>4, <3>5, <1>2 DEF ContentInv
    <3> QED
      BY <2>4, <3>2, <3>3, <3>4, <3>6 DEF LinesOf
  <2> QED
    BY <2>6, <2>7
<1>9. FaceOf(r, x, v) \subseteq FaceOf(r, x, v)'
  BY <1>6, <1>7 DEF FaceOf
<1>10. ASSUME NEW row \in FaceOf(r, x, v)' \ FaceOf(r, x, v) PROVE row.amount = {}
  <2>1. PICK currency \in Scopes(r.tenant)', line \in LinesOf(r.read, v)' :
          row = [currency |-> currency, line |-> line,
                 amount |-> AmountOf(currency, line, r, x, v)]
    BY <1>6, <1>10 DEF FaceOf
  <2>2. currency \notin Scopes(r.tenant) \/ line \notin LinesOf(r.read, v)
    BY <2>1, <1>10 DEF FaceOf
  <2>3. AmountOf(currency, line, r, x, v) = {}
    BY <2>1, <2>2, <1>8
  <2> QED
    BY <2>1, <2>3
<1> QED
  BY <1>4, <1>9, <1>10

(* What stands goes on standing as the book grows.                         *)
LEMMA AnswersStand ==
  ASSUME BookInv, BookInv', BookGrows, ContentInv, ContentInv', ContentGrows,
         NEW answer, NEW r, NEW p, AtMostTheHorizon(p.cursor), Stands(answer, r, p)
  PROVE  Stands(answer, r, p)'
<1>1. CASE r.read \in Faces
  <2> DEFINE old == FaceOf(r, p.cursor, p.version)
  <2>1. /\ ~Unpresented(r, p.cursor, p.version) /\ answer.version = p.version
        /\ answer.rows \subseteq old /\ \A row \in old \ answer.rows : row.amount = {}
    BY <1>1 DEF Stands
  <2>2. /\ ~Unpresented(r, p.cursor, p.version)'
        /\ old \subseteq old' /\ \A row \in old' \ old : row.amount = {}
    BY <1>1, <2>1, FacesStay
  <2> HIDE DEF old
  <2>3. answer.rows \subseteq old' /\ \A row \in old' \ answer.rows : row.amount = {}
    BY <2>1, <2>2
  <2> QED
    BY <1>1, <2>1, <2>2, <2>3 DEF Stands, old
<1>2. CASE r.read \notin Faces
  <2>1. Summed(r, p.cursor)' = Summed(r, p.cursor)
    BY SumsStay
  <2> QED
    BY <1>2, <2>1 DEF Stands, TrialBalance
<1> QED
  BY <1>1, <1>2

(* An insert and the end of a transaction keep what rows say of others.    *)
LEMMA InsertKeepsContent ==
  ASSUME BookInv, BookGrows, ContentInv, NEW w \in Writers, Insert(w)
  PROVE  ContentInv' /\ ContentGrows
<1>1. PICK p \in Plans[w] :
        /\ status[w] = "idle" /\ status'[w] = "running"
        /\ \A u \in Writers \ {w} : status'[u] = status[u]
        /\ \A i \in DOMAIN p.legs : \E a \in VisibleAccounts(p.book) : a.id = p.legs[i].account
        /\ p.chart # None => MayWrite(p.chart)
        /\ IsInsert(w, p)
  BY DEF Insert, BookInv
<1> DEFINE rows == closes \cup lines \cup presentation
           v == VersionOf(p.chart)
<1>2. \A row \in rows : row.by # w /\ row.by \in Writers
  BY <1>1 DEF ContentInv
<1>3. \A row \in rows : (Visible(row)' <=> Visible(row)) /\ (Live(row)' <=> Live(row))
  BY <1>1, <1>2 DEF Visible, Live
<1>4. w \notin Committed
  BY <1>1, SentinelsAssumption DEF Committed
<1>5. closes \subseteq closes' /\ \A close \in closes' \ closes : close.by = w /\ close.names = w
  BY <1>1 DEF IsInsert, CloseRecord
<1>6. /\ lines \subseteq lines'
      /\ \A l \in lines' \ lines :
           /\ p.chart # None
           /\ \E k \in p.chart.lines :
                l = [version |-> v, line |-> k.line, face |-> k.face, by |-> w]
  BY <1>1 DEF IsInsert, WritesChart
<1>7. /\ presentation \subseteq presentation'
      /\ \A q \in presentation' \ presentation :
           /\ p.chart # None
           /\ \E o \in p.chart.presents :
                q = [version |-> v, type |-> o.type, line |-> o.line, face |-> o.face, by |-> w]
  BY <1>1 DEF IsInsert, WritesChart
<1>8. p.chart # None =>
        /\ \A k \in p.chart.lines :
             [version |-> v, line |-> k.line, face |-> k.face, by |-> w] \in lines'
        /\ \A k \in p.chart.lines : k.line # Earnings
        /\ \A k, l \in p.chart.lines : k.line = l.line => k = l
        /\ \A q, o \in p.chart.presents : q.type = o.type => q = o
  BY <1>1, PlansAssumption DEF IsInsert, WritesChart
<1>9. p.chart # None =>
        /\ \A row \in lines, l \in p.chart.lines :
             Live(row) /\ row.version = v => row.line # l.line
        /\ \A row \in presentation, q \in p.chart.presents :
             Live(row) /\ row.version = v => row.type # q.type
        /\ \A q \in p.chart.presents :
             \/ \E l \in p.chart.lines : l.line = q.line /\ l.face = q.face
             \/ \E row \in lines : /\ Visible(row) /\ row.version = v
                                   /\ row.line = q.line /\ row.face = q.face
  BY <1>1 DEF MayWrite
<1> HIDE DEF v
<1>10. ContentGrows
  BY <1>3, <1>4, <1>5, <1>6, <1>7 DEF ContentGrows
<1>11. ASSUME NEW e \in entries' PROVE (\E a \in VisibleAccounts(e.book) : a.id = e.account)'
  <2>1. \E a \in VisibleAccounts(e.book) : a.id = e.account
    <3>1. CASE e \in entries
      BY <3>1 DEF ContentInv
    <3>2. CASE e \notin entries
      <4>1. PICK i \in DOMAIN p.legs : e.book = p.book /\ e.account = p.legs[i].account
        BY <1>1, <3>2, <1>11 DEF IsInsert
      <4> QED
        BY <1>1, <4>1
    <3> QED
      BY <3>1, <3>2
  <2>2. VisibleAccounts(e.book) \subseteq VisibleAccounts(e.book)'
    BY ListingsStay
  <2> QED
    BY <2>1, <2>2
<1>12. \A row \in rows' : row.by \in Writers /\ status'[row.by] # "idle"
  <2>1. \A row \in rows : row.by \in Writers /\ status[row.by] # "idle"
    BY DEF ContentInv
  <2>2. \A row \in rows' \ rows : row.by = w
    BY <1>5, <1>6, <1>7
  <2> QED
    BY <2>1, <2>2, <1>1
<1>13. /\ \A close \in closes' : close.names = close.by
       /\ \A l \in lines' : l.line # Earnings
  BY <1>5, <1>6, <1>8 DEF ContentInv
<1>14. ASSUME NEW l \in lines', NEW k \in lines', Live(l)', Live(k)',
              l.version = k.version, l.line = k.line
       PROVE  l = k
  <2>1. CASE l \in lines /\ k \in lines
    BY <2>1, <1>3, <1>14 DEF ContentInv
  <2>2. CASE l \notin lines /\ k \notin lines
    BY <2>2, <1>6, <1>8, <1>14
  <2>3. CASE l \in lines /\ k \notin lines
    BY <2>3, <1>3, <1>6, <1>9, <1>14
  <2>4. CASE l \notin lines /\ k \in lines
    BY <2>4, <1>3, <1>6, <1>9, <1>14
  <2> QED
    BY <2>1, <2>2, <2>3, <2>4
<1>15. ASSUME NEW q \in presentation', NEW o \in presentation', Live(q)', Live(o)',
              q.version = o.version, q.type = o.type
       PROVE  q = o
  <2>1. CASE q \in presentation /\ o \in presentation
    BY <2>1, <1>3, <1>15 DEF ContentInv
  <2>2. CASE q \notin presentation /\ o \notin presentation
    BY <2>2, <1>7, <1>8, <1>15
  <2>3. CASE q \in presentation /\ o \notin presentation
    BY <2>3, <1>3, <1>7, <1>9, <1>15
  <2>4. CASE q \notin presentation /\ o \in presentation
    BY <2>4, <1>3, <1>7, <1>9, <1>15
  <2> QED
    BY <2>1, <2>2, <2>3, <2>4
<1>16. ASSUME NEW q \in presentation' PROVE \E l \in lines' : Carries(l, q)'
  <2>1. CASE q \in presentation
    <3>1. PICK l \in lines : Carries(l, q)
      BY <2>1 DEF ContentInv
    <3>2. l \in lines' /\ (Visible(l) => Visible(l)')
      BY <3>1, <1>3, <1>6
    <3> QED
      BY <3>1, <3>2 DEF Carries
  <2>2. CASE q \notin presentation
    <3>1. PICK o \in p.chart.presents :
            p.chart # None
            /\ q = [version |-> v, type |-> o.type, line |-> o.line, face |-> o.face, by |-> w]
      BY <2>2, <1>7, <1>16
    <3>2. CASE \E l \in p.chart.lines : l.line = o.line /\ l.face = o.face
      <4>1. PICK l \in p.chart.lines : l.line = o.line /\ l.face = o.face
        BY <3>2
      <4>2. PICK k \in lines' : k = [version |-> v, line |-> l.line, face |-> l.face, by |-> w]
        BY <3>1, <1>8
      <4> QED
        BY <3>1, <4>1, <4>2 DEF Carries
    <3>3. CASE \E row \in lines : /\ Visible(row) /\ row.version = v
                                  /\ row.line = o.line /\ row.face = o.face
      <4>1. PICK row \in lines : /\ Visible(row) /\ row.version = v
                                  /\ row.line = o.line /\ row.face = o.face
        BY <3>3
      <4>2. row \in lines' /\ Visible(row)'
        BY <4>1, <1>3, <1>6
      <4> QED
        BY <3>1, <4>1, <4>2 DEF Carries
    <3> QED
      BY <3>1, <3>2, <3>3, <1>9
  <2> QED
    BY <2>1, <2>2
<1> QED
  BY <1>10, <1>11, <1>12, <1>13, <1>14, <1>15, <1>16 DEF ContentInv

(* A transaction that ends changes no row.                                 *)
LEMMA EndKeepsContent ==
  ASSUME BookInv, BookGrows, ContentInv, NEW w \in Writers, End(w)
  PROVE  ContentInv' /\ ContentGrows
<1>1. /\ status[w] = "running" /\ status'[w] \in {"committed", "aborted"}
      /\ \A u \in Writers \ {w} : status'[u] = status[u]
      /\ UNCHANGED written
  BY DEF End, BookInv
<1> DEFINE rows == closes \cup lines \cup presentation
<1>2. \A row \in rows : row.by \in Writers /\ status[row.by] # "idle" /\ row.by # None
  BY SentinelsAssumption DEF ContentInv
<1>3. \A row \in rows : (Visible(row) => Visible(row)') /\ (Live(row)' => Live(row))
  BY <1>1, <1>2 DEF Visible, Live
<1>4. ContentGrows
  BY <1>1, <1>3 DEF ContentGrows, written
<1>5. \A e \in entries : (\E a \in VisibleAccounts(e.book) : a.id = e.account)'
  <2>1. \A book : VisibleAccounts(book) \subseteq VisibleAccounts(book)'
    BY ListingsStay
  <2> QED
    BY <2>1 DEF ContentInv
<1>6. \A row \in rows : status'[row.by] # "idle"
  BY <1>1, <1>2
<1>7. \A q \in presentation : \E l \in lines : Carries(l, q)'
  BY <1>3 DEF ContentInv, Carries
<1> QED
  BY <1>1, <1>3, <1>4, <1>5, <1>6, <1>7 DEF ContentInv, written

-----------------------------------------------------------------------------
(* Bystanders *)

Same(c) ==
  /\ at'[c] = at[c] /\ ask'[c] = ask[c] /\ pin'[c] = pin[c] /\ pages'[c] = pages[c]
  /\ next'[c] = next[c] /\ verdict'[c] = verdict[c] /\ began'[c] = began[c]
  /\ first'[c] = first[c] /\ timeouts'[c] = timeouts[c]

(* A walk keeps what it listed and owes what it owed.                      *)
LEMMA WalkStays ==
  ASSUME BookInv, BookGrows, NEW c \in Clients, Same(c),
         Shape(c), PinHolds(c), WalkHolds(c)
  PROVE  WalkHolds(c)'
<1> SUFFICES ASSUME at[c] # "idle", ask[c].read \in Listings
             PROVE  WalkHolds(c)'
  BY DEF WalkHolds, Same
<1> PICK r, x : r = ask[c] /\ x = pin[c].cursor
  OBVIOUS
<1>0. r = ask'[c] /\ x = pin'[c].cursor
  BY DEF Same
<1>1. /\ pages[c] \in Seq(SUBSET Kin(r)) /\ InOrder(c)
      /\ \A row \in Listed(c) : row \in RowsOf(r, x)
  BY DEF WalkHolds
<1>2. Listed(c)' = Listed(c) /\ Key(c)' = Key(c) /\ (Complete(c)' <=> Complete(c))
      /\ (Answered(c)' <=> Answered(c))
  BY DEF Same, Listed, Key, Complete, Answered
<1>3. \A i \in DOMAIN pages[c] : pages[c][i] \subseteq Kin(r)
  BY <1>1, ElementOfSeq
<1>4. Listed(c) \subseteq Kin(r)
  BY <1>3 DEF Listed
<1>5. pages'[c] \in Seq(SUBSET Kin(r)')
  <2>1. Kin(r) \subseteq Kin(r)'
    BY ListingsStay
  <2> DEFINE S == SUBSET Kin(r)
             T == SUBSET (Kin(r)')
  <2>2. S \subseteq T /\ pages[c] \in Seq(S)
    BY <2>1, <1>1
  <2> HIDE DEF S, T
  <2>3. pages[c] \in Seq(T)
    BY <2>2
  <2> QED
    BY <2>3 DEF S, T, Same
<1>6. InOrder(c)'
  BY <1>0, <1>1, <1>3, ListingsStay DEF InOrder, Same
<1>7. r.read = "statement" /\ x # None => RowsOf(r, x)' = RowsOf(r, x)
  BY ListingsStay DEF PinHolds
<1>8. r.read = "statement" /\ pages[c] # <<>> => x # None
  BY DEF WalkHolds
<1>9. pages[c] = <<>> => Listed(c) = {}
  BY DEF Listed
<1>10. \A row \in Listed(c) : row \in RowsOf(r, x)'
  BY <1>1, <1>7, <1>8, <1>9, ListingsStay DEF Listings
<1>11. pages[c] # <<>> => Due(c)' \subseteq Due(c)
  BY <1>0, <1>2, <1>7, <1>8, ListingsStay DEF Due, Same, Shape, Listings
<1>12. ASSUME at[c] # "done", pages[c] # <<>>
       PROVE  \E last \in Listed(c)' : ListedUpTo(c, last)'
  <2>1. PICK last \in Listed(c) : ListedUpTo(c, last)
    BY <1>12 DEF WalkHolds
  <2>2. KeyOf(last, r)' = KeyOf(last, r)
        /\ \A row \in Kin(r) : Before(last, row, r)' <=> Before(last, row, r)
    BY <2>1, <1>4, ListingsStay
  <2>3. \A row \in Due(c)' : row \in Due(c) /\ row \in Kin(r)
    BY <1>11, <1>12, RowsAreKin DEF Due, RowsOf, Kin, VisibleAccounts
  <2>4. ListedUpTo(c, last)'
    BY <1>0, <2>1, <2>2, <2>3, <1>2, <1>4 DEF ListedUpTo, Same
  <2> QED
    BY <2>1, <2>4, <1>2
<1>13. ASSUME Answered(c)
       PROVE  /\ pages[c] # <<>> /\ Due(c)' \subseteq Listed(c)
              /\ r.read = "statement" /\ Len(pages[c]) = 1 =>
                   Listed(c) = RowsOf(r, x)'
  BY <1>7, <1>8, <1>11, <1>13 DEF WalkHolds
<1>14. /\ at[c] = "answered" => pages[c] # <<>>
       /\ (at[c] \in {"asked", "pinned"} /\ r.after # None /\ pages[c] = <<>> =>
             r.read = "statement" /\ Len(r.after) # Arity(r))
       /\ (r.read = "statement" /\ pages[c] # <<>> /\ at[c] \in {"asked", "pinned"} =>
             r.cursor = IF r.resend THEN x ELSE None)
  BY DEF WalkHolds
<1> QED
  BY <1>0, <1>2, <1>5, <1>6, <1>8, <1>10, <1>12, <1>13, <1>14 DEF WalkHolds, Same

(* A report that stands goes on standing.                                  *)
LEMMA ReportsStay ==
  ASSUME BookInv, BookInv', BookGrows, ContentInv, ContentInv', ContentGrows,
         NEW c \in Clients, Same(c),
         Shape(c), PinHolds(c), ReportHolds(c), RepeatHolds(c)
  PROVE  ReportHolds(c)' /\ RepeatHolds(c)'
<1> PICK r, p : r = ask[c] /\ p = pin[c]
  OBVIOUS
<1>1. r = ask'[c] /\ p = pin'[c]
  BY DEF Same
<1>2. \A answer : AtMostTheHorizon(p.cursor) /\ Stands(answer, r, p) => Stands(answer, r, p)'
  BY AnswersStand
<1>3. r.read # "accounts" /\ AtMostTheHorizon(p.cursor)
        => RowsOf(r, p.cursor)' = RowsOf(r, p.cursor)
  BY ListingsStay
<1>4. ReportHolds(c)'
  <2>1. ASSUME Answered(c), r.read \in Reports
        PROVE  AtMostTheHorizon(p.cursor)
    BY <2>1 DEF PinHolds, Answered, Reports, PinnedReads, Faces
  <2> QED
    BY <2>1, <1>1, <1>2 DEF ReportHolds, Answered, Same, Reports
<1>5. RepeatHolds(c)'
  <2>1. ASSUME first[c] # None PROVE AtMostTheHorizon(p.cursor)
    BY <2>1 DEF PinHolds, RepeatHolds
  <2> QED
    BY <2>1, <1>1, <1>2, <1>3 DEF RepeatHolds, Same, Answered
<1> QED
  BY <1>4, <1>5

(* What was not there when a read began is not found to have been.         *)
LEMMA HeardStays ==
  ASSUME BookInv, BookGrows, NEW c \in Clients, Same(c), Shape(c), Heard(c)
  PROVE  Heard(c)'
<1>1. at[c] = "done" => began[c] \subseteq Committed
  BY DEF Shape
<1>2. \A book : \A a \in VisibleAccounts(book)' :
        a.by \in Committed => a \in VisibleAccounts(book)
  BY ListingsStay
<1>3. \A chart \in charts' : chart.by \in Committed => chart \in charts
  BY DEF BookGrows
<1>4. at[c] = "done" /\ verdict[c] = "account_unknown" =>
        \A a \in VisibleAccounts(ask[c].tenant)' : a.id = ask[c].account => a.by \notin began[c]
  BY <1>1, <1>2 DEF Heard, Same
<1>5. at[c] = "done" /\ verdict[c] = "chart_version_unknown" =>
        \A chart \in charts' :
          ask[c].version \in {None, chart.version} => chart.by \notin began[c]
  BY <1>1, <1>3 DEF Heard
<1> QED
  BY <1>4, <1>5 DEF Heard, Same

(* A client that does nothing keeps its invariant as the book grows.       *)
LEMMA Bystander ==
  ASSUME BookInv, BookInv', BookGrows, ContentInv, ContentInv', ContentGrows, NEW c \in Clients, Same(c), ClientInv(c)
  PROVE  ClientInv(c)'
<1> USE DEF ClientInv
<1>1. Shape(c)'
  <2>1. Committed \subseteq Committed'
    BY DEF BookGrows
  <2> QED
    BY <2>1 DEF Shape, Same
<1>2. PinHolds(c)'
  <2>1. ChartVersions \subseteq ChartVersions'
    BY ListingsStay
  <2> QED
    BY <2>1 DEF PinHolds, Same, BookGrows
<1> QED
  BY <1>1, <1>2, WalkStays, ReportsStay, HeardStays

(* A read of one client leaves the others as they are.                     *)
Act(c) ==
  /\ UNCHANGED writing
  /\ \A d \in Clients \ {c} : Same(d)

(* A read is an act of its client alone.                                   *)
LEMMA ReadsAct ==
  ASSUME ClientVars, NEW c \in Clients, Read(c)
  PROVE  Act(c) /\ ClientVars'
<1> USE DEF ClientVars, Act, Same, Finish
<1>1. CASE Ask(c)
  BY <1>1 DEF Ask
<1>2. CASE RefuseOnItsFace(c)
  BY <1>2 DEF RefuseOnItsFace
<1>3. CASE RefuseTheBounds(c)
  BY <1>3 DEF RefuseTheBounds
<1>4. CASE PinTheRead(c)
  BY <1>4 DEF PinTheRead
<1>5. CASE RefuseTheStatement(c)
  BY <1>5 DEF RefuseTheStatement
<1>6. CASE AnswerAPage(c)
  BY <1>6 DEF AnswerAPage
<1>7. CASE Follow(c)
  BY <1>7 DEF Follow
<1>8. CASE AnswerAReport(c)
  BY <1>8 DEF AnswerAReport
<1>9. CASE AnswerNow(c)
  BY <1>9 DEF AnswerNow
<1>10. CASE AnswerTheCursor(c)
  BY <1>10 DEF AnswerTheCursor
<1>11. CASE TimeOut(c)
  BY <1>11 DEF TimeOut
<1>12. CASE Reissue(c)
  BY <1>12 DEF Reissue
<1> QED
  BY <1>1, <1>2, <1>3, <1>4, <1>5, <1>6, <1>7, <1>8, <1>9, <1>10, <1>11, <1>12 DEF Read

-----------------------------------------------------------------------------
(* Refusals and timeouts *)

(* A walk is what it is while its client's pages, pin and request stay.    *)
LEMMA SameWalk ==
  ASSUME UNCHANGED <<writing, ask, pin, pages, began>>, NEW c
  PROVE  /\ Listed(c)' = Listed(c) /\ Due(c)' = Due(c) /\ (Complete(c)' <=> Complete(c))
         /\ InOrder(c)' <=> InOrder(c)
         /\ \A last : Key(c)' = Key(c) => (ListedUpTo(c, last)' <=> ListedUpTo(c, last))
<1>1. Listed(c)' = Listed(c) /\ (Complete(c)' <=> Complete(c))
  BY DEF Listed, Complete
<1>2. Due(c)' = Due(c)
  BY <1>1, ReadsWriteNothing DEF Due
<1>3. InOrder(c)' <=> InOrder(c)
  BY ReadsWriteNothing DEF InOrder
<1> QED
  BY <1>1, <1>2, <1>3, ReadsWriteNothing DEF ListedUpTo

(* A refusal or a timeout gives nothing and owes nothing more.             *)
LEMMA NothingGiven ==
  ASSUME NEW c \in Clients, ClientInv(c),
         UNCHANGED <<writing, ask, pin, pages, next, began, first>>,
         at[c] \in {"asked", "pinned"}, at'[c] \in {"asked", "done"}, ~Answered(c)'
  PROVE  PinHolds(c)' /\ WalkHolds(c)' /\ ReportHolds(c)' /\ RepeatHolds(c)'
<1> USE DEF ClientInv
<1>1. PinHolds(c)'
  BY ReadsWriteNothing DEF PinHolds, Answered
<1>2. WalkHolds(c)'
  <2>1. Key(c)' = Key(c)
    BY DEF Key
  <2>2. RowsOf(ask[c], pin[c].cursor)' = RowsOf(ask[c], pin[c].cursor)
        /\ Kin(ask[c])' = Kin(ask[c])
    BY ReadsWriteNothing
  <2> QED
    BY <2>1, <2>2, SameWalk DEF WalkHolds
<1>3. ReportHolds(c)'
  BY DEF ReportHolds, Answered
<1>4. RepeatHolds(c)'
  <2>1. RowsOf(ask[c], pin[c].cursor)' = RowsOf(ask[c], pin[c].cursor)
    BY ReadsWriteNothing
  <2>2. \A answer : Stands(answer, ask[c], pin[c])' <=> Stands(answer, ask[c], pin[c])
    BY ReadsWriteNothing
  <2> QED
    BY <2>1, <2>2 DEF RepeatHolds
<1> QED
  BY <1>1, <1>2, <1>3, <1>4

(* A refusal that is true of the book leaves its client's invariant.       *)
LEMMA Refused ==
  ASSUME ClientVars, NEW c \in Clients, ClientInv(c),
         UNCHANGED <<writing, ask, pin, pages, next, began, first, timeouts>>,
         at[c] \in {"asked", "pinned"},
         NEW outcome \in Outcomes \ {"answered"}, Finish(c, outcome), Heard(c)'
  PROVE  ClientInv(c)'
<1>1. at'[c] = "done" /\ verdict'[c] = outcome
  BY DEF Finish, ClientVars
<1>2. ~Answered(c)'
  BY <1>1 DEF Answered
<1>3. PinHolds(c)' /\ WalkHolds(c)' /\ ReportHolds(c)' /\ RepeatHolds(c)'
  BY <1>1, <1>2, NothingGiven
<1>4. Shape(c)'
  <2>1. Committed' = Committed /\ outcome # None
    BY ReadsWriteNothing, SentinelsAssumption
  <2> QED
    BY <2>1, <1>1 DEF ClientInv, Shape
<1> QED
  BY <1>3, <1>4 DEF ClientInv

(* A request refused on its face was malformed.                            *)
LEMMA FaceRefused ==
  ASSUME ClientVars, NEW c \in Clients, ClientInv(c), RefuseOnItsFace(c)
  PROVE  ClientInv(c)'
<1>1. at'[c] = "done" /\ verdict'[c] = "invalid_request" /\ ask'[c] = ask[c]
  BY DEF RefuseOnItsFace, Finish, ClientVars
<1>2. ask[c].read \in PinnedReads \cup {"accounts"}
  BY DEF RefuseOnItsFace, RefusedOnItsFace, PinnedReads, Listings
<1>3. Heard(c)'
  BY <1>1, <1>2 DEF Heard
<1> QED
  BY <1>3, Refused DEF RefuseOnItsFace, Outcomes

(* A refusal of the bounds names a cursor or a chart version not there.    *)
LEMMA BoundsRefused ==
  ASSUME BookInv, ClientVars, NEW c \in Clients, ClientInv(c), RefuseTheBounds(c)
  PROVE  ClientInv(c)'
<1> DEFINE outcome == BoundsRefusal(ask[c])
<1>1. at'[c] = "done" /\ verdict'[c] = outcome /\ ask'[c] = ask[c] /\ began'[c] = began[c]
      /\ outcome # None /\ ask[c].read \in PinnedReads
  BY DEF RefuseTheBounds, Finish, ClientVars
<1>2. /\ outcome \in {"invalid_request", "cursor_invalid", "chart_version_unknown"}
      /\ outcome = "chart_version_unknown" => ask[c].read \in Faces /\ NewestChart = None
  BY <1>1 DEF BoundsRefusal, CursorRefusal
<1> HIDE DEF outcome
<1>3. charts' = charts /\ Committed' = Committed /\ began[c] \subseteq Committed
  BY ReadsWriteNothing DEF RefuseTheBounds, ClientInv, Shape, writing, written
<1>4. NewestChart = None => \A chart \in charts : chart.by \notin Committed
  <2>1. NewestChart = None => ChartVersions = {}
    BY NewestIsNewest
  <2> QED
    BY <2>1 DEF ChartVersions, Visible, Committed
<1>5. Heard(c)'
  BY <1>1, <1>2, <1>3, <1>4 DEF Heard
<1>6. outcome \in Outcomes \ {"answered"}
  BY <1>2 DEF Outcomes
<1> QED
  BY <1>5, <1>6, Refused DEF RefuseTheBounds, outcome

(* What a statement did not find was not committed when the read began.    *)
LEMMA StatementRefused ==
  ASSUME BookInv, ClientVars, NEW c \in Clients, ClientInv(c), RefuseTheStatement(c)
  PROVE  ClientInv(c)'
<1> USE DEF ClientInv
<1>1. /\ ask' = ask /\ began' = began /\ UNCHANGED writing
      /\ at[c] \in {"asked", "pinned"} /\ AtItsStatement(c)
  BY DEF RefuseTheStatement, AtItsStatement
<1>2. began[c] \subseteq Committed /\ Committed' = Committed
  BY <1>1, ReadsWriteNothing DEF Shape
<1>3. CASE Unknown(ask[c]) /\ Finish(c, IF ask[c].read = "transaction" THEN "transaction_unknown"
                                                                       ELSE "account_unknown")
  <2> DEFINE outcome == IF ask[c].read = "transaction" THEN "transaction_unknown"
                                                       ELSE "account_unknown"
  <2>1. at'[c] = "done" /\ verdict'[c] = outcome
    BY <1>3 DEF Finish, ClientVars
  <2>2. ask[c].read = "transaction" => ask[c].transaction \notin began[c]
    BY <1>1, <1>2, <1>3, SentinelsAssumption DEF Unknown, Shape, Committed
  <2>3. ask[c].read # "transaction" =>
          /\ ask[c].read \in {"statement", "balance"}
          /\ VisibleAccounts(ask[c].tenant)' = VisibleAccounts(ask[c].tenant)
          /\ \A a \in VisibleAccounts(ask[c].tenant) : a.id # ask[c].account
    BY <1>1, <1>3, ReadsWriteNothing DEF Unknown, AccountsAsked
  <2>4. Heard(c)'
    BY <1>1, <2>1, <2>2, <2>3 DEF Heard
  <2>5. outcome \in Outcomes \ {"answered"}
    BY DEF Outcomes
  <2> QED
    BY <1>1, <1>3, <2>4, <2>5, Refused DEF RefuseTheStatement
<1>4. CASE FaceRefusal(ask[c], pin[c]) # None /\ Finish(c, FaceRefusal(ask[c], pin[c]))
  <2> DEFINE outcome == FaceRefusal(ask[c], pin[c])
  <2>1. at'[c] = "done" /\ verdict'[c] = outcome
    BY <1>4 DEF Finish, ClientVars
  <2>2. /\ ask[c].read \in Faces
        /\ outcome \in {"chart_version_unknown", "chart_version_incomplete"}
        /\ outcome = "chart_version_unknown" => Resolved(pin[c].version) \notin ChartVersions
    BY <1>4 DEF FaceRefusal
  <2> HIDE DEF outcome
  <2>3. at[c] = "pinned"
    BY <1>1, <2>2 DEF AtItsStatement, Faces, PinnedReads
  <2>4. ASSUME outcome = "chart_version_unknown"
        PROVE  ask[c].version # None /\ ask[c].version \notin ChartVersions
    <3>1. None \notin ChartVersions
      BY NewestIsNewest, SentinelsAssumption
    <3>2. ask[c].version # None
      BY <2>2, <2>3, <2>4, <3>1 DEF PinHolds, Resolved
    <3> QED
      BY <2>2, <2>3, <2>4, <3>2 DEF PinHolds, Resolved
  <2>5. outcome = "chart_version_unknown" =>
          \A chart \in charts : ask[c].version \in {None, chart.version} => chart.by \notin Committed
    BY <2>4 DEF ChartVersions, Visible, Committed
  <2>6. Heard(c)'
    BY <1>1, <1>2, <2>1, <2>2, <2>5 DEF Heard, writing, written
  <2>7. outcome \in Outcomes \ {"answered"}
    BY <2>2 DEF Outcomes
  <2> QED
    BY <1>1, <1>4, <2>6, <2>7, Refused DEF RefuseTheStatement, outcome
<1> QED
  BY <1>3, <1>4 DEF RefuseTheStatement

(* A read that timed out is asked again, at the page it had come to.       *)
LEMMA TimedOut ==
  ASSUME ClientVars, NEW c \in Clients, ClientInv(c), TimeOut(c)
  PROVE  ClientInv(c)'
<1> USE DEF ClientInv, TimeOut
<1>1. /\ at[c] \in {"asked", "pinned"} /\ at'[c] = "asked" /\ verdict'[c] = verdict[c]
      /\ timeouts'[c] = timeouts[c] + 1 /\ timeouts[c] < MaxTimeouts
  BY DEF ClientVars
<1>2. ~Answered(c)'
  BY <1>1 DEF Answered
<1>3. PinHolds(c)' /\ WalkHolds(c)' /\ ReportHolds(c)' /\ RepeatHolds(c)'
  BY <1>1, <1>2, NothingGiven
<1>4. Shape(c)'
  <2>1. Committed' = Committed
    BY ReadsWriteNothing
  <2>2. timeouts'[c] \in 0..MaxTimeouts
    BY <1>1, BoundsAssumption DEF Shape
  <2> QED
    BY <2>1, <2>2, <1>1 DEF Shape
<1>5. Heard(c)'
  BY <1>1 DEF Heard
<1> QED
  BY <1>3, <1>4, <1>5

-----------------------------------------------------------------------------
(* Requests and pins *)

(* A request starts with nothing pinned and nothing listed.                *)
LEMMA Asked ==
  ASSUME ClientVars, NEW c \in Clients, ClientInv(c), Ask(c)
  PROVE  ClientInv(c)'
<1>1. PICK r \in Menu[c] :
        /\ at[c] = "idle" /\ at'[c] = "asked" /\ ask'[c] = r /\ began'[c] = Committed
        /\ UNCHANGED <<writing, pin, pages, next, verdict, first, timeouts>>
  BY DEF Ask, ClientVars, Committed
<1>2. pages'[c] = <<>> /\ pin'[c] = NoPin /\ first'[c] = None
  BY <1>1 DEF ClientInv, Shape
<1>3. Shape(c)'
  <2>1. Committed' = Committed
    BY <1>1, ReadsWriteNothing
  <2> QED
    BY <2>1, <1>1, <1>2, MenuAssumption DEF ClientInv, Shape
<1>4. PinHolds(c)' /\ RepeatHolds(c)'
  BY <1>1, <1>2 DEF PinHolds, RepeatHolds, NoPin
<1>5. WalkHolds(c)'
  <2>1. Listed(c)' = {} /\ ~Answered(c)' /\ InOrder(c)'
    BY <1>1, <1>2 DEF Listed, Answered, InOrder
  <2>2. pages'[c] \in Seq(SUBSET (Kin(ask[c])'))
    BY <1>2
  <2>3. ask'[c].after # None => ask'[c].read = "statement" /\ Len(ask'[c].after) # Arity(ask'[c])
    BY <1>1, MenuAssumption
  <2> QED
    BY <2>1, <2>2, <2>3, <1>1, <1>2 DEF WalkHolds
<1>6. ReportHolds(c)' /\ Heard(c)'
  BY <1>1, <1>2 DEF ReportHolds, Heard, Answered
<1> QED
  BY <1>3, <1>4, <1>5, <1>6 DEF ClientInv

(* The rows of a listing below a later cursor are those below the earlier  *)
(* one and, in recorded order, rows past them all.                         *)
LEMMA LaterCursor ==
  ASSUME BookInv, NEW r, r.read # "accounts", NEW x \in Nat, NEW y \in Nat, x <= y
  PROVE  /\ RowsOf(r, x) \subseteq RowsOf(r, y)
         /\ r.axis = "recorded" =>
              \A row \in RowsOf(r, x), other \in RowsOf(r, y) \ RowsOf(r, x) :
                Before(row, other, r)
<1>1. \A e \in entries : XactOf(e) \in Nat
  BY DEF BookInv, XactOf
<1>2. \A e \in VisibleEntries(r.tenant) : e \in entries /\ (XactOf(e) < x => XactOf(e) < y)
  BY <1>1 DEF VisibleEntries
<1>3. RowsOf(r, x) \subseteq RowsOf(r, y)
  BY <1>2 DEF RowsOf, Below
<1>4. ASSUME r.axis = "recorded", NEW row \in RowsOf(r, x), NEW other \in RowsOf(r, y) \ RowsOf(r, x)
      PROVE  Before(row, other, r)
  <2>1. /\ XactOf(row) \in Nat /\ XactOf(other) \in Nat
        /\ XactOf(row) < x /\ ~(XactOf(other) < x)
    BY <1>2, <1>1, <1>4 DEF RowsOf, Below
  <2>2. XactOf(row) < XactOf(other)
    BY <2>1
  <2> QED
    BY <2>2, <1>4 DEF Before, KeyOf, LexLess
<1> QED
  BY <1>3, <1>4

(* A cursor sent back pins the read where it was pinned, and a fresh one   *)
(* no lower than any it was pinned at before.                              *)
LEMMA PinRises ==
  ASSUME BookInv, NEW c \in Clients, ClientInv(c),
         at[c] = "asked", BoundsRefusal(ask[c]) = None
  PROVE  LET y == PinnedCursor(ask[c]) IN
         /\ AtMostTheHorizon(y) /\ y \in Nat
         /\ pin[c].cursor # None /\ ask[c].cursor = pin[c].cursor => y = pin[c].cursor
         /\ pin[c].cursor # None /\ ask[c].cursor = None =>
              pin[c].cursor \in Nat /\ pin[c].cursor <= y
<1> USE DEF ClientInv, PinHolds
<1>1. AtMostTheHorizon(Horizon) /\ \A x \in Nat : x <= Horizon <=> AtMostTheHorizon(x)
  BY HorizonIsOldest
<1>2. CASE ask[c].cursor = None
  BY <1>1, <1>2 DEF PinnedCursor, AtMostTheHorizon
<1>3. CASE ask[c].cursor # None
  <2>0. CursorRefusal(ask[c]) = None /\ None \notin {"invalid_request", "cursor_invalid"}
    BY SentinelsAssumption DEF BoundsRefusal, Outcomes
  <2>1. ask[c].cursor \in Int /\ -Wrap <= ask[c].cursor /\ Wrap \in Nat
    BY <1>3, <2>0, BoundsAssumption DEF Shape, CursorRefusal
  <2>2. Parsed(ask[c].cursor) \in Nat
    BY <2>1 DEF Parsed
  <2>3. Horizon \in Nat /\ ~(Parsed(ask[c].cursor) > Horizon)
    BY <1>1, <1>3, <2>0, <2>1 DEF CursorRefusal, AtMostTheHorizon
  <2>4. AtMostTheHorizon(Parsed(ask[c].cursor))
    BY <2>2, <2>3, <1>1
  <2>5. pin[c].cursor # None => pin[c].cursor \in Nat
    BY DEF AtMostTheHorizon
  <2>6. pin[c].cursor # None /\ ask[c].cursor = pin[c].cursor => Parsed(ask[c].cursor) = pin[c].cursor
    BY <2>5 DEF Parsed
  <2> QED
    BY <1>3, <2>2, <2>4, <2>6 DEF PinnedCursor
<1> QED
  BY <1>2, <1>3

(* A read is pinned at or below the horizon, or where it was before.       *)
LEMMA Pinned ==
  ASSUME BookInv, ClientVars, NEW c \in Clients, ClientInv(c), PinTheRead(c)
  PROVE  ClientInv(c)'
<1> USE DEF ClientInv
<1> PICK r, x, y, v : /\ r = ask[c] /\ x = pin[c].cursor
                      /\ y = PinnedCursor(ask[c]) /\ v = NamedVersion(ask[c])
  OBVIOUS
<1>1. /\ at[c] = "asked" /\ at'[c] = "pinned" /\ ask'[c] = r
      /\ pin'[c] = [cursor |-> y, version |-> v]
      /\ r.read \in PinnedReads /\ ~RefusedOnItsFace(r) /\ BoundsRefusal(r) = None
      /\ UNCHANGED <<writing, ask, pages, next, verdict, began, first, timeouts>>
  BY DEF PinTheRead, ClientVars
<1>2. /\ AtMostTheHorizon(y) /\ y \in Nat /\ y # None
      /\ x # None /\ r.cursor = x => y = x
      /\ x # None /\ r.cursor = None => x \in Nat /\ x <= y
  BY <1>1, PinRises, SentinelsAssumption
<1>3. Shape(c)'
  <2>1. Committed' = Committed
    BY <1>1, ReadsWriteNothing
  <2> QED
    BY <2>1, <1>1 DEF Shape
<1>4. PinHolds(c)'
  <2>1. AtMostTheHorizon(y)' /\ ChartVersions' = ChartVersions
    BY <1>1, <1>2, ReadsWriteNothing
  <2>2. v # None => r.read \in Faces
    BY DEF NamedVersion
  <2>3. r.read \in Faces /\ r.version = None => v \in ChartVersions
    <3>1. r.read \in Faces /\ r.version = None => NewestChart # None
      BY <1>1, SentinelsAssumption DEF BoundsRefusal, Outcomes
    <3> QED
      BY <3>1, NewestIsNewest DEF NamedVersion
  <2>4. r.read \in Faces /\ r.version # None => v = r.version
    BY DEF NamedVersion
  <2> QED
    BY <2>1, <2>2, <2>3, <2>4, <1>1, <1>2 DEF PinHolds
<1>5. first[c] # None => y = x /\ v = pin[c].version /\ r.cursor = x /\ x # None
  BY <1>2 DEF RepeatHolds, NamedVersion, PinHolds
<1>6. RepeatHolds(c)'
  <2> PICK p : p = pin[c]
    OBVIOUS
  <2>1. ASSUME first[c] # None PROVE pin'[c] = p
    BY <2>1, <1>1, <1>5 DEF Shape
  <2>2. RowsOf(r, x)' = RowsOf(r, x)
        /\ \A answer : Stands(answer, r, p)' <=> Stands(answer, r, p)
    BY <1>1, ReadsWriteNothing
  <2> QED
    BY <2>1, <2>2, <1>1, <1>2, <1>5 DEF RepeatHolds, Answered
<1>7. ReportHolds(c)' /\ Heard(c)'
  BY <1>1 DEF ReportHolds, Heard, Answered
<1>8. ASSUME r.read \in Listings PROVE WalkHolds(c)'
  <2>1. r.read = "statement"
    BY <1>1, <1>8 DEF PinnedReads, Listings, Faces
  <2>2. /\ \A z : RowsOf(r, z)' = RowsOf(r, z)
        /\ Kin(r)' = Kin(r) /\ \A row : KeyOf(row, r)' = KeyOf(row, r)
        /\ \A a, b : Before(a, b, r)' <=> Before(a, b, r)
    BY <1>1, ReadsWriteNothing
  <2>3. /\ Listed(c)' = Listed(c) /\ (InOrder(c)' <=> InOrder(c))
        /\ Key(c)' = Key(c) /\ ~Answered(c)'
    BY <1>1, <2>2 DEF Listed, InOrder, Key, Answered
  <2>4. pages[c] = <<>> => Listed(c) = {}
    BY DEF Listed
  <2>5. ASSUME pages[c] # <<>>
        PROVE  /\ x # None
               /\ y = x \/ (~r.resend /\ x \in Nat /\ x <= y)
    <3>1. x # None /\ r.cursor = IF r.resend THEN x ELSE None
      BY <1>1, <1>8, <2>1, <2>5 DEF WalkHolds
    <3> QED
      BY <3>1, <1>2, <1>1 DEF Shape
  <2>6. ASSUME pages[c] # <<>> PROVE RowsOf(r, x) \subseteq RowsOf(r, y)
    BY <2>1, <2>5, <2>6, <1>2, LaterCursor
  <2>7. \A row \in Listed(c) : row \in RowsOf(r, y)
    BY <1>1, <1>8, <2>4, <2>6 DEF WalkHolds
  <2>8. ASSUME pages[c] # <<>>, NEW last \in Listed(c), ListedUpTo(c, last),
               NEW row \in Due(c)', ~Before(last, row, r)
        PROVE  row \in Listed(c)
    <3>1. row \in RowsOf(r, y) /\ (r.resend \/ r.axis = "recorded")
      BY <1>1, <2>1, <2>2, <2>8 DEF Due, Complete
    <3>2. last \in RowsOf(r, x)
      BY <1>1, <1>8, <2>8 DEF WalkHolds
    <3>3. row \in RowsOf(r, x)
      BY <2>1, <2>5, <2>8, <3>1, <3>2, <1>2, LaterCursor
    <3>4. row \in Due(c)
      BY <2>1, <3>1, <3>3 DEF Due, Complete
    <3> QED
      BY <2>8, <3>4 DEF ListedUpTo
  <2>9. pages[c] # <<>> => \E last \in Listed(c) : ListedUpTo(c, last)'
    <3> SUFFICES ASSUME pages[c] # <<>> PROVE \E last \in Listed(c) : ListedUpTo(c, last)'
      OBVIOUS
    <3>1. PICK last \in Listed(c) : ListedUpTo(c, last)
      BY <1>1, <1>8 DEF WalkHolds
    <3>2. ListedUpTo(c, last)'
      BY <1>1, <2>2, <2>3, <2>8, <3>1 DEF ListedUpTo
    <3> QED
      BY <3>2
  <2> QED
    BY <1>1, <1>2, <1>8, <2>2, <2>3, <2>5, <2>7, <2>9 DEF WalkHolds
<1>9. WalkHolds(c)'
  BY <1>1, <1>8 DEF WalkHolds
<1> QED
  BY <1>3, <1>4, <1>6, <1>7, <1>9

-----------------------------------------------------------------------------
(* Pages *)

(* A page follows what was listed, leaves out nothing between, and the     *)
(* last one leaves out nothing at all.                                     *)
LEMMA NextPage ==
  ASSUME BookInv, NEW c \in Clients, ClientInv(c), AtItsStatement(c),
         ask[c].read \in Listings,
         NEW page \in SUBSET RowsLeft(ask[c], pin[c].cursor),
         IsPage(page, RowsLeft(ask[c], pin[c].cursor), ask[c])
  PROVE  /\ \A row \in Listed(c), other \in page : Before(row, other, ask[c])
         /\ Listed(c) \subseteq Kin(ask[c]) /\ page \subseteq Kin(ask[c])
         /\ \A row \in Due(c) :
              row \in Listed(c) \/ row \in RowsLeft(ask[c], pin[c].cursor)
         /\ \A row \in Due(c), last \in page :
              ~Before(last, row, ask[c]) => row \in Listed(c) \cup page
         /\ pages[c] = <<>> =>
              RowsLeft(ask[c], pin[c].cursor) = RowsOf(ask[c], pin[c].cursor)
<1> USE DEF ClientInv
<1> PICK r, x : r = ask[c] /\ x = pin[c].cursor
  OBVIOUS
<1>1. at[c] \in {"asked", "pinned"} /\ ~RefusedOnItsFace(r) /\ Key(c) = r.after
  BY DEF AtItsStatement, Shape, Key
<1>2. \A row \in Listed(c) : row \in RowsOf(r, x) /\ row \in Kin(r)
  BY <1>1, RowsAreKin DEF WalkHolds
<1>3. \A row \in RowsLeft(r, x) : row \in RowsOf(r, x) /\ row \in Kin(r) /\ Beyond(row, r)
  BY RowsAreKin DEF RowsLeft
<1>4. Due(c) \subseteq RowsOf(r, x)
  BY DEF Due, RowsOf
<1>5. CASE pages[c] = <<>>
  <2>1. r.after = None
    BY <1>1, <1>5 DEF WalkHolds, RefusedOnItsFace
  <2>2. RowsLeft(r, x) = RowsOf(r, x)
    BY <2>1 DEF RowsLeft, Beyond
  <2>3. Listed(c) = {}
    BY <1>5 DEF Listed
  <2>4. ASSUME NEW row \in Due(c), NEW last \in page, ~Before(last, row, r)
        PROVE  row \in page
    <3>1. row \in RowsLeft(r, x) /\ row \in Kin(r) /\ last \in Kin(r)
      BY <1>3, <1>4, <2>2
    <3>2. row \notin page => ~Before(row, last, r)
      BY <3>1 DEF IsPage
    <3> QED
      BY <2>4, <3>1, <3>2, RowsAreOrdered
  <2> QED
    BY <1>3, <1>4, <2>2, <2>3, <2>4
<1>6. CASE pages[c] # <<>>
  <2>1. PICK last \in Listed(c) : ListedUpTo(c, last)
    BY <1>1, <1>6 DEF WalkHolds
  <2>2. last \in Kin(r) /\ r.after = KeyOf(last, r) /\ r.after # None
    BY <1>1, <1>2, <2>1, KeysNameRows DEF ListedUpTo
  <2>3. \A row : Beyond(row, r) <=> Before(last, row, r)
    BY <2>2 DEF Beyond, Before
  <2>4. ASSUME NEW row \in Listed(c), NEW other \in page PROVE Before(row, other, r)
    <3>1. ~Before(last, row, r) /\ Before(last, other, r) /\ row \in Kin(r) /\ other \in Kin(r)
      BY <1>2, <1>3, <2>1, <2>3 DEF ListedUpTo
    <3>2. row = last \/ Before(row, last, r)
      BY <2>2, <3>1, RowsAreOrdered
    <3> QED
      BY <2>2, <3>1, <3>2, RowsAreOrdered
  <2>5. ASSUME NEW row \in Due(c) PROVE row \in Listed(c) \/ row \in RowsLeft(r, x)
    BY <1>4, <2>1, <2>3 DEF ListedUpTo, RowsLeft
  <2>6. ASSUME NEW row \in Due(c), NEW end \in page, ~Before(end, row, r)
        PROVE  row \in Listed(c) \cup page
    <3>1. CASE row \in Listed(c)
      BY <3>1
    <3>2. CASE row \notin Listed(c)
      <4>1. row \in RowsLeft(r, x) /\ row \in Kin(r) /\ end \in Kin(r)
        BY <3>2, <2>5, <1>3
      <4>2. row \notin page => ~Before(row, end, r)
        BY <4>1 DEF IsPage
      <4> QED
        BY <2>6, <4>1, <4>2, RowsAreOrdered
    <3> QED
      BY <3>1, <3>2
  <2> QED
    BY <1>2, <1>3, <1>6, <2>4, <2>5, <2>6
<1> QED
  BY <1>5, <1>6

(* A page continues the walk, and the last one completes it.               *)
LEMMA PageAnswered ==
  ASSUME BookInv, ClientVars, NEW c \in Clients, ClientInv(c), AnswerAPage(c)
  PROVE  ClientInv(c)'
<1> USE DEF ClientInv
<1> PICK r, x : r = ask[c] /\ x = pin[c].cursor
  OBVIOUS
<1> DEFINE rows == RowsLeft(ask[c], pin[c].cursor)
<1>1. PICK page, key :
        /\ page \in SUBSET rows /\ key \in {None} \cup {KeyOf(row, r) : row \in page}
        /\ AtItsStatement(c) /\ r.read \in Listings /\ ~Unknown(r)
        /\ IsPage(page, rows, r) /\ IsNextKey(key, page, r)
        /\ pages'[c] = Append(pages[c], page) /\ next'[c] = key
        /\ (key = None => at'[c] = "done" /\ verdict'[c] = "answered")
        /\ (key # None => at'[c] = "answered" /\ verdict'[c] = verdict[c])
        /\ UNCHANGED <<writing, ask, pin, began, first, timeouts>>
  BY DEF AnswerAPage, Finish, ClientVars
<1>2. /\ \A row \in Listed(c), other \in page : Before(row, other, r)
      /\ Listed(c) \subseteq Kin(r) /\ page \subseteq Kin(r)
      /\ \A row \in Due(c) : row \in Listed(c) \/ row \in rows
      /\ \A row \in Due(c), last \in page :
           ~Before(last, row, r) => row \in Listed(c) \cup page
      /\ pages[c] = <<>> => rows = RowsOf(r, x)
  BY <1>1, NextPage
<1>3. /\ \A z : RowsOf(r, z)' = RowsOf(r, z)
      /\ Kin(r)' = Kin(r) /\ \A row : KeyOf(row, r)' = KeyOf(row, r)
      /\ \A a, b : Before(a, b, r)' <=> Before(a, b, r)
      /\ Committed' = Committed
  BY <1>1, ReadsWriteNothing
<1>4. at[c] \in {"asked", "pinned"} /\ (r.read = "statement" => at[c] = "pinned")
  BY <1>1 DEF AtItsStatement, PinnedReads
<1> HIDE DEF rows
<1>5. /\ pages[c] \in Seq(SUBSET Kin(r)) /\ InOrder(c)
      /\ \A row \in Listed(c) : row \in RowsOf(r, x)
  BY <1>1, <1>4 DEF WalkHolds
<1> DEFINE n == Len(pages[c])
<1>6. /\ n \in Nat /\ DOMAIN pages[c] = 1..n /\ DOMAIN pages'[c] = 1..(n + 1)
      /\ \A i \in 1..n : pages'[c][i] = pages[c][i]
      /\ pages'[c][n + 1] = page
      /\ pages'[c] \in Seq(SUBSET Kin(r)) /\ pages'[c] # <<>> /\ Len(pages'[c]) = n + 1
  <2> DEFINE S == SUBSET Kin(r)
  <2>1. pages[c] \in Seq(S) /\ page \in S
    BY <1>2, <1>5
  <2> HIDE DEF S
  <2>2. pages'[c] = Append(pages[c], page)
    BY <1>1
  <2>3. Append(pages[c], page) \in Seq(S) /\ Len(Append(pages[c], page)) = n + 1
        /\ \A i \in 1..n : Append(pages[c], page)[i] = pages[c][i]
        /\ Append(pages[c], page)[n + 1] = page
    BY <2>1, AppendProperties
  <2>4. n \in Nat /\ DOMAIN pages[c] = 1..n /\ DOMAIN Append(pages[c], page) = 1..(n + 1)
    BY <2>1, <2>3, LenProperties
  <2>5. Append(pages[c], page) # <<>>
    BY <2>3, <2>4
  <2> HIDE DEF n
  <2> QED
    BY <2>2, <2>3, <2>4, <2>5 DEF S
<1> HIDE DEF n
<1>7. Listed(c)' = Listed(c) \cup page
  <2>1. 1..(n + 1) = 1..n \cup {n + 1}
    BY <1>6
  <2>2. Listed(c)' = UNION {pages'[c][i] : i \in 1..n \cup {n + 1}}
    BY <1>6, <2>1 DEF Listed
  <2>3. Listed(c) = UNION {pages'[c][i] : i \in 1..n}
    BY <1>6 DEF Listed
  <2> QED
    BY <2>2, <2>3, <1>6
<1>8. InOrder(c)'
  <2> SUFFICES ASSUME NEW i \in 1..(n + 1), NEW j \in 1..(n + 1), i < j,
                      NEW row \in pages'[c][i], NEW other \in pages'[c][j]
               PROVE  Before(row, other, r)
    BY <1>1, <1>3, <1>6 DEF InOrder
  <2>1. i \in 1..n /\ row \in pages[c][i]
    BY <1>6
  <2>2. CASE j = n + 1
    BY <2>1, <2>2, <1>2, <1>6 DEF Listed
  <2>3. CASE j # n + 1
    <3>1. j \in 1..n /\ other \in pages[c][j]
      BY <2>3, <1>6
    <3> QED
      BY <2>1, <3>1, <1>5, <1>6 DEF InOrder
  <2> QED
    BY <2>2, <2>3
<1>9. Due(c)' = Due(c)
  <2>1. UNCHANGED <<ask, pin, began>> /\ \A book : VisibleAccounts(book)' = VisibleAccounts(book)
    BY <1>1, ReadsWriteNothing
  <2>2. RowsOf(ask[c], pin[c].cursor)' = RowsOf(ask[c], pin[c].cursor)
    BY <1>3, <2>1
  <2> QED
    BY <2>1, <2>2 DEF Due, Complete
<1>10. page \subseteq rows /\ rows \subseteq RowsOf(r, x)
  BY <1>1 DEF rows, RowsLeft
<1>11. ASSUME key # None
       PROVE  \E last \in Listed(c)' : ListedUpTo(c, last)'
  <2>1. PICK last \in page : (\A row \in page : ~Before(last, row, r)) /\ key = KeyOf(last, r)
    BY <1>1, <1>11 DEF IsNextKey
  <2>2. Key(c)' = KeyOf(last, r)
    BY <1>1, <1>11, <2>1 DEF Key
  <2>3. \A row \in Listed(c) : ~Before(last, row, r)
    <3> SUFFICES ASSUME NEW row \in Listed(c), Before(last, row, r) PROVE FALSE
      OBVIOUS
    <3>1. row \in Kin(r) /\ last \in Kin(r) /\ Before(row, last, r)
      BY <1>2, <2>1
    <3> QED
      BY <3>1, RowsAreOrdered
  <2>4. ListedUpTo(c, last)'
    BY <1>1, <1>2, <1>3, <1>7, <1>9, <2>1, <2>2, <2>3 DEF ListedUpTo
  <2> QED
    BY <1>7, <2>4
<1>12. ASSUME key = None
       PROVE  /\ Due(c) \subseteq Listed(c) \cup page
              /\ Len(pages'[c]) = 1 => Listed(c) \cup page = RowsOf(r, x)
  <2>1. \A row \in page : KeyOf(row, r) # None
    BY <1>2, KeysNameRows
  <2>2. Cardinality(page) < LimitOf(r)
    BY <1>1, <1>12, <2>1 DEF IsNextKey
  <2>3. LimitOf(r) \in Int
    BY <1>4, BoundsAssumption DEF Shape, LimitOf
  <2>4. page = rows
    BY <1>1, <2>2, <2>3 DEF IsPage
  <2>5. Len(pages'[c]) = 1 => pages[c] = <<>>
    BY <1>5, <1>6, EmptySeq DEF n
  <2>6. pages[c] = <<>> => Listed(c) = {}
    BY DEF Listed
  <2>7. Due(c) \subseteq Listed(c) \cup page
    <3>1. \A row \in Due(c) : row \in Listed(c) \/ row \in rows
      BY <1>2
    <3> QED
      BY <2>4, <3>1
  <2>8. pages[c] = <<>> => rows = RowsOf(r, x)
    BY <1>2
  <2> QED
    BY <2>4, <2>5, <2>6, <2>7, <2>8
<1>13. \A row \in Listed(c)' : row \in RowsOf(r, x)
  BY <1>5, <1>7, <1>10
<1>14. r.read = "statement" => x # None
  BY <1>4 DEF PinHolds
<1>15. WalkHolds(c)'
  <2>1. Answered(c)' <=> key = None
    BY <1>1 DEF Answered
  <2> QED
    BY <1>1, <1>3, <1>6, <1>7, <1>8, <1>9, <1>11, <1>12, <1>13, <1>14, <2>1 DEF WalkHolds
<1>16. Shape(c)'
  <2>1. "answered" \in Outcomes /\ "answered" # None
    BY SentinelsAssumption DEF Outcomes
  <2> QED
    BY <1>1, <1>3, <1>4, <2>1 DEF Shape
<1>17. PinHolds(c)'
  <2>1. ChartVersions' = ChartVersions /\ \A z : AtMostTheHorizon(z)' <=> AtMostTheHorizon(z)
    BY <1>1, ReadsWriteNothing
  <2> QED
    BY <2>1, <1>1, <1>4, <1>14 DEF PinHolds, PinnedReads, Faces, Listings
<1>18. ReportHolds(c)'
  BY <1>1 DEF ReportHolds, Listings, Reports, Faces
<1>19. RepeatHolds(c)'
  <2>1. r.read \notin Reports
    BY <1>1 DEF Listings, Reports, Faces
  <2>2. UNCHANGED <<ask, pin, first>>
    BY <1>1
  <2>3. RowsOf(ask[c], pin[c].cursor)' = RowsOf(ask[c], pin[c].cursor)
    BY <1>3, <2>2
  <2> QED
    BY <2>1, <2>2, <2>3 DEF RepeatHolds
<1>20. Heard(c)'
  BY <1>1, <1>4 DEF Heard
<1> QED
  BY <1>15, <1>16, <1>17, <1>18, <1>19, <1>20

(* A client that follows a page asks for what comes after its last row.    *)
LEMMA Followed ==
  ASSUME ClientVars, NEW c \in Clients, ClientInv(c), Follow(c)
  PROVE  ClientInv(c)'
<1> USE DEF ClientInv
<1> PICK r, s, p : /\ r = ask[c] /\ p = pin[c]
                   /\ s = [ask[c] EXCEPT !.after = next[c],
                                         !.cursor = IF ask[c].resend THEN pin[c].cursor ELSE None]
  OBVIOUS
<1>1. /\ at[c] = "answered" /\ at'[c] = "asked" /\ ask'[c] = s
      /\ UNCHANGED <<writing, pin, pages, next, verdict, began, first, timeouts>>
  BY DEF Follow, ClientVars
<1>2. r.read \in Listings /\ DOMAIN r = RequestFields
  BY <1>1 DEF Shape
<1>3. /\ DOMAIN s = RequestFields /\ s.after = next[c]
      /\ s.cursor = IF r.resend THEN p.cursor ELSE None
      /\ s.read = r.read /\ s.tenant = r.tenant /\ s.account = r.account
      /\ s.transaction = r.transaction /\ s.axis = r.axis /\ s.limit = r.limit
      /\ s.from = r.from /\ s.to = r.to /\ s.version = r.version /\ s.resend = r.resend
  BY <1>2 DEF RequestFields
<1>4. p.cursor # None => AtMostTheHorizon(p.cursor) /\ p.cursor \in Nat
  BY DEF PinHolds, AtMostTheHorizon
<1>5. /\ Kin(s)' = Kin(r) /\ \A row : KeyOf(row, s)' = KeyOf(row, r)
      /\ \A a, b : Before(a, b, s)' <=> Before(a, b, r)
      /\ \A z : RowsOf(s, z)' = RowsOf(r, z)
      /\ Arity(s) = Arity(r)
  <2>1. /\ Kin(s)' = Kin(s) /\ \A row : KeyOf(row, s)' = KeyOf(row, s)
        /\ \A a, b : Before(a, b, s)' <=> Before(a, b, s)
        /\ \A z : RowsOf(s, z)' = RowsOf(s, z)
    BY <1>1, ReadsWriteNothing
  <2>2. \A row : KeyOf(row, s) = KeyOf(row, r)
    BY <1>3 DEF KeyOf
  <2>3. \A a, b : Before(a, b, s) <=> Before(a, b, r)
    BY <2>2 DEF Before
  <2>4. \A z : RowsOf(s, z) = RowsOf(r, z)
    BY <1>3 DEF RowsOf, InRange
  <2> QED
    BY <2>1, <2>2, <2>3, <2>4, <1>3 DEF Kin, Arity
<1>6. Shape(c)'
  <2>1. Committed' = Committed
    BY <1>1, ReadsWriteNothing
  <2> QED
    BY <2>1, <1>1, <1>3, <1>4, BoundsAssumption DEF Shape
<1>7. PinHolds(c)'
  <2>1. \A z : AtMostTheHorizon(z)' <=> AtMostTheHorizon(z)
    BY <1>1, ReadsWriteNothing
  <2> QED
    BY <2>1, <1>1, <1>2, <1>3 DEF PinHolds
<1>8. WalkHolds(c)'
  <2>1. Listed(c)' = Listed(c) /\ Key(c)' = Key(c) /\ ~Answered(c)'
    BY <1>1, <1>3 DEF Listed, Key, Answered
  <2>2. InOrder(c)' <=> InOrder(c)
    BY <1>1, <1>5 DEF InOrder
  <2>3. Due(c)' = Due(c)
    <3>1. \A book : VisibleAccounts(book)' = VisibleAccounts(book)
      BY <1>1, ReadsWriteNothing
    <3>2. RowsOf(s, p.cursor)' = RowsOf(r, p.cursor)
      BY <1>5
    <3> QED
      BY <1>1, <1>3, <3>1, <3>2 DEF Due, Complete
  <2>4. \A last : ListedUpTo(c, last) => ListedUpTo(c, last)'
    BY <1>1, <1>5, <2>1, <2>3 DEF ListedUpTo
  <2> QED
    BY <1>1, <1>2, <1>3, <1>5, <2>1, <2>2, <2>3, <2>4 DEF WalkHolds
<1>9. ReportHolds(c)' /\ Heard(c)'
  BY <1>1, <1>2, <1>3 DEF ReportHolds, Heard, Listings, Reports, Faces
<1>10. RepeatHolds(c)'
  <2>1. r.read \notin Reports
    BY <1>2 DEF Listings, Reports, Faces
  <2> QED
    BY <2>1, <1>1, <1>3, <1>5 DEF RepeatHolds
<1> QED
  BY <1>6, <1>7, <1>8, <1>9, <1>10

-----------------------------------------------------------------------------
(* Reports and reads of one statement *)

(* An answer that is no page of a listing ends the read.                   *)
LEMMA AnsweredAtOnce ==
  ASSUME ClientVars, NEW c \in Clients, ClientInv(c), AtItsStatement(c),
         ask[c].read \notin Listings, Finish(c, "answered"),
         UNCHANGED <<writing, ask, next, began, first, timeouts>>,
         PinHolds(c)', ReportHolds(c)', RepeatHolds(c)',
         pin'[c] = [cursor |-> pin'[c].cursor, version |-> pin'[c].version]
  PROVE  ClientInv(c)'
<1>1. at'[c] = "done" /\ verdict'[c] = "answered" /\ ask'[c] = ask[c]
  BY DEF Finish, ClientVars
<1>2. Shape(c)'
  <2>1. Committed' = Committed /\ "answered" \in Outcomes /\ "answered" # None
    BY ReadsWriteNothing, SentinelsAssumption DEF Outcomes
  <2>2. at[c] \in {"asked", "pinned"}
    BY DEF AtItsStatement
  <2> QED
    BY <2>1, <2>2, <1>1 DEF ClientInv, Shape
<1>3. WalkHolds(c)' /\ Heard(c)'
  BY <1>1 DEF WalkHolds, Heard
<1> QED
  BY <1>2, <1>3 DEF ClientInv

(* A report is the one its pin determines.                                 *)
LEMMA ReportAnswered ==
  ASSUME BookInv, ClientVars, NEW c \in Clients, ClientInv(c), AnswerAReport(c)
  PROVE  ClientInv(c)'
<1> USE DEF ClientInv
<1> PICK r, p : r = ask[c] /\ p = pin[c]
  OBVIOUS
<1>1. /\ r.read \in Reports /\ r.read \notin Listings /\ at[c] = "pinned"
      /\ UNCHANGED <<writing, ask, pin, next, began, first, timeouts>>
      /\ Finish(c, "answered") /\ AtItsStatement(c)
  BY DEF AnswerAReport, AtItsStatement, PinnedReads, Reports, Faces, Listings
<1>2. /\ at'[c] = "done" /\ verdict'[c] = "answered" /\ pages'[c] = Append(pages[c], Report(r, p))
      /\ pages[c] = <<>>
  BY <1>1 DEF AnswerAReport, Finish, ClientVars, ReportHolds, Answered
<1>3. r.read \notin Faces \/ p.version # None
  <2>1. ChartVersions \subseteq Nat /\ None \notin Nat
    BY NewestIsNewest, SentinelsAssumption
  <2> QED
    BY <2>1, <1>1 DEF PinHolds
<1>4. /\ ChartVersions' = ChartVersions
      /\ \A z : AtMostTheHorizon(z)' <=> AtMostTheHorizon(z)
      /\ \A z : RowsOf(r, z)' = RowsOf(r, z)
      /\ \A answer : Stands(answer, r, p)' <=> Stands(answer, r, p)
  BY <1>1, ReadsWriteNothing
<1>5. PinHolds(c)'
  BY <1>1, <1>2, <1>3, <1>4 DEF PinHolds
<1> PICK answer : answer = Report(r, p)
  OBVIOUS
<1>9. r.read \in Faces =>
        /\ answer = [version |-> p.version, rows |-> FaceOf(r, p.cursor, p.version)]
        /\ ~Unpresented(r, p.cursor, p.version)
  <2>1. r.read \in Faces => Resolved(p.version) = p.version
    BY <1>3 DEF Resolved
  <2>2. FaceRefusal(r, p) = None
    BY DEF AnswerAReport
  <2>3. "chart_version_unknown" # None /\ "chart_version_incomplete" # None
    BY SentinelsAssumption DEF Outcomes
  <2> QED
    BY <2>1, <2>2, <2>3 DEF Report, FaceRefusal
<1>10. Stands(answer, r, p)
  BY <1>9 DEF Stands, Report
<1>11. pages'[c] = <<answer>> /\ r.read # "cursor"
  BY <1>1, <1>2 DEF Reports, Faces
<1>6. ReportHolds(c)'
  BY <1>1, <1>2, <1>4, <1>10, <1>11 DEF ReportHolds, Answered
<1>7. RepeatHolds(c)'
  <2>1. ASSUME r.read \in Faces, Stands(first[c][1], r, p)
        PROVE  SameAmounts(first[c][1], answer)
    BY <2>1, <1>9 DEF Stands, SameAmounts
  <2> QED
    BY <2>1, <1>1, <1>4, <1>11 DEF RepeatHolds
<1>8. pin'[c] = [cursor |-> pin'[c].cursor, version |-> pin'[c].version]
  BY <1>1 DEF Shape
<1> QED
  BY <1>1, <1>5, <1>6, <1>7, <1>8, AnsweredAtOnce

(* A balance or a transaction is answered from what is committed.          *)
LEMMA NowAnswered ==
  ASSUME BookInv, ClientVars, NEW c \in Clients, ClientInv(c), AnswerNow(c)
  PROVE  ClientInv(c)'
<1> USE DEF ClientInv
<1>1. /\ ask[c].read \in {"balance", "transaction"} /\ AtItsStatement(c)
      /\ UNCHANGED <<writing, ask, pin, next, began, first, timeouts>>
      /\ Finish(c, "answered") /\ at'[c] = "done"
  BY DEF AnswerNow, Finish, ClientVars
<1>2. ask[c].read \notin Listings /\ ask[c].read \notin PinnedReads \cup Reports \cup Faces \cup {"cursor"}
  BY <1>1 DEF Listings, PinnedReads, Reports, Faces
<1>3. PinHolds(c)'
  BY <1>1, <1>2, ReadsWriteNothing DEF PinHolds
<1>4. ReportHolds(c)' /\ RepeatHolds(c)'
  BY <1>1, <1>2 DEF ReportHolds, RepeatHolds
<1>5. pin'[c] = [cursor |-> pin'[c].cursor, version |-> pin'[c].version]
  BY <1>1 DEF Shape, AtItsStatement
<1> QED
  BY <1>1, <1>2, <1>3, <1>4, <1>5, AnsweredAtOnce

(* The cursor answered is the horizon.                                     *)
LEMMA CursorAnswered ==
  ASSUME BookInv, ClientVars, NEW c \in Clients, ClientInv(c), AnswerTheCursor(c)
  PROVE  ClientInv(c)'
<1> USE DEF ClientInv
<1>1. /\ ask[c].read = "cursor" /\ AtItsStatement(c) /\ at[c] \in {"asked", "pinned"}
      /\ UNCHANGED <<writing, ask, pages, next, began, first, timeouts>>
      /\ Finish(c, "answered") /\ at'[c] = "done"
      /\ pin'[c] = [pin[c] EXCEPT !.cursor = Horizon]
  BY DEF AnswerTheCursor, AtItsStatement, Finish, ClientVars
<1>2. pin'[c] = [cursor |-> Horizon, version |-> pin[c].version]
  <2>1. pin[c] = [cursor |-> pin[c].cursor, version |-> pin[c].version]
    BY DEF Shape
  <2> QED
    BY <1>1, <2>1
<1>3. ask[c].read \notin Listings /\ ask[c].read \notin PinnedReads \cup Reports \cup Faces
  BY <1>1 DEF Listings, PinnedReads, Reports, Faces
<1>4. AtMostTheHorizon(Horizon) /\ Horizon # None
  BY HorizonIsOldest, SentinelsAssumption DEF AtMostTheHorizon
<1>5. PinHolds(c)'
  <2> PICK h : h = Horizon
    OBVIOUS
  <2>1. AtMostTheHorizon(h)'
    BY <1>1, <1>4, ReadsWriteNothing
  <2> QED
    BY <2>1, <1>1, <1>2, <1>3, <1>4 DEF PinHolds
<1>6. ReportHolds(c)' /\ RepeatHolds(c)'
  BY <1>1, <1>3 DEF ReportHolds, RepeatHolds
<1>7. pin'[c] = [cursor |-> pin'[c].cursor, version |-> pin'[c].version]
  BY <1>2
<1> QED
  BY <1>1, <1>3, <1>5, <1>6, <1>7, AnsweredAtOnce

(* A read issued again carries what it was answered with.                  *)
LEMMA Reissued ==
  ASSUME ClientVars, NEW c \in Clients, ClientInv(c), Reissue(c)
  PROVE  ClientInv(c)'
<1> USE DEF ClientInv
<1> PICK r, s, p : /\ r = ask[c] /\ p = pin[c]
                   /\ s = [ask[c] EXCEPT !.cursor = pin[c].cursor, !.version = pin[c].version,
                                         !.after = None,
                                         !.read = IF @ = "cursor" THEN "trial_balance" ELSE @,
                                         !.resend = TRUE]
  OBVIOUS
<1>1. /\ at[c] = "done" /\ verdict[c] = "answered" /\ first[c] = None
      /\ r.read \in PinnedReads \cup {"cursor"}
      /\ at'[c] = "asked" /\ ask'[c] = s /\ first'[c] = pages[c] /\ pages'[c] = <<>>
      /\ verdict'[c] = None
      /\ UNCHANGED <<writing, pin, next, began, timeouts>>
  BY DEF Reissue, ClientVars
<1>2. DOMAIN r = RequestFields
  BY <1>1 DEF Shape
<1>3. /\ DOMAIN s = RequestFields /\ s.after = None /\ s.resend = TRUE
      /\ s.cursor = p.cursor /\ s.version = p.version
      /\ s.read = IF r.read = "cursor" THEN "trial_balance" ELSE r.read
      /\ s.tenant = r.tenant /\ s.account = r.account /\ s.transaction = r.transaction
      /\ s.axis = r.axis /\ s.limit = r.limit /\ s.from = r.from /\ s.to = r.to
  BY <1>2 DEF RequestFields
<1>4. /\ s.read \in PinnedReads /\ (s.read \in Faces => r.read = s.read)
      /\ p.cursor # None /\ (s.read \in Faces => p.version # None)
  BY <1>1, <1>3 DEF PinHolds, PinnedReads, Faces
<1>5. p.cursor \in Nat
  BY <1>4 DEF PinHolds, AtMostTheHorizon
<1>6. Shape(c)'
  <2>1. Committed' = Committed
    BY <1>1, ReadsWriteNothing
  <2> QED
    BY <2>1, <1>1, <1>3, <1>4, <1>5, BoundsAssumption DEF Shape
<1>7. PinHolds(c)'
  <2>1. \A z : AtMostTheHorizon(z)' <=> AtMostTheHorizon(z)
    BY <1>1, ReadsWriteNothing
  <2>2. p.version # None => s.read \in Faces
    BY <1>3 DEF PinHolds, Faces
  <2> QED
    BY <2>1, <2>2, <1>1 DEF PinHolds
<1>8. WalkHolds(c)'
  <2>1. Listed(c)' = {} /\ InOrder(c)' /\ ~Answered(c)'
    BY <1>1 DEF Listed, InOrder, Answered
  <2>2. pages'[c] \in Seq(SUBSET (Kin(ask[c])'))
    BY <1>1
  <2> QED
    BY <2>1, <2>2, <1>1, <1>3 DEF WalkHolds
<1>9. ReportHolds(c)' /\ Heard(c)'
  BY <1>1 DEF ReportHolds, Heard, Answered
<1>10. ASSUME s.read = "statement", s.axis = "recorded" \/ Len(pages[c]) = 1
       PROVE  RowsIn(pages[c]) = RowsOf(s, p.cursor)'
  <2>1. r.read = "statement" /\ Answered(c)
    BY <1>1, <1>3, <1>10 DEF Answered
  <2>2. Listed(c) = RowsOf(r, p.cursor)
    BY <1>1, <1>3, <1>10, <2>1 DEF WalkHolds, Listings, Due, Complete
  <2>3. RowsOf(s, p.cursor)' = RowsOf(s, p.cursor)
    BY <1>1, ReadsWriteNothing
  <2>4. RowsOf(s, p.cursor) = RowsOf(r, p.cursor)
    BY <1>3, <1>10, <2>1 DEF RowsOf, InRange
  <2> QED
    BY <2>2, <2>3, <2>4 DEF Listed, RowsIn
<1>11. ASSUME s.read \in Reports, pages[c] # <<>>
       PROVE  \E answer : pages[c] = <<answer>> /\ Stands(answer, s, p)'
  <2>1. r.read = s.read /\ pages[c] = <<pages[c][1]>> /\ Stands(pages[c][1], r, p)
    BY <1>1, <1>3, <1>11 DEF ReportHolds, Answered, PinnedReads, Reports, Faces
  <2> PICK answer : answer = pages[c][1]
    OBVIOUS
  <2>2. \A x : InScope(s, x) = InScope(r, x) /\ Summed(s, x) = Summed(r, x)
    BY <1>3, <2>1 DEF InScope, InRange, Summed
  <2>3. \A x : TrialBalance(s, x) = TrialBalance(r, x)
    BY <2>2 DEF TrialBalance
  <2>4. \A x, v : Unpresented(s, x, v) <=> Unpresented(r, x, v)
    BY <2>2 DEF Unpresented
  <2>5. \A x, v : FaceOf(s, x, v) = FaceOf(r, x, v)
    BY <1>3, <2>1, <2>2 DEF FaceOf, AmountOf
  <2>6. Stands(answer, s, p)
    BY <2>1, <2>3, <2>4, <2>5 DEF Stands
  <2>7. Stands(answer, s, p)'
    BY <1>1, <2>6, ReadsWriteNothing
  <2> QED
    BY <2>1, <2>7
<1>12. RepeatHolds(c)'
  <2>1. ask'[c] = s /\ pin'[c] = p /\ first'[c] = pages[c]
    BY <1>1
  <2>2. ask'[c].read = "statement" /\ (ask'[c].axis = "recorded" \/ Len(first'[c]) = 1) =>
          RowsIn(first[c])' = RowsOf(ask[c], pin[c].cursor)'
    BY <2>1, <1>10
  <2>3. ask'[c].read \in Reports /\ first'[c] # <<>> =>
          first'[c] = <<first'[c][1]>> /\ Stands(first[c][1], ask[c], pin[c])'
    <3> SUFFICES ASSUME s.read \in Reports, pages[c] # <<>>
                 PROVE  pages[c] = <<pages[c][1]>> /\ Stands(first[c][1], ask[c], pin[c])'
      BY <2>1
    <3>1. PICK answer : pages[c] = <<answer>> /\ Stands(answer, s, p)'
      BY <1>11
    <3>2. first'[c][1] = answer
      BY <2>1, <3>1
    <3> QED
      BY <2>1, <3>1, <3>2
  <2>4. ~Answered(c)'
    BY <1>1 DEF Answered
  <2> QED
    BY <2>1, <2>2, <2>3, <2>4, <1>3, <1>4 DEF RepeatHolds
<1> QED
  BY <1>6, <1>7, <1>8, <1>9, <1>12

-----------------------------------------------------------------------------
(* Theorems *)

(* The invariant holds before the first read.                              *)
LEMMA ReadsInvInit == Init => ReadsInv
<1> SUFFICES ASSUME Init PROVE ReadsInv
  OBVIOUS
<1> USE DEF Init
<1>1. BookInv
  <2>1. \A a \in Genesis : a.id \in Nat /\ a.id < FirstId
    BY GenesisAssumption, BoundsAssumption
  <2> QED
    BY <2>1, GenesisAssumption, BoundsAssumption DEF BookInv
<1>2. ClientVars /\ ContentInv
  BY DEF ClientVars, ContentInv
<1>3. ASSUME NEW c \in Clients PROVE ClientInv(c)
  <2>1. Shape(c)
    BY BoundsAssumption DEF Shape, NoPin
  <2>2. PinHolds(c) /\ WalkHolds(c) /\ ReportHolds(c) /\ RepeatHolds(c) /\ Heard(c)
    BY DEF PinHolds, WalkHolds, ReportHolds, RepeatHolds, Heard, NoPin
  <2> QED
    BY <2>1, <2>2 DEF ClientInv
<1> QED
  BY <1>1, <1>2, <1>3 DEF ReadsInv

(* Every step of a writer or a client keeps the invariant.                 *)
LEMMA ReadsInvNext == ReadsInv /\ [Next]_vars => ReadsInv'
<1> SUFFICES ASSUME ReadsInv, [Next]_vars PROVE ReadsInv'
  OBVIOUS
<1> USE DEF ReadsInv
<1>1. ASSUME NEW w \in Writers, Insert(w) \/ End(w) PROVE ReadsInv'
  <2>1. BookInv' /\ BookGrows
    BY <1>1, InsertGrows, EndGrows
  <2>5. ContentInv' /\ ContentGrows
    BY <1>1, <2>1, InsertKeepsContent, EndKeepsContent
  <2>2. UNCHANGED reading
    BY <1>1 DEF Insert, End
  <2>3. \A c \in Clients : Same(c)
    BY <2>2 DEF reading, Same
  <2>4. ClientVars'
    BY <2>2 DEF ClientVars, reading
  <2> QED
    BY <2>1, <2>3, <2>4, <2>5, Bystander
<1>2. ASSUME NEW c \in Clients, Read(c) PROVE ReadsInv'
  <2>1. Act(c) /\ ClientVars'
    BY <1>2, ReadsAct
  <2>2. BookInv' /\ BookGrows /\ ContentInv' /\ ContentGrows
    BY <2>1, ReadsWriteNothing DEF Act
  <2>3. \A d \in Clients \ {c} : ClientInv(d)'
    BY <2>1, <2>2, Bystander DEF Act
  <2>4. ClientInv(c)'
    BY <1>2, Asked, FaceRefused, BoundsRefused, Pinned, StatementRefused, PageAnswered,
       Followed, ReportAnswered, NowAnswered, CursorAnswered, TimedOut, Reissued DEF Read
  <2> QED
    BY <2>1, <2>2, <2>3, <2>4
<1>3. CASE UNCHANGED vars
  <2>1. BookInv' /\ BookGrows /\ ContentInv' /\ ContentGrows
    BY <1>3, ReadsWriteNothing DEF vars
  <2>2. \A c \in Clients : Same(c)
    BY <1>3 DEF vars, reading, Same
  <2>3. ClientVars'
    BY <1>3 DEF ClientVars, vars, reading
  <2> QED
    BY <2>1, <2>2, <2>3, Bystander
<1> QED
  BY <1>1, <1>2, <1>3 DEF Next

(* The reads' invariant: what a read is pinned at nothing can still commit *)
(* below; a walk's pages ascend and leave out nothing at or before its key *)
(* of what it owes; an answered report would be given again, a face with   *)
(* its rows and amounts and perhaps rows that sum nothing, closes and      *)
(* chart rows committed since included; and who was refused was refused    *)
(* for want of something not there when it began.                          *)
THEOREM ReadsInvariance == Spec => []ReadsInv
BY ReadsInvInit, ReadsInvNext, PTL DEF Spec

(* Every variable of the read path keeps its type.                         *)
THEOREM TypeCorrectness == Spec => []TypeOK
<1>1. ReadsInv => TypeOK
  <2> SUFFICES ASSUME ReadsInv PROVE TypeOK
    OBVIOUS
  <2>1. \A row \in accounts \cup closes \cup charts \cup lines \cup presentation :
          row.by = None \/ (row.by \in Writers /\ status[row.by] # "idle")
    BY DEF ReadsInv, BookInv, ContentInv
  <2>2. \A v, w \in Writers : status[v] # "idle" /\ xact[v] = xact[w] => v = w
    BY DEF ReadsInv, BookInv
  <2>3. ASSUME NEW c \in Clients
        PROVE  /\ at[c] \in {"idle", "asked", "pinned", "answered", "done"}
               /\ at[c] # "idle" => DOMAIN ask[c] = RequestFields /\ began[c] \subseteq Writers \cup {None}
               /\ verdict[c] \in Outcomes \cup {None} /\ (verdict[c] # None <=> at[c] = "done")
               /\ timeouts[c] \in 0..MaxTimeouts
    BY DEF ReadsInv, ClientInv, Shape, Committed
  <2> QED
    BY <2>1, <2>2, <2>3 DEF ReadsInv, BookInv, TypeOK
<1> QED
  BY <1>1, ReadsInvariance, PTL

(* The pages of a walk follow each other in its order without repeating or *)
(* leaving out a row, for any writers, page sizes and ways to page, and    *)
(* whatever commits between the pages.                                     *)
THEOREM ExactWalks == Spec => []WalksAreExact
<1>1. ReadsInv => WalksAreExact
  <2> SUFFICES ASSUME ReadsInv PROVE WalksAreExact
    OBVIOUS
  <2>1. ASSUME NEW c \in Clients, at[c] # "idle", ask[c].read \in Listings
        PROVE  /\ InOrder(c)
               /\ \A row \in Listed(c) : row \in RowsOf(ask[c], pin[c].cursor)
               /\ Answered(c) => Due(c) \subseteq Listed(c)
    BY <2>1 DEF ReadsInv, ClientInv, WalkHolds
  <2>2. ASSUME NEW c \in Clients, at[c] # "idle", ask[c].read = "statement"
        PROVE  /\ InOrder(c)
               /\ Answered(c) /\ Complete(c) => Listed(c) = RowsOf(ask[c], pin[c].cursor)
    BY <2>1, <2>2 DEF Listings, Due
  <2>3. ASSUME NEW c \in Clients, at[c] # "idle", ask[c].read = "accounts"
        PROVE  /\ InOrder(c)
               /\ \A a \in Listed(c) : a.book = ask[c].tenant /\ Visible(a)
               /\ Answered(c) => {a \in VisibleAccounts(ask[c].tenant) : a.by \in began[c]}
                                     \subseteq Listed(c)
    BY <2>1, <2>3 DEF Listings, Due, RowsOf, VisibleAccounts
  <2>4. StatementIsListed
    BY <2>2 DEF StatementIsListed, Complete
  <2>5. RegisterIsListed
    BY <2>3 DEF RegisterIsListed
  <2> QED
    BY <2>4, <2>5 DEF WalksAreExact
<1> QED
  BY <1>1, ReadsInvariance, PTL

(* A read answered again at the cursor and the chart version it was        *)
(* answered with lists the same entries and gives the same amounts,        *)
(* whatever commits between, closes of the period included; a face may     *)
(* have more lines, each at zero.                                          *)
THEOREM ReproducibleAnswers == Spec => []AnswersAreReproducible
<1>1. ReadsInv => AnswersAreReproducible
  <2> SUFFICES ASSUME ReadsInv, NEW c \in Clients, Answered(c), first[c] \notin {None, <<>>}
               PROVE  /\ ask[c].read = "statement" /\ (ask[c].axis = "recorded" \/ Len(first[c]) = 1) =>
                           Listed(c) = UNION {first[c][i] : i \in DOMAIN first[c]}
                      /\ ask[c].read = "trial_balance" => pages[c] = first[c]
                      /\ ask[c].read \in Faces => SameAmounts(first[c][1], pages[c][1])
    BY DEF AnswersAreReproducible
  <2> USE DEF ReadsInv, ClientInv
  <2>1. ask[c].read \in PinnedReads /\ ask[c].resend /\ at[c] # "idle"
    BY DEF RepeatHolds, Answered
  <2>2. CASE ask[c].read = "statement"
    <3>1. Listed(c) = RowsOf(ask[c], pin[c].cursor)
      BY <2>1, <2>2 DEF WalkHolds, Listings, Due, Complete
    <3> QED
      BY <2>2, <3>1 DEF RepeatHolds, RowsIn, Faces
  <2>3. CASE ask[c].read = "trial_balance"
    <3>1. pages[c] = <<pages[c][1]>> /\ Stands(pages[c][1], ask[c], pin[c])
      BY <2>1, <2>3 DEF ReportHolds, Reports
    <3>2. first[c] = <<first[c][1]>> /\ Stands(first[c][1], ask[c], pin[c])
      BY <2>3 DEF RepeatHolds, Reports
    <3> DEFINE a == pages[c][1]
               b == first[c][1]
    <3>3. a = b
      BY <2>3, <3>1, <3>2 DEF Stands, Faces
    <3>4. pages[c] = <<a>> /\ first[c] = <<b>>
      BY <3>1, <3>2
    <3>5. pages[c] = first[c]
      <4> HIDE DEF a, b, ReadsInv, ClientInv
      <4> QED
        BY <3>3, <3>4
    <3>6. ask[c].read # "statement" /\ ask[c].read \notin Faces
      BY <2>3 DEF Faces
    <3> QED
      BY <3>5, <3>6
  <2>4. CASE ask[c].read \in Faces
    BY <2>1, <2>4 DEF RepeatHolds, Reports, Faces
  <2> QED
    BY <2>2, <2>3, <2>4
<1> QED
  BY <1>1, ReadsInvariance, PTL

(* What a read answers is what its operation documents, and what it calls  *)
(* unknown was not there when the client first asked.                      *)
THEOREM TrueResponses == Spec => []ResponsesAreTrue
<1>1. ReadsInv => ResponsesAreTrue
  <2> SUFFICES ASSUME ReadsInv PROVE ResponsesAreTrue
    OBVIOUS
  <2> USE DEF ReadsInv, ClientInv
  <2>1. RefusalsAreTrue
    BY DEF RefusalsAreTrue, Heard
  <2>2. ASSUME NEW c \in Clients, at[c] = "done" PROVE ResponseTo(c) \in DocumentedFor(ask[c].read)
    <3> DEFINE word == verdict[c]
               read == ask[c].read
    <3>1. /\ word \in Outcomes
          /\ read \in PinnedReads \cup {"accounts", "balance", "transaction", "cursor"}
          /\ word = "account_unknown" => read \in {"statement", "balance"}
          /\ word = "transaction_unknown" => read = "transaction"
          /\ word \in {"chart_version_unknown", "chart_version_incomplete"} => read \in Faces
          /\ word = "cursor_invalid" => read \in PinnedReads
          /\ word = "invalid_request" => read \in PinnedReads \cup {"accounts"}
      BY <2>2 DEF Shape, Heard
    <3>2. DocumentedForReads \subseteq DocumentedFor(read)
      BY <3>1 DEF PinnedReads, Faces, DocumentedFor, GetCursor, GetAccountBalance, GetTransaction,
         ListAccounts, GetTrialBalance, GetAccountStatement, GetBalanceSheet, GetIncomeStatement
    <3>3. word \in {"account_unknown", "transaction_unknown"} =>
            Refusal(404, word) \in DocumentedFor(read)
      BY <3>1 DEF Types, DocumentedFor, GetAccountBalance, GetTransaction, GetAccountStatement
    <3>4. word \in {"chart_version_unknown", "chart_version_incomplete",
                    "cursor_invalid", "invalid_request"} =>
            Refusal(422, word) \in DocumentedFor(read)
      BY <3>1 DEF PinnedReads, Faces, Types, DocumentedFor, ListAccounts, GetTrialBalance,
         GetAccountStatement, GetBalanceSheet, GetIncomeStatement
    <3> HIDE DEF read
    <3>5. CASE word = "answered"
      BY <3>2, <3>5 DEF ResponseTo, DocumentedForReads, read
    <3>6. CASE word # "answered"
      <4>1. ResponseTo(c) = RefusalForRead(word)
        BY <3>6 DEF ResponseTo
      <4> HIDE DEF word
      <4>2. RefusalForRead(word) = IF word \in {"account_unknown", "transaction_unknown"}
                                     THEN Refusal(404, word) ELSE Refusal(422, word)
        BY <3>1, <3>6 DEF RefusalForRead, Outcomes
      <4> QED
        BY <3>1, <3>3, <3>4, <3>6, <4>1, <4>2 DEF Outcomes, read
    <3> QED
      BY <3>5, <3>6
  <2> QED
    BY <2>1, <2>2 DEF ResponsesAreTrue
<1> QED
  BY <1>1, ReadsInvariance, PTL
=============================================================================
