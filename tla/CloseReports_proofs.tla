------------------------- MODULE CloseReports_proofs -------------------------
(***************************************************************************)
(* Proofs, for any sessions, charges, periods and accounts: a key is held  *)
(* by one committed session, what a close is told is so, a report read     *)
(* again at a cursor it was pinned at is the same report, and what the     *)
(* three reconciliation checks of closes find and what a clean book shows. *)
(***************************************************************************)
EXTENDS CloseApi, Postings_proofs

Places == {"idle", "claiming", "locking", "committing", "done"}

Functions ==
  /\ pc \in [Sessions -> Places]
  /\ ask = [s \in Sessions |-> ask[s]]
  /\ xid \in [Sessions -> Nat]
  /\ nextXid \in Nat \ {0}
  /\ snap = [s \in Sessions |-> snap[s]]
  /\ moved = [s \in Sessions |-> moved[s]]
  /\ stored = [s \in Sessions |-> stored[s]]
  /\ claims \subseteq Sessions
  /\ committed \subseteq Sessions

(* A row of an event is uncommitted while its session holds the key, and   *)
(* the session has an id; a committed session is over.                     *)
Progress ==
  \A s \in Sessions :
    /\ s \in claims <=> pc[s] \in {"locking", "committing"}
    /\ s \in claims => xid[s] # 0
    /\ s \in committed => pc[s] = "done"

OneHolderPerKey ==
  \A r, s \in claims \cup committed : Key(r) = Key(s) => r = s

CloseInv == Functions /\ Progress /\ OneHolderPerKey

(* The invariant holds at the start.                                       *)
LEMMA CloseInvInit == Init => CloseInv
  BY DEF Init, CloseInv, Functions, Progress, OneHolderPerKey, Places

(* A key depends on what its session was asked and on nothing else.        *)
LEMMA KeyKept ==
  ASSUME NEW s \in Sessions, ask'[s] = ask[s]
  PROVE  Key(s)' = Key(s)
  BY DEF Key

(* A session rolled back holds its key no longer.                          *)
LEMMA RollbackKeeps ==
  ASSUME CloseInv, NEW s \in Sessions, pc[s] \in Running, Rollback(s),
         UNCHANGED <<ask, idVars>>
  PROVE  CloseInv'
<1> USE DEF CloseInv, Rollback, Goto, Running, idVars
<1>1. Functions'
  BY DEF Functions, Places
<1>2. Progress'
  BY DEF Functions, Progress
<1>3. OneHolderPerKey'
  BY KeyKept DEF Functions, OneHolderPerKey
<1> QED BY <1>1, <1>2, <1>3

(* What is asked changes for an idle session alone, which holds no key.    *)
LEMMA AskKeeps ==
  ASSUME CloseInv, NEW s \in Sessions, pc[s] = "idle", NEW x, NEW place \in {"claiming", "done"},
         ask' = [ask EXCEPT ![s] = x], pc' = [pc EXCEPT ![s] = place],
         snap' = [r \in Sessions |-> snap'[r]],
         UNCHANGED <<xid, nextXid, workVars, committed>>
  PROVE  CloseInv'
<1> USE DEF CloseInv, workVars
<1>1. Functions'
  BY DEF Functions, Places
<1>2. Progress'
  BY DEF Functions, Progress
<1>3. OneHolderPerKey'
  <2>1. s \notin claims \cup committed
    BY DEF Functions, Progress
  <2>2. \A r \in claims \cup committed : r \in Sessions /\ ask'[r] = ask[r]
    BY <2>1 DEF Functions
  <2> QED BY <2>2, KeyKept DEF OneHolderPerKey
<1> QED BY <1>1, <1>2, <1>3

(* Every step keeps the invariant.                                         *)
LEMMA CloseInvNext == CloseInv /\ [Next]_vars => CloseInv'
<1> SUFFICES ASSUME CloseInv, [Next]_vars PROVE CloseInv'
  OBVIOUS
<1> USE DEF CloseInv
<1>1. ASSUME NEW s \in Sessions, BeginPost(s) PROVE CloseInv'
  <2>1. snap' = [r \in Sessions |-> snap'[r]]
    BY <1>1 DEF BeginPost, SendStatement, Functions
  <2> QED BY <1>1, <2>1, AskKeeps DEF BeginPost, SendStatement, At, Goto
<1>2. ASSUME NEW s \in Sessions, BeginClose(s) PROVE CloseInv'
  <2>1. snap' = [r \in Sessions |-> snap'[r]]
    BY <1>2 DEF BeginClose, SendStatement, Functions
  <2> QED BY <1>2, <2>1, AskKeeps DEF BeginClose, SendStatement, At, Goto
<1>3. ASSUME NEW s \in Sessions, RefuseContext(s) PROVE CloseInv'
  BY <1>3, AskKeeps DEF RefuseContext, At, Goto, idVars, Functions
<1>4. ASSUME NEW s \in Sessions, Claim(s) PROVE CloseInv'
  <2> USE <1>4 DEF Claim, At, Goto
  <2>1. Functions'
    <3>1. snap' = snap /\ snap' = [r \in Sessions |-> snap'[r]]
      BY DEF Functions
    <3> QED BY <3>1 DEF Functions, Places
  <2>2. Progress'
    BY DEF Functions, Progress
  <2>3. OneHolderPerKey'
    <3>1. \A r \in Sessions : Key(r)' = Key(r)
      BY KeyKept
    <3>2. \A r \in claims \cup committed : r # s => Key(r) # Key(s)
      BY DEF KeyRivals, KeyHolders
    <3> QED BY <3>1, <3>2 DEF Functions, OneHolderPerKey
  <2> QED BY <2>1, <2>2, <2>3
<1>5. ASSUME NEW s \in Sessions, RefuseHeldKey(s) PROVE CloseInv'
  BY <1>5, RollbackKeeps DEF RefuseHeldKey, At, Running
<1>6. ASSUME NEW s \in Sessions, LockRow(s) \/ Checkpoint(s) PROVE CloseInv'
  <2> USE <1>6 DEF LockRow, Checkpoint, At, Goto, idVars
  <2>1. Functions'
    BY DEF Functions, Places
  <2>2. Progress'
    BY DEF Functions, Progress
  <2>3. OneHolderPerKey'
    BY KeyKept DEF Functions, OneHolderPerKey
  <2> QED BY <2>1, <2>2, <2>3
<1>7. ASSUME NEW s \in Sessions, Commit(s) PROVE CloseInv'
  <2> USE <1>7 DEF Commit, At, Goto, idVars
  <2>1. Functions'
    BY DEF Functions, Places
  <2>2. Progress'
    BY DEF Functions, Progress
  <2>3. OneHolderPerKey'
    BY KeyKept DEF Functions, Progress, OneHolderPerKey
  <2> QED BY <2>1, <2>2, <2>3
<1>8. ASSUME NEW s \in Sessions, Fail(s) PROVE CloseInv'
  BY <1>8, RollbackKeeps DEF Fail
<1>9. CASE UNCHANGED vars
  BY <1>9 DEF vars, idVars, workVars, Functions, Progress, OneHolderPerKey, Key
<1> QED BY <1>1, <1>2, <1>3, <1>4, <1>5, <1>6, <1>7, <1>8, <1>9 DEF Next, Step, AllDone

(* The invariant, of every behaviour.                                      *)
THEOREM CloseInvariance == Spec => []CloseInv
  BY CloseInvInit, CloseInvNext, PTL DEF Spec

(* A period and currency are closed once, and no post stands under the key *)
(* of a close, however many attempts race.                                 *)
THEOREM ClosedOnce == Spec => []OneClosePerPeriod
<1>1. CloseInv => OneClosePerPeriod
  BY DEF CloseInv, OneHolderPerKey, OneClosePerPeriod
<1> QED BY <1>1, CloseInvariance, PTL

-----------------------------------------------------------------------------
(* The book only grows *)

(* What is committed stays as it is.                                       *)
BookKept ==
  /\ committed \subseteq committed'
  /\ \A s \in committed : /\ ask'[s] = ask[s] /\ xid'[s] = xid[s]
                          /\ moved'[s] = moved[s] /\ stored'[s] = stored[s]

(* Whatever enters the book had an id in progress, above every cursor that *)
(* could be pinned.                                                        *)
Newcomers ==
  \A s \in committed' \ committed : s \in InProgress /\ xid'[s] = xid[s]

(* A step keeps the book, and only a commit adds to it.                    *)
LEMMA BookGrows ==
  ASSUME CloseInv, [Next]_vars
  PROVE  BookKept /\ Newcomers
<1> USE DEF CloseInv, Functions, Progress, BookKept, Newcomers, At, Goto, idVars, workVars
<1>1. ASSUME NEW s \in Sessions, BeginPost(s) \/ BeginClose(s) \/ RefuseContext(s)
      PROVE  BookKept /\ Newcomers
  BY <1>1 DEF BeginPost, BeginClose, RefuseContext, SendStatement
<1>2. ASSUME NEW s \in Sessions, Claim(s) \/ LockRow(s) \/ Checkpoint(s)
      PROVE  BookKept /\ Newcomers
  BY <1>2 DEF Claim, LockRow, Checkpoint
<1>3. ASSUME NEW s \in Sessions, RefuseHeldKey(s) \/ Fail(s)
      PROVE  BookKept /\ Newcomers
  BY <1>3 DEF RefuseHeldKey, Fail, Rollback, Running
<1>4. ASSUME NEW s \in Sessions, Commit(s)
      PROVE  BookKept /\ Newcomers
  BY <1>4 DEF Commit, InProgress, Running
<1>5. CASE UNCHANGED vars
  BY <1>5 DEF vars
<1> QED BY <1>1, <1>2, <1>3, <1>4, <1>5 DEF Next, Step, AllDone

-----------------------------------------------------------------------------
(* Answers *)

(* Every session asked what its kind asks, and is answered when it is over *)
(* and not before; a replay is a post's answer.                            *)
AnswersTyped ==
  /\ answer \in [Sessions -> Answers]
  /\ \A s \in Sessions :
       /\ pc[s] # "idle" => ask[s] \in IF s \in Closes THEN Asked ELSE Charges
       /\ answer[s] # "none" => pc[s] = "done"
       /\ s \in Closes => answer[s] # "replayed"

(* A session is told it wrote if and only if it committed; one that has    *)
(* not written yet, or was rolled back, leaves no leg and no checkpoint.   *)
WritesAnswered ==
  \A s \in Sessions :
    /\ answer[s] = "written" <=> s \in committed
    /\ pc[s] \in {"idle", "claiming"} \/ (pc[s] = "done" /\ s \notin committed) =>
         moved[s] = Nothing /\ stored[s] = Nothing

(* Whom a refused session lost its key to is on the book.                  *)
Grounded(s) ==
  /\ answer[s] = "PeriodAlreadyClosed" => \E r \in committed \cap Closes : ask[r] = ask[s]
  /\ answer[s] = "KeyReused" => \E r \in committed : Key(r) = Key(s) /\ ask[r] # ask[s]

AnswersInv == AnswersTyped /\ WritesAnswered /\ \A s \in Sessions : Grounded(s)

LEMMA AnswersInvInit == Init => AnswersInv
  BY DEF Init, AnswersInv, AnswersTyped, WritesAnswered, Grounded, Answers

(* The grounds of an answer outlive every step.                            *)
LEMMA GroundsStay ==
  ASSUME CloseInv, [Next]_vars, NEW s \in Sessions, Grounded(s),
         ask'[s] = ask[s], answer'[s] = answer[s]
  PROVE  Grounded(s)'
<1>1. BookKept /\ committed \subseteq Sessions
  BY BookGrows DEF CloseInv, Functions
<1>2. ASSUME answer[s] = "PeriodAlreadyClosed"
      PROVE  \E r \in committed' \cap Closes : ask'[r] = ask'[s]
  BY <1>1, <1>2 DEF Grounded, BookKept
<1>3. ASSUME answer[s] = "KeyReused"
      PROVE  \E r \in committed' : Key(r)' = Key(s)' /\ ask'[r] # ask'[s]
  <2>1. PICK r \in committed : Key(r) = Key(s) /\ ask[r] # ask[s]
    BY <1>3 DEF Grounded
  <2>2. Key(r)' = Key(r) /\ Key(s)' = Key(s)
    BY <1>1, <2>1, KeyKept DEF BookKept
  <2> QED BY <1>1, <2>1, <2>2 DEF BookKept
<1> QED BY <1>2, <1>3 DEF Grounded

(* Whoever finds its key held is told by whom: a holder of the same kind   *)
(* and body is stored for this body, and no close asks what a post asks.   *)
LEMMA HeldKeyIsGrounded ==
  ASSUME CloseInv, AnswersInv, NEW s \in Sessions, RefuseHeldKey(s)
  PROVE  Grounded(s)' /\ (s \in Closes => answer'[s] # "replayed")
<1> USE DEF RefuseHeldKey, Rollback, Answer, At, AnswersInv, AnswersTyped
<1>1. committed' = committed /\ committed \subseteq Sessions /\ ask' = ask
  BY DEF CloseInv, Functions
<1>2. \A r \in Sessions : Key(r)' = Key(r)
  BY <1>1, KeyKept
<1>3. CASE StoredForThisBody(s) = {}
  <2>1. answer'[s] = "KeyReused"
    BY <1>3
  <2>2. PICK r \in committed : Key(r) = Key(s)
    BY DEF KeyHolders
  <2>3. r \in Sessions /\ pc[r] = "done"
    BY <1>1 DEF CloseInv, Progress
  <2>4. ask[r] # ask[s]
    BY <1>3, <2>2, <2>3, AskedAssumption DEF StoredForThisBody, KeyHolders
  <2> QED BY <1>1, <1>2, <2>1, <2>2, <2>3, <2>4 DEF Grounded
<1>4. CASE StoredForThisBody(s) # {}
  <2>1. PICK r \in committed : (r \in Closes <=> s \in Closes) /\ ask[r] = ask[s]
    BY <1>4 DEF StoredForThisBody, KeyHolders
  <2>2. answer'[s] = IF s \in Closes THEN "PeriodAlreadyClosed" ELSE "replayed"
    BY <1>4
  <2> QED BY <1>1, <2>1, <2>2 DEF Grounded
<1> QED BY <1>3, <1>4

(* Every step keeps the invariant of the answers.                          *)
LEMMA AnswersInvNext == CloseInv /\ AnswersInv /\ [Next]_vars => AnswersInv'
<1> SUFFICES ASSUME CloseInv, AnswersInv, [Next]_vars PROVE AnswersInv'
  OBVIOUS
<1> USE DEF AnswersInv
<1>1. \A s \in Sessions : ask'[s] = ask[s] /\ answer'[s] = answer[s] => Grounded(s)'
  BY GroundsStay
<1>2. ASSUME NEW s \in Sessions, BeginPost(s) \/ BeginClose(s) PROVE AnswersInv'
  <2> USE <1>2 DEF BeginPost, BeginClose, SendStatement, At, Goto, idVars, workVars
  <2>1. AnswersTyped'
    BY SessionsAssumption DEF CloseInv, Functions, AnswersTyped, Sessions
  <2>2. WritesAnswered'
    BY DEF CloseInv, Functions, AnswersTyped, WritesAnswered
  <2>3. \A r \in Sessions : Grounded(r)'
    <3>1. answer'[s] = "none"
      BY DEF AnswersTyped
    <3>2. \A r \in Sessions \ {s} : ask'[r] = ask[r] /\ answer'[r] = answer[r]
      BY DEF CloseInv, Functions
    <3> QED BY <1>1, <3>1, <3>2 DEF Grounded
  <2> QED BY <2>1, <2>2, <2>3
<1>3. ASSUME NEW s \in Sessions, RefuseContext(s) PROVE AnswersInv'
  <2> USE <1>3 DEF RefuseContext, Answer, At, Goto, idVars, workVars
  <2>1. AnswersTyped'
    <3>1. PICK kind \in {"PeriodUnknown", "RetainedEarningsUnknown"} :
            answer' = [answer EXCEPT ![s] = kind]
      OBVIOUS
    <3>2. s \in Closes /\ ask'[s] \in Asked
      BY DEF CloseInv, Functions
    <3>3. \A r \in Sessions \ {s} : ask'[r] = ask[r] /\ pc'[r] = pc[r]
      BY DEF CloseInv, Functions
    <3>4. answer' \in [Sessions -> Answers]
      BY <3>1 DEF AnswersTyped, Answers
    <3>5. pc'[s] = "done" /\ answer'[s] = kind
      BY <3>1 DEF CloseInv, Functions, AnswersTyped
    <3> HIDE <1>3 DEF RefuseContext
    <3> QED BY <3>1, <3>2, <3>3, <3>4, <3>5 DEF AnswersTyped
  <2>2. WritesAnswered'
    BY DEF CloseInv, Functions, Progress, AnswersTyped, WritesAnswered
  <2>3. \A r \in Sessions : Grounded(r)'
    <3>1. answer'[s] \in {"PeriodUnknown", "RetainedEarningsUnknown"}
      BY DEF AnswersTyped
    <3>2. \A r \in Sessions \ {s} : ask'[r] = ask[r] /\ answer'[r] = answer[r]
      BY DEF CloseInv, Functions, AnswersTyped
    <3> QED BY <1>1, <3>1, <3>2 DEF Grounded
  <2> QED BY <2>1, <2>2, <2>3
<1>4. ASSUME NEW s \in Sessions, Claim(s) \/ LockRow(s) \/ Checkpoint(s) PROVE AnswersInv'
  <2> USE <1>4 DEF Claim, LockRow, Checkpoint, At, Goto, idVars, workVars
  <2>1. AnswersTyped'
    BY DEF CloseInv, Functions, AnswersTyped
  <2>2. WritesAnswered'
    BY DEF CloseInv, Functions, AnswersTyped, WritesAnswered
  <2> QED BY <1>1, <2>1, <2>2
<1>5. ASSUME NEW s \in Sessions, RefuseHeldKey(s) PROVE AnswersInv'
  <2> USE <1>5 DEF RefuseHeldKey, Rollback, Answer, At, Goto, idVars
  <2>1. AnswersTyped'
    BY HeldKeyIsGrounded DEF CloseInv, Functions, AnswersTyped, Answers
  <2>2. WritesAnswered'
    BY DEF CloseInv, Functions, Progress, AnswersTyped, WritesAnswered
  <2>3. \A r \in Sessions \ {s} : ask'[r] = ask[r] /\ answer'[r] = answer[r]
    BY DEF AnswersTyped
  <2> QED BY <1>1, <2>1, <2>2, <2>3, HeldKeyIsGrounded
<1>6. ASSUME NEW s \in Sessions, Commit(s) \/ Fail(s) PROVE AnswersInv'
  <2> USE <1>6 DEF Commit, Fail, Rollback, Running, Answer, At, Goto, idVars
  <2>1. AnswersTyped'
    BY DEF CloseInv, Functions, AnswersTyped, Answers
  <2>2. WritesAnswered'
    BY DEF CloseInv, Functions, Progress, AnswersTyped, WritesAnswered
  <2>3. \A r \in Sessions : Grounded(r)'
    <3>1. answer'[s] \in {"written", "failed"}
      BY DEF AnswersTyped
    <3>2. \A r \in Sessions \ {s} : ask'[r] = ask[r] /\ answer'[r] = answer[r]
      BY DEF AnswersTyped
    <3> QED BY <1>1, <3>1, <3>2 DEF Grounded
  <2> QED BY <2>1, <2>2, <2>3
<1>7. CASE UNCHANGED vars
  BY <1>1, <1>7 DEF vars, idVars, workVars, AnswersTyped, WritesAnswered
<1> QED BY <1>2, <1>3, <1>4, <1>5, <1>6, <1>7 DEF Next, Step, AllDone

(* Every answer a close can get is documented on the wire.                 *)
LEMMA CloseIsDocumented ==
  ASSUME AnswersTyped, NEW c \in Answered
  PROVE  /\ ResponseTo(c) \in ClosePeriodOperation
         /\ Status(c) = 201 <=> answer[c] = "written"
<1>1. answer[c] \in Answers \ {"none", "replayed"}
  BY DEF AnswersTyped, Answered, Sessions
<1> QED BY <1>1
    DEF Answers, ResponseTo, Status, StoredResult, RefusalFor, Refusal, Response,
        ClosingProblems, ClosePeriodOperation, DocumentedForWrites, Types

(* What a close is told is so, and documented: a period and currency are   *)
(* created as closed once, whoever is told it is closed already can find   *)
(* that close, and a refused close left nothing.                           *)
THEOREM TrueResponses == Spec => []ResponsesAreTrue
<1>1. CloseInv /\ AnswersInv => ResponsesAreTrue
  <2> SUFFICES ASSUME CloseInv, AnswersInv PROVE ResponsesAreTrue
    OBVIOUS
  <2>1. RefusalsAreTrue
    BY DEF AnswersInv, AnswersTyped, WritesAnswered, Grounded, RefusalsAreTrue, At
  <2>2. ASSUME NEW c \in Answered
        PROVE  ResponseTo(c) \in ClosePeriodOperation /\ (Status(c) = 201 <=> c \in committed)
    BY CloseIsDocumented DEF AnswersInv, WritesAnswered, Answered, Sessions
  <2>3. ASSUME NEW c \in Answered, NEW d \in Answered \ {c}, ask[c] = ask[d]
        PROVE  ~(c \in committed /\ d \in committed)
    BY <2>3 DEF CloseInv, OneHolderPerKey, Key, Answered
  <2> QED BY <2>1, <2>2, <2>3 DEF ResponsesAreTrue
<1>2. Spec => []AnswersInv
  BY AnswersInvInit, CloseInvInit, AnswersInvNext, CloseInvNext, PTL DEF Spec
<1> QED BY <1>1, <1>2, CloseInvariance, PTL

-----------------------------------------------------------------------------
(* Reports *)

(* Position, of the movements m.                                           *)
OnAccount(m, s, a) == IF a \in DOMAIN m[s] THEN m[s][a] ELSE Gross(0, 0)
PositionOf(m, a, S) ==
  Gross(SumFunction([s \in S |-> OnAccount(m, s, a).input]),
        SumFunction([s \in S |-> OnAccount(m, s, a).output]))

(* It depends on the movements of the sessions given and on no other's.    *)
LEMMA PositionLocal ==
  ASSUME NEW m, NEW n, NEW a, NEW S, \A s \in S : m[s] = n[s]
  PROVE  PositionOf(m, a, S) = PositionOf(n, a, S)
<1>1. \A s \in S : OnAccount(m, s, a) = OnAccount(n, s, a)
  BY DEF OnAccount
<1>2. [s \in S |-> OnAccount(m, s, a).input] = [s \in S |-> OnAccount(n, s, a).input]
  BY <1>1
<1>3. [s \in S |-> OnAccount(m, s, a).output] = [s \in S |-> OnAccount(n, s, a).output]
  BY <1>1
<1> QED BY <1>2, <1>3 DEF PositionOf

(* What a pinned cursor admits is settled.                                 *)
LEMMA SettledBelow ==
  ASSUME CloseInv, BookKept, Newcomers, NEW cursor \in Pinned
  PROVE  /\ {s \in committed : xid[s] < cursor}' = {s \in committed : xid[s] < cursor}
         /\ \A c \in committed : Visible(c, cursor)' = Visible(c, cursor)
         /\ \A c \in committed' \ committed : ~Visible(c, cursor)'
<1>1. \A s \in committed' \ committed : ~(xid'[s] < cursor)
  BY DEF Newcomers, Pinned, AtMostTheHorizon, InProgress, CloseInv, Functions
<1>2. \A s \in committed : s \in committed' /\ xid'[s] = xid[s]
  BY DEF BookKept
<1> QED BY <1>1, <1>2 DEF Visible

(* Dates and currencies of what is committed are settled too.              *)
LEMMA DatesKept ==
  ASSUME BookKept, NEW s \in committed
  PROVE  EffectiveAt(s)' = EffectiveAt(s) /\ EndOf(s)' = EndOf(s)
  BY DEF BookKept, EffectiveAt, EndOf

(* The anchor a report reads from is settled.                              *)
LEMMA AnchorsKept ==
  ASSUME CloseInv, BookKept, Newcomers, NEW u, NEW asof, NEW cursor \in Pinned
  PROVE  /\ Anchors(u, asof, cursor)' = Anchors(u, asof, cursor)
         /\ Anchors(u, asof, cursor) \subseteq committed
<1> DEFINE seen == {c \in ClosesOf(u) : EndOf(c) <= asof /\ Visible(c, cursor)}
<1>1. seen \subseteq committed
  BY DEF ClosesOf
<1>2. seen' = seen
  BY SettledBelow, DatesKept DEF ClosesOf, BookKept
<1>3. \A c \in seen : EndOf(c)' = EndOf(c)
  BY <1>1, DatesKept
<1>4. {c \in seen : \A d \in seen : EndOf(d) <= EndOf(c)}'
        = {c \in seen : \A d \in seen : EndOf(d) <= EndOf(c)}
  BY <1>2, <1>3
<1> QED BY <1>1, <1>4 DEF Anchors

(* Without an anchor, the same entries are added up.                       *)
LEMMA FromInceptionKept ==
  ASSUME CloseInv, BookKept, Newcomers, NEW a, NEW asof, NEW cursor \in Pinned
  PROVE  FromInception(a, asof, cursor)' = FromInception(a, asof, cursor)
<1> DEFINE S == {s \in committed : EffectiveAt(s) < asof /\ xid[s] < cursor}
<1>1. S = {s \in {r \in committed : xid[r] < cursor} : EffectiveAt(s) < asof}
  OBVIOUS
<1>2. S' = {s \in {r \in committed : xid[r] < cursor}' : EffectiveAt(s)' < asof}
  OBVIOUS
<1>3. S' = S
  BY <1>1, <1>2, SettledBelow, DatesKept
<1> HIDE DEF S
<1>4. PositionOf(moved', a, S') = PositionOf(moved, a, S)
  <2>1. \A s \in S : moved'[s] = moved[s]
    BY DEF S, BookKept
  <2> QED BY <1>3, <2>1, PositionLocal
<1>5. /\ FromInception(a, asof, cursor) = PositionOf(moved, a, S)
      /\ FromInception(a, asof, cursor)' = PositionOf(moved', a, S')
  BY DEF FromInception, Position, PositionOf, MovedOn, OnAccount, S
<1> QED BY <1>4, <1>5

(* With one, so are its checkpoint and both tails.                         *)
LEMMA TailsKept ==
  ASSUME CloseInv, BookKept, Newcomers, NEW a, NEW asof, NEW cursor \in Pinned,
         NEW c \in committed
  PROVE  /\ StoredFor(c, a)' = StoredFor(c, a)
         /\ Position(a, TailBehind(c, cursor))' = Position(a, TailBehind(c, cursor))
         /\ Position(a, TailAhead(c, asof, cursor))' = Position(a, TailAhead(c, asof, cursor))
<1> DEFINE settled == {s \in committed : xid[s] < cursor}
<1>1. settled' = settled
  BY SettledBelow
<1>2. xid'[c] = xid[c] /\ EndOf(c)' = EndOf(c)
  BY DatesKept DEF BookKept
<1>3. \A s \in settled : xid'[s] = xid[s] /\ EffectiveAt(s)' = EffectiveAt(s)
  BY DatesKept DEF BookKept
<1>4. TailBehind(c, cursor) = {s \in settled : EffectiveAt(s) < EndOf(c) /\ xid[c] <= xid[s] /\ s # c}
  BY DEF TailBehind
<1>5. TailBehind(c, cursor)'
        = {s \in settled' : EffectiveAt(s)' < EndOf(c)' /\ xid'[c] <= xid'[s] /\ s # c}
  BY DEF TailBehind
<1>6. TailBehind(c, cursor)' = TailBehind(c, cursor)
  BY <1>1, <1>2, <1>3, <1>4, <1>5
<1>7. TailAhead(c, asof, cursor)
        = {s \in settled : EndOf(c) <= EffectiveAt(s) /\ EffectiveAt(s) < asof}
  BY DEF TailAhead
<1>8. TailAhead(c, asof, cursor)'
        = {s \in settled' : EndOf(c)' <= EffectiveAt(s)' /\ EffectiveAt(s)' < asof}
  BY DEF TailAhead
<1>9. TailAhead(c, asof, cursor)' = TailAhead(c, asof, cursor)
  BY <1>1, <1>2, <1>3, <1>7, <1>8
<1>10. TailBehind(c, cursor) \subseteq committed /\ TailAhead(c, asof, cursor) \subseteq committed
  BY DEF TailBehind, TailAhead
<1>11. StoredFor(c, a)' = StoredFor(c, a)
  BY DEF StoredFor, BookKept
<1>12. ASSUME NEW S \in {TailBehind(c, cursor), TailAhead(c, asof, cursor)}
      PROVE  PositionOf(moved', a, S) = PositionOf(moved, a, S)
  <2>1. \A s \in S : moved'[s] = moved[s]
    BY <1>10, <1>12 DEF BookKept
  <2> QED BY <2>1, PositionLocal
<1>13. /\ Position(a, TailBehind(c, cursor)) = PositionOf(moved, a, TailBehind(c, cursor))
       /\ Position(a, TailBehind(c, cursor))' = PositionOf(moved', a, TailBehind(c, cursor)')
       /\ Position(a, TailAhead(c, asof, cursor)) = PositionOf(moved, a, TailAhead(c, asof, cursor))
       /\ Position(a, TailAhead(c, asof, cursor))'
             = PositionOf(moved', a, TailAhead(c, asof, cursor)')
  BY DEF Position, PositionOf, MovedOn, OnAccount
<1> QED BY <1>6, <1>9, <1>11, <1>12, <1>13

(* No step changes what is read at a cursor that can be pinned before it.  *)
LEMMA ReportKept ==
  ASSUME CloseInv, [Next]_vars, NEW a, NEW asof, NEW cursor \in Pinned
  PROVE  ThroughTheCheckpoint(a, asof, cursor)' = ThroughTheCheckpoint(a, asof, cursor)
<1>1. BookKept /\ Newcomers
  BY BookGrows
<1> DEFINE anchors == Anchors(Currency[a], asof, cursor)
           c == AnyOf(anchors)
<1>2. anchors' = anchors /\ anchors \subseteq committed
  BY <1>1, AnchorsKept
<1>3. CASE anchors = {}
  BY <1>1, <1>2, <1>3, FromInceptionKept DEF ThroughTheCheckpoint
<1>4. CASE anchors # {}
  <2>1. c \in committed /\ AnyOf(anchors') = c
    BY <1>2, <1>4 DEF AnyOf
  <2>2. /\ StoredFor(c, a)' = StoredFor(c, a)
        /\ Position(a, TailBehind(c, cursor))' = Position(a, TailBehind(c, cursor))
        /\ Position(a, TailAhead(c, asof, cursor))' = Position(a, TailAhead(c, asof, cursor))
    BY <1>1, <2>1, TailsKept
  <2>3. ThroughTheCheckpoint(a, asof, cursor)
          = Plus(StoredFor(c, a), Plus(Position(a, TailBehind(c, cursor)),
                                       Position(a, TailAhead(c, asof, cursor))))
    BY <1>4 DEF ThroughTheCheckpoint
  <2>4. ThroughTheCheckpoint(a, asof, cursor)'
          = Plus(StoredFor(c, a)', Plus(Position(a, TailBehind(c, cursor))',
                                        Position(a, TailAhead(c, asof, cursor))'))
    BY <1>2, <1>4 DEF ThroughTheCheckpoint
  <2> QED BY <2>2, <2>3, <2>4 DEF Plus
<1> QED BY <1>3, <1>4

(* A report read again at a cursor it was pinned at is the same report,    *)
(* whatever posts, closes or fails in between.                             *)
THEOREM ReproducibleReports == Spec => ReportsAreReproducible
<1>1. CloseInv /\ [Next]_vars =>
        [Book' # Book =>
           \A a \in Accounts, asof \in Instants : \A cursor \in Pinned :
             ThroughTheCheckpoint(a, asof, cursor)'
               = ThroughTheCheckpoint(a, asof, cursor)]_vars
  BY ReportKept
<1> QED BY <1>1, CloseInvariance, PTL DEF Spec, ReportsAreReproducible

-----------------------------------------------------------------------------
(* Positions *)

(* What a session moved is a gross of natural numbers per account, and     *)
(* nothing is written for an account that does not move.                   *)
IsLegs(m) ==
  /\ DOMAIN m \subseteq Accounts
  /\ \A a \in DOMAIN m : m[a] \in [input : Nat, output : Nat] /\ m[a] # Gross(0, 0)

LegsTyped == \A s \in Sessions : IsLegs(moved[s])

(* The two sides of an account, over all sessions.                         *)
Into(a)  == [s \in Sessions |-> MovedOn(s, a).input]
OutOf(a) == [s \in Sessions |-> MovedOn(s, a).output]

LEMMA SidesTyped ==
  ASSUME LegsTyped, NEW a, NEW s \in Sessions
  PROVE  /\ MovedOn(s, a) \in [input : Nat, output : Nat]
         /\ Into(a)[s] \in Nat /\ OutOf(a)[s] \in Nat
         /\ MovedOn(s, a) = Gross(Into(a)[s], OutOf(a)[s])
<1>1. MovedOn(s, a) \in [input : Nat, output : Nat]
  BY DEF MovedOn, LegsTyped, IsLegs, Gross
<1> QED BY <1>1 DEF Into, OutOf, Gross

(* A position is the sum of its sides.                                     *)
LEMMA PositionIs ==
  ASSUME LegsTyped, NEW a, NEW S \in SUBSET Sessions
  PROVE  /\ IsFiniteSet(S)
         /\ Position(a, S) = Gross(SumFunctionOnSet(Into(a), S), SumFunctionOnSet(OutOf(a), S))
         /\ SumFunctionOnSet(Into(a), S) \in Nat /\ SumFunctionOnSet(OutOf(a), S) \in Nat
         /\ Position(a, S).input = SumFunctionOnSet(Into(a), S)
         /\ Position(a, S).output = SumFunctionOnSet(OutOf(a), S)
<1> DEFINE in == [s \in S |-> MovedOn(s, a).input]
           out == [s \in S |-> MovedOn(s, a).output]
<1>1. IsFiniteSet(S)
  BY SessionsAssumption, FS_Subset
<1>2. \A s \in S : /\ in[s] = Into(a)[s] /\ out[s] = OutOf(a)[s]
                   /\ Into(a)[s] \in Nat /\ OutOf(a)[s] \in Nat
  BY SidesTyped DEF Into, OutOf
<1>3. DOMAIN in = S /\ DOMAIN out = S /\ Position(a, S) = Gross(SumFunction(in), SumFunction(out))
  BY DEF Position
<1> HIDE DEF in, out
<1>4. SumFunction(in) = SumFunctionOnSet(in, S) /\ SumFunction(out) = SumFunctionOnSet(out, S)
  BY <1>3, SumOverDomain
<1>5. SumFunctionOnSet(in, S) = SumFunctionOnSet(Into(a), S)
  BY <1>1, <1>2, SumSame
<1>6. SumFunctionOnSet(out, S) = SumFunctionOnSet(OutOf(a), S)
  BY <1>1, <1>2, SumSame
<1>7. SumFunctionOnSet(Into(a), S) \in Nat /\ SumFunctionOnSet(OutOf(a), S) \in Nat
  BY <1>1, <1>2, SumNat
<1> QED BY <1>1, <1>3, <1>4, <1>5, <1>6, <1>7 DEF Gross

(* The position in two sets of sessions with none in common is the sum of  *)
(* the two.                                                                *)
LEMMA PositionsAdd ==
  ASSUME LegsTyped, NEW a, NEW S \in SUBSET Sessions, NEW R \in SUBSET Sessions, S \cap R = {}
  PROVE  Position(a, S \cup R) = Plus(Position(a, S), Position(a, R))
<1>1. IsFiniteSet(S) /\ IsFiniteSet(R)
  BY PositionIs
<1>2. \A s \in S \cup R : Into(a)[s] \in Int /\ OutOf(a)[s] \in Int
  BY SidesTyped
<1>3. SumFunctionOnSet(Into(a), S \cup R)
        = SumFunctionOnSet(Into(a), S) + SumFunctionOnSet(Into(a), R)
  BY <1>1, <1>2, SumUnion
<1>4. SumFunctionOnSet(OutOf(a), S \cup R)
        = SumFunctionOnSet(OutOf(a), S) + SumFunctionOnSet(OutOf(a), R)
  BY <1>1, <1>2, SumUnion
<1>5. S \cup R \in SUBSET Sessions
  OBVIOUS
<1>6. Position(a, S \cup R)
        = Gross(SumFunctionOnSet(Into(a), S \cup R), SumFunctionOnSet(OutOf(a), S \cup R))
  BY <1>5, PositionIs
<1>7. /\ Position(a, S).input = SumFunctionOnSet(Into(a), S)
      /\ Position(a, S).output = SumFunctionOnSet(OutOf(a), S)
      /\ Position(a, R).input = SumFunctionOnSet(Into(a), R)
      /\ Position(a, R).output = SumFunctionOnSet(OutOf(a), R)
  BY PositionIs
<1> QED BY <1>3, <1>4, <1>6, <1>7 DEF Plus

(* Sessions that do not touch an account leave it at nothing; whoever      *)
(* touches it leaves it at something, on one side at least.                *)
LEMMA PositionOfTouched ==
  ASSUME LegsTyped, NEW a, NEW S \in SUBSET Sessions
  PROVE  /\ (\A s \in S : a \notin DOMAIN moved[s]) => Position(a, S) = Gross(0, 0)
         /\ \A s \in S : a \in DOMAIN moved[s] => Position(a, S) # Gross(0, 0)
<1>1. ASSUME \A s \in S : a \notin DOMAIN moved[s]
      PROVE  Position(a, S) = Gross(0, 0)
  <2>1. \A s \in S : Into(a)[s] = 0 /\ OutOf(a)[s] = 0
    BY <1>1 DEF Into, OutOf, MovedOn, Gross
  <2>2. IsFiniteSet(S)
    BY PositionIs
  <2>3. SumFunctionOnSet(Into(a), S) = 0
    BY <2>1, <2>2, SumZero
  <2>4. SumFunctionOnSet(OutOf(a), S) = 0
    BY <2>1, <2>2, SumZero
  <2> QED BY <2>3, <2>4, PositionIs
<1>2. ASSUME NEW s \in S, a \in DOMAIN moved[s]
      PROVE  Position(a, S) # Gross(0, 0)
  <2>1. Into(a)[s] # 0 \/ OutOf(a)[s] # 0
    <3>1. MovedOn(s, a) # Gross(0, 0)
      BY <1>2 DEF MovedOn, LegsTyped, IsLegs
    <3> QED BY <3>1, SidesTyped
  <2>2. IsFiniteSet(S) /\ \A r \in S : Into(a)[r] \in Nat /\ OutOf(a)[r] \in Nat
    BY PositionIs, SidesTyped
  <2>3. Into(a)[s] <= SumFunctionOnSet(Into(a), S)
    BY <2>2, SumNat
  <2>4. OutOf(a)[s] <= SumFunctionOnSet(OutOf(a), S)
    BY <2>2, SumNat
  <2>5. /\ Position(a, S).input = SumFunctionOnSet(Into(a), S)
        /\ Position(a, S).output = SumFunctionOnSet(OutOf(a), S)
        /\ SumFunctionOnSet(Into(a), S) \in Nat /\ SumFunctionOnSet(OutOf(a), S) \in Nat
    BY PositionIs
  <2>6. Into(a)[s] \in Nat /\ OutOf(a)[s] \in Nat
    BY <2>2
  <2>7. Position(a, S).input # 0 \/ Position(a, S).output # 0
    BY <2>1, <2>3, <2>4, <2>5, <2>6
  <2> QED BY <2>7 DEF Gross
<1> QED BY <1>1, <1>2

(* Nothing added to a gross leaves it as it is.                            *)
LEMMA PlusNothing ==
  ASSUME NEW i \in Nat, NEW o \in Nat
  PROVE  Plus(Gross(0, 0), Gross(i, o)) = Gross(i, o) /\ Plus(Gross(i, o), Gross(0, 0)) = Gross(i, o)
  BY DEF Plus, Gross

-----------------------------------------------------------------------------
(* What a close wrote *)

(* A session at work, or done and on the book.                             *)
Working(s) == pc[s] \in Running \/ s \in committed

(* A snapshot shows what was committed; a session at work asked what its   *)
(* kind may ask; ids are drawn in turn, after the snapshot's.              *)
SessionShape(s) ==
  /\ snap[s] \subseteq committed
  /\ s \in Posts /\ Working(s) => ask[s] \in Charges
  /\ s \in Closes /\ Working(s) =>
       ask[s] \in Asked /\ ask[s].period \in Periods /\ Earnings[ask[s].currency] # None
  /\ xid[s] < nextXid
  /\ s \in claims \cup committed => xid[s] # 0 /\ \A r \in snap[s] : xid[r] < xid[s]
  /\ \A r \in Sessions : xid[r] = xid[s] => r = s \/ xid[s] = 0

SessionsShaped == \A s \in Sessions : SessionShape(s)

(* Every step keeps that.                                                  *)
LEMMA SessionsShapedStep ==
  ASSUME CloseInv, SessionsShaped, [Next]_vars
  PROVE  SessionsShaped'
<1> USE DEF CloseInv, Functions, Progress, SessionsShaped, SessionShape, Working, Running,
            At, Goto, Answer, idVars, workVars
<1>1. ASSUME NEW s \in Sessions, BeginPost(s) PROVE SessionsShaped'
  BY <1>1, SessionsAssumption DEF BeginPost, SendStatement
<1>2. ASSUME NEW s \in Sessions, BeginClose(s) PROVE SessionsShaped'
  BY <1>2, SessionsAssumption DEF BeginClose, SendStatement
<1>3. ASSUME NEW s \in Sessions, RefuseContext(s) PROVE SessionsShaped'
  BY <1>3 DEF RefuseContext
<1>4. ASSUME NEW s \in Sessions, Claim(s) PROVE SessionsShaped'
  <2>1. /\ xid'[s] = nextXid /\ nextXid' = nextXid + 1 /\ snap' = snap /\ ask' = ask
        /\ committed' = committed /\ claims' = claims \cup {s} /\ pc[s] = "claiming"
        /\ \A r \in Sessions \ {s} : xid'[r] = xid[r] /\ pc'[r] = pc[r]
        /\ \A r \in Sessions : xid[r] \in Nat /\ xid[r] < nextXid
        /\ nextXid \in Nat \ {0}
    BY <1>4 DEF Claim
  <2>2. SessionShape(s)'
    BY <2>1
  <2>3. ASSUME NEW r \in Sessions \ {s} PROVE SessionShape(r)'
    <3>1. /\ \A q \in snap[r] : q # s
          /\ xid[r] < nextXid + 1 /\ nextXid # xid[r]
      BY <2>1, <2>3
    <3>2. s \in Sessions /\ \A q \in snap[r] : xid'[q] = xid[q]
      BY <2>1, <3>1
    <3> QED BY <2>1, <3>1, <3>2
  <2> QED BY <2>2, <2>3
<1>5. ASSUME NEW s \in Sessions, RefuseHeldKey(s) \/ Fail(s) PROVE SessionsShaped'
  BY <1>5 DEF RefuseHeldKey, Fail, Rollback
<1>6. ASSUME NEW s \in Sessions, LockRow(s) \/ Checkpoint(s) PROVE SessionsShaped'
  BY <1>6 DEF LockRow, Checkpoint
<1>7. ASSUME NEW s \in Sessions, Commit(s) PROVE SessionsShaped'
  BY <1>7 DEF Commit
<1>8. CASE UNCHANGED vars
  BY <1>8 DEF vars
<1> QED BY <1>1, <1>2, <1>3, <1>4, <1>5, <1>6, <1>7, <1>8 DEF Next, Step, AllDone

(* The sweep, of the accounts swept, what each had left, and the earnings  *)
(* account they go to.                                                     *)
SweepOf(out, home, left) ==
  LET debits == {a \in out : left[a] > 0}
      amount == [a \in out |-> IF a \in debits THEN left[a] ELSE -left[a]]
  IN [a \in IF out = {} THEN {} ELSE out \cup {home} |->
        IF a = home
          THEN Gross(SumFunctionOnSet(amount, debits), SumFunctionOnSet(amount, out \ debits))
        ELSE IF a \in debits THEN Gross(0, amount[a]) ELSE Gross(amount[a], 0)]

(* A sweep depends on the sessions of its snapshot and on no other.        *)
LEMMA SweepKept ==
  ASSUME NEW c \in Closes, NEW cursor, ask'[c] = ask[c], snap'[c] = snap[c],
         \A r \in snap[c] : ask'[r] = ask[r] /\ xid'[r] = xid[r] /\ moved'[r] = moved[r]
  PROVE  SweepLegs(c, cursor)' = SweepLegs(c, cursor)
<1> DEFINE out == Sweepable(c, cursor)
           home == Earnings[ask[c].currency]
           left == [a \in out |-> Left(a, c, cursor)]
<1>1. \A r \in snap[c] : EffectiveAt(r)' = EffectiveAt(r)
  BY DEF EffectiveAt
<1>2. Swept(c, cursor)' = Swept(c, cursor)
  BY <1>1 DEF Swept
<1>3. ASSUME NEW a PROVE Left(a, c, cursor)' = Left(a, c, cursor)
  <2>1. \A r \in Swept(c, cursor) : moved'[r] = moved[r]
    BY DEF Swept
  <2>2. PositionOf(moved', a, Swept(c, cursor)) = PositionOf(moved, a, Swept(c, cursor))
    BY <2>1, PositionLocal
  <2>3. /\ Position(a, Swept(c, cursor)) = PositionOf(moved, a, Swept(c, cursor))
        /\ Position(a, Swept(c, cursor))' = PositionOf(moved', a, Swept(c, cursor)')
    BY DEF Position, PositionOf, MovedOn, OnAccount
  <2>4. Position(a, Swept(c, cursor))' = Position(a, Swept(c, cursor))
    BY <1>2, <2>2, <2>3
  <2> QED BY <2>4 DEF Left, DebitPositive
<1>4. EveryTemporary(c, cursor)' = EveryTemporary(c, cursor)
  BY DEF EveryTemporary, AccountsIn
<1>5. out' = out
  BY <1>3, <1>4 DEF Sweepable
<1>6. left' = left /\ home' = home
  BY <1>3, <1>5
<1>7. SweepLegs(c, cursor) = SweepOf(out, home, left)
  BY DEF SweepLegs, SweepOf
<1>8. SweepLegs(c, cursor)' = SweepOf(out', home', left')
  BY DEF SweepLegs, SweepOf
<1> HIDE DEF out, home, left
<1> QED BY <1>5, <1>6, <1>7, <1>8

(* Its legs are typed: each account swept moves what it had left, and the  *)
(* earnings account, which is none of them, the sum.                       *)
LEMMA SweepTyped ==
  ASSUME LegsTyped, SessionsShaped, CloseInv, NEW c \in Closes, Working(c), NEW cursor
  PROVE  IsLegs(SweepLegs(c, cursor))
<1> DEFINE out == Sweepable(c, cursor)
           home == Earnings[ask[c].currency]
           left == [a \in out |-> Left(a, c, cursor)]
           debits == {a \in out : left[a] > 0}
           amount == [a \in out |-> IF a \in debits THEN left[a] ELSE -left[a]]
           legs == SweepLegs(c, cursor)
<1>1. home \in Accounts /\ out \subseteq Accounts /\ home \notin out
  BY AccountsAssumption, CurrenciesAssumption
     DEF SessionsShaped, SessionShape, Sessions, Sweepable, EveryTemporary, AccountsIn
<1>2. \A a \in out : left[a] \in Int /\ left[a] # 0
  <2>1. Swept(c, cursor) \in SUBSET Sessions
    BY DEF Swept, SessionsShaped, SessionShape, CloseInv, Functions, Sessions
  <2>2. \A a : Position(a, Swept(c, cursor)).input \in Nat
               /\ Position(a, Swept(c, cursor)).output \in Nat
    BY <2>1, PositionIs
  <2> QED BY <2>2 DEF Left, DebitPositive, Sweepable
<1>3. \A a \in out : amount[a] \in Nat \ {0}
  BY <1>2
<1>4. IsFiniteSet(out) /\ IsFiniteSet(debits) /\ IsFiniteSet(out \ debits)
  <2>1. IsFiniteSet(out)
    BY <1>1, AccountsAssumption, FS_Subset
  <2> QED BY <2>1, FS_Subset
<1>5. /\ SumFunctionOnSet(amount, debits) \in Nat
      /\ \A a \in debits : amount[a] <= SumFunctionOnSet(amount, debits)
  <2>1. \A a \in debits : amount[a] \in Nat
    BY <1>3
  <2> HIDE DEF amount, debits
  <2> QED BY <1>4, <2>1, SumNat
<1>6. /\ SumFunctionOnSet(amount, out \ debits) \in Nat
      /\ \A a \in out \ debits : amount[a] <= SumFunctionOnSet(amount, out \ debits)
  <2>1. \A a \in out \ debits : amount[a] \in Nat
    BY <1>3
  <2> HIDE DEF amount, debits, out
  <2> QED BY <1>4, <2>1, SumNat
<1>7. legs = [a \in IF out = {} THEN {} ELSE out \cup {home} |->
                IF a = home
                  THEN Gross(SumFunctionOnSet(amount, debits),
                             SumFunctionOnSet(amount, out \ debits))
                ELSE IF a \in debits THEN Gross(0, amount[a]) ELSE Gross(amount[a], 0)]
  BY DEF SweepLegs
<1> HIDE DEF out, home, left, debits, amount, legs
<1>8. CASE out = {}
  BY <1>7, <1>8 DEF IsLegs, legs
<1>9. CASE out # {}
  <2>1. DOMAIN legs = out \cup {home}
    BY <1>7, <1>9
  <2>2. ASSUME NEW a \in out PROVE legs[a] \in [input : Nat, output : Nat] /\ legs[a] # Gross(0, 0)
    <3>1. legs[a] = Gross(0, amount[a]) \/ legs[a] = Gross(amount[a], 0)
      BY <1>1, <1>7, <1>9
    <3> QED BY <1>3, <3>1 DEF Gross
  <2>3. legs[home] \in [input : Nat, output : Nat] /\ legs[home] # Gross(0, 0)
    <3>1. legs[home] = Gross(SumFunctionOnSet(amount, debits),
                             SumFunctionOnSet(amount, out \ debits))
      BY <1>7, <1>9
    <3>2. PICK a \in out : TRUE
      BY <1>9
    <3>3. SumFunctionOnSet(amount, debits) # 0 \/ SumFunctionOnSet(amount, out \ debits) # 0
      <4>1. CASE a \in debits
        BY <1>3, <1>5, <4>1
      <4>2. CASE a \in out \ debits
        BY <1>3, <1>6, <4>2
      <4> QED BY <4>1, <4>2
    <3> QED BY <1>5, <1>6, <3>1, <3>3 DEF Gross
  <2> QED BY <1>1, <2>1, <2>2, <2>3 DEF IsLegs, legs
<1> QED BY <1>8, <1>9

(* What an account that is not the earnings account moves in a sweep takes *)
(* it to zero.                                                             *)
LEMMA SweepZeroes ==
  ASSUME NEW c \in Closes, NEW cursor, NEW a \in EveryTemporary(c, cursor),
         Left(a, c, cursor) \in Int
  PROVE  DebitPositive(IF a \in DOMAIN SweepLegs(c, cursor) THEN SweepLegs(c, cursor)[a]
                                                            ELSE Gross(0, 0))
           = - Left(a, c, cursor)
<1> DEFINE legs == SweepLegs(c, cursor)
           out == Sweepable(c, cursor)
           home == Earnings[ask[c].currency]
<1>1. a # home
  BY DEF EveryTemporary
<1>2. CASE Left(a, c, cursor) = 0
  <2>1. a \notin DOMAIN legs
    BY <1>1, <1>2 DEF SweepLegs, Sweepable
  <2> QED BY <1>2, <2>1 DEF DebitPositive, Gross
<1>3. CASE Left(a, c, cursor) # 0
  <2>1. a \in out /\ out # {}
    BY <1>3 DEF Sweepable
  <2>2. a \in DOMAIN legs
    BY <2>1 DEF SweepLegs
  <2>3. /\ Left(a, c, cursor) > 0 => legs[a] = Gross(0, Left(a, c, cursor))
        /\ ~(Left(a, c, cursor) > 0) => legs[a] = Gross(- Left(a, c, cursor), 0)
    BY <1>1, <2>1 DEF SweepLegs
  <2> HIDE DEF legs
  <2>4. DebitPositive(legs[a]) = - Left(a, c, cursor)
    BY <2>3 DEF DebitPositive, Gross
  <2> QED BY <2>2, <2>4 DEF legs
<1> QED BY <1>2, <1>3

(* It touches the accounts of its currency, and the earnings account.      *)
LEMMA SweepTouches ==
  ASSUME NEW c \in Closes, NEW cursor
  PROVE  DOMAIN SweepLegs(c, cursor)
           \subseteq AccountsIn(ask[c].currency) \cup {Earnings[ask[c].currency]}
  BY DEF SweepLegs, Sweepable, EveryTemporary

(* A close that holds its key has written its sweep, of its own snapshot   *)
(* below its own id.                                                       *)
SweepsWritten ==
  \A c \in Closes : c \in claims \cup committed => moved[c] = SweepLegs(c, xid[c])

(* The checkpoint of a close is of the book as it was at some moment after *)
(* its snapshot.                                                           *)
CheckpointTaken(c) ==
  \E K \in SUBSET committed : snap[c] \subseteq K /\ stored[c] = CheckpointOf(c, K)

CheckpointsWritten ==
  \A c \in Closes : pc[c] = "committing" \/ c \in committed => CheckpointTaken(c)

(* A checkpoint depends on what it admits and on nothing else.             *)
LEMMA CheckpointKept ==
  ASSUME NEW c \in Closes, NEW K,
         \A r \in K \cup {c} : ask'[r] = ask[r] /\ xid'[r] = xid[r] /\ moved'[r] = moved[r]
  PROVE  CheckpointOf(c, K)' = CheckpointOf(c, K)
<1> DEFINE S == Admitted(c, K)
           mine == Touched(S) \cap AccountsIn(ask[c].currency)
<1>1. \A r \in K \cup {c} : EffectiveAt(r)' = EffectiveAt(r)
  BY DEF EffectiveAt
<1>2. S' = S
  BY <1>1 DEF Admitted
<1>3. \A r \in S : moved'[r] = moved[r]
  BY DEF Admitted
<1>4. mine' = mine
  BY <1>2, <1>3 DEF Touched, AccountsIn
<1> HIDE DEF S
<1>5. ASSUME NEW a PROVE Position(a, S)' = Position(a, S)
  <2>1. PositionOf(moved', a, S) = PositionOf(moved, a, S)
    BY <1>3, PositionLocal
  <2>2. Position(a, S) = PositionOf(moved, a, S) /\ Position(a, S)' = PositionOf(moved', a, S')
    BY DEF Position, PositionOf, MovedOn, OnAccount
  <2> QED BY <1>2, <2>1, <2>2
<1>6. CheckpointOf(c, K) = [a \in mine |-> Position(a, S)]
  BY DEF CheckpointOf, S
<1>7. CheckpointOf(c, K)' = [a \in mine' |-> Position(a, S)']
  BY DEF CheckpointOf, S
<1> HIDE DEF mine
<1> QED BY <1>4, <1>5, <1>6, <1>7

(* What the legs of a post are.                                            *)
LEMMA ChargeTyped ==
  ASSUME NEW x \in Charges
  PROVE  IsLegs(ChargeLegs(x))
<1>1. x.debit \in Accounts /\ x.credit \in Accounts /\ x.amount \in Nat \ {0}
  BY ChargesAssumption
<1> QED BY <1>1 DEF IsLegs, ChargeLegs, Gross

WrittenInv == LegsTyped /\ SweepsWritten /\ CheckpointsWritten

(* Legs that are there stay typed when one session's are written or        *)
(* dropped.                                                                *)
LEMMA LegsTypedStays ==
  ASSUME CloseInv, LegsTyped, NEW s \in Sessions, NEW legs, IsLegs(legs),
         moved' = [moved EXCEPT ![s] = legs]
  PROVE  LegsTyped'
  BY DEF CloseInv, Functions, LegsTyped, IsLegs

(* A step by which no close claims, checkpoints or commits keeps what the  *)
(* closes wrote, whatever else is rolled back.                             *)
LEMMA WrittenStays ==
  ASSUME CloseInv, SessionsShaped, WrittenInv, BookKept, LegsTyped',
         \A c \in Closes : c \in (claims \cup committed)' =>
           /\ c \in claims \cup committed
           /\ ask'[c] = ask[c] /\ xid'[c] = xid[c] /\ snap'[c] = snap[c] /\ moved'[c] = moved[c],
         \A c \in Closes : pc'[c] = "committing" \/ c \in committed' =>
           (pc[c] = "committing" \/ c \in committed) /\ stored'[c] = stored[c]
             /\ c \in (claims \cup committed)'
  PROVE  WrittenInv'
<1>1. SweepsWritten'
  <2> SUFFICES ASSUME NEW c \in Closes, c \in (claims \cup committed)'
               PROVE  moved'[c] = SweepLegs(c, xid[c])'
    BY DEF SweepsWritten
  <2>1. PICK x : x = xid[c]
    OBVIOUS
  <2>2. \A r \in snap[c] : ask'[r] = ask[r] /\ xid'[r] = xid[r] /\ moved'[r] = moved[r]
    BY DEF SessionsShaped, SessionShape, BookKept, Sessions
  <2>3. SweepLegs(c, x)' = SweepLegs(c, x)
    BY <2>2, SweepKept
  <2>4. SweepLegs(c, xid[c])' = SweepLegs(c, x)'
    BY <2>1
  <2> QED BY <2>1, <2>3, <2>4 DEF WrittenInv, SweepsWritten
<1>2. CheckpointsWritten'
  <2> SUFFICES ASSUME NEW c \in Closes, pc'[c] = "committing" \/ c \in committed'
               PROVE  CheckpointTaken(c)'
    BY DEF CheckpointsWritten
  <2>1. PICK K \in SUBSET committed : snap[c] \subseteq K /\ stored[c] = CheckpointOf(c, K)
    BY DEF WrittenInv, CheckpointsWritten, CheckpointTaken
  <2>2. \A r \in K \cup {c} : ask'[r] = ask[r] /\ xid'[r] = xid[r] /\ moved'[r] = moved[r]
    BY <2>1 DEF BookKept
  <2>3. CheckpointOf(c, K)' = CheckpointOf(c, K)
    BY <2>2, CheckpointKept
  <2>4. snap'[c] = snap[c] /\ stored'[c] = stored[c] /\ K \in SUBSET committed'
    BY <2>1 DEF BookKept
  <2> QED BY <2>1, <2>3, <2>4 DEF CheckpointTaken
<1> QED BY <1>1, <1>2 DEF WrittenInv

(* Every step keeps what the closes wrote.                                 *)
LEMMA WrittenStep ==
  ASSUME CloseInv, SessionsShaped, WrittenInv, [Next]_vars
  PROVE  WrittenInv'
<1> USE DEF CloseInv, Functions, Progress, At, Goto, Answer, idVars, workVars
<1>0. BookKept
  BY BookGrows
<1>1. ASSUME NEW s \in Sessions, BeginPost(s) \/ BeginClose(s) \/ RefuseContext(s)
      PROVE  WrittenInv'
  <2>1. LegsTyped'
    BY <1>1 DEF BeginPost, BeginClose, RefuseContext, WrittenInv, LegsTyped, IsLegs
  <2>2. /\ s \notin claims \cup committed /\ pc[s] = "idle" /\ pc'[s] # "committing"
        /\ UNCHANGED <<claims, committed, xid, moved, stored>>
        /\ \A r \in Sessions \ {s} : ask'[r] = ask[r] /\ snap'[r] = snap[r] /\ pc'[r] = pc[r]
    <3>1. \A r \in Sessions \ {s} : snap'[r] = snap[r]
      BY <1>1 DEF BeginPost, BeginClose, RefuseContext, SendStatement
    <3> QED BY <1>1, <3>1 DEF BeginPost, BeginClose, RefuseContext, SendStatement
  <2> QED BY <1>0, <2>1, <2>2, WrittenStays DEF Sessions
<1>2. ASSUME NEW s \in Sessions, Claim(s) PROVE WrittenInv'
  <2>1. /\ pc[s] = "claiming" /\ s \notin claims \cup committed
        /\ claims' = claims \cup {s} /\ UNCHANGED <<ask, snap, stored, committed>>
        /\ \A r \in Sessions \ {s} : xid'[r] = xid[r] /\ moved'[r] = moved[r] /\ pc'[r] = pc[r]
        /\ xid'[s] = nextXid /\ pc'[s] = "locking"
        /\ moved'[s] = IF s \in Closes THEN SweepLegs(s, nextXid) ELSE ChargeLegs(ask[s])
        /\ moved' = [moved EXCEPT ![s] = IF s \in Closes THEN SweepLegs(s, nextXid)
                                                         ELSE ChargeLegs(ask[s])]
    BY <1>2 DEF Claim
  <2>2. LegsTyped'
    <3>1. CASE s \in Closes
      <4>1. IsLegs(SweepLegs(s, nextXid))
        BY <2>1, <3>1, SweepTyped DEF WrittenInv, Working, Running
      <4> QED BY <2>1, <3>1, <4>1, LegsTypedStays DEF WrittenInv
    <3>2. CASE s \notin Closes
      <4>1. IsLegs(ChargeLegs(ask[s]))
        BY <2>1, <3>2, ChargeTyped DEF Sessions, SessionsShaped, SessionShape, Working, Running
      <4> QED BY <2>1, <3>2, <4>1, LegsTypedStays DEF WrittenInv
    <3> QED BY <3>1, <3>2
  <2>3. SweepsWritten'
    <3> SUFFICES ASSUME NEW c \in Closes, c \in (claims \cup committed)'
                 PROVE  moved'[c] = SweepLegs(c, xid[c])'
      BY DEF SweepsWritten
    <3>1. PICK x : x = xid'[c]
      OBVIOUS
    <3>2. \A r \in snap[c] : ask'[r] = ask[r] /\ xid'[r] = xid[r] /\ moved'[r] = moved[r]
      BY <2>1 DEF SessionsShaped, SessionShape, Sessions
    <3>3. SweepLegs(c, x)' = SweepLegs(c, x)
      BY <2>1, <3>2, SweepKept
    <3>4. SweepLegs(c, xid[c])' = SweepLegs(c, x)'
      BY <3>1
    <3>5. moved'[c] = SweepLegs(c, x)
      BY <2>1, <3>1 DEF WrittenInv, SweepsWritten, Sessions
    <3> QED BY <3>3, <3>4, <3>5
  <2>4. CheckpointsWritten'
    <3> SUFFICES ASSUME NEW c \in Closes, pc'[c] = "committing" \/ c \in committed'
                 PROVE  CheckpointTaken(c)'
      BY DEF CheckpointsWritten
    <3>0. c # s /\ (pc[c] = "committing" \/ c \in committed)
      BY <2>1 DEF Sessions
    <3>1. PICK K \in SUBSET committed : snap[c] \subseteq K /\ stored[c] = CheckpointOf(c, K)
      BY <3>0 DEF WrittenInv, CheckpointsWritten, CheckpointTaken
    <3>2. \A r \in K \cup {c} : ask'[r] = ask[r] /\ xid'[r] = xid[r] /\ moved'[r] = moved[r]
      BY <2>1, <3>0, <3>1 DEF Sessions
    <3>3. CheckpointOf(c, K)' = CheckpointOf(c, K)
      BY <3>2, CheckpointKept
    <3> QED BY <2>1, <3>1, <3>3 DEF CheckpointTaken
  <2> QED BY <2>2, <2>3, <2>4 DEF WrittenInv
<1>3. ASSUME NEW s \in Sessions, RefuseHeldKey(s) \/ Fail(s) PROVE WrittenInv'
  <2>1. /\ moved' = [moved EXCEPT ![s] = Nothing] /\ claims' = claims \ {s}
        /\ s \notin committed /\ pc'[s] = "done"
        /\ UNCHANGED <<ask, xid, snap, committed>>
        /\ \A r \in Sessions \ {s} : pc'[r] = pc[r] /\ moved'[r] = moved[r] /\ stored'[r] = stored[r]
    BY <1>3 DEF RefuseHeldKey, Fail, Rollback, Running
  <2>2. IsLegs(Nothing)
    BY DEF IsLegs, Nothing
  <2>3. LegsTyped'
    BY <2>1, <2>2, LegsTypedStays DEF WrittenInv
  <2> QED BY <1>0, <2>1, <2>3, WrittenStays DEF Sessions
<1>4. ASSUME NEW s \in Sessions, LockRow(s) PROVE WrittenInv'
  <2>1. LegsTyped'
    BY <1>4 DEF LockRow, WrittenInv, LegsTyped, IsLegs
  <2> QED BY <1>0, <1>4, <2>1, WrittenStays DEF LockRow, Sessions
<1>5. ASSUME NEW s \in Sessions, Checkpoint(s) PROVE WrittenInv'
  <2>1. /\ s \in Closes /\ stored' = [stored EXCEPT ![s] = CheckpointOf(s, committed)]
        /\ UNCHANGED <<ask, xid, snap, claims, moved, committed>>
        /\ \A r \in Sessions \ {s} : pc'[r] = pc[r] /\ stored'[r] = stored[r]
    BY <1>5 DEF Checkpoint
  <2>2. LegsTyped'
    BY <2>1 DEF WrittenInv, LegsTyped, IsLegs
  <2>3. SweepsWritten'
    <3> SUFFICES ASSUME NEW c \in Closes, c \in claims \cup committed
                 PROVE  moved'[c] = SweepLegs(c, xid[c])'
      BY <2>1 DEF SweepsWritten
    <3>1. PICK x : x = xid[c]
      OBVIOUS
    <3>2. SweepLegs(c, x)' = SweepLegs(c, x)
      BY <2>1, SweepKept
    <3>3. SweepLegs(c, xid[c])' = SweepLegs(c, x)'
      BY <2>1, <3>1
    <3> QED BY <2>1, <3>1, <3>2, <3>3 DEF WrittenInv, SweepsWritten
  <2>4. ASSUME NEW c \in Closes, NEW K PROVE CheckpointOf(c, K)' = CheckpointOf(c, K)
    BY <2>1, CheckpointKept
  <2>5. CheckpointsWritten'
    <3> SUFFICES ASSUME NEW c \in Closes, pc'[c] = "committing" \/ c \in committed'
                 PROVE  CheckpointTaken(c)'
      BY DEF CheckpointsWritten
    <3>1. CASE c = s
      <4>1. PICK K : K = committed
        OBVIOUS
      <4>2. stored'[c] = CheckpointOf(c, K)
        BY <2>1, <3>1, <4>1 DEF Sessions
      <4>3. K \in SUBSET committed' /\ snap'[c] \subseteq K
        BY <2>1, <4>1 DEF SessionsShaped, SessionShape, Sessions
      <4> QED BY <2>4, <4>2, <4>3 DEF CheckpointTaken
    <3>2. CASE c # s
      <4>1. PICK K \in SUBSET committed : snap[c] \subseteq K /\ stored[c] = CheckpointOf(c, K)
        BY <2>1, <3>2 DEF Sessions, WrittenInv, CheckpointsWritten, CheckpointTaken
      <4>2. stored'[c] = stored[c]
        BY <2>1, <3>2 DEF Sessions
      <4> QED BY <2>1, <2>4, <4>1, <4>2 DEF CheckpointTaken
    <3> QED BY <3>1, <3>2
  <2> QED BY <2>2, <2>3, <2>5 DEF WrittenInv
<1>6. ASSUME NEW s \in Sessions, Commit(s) PROVE WrittenInv'
  <2>1. /\ UNCHANGED <<ask, xid, snap, moved, stored>>
        /\ committed' = committed \cup {s} /\ claims' = claims \ {s} /\ s \in claims
        /\ pc[s] = "committing" \/ s \in Posts
        /\ \A r \in Sessions \ {s} : pc'[r] = pc[r]
        /\ pc'[s] = "done"
    BY <1>6 DEF Commit
  <2>2. LegsTyped'
    BY <2>1 DEF WrittenInv, LegsTyped, IsLegs
  <2>3. \A c \in Closes : c # s \/ pc[c] = "committing"
    BY <2>1, SessionsAssumption
  <2> QED BY <1>0, <2>1, <2>2, <2>3, WrittenStays DEF Sessions
<1>7. CASE UNCHANGED vars
  <2>1. LegsTyped'
    BY <1>7 DEF vars, WrittenInv, LegsTyped, IsLegs
  <2> QED BY <1>0, <1>7, <2>1, WrittenStays DEF vars, Sessions
<1> QED BY <1>1, <1>2, <1>3, <1>4, <1>5, <1>6, <1>7 DEF Next, Step, AllDone

(* What the closes wrote, of every behaviour.                              *)
BooksInv == CloseInv /\ SessionsShaped /\ WrittenInv

THEOREM BooksInvariance == Spec => []BooksInv
<1>1. Init => BooksInv
  <2> SUFFICES ASSUME Init PROVE SessionsShaped /\ WrittenInv
    BY CloseInvInit DEF BooksInv
  <2>1. SessionsShaped
    BY DEF Init, SessionsShaped, SessionShape, Working, Running
  <2>2. WrittenInv
    BY DEF Init, WrittenInv, LegsTyped, IsLegs, Nothing, SweepsWritten, CheckpointsWritten, Sessions
  <2> QED BY <2>1, <2>2
<1>2. BooksInv /\ [Next]_vars => BooksInv'
  BY CloseInvNext, SessionsShapedStep, WrittenStep DEF BooksInv
<1> QED BY <1>1, <1>2, PTL DEF Spec


-----------------------------------------------------------------------------
(* The order of the closes of a currency *)

(* Of finitely many members, one is the last by their dates.               *)
LEMMA LastOf ==
  ASSUME NEW C, IsFiniteSet(C), C # {}, NEW end, \A c \in C : end[c] \in Int
  PROVE  \E x \in C : \A y \in C : end[y] <= end[x]
<1> DEFINE After(x) == {y \in C : end[x] < end[y]}
           Afters == {After(x) : x \in C}
<1>1. \A T \in Afters : T \in FiniteSubsetsOf(C)
  <2> SUFFICES ASSUME NEW x \in C PROVE After(x) \in FiniteSubsetsOf(C)
    OBVIOUS
  <2>1. IsFiniteSet(After(x))
    BY FS_Subset
  <2> QED BY <2>1 DEF FiniteSubsetsOf
<1>2. PICK T \in Afters : \A U \in Afters : <<U, T>> \notin StrictSubsetOrdering(C)
  <2>1. Afters \subseteq FiniteSubsetsOf(C) /\ Afters # {}
    BY <1>1
  <2>2. IsWellFoundedOn(StrictSubsetOrdering(C), FiniteSubsetsOf(C))
    BY FS_StrictSubsetOrderingWellFounded
  <2> QED BY <2>1, <2>2, WFMin
<1>3. PICK x \in C : T = After(x)
  OBVIOUS
<1>4. ASSUME NEW y \in C, end[x] < end[y] PROVE FALSE
  <2>1. end[x] \in Int /\ end[y] \in Int /\ ~(end[y] < end[y])
    OBVIOUS
  <2>2. \A z \in C : end[y] < end[z] => end[x] < end[z]
    BY <1>4, <2>1
  <2>3. After(y) \subseteq After(x) /\ y \in After(x) /\ y \notin After(y)
    BY <1>4, <2>1, <2>2
  <2>4. <<After(y), After(x)>> \in StrictSubsetOrdering(C)
    BY <2>3 DEF StrictSubsetOrdering
  <2> QED BY <1>2, <1>3, <2>4
<1> QED BY <1>4

(* And one is the first.                                                   *)
LEMMA FirstOf ==
  ASSUME NEW C, IsFiniteSet(C), C # {}, NEW end, \A c \in C : end[c] \in Int
  PROVE  \E x \in C : \A y \in C : end[x] <= end[y]
<1> DEFINE back == [c \in C |-> - end[c]]
<1>1. \A c \in C : back[c] \in Int /\ end[c] = - back[c]
  OBVIOUS
<1> HIDE DEF back
<1>2. PICK x \in C : \A y \in C : back[y] <= back[x]
  BY <1>1, LastOf
<1>3. \A y \in C : end[x] <= end[y]
  BY <1>1, <1>2
<1> QED BY <1>3

(* Finitely many members, no two of the same date.                         *)
Dated(C, end) ==
  /\ IsFiniteSet(C)
  /\ \A c \in C : end[c] \in Int
  /\ \A c, d \in C : end[c] = end[d] => c = d

(* How many are as early as a member: its rank.                            *)
UpTo(C, end, c) == {d \in C : end[d] <= end[c]}
Rank(C, end, c) == Cardinality(UpTo(C, end, c))

(* The members before one of them, or at it, are a whole beginning; ranks  *)
(* tell the members of a beginning by its size.                            *)
LEMMA RankInBeginning ==
  ASSUME NEW C, NEW end, Dated(C, end), NEW B \in SUBSET C, NEW c \in C,
         \A d \in B : \A e \in C : end[e] <= end[d] => e \in B
  PROVE  /\ Cardinality(B) \in Nat /\ Rank(C, end, c) \in Nat \ {0}
         /\ c \in B <=> Rank(C, end, c) <= Cardinality(B)
<1> DEFINE U == UpTo(C, end, c)
<1>1. IsFiniteSet(B) /\ IsFiniteSet(U)
  BY FS_Subset DEF Dated, UpTo
<1>2. Cardinality(B) \in Nat /\ Cardinality(U) \in Nat
  BY <1>1, FS_CardinalityType
<1>3. c \in U
  BY DEF UpTo, Dated
<1>4. Cardinality(U) # 0
  BY <1>1, <1>3, FS_EmptySet
<1>5. ASSUME c \in B PROVE Cardinality(U) <= Cardinality(B)
  <2>1. U \in SUBSET B
    BY <1>5 DEF UpTo
  <2> HIDE DEF U
  <2> QED BY <1>1, <2>1, FS_Subset
<1>6. ASSUME c \notin B PROVE Cardinality(B) < Cardinality(U)
  <2>1. B \in SUBSET (U \ {c})
    BY <1>6 DEF UpTo, Dated
  <2> HIDE DEF U
  <2>2. Cardinality(U \ {c}) = Cardinality(U) - 1 /\ IsFiniteSet(U \ {c})
    BY <1>1, <1>3, FS_RemoveElement
  <2>3. Cardinality(B) <= Cardinality(U \ {c})
    BY <2>1, <2>2, FS_Subset
  <2> QED BY <1>2, <2>2, <2>3
<1> QED BY <1>2, <1>4, <1>5, <1>6 DEF Rank

(* Ranks are in the order of the dates.                                    *)
LEMMA RankOrders ==
  ASSUME NEW C, NEW end, Dated(C, end), NEW c \in C, NEW d \in C
  PROVE  /\ Rank(C, end, c) \in Nat \ {0} /\ Rank(C, end, d) \in Nat \ {0}
         /\ Rank(C, end, c) <= Rank(C, end, d) <=> end[c] <= end[d]
         /\ Rank(C, end, c) < Rank(C, end, d) <=> end[c] < end[d]
         /\ Rank(C, end, c) = Rank(C, end, d) <=> c = d
<1>1. ASSUME NEW x \in C, NEW y \in C
      PROVE  /\ Rank(C, end, x) \in Nat \ {0} /\ Rank(C, end, y) \in Nat \ {0}
             /\ Rank(C, end, x) <= Rank(C, end, y) <=> end[x] <= end[y]
  <2> DEFINE B == UpTo(C, end, y)
  <2>1. /\ B \in SUBSET C /\ \A p \in B : \A q \in C : end[q] <= end[p] => q \in B
        /\ x \in B <=> end[x] <= end[y]
    BY DEF UpTo, Dated
  <2>2. Cardinality(B) = Rank(C, end, y)
    BY DEF Rank
  <2> HIDE DEF B
  <2>3. Rank(C, end, x) \in Nat \ {0} /\ (x \in B <=> Rank(C, end, x) <= Cardinality(B))
    BY <2>1, RankInBeginning
  <2>4. Rank(C, end, y) \in Nat \ {0}
    BY <2>1, RankInBeginning
  <2> QED BY <2>1, <2>2, <2>3, <2>4
<1>2. /\ Rank(C, end, c) \in Nat \ {0} /\ Rank(C, end, d) \in Nat \ {0}
      /\ Rank(C, end, c) <= Rank(C, end, d) <=> end[c] <= end[d]
  BY <1>1
<1>3. Rank(C, end, d) <= Rank(C, end, c) <=> end[d] <= end[c]
  BY <1>1
<1>4. end[c] \in Int /\ end[d] \in Int /\ (end[c] = end[d] => c = d)
  BY DEF Dated
<1>5. Rank(C, end, c) < Rank(C, end, d) <=> end[c] < end[d]
  BY <1>2, <1>3, <1>4
<1>6. Rank(C, end, c) = Rank(C, end, d) => c = d
  BY <1>2, <1>3, <1>4
<1> QED BY <1>2, <1>5, <1>6

(* Whoever is not the first has one just before.                           *)
LEMMA RankBefore ==
  ASSUME NEW C, NEW end, Dated(C, end), NEW c \in C, NEW d \in C, end[d] < end[c]
  PROVE  \E p \in C : /\ Rank(C, end, p) + 1 = Rank(C, end, c)
                      /\ end[d] <= end[p] /\ end[p] < end[c]
<1> DEFINE B == {e \in C : end[e] < end[c]}
<1>1. IsFiniteSet(B) /\ B # {} /\ B \in SUBSET C /\ \A e \in B : end[e] \in Int
  BY FS_Subset DEF Dated
<1>2. PICK p \in B : \A e \in B : end[e] <= end[p]
  <2> HIDE DEF B
  <2> QED BY <1>1, LastOf
<1>3. UpTo(C, end, p) = UpTo(C, end, c) \ {c} /\ c \in UpTo(C, end, c)
  BY <1>1, <1>2 DEF UpTo, Dated
<1>4. IsFiniteSet(UpTo(C, end, c))
  BY FS_Subset DEF UpTo, Dated
<1>5. Cardinality(UpTo(C, end, p)) = Cardinality(UpTo(C, end, c)) - 1
  BY <1>3, <1>4, FS_RemoveElement
<1>6. Cardinality(UpTo(C, end, c)) \in Nat
  BY <1>4, FS_CardinalityType
<1> QED BY <1>1, <1>2, <1>5, <1>6 DEF Rank

(* The ends of the closes of a currency.                                   *)
Ends(u) == [c \in ClosesOf(u) |-> EndOf(c)]

(* Where entries and closes stand on the two axes.                         *)
LEMMA Placed ==
  ASSUME BooksInv, NEW s \in committed
  PROVE  /\ s \in Sessions /\ xid[s] \in Nat \ {0} /\ EffectiveAt(s) \in Int
         /\ s \in Closes => EndOf(s) \in Int /\ EffectiveAt(s) = EndOf(s) - 1
         /\ \A r \in Sessions : xid[r] = xid[s] => r = s
         /\ \A r \in snap[s] : xid[r] < xid[s] /\ r \in committed
<1>1. s \in Sessions /\ xid[s] \in Nat \ {0}
  BY DEF BooksInv, CloseInv, Functions, SessionsShaped, SessionShape
<1>2. CASE s \in Posts
  <2>1. ask[s] \in Charges /\ s \notin Closes
    BY <1>1, <1>2, SessionsAssumption DEF BooksInv, SessionsShaped, SessionShape, Working
  <2> QED BY <1>1, <2>1, ChargesAssumption
          DEF EffectiveAt, BooksInv, SessionsShaped, SessionShape
<1>3. CASE s \in Closes
  <2>1. ask[s].period \in Periods
    BY <1>1, <1>3 DEF BooksInv, SessionsShaped, SessionShape, Working
  <2> QED BY <1>1, <1>3, <2>1, PeriodsAssumption
          DEF EffectiveAt, EndOf, BooksInv, SessionsShaped, SessionShape
<1> QED BY <1>1, <1>2, <1>3 DEF Sessions

(* A period of a currency is closed once: closes of one are dated.         *)
LEMMA ClosesAreDated ==
  ASSUME BooksInv, NEW u
  PROVE  /\ Dated(ClosesOf(u), Ends(u)) /\ ClosesOf(u) \subseteq committed \cap Closes
         /\ \A c \in ClosesOf(u) : /\ Ends(u)[c] = EndOf(c) /\ ask[c].currency = u
                                   /\ IndexOf(c) = Rank(ClosesOf(u), Ends(u), c)
<1>1. ClosesOf(u) \subseteq committed \cap Closes /\ ClosesOf(u) \subseteq Sessions
  BY DEF ClosesOf, BooksInv, CloseInv, Functions
<1>2. IsFiniteSet(ClosesOf(u))
  BY <1>1, SessionsAssumption, FS_Subset
<1>3. \A c \in ClosesOf(u) : Ends(u)[c] = EndOf(c) /\ EndOf(c) \in Int /\ ask[c].currency = u
  BY <1>1, Placed DEF Ends, ClosesOf
<1>4. ASSUME NEW c \in ClosesOf(u), NEW d \in ClosesOf(u), EndOf(c) = EndOf(d) PROVE c = d
  <2>1. /\ ask[c].period \in Periods /\ ask[d].period \in Periods
        /\ ask[c] \in Asked /\ ask[d] \in Asked
    BY <1>1 DEF BooksInv, SessionsShaped, SessionShape, Working
  <2>2. ask[c].period = ask[d].period
    BY <1>4, <2>1, PeriodsAssumption DEF EndOf
  <2>3. ask[c] = ask[d]
    BY <1>3, <2>1, <2>2, CurrenciesAssumption
  <2> QED BY <1>1, <2>3 DEF Key, BooksInv, CloseInv, OneHolderPerKey
<1>5. ASSUME NEW c \in ClosesOf(u) PROVE IndexOf(c) = Rank(ClosesOf(u), Ends(u), c)
  BY <1>3 DEF IndexOf, Rank, UpTo
<1> QED BY <1>1, <1>2, <1>3, <1>4, <1>5 DEF Dated

(* The close before.                                                       *)
LEMMA PreviousIs ==
  ASSUME BooksInv, NEW u, NEW c \in ClosesOf(u)
  PROVE  /\ IndexOf(c) \in Nat \ {0}
         /\ Previous(c) = {} => IndexOf(c) = 1 /\ \A d \in ClosesOf(u) : EndOf(c) <= EndOf(d)
         /\ \A p \in Previous(c) :
              /\ p \in ClosesOf(u) /\ EndOf(p) < EndOf(c) /\ AnyOf(Previous(c)) = p
              /\ IndexOf(p) \in Nat \ {0} /\ IndexOf(p) + 1 = IndexOf(c)
              /\ \A d \in ClosesOf(u) : EndOf(d) < EndOf(c) => EndOf(d) <= EndOf(p)
<1> DEFINE C == ClosesOf(u)
           end == Ends(u)
<1>1. /\ Dated(C, end)
      /\ \A d \in C : end[d] = EndOf(d) /\ ask[d].currency = u /\ IndexOf(d) = Rank(C, end, d)
      /\ \A d \in C : EndOf(d) \in Int
  BY ClosesAreDated DEF Dated
<1> HIDE DEF C, end
<1>a. c \in C
  BY DEF C
<1>2. Previous(c) = {d \in C : IndexOf(d) + 1 = IndexOf(c)}
  BY <1>1, <1>a DEF Previous, C
<1>3. ASSUME NEW d \in C
      PROVE  /\ IndexOf(c) \in Nat \ {0} /\ IndexOf(d) \in Nat \ {0}
             /\ IndexOf(c) <= IndexOf(d) <=> EndOf(c) <= EndOf(d)
             /\ IndexOf(d) < IndexOf(c) <=> EndOf(d) < EndOf(c)
  BY <1>1, <1>a, RankOrders
<1>4. ASSUME Previous(c) = {} PROVE IndexOf(c) = 1 /\ \A d \in C : EndOf(c) <= EndOf(d)
  <2>1. \A d \in C : EndOf(c) <= EndOf(d)
    <3> SUFFICES ASSUME NEW d \in C, EndOf(d) < EndOf(c) PROVE FALSE
      BY <1>1, <1>a
    <3>1. end[d] < end[c]
      BY <1>1, <1>a
    <3>2. \E p \in C : Rank(C, end, p) + 1 = Rank(C, end, c)
      BY <1>1, <1>a, <3>1, RankBefore
    <3> QED BY <1>1, <1>2, <1>4, <1>a, <3>2
  <2>2. UpTo(C, end, c) = {c}
    BY <1>1, <1>a, <2>1 DEF UpTo, Dated
  <2>3. IndexOf(c) = Cardinality({c})
    BY <1>1, <1>a, <2>2 DEF Rank
  <2> QED BY <2>1, <2>3, FS_Singleton
<1>5. ASSUME NEW p \in Previous(c)
      PROVE  /\ p \in C /\ EndOf(p) < EndOf(c) /\ AnyOf(Previous(c)) = p
             /\ IndexOf(p) \in Nat \ {0} /\ IndexOf(p) + 1 = IndexOf(c)
             /\ \A d \in C : EndOf(d) < EndOf(c) => EndOf(d) <= EndOf(p)
  <2>1. p \in C /\ IndexOf(p) + 1 = IndexOf(c)
    BY <1>2
  <2>2. IndexOf(p) \in Nat \ {0} /\ EndOf(p) < EndOf(c)
    BY <1>3, <2>1
  <2>3. \A q \in Previous(c) : q = p
    <3> SUFFICES ASSUME NEW q \in Previous(c) PROVE q = p
      OBVIOUS
    <3>1. q \in C /\ IndexOf(q) + 1 = IndexOf(c) /\ IndexOf(q) \in Nat
      BY <1>2, <1>3
    <3>2. Rank(C, end, q) = Rank(C, end, p)
      BY <1>1, <2>1, <2>2, <3>1
    <3> QED BY <1>1, <2>1, <3>1, <3>2, RankOrders
  <2>4. AnyOf(Previous(c)) \in Previous(c)
    BY DEF AnyOf
  <2>5. \A d \in C : EndOf(d) < EndOf(c) => EndOf(d) <= EndOf(p)
    <3> SUFFICES ASSUME NEW d \in C, EndOf(d) < EndOf(c) PROVE EndOf(d) <= EndOf(p)
      OBVIOUS
    <3>1. IndexOf(d) < IndexOf(c) /\ IndexOf(d) \in Nat
      BY <1>3
    <3>2. Rank(C, end, d) <= Rank(C, end, p)
      BY <1>1, <2>1, <2>2, <3>1
    <3> QED BY <1>1, <2>1, <3>2, RankOrders
  <2> QED BY <2>1, <2>2, <2>3, <2>4, <2>5
<1> QED BY <1>3, <1>4, <1>5, <1>a DEF C

(* While recon_close_order is clean, the ids of the closes of a currency   *)
(* follow their ends, whichever two are compared.                          *)
LEMMA IdsFollowEnds ==
  ASSUME BooksInv, InOrder, NEW u, NEW c \in ClosesOf(u), NEW d \in ClosesOf(u)
  PROVE  xid[d] <= xid[c] <=> EndOf(d) <= EndOf(c)
<1> DEFINE C == ClosesOf(u)
           late == {x \in C : \E y \in C : EndOf(y) < EndOf(x) /\ xid[x] <= xid[y]}
<1>1. \A x \in C : /\ x \in committed \cap Closes /\ EndOf(x) \in Int /\ xid[x] \in Nat
                   /\ \A y \in C : xid[x] = xid[y] => x = y
                   /\ \A y \in C : EndOf(x) = EndOf(y) => x = y
  <2>1. \A x \in C : x \in committed \cap Closes
    BY ClosesAreDated
  <2>2. \A x, y \in C : EndOf(x) = EndOf(y) => x = y
    BY ClosesAreDated DEF Dated
  <2> QED BY <2>1, <2>2, Placed
<1>2. late = {}
  <2> SUFFICES ASSUME late # {} PROVE FALSE
    OBVIOUS
  <2>1. IsFiniteSet(late) /\ \A x \in late : x \in C /\ Ends(u)[x] = EndOf(x) /\ Ends(u)[x] \in Int
    <3>1. IsFiniteSet(C)
      BY ClosesAreDated DEF Dated
    <3> QED BY <3>1, FS_Subset, ClosesAreDated DEF Dated
  <2>2. PICK x \in late : \A y \in late : EndOf(x) <= EndOf(y)
    <3> HIDE DEF late
    <3>1. \E x \in late : \A y \in late : Ends(u)[x] <= Ends(u)[y]
      BY <2>1, FirstOf
    <3> QED BY <2>1, <3>1
  <2>3. PICK y \in C : EndOf(y) < EndOf(x) /\ xid[x] <= xid[y]
    OBVIOUS
  <2>4. PICK p \in Previous(x) : TRUE
    BY <1>1, <2>3, PreviousIs
  <2>5. p \in C /\ EndOf(p) < EndOf(x) /\ EndOf(y) <= EndOf(p)
    BY <2>3, PreviousIs
  <2>6. xid[p] < xid[x]
    BY <1>1, <2>5 DEF InOrder, OutOfOrder
  <2>7. p \notin late
    BY <1>1, <2>2, <2>5
  <2>8. xid[y] <= xid[p]
    BY <1>1, <2>3, <2>5, <2>7
  <2> QED BY <1>1, <2>3, <2>5, <2>6, <2>8
<1>3. c \in C /\ d \in C
  OBVIOUS
<1> QED BY <1>1, <1>2, <1>3

(* What a checkpoint admits of what is committed.                          *)
LEMMA AdmittedIs ==
  ASSUME BooksInv, NEW u, NEW c \in ClosesOf(u)
  PROVE  /\ c \in Sessions /\ c \in committed /\ c \in Closes /\ c \in Admitted(c, committed)
         /\ Admitted(c, committed) \in SUBSET Sessions
         /\ Admitted(c, committed) \subseteq committed
         /\ \A s \in committed : s \in Admitted(c, committed)
              <=> EffectiveAt(s) < EndOf(c) /\ (xid[s] < xid[c] \/ s = c)
<1>1. c \in committed /\ c \in Closes
  BY ClosesAreDated
<1> QED BY <1>1, Placed DEF Admitted, EndOf

(* An entry's band is the first close whose checkpoint contains it: the    *)
(* checkpoint of a close holds the bands up to its own.                    *)
LEMMA BandsAdmit ==
  ASSUME BooksInv, InOrder, NEW u, NEW c \in ClosesOf(u), NEW s \in committed
  PROVE  /\ Band(s, u) \in Nat \ {0} /\ IndexOf(c) \in Nat \ {0}
         /\ Band(s, u) <= IndexOf(c) <=> s \in Admitted(c, committed)
<1> DEFINE C == ClosesOf(u)
           ended == {d \in C : EndOf(d) <= EffectiveAt(s)}
           below == {d \in C : xid[d] <= xid[s]}
           byEnd == Cardinality(ended) + 1
           byCursor == Cardinality(below) + 1
           later == IF byEnd < byCursor THEN byCursor ELSE byEnd
           end == Ends(u)
<1>1. /\ Dated(C, end) /\ \A d \in C : end[d] = EndOf(d) /\ IndexOf(d) = Rank(C, end, d)
      /\ \A d \in C : EndOf(d) \in Int /\ xid[d] \in Nat /\ d \in committed /\ d \in Closes
      /\ EffectiveAt(s) \in Int /\ xid[s] \in Nat
  <2>1. \A d \in C : d \in committed /\ d \in Closes
    BY ClosesAreDated
  <2> QED BY <2>1, ClosesAreDated, Placed
<1>2. \A d \in C, e \in C : EndOf(e) <= EndOf(d) => xid[e] <= xid[d]
  BY IdsFollowEnds
<1>3. /\ ended \in SUBSET C /\ \A d \in ended : \A e \in C : end[e] <= end[d] => e \in ended
      /\ below \in SUBSET C /\ \A d \in below : \A e \in C : end[e] <= end[d] => e \in below
  BY <1>1, <1>2
<1>4. c \in C /\ (c \in ended <=> EndOf(c) <= EffectiveAt(s)) /\ (c \in below <=> xid[c] <= xid[s])
  OBVIOUS
<1>a. Band(s, u) = IF s \in C /\ IndexOf(s) < later THEN IndexOf(s) ELSE later
  BY DEF Band
<1>b. later = byEnd \/ later = byCursor
  OBVIOUS
<1>c. byEnd <= later /\ byCursor <= later
  <2>1. Cardinality(ended) \in Nat /\ Cardinality(below) \in Nat
    <3> HIDE DEF ended, below, C, end
    <3> QED BY <1>1, <1>3, <1>4, RankInBeginning
  <2> QED BY <2>1
<1> HIDE DEF ended, below, C, end
<1>5. /\ Cardinality(ended) \in Nat /\ IndexOf(c) \in Nat \ {0}
      /\ c \in ended <=> IndexOf(c) <= Cardinality(ended)
  <2>1. /\ Cardinality(ended) \in Nat /\ Rank(C, end, c) \in Nat \ {0}
        /\ c \in ended <=> Rank(C, end, c) <= Cardinality(ended)
    BY <1>1, <1>3, <1>4, RankInBeginning
  <2> QED BY <1>1, <1>4, <2>1
<1>6. /\ Cardinality(below) \in Nat
      /\ c \in below <=> IndexOf(c) <= Cardinality(below)
  <2>1. /\ Cardinality(below) \in Nat
        /\ c \in below <=> Rank(C, end, c) <= Cardinality(below)
    BY <1>1, <1>3, <1>4, RankInBeginning
  <2> QED BY <1>1, <1>4, <2>1
<1>7. later \in Nat \ {0} /\ (later <= IndexOf(c) <=> c \notin ended /\ c \notin below)
  BY <1>5, <1>6
<1>8. c \notin ended /\ c \notin below <=> EffectiveAt(s) < EndOf(c) /\ xid[s] < xid[c]
  BY <1>1, <1>4
<1>9. s \in Admitted(c, committed) <=> EffectiveAt(s) < EndOf(c) /\ (xid[s] < xid[c] \/ s = c)
  BY AdmittedIs
<1> HIDE DEF later
<1>10. CASE s \notin C
  <2>1. s # c
    BY <1>4, <1>10
  <2> QED BY <1>a, <1>5, <1>7, <1>8, <1>9, <1>10, <2>1
<1>11. CASE s \in C
  <2>1. EffectiveAt(s) = EndOf(s) - 1 /\ EndOf(s) \in Int
    BY <1>1, <1>11, Placed
  <2>2. /\ IndexOf(s) \in Nat \ {0}
        /\ IndexOf(s) <= IndexOf(c) <=> EndOf(s) <= EndOf(c)
        /\ EndOf(s) = EndOf(c) => s = c
    BY <1>1, <1>4, <1>11, RankOrders DEF Dated
  <2>3. EndOf(s) <= EndOf(c) => xid[s] <= xid[c]
    BY <1>2, <1>4, <1>11
  <2>4. xid[s] = xid[c] => s = c
    BY <1>1, <1>4, Placed
  <2>5. IndexOf(s) <= IndexOf(c) => s \in Admitted(c, committed)
    BY <1>1, <1>4, <1>9, <2>1, <2>2, <2>3, <2>4
  <2>6. s \in Admitted(c, committed) => IndexOf(s) <= IndexOf(c) \/ later <= IndexOf(c)
    BY <1>1, <1>4, <1>5, <1>7, <1>8, <1>9, <2>1, <2>2
  <2>7. \/ Band(s, u) = IndexOf(s) /\ IndexOf(s) < later
        \/ Band(s, u) = later /\ ~(IndexOf(s) < later)
    BY <1>a, <1>11
  <2>8. later <= IndexOf(c) => s \in Admitted(c, committed)
    BY <1>7, <1>8, <1>9
  <2> QED BY <1>5, <1>7, <2>2, <2>5, <2>6, <2>7, <2>8
<1> QED BY <1>10, <1>11

(* So a checkpoint is the one before it and the arrivals between them.     *)
LEMMA ArrivalsAreWhatIsNew ==
  ASSUME BooksInv, InOrder, NEW u, NEW c \in ClosesOf(u)
  PROVE  /\ Arrivals(c) \in SUBSET Sessions
         /\ Previous(c) = {} => Admitted(c, committed) = Arrivals(c)
         /\ \A p \in Previous(c) :
              /\ Admitted(c, committed) = Admitted(p, committed) \cup Arrivals(c)
              /\ Admitted(p, committed) \cap Arrivals(c) = {}
<1>1. Arrivals(c) = {s \in committed : Band(s, u) = IndexOf(c)}
  BY ClosesAreDated DEF Arrivals
<1>2. /\ Arrivals(c) \subseteq committed /\ committed \subseteq Sessions
      /\ Admitted(c, committed) \subseteq committed
  BY <1>1, AdmittedIs DEF BooksInv, CloseInv, Functions
<1>3. \A s \in committed : /\ Band(s, u) \in Nat \ {0} /\ IndexOf(c) \in Nat \ {0}
                           /\ Band(s, u) <= IndexOf(c) <=> s \in Admitted(c, committed)
  BY BandsAdmit
<1>4. ASSUME Previous(c) = {} PROVE Admitted(c, committed) = Arrivals(c)
  <2>1. IndexOf(c) = 1
    BY <1>4, PreviousIs
  <2>2. \A s \in committed : s \in Admitted(c, committed) <=> s \in Arrivals(c)
    BY <1>1, <1>3, <2>1
  <2> QED BY <1>2, <2>2
<1>5. ASSUME NEW p \in Previous(c)
      PROVE  /\ Admitted(c, committed) = Admitted(p, committed) \cup Arrivals(c)
             /\ Admitted(p, committed) \cap Arrivals(c) = {}
  <2>1. p \in ClosesOf(u) /\ IndexOf(p) \in Nat \ {0} /\ IndexOf(p) + 1 = IndexOf(c)
    BY PreviousIs
  <2>2. Admitted(p, committed) \subseteq committed
    BY <2>1, AdmittedIs
  <2>3. \A s \in committed : Band(s, u) <= IndexOf(p) <=> s \in Admitted(p, committed)
    BY <2>1, BandsAdmit
  <2>4. \A s \in committed :
          /\ s \in Admitted(c, committed) <=> s \in Admitted(p, committed) \/ s \in Arrivals(c)
          /\ ~(s \in Admitted(p, committed) /\ s \in Arrivals(c))
    BY <1>1, <1>3, <2>1, <2>3
  <2> QED BY <1>2, <2>2, <2>4
<1> QED BY <1>2, <1>4, <1>5

-----------------------------------------------------------------------------
(* The two forms of the drift check, and what they find *)

(* Nothing more is in a position than its two sides.                       *)
LEMMA PlusNoPosition ==
  ASSUME LegsTyped, NEW a, NEW S \in SUBSET Sessions
  PROVE  /\ Plus(Gross(0, 0), Position(a, S)) = Position(a, S)
         /\ DebitPositive(Position(a, S)) \in Int
<1>1. PICK i \in Nat, o \in Nat : Position(a, S) = Gross(i, o)
  BY PositionIs
<1>2. Plus(Gross(0, 0), Gross(i, o)) = Gross(i, o)
  BY PlusNothing
<1> QED BY <1>1, <1>2 DEF DebitPositive, Gross

(* A checkpoint that is the prefix it covers.                              *)
Level(c) ==
  \A a \in AccountsIn(ask[c].currency) : StoredFor(c, a) = Position(a, Admitted(c, committed))

(* A row of a checkpoint is of an account something it admits touches.     *)
LEMMA StoredIsTouched ==
  ASSUME BooksInv, NEW u, NEW c \in ClosesOf(u)
  PROVE  DOMAIN stored[c] \subseteq Touched(Admitted(c, committed)) \cap AccountsIn(u)
<1>1. c \in committed /\ c \in Closes /\ ask[c].currency = u
  BY ClosesAreDated
<1>2. PICK K \in SUBSET committed : stored[c] = CheckpointOf(c, K)
  BY <1>1 DEF BooksInv, WrittenInv, CheckpointsWritten, CheckpointTaken
<1>3. DOMAIN stored[c] = Touched(Admitted(c, K)) \cap AccountsIn(u)
  BY <1>1, <1>2 DEF CheckpointOf
<1>4. Admitted(c, K) \subseteq Admitted(c, committed)
  BY DEF Admitted
<1> QED BY <1>3, <1>4 DEF Touched

(* A position of a level checkpoint is in step with the one before it and  *)
(* the arrivals between.                                                   *)
LEMMA PrefixGrows ==
  ASSUME BooksInv, InOrder, NEW u, NEW c \in ClosesOf(u), NEW a
  PROVE  /\ Previous(c) = {} =>
              Position(a, Admitted(c, committed)) = Plus(Gross(0, 0), Position(a, Arrivals(c)))
         /\ \A p \in Previous(c) :
              Position(a, Admitted(c, committed))
                = Plus(Position(a, Admitted(p, committed)), Position(a, Arrivals(c)))
<1>1. LegsTyped /\ Arrivals(c) \in SUBSET Sessions
  BY ArrivalsAreWhatIsNew DEF BooksInv, WrittenInv
<1>2. Plus(Gross(0, 0), Position(a, Arrivals(c))) = Position(a, Arrivals(c))
  BY <1>1, PlusNoPosition
<1>3. ASSUME NEW p \in Previous(c)
      PROVE  Position(a, Admitted(c, committed))
               = Plus(Position(a, Admitted(p, committed)), Position(a, Arrivals(c)))
  <2>1. /\ Admitted(c, committed) = Admitted(p, committed) \cup Arrivals(c)
        /\ Admitted(p, committed) \cap Arrivals(c) = {}
    BY ArrivalsAreWhatIsNew
  <2>2. Admitted(p, committed) \in SUBSET Sessions
    BY PreviousIs, AdmittedIs
  <2> QED BY <1>1, <2>1, <2>2, PositionsAdd
<1> QED BY <1>2, <1>3, ArrivalsAreWhatIsNew

(* Every close is one of its currency's.                                   *)
LEMMA EveryClose ==
  ASSUME NEW c \in committed \cap Closes
  PROVE  c \in ClosesOf(ask[c].currency)
  BY DEF ClosesOf

(* Where nothing drifts, every checkpoint is level: by the first that is   *)
(* not, whose predecessor is.                                              *)
LEMMA NoDriftIsLevel ==
  ASSUME BooksInv, InOrder, Drifting = {}, NEW u
  PROVE  \A c \in ClosesOf(u) : Level(c)
<1> DEFINE C == ClosesOf(u)
           off == {c \in C : ~Level(c)}
<1>1. SUFFICES ASSUME off # {} PROVE FALSE
  OBVIOUS
<1>2. /\ IsFiniteSet(off) /\ off \subseteq C
      /\ \A x \in C : Ends(u)[x] = EndOf(x) /\ Ends(u)[x] \in Int /\ ask[x].currency = u
  <2>1. IsFiniteSet(C)
    BY ClosesAreDated DEF Dated
  <2> QED BY <2>1, FS_Subset, ClosesAreDated DEF Dated
<1> HIDE DEF off
<1>3. PICK c \in off : \A y \in off : EndOf(c) <= EndOf(y)
  <2>1. \E x \in off : \A y \in off : Ends(u)[x] <= Ends(u)[y]
    BY <1>1, <1>2, FirstOf
  <2> QED BY <1>2, <2>1
<1>4. c \in C /\ ask[c].currency = u /\ c \in committed \cap Closes
  BY <1>2, <1>3, ClosesAreDated
<1>5. \A a \in AccountsIn(u) :
        StoredFor(c, a) = Plus(StoredBefore(c, a), Position(a, Arrivals(c)))
  BY <1>4 DEF Drifting
<1>6. ASSUME NEW a \in AccountsIn(u)
      PROVE  StoredFor(c, a) = Position(a, Admitted(c, committed))
  <2>1. CASE Previous(c) = {}
    <3>1. StoredBefore(c, a) = Gross(0, 0)
      BY <2>1 DEF StoredBefore
    <3> QED BY <1>4, <1>5, <2>1, <3>1, PrefixGrows
  <2>2. ASSUME NEW p \in Previous(c) PROVE StoredFor(c, a) = Position(a, Admitted(c, committed))
    <3>1. p \in C /\ EndOf(p) < EndOf(c) /\ AnyOf(Previous(c)) = p
      BY <1>4, PreviousIs
    <3>2. Level(p)
      BY <1>2, <1>3, <1>4, <3>1 DEF off
    <3>3. StoredBefore(c, a) = Position(a, Admitted(p, committed))
      BY <1>2, <3>1, <3>2 DEF StoredBefore, Level
    <3> QED BY <1>4, <1>5, <3>3, PrefixGrows
  <2> QED BY <2>1, <2>2
<1> QED BY <1>3, <1>4, <1>6 DEF off, Level

(* Where every checkpoint is level, nothing drifts, and no row is missing. *)
LEMMA LevelIsNoDrift ==
  ASSUME BooksInv, InOrder, \A c \in committed \cap Closes : Level(c)
  PROVE  Drifting = {}
<1> SUFFICES ASSUME NEW c \in committed \cap Closes, NEW a \in AccountsIn(ask[c].currency)
             PROVE  /\ StoredFor(c, a) = Plus(StoredBefore(c, a), Position(a, Arrivals(c)))
                    /\ a \notin DOMAIN stored[c] => \A d \in Previous(c) : a \notin DOMAIN stored[d]
  BY DEF Drifting
<1> DEFINE u == ask[c].currency
<1>1. c \in ClosesOf(u) /\ StoredFor(c, a) = Position(a, Admitted(c, committed))
  BY EveryClose DEF Level
<1>2. \A p \in Previous(c) : /\ p \in ClosesOf(u) /\ p \in committed \cap Closes
                             /\ ask[p].currency = u /\ AnyOf(Previous(c)) = p
  BY <1>1, PreviousIs, ClosesAreDated
<1> HIDE DEF u
<1>3. StoredFor(c, a) = Plus(StoredBefore(c, a), Position(a, Arrivals(c)))
  <2>1. CASE Previous(c) = {}
    BY <1>1, <2>1, PrefixGrows DEF StoredBefore
  <2>2. ASSUME NEW p \in Previous(c)
        PROVE  StoredFor(c, a) = Plus(StoredBefore(c, a), Position(a, Arrivals(c)))
    <3>1. StoredBefore(c, a) = Position(a, Admitted(p, committed))
      BY <1>2, <2>2 DEF StoredBefore, Level, u
    <3> QED BY <1>1, <3>1, PrefixGrows
  <2> QED BY <2>1, <2>2
<1>4. ASSUME NEW p \in Previous(c), a \in DOMAIN stored[p] PROVE a \in DOMAIN stored[c]
  <2>1. PICK s \in Admitted(p, committed) : a \in DOMAIN moved[s]
    BY <1>2, <1>4, StoredIsTouched DEF Touched
  <2>2. s \in Admitted(c, committed)
    BY <1>1, <2>1, ArrivalsAreWhatIsNew
  <2>3. LegsTyped /\ Admitted(c, committed) \in SUBSET Sessions
    BY <1>1, AdmittedIs DEF BooksInv, WrittenInv
  <2>4. Position(a, Admitted(c, committed)) # Gross(0, 0)
    BY <2>1, <2>2, <2>3, PositionOfTouched
  <2> QED BY <1>1, <2>4 DEF StoredFor
<1> QED BY <1>3, <1>4

(* The level check finds the checkpoints that are not level.               *)
LEMMA DriftByLevelIs ==
  DriftingByLevel = {} <=> \A c \in committed \cap Closes : Level(c)
  BY DEF DriftingByLevel, Level

(* While closes are in order, comparing consecutive checkpoints against    *)
(* what arrived between them finds a drift exactly when comparing every    *)
(* checkpoint against its whole prefix does (recon_checkpoint_breaks).     *)
THEOREM BoundedIsLevel == Spec => []BoundedCheckIsTheLevelCheck
<1>1. BooksInv => BoundedCheckIsTheLevelCheck
  <2> SUFFICES ASSUME BooksInv, InOrder PROVE Drifting = {} <=> DriftingByLevel = {}
    BY DEF BoundedCheckIsTheLevelCheck
  <2>1. ASSUME Drifting = {} PROVE \A c \in committed \cap Closes : Level(c)
    BY <2>1, EveryClose, NoDriftIsLevel
  <2> QED BY <2>1, LevelIsNoDrift, DriftByLevelIs
<1> QED BY <1>1, BooksInvariance, PTL

-----------------------------------------------------------------------------
(* What a clean book shows *)

(* What a post below the cursor loses is never lost silently: on a book    *)
(* whose closes are in order and do not drift, the report read through a   *)
(* checkpoint is the one read from inception (checkpoint_position).        *)
THEOREM NothingLost == Spec => []NothingIsLostSilently
<1>1. BooksInv => NothingIsLostSilently
  <2> SUFFICES ASSUME BooksInv, InOrder, Drifting = {},
                      NEW a \in Accounts, NEW asof \in Instants, NEW cursor \in Pinned,
                      Anchors(Currency[a], asof, cursor) # {}
               PROVE  ThroughTheCheckpoint(a, asof, cursor) = FromInception(a, asof, cursor)
    BY DEF NothingIsLostSilently, ReaderIsExact
  <2> DEFINE u == Currency[a]
             anchors == Anchors(u, asof, cursor)
             c == AnyOf(anchors)
             F == {s \in committed : EffectiveAt(s) < asof /\ xid[s] < cursor}
             A == Admitted(c, committed)
             B == TailBehind(c, cursor)
             T == TailAhead(c, asof, cursor)
  <2>1. /\ c \in ClosesOf(u) /\ EndOf(c) <= asof /\ xid[c] < cursor
        /\ cursor \in Nat /\ asof \in Int
    <3>1. c \in anchors
      BY DEF AnyOf
    <3>2. cursor \in Nat
      BY DEF Pinned, BooksInv, CloseInv, Functions
    <3> HIDE DEF c
    <3> QED BY <3>1, <3>2, InstantsAssumption DEF Anchors, Visible
  <2>2. /\ ThroughTheCheckpoint(a, asof, cursor)
             = Plus(StoredFor(c, a), Plus(Position(a, B), Position(a, T)))
        /\ FromInception(a, asof, cursor) = Position(a, F)
    BY DEF ThroughTheCheckpoint, FromInception
  <2>3. a \in AccountsIn(u)
    BY DEF AccountsIn
  <2> HIDE DEF c, anchors, u
  <2>4. /\ c \in committed /\ EndOf(c) \in Int /\ xid[c] \in Nat /\ ask[c].currency = u
        /\ \A s \in committed : s \in Sessions /\ EffectiveAt(s) \in Int /\ xid[s] \in Nat
        /\ EffectiveAt(c) < EndOf(c)
    <3>1. c \in committed /\ c \in Closes /\ ask[c].currency = u
      BY <2>1, ClosesAreDated
    <3> QED BY <3>1, Placed
  <2>5. StoredFor(c, a) = Position(a, A)
    BY <2>1, <2>3, <2>4, NoDriftIsLevel DEF Level
  <2>6. /\ A \subseteq committed
        /\ \A s \in committed : s \in A <=> EffectiveAt(s) < EndOf(c) /\ (xid[s] < xid[c] \/ s = c)
    BY <2>1, AdmittedIs
  <2>7. \A s \in committed :
          /\ s \in F <=> EffectiveAt(s) < asof /\ xid[s] < cursor
          /\ s \in B <=> EffectiveAt(s) < EndOf(c) /\ xid[c] <= xid[s] /\ xid[s] < cursor /\ s # c
          /\ s \in T <=> EndOf(c) <= EffectiveAt(s) /\ EffectiveAt(s) < asof /\ xid[s] < cursor
    BY DEF TailBehind, TailAhead
  <2>8. F \subseteq committed /\ B \subseteq committed /\ T \subseteq committed
    BY DEF TailBehind, TailAhead
  <2> HIDE DEF F, A, B, T
  <2>9. ASSUME NEW s \in committed
        PROVE  /\ s \in F <=> s \in A \/ s \in B \/ s \in T
               /\ ~(s \in A /\ (s \in B \/ s \in T)) /\ ~(s \in B /\ s \in T)
    BY <2>1, <2>4, <2>6, <2>7
  <2>10. /\ F = A \cup (B \cup T) /\ A \cap (B \cup T) = {} /\ B \cap T = {}
         /\ A \in SUBSET Sessions /\ B \in SUBSET Sessions /\ T \in SUBSET Sessions
         /\ B \cup T \in SUBSET Sessions
    BY <2>4, <2>6, <2>8, <2>9
  <2>11. LegsTyped
    BY DEF BooksInv, WrittenInv
  <2>12. Position(a, B \cup T) = Plus(Position(a, B), Position(a, T))
    BY <2>10, <2>11, PositionsAdd
  <2>13. Position(a, F) = Plus(Position(a, A), Position(a, B \cup T))
    BY <2>10, <2>11, PositionsAdd
  <2> QED BY <2>2, <2>5, <2>12, <2>13
<1> QED BY <1>1, BooksInvariance, PTL

(* On a book the three reconciliation checks call clean, every temporary   *)
(* account stands at zero in the whole prefix each checkpoint claims to    *)
(* cover (recon_close_order, close_does_not_sweep, checkpoint_drift).      *)
THEOREM CleanClosesSweep == Spec => []ReconciledClosesSweep
<1>1. BooksInv => ReconciledClosesSweep
  <2> SUFFICES ASSUME BooksInv, Reconciled, NEW c \in committed \cap Closes,
                      NEW a \in Temporary \cap AccountsIn(ask[c].currency)
               PROVE  DebitPositive(Position(a, Admitted(c, committed))) = 0
    BY DEF ReconciledClosesSweep
  <2>1. StoredFor(c, a) = Position(a, Admitted(c, committed))
    BY EveryClose, NoDriftIsLevel DEF Reconciled, InOrder, Level
  <2>2. a \in DOMAIN stored[c] => DebitPositive(stored[c][a]) = 0
    BY DEF Reconciled, Unswept
  <2>3. DebitPositive(Gross(0, 0)) = 0
    BY DEF DebitPositive, Gross
  <2> QED BY <2>1, <2>2, <2>3 DEF StoredFor
<1> QED BY <1>1, BooksInvariance, PTL

-----------------------------------------------------------------------------
(* Closes nobody overlapped *)

(* The position in one session is what it moved.                           *)
LEMMA PositionOfOne ==
  ASSUME LegsTyped, NEW a, NEW s \in Sessions
  PROVE  Position(a, {s}) = MovedOn(s, a)
<1>1. /\ Into(a)[s] \in Nat /\ OutOf(a)[s] \in Nat
      /\ MovedOn(s, a) = Gross(Into(a)[s], OutOf(a)[s])
  BY SidesTyped
<1>2. /\ {s} \in SUBSET Sessions /\ IsFiniteSet({s}) /\ s \in {s} /\ {s} \ {s} = {}
      /\ (\A x \in {s} : Into(a)[x] \in Int) /\ (\A x \in {s} : OutOf(a)[x] \in Int)
  <2>1. IsFiniteSet({s})
    BY FS_Singleton
  <2>2. /\ \A x \in {s} : Into(a)[x] \in Int
        /\ \A x \in {s} : OutOf(a)[x] \in Int
    BY <1>1
  <2> QED BY <2>1, <2>2
<1>3. PICK f, g : f = Into(a) /\ g = OutOf(a)
  OBVIOUS
<1>4. SumFunctionOnSet(f, {s}) = f[s] + SumFunctionOnSet(f, {s} \ {s})
  BY <1>2, <1>3, SumRemove
<1>5. SumFunctionOnSet(g, {s}) = g[s] + SumFunctionOnSet(g, {s} \ {s})
  BY <1>2, <1>3, SumRemove
<1>6. SumFunctionOnSet(Into(a), {s}) = Into(a)[s] /\ SumFunctionOnSet(OutOf(a), {s}) = OutOf(a)[s]
  BY <1>1, <1>2, <1>3, <1>4, <1>5, SumEmpty
<1>7. Position(a, {s}) = Gross(SumFunctionOnSet(Into(a), {s}), SumFunctionOnSet(OutOf(a), {s}))
  BY <1>2, PositionIs
<1> QED BY <1>1, <1>6, <1>7

(* Sides that add are signed amounts that add.                             *)
LEMMA NetsAdd ==
  ASSUME LegsTyped, NEW a, NEW S \in SUBSET Sessions, NEW R \in SUBSET Sessions, S \cap R = {}
  PROVE  DebitPositive(Position(a, S \cup R))
           = DebitPositive(Position(a, S)) + DebitPositive(Position(a, R))
<1>1. PICK i \in Nat, o \in Nat : Position(a, S) = Gross(i, o)
  BY PositionIs
<1>2. PICK j \in Nat, p \in Nat : Position(a, R) = Gross(j, p)
  BY PositionIs
<1>3. Position(a, S \cup R) = Plus(Gross(i, o), Gross(j, p))
  BY <1>1, <1>2, PositionsAdd
<1> QED BY <1>1, <1>2, <1>3 DEF Plus, Gross, DebitPositive

(* A sweep takes each temporary account of its currency to zero.           *)
LEMMA SweepLeavesNothing ==
  ASSUME BooksInv, NEW u, NEW c \in ClosesOf(u), NEW a \in Temporary \cap AccountsIn(u)
  PROVE  /\ Swept(c, xid[c]) \in SUBSET Sessions /\ c \notin Swept(c, xid[c]) /\ c \in Sessions
         /\ DebitPositive(Position(a, Swept(c, xid[c]) \cup {c})) = 0
<1>1. c \in committed /\ c \in Closes /\ ask[c].currency = u /\ c \in Sessions
  BY ClosesAreDated, AdmittedIs
<1>2. Swept(c, xid[c]) \in SUBSET Sessions
  BY <1>1 DEF Swept, BooksInv, CloseInv, Functions, SessionsShaped, SessionShape
<1>3. c \notin Swept(c, xid[c])
  <2>1. xid[c] \in Nat
    BY <1>1, Placed
  <2> QED BY <2>1 DEF Swept
<1>4. LegsTyped
  BY DEF BooksInv, WrittenInv
<1>5. a \in EveryTemporary(c, xid[c])
  <2>1. u \in DOMAIN Earnings
    BY <1>1, CurrenciesAssumption DEF BooksInv, SessionsShaped, SessionShape, Working
  <2> QED BY <1>1, <2>1, EarningsAssumption DEF EveryTemporary
<1>6. Left(a, c, xid[c]) \in Int
  BY <1>2, <1>4, PlusNoPosition DEF Left
<1>7. PICK x : x = xid[c]
  OBVIOUS
<1>8. DebitPositive(IF a \in DOMAIN SweepLegs(c, x) THEN SweepLegs(c, x)[a] ELSE Gross(0, 0))
        = - Left(a, c, x)
  BY <1>1, <1>5, <1>6, <1>7, SweepZeroes
<1>9. moved[c] = SweepLegs(c, x)
  BY <1>1, <1>7 DEF BooksInv, WrittenInv, SweepsWritten
<1>10. DebitPositive(MovedOn(c, a)) = - Left(a, c, x)
  BY <1>8, <1>9 DEF MovedOn
<1>11. {c} \in SUBSET Sessions /\ Swept(c, xid[c]) \cap {c} = {}
  BY <1>1, <1>3
<1>12. DebitPositive(Position(a, Swept(c, xid[c]) \cup {c}))
         = DebitPositive(Position(a, Swept(c, xid[c]))) + DebitPositive(Position(a, {c}))
  BY <1>2, <1>4, <1>11, NetsAdd
<1>13. Position(a, {c}) = MovedOn(c, a)
  BY <1>1, <1>4, PositionOfOne
<1>14. DebitPositive(Position(a, Swept(c, xid[c]))) = Left(a, c, x)
  BY <1>7 DEF Left
<1> QED BY <1>1, <1>2, <1>3, <1>6, <1>7, <1>10, <1>12, <1>13, <1>14

(* An honest close swept all its checkpoint covers.                        *)
LEMMA HonestSweepsItsPrefix ==
  ASSUME BooksInv, NEW u, NEW c \in ClosesOf(u), Honest(c)
  PROVE  Admitted(c, committed) = Swept(c, xid[c]) \cup {c}
<1>1. c \in committed /\ c \in Sessions
  BY AdmittedIs
<1>2. \A s \in committed : s \in Admitted(c, committed)
        <=> EffectiveAt(s) < EndOf(c) /\ (xid[s] < xid[c] \/ s = c)
  BY AdmittedIs
<1>3. Admitted(c, committed) \subseteq committed /\ c \in Admitted(c, committed)
  BY AdmittedIs
<1>4. snap[c] \subseteq committed
  BY <1>1, Placed
<1>5. \A s \in committed : xid[s] < xid[c] => s \in snap[c]
  BY DEF Honest
<1>6. \A s : s \in Swept(c, xid[c]) <=> s \in snap[c] /\ EffectiveAt(s) < EndOf(c) /\ xid[s] < xid[c]
  BY DEF Swept, EndOf
<1> QED BY <1>1, <1>2, <1>3, <1>4, <1>5, <1>6

(* And its checkpoint is level: nothing it covers came after its snapshot. *)
LEMMA HonestIsLevel ==
  ASSUME BooksInv, NEW u, NEW c \in ClosesOf(u), Honest(c)
  PROVE  /\ Level(c)
         /\ \A a \in DOMAIN stored[c] :
              a \in AccountsIn(u) /\ stored[c][a] = Position(a, Admitted(c, committed))
<1>1. c \in committed /\ c \in Closes /\ ask[c].currency = u
  BY ClosesAreDated
<1>2. PICK K \in SUBSET committed : snap[c] \subseteq K /\ stored[c] = CheckpointOf(c, K)
  BY <1>1 DEF BooksInv, WrittenInv, CheckpointsWritten, CheckpointTaken
<1>3. Admitted(c, K) = Admitted(c, committed)
  BY <1>1, <1>2 DEF Admitted, Honest
<1> DEFINE A == Admitted(c, committed)
<1>4. stored[c] = [a \in Touched(A) \cap AccountsIn(u) |-> Position(a, A)]
  BY <1>1, <1>2, <1>3 DEF CheckpointOf
<1>5. A \in SUBSET Sessions /\ LegsTyped
  BY AdmittedIs DEF BooksInv, WrittenInv
<1> HIDE DEF A
<1>6. ASSUME NEW a \in AccountsIn(u) PROVE StoredFor(c, a) = Position(a, A)
  <2>1. CASE a \in Touched(A)
    BY <1>4, <2>1 DEF StoredFor
  <2>2. CASE a \notin Touched(A)
    <3>1. Position(a, A) = Gross(0, 0)
      BY <1>5, <2>2, PositionOfTouched DEF Touched
    <3> QED BY <1>4, <2>2, <3>1 DEF StoredFor
  <2> QED BY <2>1, <2>2
<1> QED BY <1>1, <1>4, <1>6 DEF Level, A

(* Honest closes are in order, level, and leave nothing unswept.           *)
LEMMA HonestIsReconciled ==
  ASSUME BooksInv, \A c \in committed \cap Closes : Honest(c)
  PROVE  Reconciled
<1>1. OutOfOrder = {}
  <2> SUFFICES ASSUME NEW c \in committed \cap Closes, NEW d \in Previous(c), xid[c] <= xid[d]
               PROVE  FALSE
    BY DEF OutOfOrder
  <2>1. d \in ClosesOf(ask[c].currency) /\ EndOf(d) < EndOf(c)
    BY EveryClose, PreviousIs
  <2>2. d \in snap[c]
    BY <2>1 DEF Honest
  <2>3. xid[d] < xid[c] /\ xid[c] \in Nat /\ xid[d] \in Nat
    BY <2>2, Placed
  <2> QED BY <2>3
<1>2. Drifting = {}
  <2>1. \A c \in committed \cap Closes : Level(c)
    BY EveryClose, HonestIsLevel
  <2> QED BY <1>1, <2>1, LevelIsNoDrift DEF InOrder
<1>3. Unswept = {}
  <2> SUFFICES ASSUME NEW c \in committed \cap Closes, NEW a \in Temporary \cap DOMAIN stored[c]
               PROVE  DebitPositive(stored[c][a]) = 0
    BY DEF Unswept
  <2>1. c \in ClosesOf(ask[c].currency)
    BY EveryClose
  <2>2. /\ a \in AccountsIn(ask[c].currency)
        /\ stored[c][a] = Position(a, Admitted(c, committed))
    BY <2>1, HonestIsLevel
  <2>3. Admitted(c, committed) = Swept(c, xid[c]) \cup {c}
    BY <2>1, HonestSweepsItsPrefix
  <2> QED BY <2>1, <2>2, <2>3, SweepLeavesNothing
<1> QED BY <1>1, <1>2, <1>3 DEF Reconciled

(* What honest closes swept and took out is the prefix of the last.        *)
LEMMA LastHonestClose ==
  ASSUME BooksInv, \A c \in committed \cap Closes : Honest(c), NEW u,
         NEW n \in ClosesOf(u), \A c \in ClosesOf(u) : EndOf(c) <= EndOf(n)
  PROVE  LET W == (UNION {Swept(c, xid[c]) : c \in ClosesOf(u)}) \cap Posts
             rest == Admitted(n, committed) \ (W \cup ClosesOf(u))
         IN /\ Admitted(n, committed) = (W \cup ClosesOf(u)) \cup rest
            /\ W \cap ClosesOf(u) = {}
            /\ rest \subseteq (committed \cap Closes) \ ClosesOf(u)
<1> DEFINE C == ClosesOf(u)
           W == (UNION {Swept(c, xid[c]) : c \in C}) \cap Posts
           A == Admitted(n, committed)
<1>1. InOrder
  BY HonestIsReconciled DEF InOrder, Reconciled
<1>2. /\ C \subseteq committed /\ C \subseteq Closes /\ A \subseteq committed
      /\ committed \subseteq Posts \cup Closes /\ Posts \cap Closes = {}
  BY ClosesAreDated, AdmittedIs, SessionsAssumption DEF BooksInv, CloseInv, Functions, Sessions
<1>3. \A s \in committed : s \in A <=> EffectiveAt(s) < EndOf(n) /\ (xid[s] < xid[n] \/ s = n)
  BY AdmittedIs
<1>4. \A c \in C : /\ xid[c] <= xid[n] /\ EndOf(c) <= EndOf(n)
                   /\ xid[c] = xid[n] => c = n
                   /\ EndOf(c) \in Int /\ xid[c] \in Nat /\ EffectiveAt(c) = EndOf(c) - 1
  BY <1>1, <1>2, IdsFollowEnds, Placed
<1>5. ASSUME NEW c \in C PROVE c \in A
  <2>1. EndOf(n) \in Int /\ xid[n] \in Nat
    BY <1>4
  <2> QED BY <1>2, <1>3, <1>4, <2>1
<1>6. ASSUME NEW s \in W PROVE s \in A
  <2>1. PICK c \in C : s \in Swept(c, xid[c])
    OBVIOUS
  <2>2. s \in committed /\ EffectiveAt(s) < EndOf(c) /\ xid[s] < xid[c]
    BY <1>2, <2>1, Placed DEF Swept, EndOf
  <2>3. /\ EffectiveAt(s) \in Int /\ xid[s] \in Nat
        /\ EndOf(n) \in Int /\ xid[n] \in Nat /\ EndOf(c) \in Int /\ xid[c] \in Nat
    BY <1>4, <2>2, Placed
  <2> QED BY <1>3, <1>4, <2>2, <2>3
<1>7. ASSUME NEW s \in A \cap Posts PROVE s \in W
  <2>1. n \in committed \cap Closes
    BY <1>2
  <2>2. A = Swept(n, xid[n]) \cup {n}
    BY <2>1, HonestSweepsItsPrefix
  <2>3. s # n
    BY <1>2, <2>1
  <2>4. s \in Swept(n, xid[n])
    BY <2>2, <2>3
  <2> QED BY <2>4
<1>0. W \subseteq Posts
  OBVIOUS
<1> HIDE DEF A, C, W
<1>8. W \cap C = {}
  BY <1>0, <1>2
<1>9. A \ (W \cup C) \subseteq (committed \cap Closes) \ C
  BY <1>2, <1>7
<1>10. A = (W \cup C) \cup (A \ (W \cup C))
  BY <1>5, <1>6
<1> QED BY <1>8, <1>9, <1>10 DEF A, C, W

(* Closes made one after another, in period order, with no writer open     *)
(* below them, sweep each earning once and reconcile, whatever is          *)
(* backdated into the closed periods afterwards.                           *)
THEOREM HonestCloses == Spec => []HonestClosesReconcile
<1>1. BooksInv => HonestClosesReconcile
  <2> SUFFICES ASSUME BooksInv, \A c \in committed \cap Closes : Honest(c)
               PROVE  EarningsAreSweptOnce
    BY HonestIsReconciled DEF HonestClosesReconcile
  <2> SUFFICES ASSUME NEW a \in Temporary
               PROVE  LET C == ClosesOf(Currency[a])
                          W == (UNION {Swept(c, xid[c]) : c \in C}) \cap Posts
                      IN DebitPositive(Position(a, C)) = -DebitPositive(Position(a, W))
    BY DEF EarningsAreSweptOnce
  <2> DEFINE u == Currency[a]
             C == ClosesOf(u)
             W == (UNION {Swept(c, xid[c]) : c \in C}) \cap Posts
  <2>1. /\ a \in Temporary \cap AccountsIn(u) /\ LegsTyped
        /\ C \in SUBSET Sessions /\ W \in SUBSET Sessions /\ IsFiniteSet(C)
    <3>1. a \in Temporary \cap AccountsIn(u)
      BY AccountsAssumption DEF AccountsIn
    <3>2. C \in SUBSET Sessions /\ IsFiniteSet(C)
      BY ClosesAreDated DEF BooksInv, CloseInv, Functions, Dated
    <3>3. W \in SUBSET Posts /\ LegsTyped
      BY DEF BooksInv, WrittenInv
    <3> HIDE DEF W, C, u
    <3> QED BY <3>1, <3>2, <3>3 DEF Sessions
  <2>2. CASE C = {}
    <3>1. W = {}
      BY <2>2
    <3>2. Position(a, {}) = Gross(0, 0)
      BY <2>1, PositionOfTouched
    <3>3. DebitPositive(Gross(0, 0)) = 0
      BY DEF Gross, DebitPositive
    <3> HIDE DEF C, W
    <3> QED BY <2>2, <3>1, <3>2, <3>3 DEF C, W
  <2>3. CASE C # {}
    <3>1. \A c \in C : Ends(u)[c] = EndOf(c) /\ Ends(u)[c] \in Int
      BY ClosesAreDated DEF Dated
    <3>2. PICK n \in C : \A c \in C : EndOf(c) <= EndOf(n)
      <4>1. \E n \in C : \A c \in C : Ends(u)[c] <= Ends(u)[n]
        <5> HIDE DEF C
        <5> QED BY <2>1, <2>3, <3>1, LastOf
      <4> QED BY <3>1, <4>1
    <3> DEFINE A == Admitted(n, committed)
               rest == A \ (W \cup C)
    <3>3. /\ A = (W \cup C) \cup rest /\ W \cap C = {}
          /\ rest \subseteq (committed \cap Closes) \ C
      BY <3>2, LastHonestClose
    <3>4. DebitPositive(Position(a, A)) = 0
      BY <2>1, <3>2, ClosesAreDated, HonestSweepsItsPrefix, SweepLeavesNothing
    <3>5. \A s \in rest : a \notin DOMAIN moved[s]
      <4> SUFFICES ASSUME NEW s \in rest PROVE a \notin DOMAIN moved[s]
        OBVIOUS
      <4>1. s \in committed /\ s \in Closes /\ ask[s].currency # u
        BY <3>3 DEF ClosesOf
      <4>2. ask[s].currency \in DOMAIN Earnings
        BY <4>1, CurrenciesAssumption DEF BooksInv, SessionsShaped, SessionShape, Working, Sessions
      <4>3. a \notin AccountsIn(ask[s].currency) /\ a # Earnings[ask[s].currency]
        BY <2>1, <4>1, <4>2, EarningsAssumption DEF AccountsIn
      <4>4. PICK x : x = xid[s]
        OBVIOUS
      <4>5. moved[s] = SweepLegs(s, x)
        BY <4>1, <4>4 DEF BooksInv, WrittenInv, SweepsWritten
      <4> QED BY <4>1, <4>3, <4>5, SweepTouches
    <3>6. rest \in SUBSET Sessions /\ W \cup C \in SUBSET Sessions /\ (W \cup C) \cap rest = {}
      BY <2>1, <3>3 DEF BooksInv, CloseInv, Functions
    <3> HIDE DEF C, W, A, rest
    <3>7. Position(a, rest) = Gross(0, 0)
      BY <2>1, <3>5, <3>6, PositionOfTouched
    <3>8. DebitPositive(Position(a, rest)) = 0
      BY <3>7 DEF Gross, DebitPositive
    <3>9. DebitPositive(Position(a, (W \cup C) \cup rest))
            = DebitPositive(Position(a, W \cup C)) + DebitPositive(Position(a, rest))
      BY <2>1, <3>6, NetsAdd
    <3>10. DebitPositive(Position(a, W \cup C))
             = DebitPositive(Position(a, W)) + DebitPositive(Position(a, C))
      BY <2>1, <3>3, NetsAdd
    <3>11. DebitPositive(Position(a, W)) \in Int /\ DebitPositive(Position(a, C)) \in Int
      BY <2>1, PlusNoPosition
    <3>12. DebitPositive(Position(a, C)) = -DebitPositive(Position(a, W))
      BY <3>3, <3>4, <3>8, <3>9, <3>10, <3>11
    <3> QED BY <3>12 DEF C, W
  <2> QED BY <2>2, <2>3
<1> QED BY <1>1, BooksInvariance, PTL
=============================================================================
