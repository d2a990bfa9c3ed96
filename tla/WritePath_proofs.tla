---------------------------- MODULE WritePath_proofs ----------------------------
(***************************************************************************)
(* What holds of the write path for every set of calls, menu, chart and    *)
(* stripe count.  WritePath's properties are not inductive: they speak of  *)
(* committed rows, and what keeps a commit from breaking them is what the  *)
(* uncommitted rows already exclude.  The invariant below says that.       *)
(***************************************************************************)
EXTENDS TransactionsApi, Postings_proofs

(* Where a call is tells which rows it holds.                              *)
Holdings ==
  \A c \in Calls :
    /\ pc[c] # "idle" => req[c] \in Requests
    /\ c \in claims <=> pc[c] \in {"inserting", "upserting"}
    /\ c \in inserted => pc[c] = "upserting"
    /\ c \in txns => pc[c] \in {"answering", "done"}
    /\ snap[c] \subseteq txns

(* A target is committed before statement A takes its snapshot, or was     *)
(* never written.                                                          *)
Writing == {"claiming", "inserting", "upserting"}
TargetsAreNamed ==
  \A c \in Calls :
    pc[c] \in Writing /\ IsSuperseding(c) => Target(c) \in snap[c] \cup {Nowhere}

(* uq_events__idempotency, over committed and uncommitted rows alike.      *)
KeysAreUnique ==
  \A c, d \in claims \cup events : SameKey(c, d) => c = d

(* uq_txn__one_supersession, over committed and uncommitted rows alike.    *)
SlotsAreUnique ==
  \A c, d \in inserted \cup txns :
    IsSuperseding(c) /\ IsSuperseding(d) /\ Target(c) = Target(d) => c = d

(* What the gate admitted stays admissible until the commit.               *)
TargetsAreSound ==
  \A c \in inserted \cup txns : IsSuperseding(c) =>
    /\ Target(c) \in txns
    /\ IF IsResolution(c) THEN req[Target(c)].body.status = "pending"
                          ELSE ~IsSuperseding(Target(c))

(* What a call has already learnt when it is about to be answered.         *)
Learnt ==
  \A c \in Calls :
    /\ pc[c] = "lookup" => KeyCommitted(c)
    /\ pc[c] = "upserting" /\ c \notin inserted => ~GateAdmits(c)
    /\ pc[c] \notin {"answering", "done"} => verdict[c] = [kind |-> "none", txn |-> None]
    /\ pc[c] = "answering" => verdict[c].kind # "none"

Inv ==
  /\ TypeOK
  /\ NoOrphanedEvent
  /\ Holdings
  /\ KeysAreUnique
  /\ SlotsAreUnique
  /\ TargetsAreSound
  /\ TargetsAreNamed
  /\ Learnt

-----------------------------------------------------------------------------
(* The initial state satisfies the invariant. *)
LEMMA InitInv == Init => Inv
  BY IdsAssumption DEF Init, Inv, TypeOK, NoOrphanedEvent, Holdings, KeysAreUnique,
     SlotsAreUnique, TargetsAreSound, TargetsAreNamed, Writing, Learnt, NoRow, IsRow, Places, InFlight, Verdicts

-----------------------------------------------------------------------------
(* What a call derives, typed *)

(* A request resolves or reverses at most one target; a reversal carries   *)
(* no postings.                                                            *)
LEMMA RequestShape ==
  ASSUME NEW r \in Requests
  PROVE  /\ r.body.status \in {"posted", "pending"}
         /\ r.body.resolves \in Targets /\ r.body.reverses \in Targets
         /\ r.body.resolves = None \/ r.body.reverses = None
         /\ r.body.postings \in PostingLists
         /\ r.body.reverses # None => r.body.postings = <<>>
  BY MenuAssumption DEF Asks, Requests, Request, Targets, WellFormed

(* A call begins with a request of its own menu. *)
LEMMA BeginsARequest ==
  ASSUME TypeOK, NEW c \in Calls, Begin(c)
  PROVE  \E r \in Requests : req' = [req EXCEPT ![c] = r]
<1>1. PICK item \in Menu[c], t \in txns \cup {Nowhere, None} :
        WellFormed(Request(item, t).body) /\ req' = [req EXCEPT ![c] = Request(item, t)]
  BY DEF Begin
<1>2. item \in Asks
  BY <1>1 DEF Asks
<1>3. t \in Targets
  BY <1>1 DEF TypeOK, Targets
<1>4. Request(item, t) \in Requests
  BY <1>1, <1>2, <1>3 DEF Requests
<1> QED
  BY <1>1, <1>4

(* A mirror has the legs of what it mirrors, on the same accounts. *)
LEMMA MirrorShape ==
  ASSUME NEW t, entries[t] \in Seq(Entries)
  PROVE  /\ MirrorLegs(t) \in Seq(Leg)
         /\ AccountsOf(MirrorLegs(t)) \subseteq OpenAccounts
<1>1. /\ Len(entries[t]) \in Nat /\ DOMAIN entries[t] = 1..Len(entries[t])
      /\ \A i \in 1..Len(entries[t]) : entries[t][i] \in Entries
  BY LenProperties, ElementOfSeq
<1>2. CASE req[t].body.status = "posted"
  <2> DEFINE legs == MirrorLegs(t)
  <2>1. DOMAIN legs = 1..Len(entries[t]) /\ legs = [i \in 1..Len(entries[t]) |-> legs[i]]
    BY <1>1, <1>2 DEF MirrorLegs
  <2>2. ASSUME NEW i \in 1..Len(entries[t])
        PROVE  legs[i] \in Leg /\ legs[i].account \in OpenAccounts
    <3>1. legs[i] = [account   |-> entries[t][i].account,
                     direction |-> Opposite(entries[t][i].direction),
                     amount    |-> entries[t][i].amount]
      BY <1>1, <1>2 DEF MirrorLegs
    <3>2. Opposite(entries[t][i].direction) \in {"debit", "credit"}
      BY DEF Opposite
    <3>3. entries[t][i].account \in OpenAccounts /\ entries[t][i].amount \in Nat
      BY <1>1 DEF Entries
    <3>4. entries[t][i].account \in Nat
      BY <3>3, OpenAccountsAssumption
    <3> HIDE DEF legs
    <3>5. legs[i].account = entries[t][i].account
      BY <3>1
    <3> QED
      BY <3>1, <3>2, <3>3, <3>4, <3>5 DEF Leg
  <2> HIDE DEF legs
  <2>3. legs \in Seq(Leg)
    BY <1>1, <2>1, <2>2
  <2> QED
    BY <2>1, <2>2, <2>3 DEF AccountsOf, legs
<1>3. CASE req[t].body.status # "posted"
  BY <1>3, EmptySeq DEF MirrorLegs, AccountsOf
<1> QED
  BY <1>2, <1>3

(* The legs of a call that is in progress.  A reversal meets no unknown    *)
(* account: its target's accounts were open.                               *)
LEMMA LegsShape ==
  ASSUME TypeOK, NEW c \in Calls, req[c] \in Requests
  PROVE  /\ LegsOf(c) \in Seq(Leg)
         /\ IsReversal(c) => UnknownAccounts(c) = {}
         /\ ~IsReversal(c) =>
              AccountsOf(LegsOf(c)) =
                {req[c].body.postings[i].source : i \in DOMAIN req[c].body.postings}
                \cup {req[c].body.postings[i].destination : i \in DOMAIN req[c].body.postings}
<1>1. CASE IsReversal(c)
  <2>1. CASE TargetSeen(c)
    <3>1. entries[Target(c)] \in Seq(Entries)
      BY <2>1 DEF TypeOK, TargetSeen
    <3> QED
      BY <1>1, <2>1, <3>1, MirrorShape DEF LegsOf, UnknownAccounts
  <2>2. CASE ~TargetSeen(c)
    BY <1>1, <2>2, EmptySeq DEF LegsOf, UnknownAccounts, AccountsOf
  <2> QED
    BY <2>1, <2>2
<1>2. CASE ~IsReversal(c)
  BY <1>2, RequestShape, ExpandedLegs DEF LegsOf
<1> QED
  BY <1>1, <1>2

(* The row of an open account is a row, and names its account. *)
LEMMA RowShape ==
  ASSUME TypeOK, NEW c \in Calls, NEW a \in OpenAccounts
  PROVE  /\ RowOf(c, a) \in Rows
         /\ RowOf(c, a)[1] = a
         /\ RowOf(c, a)[2] \in Nat
<1>1. affinity[c] % StripeCount[a] \in 0..(StripeCount[a] - 1)
  BY StripesAssumption DEF TypeOK
<1> QED
  BY <1>1 DEF RowOf, Rows

(* The counter a call writes is a number. *)
LEMMA UpsertedShape ==
  ASSUME TypeOK, NEW c \in Calls, req[c] \in Requests, NEW a \in AccountsLeft(c)
  PROVE  /\ IsRow(Upserted(c, a))
         /\ a \in OpenAccounts /\ a \in AccountsOf(LegsOf(c))
         /\ Upserted(c, a).seq = balances[RowOf(c, a)].seq + Cardinality(LegsOn(LegsOf(c), a))
<1>1. a \in OpenAccounts /\ a \in AccountsOf(LegsOf(c))
  BY DEF AccountsLeft
<1>2. LegsOf(c) \in Seq(Leg)
  BY LegsShape
<1>3. DeltasOf(c)[a].legs = Cardinality(LegsOn(LegsOf(c), a))
  BY <1>1, <1>2, PlannedLegCounts DEF DeltasOf
<1>4. Cardinality(LegsOn(LegsOf(c), a)) \in Nat
  BY <1>2, LegsOnIsFinite
<1>5. balances[RowOf(c, a)].seq \in Nat
  BY <1>1, RowShape DEF TypeOK, IsRow
<1> QED
  BY <1>1, <1>3, <1>4, <1>5 DEF Upserted, IsRow, NoRow

(* The entries a call commits are entries, on accounts that exist. *)
LEMMA EntriesShape ==
  ASSUME TypeOK, NEW c \in Calls, req[c] \in Requests, UnknownAccounts(c) = {}
  PROVE  EntriesOf(c) \in Seq(Entries)
<1> DEFINE legs == LegsOf(c)
<1>1. legs \in Seq(Leg)
  BY LegsShape
<1>2. Len(legs) \in Nat /\ DOMAIN legs = 1..Len(legs) /\ \A i \in 1..Len(legs) : legs[i] \in Leg
  BY <1>1, LenProperties, ElementOfSeq
<1>3. ASSUME NEW i \in 1..Len(legs)
      PROVE  EntriesOf(c)[i] \in Entries
  <2>1. legs[i].account \in OpenAccounts
    BY <1>2 DEF UnknownAccounts, AccountsOf
  <2>2. /\ RowOf(c, legs[i].account)[2] \in Nat
        /\ wrote[c][RowOf(c, legs[i].account)].seq \in Nat
    BY <2>1, RowShape DEF TypeOK, IsRow
  <2>3. OffsetBack(legs, i) \in Nat
    BY <1>1, <1>2, OffsetsFall
  <2> QED
    BY <1>2, <2>1, <2>2, <2>3 DEF EntriesOf, Entries, Leg
<1>4. DOMAIN EntriesOf(c) = 1..Len(legs) /\ EntriesOf(c) = [i \in 1..Len(legs) |-> EntriesOf(c)[i]]
  BY <1>2 DEF EntriesOf
<1> HIDE DEF legs
<1> QED
  BY <1>2, <1>3, <1>4

-----------------------------------------------------------------------------
(* The type invariant, one step per action *)

(* The end of a transaction, on the variables it writes. *)
LEMMA EndTransactionTypes ==
  ASSUME TypeOK, NEW c \in Calls, EndTransaction(c)
  PROVE  /\ claims' \subseteq Calls /\ inserted' \subseteq Calls
         /\ snap' \in [Calls -> SUBSET Calls]
         /\ DOMAIN wrote' = Calls
         /\ \A d \in Calls : /\ DOMAIN wrote'[d] = Rows
                           /\ \A r \in Rows : IsRow(wrote'[d][r])
<1>1. IsRow(NoRow)
  BY DEF IsRow, NoRow
<1>2. wrote' = [d \in Calls |-> IF d = c THEN [r \in Rows |-> NoRow] ELSE wrote[d]]
  BY DEF EndTransaction, TypeOK
<1> QED
  BY <1>1, <1>2 DEF EndTransaction, TypeOK

LEMMA TypeStep ==
  ASSUME TypeOK, Holdings, [Next]_vars
  PROVE  TypeOK'
<1> USE DEF At, Goto, Decide, callVars, openVars, bookVars, vars, IsRow
<1>1. ASSUME NEW c \in Calls, Begin(c) PROVE TypeOK'
  <2>1. req' \in [Calls -> Requests \cup {None}]
    <3>1. PICK r \in Requests : req' = [req EXCEPT ![c] = r]
      BY <1>1, BeginsARequest
    <3> QED
      BY <3>1 DEF TypeOK
  <2>2. affinity' \in [Calls -> Nat]
    BY <1>1, StripesAssumption DEF Begin, TypeOK
  <2> QED
    BY <1>1, <2>1, <2>2 DEF Begin, TypeOK, Places, InFlight
<1>2. ASSUME NEW c \in Calls, Claim(c) PROVE TypeOK'
  BY <1>2 DEF Claim, TypeOK, Places, InFlight
<1>3. ASSUME NEW c \in Calls, FindKeyHeld(c) PROVE TypeOK'
  BY <1>3 DEF FindKeyHeld, TypeOK, Places, InFlight
<1>4. ASSUME NEW c \in Calls, Insert(c) PROVE TypeOK'
  BY <1>4 DEF Insert, TypeOK, Places, InFlight
<1>5. ASSUME NEW c \in Calls, WithholdInsert(c) PROVE TypeOK'
  BY <1>5 DEF WithholdInsert, TypeOK, Places, InFlight
<1>6. ASSUME NEW c \in Calls, LoseSupersessionRace(c) PROVE TypeOK'
  BY <1>6, EndTransactionTypes
     DEF LoseSupersessionRace, Rollback, TypeOK, Places, InFlight, Verdicts
<1>7. ASSUME NEW c \in Calls, Upsert(c) PROVE TypeOK'
  <2> DEFINE a == NextAccount(c)
  <2>1. a \in AccountsLeft(c)
    BY <1>7, MinIsMember, OpenAccountsAssumption DEF Upsert, NextAccount, AccountsLeft
  <2>2. IsRow(Upserted(c, a)) /\ RowOf(c, a) \in Rows
    BY <1>7, <2>1, UpsertedShape, RowShape DEF Upsert, Holdings
  <2>3. wrote' = [wrote EXCEPT ![c][RowOf(c, a)] = Upserted(c, a)]
    BY <1>7 DEF Upsert
  <2> HIDE DEF a
  <2>4. /\ DOMAIN wrote' = Calls
        /\ \A d \in Calls : DOMAIN wrote'[d] = Rows /\ \A r \in Rows : IsRow(wrote'[d][r])
    BY <2>2, <2>3 DEF TypeOK
  <2> QED
    BY <1>7, <2>4 DEF Upsert, TypeOK
<1>8. ASSUME NEW c \in Calls, Commit(c) PROVE TypeOK'
  <2>1. EntriesOf(c) \in Seq(Entries)
    BY <1>8, EntriesShape DEF Commit, Appended, Holdings
  <2>2. entries' \in [Calls -> Seq(Entries)]
    BY <1>8, <2>1 DEF Commit, TypeOK
  <2>3. DOMAIN balances' = Rows /\ \A r \in Rows : IsRow(balances'[r])
    BY <1>8 DEF Commit, TypeOK
  <2>4. pc' \in [Calls -> Places] /\ verdict' \in [Calls -> Verdicts]
    BY <1>8 DEF Commit, TypeOK, Places, InFlight, Verdicts
  <2> QED
    BY <1>8, <2>2, <2>3, <2>4, EndTransactionTypes DEF Commit, TypeOK
<1>9. ASSUME NEW c \in Calls, RefuseSupersession(c) PROVE TypeOK'
  BY <1>9, EndTransactionTypes
     DEF RefuseSupersession, Rollback, TypeOK, Places, InFlight, Verdicts, Diagnosis
<1>10. ASSUME NEW c \in Calls, RefuseUnknownAccount(c) PROVE TypeOK'
  BY <1>10, EndTransactionTypes
     DEF RefuseUnknownAccount, Rollback, TypeOK, Places, InFlight, Verdicts
<1>11. ASSUME NEW c \in Calls, ReplayOrRefuse(c) PROVE TypeOK'
  <2>1. \E kind \in {"replayed", "KeyReused"}, t \in Calls \cup {None} :
          verdict' = [verdict EXCEPT ![c] = [kind |-> kind, txn |-> t]]
    BY <1>11 DEF ReplayOrRefuse, StoredResults, TypeOK
  <2>2. verdict' \in [Calls -> Verdicts]
    BY <2>1 DEF TypeOK, Verdicts
  <2> QED
    BY <1>11, <2>2, EndTransactionTypes DEF ReplayOrRefuse, Rollback, TypeOK, Places, InFlight
<1>12. ASSUME NEW c \in Calls, Answer(c) PROVE TypeOK'
  BY <1>12 DEF Answer, TypeOK, Places
<1>13. ASSUME NEW c \in Calls, Fail(c) PROVE TypeOK'
  BY <1>13, EndTransactionTypes DEF Fail, Rollback, TypeOK, Places, Verdicts
<1>14. CASE UNCHANGED vars
  BY <1>14 DEF TypeOK
<1> QED
  BY <1>1, <1>2, <1>3, <1>4, <1>5, <1>6, <1>7, <1>8, <1>9, <1>10, <1>11, <1>12, <1>13, <1>14
     DEF Next, Step, AllDone

-----------------------------------------------------------------------------
(* The inductive invariant, one step per action *)

(* Nobody's request changes but that of a call that begins, and nothing    *)
(* names an idle call.                                                     *)
LEMMA BeginKeepsRequests ==
  ASSUME Inv, NEW c \in Calls, Begin(c)
  PROVE  /\ c \notin claims /\ c \notin inserted /\ c \notin txns
         /\ \A d \in Calls \ {c} : req'[d] = req[d] /\ snap'[d] = snap[d] /\ pc'[d] = pc[d]
         /\ req'[c] \in Requests
<1>1. pc[c] = "idle"
  BY DEF Begin, At
<1>2. c \notin claims /\ c \notin inserted /\ c \notin txns
  BY <1>1 DEF Inv, Holdings
<1>3. req'[c] \in Requests
  BY BeginsARequest DEF Inv, TypeOK
<1> QED
  BY <1>2, <1>3 DEF Begin, Goto, Inv, TypeOK

(* A transaction that ends without a commit takes only rows away. *)
LEMMA RollbackKeepsInv ==
  ASSUME Inv, NEW c \in Calls, pc[c] # "idle", Rollback(c), UNCHANGED req,
         NEW place \in {"answering", "done"}, Goto(c, place),
         NEW kind, kind # "none", NEW t, Decide(c, kind, t)
  PROVE  /\ NoOrphanedEvent' /\ Holdings' /\ KeysAreUnique'
         /\ SlotsAreUnique' /\ TargetsAreSound' /\ Learnt'
<1> USE DEF Inv, TypeOK, Rollback, EndTransaction, Goto, Decide, bookVars
<1>1. NoOrphanedEvent' /\ Holdings'
  BY DEF NoOrphanedEvent, Holdings
<1>2. KeysAreUnique'
  BY DEF KeysAreUnique, SameKey
<1>3. SlotsAreUnique'
  BY DEF SlotsAreUnique, IsSuperseding, IsResolution, IsReversal, Target
<1>4. TargetsAreSound'
  BY DEF TargetsAreSound, IsSuperseding, IsResolution, IsReversal, Target
<1>5. Learnt'
  <2> SUFFICES ASSUME NEW d \in Calls
               PROVE  /\ pc'[d] = "lookup" => KeyCommitted(d)'
                      /\ pc'[d] = "upserting" /\ d \notin inserted' => ~GateAdmits(d)'
                      /\ pc'[d] \notin {"answering", "done"} =>
                           verdict'[d] = [kind |-> "none", txn |-> None]
                      /\ pc'[d] = "answering" => verdict'[d].kind # "none"
    BY DEF Learnt
  <2>1. CASE d = c
    BY <2>1
  <2>2. CASE d # c
    BY <2>2 DEF Learnt, KeyCommitted, SameKey, GateAdmits, TargetSeen, TargetSupersededIn,
                IsSuperseding, IsResolution, IsReversal, Target
  <2> QED
    BY <2>1, <2>2
<1> QED
  BY <1>1, <1>2, <1>3, <1>4, <1>5

(* What a request says is read off the request alone. *)
LEMMA SameRequest ==
  ASSUME NEW d, req'[d] = req[d]
  PROVE  /\ IsResolution(d)' <=> IsResolution(d)
         /\ IsSuperseding(d)' <=> IsSuperseding(d)
         /\ Target(d)' = Target(d)
  BY DEF IsSuperseding, IsResolution, IsReversal, Target

(* A call that keeps its request and its snapshot is judged alike by the   *)
(* gate, and never forgets that its key is held.                           *)
LEMMA SteadyCall ==
  ASSUME NEW d, UNCHANGED req, snap'[d] = snap[d], events \subseteq events'
  PROVE  /\ GateAdmits(d)' <=> GateAdmits(d)
         /\ KeyCommitted(d) => KeyCommitted(d)'
<1>1. GateAdmits(d)' <=> GateAdmits(d)
  BY DEF GateAdmits, TargetSeen, TargetSupersededIn, IsSuperseding, IsResolution, IsReversal, Target
<1>2. KeyCommitted(d) => KeyCommitted(d)'
  BY DEF KeyCommitted, SameKey
<1> QED
  BY <1>1, <1>2

(* Only a call that begins takes a target or a snapshot. *)
LEMMA TargetsNamedStep ==
  ASSUME Inv, [Next]_vars
  PROVE  TargetsAreNamed'
<1> USE DEF At, Goto, callVars, openVars, bookVars
<1>1. ASSUME NEW c \in Calls, Begin(c) PROVE TargetsAreNamed'
  <2>1. PICK item \in Menu[c], t \in txns \cup {Nowhere, None} :
          /\ (t = None) = (item.verb = "post")
          /\ req' = [req EXCEPT ![c] = Request(item, t)]
    BY <1>1 DEF Begin
  <2>2. req'[c] = Request(item, t) /\ snap'[c] = txns
    BY <1>1, <2>1 DEF Begin, Inv, TypeOK
  <2>3. IsSuperseding(c)' => Target(c)' \in snap'[c] \cup {Nowhere}
    BY <2>1, <2>2, MenuAssumption
       DEF Request, IsSuperseding, IsResolution, IsReversal, Target, Verbs
  <2>4. ASSUME NEW d \in Calls \ {c}, pc'[d] \in Writing, IsSuperseding(d)'
        PROVE  Target(d)' \in snap'[d] \cup {Nowhere}
    <3>1. req'[d] = req[d] /\ snap'[d] = snap[d] /\ pc'[d] = pc[d]
      BY <1>1, BeginKeepsRequests
    <3> QED
      BY <2>4, <3>1, SameRequest DEF Inv, TargetsAreNamed
  <2> QED
    BY <2>3, <2>4 DEF TargetsAreNamed
<1>2. ASSUME UNCHANGED req,
             \A d \in Calls : pc'[d] \in Writing => pc[d] \in Writing /\ snap'[d] = snap[d]
      PROVE  TargetsAreNamed'
  BY <1>2, SameRequest DEF Inv, TargetsAreNamed
<1>3. ASSUME NEW c \in Calls,
             \/ Claim(c) \/ FindKeyHeld(c) \/ Insert(c) \/ WithholdInsert(c)
             \/ Upsert(c) \/ Answer(c)
      PROVE  TargetsAreNamed'
  BY <1>2, <1>3 DEF Claim, FindKeyHeld, Insert, WithholdInsert, Upsert, Answer, Inv, TypeOK, Writing
<1>4. ASSUME NEW c \in Calls,
             \/ LoseSupersessionRace(c) \/ Commit(c) \/ RefuseSupersession(c)
             \/ RefuseUnknownAccount(c) \/ ReplayOrRefuse(c) \/ Fail(c)
      PROVE  TargetsAreNamed'
  BY <1>2, <1>4 DEF LoseSupersessionRace, Commit, RefuseSupersession, RefuseUnknownAccount,
     ReplayOrRefuse, Fail, Rollback, EndTransaction, Inv, TypeOK, Writing
<1>5. CASE UNCHANGED vars
  BY <1>2, <1>5 DEF vars
<1> QED
  BY <1>1, <1>3, <1>4, <1>5 DEF Next, Step, AllDone

LEMMA InvStep ==
  ASSUME Inv, [Next]_vars
  PROVE  Inv'
<1> USE DEF Inv, TypeOK, At, Goto, callVars, openVars, bookVars
<1>0. TypeOK' /\ TargetsAreNamed'
  BY TypeStep, TargetsNamedStep
<1>1. ASSUME NEW c \in Calls, Begin(c) PROVE Inv'
  <2>0. /\ c \notin claims /\ c \notin inserted /\ c \notin txns
        /\ \A d \in Calls \ {c} : req'[d] = req[d] /\ snap'[d] = snap[d] /\ pc'[d] = pc[d]
        /\ req'[c] \in Requests
        /\ UNCHANGED <<claims, inserted, wrote, events, txns, verdict>>
    BY <1>1, BeginKeepsRequests DEF Begin
  <2>1. NoOrphanedEvent' /\ Holdings'
    BY <1>1, <2>0 DEF Begin, NoOrphanedEvent, Holdings
  <2>a. \A d \in claims \cup events \cup inserted \cup txns : req'[d] = req[d]
    BY <2>0 DEF NoOrphanedEvent
  <2>b. \A d \in inserted \cup txns :
          /\ IsResolution(d)' <=> IsResolution(d)
          /\ IsSuperseding(d)' <=> IsSuperseding(d)
          /\ Target(d)' = Target(d)
    BY <2>a, SameRequest
  <2>2. KeysAreUnique'
    BY <2>0, <2>a DEF KeysAreUnique, SameKey
  <2>3. SlotsAreUnique'
    BY <2>0, <2>b DEF SlotsAreUnique
  <2>4. TargetsAreSound'
    BY <2>0, <2>a, <2>b DEF TargetsAreSound
  <2>5. Learnt'
    <3> SUFFICES ASSUME NEW d \in Calls
                 PROVE  /\ pc'[d] = "lookup" => KeyCommitted(d)'
                        /\ pc'[d] = "upserting" /\ d \notin inserted' => ~GateAdmits(d)'
                        /\ pc'[d] \notin {"answering", "done"} =>
                             verdict'[d] = [kind |-> "none", txn |-> None]
                        /\ pc'[d] = "answering" => verdict'[d].kind # "none"
      BY DEF Learnt
    <3>1. CASE d = c
      BY <1>1, <3>1 DEF Begin, Learnt
    <3>2. CASE d # c
      <4>1. KeyCommitted(d) => KeyCommitted(d)'
        BY <2>0, <3>2 DEF KeyCommitted, SameKey, NoOrphanedEvent
      <4>2. snap[d] \subseteq txns /\ c \notin snap[d]
        BY <2>0 DEF Holdings
      <4>3. ~GateAdmits(d) => ~GateAdmits(d)'
        <5>1. req'[d] = req[d] /\ snap'[d] = snap[d]
          BY <2>0, <3>2
        <5>2. \A r \in snap[d] : req'[r] = req[r]
          BY <2>a, <4>2
        <5>3. /\ IsResolution(d)' <=> IsResolution(d)
              /\ IsSuperseding(d)' <=> IsSuperseding(d)
              /\ Target(d)' = Target(d)
          BY <5>1, SameRequest
        <5>4. \A r \in snap[d] : (IsSuperseding(r)' <=> IsSuperseding(r)) /\ Target(r)' = Target(r)
          BY <5>2, SameRequest
        <5>5. TargetSeen(d)' <=> TargetSeen(d)
          BY <5>1, <5>3 DEF TargetSeen
        <5>6. TargetSupersededIn(d, snap[d])' <=> TargetSupersededIn(d, snap[d])
          BY <5>1, <5>3, <5>4 DEF TargetSupersededIn
        <5>7. TargetSeen(d) => req'[Target(d)] = req[Target(d)]
                               /\ (IsSuperseding(Target(d))' <=> IsSuperseding(Target(d)))
          BY <5>2, <5>3, <5>4 DEF TargetSeen
        <5> QED
          BY <5>1, <5>3, <5>5, <5>6, <5>7 DEF GateAdmits
      <4> QED
        BY <2>0, <3>2, <4>1, <4>3 DEF Learnt
    <3> QED
      BY <3>1, <3>2
  <2> QED
    BY <2>1, <2>2, <2>3, <2>4, <2>5, <1>0
<1>2. ASSUME NEW c \in Calls, Claim(c) PROVE Inv'
  <2>1. NoOrphanedEvent' /\ Holdings'
    BY <1>2 DEF Claim, NoOrphanedEvent, Holdings
  <2>2. KeysAreUnique'
    BY <1>2 DEF Claim, KeysAreUnique, KeyRivals, KeyCommitted, SameKey, Holdings
  <2>3. SlotsAreUnique'
    BY <1>2 DEF Claim, SlotsAreUnique, IsSuperseding, IsResolution, IsReversal, Target
  <2>4. TargetsAreSound'
    BY <1>2 DEF Claim, TargetsAreSound, IsSuperseding, IsResolution, IsReversal, Target
  <2>5. Learnt'
    BY <1>2, SteadyCall DEF Claim, Learnt
  <2> QED
    BY <2>1, <2>2, <2>3, <2>4, <2>5, <1>0
<1>3. ASSUME NEW c \in Calls, FindKeyHeld(c) PROVE Inv'
  <2>1. NoOrphanedEvent' /\ Holdings'
    BY <1>3 DEF FindKeyHeld, NoOrphanedEvent, Holdings
  <2>2. KeysAreUnique'
    BY <1>3 DEF FindKeyHeld, KeysAreUnique, SameKey
  <2>3. SlotsAreUnique'
    BY <1>3 DEF FindKeyHeld, SlotsAreUnique, IsSuperseding, IsResolution, IsReversal, Target
  <2>4. TargetsAreSound'
    BY <1>3 DEF FindKeyHeld, TargetsAreSound, IsSuperseding, IsResolution, IsReversal, Target
  <2>5. Learnt'
    BY <1>3, SteadyCall DEF FindKeyHeld, Learnt
  <2> QED
    BY <2>1, <2>2, <2>3, <2>4, <2>5, <1>0
<1>4. ASSUME NEW c \in Calls, Insert(c) PROVE Inv'
  <2>1. NoOrphanedEvent' /\ Holdings'
    BY <1>4 DEF Insert, NoOrphanedEvent, Holdings
  <2>2. KeysAreUnique'
    BY <1>4 DEF Insert, KeysAreUnique, SameKey
  <2>3. SlotsAreUnique'
    BY <1>4 DEF Insert, SlotsAreUnique, SlotRivals, SlotCommitted, TargetSupersededIn,
         IsSuperseding, IsResolution, IsReversal, Target
  <2>4. TargetsAreSound'
    <3>1. inserted' = inserted \cup {c} /\ txns' = txns /\ req' = req
      BY <1>4 DEF Insert, bookVars
    <3>2. IsSuperseding(c) =>
            /\ Target(c) \in txns
            /\ IF IsResolution(c) THEN req[Target(c)].body.status = "pending"
                                  ELSE ~IsSuperseding(Target(c))
      BY <1>4 DEF Insert, GateAdmits, TargetSeen, Holdings
    <3> QED BY <3>1, <3>2 DEF TargetsAreSound, IsSuperseding, IsResolution, IsReversal, Target
  <2>5. Learnt'
    BY <1>4, SteadyCall DEF Insert, Learnt
  <2> QED
    BY <2>1, <2>2, <2>3, <2>4, <2>5, <1>0
<1>5. ASSUME NEW c \in Calls, WithholdInsert(c) PROVE Inv'
  <2>1. NoOrphanedEvent' /\ Holdings'
    BY <1>5 DEF WithholdInsert, NoOrphanedEvent, Holdings
  <2>2. KeysAreUnique'
    BY <1>5 DEF WithholdInsert, KeysAreUnique, SameKey
  <2>3. SlotsAreUnique'
    BY <1>5 DEF WithholdInsert, SlotsAreUnique, IsSuperseding, IsResolution, IsReversal, Target
  <2>4. TargetsAreSound'
    BY <1>5 DEF WithholdInsert, TargetsAreSound, IsSuperseding, IsResolution, IsReversal, Target
  <2>5. Learnt'
    BY <1>5, SteadyCall DEF WithholdInsert, Learnt
  <2> QED
    BY <2>1, <2>2, <2>3, <2>4, <2>5, <1>0
<1>6. ASSUME NEW c \in Calls, LoseSupersessionRace(c) PROVE Inv'
  BY <1>6, <1>0, RollbackKeepsInv DEF LoseSupersessionRace
<1>7. ASSUME NEW c \in Calls, Upsert(c) PROVE Inv'
  <2>1. NoOrphanedEvent' /\ Holdings'
    BY <1>7 DEF Upsert, NoOrphanedEvent, Holdings
  <2>2. KeysAreUnique'
    BY <1>7 DEF Upsert, KeysAreUnique, SameKey
  <2>3. SlotsAreUnique'
    BY <1>7 DEF Upsert, SlotsAreUnique, IsSuperseding, IsResolution, IsReversal, Target
  <2>4. TargetsAreSound'
    BY <1>7 DEF Upsert, TargetsAreSound, IsSuperseding, IsResolution, IsReversal, Target
  <2>5. Learnt'
    BY <1>7, SteadyCall DEF Upsert, Learnt
  <2> QED
    BY <2>1, <2>2, <2>3, <2>4, <2>5, <1>0
<1>8. ASSUME NEW c \in Calls, Commit(c) PROVE Inv'
  <2>0. c \in claims /\ c \in inserted /\ pc[c] = "upserting" /\ UNCHANGED req
    BY <1>8 DEF Commit, Appended, Holdings
  <2>1. NoOrphanedEvent' /\ Holdings'
    BY <1>8, <2>0 DEF Commit, EndTransaction, NoOrphanedEvent, Holdings
  <2>2. KeysAreUnique'
    BY <1>8, <2>0 DEF Commit, EndTransaction, KeysAreUnique, SameKey
  <2>3. SlotsAreUnique'
    BY <1>8, <2>0 DEF Commit, EndTransaction, SlotsAreUnique,
       IsSuperseding, IsResolution, IsReversal, Target
  <2>4. TargetsAreSound'
    BY <1>8, <2>0 DEF Commit, EndTransaction, TargetsAreSound,
       IsSuperseding, IsResolution, IsReversal, Target
  <2>5. Learnt'
    <3>1. \A d \in Calls \ {c} : (GateAdmits(d)' <=> GateAdmits(d))
                              /\ (KeyCommitted(d) => KeyCommitted(d)')
      BY <1>8, <2>0, SteadyCall DEF Commit, EndTransaction
    <3> QED
      BY <1>8, <2>0, <3>1 DEF Commit, EndTransaction, Decide, Learnt
  <2> QED
    BY <2>1, <2>2, <2>3, <2>4, <2>5, <1>0
<1>9. ASSUME NEW c \in Calls, RefuseSupersession(c) PROVE Inv'
  <2>1. Diagnosis(c) # "none"
    BY DEF Diagnosis
  <2> QED
    BY <1>9, <1>0, <2>1, RollbackKeepsInv DEF RefuseSupersession, Appended
<1>10. ASSUME NEW c \in Calls, RefuseUnknownAccount(c) PROVE Inv'
  BY <1>10, <1>0, RollbackKeepsInv DEF RefuseUnknownAccount, Appended
<1>11. ASSUME NEW c \in Calls, ReplayOrRefuse(c) PROVE Inv'
  <2>1. \E kind \in {"replayed", "KeyReused"}, t \in Calls \cup {None} : Decide(c, kind, t)
    BY <1>11 DEF ReplayOrRefuse, StoredResults
  <2> QED
    BY <1>11, <1>0, <2>1, RollbackKeepsInv DEF ReplayOrRefuse
<1>12. ASSUME NEW c \in Calls, Answer(c) PROVE Inv'
  <2>1. NoOrphanedEvent' /\ Holdings'
    BY <1>12 DEF Answer, NoOrphanedEvent, Holdings
  <2>2. KeysAreUnique'
    BY <1>12 DEF Answer, KeysAreUnique, SameKey
  <2>3. SlotsAreUnique'
    BY <1>12 DEF Answer, SlotsAreUnique, IsSuperseding, IsResolution, IsReversal, Target
  <2>4. TargetsAreSound'
    BY <1>12 DEF Answer, TargetsAreSound, IsSuperseding, IsResolution, IsReversal, Target
  <2>5. Learnt'
    BY <1>12, SteadyCall DEF Answer, Learnt
  <2> QED
    BY <2>1, <2>2, <2>3, <2>4, <2>5, <1>0
<1>13. ASSUME NEW c \in Calls, Fail(c) PROVE Inv'
  BY <1>13, <1>0, RollbackKeepsInv DEF Fail, InFlight
<1>14. CASE UNCHANGED vars
  BY <1>14, <1>0 DEF vars, NoOrphanedEvent, Holdings, KeysAreUnique, SlotsAreUnique,
     TargetsAreSound, Learnt, KeyCommitted, SameKey, GateAdmits, TargetSeen, TargetSupersededIn,
         IsSuperseding, IsResolution, IsReversal, Target
<1> QED
  BY <1>1, <1>2, <1>3, <1>4, <1>5, <1>6, <1>7, <1>8, <1>9, <1>10, <1>11, <1>12, <1>13, <1>14
     DEF Next, Step, AllDone

-----------------------------------------------------------------------------
(* Every reachable state satisfies the invariant. *)
THEOREM Invariance == Spec => []Inv
<1>1. Init => Inv
  BY InitInv
<1>2. Inv /\ [Next]_vars => Inv'
  BY InvStep
<1> QED
  BY <1>1, <1>2, PTL DEF Spec

(* Every variable has its type, whatever the calls, the menu and the chart. *)
THEOREM TypeCorrectness == Spec => []TypeOK
<1>1. Inv => TypeOK
  BY DEF Inv
<1> QED
  BY <1>1, Invariance, PTL

(* However many calls race a key, one transaction is committed under it:   *)
(* the unique index excludes committed and uncommitted rivals alike.  And  *)
(* no refusal, failure or lost race leaves an event without a transaction. *)
THEOREM CallsPostOnce == Spec => []KeysPostOnce
<1>1. Inv => KeysPostOnce
  BY DEF Inv, NoOrphanedEvent, KeysAreUnique, OneTransactionPerKey, KeysPostOnce
<1> QED
  BY <1>1, Invariance, PTL

(* A transaction is superseded once, by a legal superseder, however many   *)
(* resolutions and reversals judge it on snapshots that miss one another.  *)
THEOREM SupersedersExclude == Spec => []SupersessionIsSound
<1>1. Inv => SupersessionIsSound
  BY DEF Inv, SlotsAreUnique, TargetsAreSound, SupersessionIsSound
<1> QED
  BY <1>1, Invariance, PTL
-----------------------------------------------------------------------------
(* Responses *)

(* What a call was told, against the book: a posted one is the transaction *)
(* it was told of; a replayed one was told of the transaction its key and  *)
(* body wrote; whoever is told anything else, a failure aside, wrote none. *)
Heard(c) ==
  /\ verdict[c].kind = "posted" => c \in txns /\ verdict[c].txn = c
  /\ verdict[c].kind = "replayed" =>
       /\ verdict[c].txn \in txns
       /\ req[verdict[c].txn] = req[c]
  /\ verdict[c].kind \notin {"none", "posted", "failed"} => c \notin txns

AllHeard == \A c \in Calls : Heard(c)

(* A request is its key and its body. *)
LEMMA RequestsAreEqual ==
  ASSUME NEW r \in Requests, NEW s \in Requests, r.key = s.key, r.body = s.body
  PROVE  r = s
<1>1. r = [key |-> r.key, body |-> r.body] /\ s = [key |-> s.key, body |-> s.body]
  BY DEF Requests, Request
<1> QED
  BY <1>1

(* A verdict stays true while its call keeps it: committed rows stay, and  *)
(* only the call itself can commit its own.                                *)
LEMMA HeardStays ==
  ASSUME Inv, NEW c \in Calls, Heard(c), verdict'[c] = verdict[c],
         txns \subseteq txns', c \in txns' => c \in txns,
         \A d \in txns \cup {c} : req'[d] = req[d]
  PROVE  Heard(c)'
  BY DEF Heard

(* Statement B finds the transaction of this very request. *)
LEMMA ReplayIsHeard ==
  ASSUME Inv, NEW c \in Calls, ReplayOrRefuse(c)
  PROVE  Heard(c)'
<1> USE DEF ReplayOrRefuse, Rollback, Decide, At, bookVars
<1>1. c \notin txns /\ req[c] \in Requests /\ txns' = txns /\ req' = req
  BY DEF Inv, Holdings
<1>2. ASSUME NEW d \in StoredResults(c),
             verdict' = [verdict EXCEPT ![c] =
                           [kind |-> "replayed", txn |-> IF d \in txns THEN d ELSE None]]
      PROVE  Heard(c)'
  <2>1. d \in txns /\ d \in Calls
    BY DEF StoredResults, Inv, NoOrphanedEvent, TypeOK
  <2>2. req[d] \in Requests
    BY <2>1 DEF Inv, Holdings
  <2>3. req[d] = req[c]
    BY <1>1, <2>2, RequestsAreEqual DEF StoredResults, SameKey
  <2>4. verdict'[c] = [kind |-> "replayed", txn |-> d]
    BY <1>2, <2>1 DEF Inv, TypeOK
  <2> QED
    BY <1>1, <2>1, <2>3, <2>4 DEF Heard
<1>3. ASSUME verdict' = [verdict EXCEPT ![c] = [kind |-> "KeyReused", txn |-> None]]
      PROVE  Heard(c)'
  BY <1>1, <1>3 DEF Heard, Inv, TypeOK
<1> QED
  BY <1>2, <1>3

(* Every step keeps the verdicts true. *)
LEMMA AllHeardStep ==
  ASSUME Inv, AllHeard, [Next]_vars
  PROVE  AllHeard'
<1> USE DEF AllHeard, At, Goto, callVars, openVars, bookVars
<1>1. ASSUME NEW c \in Calls, Begin(c) PROVE AllHeard'
  <2>1. c \notin txns /\ \A d \in Calls \ {c} : req'[d] = req[d]
    BY <1>1, BeginKeepsRequests
  <2>2. txns' = txns /\ verdict' = verdict /\ verdict[c].kind = "none"
    BY <1>1 DEF Begin, Inv, Learnt
  <2>3. Heard(c)'
    BY <2>2 DEF Heard
  <2>4. ASSUME NEW d \in Calls \ {c} PROVE Heard(d)'
    BY <2>1, <2>2, HeardStays DEF Inv, TypeOK
  <2> QED
    BY <2>3, <2>4
<1>2. ASSUME NEW c \in Calls,
             \/ Claim(c) \/ FindKeyHeld(c) \/ Insert(c) \/ WithholdInsert(c) \/ Upsert(c)
             \/ Answer(c)
      PROVE  AllHeard'
  BY <1>2, HeardStays DEF Claim, FindKeyHeld, Insert, WithholdInsert, Upsert, Answer
<1>3. ASSUME NEW c \in Calls, NEW kind \in {"failed", "TargetAlreadySuperseded", "AccountUnknown",
                 "ResolveTargetUnknown", "ResolveTargetNotPending",
                 "ReverseTargetUnknown", "ReverseTargetNotReversible"},
             c \notin txns \/ kind = "failed",
             Rollback(c), UNCHANGED req, Decide(c, kind, None)
      PROVE  AllHeard'
  <2>1. txns' = txns /\ \A d \in Calls \ {c} : verdict'[d] = verdict[d]
    BY <1>3 DEF Rollback, Decide, Inv, TypeOK
  <2>2. verdict'[c] = [kind |-> kind, txn |-> None]
    BY <1>3 DEF Decide, Inv, TypeOK
  <2>3. Heard(c)'
    BY <1>3, <2>1, <2>2 DEF Heard
  <2> QED
    BY <1>3, <2>1, <2>3, HeardStays
<1>4. ASSUME NEW c \in Calls, LoseSupersessionRace(c) \/ RefuseUnknownAccount(c) PROVE AllHeard'
  BY <1>3, <1>4 DEF LoseSupersessionRace, RefuseUnknownAccount, Appended, Inv, Holdings
<1>5. ASSUME NEW c \in Calls, RefuseSupersession(c) PROVE AllHeard'
  <2>1. c \notin txns
    BY <1>5 DEF RefuseSupersession, Appended, Inv, Holdings
  <2> QED
    BY <1>3, <1>5, <2>1 DEF RefuseSupersession, Diagnosis
<1>6. ASSUME NEW c \in Calls, Fail(c) PROVE AllHeard'
  BY <1>3, <1>6 DEF Fail
<1>7. ASSUME NEW c \in Calls, Commit(c) PROVE AllHeard'
  <2>1. txns' = txns \cup {c} /\ req' = req /\ verdict'[c] = [kind |-> "posted", txn |-> c]
    BY <1>7 DEF Commit, Decide, Inv, TypeOK
  <2>2. \A d \in Calls \ {c} : verdict'[d] = verdict[d]
    BY <1>7 DEF Commit, Decide, Inv, TypeOK
  <2>3. Heard(c)'
    BY <2>1 DEF Heard
  <2> QED
    BY <2>1, <2>2, <2>3, HeardStays
<1>8. ASSUME NEW c \in Calls, ReplayOrRefuse(c) PROVE AllHeard'
  <2>1. \A d \in Calls \ {c} : verdict'[d] = verdict[d]
    BY <1>8 DEF ReplayOrRefuse, Decide, Inv, TypeOK
  <2> QED
    BY <1>8, <2>1, ReplayIsHeard, HeardStays DEF ReplayOrRefuse, Rollback
<1>9. CASE UNCHANGED vars
  BY <1>9, HeardStays DEF vars
<1> QED
  BY <1>1, <1>2, <1>4, <1>5, <1>6, <1>7, <1>8, <1>9 DEF Next, Step, AllDone

(* Every verdict is documented on the wire, and its status tells a write   *)
(* from a replay and from a refusal.                                       *)
LEMMA PostIsDocumented ==
  ASSUME TypeOK, NEW c \in Answered
  PROVE  /\ ResponseTo(c) \in PostTransaction
         /\ Status(c) = 201 <=> verdict[c].kind = "posted"
         /\ Status(c) = 200 <=> verdict[c].kind = "replayed"
         /\ Status(c) \in {200, 422} => verdict[c].kind \notin {"none", "posted", "failed"}
<1>1. verdict[c].kind \in
        {"posted", "replayed", "failed", "KeyReused", "AccountUnknown", "TargetAlreadySuperseded",
         "ResolveTargetUnknown", "ResolveTargetNotPending", "ReverseTargetUnknown",
         "ReverseTargetNotReversible"}
  BY DEF Answered, TypeOK, Verdicts
<1> QED
  BY <1>1
     DEF ResponseTo, Status, StoredResult, RefusalFor, Refusal, Response, WriteProblems,
         PostTransaction, DocumentedForWrites, Replayed, Types

(* The responses to a key agree with the book and with one another,        *)
(* whatever raced: each is documented; a 201 created the transaction it    *)
(* names and is the only one its key ever gets; every 200 and 201 of a key *)
(* answers the same body with the same transaction; a 200 and a 422 wrote  *)
(* nothing.                                                                *)
THEOREM TrueResponses == Spec => []ResponsesAreTrue
<1>1. Init => AllHeard
  BY DEF Init, AllHeard, Heard
<1>2. Inv /\ AllHeard => ResponsesAreTrue
  <2> SUFFICES ASSUME Inv, AllHeard PROVE ResponsesAreTrue
    OBVIOUS
  <2>1. ASSUME NEW c \in Answered
        PROVE  /\ ResponseTo(c) \in PostTransaction
               /\ Status(c) = 201 => c \in txns /\ verdict[c].txn = c
               /\ Status(c) = 200 => verdict[c].txn \in txns /\ req[verdict[c].txn] = req[c]
               /\ Status(c) \in {200, 422} => c \notin txns
    BY PostIsDocumented DEF Inv, AllHeard, Heard, Answered
  <2>2. ASSUME NEW c \in Answered, Succeeds(c)
        PROVE  /\ verdict[c].txn \in txns /\ req[verdict[c].txn] = req[c]
               /\ Status(c) = 200 \/ verdict[c].txn = c
    BY <2>1, <2>2 DEF Succeeds
  <2>3. ASSUME NEW c \in Answered, NEW d \in Answered \ {c},
               Succeeds(c), Succeeds(d), SameKey(c, d)
        PROVE  /\ req[c] = req[d] /\ verdict[c].txn = verdict[d].txn
               /\ 200 \in {Status(c), Status(d)}
    <3>1. verdict[c].txn = verdict[d].txn
      BY <2>2, <2>3 DEF Inv, NoOrphanedEvent, KeysAreUnique, SameKey
    <3> QED
      BY <2>2, <2>3, <3>1
  <2> QED
    BY <2>1, <2>2, <2>3 DEF ResponsesAreTrue, Inv, NoOrphanedEvent
<1>3. Inv /\ AllHeard /\ [Next]_vars => AllHeard'
  BY AllHeardStep
<1>4. Spec => []AllHeard
  BY <1>1, <1>3, Invariance, PTL DEF Spec
<1> QED
  BY <1>2, <1>4, Invariance, PTL
-----------------------------------------------------------------------------
(* Deadlock *)

(* A row is held by a call that is upserting, and every row that call has  *)
(* left to lock belongs to a later account.                                *)
LockedInOrder ==
  \A c \in Calls, r \in Rows : wrote[c][r] # NoRow =>
    pc[c] = "upserting" /\ \A a \in AccountsLeft(c) : r[1] < a

(* What a call derives depends on its request, its affinity and its        *)
(* snapshot, whose transactions no longer change.                          *)
LEMMA SteadyLegs ==
  ASSUME NEW d, req'[d] = req[d], affinity'[d] = affinity[d], snap'[d] = snap[d],
         \A t \in snap[d] : req'[t] = req[t] /\ entries'[t] = entries[t]
  PROVE  LegsOf(d)' = LegsOf(d) /\ \A a : RowOf(d, a)' = RowOf(d, a)
<1>1. /\ IsReversal(d)' <=> IsReversal(d)
      /\ Target(d)' = Target(d) /\ (TargetSeen(d)' <=> TargetSeen(d))
  BY DEF IsReversal, IsResolution, Target, TargetSeen
<1>2. TargetSeen(d) => MirrorLegs(Target(d))' = MirrorLegs(Target(d))
  BY <1>1 DEF TargetSeen, MirrorLegs
<1>3. LegsOf(d)' = LegsOf(d)
  BY <1>1, <1>2 DEF LegsOf
<1> QED
  BY <1>3 DEF RowOf

(* A call at its upserts keeps its order while it locks nothing more.      *)
LEMMA OrderStays ==
  ASSUME LockedInOrder, NEW d \in Calls, pc'[d] = pc[d], wrote'[d] = wrote[d],
         pc[d] = "upserting" =>
           /\ req'[d] = req[d] /\ affinity'[d] = affinity[d] /\ snap'[d] = snap[d]
           /\ \A t \in snap[d] : req'[t] = req[t] /\ entries'[t] = entries[t]
  PROVE  \A r \in Rows : wrote'[d][r] # NoRow =>
           pc'[d] = "upserting" /\ \A a \in AccountsLeft(d)' : r[1] < a
<1>1. CASE pc[d] = "upserting"
  <2>1. LegsOf(d)' = LegsOf(d) /\ \A a : RowOf(d, a)' = RowOf(d, a)
    BY <1>1, SteadyLegs
  <2>2. AccountsLeft(d)' = AccountsLeft(d)
    BY <2>1 DEF AccountsLeft
  <2> QED
    BY <2>2 DEF LockedInOrder
<1>2. CASE pc[d] # "upserting"
  BY <1>2 DEF LockedInOrder
<1> QED
  BY <1>1, <1>2

(* The next row is of an account past every row held and before every row  *)
(* left.                                                                   *)
LEMMA UpsertInOrder ==
  ASSUME Inv, LockedInOrder, NEW c \in Calls, Upsert(c)
  PROVE  \A r \in Rows : wrote'[c][r] # NoRow =>
           pc'[c] = "upserting" /\ \A a \in AccountsLeft(c)' : r[1] < a
<1> DEFINE next == NextAccount(c)
<1>1. pc[c] = "upserting" /\ pc' = pc /\ req[c] \in Requests
  BY DEF Upsert, At, callVars, Inv, Holdings
<1>2. AccountsLeft(c) \in SUBSET Nat /\ next \in AccountsLeft(c)
      /\ \A a \in AccountsLeft(c) : next <= a
  BY MinIsMember, OpenAccountsAssumption DEF Upsert, NextAccount, AccountsLeft
<1>3. next \in OpenAccounts /\ RowOf(c, next) \in Rows /\ RowOf(c, next)[1] = next
  BY <1>2, RowShape DEF Inv, AccountsLeft
<1>4. LegsOf(c)' = LegsOf(c) /\ \A a : RowOf(c, a)' = RowOf(c, a)
  BY SteadyLegs DEF Upsert, callVars, bookVars
<1>5. Upserted(c, next) # NoRow
  <2>1. LegsOf(c) \in Seq(Leg) /\ next \in AccountsOf(LegsOf(c))
    BY <1>1, <1>2, LegsShape DEF Inv, AccountsLeft
  <2>2. LegsOn(LegsOf(c), next) # {}
    BY <2>1 DEF AccountsOf, LegsOn
  <2>3. Cardinality(LegsOn(LegsOf(c), next)) \in Nat \ {0}
    BY <2>1, <2>2, LegsOnIsFinite, FS_EmptySet
  <2>4. balances[RowOf(c, next)].seq \in Nat
    BY <1>3 DEF Inv, TypeOK, IsRow
  <2>5. Upserted(c, next).seq # 0
    BY <1>1, <1>2, <2>3, <2>4, UpsertedShape DEF Inv
  <2> QED
    BY <2>5 DEF NoRow
<1>6. /\ wrote'[c][RowOf(c, next)] = Upserted(c, next)
      /\ \A r \in Rows \ {RowOf(c, next)} : wrote'[c][r] = wrote[c][r]
  BY <1>3 DEF Upsert, Inv, TypeOK
<1> HIDE DEF next
<1>7. AccountsLeft(c)' \subseteq AccountsLeft(c) \ {next}
  <2> SUFFICES ASSUME NEW a \in AccountsLeft(c)' PROVE a \in AccountsLeft(c) \ {next}
    OBVIOUS
  <2>1. /\ a \in AccountsOf(LegsOf(c)) \cap OpenAccounts
        /\ wrote'[c][RowOf(c, a)] = NoRow
    BY <1>4 DEF AccountsLeft
  <2>2. a # next
    BY <1>5, <1>6, <2>1
  <2>3. RowOf(c, a) \in Rows /\ RowOf(c, a)[1] = a
    BY <2>1, RowShape DEF Inv
  <2> QED
    BY <1>3, <1>6, <2>1, <2>2, <2>3 DEF AccountsLeft
<1>8. \A a \in AccountsLeft(c)' : next < a
  BY <1>2, <1>7
<1>9. ASSUME NEW r \in Rows, wrote'[c][r] # NoRow, NEW a \in AccountsLeft(c)'
      PROVE  r[1] < a
  <2>1. CASE r = RowOf(c, next)
    BY <1>3, <1>8, <2>1
  <2>2. CASE r # RowOf(c, next)
    BY <1>6, <1>7, <1>9, <2>2 DEF LockedInOrder
  <2> QED
    BY <2>1, <2>2
<1> QED
  BY <1>1, <1>9

(* Every step keeps the rows locked in account order. *)
LEMMA LockedInOrderStep ==
  ASSUME Inv, LockedInOrder, [Next]_vars
  PROVE  LockedInOrder'
<1> USE DEF At, Goto, callVars, openVars, bookVars
<1> DEFINE InOrder(d) ==
      \A r \in Rows : wrote'[d][r] # NoRow =>
        pc'[d] = "upserting" /\ \A a \in AccountsLeft(d)' : r[1] < a
<1>0. /\ \A d \in Calls : snap[d] \subseteq txns /\ (d \in txns => pc[d] \in {"answering", "done"})
      /\ \A d \in Calls, r \in Rows : pc[d] # "upserting" => wrote[d][r] = NoRow
  BY DEF Inv, Holdings, LockedInOrder
<1>1. ASSUME NEW c \in Calls, Begin(c) PROVE LockedInOrder'
  <2>1. /\ \A d \in Calls \ {c} : req'[d] = req[d] /\ snap'[d] = snap[d] /\ pc'[d] = pc[d]
        /\ c \notin txns
    BY <1>1, BeginKeepsRequests
  <2>2. /\ wrote' = wrote /\ entries' = entries /\ pc[c] = "idle"
        /\ \A d \in Calls \ {c} : affinity'[d] = affinity[d]
    BY <1>1 DEF Begin, Inv, TypeOK
  <2>3. ASSUME NEW d \in Calls \ {c} PROVE InOrder(d)
    <3>1. \A t \in snap[d] : req'[t] = req[t] /\ entries'[t] = entries[t]
      BY <1>0, <2>1, <2>2 DEF Inv, TypeOK
    <3> QED
      BY <2>1, <2>2, <3>1, OrderStays
  <2>4. InOrder(c)
    BY <1>0, <2>2
  <2> QED
    BY <2>3, <2>4 DEF LockedInOrder
<1>2. ASSUME NEW c \in Calls, pc[c] # "upserting", UNCHANGED <<wrote, req, affinity, snap, entries>>,
             \A d \in Calls \ {c} : pc'[d] = pc[d]
      PROVE  LockedInOrder'
  <2>1. ASSUME NEW d \in Calls \ {c} PROVE InOrder(d)
    BY <1>2, OrderStays
  <2>2. InOrder(c)
    BY <1>0, <1>2
  <2> QED
    BY <2>1, <2>2 DEF LockedInOrder
<1>3. ASSUME NEW c \in Calls,
             Claim(c) \/ FindKeyHeld(c) \/ Insert(c) \/ WithholdInsert(c) \/ Answer(c)
      PROVE  LockedInOrder'
  BY <1>2, <1>3 DEF Claim, FindKeyHeld, Insert, WithholdInsert, Answer, Inv, TypeOK
<1>4. ASSUME NEW c \in Calls, Upsert(c) PROVE LockedInOrder'
  <2>1. ASSUME NEW d \in Calls \ {c} PROVE InOrder(d)
    BY <1>4, OrderStays DEF Upsert, Inv, TypeOK
  <2>2. InOrder(c)
    BY <1>4, UpsertInOrder
  <2> QED
    BY <2>1, <2>2 DEF LockedInOrder
<1>5. ASSUME NEW c \in Calls, EndTransaction(c), UNCHANGED <<req, affinity>>,
             \A d \in Calls \ {c} : pc'[d] = pc[d],
             \A t \in txns : entries'[t] = entries[t]
      PROVE  LockedInOrder'
  <2>1. ASSUME NEW d \in Calls \ {c} PROVE InOrder(d)
    <3>1. wrote'[d] = wrote[d] /\ snap'[d] = snap[d]
      BY <1>5 DEF EndTransaction, Inv, TypeOK
    <3> QED
      BY <1>0, <1>5, <3>1, OrderStays
  <2>2. InOrder(c)
    BY <1>5 DEF EndTransaction, Inv, TypeOK
  <2> QED
    BY <2>1, <2>2 DEF LockedInOrder
<1>6. ASSUME NEW c \in Calls,
             \/ LoseSupersessionRace(c) \/ RefuseSupersession(c) \/ RefuseUnknownAccount(c)
             \/ ReplayOrRefuse(c) \/ Fail(c)
      PROVE  LockedInOrder'
  BY <1>5, <1>6
     DEF LoseSupersessionRace, RefuseSupersession, RefuseUnknownAccount, ReplayOrRefuse, Fail,
         Rollback, Inv, TypeOK
<1>7. ASSUME NEW c \in Calls, Commit(c) PROVE LockedInOrder'
  <2>1. c \notin txns
    BY <1>0, <1>7 DEF Commit, Appended
  <2> QED
    BY <1>5, <1>7, <2>1 DEF Commit, Inv, TypeOK
<1>8. CASE UNCHANGED vars
  <2>1. ASSUME NEW d \in Calls PROVE InOrder(d)
    BY <1>8, OrderStays DEF vars
  <2> QED
    BY <2>1 DEF LockedInOrder
<1> QED
  BY <1>1, <1>3, <1>4, <1>6, <1>7, <1>8 DEF Next, Step, AllDone

(* A call waits for one that is further on, or for one whose next account  *)
(* is a later one.                                                         *)
LEMMA WaitsAhead ==
  ASSUME Inv, LockedInOrder, NEW c \in Calls, NEW d \in Calls, WaitsFor(c, d)
  PROVE  /\ pc[c] = "claiming" => pc[d] \in {"inserting", "upserting"}
         /\ pc[c] \in {"inserting", "upserting"} => pc[d] = "upserting"
         /\ pc[c] \in {"claiming", "inserting", "upserting"}
         /\ pc[c] = "upserting" =>
              /\ NextAccount(c) \in OpenAccounts
              /\ \A a \in AccountsLeft(d) : NextAccount(c) < a
<1> USE DEF At
<1>1. CASE pc[c] = "claiming"
  BY <1>1 DEF WaitsFor, KeyRivals, Inv, Holdings
<1>2. CASE pc[c] = "inserting"
  BY <1>2 DEF WaitsFor, SlotRivals, Inv, Holdings
<1>3. CASE pc[c] = "upserting"
  <2> DEFINE next == NextAccount(c)
  <2>1. AccountsLeft(c) # {} /\ wrote[d][RowOf(c, next)] # NoRow
    BY <1>3 DEF WaitsFor, RowRivals
  <2>2. next \in OpenAccounts
    BY <2>1, MinIsMember, OpenAccountsAssumption DEF NextAccount, AccountsLeft
  <2>3. RowOf(c, next) \in Rows /\ RowOf(c, next)[1] = next
    BY <2>2, RowShape DEF Inv
  <2> HIDE DEF next
  <2>4. pc[d] = "upserting" /\ \A a \in AccountsLeft(d) : next < a
    BY <2>1, <2>3 DEF LockedInOrder
  <2> QED
    BY <1>3, <2>2, <2>4 DEF next
<1> QED
  BY <1>1, <1>2, <1>3 DEF WaitsFor

(* No set of calls all wait for one another, for any number of calls, any  *)
(* requests and any chart: claims come before inserts, inserts before      *)
(* balance rows, and balance rows in account order.                        *)
THEOREM DeadlockFree == Spec => []NoWaitCycle
<1>1. Init => LockedInOrder
  BY DEF Init, LockedInOrder
<1>2. Inv /\ LockedInOrder => NoWaitCycle
  <2> SUFFICES ASSUME Inv, LockedInOrder, NEW S \in (SUBSET Calls) \ {{}},
                      \A c \in S : \E d \in S : WaitsFor(c, d)
               PROVE  FALSE
    BY DEF NoWaitCycle
  <2> DEFINE upserting == {c \in S : pc[c] = "upserting"}
             nexts == {NextAccount(c) : c \in upserting}
  <2>1. upserting # {}
    <3>1. PICK c \in S : TRUE
      OBVIOUS
    <3>2. PICK d \in S : WaitsFor(c, d)
      BY <3>1
    <3>3. PICK e \in S : WaitsFor(d, e)
      BY <3>2
    <3> QED
      BY <3>2, <3>3, WaitsAhead
  <2>2. nexts \subseteq OpenAccounts
    BY WaitsAhead
  <2>3. nexts \in SUBSET Nat /\ nexts # {} /\ IsFiniteSet(nexts)
    <3>1. nexts # {}
      BY <2>1
    <3> HIDE DEF nexts
    <3>2. IsFiniteSet(nexts)
      BY <2>2, OpenAccountsAssumption, FS_Subset
    <3> QED
      BY <2>2, <3>1, <3>2, OpenAccountsAssumption
  <2>4. PICK c \in upserting : \A e \in upserting : NextAccount(e) <= NextAccount(c)
    <3> HIDE DEF nexts
    <3>1. PICK x \in nexts : \A y \in nexts : y <= x
      BY <2>3, FiniteHasGreatest
    <3> QED
      BY <3>1 DEF nexts
  <2>5. PICK d \in S : WaitsFor(c, d)
    BY <2>4
  <2>6. d \in upserting /\ \A a \in AccountsLeft(d) : NextAccount(c) < a
    BY <2>4, <2>5, WaitsAhead
  <2>7. NextAccount(d) \in AccountsLeft(d)
    <3>1. PICK e \in S : WaitsFor(d, e)
      BY <2>6
    <3>2. AccountsLeft(d) # {}
      BY <2>6, <3>1 DEF WaitsFor, At
    <3> QED
      BY <3>2, MinIsMember, OpenAccountsAssumption DEF NextAccount, AccountsLeft
  <2>8. NextAccount(c) \in Nat /\ NextAccount(d) \in Nat
    BY <2>3, <2>4, <2>6
  <2> QED
    BY <2>4, <2>6, <2>7, <2>8
<1>3. Inv /\ LockedInOrder /\ [Next]_vars => LockedInOrder'
  BY LockedInOrderStep
<1>4. Spec => []LockedInOrder
  BY <1>1, <1>3, Invariance, PTL DEF Spec
<1> QED
  BY <1>2, <1>4, Invariance, PTL

-----------------------------------------------------------------------------
(* The book adds up.  What makes a commit append to a row exactly what the *)
(* row's counters were advanced by is the lock on the row: the counters a  *)
(* call wrote are still the committed ones plus its own delta.             *)

(* A held row is the row of an account the call posts to, stands at the    *)
(* committed counters plus the call's delta, and is held by it alone.      *)
RowHeld(c, r) ==
  /\ pc[c] = "upserting"
  /\ \E a \in AccountsOf(LegsOf(c)) \cap OpenAccounts :
       r = RowOf(c, a) /\ wrote[c][r] = Upserted(c, a)
  /\ \A d \in Calls \ {c} : wrote[d][r] = NoRow

RowsAreHeld == \A c \in Calls, r \in Rows : wrote[c][r] # NoRow => RowHeld(c, r)

(* A call that writes nothing more keeps the rows it holds, as long as     *)
(* nobody writes or commits them.                                          *)
LEMMA HeldStays ==
  ASSUME NEW d \in Calls, NEW r \in Rows, RowHeld(d, r),
         pc'[d] = pc[d], req'[d] = req[d], affinity'[d] = affinity[d], snap'[d] = snap[d],
         \A t \in snap[d] : req'[t] = req[t] /\ entries'[t] = entries[t],
         wrote'[d][r] = wrote[d][r], balances'[r] = balances[r],
         \A e \in Calls \ {d} : wrote'[e][r] = NoRow
  PROVE  RowHeld(d, r)'
<1>1. PICK a \in AccountsOf(LegsOf(d)) \cap OpenAccounts :
        r = RowOf(d, a) /\ wrote[d][r] = Upserted(d, a)
  BY DEF RowHeld
<1>2. LegsOf(d)' = LegsOf(d) /\ RowOf(d, a)' = RowOf(d, a)
  BY SteadyLegs
<1>3. DeltasOf(d)' = DeltasOf(d)
  BY <1>2 DEF DeltasOf
<1>4. Upserted(d, a)' = Upserted(d, a)
  BY <1>1, <1>2, <1>3 DEF Upserted
<1> QED
  BY <1>1, <1>2, <1>4 DEF RowHeld

(* The row a call locks was nobody's.                                      *)
LEMMA UpsertHolds ==
  ASSUME Inv, RowsAreHeld, NEW c \in Calls, Upsert(c)
  PROVE  RowsAreHeld'
<1>a. PICK next : next = NextAccount(c)
  OBVIOUS
<1>b. PICK row : row = RowOf(c, next)
  OBVIOUS
<1>1. pc[c] = "upserting" /\ UNCHANGED <<callVars, bookVars>>
  BY DEF Upsert, At
<1>2. next \in AccountsLeft(c) /\ next \in OpenAccounts /\ next \in AccountsOf(LegsOf(c))
  BY <1>a, MinIsMember, OpenAccountsAssumption DEF Upsert, NextAccount, AccountsLeft
<1>3. row \in Rows
  BY <1>2, <1>b, RowShape DEF Inv
<1>4. \A d \in Calls \ {c} : wrote[d][row] = NoRow
  BY <1>a, <1>b DEF Upsert, RowRivals
<1>5. /\ wrote'[c][row] = Upserted(c, next)
      /\ \A d \in Calls, r \in Rows : d # c \/ r # row => wrote'[d][r] = wrote[d][r]
  BY <1>a, <1>b, <1>3 DEF Upsert, Inv, TypeOK
<1>6. RowHeld(c, row)'
  <2>1. LegsOf(c)' = LegsOf(c) /\ RowOf(c, next)' = RowOf(c, next)
    BY <1>1, SteadyLegs DEF callVars, bookVars
  <2>2. DeltasOf(c)' = DeltasOf(c)
    BY <1>1, <2>1 DEF DeltasOf, callVars
  <2>3. Upserted(c, next)' = Upserted(c, next)
    BY <1>1, <2>1, <2>2 DEF Upserted, bookVars
  <2>4. \A d \in Calls \ {c} : wrote'[d][row] = NoRow
    BY <1>3, <1>4, <1>5
  <2> QED
    BY <1>1, <1>2, <1>5, <1>b, <2>1, <2>3, <2>4 DEF RowHeld, callVars
<1>7. ASSUME NEW d \in Calls, NEW r \in Rows, wrote'[d][r] # NoRow, d # c \/ r # row
      PROVE  RowHeld(d, r)'
  <2>1. wrote[d][r] # NoRow /\ RowHeld(d, r)
    BY <1>5, <1>7 DEF RowsAreHeld
  <2>2. \A e \in Calls \ {d} : wrote'[e][r] = NoRow
    <3>1. r # row
      BY <1>4, <1>7, <2>1
    <3> QED
      BY <1>5, <2>1, <3>1 DEF RowHeld
  <2> QED
    BY <1>1, <1>5, <1>7, <2>1, <2>2, HeldStays DEF callVars, bookVars
<1> QED
  BY <1>6, <1>7 DEF RowsAreHeld

(* Every step keeps the held rows at the committed counters plus a delta.  *)
LEMMA RowsAreHeldStep ==
  ASSUME Inv, RowsAreHeld, [Next]_vars
  PROVE  RowsAreHeld'
<1> USE DEF At, Goto, callVars, openVars, bookVars
<1>0. \A d \in Calls : snap[d] \subseteq txns /\ (d \in txns => pc[d] \in {"answering", "done"})
  BY DEF Inv, Holdings
<1>1. ASSUME NEW c \in Calls, Begin(c) PROVE RowsAreHeld'
  <2>1. /\ \A d \in Calls \ {c} : req'[d] = req[d] /\ snap'[d] = snap[d] /\ pc'[d] = pc[d]
        /\ c \notin txns
    BY <1>1, BeginKeepsRequests
  <2>2. /\ wrote' = wrote /\ entries' = entries /\ balances' = balances /\ pc[c] = "idle"
        /\ \A d \in Calls \ {c} : affinity'[d] = affinity[d]
    BY <1>1 DEF Begin, Inv, TypeOK
  <2> SUFFICES ASSUME NEW d \in Calls, NEW r \in Rows, wrote'[d][r] # NoRow
               PROVE  RowHeld(d, r)'
    BY DEF RowsAreHeld
  <2>3. RowHeld(d, r) /\ d # c
    BY <2>2 DEF RowsAreHeld, RowHeld
  <2>4. \A t \in snap[d] : req'[t] = req[t] /\ entries'[t] = entries[t]
    BY <1>0, <2>1, <2>2 DEF Inv, TypeOK
  <2>5. \A e \in Calls \ {d} : wrote'[e][r] = NoRow
    BY <2>2, <2>3 DEF RowHeld
  <2> QED
    BY <2>1, <2>2, <2>3, <2>4, <2>5, HeldStays
<1>2. ASSUME NEW c \in Calls, pc[c] # "upserting",
             UNCHANGED <<wrote, req, affinity, snap, entries, balances>>,
             \A d \in Calls \ {c} : pc'[d] = pc[d]
      PROVE  RowsAreHeld'
  <2> SUFFICES ASSUME NEW d \in Calls, NEW r \in Rows, wrote'[d][r] # NoRow
               PROVE  RowHeld(d, r)'
    BY DEF RowsAreHeld
  <2>1. RowHeld(d, r) /\ d # c
    BY <1>2 DEF RowsAreHeld, RowHeld
  <2>2. \A e \in Calls \ {d} : wrote'[e][r] = NoRow
    BY <1>2, <2>1 DEF RowHeld
  <2> QED
    BY <1>2, <2>1, <2>2, HeldStays
<1>3. ASSUME NEW c \in Calls,
             Claim(c) \/ FindKeyHeld(c) \/ Insert(c) \/ WithholdInsert(c) \/ Answer(c)
      PROVE  RowsAreHeld'
  BY <1>2, <1>3 DEF Claim, FindKeyHeld, Insert, WithholdInsert, Answer, Inv, TypeOK
<1>4. ASSUME NEW c \in Calls, EndTransaction(c), UNCHANGED <<req, affinity>>,
             \A d \in Calls \ {c} : pc'[d] = pc[d],
             \A t \in txns : entries'[t] = entries[t],
             \A r \in Rows : wrote[c][r] = NoRow => balances'[r] = balances[r],
             \A d \in Calls \ {c}, r \in Rows : wrote[d][r] # NoRow => balances'[r] = balances[r]
      PROVE  RowsAreHeld'
  <2>1. /\ \A r \in Rows : wrote'[c][r] = NoRow
        /\ \A d \in Calls \ {c} : wrote'[d] = wrote[d] /\ snap'[d] = snap[d]
    BY <1>4 DEF EndTransaction, Inv, TypeOK
  <2> SUFFICES ASSUME NEW d \in Calls, NEW r \in Rows, wrote'[d][r] # NoRow
               PROVE  RowHeld(d, r)'
    BY DEF RowsAreHeld
  <2>2. d # c /\ wrote[d][r] # NoRow /\ RowHeld(d, r)
    BY <2>1 DEF RowsAreHeld
  <2>3. \A e \in Calls \ {d} : wrote'[e][r] = NoRow
    BY <2>1, <2>2 DEF RowHeld
  <2>4. \A t \in snap[d] : req'[t] = req[t] /\ entries'[t] = entries[t]
    BY <1>0, <1>4
  <2>5. balances'[r] = balances[r]
    BY <1>4, <2>2
  <2>6. /\ pc'[d] = pc[d] /\ wrote'[d][r] = wrote[d][r] /\ snap'[d] = snap[d]
        /\ req'[d] = req[d] /\ affinity'[d] = affinity[d]
    BY <1>4, <2>1, <2>2
  <2> QED
    BY <2>2, <2>3, <2>4, <2>5, <2>6, HeldStays
<1>5. ASSUME NEW c \in Calls,
             \/ LoseSupersessionRace(c) \/ RefuseSupersession(c) \/ RefuseUnknownAccount(c)
             \/ ReplayOrRefuse(c) \/ Fail(c)
      PROVE  RowsAreHeld'
  BY <1>4, <1>5
     DEF LoseSupersessionRace, RefuseSupersession, RefuseUnknownAccount, ReplayOrRefuse, Fail,
         Rollback, Inv, TypeOK
<1>6. ASSUME NEW c \in Calls, Commit(c) PROVE RowsAreHeld'
  <2>1. c \notin txns
    BY <1>0, <1>6 DEF Commit, Appended
  <2>2. \A r \in Rows : wrote[c][r] = NoRow => balances'[r] = balances[r]
    BY <1>6 DEF Commit
  <2>3. \A d \in Calls \ {c}, r \in Rows : wrote[d][r] # NoRow => wrote[c][r] = NoRow
    BY DEF RowsAreHeld, RowHeld
  <2>4. /\ EndTransaction(c) /\ UNCHANGED <<req, affinity>>
        /\ \A d \in Calls \ {c} : pc'[d] = pc[d]
        /\ \A t \in txns : entries'[t] = entries[t]
    BY <1>6, <2>1 DEF Commit, Inv, TypeOK
  <2> QED
    BY <1>4, <2>2, <2>3, <2>4
<1>7. ASSUME NEW c \in Calls, Upsert(c) PROVE RowsAreHeld'
  BY <1>7, UpsertHolds
<1>8. CASE UNCHANGED vars
  <2> SUFFICES ASSUME NEW d \in Calls, NEW r \in Rows, wrote'[d][r] # NoRow
               PROVE  RowHeld(d, r)'
    BY DEF RowsAreHeld
  <2>1. RowHeld(d, r)
    BY <1>8 DEF RowsAreHeld, vars
  <2>2. \A e \in Calls \ {d} : wrote'[e][r] = NoRow
    BY <1>8, <2>1 DEF RowHeld, vars
  <2> QED
    BY <1>8, <2>1, <2>2, HeldStays DEF vars
<1> QED
  BY <1>1, <1>3, <1>5, <1>6, <1>7, <1>8 DEF Next, Step, AllDone

(* The legs a call lands on a row, named as its entries will be.           *)
Landing(c, r) == {e \in {c} \X DOMAIN LegsOf(c) : RowOf(c, LegsOf(c)[e[2]].account) = r}

(* A call that commits has written every row it has legs for, and no other.*)
LEMMA RowsOfACommit ==
  ASSUME Inv, RowsAreHeld, NEW c \in Calls, Commit(c), NEW r \in Rows
  PROVE  \/ /\ wrote[c][r] = NoRow
            /\ Landing(c, r) = {}
         \/ /\ wrote[c][r] # NoRow
            /\ \E a \in OpenAccounts :
                 /\ a \in AccountsOf(LegsOf(c)) /\ r = RowOf(c, a)
                 /\ wrote[c][r] = Upserted(c, a)
                 /\ Landing(c, r) = {<<c, i>> : i \in LegsOn(LegsOf(c), a)}
<1> DEFINE legs == LegsOf(c)
<1>1. AccountsOf(legs) \subseteq OpenAccounts /\ AccountsLeft(c) = {}
  BY DEF Commit, Appended, UnknownAccounts
<1>2. \A a \in AccountsOf(legs) : RowOf(c, a) \in Rows /\ RowOf(c, a)[1] = a
                                  /\ wrote[c][RowOf(c, a)] # NoRow
  BY <1>1, RowShape DEF AccountsLeft, Inv
<1>3. \A i \in DOMAIN legs : legs[i].account \in AccountsOf(legs)
  BY DEF AccountsOf
<1> HIDE DEF legs
<1>4. CASE wrote[c][r] = NoRow
  <2>1. Landing(c, r) = {}
    BY <1>2, <1>3, <1>4 DEF Landing, legs
  <2> QED
    BY <1>4, <2>1
<1>5. CASE wrote[c][r] # NoRow
  <2>1. PICK a \in AccountsOf(legs) \cap OpenAccounts :
          r = RowOf(c, a) /\ wrote[c][r] = Upserted(c, a)
    BY <1>5 DEF RowsAreHeld, RowHeld, legs
  <2>2. \A i \in DOMAIN legs : RowOf(c, legs[i].account) = r <=> legs[i].account = a
    BY <1>2, <1>3, <2>1
  <2>3. Landing(c, r) = {<<c, i>> : i \in LegsOn(legs, a)}
    BY <2>2 DEF Landing, LegsOn, legs
  <2> QED
    BY <1>5, <2>1, <2>3 DEF legs
<1> QED
  BY <1>4, <1>5

(* On each row, a commit appends its legs to the entries of the row.       *)
LEMMA EntriesOfACommit ==
  ASSUME Inv, NEW c \in Calls, Commit(c), NEW r \in Rows
  PROVE  /\ EntriesOn(r)' = EntriesOn(r) \cup Landing(c, r)
         /\ EntriesOn(r) \cap Landing(c, r) = {}
         /\ \A e \in EntriesOn(r) : e[1] \in txns /\ e[1] # c
                                    /\ entries'[e[1]] = entries[e[1]] /\ req'[e[1]] = req[e[1]]
         /\ entries'[c] = EntriesOf(c) /\ req'[c] = req[c]
<1>1. /\ c \notin txns /\ txns' = txns \cup {c} /\ req' = req
      /\ entries'[c] = EntriesOf(c)
      /\ \A d \in txns : entries'[d] = entries[d]
  BY DEF Commit, Appended, At, Inv, TypeOK, Holdings
<1>2. \A e \in EntriesOn(r) : e[1] \in txns
  BY DEF EntriesOn
<1>3. \A e : e \in Landing(c, r) => e[1] = c
  BY DEF Landing
<1>4. DOMAIN EntriesOf(c) = DOMAIN LegsOf(c)
      /\ \A i \in DOMAIN LegsOf(c) :
           <<EntriesOf(c)[i].account, EntriesOf(c)[i].stripe>> = RowOf(c, LegsOf(c)[i].account)
  BY DEF EntriesOf, RowOf
<1>5. ASSUME NEW d \in txns', NEW i \in DOMAIN entries'[d]
      PROVE  <<d, i>> \in EntriesOn(r)' <=> <<d, i>> \in EntriesOn(r) \/ <<d, i>> \in Landing(c, r)
  <2>1. CASE d = c
    BY <1>1, <1>2, <1>4, <1>5, <2>1 DEF EntriesOn, Landing
  <2>2. CASE d # c
    BY <1>1, <1>3, <1>5, <2>2 DEF EntriesOn
  <2> QED
    BY <2>1, <2>2
<1>6. \A e \in EntriesOn(r)' : \E d \in txns' : \E i \in DOMAIN entries'[d] : e = <<d, i>>
  BY DEF EntriesOn
<1>7. \A e \in EntriesOn(r) : \E d \in txns' : \E i \in DOMAIN entries'[d] : e = <<d, i>>
  BY <1>1 DEF EntriesOn
<1>8. \A e \in Landing(c, r) : \E d \in txns' : \E i \in DOMAIN entries'[d] : e = <<d, i>>
  BY <1>1, <1>4 DEF Landing
<1>9. EntriesOn(r)' = EntriesOn(r) \cup Landing(c, r)
  BY <1>5, <1>6, <1>7, <1>8
<1> QED
  BY <1>1, <1>2, <1>3, <1>9

(* A commit leaves each row's numbers without gap or repeat.               *)
LEMMA CommitNumbers ==
  ASSUME Inv, RowsAreHeld, NEW c \in Calls, Commit(c), NEW r \in Rows,
         IsFiniteSet(EntriesOn(r)),
         {entries[e[1]][e[2]].seq : e \in EntriesOn(r)} = 1..balances[r].seq,
         Cardinality(EntriesOn(r)) = balances[r].seq
  PROVE  /\ IsFiniteSet(EntriesOn(r)')
         /\ {entries'[e[1]][e[2]].seq : e \in EntriesOn(r)'} = 1..balances'[r].seq
         /\ Cardinality(EntriesOn(r)') = balances'[r].seq
<1> DEFINE E == EntriesOn(r)
           N == Landing(c, r)
           legs == LegsOf(c)
<1>1. /\ EntriesOn(r)' = E \cup N /\ E \cap N = {}
      /\ \A e \in E : entries'[e[1]] = entries[e[1]]
      /\ entries'[c] = EntriesOf(c)
  BY EntriesOfACommit
<1>2. CASE wrote[c][r] = NoRow
  <2>1. N = {} /\ balances'[r] = balances[r]
    BY <1>2, RowsOfACommit DEF Commit
  <2> HIDE DEF N, E
  <2>2. EntriesOn(r)' = E
    BY <1>1, <2>1
  <2>3. {entries'[e[1]][e[2]].seq : e \in E} = {entries[e[1]][e[2]].seq : e \in E}
    BY <1>1
  <2> QED
    BY <2>1, <2>2, <2>3 DEF E
<1>3. CASE wrote[c][r] # NoRow
  <2>1. PICK a \in OpenAccounts :
          /\ a \in AccountsOf(legs) /\ wrote[c][r] = Upserted(c, a)
          /\ N = {<<c, i>> : i \in LegsOn(legs, a)}
    BY <1>3, RowsOfACommit
  <2>2. req[c] \in Requests /\ legs \in Seq(Leg) /\ balances[r].seq \in Nat
    BY LegsShape DEF Commit, Appended, At, Inv, Holdings, TypeOK, IsRow
  <2> DEFINE on == LegsOn(legs, a)
             last == balances[r].seq
             n == Cardinality(on)
             seq == [e \in E \cup N |-> entries'[e[1]][e[2]].seq]
             b == [i \in on |-> <<c, i>>]
  <2>3. IsFiniteSet(on) /\ n \in Nat /\ on \in SUBSET (1..Len(legs)) /\ on \subseteq DOMAIN legs
        /\ DOMAIN legs = 1..Len(legs) /\ Len(legs) \in Nat
    BY <2>2, LegsOnIsFinite, LenProperties
  <2>4. IsFiniteSet(N) /\ Cardinality(N) = n
    <3>1. b \in Bijection(on, N)
      BY <2>1 DEF Bijection, Injection, IsInjective, Surjection
    <3>2. ExistsBijection(on, N)
      BY <3>1 DEF ExistsBijection
    <3> HIDE DEF on, N
    <3> QED
      BY <2>3, <3>2, FS_Bijection
  <2>5. \A i \in on : legs[i].account = a /\ RowOf(c, a) = r /\ <<c, i>> \in N
    <3>1. \A e \in N : RowOf(c, legs[e[2]].account) = r
      BY DEF Landing
    <3>2. \A i \in on : legs[i].account = a /\ <<c, i>> \in N
      BY <2>1 DEF LegsOn
    <3> HIDE DEF N, on
    <3> QED
      BY <3>1, <3>2
  <2>6. on # {}
    BY <2>1 DEF AccountsOf, LegsOn
  <2>7. RowOf(c, a) = r
    BY <2>5, <2>6
  <2>8. wrote[c][r].seq = last + n
    <3>1. DeltasOf(c)[a].legs = n
      BY <2>1, <2>2, PlannedLegCounts DEF DeltasOf
    <3> QED
      BY <2>1, <2>7, <3>1 DEF Upserted
  <2>9. \A i \in on : entries'[c][i].seq = last + n - OffsetBack(legs, i)
    <3> SUFFICES ASSUME NEW i \in on PROVE entries'[c][i].seq = last + n - OffsetBack(legs, i)
      OBVIOUS
    <3>1. PICK at : at = OffsetBack(legs, i)
      OBVIOUS
    <3>2. EntriesOf(c)[i].seq = wrote[c][RowOf(c, legs[i].account)].seq - at
      BY <2>3, <3>1 DEF EntriesOf
    <3>3. legs[i].account = a /\ RowOf(c, a) = r
      BY <2>5
    <3> HIDE DEF on, n, legs, last
    <3>4. entries'[c][i].seq = wrote[c][r].seq - at
      BY <1>1, <3>2, <3>3
    <3>5. last \in Nat /\ n \in Nat /\ at \in Nat
      BY <2>2, <2>3, <3>1, OffsetsFall DEF last, on
    <3> QED
      BY <2>8, <3>1, <3>4, <3>5
  <2>10. \A i \in on : /\ OffsetBack(legs, i) \in 0..(n - 1)
                       /\ \A j \in on : j > i => OffsetBack(legs, j) < OffsetBack(legs, i)
    <3> SUFFICES ASSUME NEW i \in on
                 PROVE  /\ OffsetBack(legs, i) \in 0..(n - 1)
                        /\ \A j \in on : j > i => OffsetBack(legs, j) < OffsetBack(legs, i)
      OBVIOUS
    <3>1. i \in DOMAIN legs /\ LegsOn(legs, legs[i].account) = on
      BY <2>3, <2>5
    <3>2. /\ OffsetBack(legs, i) \in Nat
          /\ OffsetBack(legs, i) < n
          /\ \A j \in on : j > i => OffsetBack(legs, j) < OffsetBack(legs, i)
      BY <2>2, <3>1, OffsetsFall
    <3> HIDE DEF n, on
    <3> QED
      BY <2>3, <3>2
  <2>11. \A i \in on : seq[<<c, i>>] = last + n - OffsetBack(legs, i)
    BY <2>5, <2>9
  <2>12. \A e \in E : seq[e] = entries[e[1]][e[2]].seq
    BY <1>1
  <2> HIDE DEF seq, n, on, last
  <2>13. \A x \in N : seq[x] \in (last + 1)..(last + n)
    <3> SUFFICES ASSUME NEW i \in on PROVE seq[<<c, i>>] \in (last + 1)..(last + n)
      BY <2>1 DEF on
    <3>1. OffsetBack(legs, i) \in 0..(n - 1) /\ last \in Nat /\ n \in Nat
      BY <2>2, <2>3, <2>10 DEF last
    <3> QED
      BY <2>11, <3>1
  <2>14. \A i, j \in on : i < j => seq[<<c, i>>] # seq[<<c, j>>]
    <3> SUFFICES ASSUME NEW i \in on, NEW j \in on, i < j PROVE seq[<<c, i>>] # seq[<<c, j>>]
      OBVIOUS
    <3>1. /\ OffsetBack(legs, i) \in 0..(n - 1) /\ OffsetBack(legs, j) \in 0..(n - 1)
          /\ OffsetBack(legs, j) < OffsetBack(legs, i)
          /\ last \in Nat /\ n \in Nat
      BY <2>2, <2>3, <2>10 DEF last
    <3> QED
      BY <2>11, <3>1
  <2>15. \A x, y \in N : seq[x] = seq[y] => x = y
    <3> SUFFICES ASSUME NEW i \in on, NEW j \in on, seq[<<c, i>>] = seq[<<c, j>>]
                 PROVE  <<c, i>> = <<c, j>>
      BY <2>1 DEF on
    <3>1. i \in Nat /\ j \in Nat
      BY <2>3 DEF on
    <3>2. ~(i < j) /\ ~(j < i)
      BY <2>14
    <3> QED
      BY <3>1, <3>2
  <2>16. last \in Nat /\ n \in Nat /\ Numbered(E, seq, last)
    BY <2>2, <2>3, <2>12 DEF last, Numbered
  <2>17. Appends(N, seq, last, n)
    BY <2>4, <2>13, <2>15 DEF Appends
  <2> HIDE DEF E, N
  <2>20. Numbered(E \cup N, seq, last + n)
    BY <1>1, <2>16, <2>17, NumberingGrows
  <2>18. {entries'[e[1]][e[2]].seq : e \in E \cup N} = 1..(last + n)
    <3>1. \A e \in E \cup N : entries'[e[1]][e[2]].seq = seq[e]
      BY DEF seq
    <3>2. \A e \in E \cup N : seq[e] \in 1..(last + n)
      BY <2>20 DEF Numbered
    <3>3. \A k \in 1..(last + n) : \E e \in E \cup N : seq[e] = k
      BY <2>20 DEF Numbered
    <3> QED
      BY <3>1, <3>2, <3>3
  <2>19. balances'[r].seq = last + n
    BY <1>3, <2>8 DEF Commit
  <2> QED
    BY <1>1, <2>20, <2>18, <2>19 DEF Numbered
<1> QED
  BY <1>2, <1>3

(* Which side of a balance row a direction moves.                          *)
Moved(row, direction) == IF direction = "debit" THEN row.input ELSE row.output

(* A row moves by the sides of the legs of a posted transaction, and not   *)
(* at all for a pending one.                                               *)
LEMMA MovedByUpsert ==
  ASSUME Inv, NEW c \in Calls, req[c] \in Requests, NEW a \in AccountsOf(LegsOf(c)),
         NEW direction \in {"debit", "credit"}
  PROVE  /\ req[c].body.status = "posted" =>
              Moved(Upserted(c, a), direction) =
                Moved(balances[RowOf(c, a)], direction) + SideOf(LegsOf(c), a, direction)
         /\ req[c].body.status # "posted" =>
              Moved(Upserted(c, a), direction) = Moved(balances[RowOf(c, a)], direction) + 0
<1>1. req[c].body.status \in {"posted", "pending"}
  BY RequestShape
<1>2. ASSUME req[c].body.status = "posted"
      PROVE  /\ DeltasOf(c)[a].input = SideOf(LegsOf(c), a, "debit")
             /\ DeltasOf(c)[a].output = SideOf(LegsOf(c), a, "credit")
  BY <1>2 DEF DeltasOf, PlannedDeltas, Coalesce
<1>3. ASSUME req[c].body.status = "pending"
      PROVE  DeltasOf(c)[a].input = 0 /\ DeltasOf(c)[a].output = 0
  BY <1>3 DEF DeltasOf, PlannedDeltas, Withheld, Coalesce
<1>4. /\ Upserted(c, a).input = balances[RowOf(c, a)].input + DeltasOf(c)[a].input
      /\ Upserted(c, a).output = balances[RowOf(c, a)].output + DeltasOf(c)[a].output
  BY DEF Upserted
<1>5. CASE direction = "debit"
  BY <1>1, <1>2, <1>3, <1>4, <1>5 DEF Moved
<1>6. CASE direction = "credit"
  BY <1>1, <1>2, <1>3, <1>4, <1>6 DEF Moved
<1> QED
  BY <1>5, <1>6

(* What a commit adds to the posted entries of a row is what it adds to    *)
(* the row.                                                                *)
LEMMA CommitSums ==
  ASSUME Inv, RowsAreHeld, NEW c \in Calls, Commit(c), NEW r \in Rows,
         IsFiniteSet(EntriesOn(r)),
         NEW direction \in {"debit", "credit"},
         Moved(balances[r], direction) = PostedSum(r, direction)
  PROVE  Moved(balances'[r], direction) = PostedSum(r, direction)'
<1> DEFINE E == EntriesOn(r)
           N == Landing(c, r)
           legs == LegsOf(c)
           f == [e \in E |-> entries[e[1]][e[2]].amount]
           g == [e \in E \cup N |-> entries'[e[1]][e[2]].amount]
           P == {e \in E : /\ entries[e[1]][e[2]].direction = direction
                           /\ req[e[1]].body.status = "posted"}
           Q == {e \in N : /\ entries'[e[1]][e[2]].direction = direction
                           /\ req'[e[1]].body.status = "posted"}
<1>1. /\ EntriesOn(r)' = E \cup N /\ E \cap N = {}
      /\ \A e \in E : entries'[e[1]] = entries[e[1]] /\ req'[e[1]] = req[e[1]]
      /\ entries'[c] = EntriesOf(c) /\ req'[c] = req[c]
      /\ \A e \in E : e[1] \in txns
  BY EntriesOfACommit
<1>2. PostedSum(r, direction) = SumFunctionOnSet(f, P)
  BY DEF PostedSum
<1>3. PostedSum(r, direction)' = SumFunctionOnSet(g, P \cup Q)
  <2>1. PostedSum(r, direction)' =
          SumFunctionOnSet(g, {e \in E \cup N : /\ entries'[e[1]][e[2]].direction = direction
                                                /\ req'[e[1]].body.status = "posted"})
    BY <1>1 DEF PostedSum
  <2>2. {e \in E \cup N : /\ entries'[e[1]][e[2]].direction = direction
                          /\ req'[e[1]].body.status = "posted"} = P \cup Q
    BY <1>1
  <2> QED
    BY <2>1, <2>2
<1>4. /\ IsFiniteSet(P) /\ P \cap Q = {}
      /\ \A e \in P : f[e] \in Int /\ g[e] = f[e]
  <2>1. IsFiniteSet(P)
    BY FS_Subset
  <2>2. \A e \in E : f[e] \in Int
    <3> SUFFICES ASSUME NEW e \in E PROVE entries[e[1]][e[2]].amount \in Int
      OBVIOUS
    <3>1. e[1] \in Calls /\ e[2] \in DOMAIN entries[e[1]]
      BY DEF EntriesOn, Inv, TypeOK
    <3>2. entries[e[1]] \in Seq(Entries)
      BY <3>1 DEF Inv, TypeOK
    <3>3. entries[e[1]][e[2]] \in Entries
      BY <3>1, <3>2, ElementOfSeq, LenProperties
    <3> QED
      BY <3>3 DEF Entries
  <2> QED
    BY <1>1, <2>1, <2>2
<1>5. CASE wrote[c][r] = NoRow
  <2>1. Q = {} /\ balances'[r] = balances[r]
    BY <1>5, RowsOfACommit DEF Commit
  <2> HIDE DEF E, N, P, Q, f, g
  <2>2. SumFunctionOnSet(g, P) = SumFunctionOnSet(f, P)
    BY <1>4, SumSame
  <2> QED
    BY <1>2, <1>3, <2>1, <2>2
<1>6. CASE wrote[c][r] # NoRow
  <2>1. PICK a \in OpenAccounts :
          /\ a \in AccountsOf(legs) /\ r = RowOf(c, a)
          /\ wrote[c][r] = Upserted(c, a)
          /\ N = {<<c, i>> : i \in LegsOn(legs, a)}
    BY <1>6, RowsOfACommit
  <2>2. req[c] \in Requests /\ legs \in Seq(Leg)
    BY LegsShape DEF Commit, Appended, At, Inv, Holdings
  <2>3. balances'[r] = Upserted(c, a)
    BY <1>6, <2>1 DEF Commit
  <2>4. \A i \in LegsOn(legs, a) : /\ entries'[c][i].direction = legs[i].direction
                                   /\ entries'[c][i].amount = legs[i].amount
    BY <1>1 DEF EntriesOf, LegsOn
  <2>5. Moved(balances[r], direction) \in Int
    <3>1. IsFiniteSet(P) /\ \A e \in P : f[e] \in Int
      BY <1>4
    <3> HIDE DEF P, f
    <3> QED
      BY <1>2, <3>1, SumRemove
  <2>6. CASE req[c].body.status = "posted"
    <3>1. Q = SideNames(c, legs, a, direction)
      BY <1>1, <2>1, <2>4, <2>6 DEF SideNames
    <3>2. \A i \in LegsOn(legs, a) : g[<<c, i>>] = legs[i].amount
      BY <2>1, <2>4
    <3> HIDE DEF Q, g
    <3>3. IsFiniteSet(Q) /\ SumFunctionOnSet(g, Q) = SideOf(legs, a, direction)
      BY <2>2, <3>1, <3>2, SideRenamed
    <3>4. \A e \in Q : g[e] \in Int
      <4>1. \A i \in LegsOn(legs, a) : g[<<c, i>>] \in Int
        BY <2>2, <3>2, LegTyped DEF LegsOn
      <4> QED
        BY <3>1, <4>1 DEF SideNames
    <3>5. SumFunctionOnSet(g, P \cup Q) = SumFunctionOnSet(f, P) + SumFunctionOnSet(g, Q)
      <4> HIDE DEF P, f
      <4> QED
        BY <1>4, <3>3, <3>4, SumGrows
    <3>6. Moved(balances'[r], direction) =
            Moved(balances[r], direction) + SideOf(legs, a, direction)
      BY <2>1, <2>2, <2>3, <2>6, MovedByUpsert
    <3> HIDE DEF P, f, legs
    <3> QED
      BY <1>2, <1>3, <3>3, <3>5, <3>6
  <2>7. CASE req[c].body.status # "posted"
    <3>1. Q = {}
      BY <1>1, <2>1, <2>7
    <3>2. Moved(balances'[r], direction) = Moved(balances[r], direction) + 0
      BY <2>1, <2>2, <2>3, <2>7, MovedByUpsert
    <3> HIDE DEF P, Q, f, g
    <3>3. SumFunctionOnSet(g, P) = SumFunctionOnSet(f, P)
      BY <1>4, SumSame
    <3>4. PostedSum(r, direction)' = PostedSum(r, direction)
      BY <1>2, <1>3, <3>1, <3>3
    <3> QED
      BY <2>5, <3>2, <3>4
  <2> QED
    BY <2>6, <2>7
<1> QED
  BY <1>5, <1>6

(* What a commit appends is balanced: over the accounts, the legs of a     *)
(* posting come to nothing, and so do the mirrored ones.                   *)
LEMMA CommitCancels ==
  ASSUME Inv, ReversalCancels, NEW c \in Calls, Commit(c)
  PROVE  ReversalCancels'
<1> DEFINE Net(d) == [a \in OpenAccounts |-> NetIn(entries[d], a)]
           net == [a \in OpenAccounts |-> NetIn(entries'[c], a)]
           legs == LegsOf(c)
<1>1. /\ c \notin txns /\ txns' = txns \cup {c} /\ req' = req
      /\ entries'[c] = EntriesOf(c)
      /\ \A d \in txns : entries'[d] = entries[d]
      /\ c \in inserted /\ pc[c] = "upserting"
  BY DEF Commit, Appended, At, Inv, TypeOK, Holdings
<1>2. req[c] \in Requests /\ legs \in Seq(Leg) /\ IsFiniteSet(OpenAccounts)
      /\ AccountsOf(legs) \subseteq OpenAccounts
  BY LegsShape, OpenAccountsAssumption
     DEF Commit, Appended, At, UnknownAccounts, Inv, Holdings
<1>3. \A d \in txns : /\ SumFunctionOnSet(Net(d), OpenAccounts) = 0
                      /\ IsReversal(d) => Target(d) \in txns
  <2>1. \A d \in txns : Net(d) = [a \in OpenAccounts |-> NetOf(d, a)]
    BY DEF NetOf, NetIn
  <2>2. \A d \in txns : SumFunction(Net(d)) = 0
    BY <2>1 DEF ReversalCancels
  <2>3. \A d \in txns : SumFunctionOnSet(Net(d), DOMAIN Net(d)) = 0
    <3> HIDE DEF Net
    <3> QED
      BY <2>2, SumOverDomain
  <2> QED
    BY <2>3 DEF Inv, TargetsAreSound, IsSuperseding
<1>4. /\ DOMAIN entries'[c] = DOMAIN legs
      /\ \A a \in OpenAccounts :
           /\ SideOf(entries'[c], a, "debit") = SideOf(legs, a, "debit")
           /\ SideOf(entries'[c], a, "credit") = SideOf(legs, a, "credit")
           /\ SideOf(legs, a, "debit") \in Int /\ SideOf(legs, a, "credit") \in Int
  <2>1. /\ DOMAIN entries'[c] = DOMAIN legs
        /\ \A i \in DOMAIN legs : /\ entries'[c][i].account = legs[i].account
                                  /\ entries'[c][i].direction = legs[i].direction
                                  /\ entries'[c][i].amount = legs[i].amount
    BY <1>1 DEF EntriesOf
  <2> HIDE DEF legs
  <2>2. \A a \in OpenAccounts :
          /\ SideOf(entries'[c], a, "debit") = SideOf(legs, a, "debit")
          /\ SideOf(entries'[c], a, "credit") = SideOf(legs, a, "credit")
    BY <2>1, EqualSides
  <2>3. \A a \in OpenAccounts :
          SideOf(legs, a, "debit") \in Int /\ SideOf(legs, a, "credit") \in Int
    BY <1>2, SideIsNat
  <2> QED
    BY <2>1, <2>2, <2>3
<1>5. SumFunctionOnSet(net, OpenAccounts) = 0
      /\ (IsReversal(c) => IF req[Target(c)].body.status = "posted"
                             THEN \A a \in OpenAccounts : net[a] = - NetIn(entries[Target(c)], a)
                             ELSE entries'[c] = <<>>)
  <2>1. CASE ~IsReversal(c)
    <3>1. legs = ExpandPostings(req[c].body.postings) /\ req[c].body.postings \in PostingLists
      BY <1>2, <2>1, RequestShape DEF LegsOf
    <3>2. net = [a \in OpenAccounts |-> NetIn(legs, a)]
      BY <1>4 DEF NetIn
    <3> HIDE DEF net, legs
    <3>3. SumFunctionOnSet([a \in OpenAccounts |-> NetIn(legs, a)], OpenAccounts) = 0
      BY <1>2, <3>1, ExpansionBalances
    <3> QED
      BY <2>1, <3>2, <3>3
  <2>2. CASE IsReversal(c)
    <3> DEFINE t == Target(c)
    <3>1. t \in snap[c] /\ t \in txns /\ t # c
      BY <1>1, <2>2, IdsAssumption
         DEF Inv, TypeOK, TargetsAreSound, TargetsAreNamed, Writing, IsSuperseding
    <3>2. legs = MirrorLegs(t)
      BY <2>2, <3>1 DEF LegsOf, TargetSeen
    <3>3. CASE req[t].body.status = "posted"
      <4>1. /\ DOMAIN legs = DOMAIN entries[t]
            /\ \A i \in DOMAIN entries[t] :
                 /\ legs[i].account = entries[t][i].account
                 /\ legs[i].direction = Opposite(entries[t][i].direction)
                 /\ legs[i].amount = entries[t][i].amount
        BY <3>2, <3>3 DEF MirrorLegs
      <4>2. \A i \in DOMAIN entries[t] : entries[t][i].direction \in {"debit", "credit"}
        <5>1. entries[t] \in Seq(Entries)
          BY <3>1 DEF Inv, TypeOK
        <5>2. \A i \in DOMAIN entries[t] : entries[t][i] \in Entries
          BY <5>1, ElementOfSeq, LenProperties
        <5> QED
          BY <5>2 DEF Entries
      <4> HIDE DEF legs, t
      <4>3. \A a \in OpenAccounts :
              /\ SideOf(legs, a, "debit") = SideOf(entries[t], a, "credit")
              /\ SideOf(legs, a, "credit") = SideOf(entries[t], a, "debit")
        BY <4>1, <4>2, MirroredSides
      <4>4. \A a \in OpenAccounts : /\ net[a] = - NetIn(entries[t], a)
                                    /\ net[a] \in Int /\ NetIn(entries[t], a) \in Int
        BY <1>4, <4>3 DEF NetIn
      <4> DEFINE f == Net(t)
                 zero == [a \in OpenAccounts |-> 0]
      <4>5. \A a \in OpenAccounts : f[a] \in Int /\ net[a] \in Int /\ zero[a] = f[a] + net[a]
        BY <4>4
      <4>6. SumFunctionOnSet(f, OpenAccounts) = 0
        BY <1>3, <3>1
      <4>7. \A a \in OpenAccounts : zero[a] = 0
        OBVIOUS
      <4> HIDE DEF f, zero, net
      <4>8. SumFunctionOnSet(zero, OpenAccounts) =
              SumFunctionOnSet(f, OpenAccounts) + SumFunctionOnSet(net, OpenAccounts)
        BY <1>2, <4>5, SumPlus
      <4>9. SumFunctionOnSet(zero, OpenAccounts) = 0
        BY <1>2, <4>7, SumZero
      <4>10. SumFunctionOnSet(net, OpenAccounts) \in Int
        BY <1>2, <4>5, SumRemove
      <4>11. SumFunctionOnSet(net, OpenAccounts) = 0
        BY <4>6, <4>8, <4>9, <4>10
      <4> QED
        BY <3>3, <4>4, <4>11 DEF t
    <3>4. CASE req[t].body.status # "posted"
      <4>1. legs = <<>>
        BY <3>2, <3>4 DEF MirrorLegs
      <4>2. entries'[c] = <<>> /\ DOMAIN entries'[c] = {}
        BY <1>1, <4>1 DEF EntriesOf
      <4>3. \A a \in OpenAccounts : net[a] = 0
        BY <4>2, NoSides DEF NetIn
      <4> HIDE DEF net
      <4>4. SumFunctionOnSet(net, OpenAccounts) = 0
        BY <1>2, <4>3, SumZero
      <4> QED
        BY <3>4, <4>2, <4>4
    <3> QED
      BY <3>3, <3>4
  <2> QED
    BY <2>1, <2>2
<1>6. ASSUME NEW d \in txns'
      PROVE  SumFunction([a \in OpenAccounts |-> NetOf(d, a)'])  = 0
  <2>1. CASE d = c
    <3>1. [a \in OpenAccounts |-> NetOf(d, a)'] = net
      BY <2>1 DEF NetOf, NetIn
    <3>2. DOMAIN net = OpenAccounts
      OBVIOUS
    <3> HIDE DEF net
    <3> QED
      BY <1>5, <3>1, <3>2, SumOverDomain
  <2>2. CASE d \in txns
    <3>1. [a \in OpenAccounts |-> NetOf(d, a)'] = Net(d)
      BY <1>1, <2>2 DEF NetOf, NetIn
    <3>2. DOMAIN Net(d) = OpenAccounts
      OBVIOUS
    <3> HIDE DEF Net
    <3> QED
      BY <1>3, <2>2, <3>1, <3>2, SumOverDomain
  <2> QED
    BY <1>1, <2>1, <2>2
<1>7. ASSUME NEW d \in txns', IsReversal(d)'
      PROVE  /\ req'[Target(d)'].body.status = "posted" =>
                  \A a \in OpenAccounts : NetOf(d, a)' = - NetIn(entries'[Target(d)'], a)
             /\ req'[Target(d)'].body.status # "posted" => entries'[d] = <<>>
  <2>0. IsReversal(d) /\ Target(d)' = Target(d)
    BY <1>1, <1>7 DEF IsReversal, Target, IsResolution
  <2>1. CASE d = c
    <3>1. entries'[Target(d)] = entries[Target(d)]
      BY <1>1, <2>0, <2>1 DEF Inv, TargetsAreSound, IsSuperseding
    <3>2. \A a \in OpenAccounts : NetOf(d, a)' = net[a]
      BY <2>1 DEF NetOf, NetIn
    <3> HIDE DEF net
    <3> QED
      BY <1>1, <1>5, <2>0, <2>1, <3>1, <3>2
  <2>2. CASE d \in txns
    <3>1. Target(d) \in txns /\ entries'[Target(d)] = entries[Target(d)] /\ entries'[d] = entries[d]
      BY <1>1, <1>3, <2>0, <2>2
    <3>2. /\ req[Target(d)].body.status = "posted" =>
               \A a \in OpenAccounts : NetOf(d, a) = - NetOf(Target(d), a)
          /\ req[Target(d)].body.status # "posted" => entries[d] = <<>>
      BY <2>0, <2>2 DEF ReversalCancels
    <3>3. \A a \in OpenAccounts : NetOf(d, a)' = NetOf(d, a)
                                  /\ NetIn(entries'[Target(d)], a) = NetOf(Target(d), a)
      BY <3>1 DEF NetOf, NetIn
    <3> QED
      BY <1>1, <2>0, <3>1, <3>2, <3>3
  <2> QED
    BY <1>1, <2>1, <2>2
<1> QED
  BY <1>6, <1>7 DEF ReversalCancels, NetOf, NetIn

(* TheBookAddsUp counts and sums the entries of a row: they are finitely   *)
(* many.                                                                   *)
Book ==
  /\ \A r \in Rows : IsFiniteSet(EntriesOn(r))
  /\ TheBookAddsUp

(* A step that commits nothing and changes no committed request leaves     *)
(* what the book says as it was.                                           *)
LEMMA BookStays ==
  ASSUME Inv, Book, UNCHANGED <<txns, entries, balances>>,
         \A d \in txns : req'[d] = req[d]
  PROVE  Book'
<1>1. \A r : EntriesOn(r)' = EntriesOn(r)
  BY DEF EntriesOn
<1>2. \A r \in Rows : \A direction : PostedSum(r, direction)' = PostedSum(r, direction)
  <2> SUFFICES ASSUME NEW r \in Rows, NEW direction
               PROVE  PostedSum(r, direction)' = PostedSum(r, direction)
    OBVIOUS
  <2>1. \A e \in EntriesOn(r) : req'[e[1]] = req[e[1]]
    BY DEF EntriesOn
  <2>2. {e \in EntriesOn(r) : /\ entries'[e[1]][e[2]].direction = direction
                              /\ req'[e[1]].body.status = "posted"} =
        {e \in EntriesOn(r) : /\ entries[e[1]][e[2]].direction = direction
                              /\ req[e[1]].body.status = "posted"}
    BY <2>1
  <2> QED
    BY <1>1, <2>2 DEF PostedSum
<1>3. ReversalCancels'
  <2>1. \A d \in txns : IsReversal(d) => Target(d) \in txns
    BY DEF Inv, TargetsAreSound, IsSuperseding
  <2>2. \A d \in txns : IsReversal(d)' = IsReversal(d) /\ Target(d)' = Target(d)
    BY DEF IsReversal, Target, IsResolution
  <2>3. \A d, a : NetOf(d, a)' = NetOf(d, a)
    BY DEF NetOf
  <2> QED
    BY <2>1, <2>2, <2>3 DEF Book, TheBookAddsUp, ReversalCancels
<1>4. CacheMeansPosted'
  BY <1>2 DEF Book, TheBookAddsUp, CacheMeansPosted
<1>5. GaplessSequences'
  BY <1>1 DEF Book, TheBookAddsUp, GaplessSequences
<1> QED
  BY <1>1, <1>3, <1>4, <1>5 DEF Book, TheBookAddsUp

(* Nor does a commit break it.                                             *)
LEMMA BookStep ==
  ASSUME Inv, RowsAreHeld, Book, [Next]_vars
  PROVE  Book'
<1> USE DEF callVars, openVars, bookVars
<1>1. ASSUME NEW c \in Calls, Begin(c) PROVE Book'
  <2>1. \A d \in Calls \ {c} : req'[d] = req[d]
    BY <1>1, BeginKeepsRequests
  <2>2. c \notin txns /\ txns \subseteq Calls
    BY <1>1, BeginKeepsRequests DEF Inv, TypeOK
  <2>3. UNCHANGED <<txns, entries, balances>>
    BY <1>1 DEF Begin
  <2> QED
    BY <2>1, <2>2, <2>3, BookStays
<1>2. ASSUME NEW c \in Calls, Commit(c) PROVE Book'
  <2>1. \A r \in Rows :
          /\ IsFiniteSet(EntriesOn(r)')
          /\ {entries'[e[1]][e[2]].seq : e \in EntriesOn(r)'} = 1..balances'[r].seq
          /\ Cardinality(EntriesOn(r)') = balances'[r].seq
    <3> SUFFICES ASSUME NEW r \in Rows
                 PROVE  /\ IsFiniteSet(EntriesOn(r)')
                        /\ {entries'[e[1]][e[2]].seq : e \in EntriesOn(r)'} = 1..balances'[r].seq
                        /\ Cardinality(EntriesOn(r)') = balances'[r].seq
      OBVIOUS
    <3>1. /\ IsFiniteSet(EntriesOn(r))
          /\ {entries[e[1]][e[2]].seq : e \in EntriesOn(r)} = 1..balances[r].seq
          /\ Cardinality(EntriesOn(r)) = balances[r].seq
      BY DEF Book, TheBookAddsUp, GaplessSequences
    <3> QED
      BY <1>2, <3>1, CommitNumbers
  <2>2. \A r \in Rows : /\ balances'[r].input = PostedSum(r, "debit")'
                        /\ balances'[r].output = PostedSum(r, "credit")'
    <3> SUFFICES ASSUME NEW r \in Rows
                 PROVE  /\ balances'[r].input = PostedSum(r, "debit")'
                        /\ balances'[r].output = PostedSum(r, "credit")'
      OBVIOUS
    <3>1. /\ IsFiniteSet(EntriesOn(r))
          /\ Moved(balances[r], "debit") = PostedSum(r, "debit")
          /\ Moved(balances[r], "credit") = PostedSum(r, "credit")
      BY DEF Book, TheBookAddsUp, CacheMeansPosted, Moved
    <3>2. Moved(balances'[r], "debit") = PostedSum(r, "debit")'
      BY <1>2, <3>1, CommitSums
    <3>3. Moved(balances'[r], "credit") = PostedSum(r, "credit")'
      BY <1>2, <3>1, CommitSums
    <3> QED
      BY <3>2, <3>3 DEF Moved
  <2>3. ReversalCancels'
    BY <1>2, CommitCancels DEF Book, TheBookAddsUp
  <2> QED
    BY <2>1, <2>2, <2>3 DEF Book, TheBookAddsUp, CacheMeansPosted, GaplessSequences
<1>3. ASSUME NEW c \in Calls,
             \/ Claim(c) \/ FindKeyHeld(c) \/ Insert(c) \/ WithholdInsert(c)
             \/ LoseSupersessionRace(c) \/ Upsert(c) \/ RefuseSupersession(c)
             \/ RefuseUnknownAccount(c) \/ ReplayOrRefuse(c) \/ Answer(c) \/ Fail(c)
      PROVE  Book'
  <2>1. UNCHANGED <<txns, entries, balances, req>>
    BY <1>3
       DEF Claim, FindKeyHeld, Insert, WithholdInsert, LoseSupersessionRace, Upsert,
           RefuseSupersession, RefuseUnknownAccount, ReplayOrRefuse, Answer, Fail, Rollback
  <2> QED
    BY <2>1, BookStays
<1>4. CASE UNCHANGED vars
  BY <1>4, BookStays DEF vars
<1> QED
  BY <1>1, <1>2, <1>3, <1>4 DEF Next, Step, AllDone

(* Before the first post there is nothing to add up.                       *)
LEMMA InitBook == Init => Book /\ RowsAreHeld
<1> SUFFICES ASSUME Init PROVE Book /\ RowsAreHeld
  OBVIOUS
<1>1. txns = {} /\ \A r : EntriesOn(r) = {}
  BY DEF Init, EntriesOn
<1>2. \A r \in Rows : balances[r].input = 0 /\ balances[r].output = 0 /\ balances[r].seq = 0
  BY DEF Init, NoRow
<1>3. \A r, direction : PostedSum(r, direction) = 0
  <2> SUFFICES ASSUME NEW r, NEW direction PROVE PostedSum(r, direction) = 0
    OBVIOUS
  <2>1. {e \in EntriesOn(r) : /\ entries[e[1]][e[2]].direction = direction
                              /\ req[e[1]].body.status = "posted"} = {}
    BY <1>1
  <2> QED
    BY <2>1, SumEmpty DEF PostedSum
<1>4. IsFiniteSet({}) /\ Cardinality({}) = 0 /\ 1..0 = {}
  BY FS_EmptySet
<1>5. \A r \in Rows : {entries[e[1]][e[2]].seq : e \in EntriesOn(r)} = 1..balances[r].seq
  BY <1>1, <1>2, <1>4
<1>6. RowsAreHeld
  BY DEF Init, RowsAreHeld
<1> QED
  BY <1>1, <1>2, <1>3, <1>4, <1>5, <1>6
     DEF Book, TheBookAddsUp, CacheMeansPosted, GaplessSequences, ReversalCancels

(* The book adds up after every step of every interleaving: each balance   *)
(* row is the sum of the posted entries of its stripe, the entries of a    *)
(* stripe are numbered 1, 2, ... last_seq, every transaction balances, and *)
(* a reversal takes back, account by account, what it reverses.            *)
THEOREM BookAddsUp == Spec => []TheBookAddsUp
<1>1. Init => Book /\ RowsAreHeld
  BY InitBook
<1>2. Inv /\ Book /\ RowsAreHeld /\ [Next]_vars => (Book /\ RowsAreHeld)'
  BY BookStep, RowsAreHeldStep
<1>3. Book => TheBookAddsUp
  BY DEF Book
<1> QED
  BY <1>1, <1>2, <1>3, Invariance, PTL DEF Spec

-----------------------------------------------------------------------------
(* The write path implements LedgerContract: every reachable step is one   *)
(* step of the contract, or changes nothing the contract sees.  The claim, *)
(* the insert behind the gate and the upserts are invisible; what makes    *)
(* the visible step right is the invariant, which turns what the call's    *)
(* old snapshot said into what is true now.                                *)

StageOf(c) == IF pc[c] \in {"idle", "done"} THEN pc[c] ELSE "open"

(* The request of a call in progress, in the contract's words. *)
LEMMA TargetsAgree ==
  ASSUME Inv, NEW c \in Calls, req[c] \in Requests
  PROVE  /\ IsResolution(c) => /\ Contract!Resolves(c) = Target(c) /\ Contract!Resolves(c) # None
                               /\ Contract!Reverses(c) = None
         /\ IsReversal(c) => /\ Contract!Reverses(c) = Target(c) /\ Contract!Reverses(c) # None
                             /\ Contract!Resolves(c) = None
         /\ ~IsSuperseding(c) => Contract!Resolves(c) = None /\ Contract!Reverses(c) = None
  BY RequestShape DEF Contract!Resolves, Contract!Reverses, IsSuperseding, IsResolution, IsReversal, Target

(* A transaction is superseded in the contract's journal when a committed  *)
(* call supersedes it.                                                     *)
LEMMA SupersededAgrees ==
  ASSUME Inv, NEW t \in Calls
  PROVE  Contract!Superseded(t) <=> \E d \in txns : IsSuperseding(d) /\ Target(d) = t
<1>1. t # None
  BY IdsAssumption
<1>2. ASSUME NEW d \in txns
      PROVE  Contract!Supersedes(d, t) <=> IsSuperseding(d) /\ Target(d) = t
  <2>1. d \in Calls /\ req[d] \in Requests
    BY DEF Inv, TypeOK, Holdings
  <2> QED
    BY <1>1, <2>1, TargetsAgree DEF Contract!Supersedes, IsSuperseding
<1> QED
  BY <1>2 DEF Contract!Superseded

(* A call that holds its claim finds its key free. *)
LEMMA ClaimedKeyIsFree ==
  ASSUME Inv, NEW c \in claims
  PROVE  Contract!KeyFree(c)
<1>1. c \notin txns
  BY DEF Inv, TypeOK, Holdings
<1> QED
  BY <1>1 DEF Inv, KeysAreUnique, NoOrphanedEvent, SameKey, Contract!KeyFree, Contract!HeldBy

(* The accounts a call finds unknown are the ones its request names; a     *)
(* reversal names none and finds none.                                     *)
LEMMA UnknownAgrees ==
  ASSUME Inv, NEW c \in Calls, req[c] \in Requests
  PROVE  UnknownAccounts(c) = {} <=> Contract!AccountsNamed(c) \subseteq OpenAccounts
<1>1. CASE IsReversal(c)
  BY <1>1, LegsShape, RequestShape DEF Inv, IsReversal, Contract!AccountsNamed
<1>2. CASE ~IsReversal(c)
  BY <1>2, LegsShape DEF Inv, UnknownAccounts, Contract!AccountsNamed
<1> QED
  BY <1>1, <1>2

(* What the gate admitted, the contract admits when the call commits: the  *)
(* slot is still free.                                                     *)
LEMMA MayBeSuperseded ==
  ASSUME Inv, NEW c \in Calls, c \in inserted
  PROVE  Contract!TargetMayBeSuperseded(c)
<1>1. req[c] \in Requests /\ c \notin txns
  BY DEF Inv, Holdings
<1>2. CASE ~IsSuperseding(c)
  BY <1>1, <1>2, TargetsAgree DEF Contract!TargetMayBeSuperseded
<1>3. CASE IsSuperseding(c)
  <2>1. Target(c) \in txns /\ Target(c) \in Calls /\ req[Target(c)] \in Requests
    BY <1>3 DEF Inv, TargetsAreSound, TypeOK, Holdings
  <2>2. ~Contract!Superseded(Target(c))
    BY <1>1, <1>3, <2>1, SupersededAgrees DEF Inv, SlotsAreUnique
  <2>3. CASE IsResolution(c)
    BY <1>1, <1>3, <2>1, <2>2, <2>3, TargetsAgree
       DEF Inv, TargetsAreSound, Contract!TargetMayBeSuperseded, Contract!MayResolve
  <2>4. CASE ~IsResolution(c)
    BY <1>1, <1>3, <2>1, <2>2, <2>4, TargetsAgree
       DEF Inv, TargetsAreSound, IsSuperseding, Contract!TargetMayBeSuperseded, Contract!MayReverse
  <2> QED
    BY <2>3, <2>4
<1> QED
  BY <1>2, <1>3

(* A refusal for the target names a reason that is true of the journal.    *)
LEMMA DiagnosisIsTrue ==
  ASSUME Inv, NEW c \in Calls, pc[c] = "upserting", c \notin inserted,
         Decide(c, Diagnosis(c), None)
  PROVE  Contract!TargetRefusal(c)
<1> DEFINE t == Target(c)
<1>1. /\ req[c] \in Requests /\ ~GateAdmits(c) /\ snap[c] \subseteq txns /\ snap[c] \in SUBSET Calls
      /\ IsSuperseding(c) => t \in snap[c] \cup {Nowhere}
  BY DEF Inv, Holdings, Learnt, TargetsAreNamed, Writing, TypeOK
<1>2. IsSuperseding(c)
  BY <1>1 DEF GateAdmits
<1>3. TargetSeen(c) <=> t \in txns
  BY <1>1, <1>2, IdsAssumption DEF TargetSeen, Inv, TypeOK
<1>4. TargetSeen(c) /\ TargetSupersededIn(c, snap[c]) => Contract!Superseded(t)
  <2> HAVE TargetSeen(c) /\ TargetSupersededIn(c, snap[c])
  <2>1. \E d \in txns : IsSuperseding(d) /\ Target(d) = t
    BY <1>1 DEF TargetSupersededIn
  <2>2. t \in Calls
    BY <1>1 DEF TargetSeen
  <2> QED
    BY <2>1, <2>2, SupersededAgrees
<1>5. CASE IsResolution(c)
  BY <1>1, <1>2, <1>3, <1>4, <1>5, TargetsAgree
     DEF GateAdmits, Diagnosis, Decide, Contract!TargetRefusal, Contract!Say
<1>6. CASE ~IsResolution(c)
  <2>1. IsReversal(c) /\ Contract!Reverses(c) = t /\ Contract!Reverses(c) # None
    BY <1>1, <1>2, <1>6, TargetsAgree DEF IsSuperseding
  <2>2. TargetSeen(c) => req[t] \in Requests /\ t \in Calls
    BY <1>1, <1>3 DEF Inv, Holdings, TypeOK, TargetSeen
  <2>3. TargetSeen(c) /\ IsSuperseding(t) => Contract!Resolves(t) # None \/ Contract!Reverses(t) # None
    BY <2>2, TargetsAgree DEF IsSuperseding
  <2> QED
    BY <1>1, <1>2, <1>3, <1>4, <1>6, <2>1, <2>3
       DEF GateAdmits, Diagnosis, Decide, Contract!TargetRefusal, Contract!Say
<1> QED
  BY <1>5, <1>6

-----------------------------------------------------------------------------
LEMMA InitRefines == Init => Contract!Init
  BY DEF Init, Contract!Init, Contract!Undecided

(* A step of one call that the contract does not see. *)
LEMMA Stutters ==
  ASSUME UNCHANGED <<req, txns, verdict>>,
         \A d \in Calls : StageOf(d)' = StageOf(d)
  PROVE  UNCHANGED Contract!vars
  BY DEF StageOf, Contract!vars

LEMMA StepRefines ==
  ASSUME Inv, [Next]_vars
  PROVE  [Contract!Next]_(Contract!vars)
<1> USE DEF At, Goto, callVars, openVars, bookVars
<1> DEFINE Undecided(c) == verdict[c] = Contract!Undecided
<1>0. ASSUME NEW c \in Calls
      PROVE  /\ pc[c] \notin {"answering", "done"} => Undecided(c)
             /\ pc[c] = "answering" => ~Undecided(c)
  BY DEF Inv, Learnt, Contract!Undecided
<1>1. ASSUME NEW c \in Calls, Begin(c) PROVE Contract!Submit(c)
  <2>1. \E r \in Requests : req' = [req EXCEPT ![c] = r]
    BY <1>1, BeginsARequest DEF Inv
  <2> QED
    BY <1>1, <2>1 DEF Begin, Contract!Submit, Inv, TypeOK
<1>2. ASSUME NEW c \in Calls,
             \/ Claim(c) \/ FindKeyHeld(c) \/ Insert(c) \/ WithholdInsert(c) \/ Upsert(c)
      PROVE  UNCHANGED Contract!vars
  BY <1>2, Stutters
     DEF Claim, FindKeyHeld, Insert, WithholdInsert, Upsert, StageOf, Inv, TypeOK
<1>3. ASSUME NEW c \in Calls, LoseSupersessionRace(c) PROVE Contract!RefuseTarget(c)
  <2>1. pc[c] = "inserting" /\ c \in claims /\ req[c] \in Requests
    BY <1>3 DEF LoseSupersessionRace, Inv, Holdings
  <2>2. Target(c) \in txns /\ Target(c) \in Calls
    BY <1>3 DEF LoseSupersessionRace, GateAdmits, TargetSeen, Inv, Holdings, TypeOK
  <2>3. Contract!Superseded(Target(c))
    BY <1>3, <2>2, SupersededAgrees DEF LoseSupersessionRace, SlotCommitted, TargetSupersededIn
  <2>4. Contract!TargetRefusal(c)
    BY <1>3, <2>1, <2>3, TargetsAgree
       DEF LoseSupersessionRace, Decide, IsSuperseding, Contract!TargetRefusal, Contract!Say
  <2> QED
    BY <1>0, <1>3, <2>1, <2>4, ClaimedKeyIsFree
       DEF LoseSupersessionRace, Rollback, Contract!RefuseTarget, Contract!Undetermined, Inv, TypeOK
<1>4. ASSUME NEW c \in Calls, Commit(c) PROVE Contract!Post(c)
  <2>1. pc[c] = "upserting" /\ c \in claims /\ c \in inserted /\ req[c] \in Requests
    BY <1>4 DEF Commit, Appended, Inv, Holdings
  <2>2. Contract!KeyFree(c) /\ Contract!TargetMayBeSuperseded(c)
    BY <2>1, ClaimedKeyIsFree, MayBeSuperseded
  <2>3. Contract!AccountsNamed(c) \subseteq OpenAccounts
    BY <1>4, <2>1, UnknownAgrees DEF Commit
  <2> QED
    BY <1>0, <1>4, <2>1, <2>2, <2>3
       DEF Commit, Decide, Contract!Post, Contract!Undetermined, Contract!Say, Inv, TypeOK
<1>5. ASSUME NEW c \in Calls, RefuseSupersession(c) PROVE Contract!RefuseTarget(c)
  <2>1. pc[c] = "upserting" /\ c \in claims
    BY <1>5 DEF RefuseSupersession, Appended, Inv, Holdings
  <2>2. Contract!TargetRefusal(c)
    BY <1>5, <2>1, DiagnosisIsTrue DEF RefuseSupersession
  <2> QED
    BY <1>0, <1>5, <2>1, <2>2, ClaimedKeyIsFree
       DEF RefuseSupersession, Rollback, Contract!RefuseTarget, Contract!Undetermined, Inv, TypeOK
<1>6. ASSUME NEW c \in Calls, RefuseUnknownAccount(c) PROVE Contract!RefuseAccount(c)
  <2>1. pc[c] = "upserting" /\ c \in claims /\ c \in inserted /\ req[c] \in Requests
    BY <1>6 DEF RefuseUnknownAccount, Appended, Inv, Holdings
  <2>2. Contract!KeyFree(c) /\ Contract!TargetMayBeSuperseded(c)
    BY <2>1, ClaimedKeyIsFree, MayBeSuperseded
  <2>3. ~(Contract!AccountsNamed(c) \subseteq OpenAccounts)
    BY <1>6, <2>1, UnknownAgrees DEF RefuseUnknownAccount
  <2> QED
    BY <1>0, <1>6, <2>1, <2>2, <2>3
       DEF RefuseUnknownAccount, Rollback, Decide, Contract!RefuseAccount,
           Contract!Undetermined, Contract!Say, Inv, TypeOK
<1>7. ASSUME NEW c \in Calls, ReplayOrRefuse(c)
      PROVE  Contract!Replay(c) \/ Contract!RefuseKey(c)
  <2>1. pc[c] = "lookup" /\ KeyCommitted(c)
    BY <1>7 DEF ReplayOrRefuse, Inv, Learnt
  <2>2. Contract!Undetermined(c) /\ UNCHANGED <<req, txns>>
        /\ UNCHANGED [d \in Calls |-> StageOf(d)]
    BY <1>0, <1>7, <2>1 DEF ReplayOrRefuse, Rollback, Contract!Undetermined, StageOf, Inv, TypeOK
  <2>3. ASSUME NEW d \in StoredResults(c), Decide(c, "replayed", IF d \in txns THEN d ELSE None)
        PROVE  Contract!Replay(c)
    BY <2>2, <2>3 DEF StoredResults, SameKey, Decide, Inv, NoOrphanedEvent, TypeOK, StageOf,
       Contract!Replay, Contract!HeldBy, Contract!Say
  <2>4. ASSUME StoredResults(c) = {}, Decide(c, "KeyReused", None)
        PROVE  Contract!RefuseKey(c)
    BY <2>1, <2>2, <2>4 DEF StoredResults, KeyCommitted, SameKey, Decide, Inv, NoOrphanedEvent,
       TypeOK, StageOf, Contract!RefuseKey, Contract!HeldBy, Contract!Say
  <2> QED
    BY <1>7, <2>3, <2>4 DEF ReplayOrRefuse
<1>8. ASSUME NEW c \in Calls, Answer(c) PROVE Contract!Deliver(c)
  BY <1>0, <1>8 DEF Answer, Contract!Deliver, Inv, TypeOK
<1>9. ASSUME NEW c \in Calls, Fail(c) PROVE Contract!Lose(c)
  BY <1>9 DEF Fail, Rollback, Decide, InFlight, Contract!Lose, Contract!Say, Inv, TypeOK
<1>10. CASE UNCHANGED vars
  BY <1>10 DEF vars, Contract!vars
<1> QED
  BY <1>1, <1>2, <1>3, <1>4, <1>5, <1>6, <1>7, <1>8, <1>9, <1>10
     DEF Next, Step, AllDone, vars, Contract!Next

(* The write path answers every call as one atomic decision against the    *)
(* committed journal, for every set of calls, menu and chart.              *)
THEOREM Refinement == Spec => ImplementsContract
<1>1. Init => Contract!Init
  BY InitRefines
<1>2. Inv /\ [Next]_vars => [Contract!Next]_(Contract!vars)
  BY StepRefines
<1> QED
  BY <1>1, <1>2, Invariance, PTL DEF Spec, ImplementsContract, Contract!Spec
=============================================================================
