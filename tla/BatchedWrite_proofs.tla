------------------------- MODULE BatchedWrite_proofs -------------------------
(***************************************************************************)
(* Proofs, for any calls, menu, accounts and dispatchers: batches that     *)
(* share a statement post one transaction per key, every member's own      *)
(* answer is true of the book, and the book adds up.                       *)
(***************************************************************************)
EXTENDS BatchedWrite, Postings_proofs

Types ==
  /\ req \in [Calls -> Menu]
  /\ pc \in [Dispatchers -> {"idle", "claiming", "upserting", "committing"}]
  /\ carried \in [Dispatchers -> SUBSET Calls]
  /\ snap \in [Dispatchers -> SUBSET Calls]
  /\ tried \in [Dispatchers -> SUBSET Calls]
  /\ claims \subseteq Calls
  /\ stored \in [Calls -> Calls \cup {None}]
  /\ events \subseteq Calls
  /\ verdict \in [Calls -> Verdicts]

(* A batch carries calls nobody has answered and nobody else carries, each *)
(* under its own key; it asks the claim for those the gate lets through,   *)
(* for all of them before it goes on.                                      *)
Batches ==
  \A d \in Dispatchers :
    /\ At(d, "idle") => carried[d] = {}
    /\ tried[d] \subseteq Admissible(d)
    /\ pc[d] \in {"upserting", "committing"} => Admissible(d) \subseteq tried[d]
    /\ snap[d] \subseteq events
    /\ \A c \in carried[d] : verdict[c].kind = "none"
    /\ \A b, c \in carried[d] : SameKey(b, c) => b = c

Apart == \A d, e \in Dispatchers : carried[d] \cap carried[e] # {} => d = e

Unwritten == \A c \in events : verdict[c].kind # "none"

ClaimsAreAskedFor == \A c \in claims : \E d \in Dispatchers : c \in tried[d]

OneHolderPerKey == \A b, c \in events \cup claims : SameKey(b, c) => b = c

(* A member that asked and did not get its key asked behind a commit.      *)
LosersAreHeld == \A d \in Dispatchers : \A c \in tried[d] \ claims : HeldIn(events, c)

(* Whatever reaches the commit has its accounts.                           *)
Carryable ==
  \A d \in Dispatchers : At(d, "committing") => \A c \in Proceeding(d) : UnknownAccounts(c) = {}

(* What the lookup made of a member whose key was held.                    *)
IsFinding(c, s) ==
  IF s = None THEN \E e \in events : SameKey(e, c) /\ req[e] # req[c]
              ELSE s \in events /\ req[s] = req[c]

Findings ==
  \A d \in Dispatchers : At(d, "committing") =>
    \A c \in KeyAlreadyClaimed(d) : IsFinding(c, stored[c])

(* What the truth of one call's answer asks of the book.                   *)
IsTrueOf(c, v) ==
  /\ v.kind = "posted"   => c \in txns /\ v.txn = c
  /\ v.kind = "replayed" => v.txn \in txns \ {c} /\ req[v.txn] = req[c]
  /\ v.kind = "KeyReused" => \E e \in txns : SameKey(e, c) /\ req[e] # req[c]
  /\ v.kind \in {"KeyReused", "replayed", "AccountUnknown", "Overflow"} => c \notin events
  /\ v.kind = "AccountUnknown" => UnknownAccounts(c) # {}

BatchInv ==
  /\ Types /\ Batches /\ Apart /\ Unwritten
  /\ ClaimsAreAskedFor /\ OneHolderPerKey /\ NoOrphanedEvent /\ LosersAreHeld
  /\ Carryable /\ Findings
  /\ \A c \in Calls : IsTrueOf(c, verdict[c])

LEMMA TruthsOfAnswers == AnswersAreTrue <=> \A c \in Calls : IsTrueOf(c, verdict[c])
  BY DEF AnswersAreTrue, IsTrueOf

-----------------------------------------------------------------------------
(* What stays while the requests do *)

LEMMA Steady ==
  ASSUME UNCHANGED req
  PROVE  /\ \A c : UnknownAccounts(c)' = UnknownAccounts(c)
         /\ \A b, c : SameKey(b, c)' = SameKey(b, c)
  BY DEF UnknownAccounts, LegsOf, SameKey

LEMMA SteadyGate ==
  ASSUME UNCHANGED req, NEW d, carried'[d] = carried[d]
  PROVE  Admissible(d)' = Admissible(d)
  BY DEF Admissible, Shares, UnknownAccounts, LegsOf

LEMMA SteadyTruths ==
  ASSUME BatchInv, UNCHANGED <<req, events, txns, verdict>>
  PROVE  (\A c \in Calls : IsTrueOf(c, verdict[c]))'
  BY Steady DEF IsTrueOf, BatchInv

(* What a batch asked the claim for, it carries.                           *)
LEMMA TriedAreCarried ==
  ASSUME BatchInv, NEW d \in Dispatchers
  PROVE  tried[d] \subseteq carried[d] /\ KeyAlreadyClaimed(d) \subseteq carried[d]
  BY DEF BatchInv, Batches, Admissible, KeyAlreadyClaimed, HeldByAnEarlierWrite

(* A batch of one has one member.                                          *)
LEMMA OneAlone ==
  ASSUME NEW d \in Dispatchers, carried[d] \in SUBSET Calls, ~Shares(d),
         NEW b \in carried[d], NEW c \in carried[d]
  PROVE  b = c
<1> SUFFICES ASSUME b # c PROVE FALSE
  OBVIOUS
<1>1. IsFiniteSet(carried[d])
  BY CallsAssumption, FS_Subset
<1>2. Cardinality(carried[d] \ {b}) = Cardinality(carried[d]) - 1 /\ IsFiniteSet(carried[d] \ {b})
  BY <1>1, FS_RemoveElement
<1>3. Cardinality(carried[d] \ {b}) # 0 /\ Cardinality(carried[d] \ {b}) \in Nat
  BY <1>2, FS_EmptySet, FS_CardinalityType
<1>4. Cardinality(carried[d]) \in Nat
  BY <1>1, FS_CardinalityType
<1> QED BY <1>2, <1>3, <1>4 DEF Shares

LEMMA BatchInit == Init => BatchInv
<1> SUFFICES ASSUME Init PROVE BatchInv
  OBVIOUS
<1>1. Types
  BY DEF Init, Types, Verdicts
<1>2. Batches /\ Apart /\ Unwritten /\ ClaimsAreAskedFor /\ OneHolderPerKey
  BY DEF Init, Batches, Apart, Unwritten, ClaimsAreAskedFor, OneHolderPerKey, At
<1>3. NoOrphanedEvent /\ LosersAreHeld /\ Carryable /\ Findings
  BY DEF Init, NoOrphanedEvent, LosersAreHeld, Carryable, Findings, At
<1>4. \A c \in Calls : IsTrueOf(c, verdict[c])
  BY DEF Init, IsTrueOf
<1> QED BY <1>1, <1>2, <1>3, <1>4 DEF BatchInv

-----------------------------------------------------------------------------
(* The steps *)

(* A claim waits for rivals and loses to commits.                          *)
LEMMA ClaimNextKeeps ==
  ASSUME BatchInv, NEW d \in Dispatchers, ClaimNext(d)
  PROVE  BatchInv'
<1>1. UNCHANGED <<req, pc, carried, snap, stored, events, txns, verdict>> /\ At(d, "claiming")
  BY DEF ClaimNext, bookVars
<1>2. PICK c \in Admissible(d) \ tried[d] :
        /\ KeyRivals(d, c) = {}
        /\ tried' = [tried EXCEPT ![d] = @ \cup {c}]
        /\ claims' = IF KeyCommitted(d, c) THEN claims ELSE claims \cup {c}
  BY DEF ClaimNext
<1>3. \A e \in Dispatchers : Admissible(e)' = Admissible(e)
  BY <1>1, SteadyGate
<1>4. c \in Calls /\ c \in carried[d]
  BY <1>2 DEF Admissible, BatchInv, Types
<1>5. \A b, a : SameKey(b, a)' = SameKey(b, a)
  BY <1>1, Steady
<1>6. Types'
  BY <1>1, <1>2, <1>4 DEF BatchInv, Types
<1>7. Batches' /\ Apart' /\ Unwritten'
  BY <1>1, <1>2, <1>3, <1>5 DEF BatchInv, Types, Batches, Apart, Unwritten, At
<1>8. ClaimsAreAskedFor'
  BY <1>1, <1>2 DEF BatchInv, Types, ClaimsAreAskedFor
<1>9. OneHolderPerKey'
  <2>1. \A b \in events \cup claims : SameKey(b, c) \/ SameKey(c, b) => b = c \/ KeyCommitted(d, c)
    BY <1>2, <1>4 DEF KeyRivals, KeyCommitted, HeldIn, SameKey, BatchInv, Batches
  <2> QED BY <1>1, <1>2, <1>5, <2>1 DEF BatchInv, OneHolderPerKey
<1>10. NoOrphanedEvent'
  BY <1>1 DEF BatchInv, NoOrphanedEvent
<1>11. LosersAreHeld'
  BY <1>1, <1>2, <1>5 DEF BatchInv, Types, LosersAreHeld, KeyCommitted, HeldIn
<1>12. \A e \in Dispatchers : At(e, "committing") => c \notin carried[e]
  BY <1>1, <1>4 DEF At, BatchInv, Apart
<1>13. Carryable'
  <2>1. \A e \in Dispatchers : At(e, "committing") => Proceeding(e)' \subseteq Proceeding(e)
    BY <1>1, <1>2, <1>12 DEF Proceeding
  <2> QED BY <1>1, <2>1, Steady DEF BatchInv, Carryable, At
<1>14. Findings'
  <2>1. \A e \in Dispatchers : HeldByAnEarlierWrite(e)' = HeldByAnEarlierWrite(e)
    BY <1>1, <1>3, <1>5 DEF HeldByAnEarlierWrite, HeldIn
  <2>2. \A e \in Dispatchers : At(e, "committing") =>
          KeyAlreadyClaimed(e)' \subseteq KeyAlreadyClaimed(e)
    BY <1>1, <1>2, <2>1 DEF KeyAlreadyClaimed, At, BatchInv, Types
  <2> QED BY <1>1, <1>5, <2>2 DEF BatchInv, Findings, IsFinding, At
<1> QED BY <1>1, <1>6, <1>7, <1>8, <1>9, <1>10, <1>11, <1>13, <1>14, SteadyTruths DEF BatchInv

(* A batch goes on when its claim is complete, and to the commit with its  *)
(* lookup done and nothing to refuse.                                      *)
LEMMA OnwardKeeps ==
  ASSUME BatchInv, NEW d \in Dispatchers, NEW s \in {"upserting", "committing"}, Goto(d, s),
         Admissible(d) \subseteq tried[d],
         s = "committing" =>
           /\ \A c \in Proceeding(d) : UnknownAccounts(c) = {}
           /\ \A c \in KeyAlreadyClaimed(d) : IsFinding(c, stored'[c]),
         stored' \in [Calls -> Calls \cup {None}],
         \A c \in Calls : c \in KeyAlreadyClaimed(d) \/ stored'[c] = stored[c],
         ~At(d, "idle"),
         UNCHANGED <<req, carried, snap, tried, claims, events, txns, verdict>>
  PROVE  BatchInv'
<1>1. pc' = [pc EXCEPT ![d] = s]
  BY DEF Goto
<1>2. \A e \in Dispatchers : Admissible(e)' = Admissible(e)
  BY SteadyGate
<1>3. \A b, a : SameKey(b, a)' = SameKey(b, a)
  BY Steady
<1>4. Types'
  BY <1>1 DEF BatchInv, Types
<1>5. Batches' /\ Apart' /\ Unwritten'
  BY <1>1, <1>2, <1>3 DEF BatchInv, Types, Batches, Apart, Unwritten, At
<1>6. ClaimsAreAskedFor' /\ OneHolderPerKey' /\ NoOrphanedEvent'
  BY <1>3 DEF BatchInv, ClaimsAreAskedFor, OneHolderPerKey, NoOrphanedEvent
<1>7. LosersAreHeld'
  BY <1>3 DEF BatchInv, LosersAreHeld, HeldIn
<1>8. Carryable'
  <2>1. \A e \in Dispatchers : Proceeding(e)' = Proceeding(e)
    BY DEF Proceeding
  <2> QED BY <1>1, <2>1, Steady DEF BatchInv, Types, Carryable, At
<1>9. Findings'
  <2>1. \A e \in Dispatchers : KeyAlreadyClaimed(e)' = KeyAlreadyClaimed(e)
    BY <1>2, <1>3 DEF KeyAlreadyClaimed, HeldByAnEarlierWrite, HeldIn
  <2>2. \A e \in Dispatchers \ {d} : \A c \in KeyAlreadyClaimed(e) : stored'[c] = stored[c]
    BY TriedAreCarried DEF BatchInv, Types, Apart
  <2>3. \A c, r : IsFinding(c, r)' <=> IsFinding(c, r)
    BY <1>3 DEF IsFinding
  <2>4. ASSUME NEW e \in Dispatchers, At(e, "committing")', NEW c \in KeyAlreadyClaimed(e)
        PROVE  IsFinding(c, stored[c])'
    <3>1. CASE e = d
      BY <1>1, <1>3, <2>4, <3>1 DEF At, IsFinding, BatchInv, Types
    <3>2. CASE e # d
      BY <1>1, <1>3, <2>2, <2>4, <3>2 DEF At, IsFinding, BatchInv, Types, Findings
    <3> QED BY <3>1, <3>2
  <2> QED BY <2>1, <2>4 DEF Findings
<1> QED BY <1>4, <1>5, <1>6, <1>7, <1>8, <1>9, SteadyTruths DEF BatchInv

LEMMA StutterKeeps ==
  ASSUME BatchInv,
         UNCHANGED <<req, pc, carried, snap, tried, claims, stored, events, txns, verdict>>
  PROVE  BatchInv'
<1>1. \A e \in Dispatchers : Admissible(e)' = Admissible(e)
  BY SteadyGate
<1>2. /\ \A c : UnknownAccounts(c)' = UnknownAccounts(c)
      /\ \A b, c : SameKey(b, c)' = SameKey(b, c)
  BY Steady
<1>3. Types' /\ Batches' /\ Apart' /\ Unwritten'
  BY <1>1, <1>2 DEF BatchInv, Types, Batches, Apart, Unwritten, At
<1>4. ClaimsAreAskedFor' /\ OneHolderPerKey' /\ NoOrphanedEvent' /\ LosersAreHeld' /\ Carryable'
  BY <1>2 DEF BatchInv, ClaimsAreAskedFor, OneHolderPerKey, NoOrphanedEvent, LosersAreHeld,
     HeldIn, Carryable, Proceeding, At
<1>5. Findings'
  BY <1>1, <1>2 DEF BatchInv, Findings, IsFinding, KeyAlreadyClaimed, HeldByAnEarlierWrite,
     HeldIn, At
<1> QED BY <1>3, <1>4, <1>5, SteadyTruths DEF BatchInv

(* A batch is taken: nobody answered its members, nobody else has them.    *)
LEMMA TakeKeeps ==
  ASSUME BatchInv, NEW d \in Dispatchers, Take(d)
  PROVE  BatchInv'
<1>1. /\ At(d, "idle") /\ carried[d] = {} /\ tried[d] = {}
      /\ UNCHANGED <<req, tried, claims, stored, events, txns>>
  BY TriedAreCarried DEF Take, bookVars, BatchInv, Batches
<1>2. PICK B \in SUBSET Calls, planned \in SUBSET Calls :
        /\ B \subseteq Waiting /\ planned \subseteq B
        /\ \A b, c \in B : SameKey(b, c) => b = c
        /\ verdict' = [c \in Calls |-> IF c \in B \ planned THEN Say("Overflow", None)
                                                            ELSE verdict[c]]
        /\ carried' = [carried EXCEPT ![d] = planned]
        /\ \/ UNCHANGED <<pc, snap>> /\ planned = {}
           \/ Goto(d, "claiming") /\ snap' = [snap EXCEPT ![d] = events]
  <2>1. PICK B \in (SUBSET Waiting) \ {{}} :
          /\ \A b, c \in B : SameKey(b, c) => b = c
          /\ verdict' = [c \in Calls |-> IF c \in B \ Planned(B) THEN Say("Overflow", None)
                                                                 ELSE verdict[c]]
          /\ carried' = [carried EXCEPT ![d] = Planned(B)]
          /\ IF Planned(B) = {} THEN UNCHANGED <<pc, snap>>
                                ELSE Goto(d, "claiming") /\ snap' = [snap EXCEPT ![d] = events]
    BY DEF Take
  <2>2. B \in SUBSET Calls /\ Planned(B) \in SUBSET Calls /\ Planned(B) \subseteq B
    BY DEF Waiting, Planned
  <2> QED BY <2>1, <2>2
<1>3. /\ \A c \in B : verdict[c].kind = "none"
      /\ \A c \in B, e \in Dispatchers : c \notin carried[e]
  BY <1>2 DEF Waiting
<1>4. \A e \in Dispatchers \ {d} :
        carried'[e] = carried[e] /\ snap'[e] = snap[e] /\ pc'[e] = pc[e]
        /\ Admissible(e)' = Admissible(e)
  BY <1>1, <1>2, SteadyGate DEF Goto, BatchInv, Types
<1>5. carried'[d] = planned /\ snap'[d] \subseteq events /\ pc'[d] \in {"idle", "claiming"}
      /\ (pc'[d] = "idle" => planned = {})
  BY <1>1, <1>2 DEF Goto, At, BatchInv, Types, Batches
<1>6. /\ \A c : UnknownAccounts(c)' = UnknownAccounts(c)
      /\ \A b, c : SameKey(b, c)' = SameKey(b, c)
  BY <1>1, Steady
<1>7. Types'
  BY <1>1, <1>2, <1>3 DEF BatchInv, Types, Verdicts, Say, Goto
<1>8. \A c \in Calls : c \in B \ planned \/ verdict'[c] = verdict[c]
  BY <1>2 DEF BatchInv, Types
<1>9. Batches'
  <2>1. ASSUME NEW e \in Dispatchers \ {d} PROVE
          /\ At(e, "idle")' => carried'[e] = {}
          /\ tried'[e] \subseteq Admissible(e)'
          /\ pc'[e] \in {"upserting", "committing"} => Admissible(e)' \subseteq tried'[e]
          /\ snap'[e] \subseteq events'
          /\ \A c \in carried'[e] : verdict'[c].kind = "none"
          /\ \A b, c \in carried'[e] : SameKey(b, c)' => b = c
    BY <1>1, <1>3, <1>4, <1>6, <1>8 DEF BatchInv, Types, Batches, At
  <2>2. /\ At(d, "idle")' => carried'[d] = {}
        /\ tried'[d] = {} /\ pc'[d] \notin {"upserting", "committing"}
        /\ snap'[d] \subseteq events'
        /\ \A c \in carried'[d] : verdict'[c].kind = "none"
        /\ \A b, c \in carried'[d] : SameKey(b, c)' => b = c
    BY <1>1, <1>2, <1>3, <1>5, <1>6, <1>8 DEF At
  <2> QED BY <2>1, <2>2 DEF Batches
<1>10. Apart' /\ Unwritten'
  <2>1. Apart'
    BY <1>2, <1>3, <1>4, <1>5 DEF BatchInv, Apart
  <2>2. Unwritten'
    BY <1>1, <1>3, <1>8 DEF BatchInv, Types, Unwritten
  <2> QED BY <2>1, <2>2
<1>11. ClaimsAreAskedFor' /\ OneHolderPerKey' /\ NoOrphanedEvent' /\ LosersAreHeld'
  BY <1>1, <1>6 DEF BatchInv, ClaimsAreAskedFor, OneHolderPerKey, NoOrphanedEvent,
     LosersAreHeld, HeldIn
<1>12. \A e \in Dispatchers : At(e, "committing")' => e # d /\ At(e, "committing")
  BY <1>4, <1>5 DEF At
<1>13. Carryable'
  BY <1>1, <1>4, <1>6, <1>12 DEF BatchInv, Carryable, Proceeding
<1>14. Findings'
  <2>1. \A e \in Dispatchers \ {d} : KeyAlreadyClaimed(e)' = KeyAlreadyClaimed(e)
    BY <1>1, <1>4, <1>6 DEF KeyAlreadyClaimed, HeldByAnEarlierWrite, HeldIn
  <2> QED BY <1>1, <1>6, <1>12, <2>1 DEF BatchInv, Findings, IsFinding
<1>15. (\A c \in Calls : IsTrueOf(c, verdict[c]))'
  <2>1. ASSUME NEW c \in Calls, c \in B \ planned PROVE IsTrueOf(c, verdict[c])'
    BY <1>1, <1>2, <1>3, <2>1 DEF IsTrueOf, Say, BatchInv, Unwritten
  <2>2. ASSUME NEW c \in Calls, verdict'[c] = verdict[c] PROVE IsTrueOf(c, verdict[c])'
    BY <1>1, <1>6, <2>2 DEF IsTrueOf, BatchInv
  <2> QED BY <1>8, <2>1, <2>2
<1> QED BY <1>7, <1>9, <1>10, <1>11, <1>13, <1>14, <1>15 DEF BatchInv

(* A claim is its batch's own, and no member whose key was held has one.   *)
LEMMA ClaimsAreTheirOwn ==
  ASSUME BatchInv, NEW d \in Dispatchers
  PROVE  Proceeding(d) \subseteq tried[d] /\ KeyAlreadyClaimed(d) \cap claims = {}
<1>1. Proceeding(d) \subseteq tried[d]
  BY TriedAreCarried DEF Proceeding, BatchInv, ClaimsAreAskedFor, Apart
<1>2. tried[d] \subseteq Admissible(d)
  BY DEF BatchInv, Batches
<1> QED BY <1>1, <1>2 DEF KeyAlreadyClaimed, HeldByAnEarlierWrite, Proceeding

(* The transaction ends, with what it wrote or without, and every member   *)
(* hears something true.                                                   *)
LEMMA EndKeeps ==
  ASSUME BatchInv, NEW d \in Dispatchers, EndTransaction(d), UNCHANGED req,
         NEW P \in SUBSET Proceeding(d), events' = events \cup P, txns' = txns \cup P,
         verdict' \in [Calls -> Verdicts],
         \A c \in Calls \ carried[d] : verdict'[c] = verdict[c],
         \A c \in carried[d] : verdict'[c].kind # "none" /\ IsTrueOf(c, verdict[c])'
  PROVE  BatchInv'
<1>1. /\ \A e \in Dispatchers \ {d} :
           /\ carried'[e] = carried[e] /\ snap'[e] = snap[e] /\ tried'[e] = tried[e]
           /\ pc'[e] = pc[e] /\ Admissible(e)' = Admissible(e)
      /\ carried'[d] = {} /\ snap'[d] = {} /\ tried'[d] = {} /\ pc'[d] = "idle"
      /\ claims' = claims \ carried[d]
      /\ \A c \in Calls : c \in carried[d] \/ stored'[c] = stored[c]
  BY SteadyGate DEF EndTransaction, Goto, BatchInv, Types
<1>2. P \subseteq carried[d] /\ P \subseteq claims /\ carried[d] \subseteq Calls
  BY DEF Proceeding, BatchInv, Types
<1>3. /\ \A c : UnknownAccounts(c)' = UnknownAccounts(c)
      /\ \A b, c : SameKey(b, c)' = SameKey(b, c)
  BY Steady
<1>4. \A e \in Dispatchers \ {d} : carried[e] \cap carried[d] = {}
  BY DEF BatchInv, Apart
<1>5. \A e \in Dispatchers \ {d} : carried[e] \subseteq Calls
  BY DEF BatchInv, Types
<1>6. Types'
  BY <1>2 DEF EndTransaction, Goto, BatchInv, Types
<1>7. Batches'
  <2>1. ASSUME NEW e \in Dispatchers \ {d} PROVE
          /\ At(e, "idle")' => carried'[e] = {}
          /\ tried'[e] \subseteq Admissible(e)'
          /\ pc'[e] \in {"upserting", "committing"} => Admissible(e)' \subseteq tried'[e]
          /\ snap'[e] \subseteq events'
          /\ \A c \in carried'[e] : verdict'[c].kind = "none"
          /\ \A b, c \in carried'[e] : SameKey(b, c)' => b = c
    BY <1>1, <1>3, <1>4, <1>5 DEF BatchInv, Batches, At
  <2>2. /\ tried'[d] = {} /\ snap'[d] = {} /\ carried'[d] = {}
        /\ pc'[d] \notin {"upserting", "committing"}
    BY <1>1
  <2> QED BY <2>1, <2>2 DEF Batches
<1>8. Apart'
  BY <1>1 DEF BatchInv, Apart
<1>9. Unwritten'
  BY <1>2 DEF BatchInv, Types, Unwritten
<1>10. ClaimsAreAskedFor'
  BY <1>1, TriedAreCarried DEF BatchInv, ClaimsAreAskedFor
<1>11. OneHolderPerKey'
  BY <1>1, <1>2, <1>3 DEF BatchInv, OneHolderPerKey
<1>12. NoOrphanedEvent'
  BY DEF BatchInv, NoOrphanedEvent
<1>13. \A e \in Dispatchers \ {d} : tried[e] \cap carried[d] = {}
  BY <1>4, TriedAreCarried
<1>14. LosersAreHeld'
  BY <1>1, <1>3, <1>13 DEF BatchInv, LosersAreHeld, HeldIn
<1>15. Carryable'
  <2>1. \A e \in Dispatchers : At(e, "committing")' =>
          e # d /\ At(e, "committing") /\ Proceeding(e)' \subseteq Proceeding(e)
    BY <1>1 DEF At, Proceeding
  <2> QED BY <1>3, <2>1 DEF BatchInv, Carryable
<1>16. Findings'
  <2>1. \A e \in Dispatchers \ {d} : KeyAlreadyClaimed(e)' = KeyAlreadyClaimed(e)
    BY <1>1, <1>3, <1>13 DEF KeyAlreadyClaimed, HeldByAnEarlierWrite, HeldIn
  <2>2. \A e \in Dispatchers : At(e, "committing")' => e # d /\ At(e, "committing")
    BY <1>1 DEF At
  <2>3. \A e \in Dispatchers \ {d} : \A c \in KeyAlreadyClaimed(e) : stored'[c] = stored[c]
    BY <1>1, <1>4, <1>5, TriedAreCarried
  <2>4. \A c, s : IsFinding(c, s) => IsFinding(c, s)'
    BY <1>3 DEF IsFinding
  <2>5. ASSUME NEW e \in Dispatchers, At(e, "committing")', NEW c \in KeyAlreadyClaimed(e)
        PROVE  IsFinding(c, stored[c])'
    <3>1. IsFinding(c, stored[c]) /\ stored'[c] = stored[c]
      BY <2>2, <2>3, <2>5 DEF BatchInv, Findings
    <3> QED BY <1>3, <3>1 DEF IsFinding
  <2> QED BY <2>1, <2>2, <2>5 DEF Findings
<1>17. (\A c \in Calls : IsTrueOf(c, verdict[c]))'
  <2>1. ASSUME NEW c \in Calls, c \notin carried[d] PROVE IsTrueOf(c, verdict[c])'
    BY <1>2, <1>3, <2>1 DEF IsTrueOf, BatchInv
  <2> QED BY <2>1
<1> QED BY <1>6, <1>7, <1>8, <1>9, <1>10, <1>11, <1>12, <1>14, <1>15, <1>16, <1>17 DEF BatchInv
(* Every member hears the storage error, whatever of the batch landed.     *)
LEMMA FailTogetherKeeps ==
  ASSUME BatchInv, NEW d \in Dispatchers, FailTogether(d), UNCHANGED req,
         NEW P \in SUBSET Proceeding(d), events' = events \cup P, txns' = txns \cup P
  PROVE  BatchInv'
<1>1. EndTransaction(d)
  BY DEF FailTogether
<1>2. carried[d] \subseteq Calls
  BY DEF BatchInv, Types
<1>3. /\ verdict' \in [Calls -> Verdicts]
      /\ \A c \in Calls \ carried[d] : verdict'[c] = verdict[c]
      /\ \A c \in carried[d] : verdict'[c].kind = "failed"
  BY <1>2 DEF FailTogether, Say, Verdicts, BatchInv, Types
<1>4. \A c \in carried[d] : IsTrueOf(c, verdict[c])'
  BY <1>3 DEF IsTrueOf
<1> QED BY <1>1, <1>3, <1>4, EndKeeps

LEMMA FailKeeps ==
  ASSUME BatchInv, NEW d \in Dispatchers, FailTogether(d), UNCHANGED <<req, bookVars>>
  PROVE  BatchInv'
<1>1. UNCHANGED req /\ events' = events \cup {} /\ txns' = txns \cup {}
  BY DEF bookVars
<1> QED BY <1>1, FailTogetherKeeps

(* A batch of one is refused for the account its one member named.         *)
LEMMA RefuseAloneKeeps ==
  ASSUME BatchInv, NEW d \in Dispatchers, RefuseAlone(d)
  PROVE  BatchInv'
<1>1. EndTransaction(d) /\ UNCHANGED req /\ events' = events \cup {} /\ txns' = txns \cup {}
  BY DEF RefuseAlone, bookVars
<1>2. carried[d] \subseteq Calls
  BY DEF BatchInv, Types
<1>3. /\ verdict' \in [Calls -> Verdicts]
      /\ \A c \in Calls \ carried[d] : verdict'[c] = verdict[c]
      /\ \A c \in carried[d] : verdict'[c].kind = "AccountUnknown"
  BY <1>2 DEF RefuseAlone, Say, Verdicts, BatchInv, Types
<1>4. \A c \in carried[d] : UnknownAccounts(c) # {}
  <2>1. PICK b \in Proceeding(d) : UnknownAccounts(b) # {} /\ ~Shares(d)
    BY DEF RefuseAlone
  <2>2. b \in carried[d]
    BY <2>1 DEF Proceeding
  <2> QED BY <1>2, <2>1, <2>2, OneAlone
<1>5. \A c \in carried[d] : c \notin events
  BY DEF BatchInv, Batches, Unwritten
<1>6. \A c \in carried[d] : IsTrueOf(c, verdict[c])'
  BY <1>1, <1>3, <1>4, <1>5, Steady DEF IsTrueOf
<1> QED BY <1>1, <1>3, <1>6, EndKeeps

(* The book takes the members that got their key.                          *)
LEMMA TheBookCommits ==
  ASSUME BatchInv, NEW d \in Dispatchers, CommitTheBook(d)
  PROVE  events' = events \cup Proceeding(d) /\ txns' = txns \cup Proceeding(d) /\ UNCHANGED req
  BY DEF CommitTheBook, Transactions, BatchInv, Carryable

LEMMA CommitKeeps ==
  ASSUME BatchInv, NEW d \in Dispatchers, Commit(d)
  PROVE  BatchInv'
<1>1. /\ EndTransaction(d) /\ UNCHANGED req
      /\ events' = events \cup Proceeding(d) /\ txns' = txns \cup Proceeding(d)
  BY TheBookCommits DEF Commit
<1>2. carried[d] \subseteq Calls /\ At(d, "committing") /\ events = txns /\ events \subseteq Calls
  BY DEF Commit, CommitTheBook, BatchInv, Types, NoOrphanedEvent
<1>3. \A c \in Calls \ carried[d] : verdict'[c] = verdict[c]
  BY DEF Commit
<1>4. \A c \in carried[d] : verdict'[c] = AnswerOf(d, c)
  BY <1>2 DEF Commit
<1>5. \A c \in carried[d] : c \notin events
  BY DEF BatchInv, Batches, Unwritten
<1>6. ASSUME NEW c \in carried[d]
      PROVE  verdict'[c] \in Verdicts /\ verdict'[c].kind # "none" /\ IsTrueOf(c, verdict[c])'
  <2>1. CASE c \in KeyAlreadyClaimed(d)
    <3>1. c \notin events'
      BY <1>1, <1>5, <2>1, ClaimsAreTheirOwn DEF Proceeding
    <3>2. IsFinding(c, stored[c])
      BY <1>2, <2>1 DEF BatchInv, Findings
    <3>3. CASE stored[c] = None
      <4>1. verdict'[c] = Say("KeyReused", None)
        BY <1>4, <2>1, <3>3 DEF AnswerOf
      <4>2. \E e \in txns : SameKey(e, c) /\ req[e] # req[c]
        BY <1>2, <3>2, <3>3 DEF IsFinding
      <4> QED BY <1>1, <3>1, <4>1, <4>2, Steady DEF IsTrueOf, Say, Verdicts
    <3>4. CASE stored[c] # None
      <4>1. stored[c] \in txns /\ stored[c] \in Calls /\ req[stored[c]] = req[c]
        BY <1>2, <3>2, <3>4 DEF IsFinding
      <4>2. verdict'[c] = Say("replayed", stored[c])
        BY <1>4, <2>1, <3>4, <4>1 DEF AnswerOf
      <4>3. stored[c] # c
        BY <1>2, <1>5, <4>1
      <4> QED BY <1>1, <3>1, <4>1, <4>2, <4>3 DEF IsTrueOf, Say, Verdicts
    <3> QED BY <3>3, <3>4
  <2>2. CASE c \notin KeyAlreadyClaimed(d) /\ c \in Refused(d)
    <3>1. verdict'[c] = Say("AccountUnknown", None)
      BY <1>4, <2>2 DEF AnswerOf
    <3>2. c \notin Admissible(d)
      BY <2>2 DEF Refused
    <3>3. UnknownAccounts(c) # {}
      BY <3>2 DEF Admissible
    <3>4. c \notin Proceeding(d)
      BY <3>2, ClaimsAreTheirOwn DEF BatchInv, Batches
    <3> QED BY <1>1, <1>5, <3>1, <3>3, <3>4, Steady DEF IsTrueOf, Say, Verdicts
  <2>3. CASE c \notin KeyAlreadyClaimed(d) /\ c \notin Refused(d)
    <3>1. verdict'[c] = Say("posted", c)
      BY <1>4, <2>3 DEF AnswerOf
    <3>2. c \in Admissible(d)
      BY <2>3 DEF Refused, KeyAlreadyClaimed
    <3>3. c \in tried[d]
      BY <1>2, <3>2 DEF BatchInv, Batches, At
    <3>4. c \in Proceeding(d)
      BY <2>3, <3>3 DEF KeyAlreadyClaimed, Proceeding
    <3> QED BY <1>1, <1>2, <3>1, <3>4 DEF IsTrueOf, Say, Verdicts
  <2> QED BY <2>1, <2>2, <2>3
<1>7. verdict' \in [Calls -> Verdicts]
  BY <1>2, <1>4, <1>6 DEF Commit, BatchInv, Types
<1> QED BY <1>1, <1>3, <1>6, <1>7, EndKeeps

LEMMA LookupKeeps ==
  ASSUME BatchInv, NEW d \in Dispatchers, Lookup(d)
  PROVE  BatchInv'
<1>1. /\ At(d, "upserting") /\ KeyAlreadyClaimed(d) # {} /\ Goto(d, "committing")
      /\ UNCHANGED <<req, carried, snap, tried, claims, events, txns, verdict>>
  BY DEF Lookup, Appended, bookVars
<1>2. PICK found \in [KeyAlreadyClaimed(d) -> Calls \cup {None}] :
        /\ \A c \in KeyAlreadyClaimed(d) :
             IF StoredResults(c) = {} THEN found[c] = None ELSE found[c] \in StoredResults(c)
        /\ stored' = [c \in Calls |-> IF c \in KeyAlreadyClaimed(d) THEN found[c] ELSE stored[c]]
  BY DEF Lookup
<1>3. /\ KeyAlreadyClaimed(d) \subseteq Calls /\ carried[d] \subseteq Calls
      /\ events \subseteq Calls /\ Admissible(d) \subseteq tried[d] /\ tried[d] \subseteq Admissible(d)
  BY <1>1, TriedAreCarried DEF BatchInv, Types, Batches, At
<1>4. /\ stored' \in [Calls -> Calls \cup {None}]
      /\ \A c \in Calls : c \in KeyAlreadyClaimed(d) \/ stored'[c] = stored[c]
      /\ \A c \in KeyAlreadyClaimed(d) : stored'[c] = found[c]
  BY <1>2, <1>3 DEF BatchInv, Types
<1>5. \A c \in Proceeding(d) : UnknownAccounts(c) = {}
  <2>1. CASE Shares(d)
    BY <1>3, <2>1, ClaimsAreTheirOwn DEF Admissible
  <2>2. CASE ~Shares(d)
    <3>1. \A b \in KeyAlreadyClaimed(d), c \in Proceeding(d) : b = c
      BY <1>3, <2>2, OneAlone, TriedAreCarried DEF Proceeding
    <3> QED BY <1>1, <3>1, ClaimsAreTheirOwn DEF Proceeding
  <2> QED BY <2>1, <2>2
<1>6. \A c \in KeyAlreadyClaimed(d) : HeldIn(events, c)
  <2>1. snap[d] \subseteq events
    BY DEF BatchInv, Batches
  <2> QED BY <2>1 DEF KeyAlreadyClaimed, HeldByAnEarlierWrite, HeldIn, BatchInv, LosersAreHeld
<1>7. \A c \in KeyAlreadyClaimed(d) : IsFinding(c, stored'[c])
  BY <1>2, <1>3, <1>4, <1>6, NoneAssumption DEF IsFinding, StoredResults, HeldIn
<1>8. ~At(d, "idle")
  BY <1>1 DEF At
<1> QED BY <1>1, <1>3, <1>4, <1>5, <1>7, <1>8, OnwardKeeps

LEMMA NothingToLookUpKeeps ==
  ASSUME BatchInv, NEW d \in Dispatchers, NothingToLookUp(d)
  PROVE  BatchInv'
<1>1. /\ At(d, "upserting") /\ KeyAlreadyClaimed(d) = {} /\ Goto(d, "committing")
      /\ \A c \in Proceeding(d) : UnknownAccounts(c) # {} => Shares(d)
      /\ UNCHANGED <<req, carried, snap, tried, claims, stored, events, txns, verdict>>
  BY DEF NothingToLookUp, Appended, bookVars, statementVars
<1>2. Admissible(d) \subseteq tried[d] /\ tried[d] \subseteq Admissible(d) /\ ~At(d, "idle")
  BY <1>1 DEF BatchInv, Batches, At
<1>3. \A c \in Proceeding(d) : UnknownAccounts(c) = {}
  BY <1>1, <1>2, ClaimsAreTheirOwn DEF Admissible
<1>4. stored' \in [Calls -> Calls \cup {None}]
  BY <1>1 DEF BatchInv, Types
<1> QED BY <1>1, <1>2, <1>3, <1>4, OnwardKeeps

LEMMA ClaimedKeeps ==
  ASSUME BatchInv, NEW d \in Dispatchers, Claimed(d)
  PROVE  BatchInv'
<1>1. /\ At(d, "claiming") /\ Admissible(d) \subseteq tried[d] /\ Goto(d, "upserting")
      /\ UNCHANGED <<req, carried, snap, tried, claims, stored, events, txns, verdict>>
  BY DEF Claimed, bookVars, statementVars
<1>2. stored' \in [Calls -> Calls \cup {None}] /\ ~At(d, "idle")
  BY <1>1 DEF BatchInv, Types, At
<1> QED BY <1>1, <1>2, OnwardKeeps

LEMMA BatchNext == BatchInv /\ [Next]_vars => BatchInv'
<1> SUFFICES ASSUME BatchInv, [Next]_vars PROVE BatchInv'
  OBVIOUS
<1>1. CASE UNCHANGED vars
  BY <1>1, StutterKeeps DEF vars, statementVars, bookVars
<1>2. CASE AllDone
  BY <1>1, <1>2 DEF AllDone
<1>3. ASSUME NEW d \in Dispatchers, Take(d) \/ Step(d) \/ CommitUnacknowledged(d) \/ Fail(d)
      PROVE  BatchInv'
  <2>1. CASE Take(d)
    BY <2>1, TakeKeeps
  <2>2. CASE ClaimNext(d)
    BY <2>2, ClaimNextKeeps
  <2>3. CASE Claimed(d)
    BY <2>3, ClaimedKeeps
  <2>4. CASE Upsert(d)
    BY <2>4, StutterKeeps DEF Upsert, bookVars
  <2>5. CASE OverflowTheRow(d)
    BY <2>5, FailKeeps DEF OverflowTheRow
  <2>6. CASE RefuseAlone(d)
    BY <2>6, RefuseAloneKeeps
  <2>7. CASE Lookup(d)
    BY <2>7, LookupKeeps
  <2>8. CASE NothingToLookUp(d)
    BY <2>8, NothingToLookUpKeeps
  <2>9. CASE Commit(d)
    BY <2>9, CommitKeeps
  <2>10. CASE BreakTheCycle(d)
    BY <2>10, FailKeeps DEF BreakTheCycle
  <2>11. CASE CommitUnacknowledged(d)
    BY <2>11, TheBookCommits, FailTogetherKeeps DEF CommitUnacknowledged
  <2>12. CASE Fail(d)
    BY <2>12, FailKeeps DEF Fail
  <2> QED BY <1>3, <2>1, <2>2, <2>3, <2>4, <2>5, <2>6, <2>7, <2>8, <2>9, <2>10, <2>11, <2>12
     DEF Step
<1> QED BY <1>1, <1>2, <1>3 DEF Next

-----------------------------------------------------------------------------
(* However batches form, race, fail or lose their acknowledgement, what    *)
(* the steps keep holds throughout.                                        *)
THEOREM BatchInvariance == Spec => []BatchInv
<1> QED BY BatchInit, BatchNext, PTL DEF Spec

(* For any batches of any members, one transaction is committed per key,   *)
(* and no event without its transaction.                                   *)
THEOREM MembersPostOnce == Spec => []KeysPostOnce
<1>1. BatchInv => KeysPostOnce
  BY DEF BatchInv, OneHolderPerKey, KeysPostOnce, OneTransactionPerKey
<1> QED BY <1>1, BatchInvariance, PTL

(* Each member of any batch hears an answer true of the book.              *)
THEOREM TrueAnswers == Spec => []AnswersAreTrue
<1>1. BatchInv => AnswersAreTrue
  BY TruthsOfAnswers DEF BatchInv
<1> QED BY <1>1, BatchInvariance, PTL

(* No step refuses a member its account under a key that was committed     *)
(* before the member's statement began.                                    *)
THEOREM HeldKeysFirst == Spec => KeyBeforeAccount
<1> DEFINE A == \A d \in Dispatchers : \A c \in carried[d] :
                  verdict'[c].kind = "AccountUnknown" => ~HeldIn(snap[d], c)
<1>1. ASSUME BatchInv, Next, NEW d \in Dispatchers, NEW c \in carried[d],
             verdict'[c].kind = "AccountUnknown"
      PROVE  ~HeldIn(snap[d], c)
  <2>1. c \in Calls /\ verdict[c].kind = "none" /\ snap[d] \subseteq events
    BY <1>1 DEF BatchInv, Types, Batches
  <2>2. PICK e \in Dispatchers : Take(e) \/ Step(e) \/ CommitUnacknowledged(e) \/ Fail(e)
    BY <1>1, <2>1 DEF Next, AllDone, vars
  <2>3. CASE RefuseAlone(e)
    <3>1. c \in carried[e]
      BY <1>1, <2>1, <2>3 DEF RefuseAlone
    <3>2. e = d
      BY <1>1, <3>1 DEF BatchInv, Apart
    <3>3. PICK b \in Proceeding(d) : ~Shares(d)
      BY <2>3, <3>2 DEF RefuseAlone
    <3>4. b = c
      BY <1>1, <3>3, OneAlone DEF Proceeding, BatchInv, Types
    <3>5. c \in claims /\ c \notin events
      BY <1>1, <2>1, <3>3, <3>4 DEF Proceeding, BatchInv, Unwritten
    <3> QED BY <1>1, <2>1, <3>5 DEF HeldIn, BatchInv, OneHolderPerKey
  <2>4. CASE Commit(e)
    <3>1. c \in carried[e] /\ verdict'[c] = AnswerOf(e, c)
      BY <1>1, <2>1, <2>4 DEF Commit
    <3>2. e = d
      BY <1>1, <3>1 DEF BatchInv, Apart
    <3>3. c \in Refused(d)
      BY <1>1, <3>1, <3>2 DEF AnswerOf, Say
    <3> QED BY <3>3 DEF Refused, HeldByAnEarlierWrite
  <2>5. CASE ~RefuseAlone(e) /\ ~Commit(e)
    <3>1. verdict'[c].kind \in {"none", "Overflow", "failed"}
      BY <2>1, <2>2, <2>5 DEF Take, Step, ClaimNext, Claimed, Upsert, OverflowTheRow, Lookup,
         NothingToLookUp, BreakTheCycle, CommitUnacknowledged, Fail, FailTogether, Say
    <3> QED BY <1>1, <3>1
  <2> QED BY <2>3, <2>4, <2>5
<1>2. BatchInv /\ [Next]_vars => A \/ UNCHANGED vars
  BY <1>1
<1> QED BY <1>2, BatchInvariance, PTL DEF Spec, KeyBeforeAccount

-----------------------------------------------------------------------------
(* The legs of a batch *)

LEMMA BatchedLegsShape ==
  ASSUME Types, NEW c \in Calls
  PROVE  /\ LegsOf(c) \in Seq(Leg)
         /\ IsFiniteSet(DOMAIN LegsOf(c)) /\ DOMAIN LegsOf(c) \subseteq Nat
         /\ \A i \in DOMAIN LegsOf(c) : LegsOf(c)[i] \in Leg
<1>1. LegsOf(c) \in Seq(Leg)
  BY MenuAssumption, ExpandedLegs DEF LegsOf, Types
<1>2. Len(LegsOf(c)) \in Nat /\ DOMAIN LegsOf(c) = 1..Len(LegsOf(c))
      /\ \A i \in 1..Len(LegsOf(c)) : LegsOf(c)[i] \in Leg
  BY <1>1, LenProperties, ElementOfSeq
<1> QED
  BY <1>1, <1>2, FS_Interval

(* The legs of a batch are the positions in its members' legs, and are     *)
(* finitely many.                                                          *)
LEMMA LegsTogetherShape ==
  ASSUME Types, NEW d \in Dispatchers
  PROVE  /\ IsFiniteSet(Legs(d))
         /\ \A x \in Legs(d) : /\ x = <<x[1], x[2]>>
                               /\ x[1] \in Proceeding(d) /\ x[1] \in Nat
                               /\ x[2] \in DOMAIN LegsOf(x[1]) /\ x[2] \in Nat
                               /\ LegAt(x) \in Leg
<1> DEFINE LegsOver(P) == UNION {{c} \X DOMAIN LegsOf(c) : c \in P}
           S == Proceeding(d)
           G == {P \in SUBSET S : IsFiniteSet(LegsOver(P))}
<1>1. S \subseteq Calls /\ IsFiniteSet(S) /\ Calls \subseteq Nat
  <2>1. S \in SUBSET Calls
    BY DEF Proceeding, Types
  <2> QED
    BY <2>1, CallsAssumption, FS_Subset
<1>2. {} \in G
  <2>1. LegsOver({}) = {}
    OBVIOUS
  <2> HIDE DEF LegsOver
  <2> QED
    BY <2>1, FS_EmptySet
<1>3. ASSUME NEW P \in SUBSET S, NEW c \in S \ P, P \in G PROVE P \cup {c} \in G
  <2> DEFINE more == {c} \X DOMAIN LegsOf(c)
  <2>1. LegsOver(P \cup {c}) = LegsOver(P) \cup more
    OBVIOUS
  <2>2. IsFiniteSet(more)
    <3>1. IsFiniteSet({c}) /\ IsFiniteSet(DOMAIN LegsOf(c))
      BY <1>1, BatchedLegsShape, FS_Singleton
    <3> QED
      BY <3>1, FS_Product
  <2>3. IsFiniteSet(LegsOver(P))
    BY <1>3
  <2> HIDE DEF LegsOver, more
  <2>4. IsFiniteSet(LegsOver(P) \cup more)
    BY <2>2, <2>3, FS_Union
  <2> QED
    BY <1>3, <2>1, <2>4
<1> HIDE DEF G, S
<1>4. S \in G
  BY <1>1, <1>2, <1>3, MemberInduction
<1>5. IsFiniteSet(Legs(d))
  BY <1>4 DEF G, S, Legs
<1>6. ASSUME NEW x \in Legs(d)
      PROVE  /\ x = <<x[1], x[2]>> /\ x[1] \in Proceeding(d) /\ x[2] \in DOMAIN LegsOf(x[1])
  <2>1. PICK c \in Proceeding(d) : x \in {c} \X DOMAIN LegsOf(c)
    BY DEF Legs
  <2> QED
    BY <2>1
<1>7. ASSUME NEW x \in Legs(d)
      PROVE  x[1] \in Nat /\ x[2] \in Nat /\ LegAt(x) \in Leg
  <2>1. x[1] \in Calls /\ x[2] \in DOMAIN LegsOf(x[1])
    BY <1>1, <1>6 DEF S
  <2>2. DOMAIN LegsOf(x[1]) \subseteq Nat /\ \A i \in DOMAIN LegsOf(x[1]) : LegsOf(x[1])[i] \in Leg
    BY <2>1, BatchedLegsShape
  <2> QED
    BY <1>1, <2>1, <2>2 DEF LegAt
<1> QED
  BY <1>5, <1>6, <1>7

(* The legs of an account in a batch.                                      *)
LEMMA LegsTogetherCount ==
  ASSUME Types, NEW d \in Dispatchers, NEW a
  PROVE  /\ IsFiniteSet(LegsTogether(d, a)) /\ Cardinality(LegsTogether(d, a)) \in Nat
         /\ a \in Accounts(d) => Cardinality(LegsTogether(d, a)) > 0
         /\ \A direction : SideTogether(d, a, direction) \in Nat
<1>1. LegsTogether(d, a) \in SUBSET Legs(d)
  BY DEF LegsTogether
<1>2. IsFiniteSet(LegsTogether(d, a)) /\ Cardinality(LegsTogether(d, a)) \in Nat
  BY <1>1, LegsTogetherShape, FS_Subset, FS_CardinalityType
<1>3. ASSUME a \in Accounts(d) PROVE Cardinality(LegsTogether(d, a)) > 0
  <2>1. LegsTogether(d, a) # {}
    BY <1>3 DEF Accounts, LegsTogether
  <2> QED
    BY <1>2, <2>1, FS_EmptySet
<1>4. ASSUME NEW direction PROVE SideTogether(d, a, direction) \in Nat
  <2> DEFINE f == [x \in LegsTogether(d, a) |-> LegAt(x).amount]
             S == {x \in LegsTogether(d, a) : LegAt(x).direction = direction}
  <2>1. IsFiniteSet(S)
    <3>1. S \in SUBSET LegsTogether(d, a)
      OBVIOUS
    <3> QED
      BY <1>2, <3>1, FS_Subset
  <2>2. \A x \in S : f[x] \in Nat
    BY <1>1, LegsTogetherShape DEF Leg
  <2> HIDE DEF f, S
  <2>3. SumFunctionOnSet(f, S) \in Nat
    BY <2>1, <2>2, SumNat
  <2> QED
    BY <2>3 DEF SideTogether, f, S
<1> QED
  BY <1>2, <1>3, <1>4

(* Later in the batch: of a later member, or later in the same one.        *)
After(S, x) == {y \in S : x[1] < y[1] \/ (x[1] = y[1] /\ x[2] < y[2])}

(* Of finitely many legs each has fewer after it than there are, and no    *)
(* two have as many.                                                       *)
LEMMA PlacesDiffer ==
  ASSUME NEW S, IsFiniteSet(S),
         \A x \in S : x = <<x[1], x[2]>> /\ x[1] \in Nat /\ x[2] \in Nat
  PROVE  /\ \A x \in S : Cardinality(After(S, x)) \in 0..(Cardinality(S) - 1)
         /\ \A x, y \in S : Cardinality(After(S, x)) = Cardinality(After(S, y)) => x = y
<1>1. ASSUME NEW x \in S
      PROVE  /\ After(S, x) \in SUBSET S /\ x \notin After(S, x)
             /\ IsFiniteSet(After(S, x)) /\ Cardinality(After(S, x)) \in Nat
  <2>1. After(S, x) \in SUBSET S /\ x \notin After(S, x)
    BY DEF After
  <2> QED
    BY <2>1, FS_Subset, FS_CardinalityType
<1>2. ASSUME NEW x \in S
      PROVE  Cardinality(After(S, x)) \in 0..(Cardinality(S) - 1)
  <2>1. /\ Cardinality(After(S, x)) <= Cardinality(S)
        /\ Cardinality(S) = Cardinality(After(S, x)) => S = After(S, x)
    BY <1>1, FS_Subset
  <2>2. Cardinality(S) \in Nat
    BY FS_CardinalityType
  <2> QED
    BY <1>1, <2>1, <2>2
<1>3. ASSUME NEW x \in S, NEW y \in S, y \in After(S, x)
      PROVE  Cardinality(After(S, y)) < Cardinality(After(S, x))
  <2>1. After(S, y) \in SUBSET After(S, x)
    BY <1>3 DEF After
  <2>2. /\ Cardinality(After(S, y)) <= Cardinality(After(S, x))
        /\ Cardinality(After(S, x)) = Cardinality(After(S, y)) => After(S, x) = After(S, y)
    BY <1>1, <2>1, FS_Subset
  <2> QED
    BY <1>1, <1>3, <2>2
<1>4. ASSUME NEW x \in S, NEW y \in S PROVE x = y \/ y \in After(S, x) \/ x \in After(S, y)
  BY DEF After
<1>5. ASSUME NEW x \in S, NEW y \in S, Cardinality(After(S, x)) = Cardinality(After(S, y))
      PROVE  x = y
  BY <1>1, <1>3, <1>4, <1>5
<1> QED
  BY <1>2, <1>5

(* A leg is numbered from behind, within its account.                      *)
LEMMA SeqOffsetIsPlace ==
  ASSUME NEW d, NEW x, NEW a, LegAt(x).account = a
  PROVE  SeqOffset(d, x) = Cardinality(After(LegsTogether(d, a), x))
BY DEF SeqOffset, After

(* The stripe a dispatcher writes of an account.                           *)
LEMMA RowOfShape ==
  ASSUME NEW d \in Dispatchers, NEW a \in OpenAccounts
  PROVE  RowOf(d, a) \in Rows /\ RowOf(d, a)[1] = a
<1>1. Affinity[d] % StripeCount[a] \in 0..(StripeCount[a] - 1)
  BY StripesAssumption
<1> QED
  BY <1>1 DEF RowOf, Rows

-----------------------------------------------------------------------------
(* The rows a batch holds *)

(* A held row is the row of an account some member posts to, stands at the *)
(* committed counters plus what the members move together, fits the width, *)
(* and is held by that dispatcher alone.                                   *)
RowHeld(d, r) ==
  /\ pc[d] \in {"upserting", "committing"}
  /\ \E a \in Accounts(d) \cap OpenAccounts :
       r = RowOf(d, a) /\ wrote[d][r] = Upserted(d, a)
  /\ FitsTheRow(wrote[d][r])
  /\ \A e \in Dispatchers \ {d} : wrote[e][r] = NoRow

RowsAreHeld == \A d \in Dispatchers, r \in Rows : wrote[d][r] # NoRow => RowHeld(d, r)

(* What reaches the commit has written all its rows.                       *)
RowsAreWritten == \A d \in Dispatchers : At(d, "committing") => AccountsLeft(d) = {}

(* The book has its shape, and no counter in it leaves the width.          *)
BookShaped ==
  /\ wrote = [d \in Dispatchers |-> [r \in Rows |-> wrote[d][r]]]
  /\ DOMAIN entries = Calls /\ txns \subseteq Calls
  /\ \A c \in txns : \A i \in DOMAIN entries[c] : entries[c][i].leg \in Leg
  /\ \A r \in Rows : IsRow(balances[r]) /\ FitsTheRow(balances[r])

RowsInv == BookShaped /\ RowsAreHeld /\ RowsAreWritten

LEMMA RowsInit == Init => RowsInv
<1> SUFFICES ASSUME Init PROVE RowsInv
  OBVIOUS
<1>1. IsRow(NoRow) /\ FitsTheRow(NoRow)
  BY MaxMinorAssumption DEF IsRow, NoRow, FitsTheRow
<1>2. BookShaped
  BY <1>1 DEF Init, BookShaped
<1>3. RowsAreHeld /\ RowsAreWritten
  BY DEF Init, RowsAreHeld, RowsAreWritten, At
<1> QED
  BY <1>2, <1>3 DEF RowsInv

(* The legs of a batch stay while its members are the same.                *)
LEMMA SameMembersSameLegs ==
  ASSUME UNCHANGED req, NEW d, Proceeding(d)' = Proceeding(d)
  PROVE  /\ Legs(d)' = Legs(d) /\ Accounts(d)' = Accounts(d)
         /\ \A a : LegsTogether(d, a)' = LegsTogether(d, a)
         /\ \A a, direction : SideTogether(d, a, direction)' = SideTogether(d, a, direction)
<1>1. \A c : LegsOf(c)' = LegsOf(c)
  BY DEF LegsOf
<1>2. \A x : LegAt(x)' = LegAt(x)
  BY <1>1 DEF LegAt
<1>3. Legs(d)' = Legs(d)
  BY <1>1 DEF Legs
<1>4. Accounts(d)' = Accounts(d)
  BY <1>2, <1>3 DEF Accounts
<1>5. \A a : LegsTogether(d, a)' = LegsTogether(d, a)
  BY <1>2, <1>3 DEF LegsTogether
<1>6. ASSUME NEW a, NEW direction
      PROVE  SideTogether(d, a, direction)' = SideTogether(d, a, direction)
  <2>1. [x \in LegsTogether(d, a) |-> LegAt(x).amount]' = [x \in LegsTogether(d, a) |-> LegAt(x).amount]
    BY <1>2, <1>5
  <2>2. {x \in LegsTogether(d, a) : LegAt(x).direction = direction}' =
          {x \in LegsTogether(d, a) : LegAt(x).direction = direction}
    BY <1>2, <1>5
  <2> QED
    BY <2>1, <2>2 DEF SideTogether
<1> QED
  BY <1>3, <1>4, <1>5, <1>6

(* The members whose claim holds stay while the claims among the carried   *)
(* do.                                                                     *)
LEMMA HeldStays ==
  ASSUME UNCHANGED req, NEW d \in Dispatchers, NEW r \in Rows, RowHeld(d, r),
         pc'[d] \in {"upserting", "committing"}, Proceeding(d)' = Proceeding(d),
         wrote'[d][r] = wrote[d][r], balances'[r] = balances[r],
         \A e \in Dispatchers \ {d} : wrote'[e][r] = NoRow
  PROVE  RowHeld(d, r)'
<1>1. PICK a \in Accounts(d) \cap OpenAccounts :
        r = RowOf(d, a) /\ wrote[d][r] = Upserted(d, a)
  BY DEF RowHeld
<1>2. Upserted(d, a)' = Upserted(d, a) /\ Accounts(d)' = Accounts(d) /\ RowOf(d, a)' = RowOf(d, a)
  BY <1>1, SameMembersSameLegs DEF Upserted, RowOf
<1>3. FitsTheRow(wrote[d][r])'
  BY DEF RowHeld, FitsTheRow
<1> QED
  BY <1>1, <1>2, <1>3 DEF RowHeld

(* A step that writes no row and commits none keeps the rows held: the     *)
(* dispatcher that takes it holds none, or goes on with the members it has.*)
LEMMA RowsStay ==
  ASSUME RowsInv, UNCHANGED <<req, wrote, txns, entries, balances>>, NEW d \in Dispatchers,
         \A e \in Dispatchers \ {d} : pc'[e] = pc[e] /\ Proceeding(e)' = Proceeding(e),
         \/ pc[d] \in {"idle", "claiming"} /\ pc'[d] # "committing"
         \/ /\ pc[d] \in {"upserting", "committing"} /\ Proceeding(d)' = Proceeding(d)
            /\ \/ pc'[d] = pc[d]
               \/ pc'[d] = "committing" /\ AccountsLeft(d) = {}
  PROVE  RowsInv'
<1>1. BookShaped'
  BY DEF RowsInv, BookShaped
<1>2. RowsAreHeld'
  <2> SUFFICES ASSUME NEW e \in Dispatchers, NEW r \in Rows, wrote'[e][r] # NoRow
               PROVE  RowHeld(e, r)'
    BY DEF RowsAreHeld
  <2>1. RowHeld(e, r) /\ \A f \in Dispatchers \ {e} : wrote'[f][r] = NoRow
    BY DEF RowsInv, RowsAreHeld, RowHeld
  <2>2. pc'[e] \in {"upserting", "committing"} /\ Proceeding(e)' = Proceeding(e)
    BY <2>1 DEF RowHeld
  <2> QED
    BY <2>1, <2>2, HeldStays
<1>3. RowsAreWritten'
  <2> SUFFICES ASSUME NEW e \in Dispatchers, pc'[e] = "committing"
               PROVE  AccountsLeft(e)' = {}
    BY DEF RowsAreWritten, At
  <2>1. Proceeding(e)' = Proceeding(e) /\ AccountsLeft(e) = {}
    BY DEF RowsInv, RowsAreWritten, At
  <2>2. AccountsLeft(e)' = AccountsLeft(e)
    BY <2>1, SameMembersSameLegs DEF AccountsLeft, RowOf
  <2> QED
    BY <2>1, <2>2
<1> QED
  BY <1>1, <1>2, <1>3 DEF RowsInv

(* The row a dispatcher writes next is one no other holds, and the members *)
(* that share it are written together.                                     *)
LEMMA UpsertHolds ==
  ASSUME BatchInv, RowsInv, NEW d \in Dispatchers, Upsert(d)
  PROVE  RowsInv'
<1>a. PICK next : next = Min(AccountsLeft(d))
  OBVIOUS
<1>b. PICK row : row = RowOf(d, next)
  OBVIOUS
<1>1. pc[d] = "upserting" /\ UNCHANGED <<req, pc, carried, claims, entries, balances, txns>>
  BY DEF Upsert, At, bookVars
<1>2. next \in AccountsLeft(d) /\ next \in OpenAccounts /\ next \in Accounts(d)
  <2>1. AccountsLeft(d) \in SUBSET Nat /\ AccountsLeft(d) # {}
    BY StripesAssumption DEF Upsert, AccountsLeft
  <2> QED
    BY <2>1, <1>a, MinIsMember DEF AccountsLeft
<1>3. row \in Rows
  BY <1>2, <1>b, RowOfShape
<1>4. \A e \in Dispatchers \ {d} : wrote[e][row] = NoRow
  BY <1>a, <1>b DEF Upsert, RowRivals, NextRow
<1>5. /\ FitsTheRow(Upserted(d, next))
      /\ wrote' = [wrote EXCEPT ![d][row] = Upserted(d, next)]
  BY <1>a, <1>b DEF Upsert, NextRow
<1>6. /\ wrote'[d][row] = Upserted(d, next)
      /\ \A e \in Dispatchers, r \in Rows : e # d \/ r # row => wrote'[e][r] = wrote[e][r]
      /\ wrote' = [e \in Dispatchers |-> [r \in Rows |-> wrote'[e][r]]]
  BY <1>3, <1>5 DEF RowsInv, BookShaped
<1>7. \A e : Proceeding(e)' = Proceeding(e)
  BY <1>1 DEF Proceeding
<1>8. RowHeld(d, row)'
  <2>1. Upserted(d, next)' = Upserted(d, next) /\ Accounts(d)' = Accounts(d)
        /\ RowOf(d, next)' = RowOf(d, next)
    BY <1>1, <1>7, SameMembersSameLegs DEF Upserted, RowOf
  <2>2. \A e \in Dispatchers \ {d} : wrote'[e][row] = NoRow
    BY <1>3, <1>4, <1>6
  <2>3. FitsTheRow(wrote'[d][row])
    BY <1>5, <1>6
  <2> QED
    BY <1>1, <1>2, <1>6, <1>b, <2>1, <2>2, <2>3 DEF RowHeld, FitsTheRow
<1>9. ASSUME NEW e \in Dispatchers, NEW r \in Rows, wrote'[e][r] # NoRow, e # d \/ r # row
      PROVE  RowHeld(e, r)'
  <2>1. wrote[e][r] # NoRow /\ RowHeld(e, r)
    BY <1>6, <1>9 DEF RowsInv, RowsAreHeld
  <2>2. \A f \in Dispatchers \ {e} : wrote'[f][r] = NoRow
    <3>1. r # row
      BY <1>4, <1>9, <2>1
    <3> QED
      BY <1>6, <2>1, <3>1 DEF RowHeld
  <2>3. pc'[e] \in {"upserting", "committing"}
    BY <1>1, <2>1 DEF RowHeld
  <2> QED
    BY <1>1, <1>6, <1>7, <1>9, <2>1, <2>2, <2>3, HeldStays
<1>10. RowsAreHeld'
  BY <1>8, <1>9 DEF RowsAreHeld
<1>11. RowsAreWritten'
  <2> SUFFICES ASSUME NEW e \in Dispatchers, pc'[e] = "committing"
               PROVE  AccountsLeft(e)' = {}
    BY DEF RowsAreWritten, At
  <2>1. e # d /\ AccountsLeft(e) = {}
    BY <1>1 DEF RowsInv, RowsAreWritten, At
  <2>2. Accounts(e)' = Accounts(e)
    BY <1>1, <1>7, SameMembersSameLegs
  <2>3. \A a \in OpenAccounts : wrote'[e][RowOf(e, a)] = wrote[e][RowOf(e, a)]
    BY <1>6, <2>1, RowOfShape
  <2> QED
    BY <2>1, <2>2, <2>3 DEF AccountsLeft, RowOf
<1>12. BookShaped'
  BY <1>1, <1>6 DEF RowsInv, BookShaped, IsRow, FitsTheRow
<1> QED
  BY <1>10, <1>11, <1>12 DEF RowsInv

(* The transaction of one dispatcher ends: the others keep what they hold. *)
LEMMA RowsOutlastAnEnd ==
  ASSUME BatchInv, RowsInv, NEW d \in Dispatchers, EndTransaction(d), UNCHANGED req, BookShaped',
         \A e \in Dispatchers \ {d}, r \in Rows : wrote[e][r] # NoRow => balances'[r] = balances[r]
  PROVE  RowsInv'
<1>1. /\ \A r \in Rows : wrote'[d][r] = NoRow
      /\ pc'[d] = "idle"
      /\ \A e \in Dispatchers \ {d} :
           wrote'[e] = wrote[e] /\ pc'[e] = pc[e] /\ carried'[e] = carried[e]
      /\ claims' = claims \ carried[d]
  BY DEF EndTransaction, Goto, RowsInv, BookShaped, BatchInv, Types
<1>2. \A e \in Dispatchers \ {d} : Proceeding(e)' = Proceeding(e)
  BY <1>1 DEF Proceeding, BatchInv, Apart
<1>3. RowsAreHeld'
  <2> SUFFICES ASSUME NEW e \in Dispatchers, NEW r \in Rows, wrote'[e][r] # NoRow
               PROVE  RowHeld(e, r)'
    BY DEF RowsAreHeld
  <2>1. e # d /\ wrote[e][r] # NoRow /\ RowHeld(e, r)
    BY <1>1 DEF RowsInv, RowsAreHeld
  <2>2. \A f \in Dispatchers \ {e} : wrote'[f][r] = NoRow
    BY <1>1, <2>1 DEF RowHeld
  <2>3. /\ pc'[e] \in {"upserting", "committing"} /\ wrote'[e][r] = wrote[e][r]
        /\ balances'[r] = balances[r]
    BY <1>1, <2>1 DEF RowHeld
  <2> QED
    BY <1>2, <2>1, <2>2, <2>3, HeldStays
<1>4. RowsAreWritten'
  <2> SUFFICES ASSUME NEW e \in Dispatchers, pc'[e] = "committing"
               PROVE  AccountsLeft(e)' = {}
    BY DEF RowsAreWritten, At
  <2>1. e # d /\ AccountsLeft(e) = {} /\ wrote'[e] = wrote[e] /\ Proceeding(e)' = Proceeding(e)
    BY <1>1, <1>2 DEF RowsInv, RowsAreWritten, At
  <2>2. AccountsLeft(e)' = AccountsLeft(e)
    BY <2>1, SameMembersSameLegs DEF AccountsLeft, RowOf
  <2> QED
    BY <2>1, <2>2
<1> QED
  BY <1>3, <1>4 DEF RowsInv

(* A transaction that ends with nothing committed.                         *)
LEMMA RowsOutlastAFailure ==
  ASSUME BatchInv, RowsInv, NEW d \in Dispatchers, EndTransaction(d),
         UNCHANGED <<req, txns, entries, balances>>
  PROVE  RowsInv'
<1>1. wrote' = [e \in Dispatchers |-> [r \in Rows |-> wrote'[e][r]]]
  BY DEF EndTransaction, RowsInv, BookShaped
<1>2. BookShaped'
  BY <1>1 DEF RowsInv, BookShaped, IsRow, FitsTheRow
<1> QED
  BY <1>2, RowsOutlastAnEnd

(* What an upsert writes is a row of numbers.                              *)
LEMMA UpsertedIsRow ==
  ASSUME BatchInv, RowsInv, NEW d \in Dispatchers, NEW a \in OpenAccounts
  PROVE  IsRow(Upserted(d, a))
<1>1. IsRow(balances[RowOf(d, a)])
  BY RowOfShape DEF RowsInv, BookShaped
<1>2. /\ SideTogether(d, a, "debit") \in Nat /\ SideTogether(d, a, "credit") \in Nat
      /\ Cardinality(LegsTogether(d, a)) \in Nat
  BY LegsTogetherCount DEF BatchInv
<1>3. /\ balances[RowOf(d, a)].input \in Nat /\ balances[RowOf(d, a)].output \in Nat
      /\ balances[RowOf(d, a)].seq \in Nat
  BY <1>1 DEF IsRow, NoRow
<1> QED
  BY <1>2, <1>3 DEF Upserted, IsRow, NoRow

-----------------------------------------------------------------------------
(* What a commit does to a row *)

(* The legs a batch lands on a row, named as its entries will be.          *)
Landing(d, r) == {x \in Legs(d) : RowOf(d, LegAt(x).account) = r}

(* The book a commit leaves, acknowledged or not.                          *)
LEMMA WhatIsCommitted ==
  ASSUME BatchInv, NEW d \in Dispatchers, CommitTheBook(d)
  PROVE  /\ Transactions(d) = Proceeding(d)
         /\ Proceeding(d) \subseteq Calls /\ Proceeding(d) \cap txns = {}
         /\ txns' = txns \cup Proceeding(d) /\ UNCHANGED req
         /\ \A c \in Proceeding(d) : entries'[c] = EntriesOf(d, c)
         /\ \A c \in txns : entries'[c] = entries[c]
         /\ \A r \in Rows : /\ wrote[d][r] = NoRow => balances'[r] = balances[r]
                            /\ wrote[d][r] # NoRow => balances'[r] = wrote[d][r]
<1>1. Transactions(d) = Proceeding(d)
  BY DEF CommitTheBook, Transactions, BatchInv, Carryable
<1>2. Proceeding(d) \subseteq Calls /\ txns \subseteq Calls
  BY DEF Proceeding, BatchInv, Types, NoOrphanedEvent
<1>3. Proceeding(d) \cap txns = {}
  BY DEF Proceeding, BatchInv, Batches, Unwritten, NoOrphanedEvent
<1> QED
  BY <1>1, <1>2, <1>3 DEF CommitTheBook

(* A batch that commits has written every row it has legs for, no other.   *)
LEMMA RowsOfACommit ==
  ASSUME BatchInv, RowsInv, NEW d \in Dispatchers, CommitTheBook(d), NEW r \in Rows
  PROVE  \/ wrote[d][r] = NoRow /\ Landing(d, r) = {}
         \/ /\ wrote[d][r] # NoRow
            /\ \E a \in OpenAccounts :
                 /\ a \in Accounts(d) /\ r = RowOf(d, a)
                 /\ wrote[d][r] = Upserted(d, a)
                 /\ Landing(d, r) = LegsTogether(d, a)
<1>1. AccountsLeft(d) = {}
  BY DEF CommitTheBook, RowsInv, RowsAreWritten
<1>2. Accounts(d) \subseteq OpenAccounts
  <2> SUFFICES ASSUME NEW x \in Legs(d) PROVE LegAt(x).account \in OpenAccounts
    BY DEF Accounts
  <2>1. x[1] \in Proceeding(d) /\ x[2] \in DOMAIN LegsOf(x[1])
    BY LegsTogetherShape DEF BatchInv
  <2>2. UnknownAccounts(x[1]) = {}
    BY <2>1 DEF CommitTheBook, BatchInv, Carryable
  <2> QED
    BY <2>1, <2>2 DEF UnknownAccounts, AccountsOf, LegAt
<1>3. \A a \in Accounts(d) : RowOf(d, a) \in Rows /\ RowOf(d, a)[1] = a
                             /\ wrote[d][RowOf(d, a)] # NoRow
  BY <1>1, <1>2, RowOfShape DEF AccountsLeft
<1>4. \A x \in Legs(d) : LegAt(x).account \in Accounts(d)
  BY DEF Accounts
<1>5. CASE wrote[d][r] = NoRow
  BY <1>3, <1>4, <1>5 DEF Landing
<1>6. CASE wrote[d][r] # NoRow
  <2>1. PICK a \in Accounts(d) \cap OpenAccounts :
          r = RowOf(d, a) /\ wrote[d][r] = Upserted(d, a)
    BY <1>6 DEF RowsInv, RowsAreHeld, RowHeld
  <2>2. \A x \in Legs(d) : RowOf(d, LegAt(x).account) = r <=> LegAt(x).account = a
    BY <1>3, <1>4, <2>1
  <2>3. Landing(d, r) = LegsTogether(d, a)
    BY <2>2 DEF Landing, LegsTogether
  <2> QED
    BY <1>6, <2>1, <2>3
<1> QED
  BY <1>5, <1>6

(* A member's entries carry its legs.                                      *)
LEMMA EntriesCarryLegs ==
  ASSUME NEW d, NEW c
  PROVE  /\ DOMAIN EntriesOf(d, c) = DOMAIN LegsOf(c)
         /\ \A i \in DOMAIN LegsOf(c) : EntriesOf(d, c)[i].leg = LegsOf(c)[i]
BY DEF EntriesOf

(* On each row, a commit appends the members' legs to the row's entries.   *)
LEMMA EntriesOfACommit ==
  ASSUME BatchInv, NEW d \in Dispatchers, CommitTheBook(d), NEW r \in Rows
  PROVE  /\ EntriesOn(r)' = EntriesOn(r) \cup Landing(d, r)
         /\ EntriesOn(r) \cap Landing(d, r) = {}
         /\ \A x \in EntriesOn(r) : x[1] \in txns /\ entries'[x[1]] = entries[x[1]]
         /\ \A x \in Landing(d, r) :
              x[1] \in Proceeding(d) /\ x[2] \in DOMAIN LegsOf(x[1])
              /\ entries'[x[1]] = EntriesOf(d, x[1]) /\ entries'[x[1]][x[2]].leg = LegAt(x)
<1>1. /\ Proceeding(d) \cap txns = {}
      /\ txns' = txns \cup Proceeding(d)
      /\ \A c \in Proceeding(d) : entries'[c] = EntriesOf(d, c)
      /\ \A c \in txns : entries'[c] = entries[c]
  BY WhatIsCommitted
<1>2. \A x \in EntriesOn(r) : x[1] \in txns
  BY DEF EntriesOn
<1>3. \A x \in Landing(d, r) : x[1] \in Proceeding(d) /\ x[2] \in DOMAIN LegsOf(x[1])
  BY LegsTogetherShape DEF Landing, BatchInv
<1>4. ASSUME NEW c \in Proceeding(d), NEW i \in DOMAIN LegsOf(c)
      PROVE  /\ EntriesOf(d, c)[i].leg = LegAt(<<c, i>>)
             /\ <<EntriesOf(d, c)[i].leg.account, EntriesOf(d, c)[i].stripe>> =
                  RowOf(d, LegAt(<<c, i>>).account)
  BY DEF EntriesOf, RowOf, LegAt
<1>5. \A c \in Proceeding(d) : DOMAIN EntriesOf(d, c) = DOMAIN LegsOf(c)
  BY EntriesCarryLegs
<1>6. ASSUME NEW c \in txns', NEW i \in DOMAIN entries'[c]
      PROVE  <<c, i>> \in EntriesOn(r)' <=> <<c, i>> \in EntriesOn(r) \/ <<c, i>> \in Landing(d, r)
  <2>1. CASE c \in Proceeding(d)
    <3>1. <<c, i>> \in Legs(d) /\ i \in DOMAIN LegsOf(c)
      BY <1>1, <1>5, <1>6, <2>1 DEF Legs
    <3>2. <<c, i>> \notin EntriesOn(r)
      BY <1>1, <1>2, <2>1
    <3>3. <<c, i>> \in EntriesOn(r)' <=> RowOf(d, LegAt(<<c, i>>).account) = r
      BY <1>1, <1>4, <1>6, <2>1, <3>1 DEF EntriesOn
    <3> QED
      BY <3>1, <3>2, <3>3 DEF Landing
  <2>2. CASE c \in txns
    BY <1>1, <1>3, <1>6, <2>2 DEF EntriesOn
  <2> QED
    BY <1>1, <2>1, <2>2
<1>7. \A x \in EntriesOn(r)' : \E c \in txns' : \E i \in DOMAIN entries'[c] : x = <<c, i>>
  BY DEF EntriesOn
<1>8. \A x \in EntriesOn(r) : \E c \in txns' : \E i \in DOMAIN entries'[c] : x = <<c, i>>
  BY <1>1 DEF EntriesOn
<1>9. \A x \in Landing(d, r) : \E c \in txns' : \E i \in DOMAIN entries'[c] : x = <<c, i>>
  <2> SUFFICES ASSUME NEW x \in Landing(d, r)
               PROVE  \E c \in txns' : \E i \in DOMAIN entries'[c] : x = <<c, i>>
    OBVIOUS
  <2>1. x = <<x[1], x[2]>>
    BY LegsTogetherShape DEF Landing, BatchInv
  <2>2. x[1] \in txns' /\ x[2] \in DOMAIN entries'[x[1]]
    BY <1>1, <1>3, <1>5
  <2> QED
    BY <2>1, <2>2
<1>10. EntriesOn(r)' = EntriesOn(r) \cup Landing(d, r)
  BY <1>6, <1>7, <1>8, <1>9
<1>11. EntriesOn(r) \cap Landing(d, r) = {}
  BY <1>1, <1>2, <1>3
<1>12. ASSUME NEW x \in Landing(d, r) PROVE entries'[x[1]][x[2]].leg = LegAt(x)
  BY <1>1, <1>3, EntriesCarryLegs DEF LegAt
<1> QED
  BY <1>1, <1>2, <1>3, <1>10, <1>11, <1>12

(* The book a commit leaves has its shape.                                 *)
LEMMA CommitShapes ==
  ASSUME BatchInv, RowsInv, NEW d \in Dispatchers, CommitTheBook(d), EndTransaction(d)
  PROVE  RowsInv'
<1>1. /\ Proceeding(d) \subseteq Calls
      /\ txns' = txns \cup Proceeding(d) /\ UNCHANGED req
      /\ \A c \in Proceeding(d) : entries'[c] = EntriesOf(d, c)
      /\ \A c \in txns : entries'[c] = entries[c]
      /\ \A r \in Rows : /\ wrote[d][r] = NoRow => balances'[r] = balances[r]
                         /\ wrote[d][r] # NoRow => balances'[r] = wrote[d][r]
  BY WhatIsCommitted
<1>2. wrote' = [e \in Dispatchers |-> [r \in Rows |-> wrote'[e][r]]]
  BY DEF EndTransaction, RowsInv, BookShaped
<1>3. DOMAIN entries' = Calls /\ txns' \subseteq Calls
  BY <1>1 DEF CommitTheBook, RowsInv, BookShaped
<1>4. ASSUME NEW c \in txns', NEW i \in DOMAIN entries'[c] PROVE entries'[c][i].leg \in Leg
  <2>1. CASE c \in txns
    BY <1>1, <1>4, <2>1 DEF RowsInv, BookShaped
  <2>2. CASE c \in Proceeding(d)
    <3>1. i \in DOMAIN LegsOf(c) /\ entries'[c][i].leg = LegsOf(c)[i]
      BY <1>1, <1>4, <2>2, EntriesCarryLegs
    <3> QED
      BY <1>1, <2>2, <3>1, BatchedLegsShape DEF BatchInv
  <2> QED
    BY <1>1, <2>1, <2>2
<1>5. ASSUME NEW r \in Rows PROVE IsRow(balances'[r]) /\ FitsTheRow(balances'[r])
  <2>1. CASE wrote[d][r] = NoRow
    BY <1>1, <2>1 DEF RowsInv, BookShaped
  <2>2. CASE wrote[d][r] # NoRow
    <3>1. PICK a \in OpenAccounts :
            a \in Accounts(d) /\ r = RowOf(d, a) /\ wrote[d][r] = Upserted(d, a)
      BY <2>2, RowsOfACommit
    <3>2. FitsTheRow(wrote[d][r])
      BY <2>2 DEF RowsInv, RowsAreHeld, RowHeld
    <3>3. IsRow(Upserted(d, a))
      BY <3>1, UpsertedIsRow
    <3> QED
      BY <1>1, <2>2, <3>1, <3>2, <3>3
  <2> QED
    BY <2>1, <2>2
<1>6. BookShaped'
  BY <1>2, <1>3, <1>4, <1>5 DEF BookShaped, IsRow, FitsTheRow
<1>7. \A e \in Dispatchers \ {d}, r \in Rows : wrote[e][r] # NoRow => balances'[r] = balances[r]
  BY <1>1 DEF RowsInv, RowsAreHeld, RowHeld
<1> QED
  BY <1>1, <1>6, <1>7, RowsOutlastAnEnd

(* A commit leaves each row's numbers without gap or repeat.               *)
LEMMA CommitNumbers ==
  ASSUME BatchInv, RowsInv, NEW d \in Dispatchers, CommitTheBook(d), NEW r \in Rows,
         IsFiniteSet(EntriesOn(r)),
         {entries[x[1]][x[2]].seq : x \in EntriesOn(r)} = 1..balances[r].seq,
         Cardinality(EntriesOn(r)) = balances[r].seq
  PROVE  /\ IsFiniteSet(EntriesOn(r)')
         /\ {entries'[x[1]][x[2]].seq : x \in EntriesOn(r)'} = 1..balances'[r].seq
         /\ Cardinality(EntriesOn(r)') = balances'[r].seq
<1> DEFINE E == EntriesOn(r)
           N == Landing(d, r)
<1>1. /\ EntriesOn(r)' = E \cup N /\ E \cap N = {}
      /\ \A x \in E : entries'[x[1]] = entries[x[1]]
      /\ \A x \in N : x[1] \in Proceeding(d) /\ x[2] \in DOMAIN LegsOf(x[1])
                      /\ entries'[x[1]] = EntriesOf(d, x[1])
  BY EntriesOfACommit
<1>2. CASE wrote[d][r] = NoRow
  <2>1. N = {} /\ balances'[r] = balances[r]
    BY <1>2, RowsOfACommit, WhatIsCommitted
  <2> HIDE DEF N, E
  <2>2. EntriesOn(r)' = E
    BY <1>1, <2>1
  <2>3. {entries'[x[1]][x[2]].seq : x \in E} = {entries[x[1]][x[2]].seq : x \in E}
    BY <1>1
  <2> QED
    BY <2>1, <2>2, <2>3 DEF E
<1>3. CASE wrote[d][r] # NoRow
  <2>1. PICK a \in OpenAccounts :
          /\ a \in Accounts(d) /\ r = RowOf(d, a) /\ wrote[d][r] = Upserted(d, a)
          /\ N = LegsTogether(d, a)
    BY <1>3, RowsOfACommit
  <2> DEFINE last == balances[r].seq
             n == Cardinality(N)
             place == [x \in N |-> Cardinality(After(N, x))]
             seq == [x \in E \cup N |-> entries'[x[1]][x[2]].seq]
  <2>2. IsFiniteSet(N) /\ n \in Nat /\ last \in Nat
    <3>1. IsFiniteSet(LegsTogether(d, a)) /\ Cardinality(LegsTogether(d, a)) \in Nat
      BY LegsTogetherCount DEF BatchInv
    <3>2. balances[r].seq \in Nat
      BY DEF RowsInv, BookShaped, IsRow, NoRow
    <3> QED
      BY <2>1, <3>1, <3>2
  <2>3. wrote[d][r].seq = last + n
    BY <2>1 DEF Upserted
  <2>4. /\ \A x \in N : place[x] \in 0..(n - 1)
        /\ \A x, y \in N : place[x] = place[y] => x = y
    <3>1. \A x \in N : x = <<x[1], x[2]>> /\ x[1] \in Nat /\ x[2] \in Nat
      BY LegsTogetherShape DEF Landing, BatchInv
    <3> HIDE DEF N
    <3>2. /\ \A x \in N : Cardinality(After(N, x)) \in 0..(Cardinality(N) - 1)
          /\ \A x, y \in N : Cardinality(After(N, x)) = Cardinality(After(N, y)) => x = y
      BY <2>2, <3>1, PlacesDiffer
    <3> QED
      BY <3>2
  <2>5. ASSUME NEW x \in N PROVE seq[x] = (last + n) - place[x]
    <3>1. LegAt(x).account = a /\ x = <<x[1], x[2]>>
      BY <2>1, <2>5, LegsTogetherShape DEF LegsTogether, BatchInv
    <3>2. SeqOffset(d, x) = place[x]
      BY <2>1, <3>1, SeqOffsetIsPlace
    <3>3. x[1] \in Proceeding(d) /\ x[2] \in DOMAIN LegsOf(x[1])
          /\ entries'[x[1]] = EntriesOf(d, x[1])
      BY <1>1
    <3>4. EntriesOf(d, x[1])[x[2]].seq =
            wrote[d][RowOf(d, LegAt(<<x[1], x[2]>>).account)].seq - SeqOffset(d, <<x[1], x[2]>>)
      BY <3>3 DEF EntriesOf
    <3> HIDE DEF place, last, n
    <3>5. EntriesOf(d, x[1])[x[2]].seq = wrote[d][r].seq - place[x]
      BY <2>1, <3>1, <3>2, <3>4
    <3>6. seq[x] = entries'[x[1]][x[2]].seq
      OBVIOUS
    <3>7. entries'[x[1]][x[2]].seq = EntriesOf(d, x[1])[x[2]].seq
      BY <3>3
    <3> HIDE DEF seq
    <3> QED
      BY <2>3, <3>5, <3>6, <3>7
  <2>6. \A x \in E : seq[x] = entries[x[1]][x[2]].seq
    BY <1>1
  <2> HIDE DEF seq, n, last, place
  <2>7. \A x \in N : seq[x] \in (last + 1)..(last + n)
    <3> SUFFICES ASSUME NEW x \in N PROVE seq[x] \in (last + 1)..(last + n)
      OBVIOUS
    <3>1. place[x] \in 0..(n - 1) /\ seq[x] = (last + n) - place[x]
      BY <2>4, <2>5
    <3> QED
      BY <2>2, <3>1
  <2>8. \A x, y \in N : seq[x] = seq[y] => x = y
    <3> SUFFICES ASSUME NEW x \in N, NEW y \in N, seq[x] = seq[y] PROVE x = y
      OBVIOUS
    <3>1. /\ place[x] \in 0..(n - 1) /\ seq[x] = (last + n) - place[x]
          /\ place[y] \in 0..(n - 1) /\ seq[y] = (last + n) - place[y]
      BY <2>4, <2>5
    <3>2. PICK p \in 0..(n - 1), q \in 0..(n - 1) : p = place[x] /\ q = place[y]
      BY <3>1
    <3>3. (last + n) - p = (last + n) - q
      BY <3>1, <3>2
    <3>4. p = q
      BY <2>2, <3>3
    <3> QED
      BY <2>4, <3>2, <3>4
  <2>9. Numbered(E, seq, last)
    BY <2>6 DEF last, Numbered
  <2>10. Appends(N, seq, last, n)
    BY <2>2, <2>7, <2>8 DEF Appends, n
  <2> HIDE DEF E, N
  <2>11. Numbered(E \cup N, seq, last + n)
    BY <1>1, <2>2, <2>9, <2>10, NumberingGrows
  <2>12. {entries'[x[1]][x[2]].seq : x \in E \cup N} = 1..(last + n)
    <3>1. \A x \in E \cup N : entries'[x[1]][x[2]].seq = seq[x]
      BY DEF seq
    <3>2. \A x \in E \cup N : seq[x] \in 1..(last + n)
      BY <2>11 DEF Numbered
    <3>3. \A k \in 1..(last + n) : \E x \in E \cup N : seq[x] = k
      BY <2>11 DEF Numbered
    <3> QED
      BY <3>1, <3>2, <3>3
  <2>13. balances'[r].seq = last + n
    BY <1>3, <2>3, WhatIsCommitted
  <2> QED
    BY <1>1, <2>11, <2>12, <2>13 DEF Numbered
<1> QED
  BY <1>2, <1>3

(* Which side of a balance row a direction moves.                          *)
Moved(row, direction) == IF direction = "debit" THEN row.input ELSE row.output

(* A row moves by what the members move on its account, together.          *)
LEMMA MovedByUpsert ==
  ASSUME NEW d, NEW a, NEW direction \in {"debit", "credit"}
  PROVE  Moved(Upserted(d, a), direction) =
           Moved(balances[RowOf(d, a)], direction) + SideTogether(d, a, direction)
BY DEF Moved, Upserted

(* What a commit adds to the entries of a row is what it adds to the row.  *)
LEMMA CommitSums ==
  ASSUME BatchInv, RowsInv, NEW d \in Dispatchers, CommitTheBook(d), NEW r \in Rows,
         IsFiniteSet(EntriesOn(r)), NEW direction \in {"debit", "credit"},
         Moved(balances[r], direction) = PostedSum(r, direction)
  PROVE  Moved(balances'[r], direction) = PostedSum(r, direction)'
<1> DEFINE E == EntriesOn(r)
           N == Landing(d, r)
           f == [x \in E |-> entries[x[1]][x[2]].leg.amount]
           g == [x \in E \cup N |-> entries'[x[1]][x[2]].leg.amount]
           P == {x \in E : entries[x[1]][x[2]].leg.direction = direction}
           Q == {x \in N : entries'[x[1]][x[2]].leg.direction = direction}
<1>1. /\ EntriesOn(r)' = E \cup N /\ E \cap N = {}
      /\ \A x \in E : x[1] \in txns /\ entries'[x[1]] = entries[x[1]]
      /\ \A x \in N : entries'[x[1]][x[2]].leg = LegAt(x)
  BY EntriesOfACommit
<1>2. PostedSum(r, direction) = SumFunctionOnSet(f, P)
  BY DEF PostedSum
<1>3. PostedSum(r, direction)' = SumFunctionOnSet(g, P \cup Q)
  <2>1. PostedSum(r, direction)' =
          SumFunctionOnSet(g, {x \in E \cup N : entries'[x[1]][x[2]].leg.direction = direction})
    BY <1>1 DEF PostedSum
  <2>2. {x \in E \cup N : entries'[x[1]][x[2]].leg.direction = direction} = P \cup Q
    BY <1>1
  <2> QED
    BY <2>1, <2>2
<1>4. /\ IsFiniteSet(P) /\ P \cap Q = {}
      /\ \A x \in P : f[x] \in Int /\ g[x] = f[x]
  <2>1. IsFiniteSet(P)
    BY FS_Subset
  <2>2. \A x \in E : f[x] \in Int
    <3> SUFFICES ASSUME NEW x \in E PROVE entries[x[1]][x[2]].leg.amount \in Int
      OBVIOUS
    <3>1. x[1] \in txns /\ x[2] \in DOMAIN entries[x[1]]
      BY DEF EntriesOn
    <3>2. entries[x[1]][x[2]].leg \in Leg
      BY <3>1 DEF RowsInv, BookShaped
    <3> QED
      BY <3>2 DEF Leg
  <2> QED
    BY <1>1, <2>1, <2>2
<1>5. CASE wrote[d][r] = NoRow
  <2>1. Q = {} /\ balances'[r] = balances[r]
    BY <1>5, RowsOfACommit, WhatIsCommitted
  <2> HIDE DEF E, N, P, Q, f, g
  <2>2. SumFunctionOnSet(g, P) = SumFunctionOnSet(f, P)
    BY <1>4, SumSame
  <2> QED
    BY <1>2, <1>3, <2>1, <2>2
<1>6. CASE wrote[d][r] # NoRow
  <2>1. PICK a \in OpenAccounts :
          /\ a \in Accounts(d) /\ r = RowOf(d, a)
          /\ wrote[d][r] = Upserted(d, a) /\ N = LegsTogether(d, a)
    BY <1>6, RowsOfACommit
  <2> DEFINE h == [x \in LegsTogether(d, a) |-> LegAt(x).amount]
             H == {x \in LegsTogether(d, a) : LegAt(x).direction = direction}
  <2>2. Q = H /\ \A x \in Q : g[x] = h[x] /\ g[x] \in Int
    <3>1. \A x \in N : LegAt(x) \in Leg
      BY LegsTogetherShape DEF Landing, BatchInv
    <3>2. \A x \in N : g[x] = LegAt(x).amount /\ LegAt(x).amount \in Nat
      BY <1>1, <3>1 DEF Leg
    <3> QED
      BY <1>1, <2>1, <3>2
  <2>3. IsFiniteSet(Q)
    <3>1. Q \in SUBSET N /\ IsFiniteSet(N)
      BY <2>1, LegsTogetherCount DEF BatchInv
    <3> QED
      BY <3>1, FS_Subset
  <2>4. SideTogether(d, a, direction) = SumFunctionOnSet(h, H)
    BY DEF SideTogether
  <2>5. balances'[r] = Upserted(d, a)
    BY <1>6, <2>1, WhatIsCommitted
  <2> HIDE DEF E, N, P, Q, H, f, g, h
  <2>6. SumFunctionOnSet(g, Q) = SumFunctionOnSet(h, Q)
    BY <2>2, <2>3, SumSame
  <2>7. SumFunctionOnSet(g, P \cup Q) = SumFunctionOnSet(f, P) + SumFunctionOnSet(g, Q)
    <3>1. \A x \in Q : g[x] \in Int
      BY <2>2
    <3> QED
      BY <1>4, <2>3, <3>1, SumGrows
  <2>8. Moved(balances'[r], direction) =
          Moved(balances[r], direction) + SideTogether(d, a, direction)
    BY <2>1, <2>5, MovedByUpsert
  <2> QED
    BY <1>2, <1>3, <2>2, <2>4, <2>6, <2>7, <2>8
<1> QED
  BY <1>5, <1>6

-----------------------------------------------------------------------------
(* The book *)

(* TheBookAddsUp counts and sums the entries of a row: they are finitely   *)
(* many.                                                                   *)
Book ==
  /\ \A r \in Rows : IsFiniteSet(EntriesOn(r))
  /\ TheBookAddsUp

(* Before the first post there is nothing to add up.                       *)
LEMMA BookInit == Init => Book
<1> SUFFICES ASSUME Init PROVE Book
  OBVIOUS
<1>1. \A r : EntriesOn(r) = {}
  BY DEF Init, EntriesOn
<1>2. \A r \in Rows : balances[r].input = 0 /\ balances[r].output = 0 /\ balances[r].seq = 0
  BY DEF Init, NoRow
<1>3. \A r, direction : PostedSum(r, direction) = 0
  <2> SUFFICES ASSUME NEW r, NEW direction PROVE PostedSum(r, direction) = 0
    OBVIOUS
  <2>1. {x \in EntriesOn(r) : entries[x[1]][x[2]].leg.direction = direction} = {}
    BY <1>1
  <2> QED
    BY <2>1, SumEmpty DEF PostedSum
<1>4. IsFiniteSet({}) /\ Cardinality({}) = 0 /\ 1..0 = {}
  BY FS_EmptySet
<1>5. \A r \in Rows : {entries[x[1]][x[2]].seq : x \in EntriesOn(r)} = 1..balances[r].seq
  BY <1>1, <1>2, <1>4
<1> QED
  BY <1>1, <1>2, <1>3, <1>4, <1>5 DEF Book, TheBookAddsUp, CacheMeansPosted, GaplessSequences

(* A step that commits nothing leaves what the book says as it was.        *)
LEMMA BookStays ==
  ASSUME Book, UNCHANGED <<txns, entries, balances>>
  PROVE  Book'
<1>1. \A r : EntriesOn(r)' = EntriesOn(r)
  BY DEF EntriesOn
<1>2. \A r, direction : PostedSum(r, direction)' = PostedSum(r, direction)
  BY <1>1 DEF PostedSum
<1> QED
  BY <1>1, <1>2 DEF Book, TheBookAddsUp, CacheMeansPosted, GaplessSequences

(* A commit extends it, acknowledged or not.                               *)
LEMMA BookCommits ==
  ASSUME BatchInv, RowsInv, Book, NEW d \in Dispatchers, CommitTheBook(d)
  PROVE  Book'
<1>1. ASSUME NEW r \in Rows
      PROVE  /\ IsFiniteSet(EntriesOn(r)')
             /\ {entries'[x[1]][x[2]].seq : x \in EntriesOn(r)'} = 1..balances'[r].seq
             /\ Cardinality(EntriesOn(r)') = balances'[r].seq
  <2>1. /\ IsFiniteSet(EntriesOn(r))
        /\ {entries[x[1]][x[2]].seq : x \in EntriesOn(r)} = 1..balances[r].seq
        /\ Cardinality(EntriesOn(r)) = balances[r].seq
    BY DEF Book, TheBookAddsUp, GaplessSequences
  <2> QED
    BY <2>1, CommitNumbers
<1>2. ASSUME NEW r \in Rows
      PROVE  /\ balances'[r].input = PostedSum(r, "debit")'
             /\ balances'[r].output = PostedSum(r, "credit")'
  <2>1. /\ IsFiniteSet(EntriesOn(r))
        /\ Moved(balances[r], "debit") = PostedSum(r, "debit")
        /\ Moved(balances[r], "credit") = PostedSum(r, "credit")
    BY DEF Book, TheBookAddsUp, CacheMeansPosted, Moved
  <2>2. Moved(balances'[r], "debit") = PostedSum(r, "debit")'
    BY <2>1, CommitSums
  <2>3. Moved(balances'[r], "credit") = PostedSum(r, "credit")'
    BY <2>1, CommitSums
  <2> QED
    BY <2>2, <2>3 DEF Moved
<1> QED
  BY <1>1, <1>2 DEF Book, TheBookAddsUp, CacheMeansPosted, GaplessSequences

-----------------------------------------------------------------------------
(* Every step keeps the held rows and the book *)

LEMMA RowsNext ==
  ASSUME BatchInv, RowsInv, Book, [Next]_vars
  PROVE  (RowsInv /\ Book)'
<1>1. CASE UNCHANGED vars
  <2>1. /\ UNCHANGED <<req, wrote, txns, entries, balances, pc, carried, claims>>
    BY <1>1 DEF vars, statementVars, bookVars
  <2>2. RowsInv'
    <3>1. BookShaped' /\ RowsAreWritten'
      BY <2>1, SameMembersSameLegs
         DEF RowsInv, BookShaped, RowsAreWritten, AccountsLeft, At, Proceeding, RowOf
    <3>2. RowsAreHeld'
      <4> SUFFICES ASSUME NEW e \in Dispatchers, NEW r \in Rows, wrote'[e][r] # NoRow
                   PROVE  RowHeld(e, r)'
        BY DEF RowsAreHeld
      <4>1. RowHeld(e, r)
        BY <2>1 DEF RowsInv, RowsAreHeld
      <4> QED
        BY <2>1, <4>1, HeldStays DEF RowHeld, Proceeding
    <3> QED
      BY <3>1, <3>2 DEF RowsInv
  <2> QED
    BY <2>1, <2>2, BookStays
<1>2. CASE AllDone
  BY <1>1, <1>2 DEF AllDone
<1>3. ASSUME NEW d \in Dispatchers, UNCHANGED <<req, wrote, txns, entries, balances>>,
             \A e \in Dispatchers \ {d} : pc'[e] = pc[e] /\ Proceeding(e)' = Proceeding(e),
             \/ pc[d] \in {"idle", "claiming"} /\ pc'[d] # "committing"
             \/ /\ pc[d] = "upserting" /\ Proceeding(d)' = Proceeding(d)
                /\ pc'[d] = "committing" /\ AccountsLeft(d) = {}
      PROVE  (RowsInv /\ Book)'
  BY <1>3, RowsStay, BookStays
<1>4. ASSUME NEW d \in Dispatchers, EndTransaction(d), UNCHANGED <<req, bookVars>>
      PROVE  (RowsInv /\ Book)'
  BY <1>4, RowsOutlastAFailure, BookStays DEF bookVars
<1>5. ASSUME NEW d \in Dispatchers, CommitTheBook(d), EndTransaction(d)
      PROVE  (RowsInv /\ Book)'
  BY <1>5, CommitShapes, BookCommits
<1>6. ASSUME NEW d \in Dispatchers, Take(d) PROVE (RowsInv /\ Book)'
  <2>1. /\ pc[d] = "idle" /\ UNCHANGED <<req, wrote, txns, entries, balances, claims>>
        /\ pc'[d] \in {"idle", "claiming"}
        /\ \A e \in Dispatchers \ {d} : pc'[e] = pc[e] /\ carried'[e] = carried[e]
    BY <1>6 DEF Take, At, Goto, bookVars, BatchInv, Types
  <2>2. \A e \in Dispatchers \ {d} : Proceeding(e)' = Proceeding(e)
    BY <2>1 DEF Proceeding
  <2> QED
    BY <1>3, <2>1, <2>2
<1>7. ASSUME NEW d \in Dispatchers, ClaimNext(d) PROVE (RowsInv /\ Book)'
  <2>1. /\ pc[d] = "claiming" /\ UNCHANGED <<req, wrote, txns, entries, balances, pc, carried>>
        /\ \E c \in carried[d] : claims' = claims \/ claims' = claims \cup {c}
    BY <1>7 DEF ClaimNext, At, bookVars, Admissible
  <2>2. \A e \in Dispatchers \ {d} : Proceeding(e)' = Proceeding(e)
    BY <2>1 DEF Proceeding, BatchInv, Apart
  <2> QED
    BY <1>3, <2>1, <2>2
<1>8. ASSUME NEW d \in Dispatchers, Claimed(d) \/ Lookup(d) \/ NothingToLookUp(d)
      PROVE  (RowsInv /\ Book)'
  <2>1. /\ UNCHANGED <<req, wrote, txns, entries, balances, carried, claims>>
        /\ \A e \in Dispatchers \ {d} : pc'[e] = pc[e]
        /\ \/ pc[d] = "claiming" /\ pc'[d] = "upserting"
           \/ pc[d] = "upserting" /\ pc'[d] = "committing" /\ AccountsLeft(d) = {}
    BY <1>8
       DEF Claimed, Lookup, NothingToLookUp, Appended, At, Goto, statementVars, bookVars,
           BatchInv, Types
  <2>2. \A e : Proceeding(e)' = Proceeding(e)
    BY <2>1 DEF Proceeding
  <2> QED
    BY <1>3, <2>1, <2>2
<1>9. ASSUME NEW d \in Dispatchers, Upsert(d) PROVE (RowsInv /\ Book)'
  <2>1. UNCHANGED <<txns, entries, balances>>
    BY <1>9 DEF Upsert, bookVars
  <2> QED
    BY <1>9, <2>1, UpsertHolds, BookStays
<1>10. ASSUME NEW d \in Dispatchers,
              OverflowTheRow(d) \/ RefuseAlone(d) \/ BreakTheCycle(d) \/ Fail(d)
       PROVE  (RowsInv /\ Book)'
  BY <1>4, <1>10 DEF OverflowTheRow, RefuseAlone, BreakTheCycle, Fail, FailTogether
<1>11. ASSUME NEW d \in Dispatchers, Commit(d) \/ CommitUnacknowledged(d)
       PROVE  (RowsInv /\ Book)'
  BY <1>5, <1>11 DEF Commit, CommitUnacknowledged, FailTogether
<1> QED
  BY <1>1, <1>2, <1>6, <1>7, <1>8, <1>9, <1>10, <1>11 DEF Next, Step

(* Whatever batches run side by side and whichever of them fail, a held    *)
(* row stands at the committed counters plus what its holder's members     *)
(* move, and each row is the sum of its entries, which are numbered        *)
(* 1, 2, ... last_seq across members and across batches.                   *)
THEOREM RowsInvariance == Spec => [](RowsInv /\ Book)
<1>1. BatchInv /\ RowsInv /\ Book /\ [Next]_vars => (RowsInv /\ Book)'
  BY RowsNext
<1> QED
  BY <1>1, RowsInit, BookInit, BatchInvariance, PTL DEF Spec

(* The book adds up after every step of every interleaving of batches.     *)
THEOREM BatchedBookAddsUp == Spec => []TheBookAddsUp
<1>1. Book => TheBookAddsUp
  BY DEF Book
<1> QED
  BY <1>1, RowsInvariance, PTL

(* Every variable has its type, and no committed counter leaves the width. *)
THEOREM TypeCorrect == Spec => []TypeOK
<1>1. BatchInv /\ RowsInv => TypeOK
  <2> SUFFICES ASSUME BatchInv, RowsInv PROVE TypeOK
    OBVIOUS
  <2>1. ASSUME NEW d \in Dispatchers, NEW r \in Rows PROVE IsRow(wrote[d][r])
    <3>1. CASE wrote[d][r] = NoRow
      BY <3>1 DEF IsRow, NoRow
    <3>2. CASE wrote[d][r] # NoRow
      <4>1. PICK a \in OpenAccounts : wrote[d][r] = Upserted(d, a)
        BY <3>2 DEF RowsInv, RowsAreHeld, RowHeld
      <4> QED
        BY <4>1, UpsertedIsRow
    <3> QED
      BY <3>1, <3>2
  <2>2. DOMAIN wrote = Dispatchers
    BY DEF RowsInv, BookShaped
  <2> QED
    BY <2>1, <2>2 DEF TypeOK, BatchInv, Types, RowsInv, BookShaped, FitsTheRow
<1> QED
  BY <1>1, BatchInvariance, RowsInvariance, PTL

(* Whatever the calls ask, and whatever else a client might, the loops of  *)
(* plan_append plan it as the statements expect it planned: they refuse    *)
(* exactly the lists a side of an account leaves the width in, and compute *)
(* the deltas and the offsets of the rest.                                 *)
THEOREM PlansAreAlwaysExact == Spec => []PlansAreExact
<1>1. ASSUME BatchInv PROVE PlansAreExact
  <2> SUFFICES ASSUME NEW postings \in PlanLists \cup {req[c].postings : c \in Calls},
                      NEW status \in {"posted", "pending"}, NEW max \in 0..MaxMinor
               PROVE  PlanIsExact(postings, status, max)
    BY DEF PlansAreExact
  <2>1. postings \in PostingLists
    BY <1>1, MenuAssumption, PlanListsAssumption DEF BatchInv, Types
  <2>2. max \in Nat
    BY MaxMinorAssumption
  <2> QED
    BY <2>1, <2>2, PlansCompute
<1> QED
  BY <1>1, BatchInvariance, PTL
-----------------------------------------------------------------------------
(* The contract *)

(* What the contract asks beyond BatchInv: a batch carries plans that fit, *)
(* and a call nobody answered says nothing at all.                         *)
Settleable ==
  /\ \A d \in Dispatchers : \A c \in carried[d] : PlanFits(req[c])
  /\ \A c \in Calls : verdict[c].kind = "none" => verdict[c] = Say("none", None)

LEMMA SettleableInit == Init => Settleable
  BY DEF Init, Settleable, Say

LEMMA SettleableNext == BatchInv /\ Settleable /\ [Next]_vars => Settleable'
<1> SUFFICES ASSUME BatchInv, Settleable, [Next]_vars PROVE Settleable'
  OBVIOUS
<1>1. UNCHANGED req
  BY DEF Next, AllDone, vars, Take, Step, ClaimNext, Claimed, Upsert, OverflowTheRow, RefuseAlone,
     Lookup, NothingToLookUp, Commit, CommitTheBook, BreakTheCycle, CommitUnacknowledged, Fail
<1>2. /\ DOMAIN carried = Dispatchers /\ DOMAIN verdict = Calls
      /\ \A d \in Dispatchers : carried[d] \subseteq Calls
  BY DEF BatchInv, Types
<1>3. ASSUME NEW d \in Dispatchers, Take(d) PROVE Settleable'
  <2>1. PICK B \in SUBSET Waiting :
          /\ verdict' = [c \in Calls |-> IF c \in B \ Planned(B) THEN Say("Overflow", None)
                                                                 ELSE verdict[c]]
          /\ carried' = [carried EXCEPT ![d] = Planned(B)]
    BY <1>3 DEF Take
  <2>2. \A e \in Dispatchers : \A c \in carried'[e] : PlanFits(req[c])
    BY <1>2, <2>1 DEF Settleable, Planned
  <2> QED BY <1>1, <2>1, <2>2 DEF Settleable, Say, PlanFits
<1>4. ASSUME NEW d \in Dispatchers, EndTransaction(d),
             \A c \in Calls : verdict'[c] = verdict[c] \/ verdict'[c].kind # "none"
      PROVE  Settleable'
  BY <1>1, <1>2, <1>4 DEF EndTransaction, Settleable, Say, PlanFits
<1>5. CASE UNCHANGED <<carried, verdict>>
  BY <1>1, <1>5 DEF Settleable, Say, PlanFits
<1>6. ASSUME NEW d \in Dispatchers, FailTogether(d) PROVE Settleable'
  BY <1>4, <1>6 DEF FailTogether, Say
<1>7. ASSUME NEW d \in Dispatchers, RefuseAlone(d) PROVE Settleable'
  BY <1>4, <1>7 DEF RefuseAlone, Say
<1>8. ASSUME NEW d \in Dispatchers, Commit(d) PROVE Settleable'
  BY <1>4, <1>8 DEF Commit, AnswerOf, Say
<1> QED BY <1>3, <1>5, <1>6, <1>7, <1>8
  DEF Next, AllDone, vars, Step, ClaimNext, Claimed, Upsert, OverflowTheRow, Lookup,
      NothingToLookUp, BreakTheCycle, CommitUnacknowledged, Fail, bookVars, statementVars

LEMMA NamesAgree ==
  ASSUME Types, NEW c \in Calls
  PROVE  Contract!AccountsAreOpen(c) <=> UnknownAccounts(c) = {}
<1>1. AccountsOf(LegsOf(c)) = Contract!AccountsNamed(c)
  BY MenuAssumption, ExpandedLegs DEF LegsOf, Types, Contract!AccountsNamed
<1> QED BY <1>1 DEF UnknownAccounts, Contract!AccountsAreOpen

LEMMA HoldersAgree ==
  ASSUME BatchInv, NEW c \in Calls
  PROVE  /\ Contract!Holders(c) = {e \in events : SameKey(e, c)}
         /\ Contract!Holders(c) = {} <=> ~HeldIn(events, c)
  BY DEF BatchInv, NoOrphanedEvent, Contract!Holders, HeldIn, SameKey

(* What a dispatcher carries is a batch.                                   *)
LEMMA CarriedIsBatch ==
  ASSUME BatchInv, Settleable, NEW d \in Dispatchers
  PROVE  carried[d] \in SUBSET Calls /\ Contract!IsBatch(carried[d])
  BY DEF BatchInv, Types, Batches, Settleable, SameKey, Say, Contract!IsBatch,
     Contract!Undetermined, Contract!Undecided, Contract!Say

(* A member with a claim has its key to itself.                            *)
LEMMA ClaimedKeyIsFree ==
  ASSUME BatchInv, NEW d \in Dispatchers, NEW c \in Proceeding(d)
  PROVE  c \in Calls /\ Contract!Holders(c) = {}
<1>1. c \in Calls /\ c \in claims /\ c \notin events
  BY DEF Proceeding, BatchInv, Types, Batches, Unwritten
<1>2. ~HeldIn(events, c)
  BY <1>1 DEF HeldIn, BatchInv, OneHolderPerKey
<1> QED BY <1>1, <1>2, HoldersAgree

(* The members that reach the commit with a claim are those that post.     *)
LEMMA ProceedingPosts ==
  ASSUME BatchInv, NEW d \in Dispatchers, At(d, "committing")
  PROVE  Contract!Posts(carried[d]) = Proceeding(d)
<1>1. carried[d] \subseteq Calls /\ Admissible(d) \subseteq tried[d]
  BY DEF BatchInv, Types, Batches, At
<1>2. ASSUME NEW c \in Proceeding(d) PROVE c \in Contract!Posts(carried[d])
  <2>1. c \in carried[d] /\ UnknownAccounts(c) = {}
    BY DEF Proceeding, BatchInv, Carryable
  <2> QED BY <1>1, <2>1, ClaimedKeyIsFree, NamesAgree DEF BatchInv, Contract!Posts
<1>3. ASSUME NEW c \in carried[d], Contract!Holders(c) = {}, Contract!AccountsAreOpen(c)
      PROVE  c \in Proceeding(d)
  <2>1. c \in Calls /\ UnknownAccounts(c) = {} /\ ~HeldIn(events, c)
    BY <1>1, <1>3, NamesAgree, HoldersAgree DEF BatchInv
  <2>2. c \in tried[d]
    BY <1>1, <2>1 DEF Admissible
  <2>3. c \in claims
    BY <2>1, <2>2 DEF BatchInv, LosersAreHeld
  <2> QED BY <2>3 DEF Proceeding
<1> QED BY <1>2, <1>3 DEF Contract!Posts

LEMMA BatchInitRefines == Init => Contract!Init
  BY DEF Init, Say, Contract!Init, Contract!Undecided, Contract!Say

(* The plan's refusals are a step of their own.                            *)
LEMMA TakeRefines ==
  ASSUME BatchInv, Settleable, NEW d \in Dispatchers, Take(d)
  PROVE  \E S \in SUBSET Calls : Contract!RefusePlans(S)
<1>1. PICK B \in SUBSET Waiting :
        verdict' = [c \in Calls |-> IF c \in B \ Planned(B) THEN Say("Overflow", None)
                                                            ELSE verdict[c]]
  BY DEF Take
<1>2. UNCHANGED <<req, txns>>
  BY DEF Take, bookVars
<1> DEFINE S == B \ Planned(B)
<1>3. S \in SUBSET Calls
  BY DEF Waiting
<1>4. \A c \in S : verdict[c] = Say("none", None) /\ ~PlanFits(req[c])
  BY <1>1 DEF Waiting, Settleable, Planned
<1>5. Contract!RefusePlans(S)
  BY <1>1, <1>2, <1>4 DEF Contract!RefusePlans, Contract!Undetermined, Contract!Undecided,
     Contract!Say, Say
<1> QED BY <1>3, <1>5

(* A failure loses the batch, with its posts in the journal or without.    *)
LEMMA FailureRefines ==
  ASSUME BatchInv, Settleable, NEW d \in Dispatchers, FailTogether(d), UNCHANGED req,
         \/ UNCHANGED txns
         \/ At(d, "committing") /\ txns' = txns \cup Proceeding(d)
  PROVE  Contract!Lose(carried[d])
<1>1. txns' \in {txns, txns \cup Contract!Posts(carried[d])}
  BY ProceedingPosts
<1>2. verdict' = [c \in Calls |-> IF c \in carried[d] THEN Contract!Say("failed", None)
                                                      ELSE verdict[c]]
  BY DEF FailTogether, Say, Contract!Say
<1> QED BY <1>1, <1>2, CarriedIsBatch DEF Contract!Lose

LEMMA RefuseAloneRefines ==
  ASSUME BatchInv, Settleable, NEW d \in Dispatchers, RefuseAlone(d)
  PROVE  Contract!Decide(carried[d])
<1>1. PICK c \in Proceeding(d) : UnknownAccounts(c) # {} /\ ~Shares(d)
  BY DEF RefuseAlone
<1>2. carried[d] = {c} /\ c \in Calls
  BY <1>1, OneAlone DEF Proceeding, BatchInv, Types
<1>3. ~Contract!AccountsAreOpen(c) /\ Contract!Holders(c) = {}
  BY <1>1, <1>2, NamesAgree, ClaimedKeyIsFree DEF BatchInv
<1>4. Contract!Posts(carried[d]) = {}
  BY <1>2, <1>3 DEF Contract!Posts
<1>5. verdict' = [b \in Calls |-> IF b \in {c} THEN Contract!Say("AccountUnknown", None)
                                               ELSE verdict[b]]
  BY <1>2 DEF RefuseAlone, Say, Contract!Say
<1>6. verdict' \in [Calls -> Contract!Verdicts] /\ UNCHANGED <<req, txns>>
  BY <1>5 DEF RefuseAlone, bookVars, BatchInv, Types, Verdicts, Contract!Verdicts, Contract!Say
<1>7. Contract!IsAnswerOf(carried[d], c, verdict'[c])
  BY <1>2, <1>3, <1>4, <1>5 DEF Contract!IsAnswerOf
<1> QED BY <1>2, <1>4, <1>5, <1>6, <1>7, CarriedIsBatch
  DEF Contract!Decide, Contract!OthersAreUntouched

LEMMA CommitRefines ==
  ASSUME BatchInv, Settleable, NEW d \in Dispatchers, Commit(d)
  PROVE  Contract!Decide(carried[d])
<1>1. /\ At(d, "committing") /\ UNCHANGED req /\ txns' = txns \cup Proceeding(d)
      /\ carried[d] \subseteq Calls /\ events = txns /\ events \subseteq Calls
  BY TheBookCommits DEF Commit, CommitTheBook, BatchInv, Types, NoOrphanedEvent
<1>2. Contract!Posts(carried[d]) = Proceeding(d)
  BY <1>1, ProceedingPosts
<1>3. /\ \A c \in carried[d] : verdict'[c] = AnswerOf(d, c)
      /\ \A c \in Calls \ carried[d] : verdict'[c] = verdict[c]
  BY <1>1 DEF Commit
<1>4. ASSUME NEW c \in carried[d] PROVE Contract!IsAnswerOf(carried[d], c, verdict'[c])
  <2>1. CASE c \in KeyAlreadyClaimed(d)
    <3>1. c \notin Contract!Posts(carried[d])
      BY <1>2, <2>1, ClaimsAreTheirOwn DEF Proceeding
    <3>2. IsFinding(c, stored[c])
      BY <1>1, <2>1 DEF BatchInv, Findings
    <3>3. CASE stored[c] = None
      <4>1. verdict'[c] = Contract!Say("KeyReused", None)
        BY <1>3, <2>1, <3>3 DEF AnswerOf, Say, Contract!Say
      <4>2. \E e \in Contract!Holders(c) : req[e] # req[c]
        BY <1>1, <3>2, <3>3, HoldersAgree DEF IsFinding
      <4> QED BY <3>1, <4>1, <4>2 DEF Contract!IsAnswerOf
    <3>4. CASE stored[c] # None
      <4>1. stored[c] \in Contract!Holders(c) /\ req[stored[c]] = req[c] /\ stored[c] \in txns
        BY <1>1, <3>2, <3>4, HoldersAgree DEF IsFinding, SameKey
      <4>2. verdict'[c] = Contract!Say("replayed", stored[c])
        BY <1>3, <2>1, <3>4, <4>1 DEF AnswerOf, Say, Contract!Say
      <4> QED BY <3>1, <4>1, <4>2 DEF Contract!IsAnswerOf
    <3> QED BY <3>3, <3>4
  <2>2. CASE c \notin KeyAlreadyClaimed(d) /\ c \in Refused(d)
    <3>1. verdict'[c] = Contract!Say("AccountUnknown", None)
      BY <1>3, <2>2 DEF AnswerOf, Say, Contract!Say
    <3>2. Shares(d) /\ UnknownAccounts(c) # {} /\ c \notin Admissible(d)
      BY <2>2 DEF Refused, Admissible
    <3>3. carried[d] # {c}
      <4>1. Cardinality({c}) = 1
        BY FS_Singleton
      <4> QED BY <3>2, <4>1 DEF Shares
    <3>4. c \notin Proceeding(d) /\ ~Contract!AccountsAreOpen(c)
      BY <1>1, <3>2, ClaimsAreTheirOwn, NamesAgree DEF BatchInv, Batches
    <3> QED BY <1>2, <3>1, <3>3, <3>4 DEF Contract!IsAnswerOf
  <2>3. CASE c \notin KeyAlreadyClaimed(d) /\ c \notin Refused(d)
    <3>1. verdict'[c] = Contract!Say("posted", c)
      BY <1>3, <2>3 DEF AnswerOf, Say, Contract!Say
    <3>2. c \in Admissible(d)
      BY <2>3 DEF Refused, KeyAlreadyClaimed
    <3>3. c \in tried[d]
      BY <1>1, <3>2 DEF BatchInv, Batches, At
    <3>4. c \in Proceeding(d)
      BY <2>3, <3>3 DEF KeyAlreadyClaimed, Proceeding
    <3> QED BY <1>2, <3>1, <3>4 DEF Contract!IsAnswerOf
  <2> QED BY <2>1, <2>2, <2>3
<1>5. verdict' \in [Calls -> Contract!Verdicts]
  <2>1. Types'
    BY CommitKeeps DEF BatchInv
  <2> QED BY <2>1 DEF Types, Verdicts, Contract!Verdicts
<1> QED BY <1>1, <1>2, <1>3, <1>4, <1>5, CarriedIsBatch
  DEF Contract!Decide, Contract!OthersAreUntouched

LEMMA BatchStepRefines ==
  ASSUME BatchInv, Settleable, [Next]_vars
  PROVE  [Contract!Next]_(Contract!vars)
<1>1. ASSUME NEW d \in Dispatchers, Take(d) PROVE Contract!Next
  BY <1>1, TakeRefines DEF Contract!Next
<1>2. ASSUME NEW d \in Dispatchers,
             RefuseAlone(d) \/ Commit(d)
      PROVE  Contract!Next
  BY <1>2, RefuseAloneRefines, CommitRefines, CarriedIsBatch DEF Contract!Next
<1>3. ASSUME NEW d \in Dispatchers,
             OverflowTheRow(d) \/ BreakTheCycle(d) \/ Fail(d) \/ CommitUnacknowledged(d)
      PROVE  Contract!Next
  <2>1. /\ FailTogether(d) /\ UNCHANGED req
        /\ \/ UNCHANGED txns
           \/ At(d, "committing") /\ txns' = txns \cup Proceeding(d)
    BY <1>3, TheBookCommits DEF OverflowTheRow, BreakTheCycle, Fail, CommitUnacknowledged,
       CommitTheBook, bookVars
  <2> QED BY <2>1, FailureRefines, CarriedIsBatch DEF Contract!Next
<1>4. ASSUME UNCHANGED <<req, txns, verdict>> PROVE UNCHANGED Contract!vars
  BY <1>4 DEF Contract!vars
<1> QED BY <1>1, <1>2, <1>3, <1>4
  DEF Next, AllDone, vars, Step, ClaimNext, Claimed, Upsert, Lookup, NothingToLookUp, bookVars

(* For any calls, menu, accounts and dispatchers, a batch is settled as if *)
(* in one step against the committed journal: its posts land together or   *)
(* not at all, and apart from that each member is answered on its own.     *)
THEOREM BatchRefinement == Spec => ImplementsContract
<1>1. Init => BatchInv /\ Settleable
  BY BatchInit, SettleableInit
<1>2. BatchInv /\ Settleable /\ [Next]_vars => (BatchInv /\ Settleable)'
  BY BatchNext, SettleableNext
<1>3. Spec => [](BatchInv /\ Settleable)
  BY <1>1, <1>2, PTL DEF Spec
<1>4. BatchInv /\ Settleable /\ [Next]_vars => [Contract!Next]_(Contract!vars)
  BY BatchStepRefines
<1> QED BY <1>3, <1>4, BatchInitRefines, PTL DEF Spec, ImplementsContract, Contract!Spec
=============================================================================
