-------------------------- MODULE Registers_proofs --------------------------
(***************************************************************************)
(* Proofs, for any clients, menu, charts and time zones: the registers     *)
(* stay sound whatever races, and every answer is true of them for good.   *)
(***************************************************************************)
EXTENDS RegistersApi, TLAPS

(* What the truth of one call's answer asks of the registers.              *)
IsTrueOf(c, v) ==
  /\ v.kind = "accepted" => v.row = c /\ c \in events \cap rows
  /\ v.kind = "replayed" =>
       /\ v.event = v.row /\ v.row \in events \cap rows /\ c \notin events
       /\ SameKey(v.event, c) /\ SameBody(req[v.event], req[c])
  /\ v.kind \in Refusals => c \notin events \cup rows
  /\ v.kind = "KeyReused" => \E d \in events : SameKey(d, c) /\ ~SameBody(req[d], req[c])
  /\ v.kind \in {"AccountExists", "PeriodExists"} =>
       \E d \in rows : SameNaturalKey(req[d], req[c])
  /\ v.kind = "PeriodOverlaps" => \E d \in rows : Overlaps(req[d], req[c])
  /\ v.kind # "Internal"

(* A call that is not over is served a well-formed request, has no answer  *)
(* yet, reads the chart for an opening, and looks up a committed key.      *)
Progress ==
  \A c \in Calls :
    /\ At(c, "reading") => IsOpening(req[c])
    /\ pc[c] \in InFlight => WellFormed(req[c])
    /\ pc[c] # "done" => verdict[c].kind = "none"
    /\ At(c, "lookup") => KeyCommitted(c)

OneHolderPerKey == \A c, d \in events \cup claims : SameKey(c, d) => c = d

OneRowPerNaturalKey ==
  \A c, d \in rows \cup entered : SameNaturalKey(req[c], req[d]) => c = d

(* The rows whose exclusion was checked.                                   *)
Cleared == rows \cup {c \in entered : At(c, "committing")}

NoOverlap == \A c, d \in Cleared : Overlaps(req[c], req[d]) => c = d

(* An opening past its read of the chart obeyed the owner rules there.     *)
MayStand(c) ==
  /\ triple[c] # None
  /\ (req[c].owner_type = "house") = (req[c].owner_id = None)
  /\ triple[c] = "per_shard" => req[c].owner_type # "house"

Chartered ==
  /\ \A c \in Calls : pc[c] \in InFlight \ {"reading"} /\ IsOpening(req[c]) => MayStand(c)
  /\ \A c \in rows \cup entered :
       IsOpening(req[c]) => MayStand(c) /\ triple[c] = chart[req[c].purpose]

RegistersInv ==
  /\ TypeOK /\ Progress
  /\ events = rows
  /\ OneHolderPerKey /\ OneRowPerNaturalKey /\ NoOverlap
  /\ Chartered
  /\ AnswersAreTrue

(* The conjunction is the registers' soundness with what carries it.       *)
LEMMA InvIsSound == RegistersInv => RegistersAreSound
  BY DEF RegistersInv, RegistersAreSound, OneHolderPerKey, OneRowPerNaturalKey,
         NoOverlap, Cleared, Chartered, MayStand

LEMMA TruthsOfAnswers == AnswersAreTrue <=> \A c \in Calls : IsTrueOf(c, verdict[c])
  BY DEF AnswersAreTrue, IsTrueOf

(* Requests of one body name one natural key.                              *)
LEMMA BodyNamesTheRow ==
  ASSUME NEW r, NEW s, SameBody(r, s)
  PROVE  SameNaturalKey(r, s)
<1>1. CASE IsOpening(r)
  BY <1>1 DEF SameBody, SameNaturalKey, SameAccount, CanonicalOpening, IsOpening
<1>2. CASE ~IsOpening(r)
  BY <1>2 DEF SameBody, SameNaturalKey, SamePeriod, CanonicalDefinition, IsOpening
<1> QED BY <1>1, <1>2

LEMMA NaturalKeySymmetric ==
  ASSUME NEW r, NEW s, SameNaturalKey(r, s)
  PROVE  SameNaturalKey(s, r)
  BY DEF SameNaturalKey, SameAccount, SamePeriod, IsOpening

LEMMA OverlapSymmetric ==
  ASSUME NEW r, NEW s, Overlaps(r, s)
  PROVE  Overlaps(s, r)
  BY DEF Overlaps

(* The registers start sound and empty.                                    *)
LEMMA RegistersInit == Init => RegistersInv
<1> SUFFICES ASSUME Init PROVE RegistersInv
  OBVIOUS
<1>1. TypeOK
  BY NamesAssumption DEF Init, TypeOK, At, InFlight, Verdicts
<1>2. Progress
  BY DEF Init, Progress, At, InFlight
<1>3. events = rows /\ OneHolderPerKey /\ OneRowPerNaturalKey /\ NoOverlap
  BY DEF Init, OneHolderPerKey, OneRowPerNaturalKey, NoOverlap, Cleared
<1>4. Chartered
  BY DEF Init, Chartered, InFlight
<1>5. AnswersAreTrue
  BY DEF Init, AnswersAreTrue, Refusals
<1> QED BY <1>1, <1>2, <1>3, <1>4, <1>5 DEF RegistersInv

-----------------------------------------------------------------------------
(* A call that ends without committing holds nothing afterwards, and its   *)
(* answer is true if it was true when it was given.                        *)
LEMMA EndKeeps ==
  ASSUME RegistersInv, NEW c \in Calls, pc[c] \in InFlight,
         NEW v \in Verdicts, v.kind # "none", IsTrueOf(c, v), v.kind # "accepted",
         Rollback(c), pc' = [pc EXCEPT ![c] = "done"],
         verdict' = [verdict EXCEPT ![c] = v],
         UNCHANGED <<req, triple, chart, edits>>
  PROVE  RegistersInv'
<1> USE DEF RegistersInv, Rollback
<1>1. TypeOK'
  BY DEF TypeOK, At, InFlight
<1>2. Progress'
  BY DEF TypeOK, Progress, KeyCommitted, SameKey, At, InFlight
<1>3. (events = rows /\ OneHolderPerKey /\ OneRowPerNaturalKey)'
  BY DEF OneHolderPerKey, OneRowPerNaturalKey, SameKey
<1>4. NoOverlap'
  <2>1. Cleared' \subseteq Cleared
    BY DEF TypeOK, Cleared, At
  <2> QED BY <2>1 DEF NoOverlap
<1>5. Chartered'
  BY DEF TypeOK, Chartered, MayStand, InFlight
<1>6. AnswersAreTrue'
  <2>1. \A d \in Calls : verdict'[d] = IF d = c THEN v ELSE verdict[d]
    BY DEF TypeOK
  <2>2. \A d \in Calls : IsTrueOf(d, verdict'[d])
    BY <2>1, TruthsOfAnswers
  <2>3. \A d \in Calls : IsTrueOf(d, verdict[d])'
    BY <2>2 DEF IsTrueOf, SameKey
  <2> QED BY <2>3 DEF AnswersAreTrue, IsTrueOf
<1> QED BY <1>1, <1>2, <1>3, <1>4, <1>5, <1>6

(* A refusal that names nothing in its way, or something that is, keeps    *)
(* the invariant.                                                          *)
LEMMA RefuseKeeps ==
  ASSUME RegistersInv, NEW c \in Calls, pc[c] \in InFlight,
         NEW kind \in (Refusals \ {"KeyReused"}) \cup {"Storage"}, Refuse(c, kind),
         kind \in {"AccountExists", "PeriodExists"} => NaturalCommitted(c),
         kind = "PeriodOverlaps" => OverlapCommitted(c)
  PROVE  RegistersInv'
<1> DEFINE v == [kind |-> kind, event |-> None, row |-> None]
<1>1. v \in Verdicts /\ v.kind = kind
  BY DEF Verdicts
<1>2. kind \notin {"none", "accepted", "replayed", "Internal", "KeyReused"}
  BY DEF Refusals
<1>3. c \notin events \cup rows
  BY DEF RegistersInv, TypeOK, At, InFlight
<1>4. IsTrueOf(c, v)
  BY <1>1, <1>2, <1>3 DEF IsTrueOf, NaturalCommitted, OverlapCommitted
<1> QED BY <1>1, <1>2, <1>4, EndKeeps DEF Refuse, Answer, Goto

(* The lookup answers a held key by the event of its body and by the row   *)
(* of that body's natural key, which is the row that event caused.         *)
LEMMA ReplayKeeps ==
  ASSUME RegistersInv, NEW c \in Calls, ReplayOrRefuse(c)
  PROVE  RegistersInv'
<1> DEFINE Of(kind, e, r) == [kind |-> kind, event |-> e, row |-> r]
<1>1. pc[c] \in InFlight /\ KeyCommitted(c)
  BY DEF ReplayOrRefuse, RegistersInv, Progress, At, InFlight
<1>2. events = rows /\ events \subseteq Calls /\ c \notin events
  BY <1>1 DEF RegistersInv, TypeOK, At, InFlight
<1>3. \A d \in events : SameBody(req[d], req[c]) => d \in StoredRows(c)
  BY <1>2, BodyNamesTheRow DEF StoredRows
<1>4. CASE StoredEvents(c) = {} /\ Answer(c, "KeyReused", None, None)
  <2>1. Of("KeyReused", None, None) \in Verdicts
    BY DEF Verdicts, Refusals
  <2>2. IsTrueOf(c, Of("KeyReused", None, None))
    BY <1>1, <1>2, <1>4 DEF IsTrueOf, KeyCommitted, StoredEvents
  <2> QED BY <1>1, <1>4, <2>1, <2>2, EndKeeps DEF Answer, Goto, ReplayOrRefuse
<1>5. ASSUME NEW e \in StoredEvents(c), NEW r \in StoredRows(c), Answer(c, "replayed", e, r)
      PROVE  RegistersInv'
  <2>1. e = r
    <3>1. SameNaturalKey(req[e], req[c]) /\ SameNaturalKey(req[r], req[c])
      BY BodyNamesTheRow DEF StoredEvents, StoredRows
    <3>2. SameNaturalKey(req[e], req[r])
      BY <3>1 DEF SameNaturalKey, SameAccount, SamePeriod, IsOpening
    <3> QED BY <1>2, <3>2 DEF StoredEvents, StoredRows, RegistersInv, OneRowPerNaturalKey
  <2>2. Of("replayed", e, r) \in Verdicts
    BY <1>2 DEF Verdicts, StoredEvents, StoredRows
  <2>3. SameBody(req[e], req[c]) /\ SameKey(e, c) /\ r \in events \cap rows
    BY <1>2 DEF StoredEvents, StoredRows
  <2>4. IsTrueOf(c, Of("replayed", e, r))
    BY <1>2, <2>1, <2>3 DEF IsTrueOf, Refusals
  <2> QED BY <1>1, <1>5, <2>2, <2>4, EndKeeps DEF Answer, Goto, ReplayOrRefuse
<1>6. \A e \in StoredEvents(c) : StoredRows(c) # {}
  BY <1>3 DEF StoredEvents
<1> QED BY <1>4, <1>5, <1>6 DEF ReplayOrRefuse

(* A commit makes the event and the row of one call durable together,      *)
(* whether or not the call hears of it.                                    *)
LEMMA CommitKeeps ==
  ASSUME RegistersInv, NEW c \in Calls, At(c, "committing"),
         NEW v \in Verdicts, v \in {[kind |-> "accepted", event |-> c, row |-> c],
                                    [kind |-> "Storage", event |-> None, row |-> None]},
         events' = events \cup {c}, rows' = rows \cup {c},
         claims' = claims \ {c}, entered' = entered \ {c},
         verdict' = [verdict EXCEPT ![c] = v], pc' = [pc EXCEPT ![c] = "done"],
         UNCHANGED <<req, triple, chart, edits>>
  PROVE  RegistersInv'
<1> USE DEF RegistersInv
<1>1. c \in claims /\ c \in entered /\ c \in Cleared /\ c \notin events
  BY DEF TypeOK, At, Cleared
<1>2. TypeOK'
  BY DEF TypeOK, At, InFlight
<1>3. Progress'
  BY DEF TypeOK, Progress, KeyCommitted, SameKey, At, InFlight
<1>4. (events = rows)'
  OBVIOUS
<1>5. OneHolderPerKey' /\ OneRowPerNaturalKey'
  BY <1>1 DEF OneHolderPerKey, OneRowPerNaturalKey, SameKey
<1>6. NoOverlap'
  <2>1. Cleared' \subseteq Cleared
    BY <1>1 DEF TypeOK, Cleared, At
  <2> QED BY <2>1 DEF NoOverlap
<1>7. Chartered'
  BY <1>1 DEF TypeOK, Chartered, MayStand, InFlight
<1>8. AnswersAreTrue'
  <2>1. \A d \in Calls : verdict'[d] = IF d = c THEN v ELSE verdict[d]
    BY DEF TypeOK
  <2>2. IsTrueOf(c, v)'
    BY DEF IsTrueOf, Refusals
  <2>3. ASSUME NEW d \in Calls \ {c} PROVE IsTrueOf(d, verdict[d])'
    <3>1. IsTrueOf(d, verdict[d]) /\ verdict'[d] = verdict[d]
      BY <2>1, TruthsOfAnswers
    <3> QED BY <3>1 DEF IsTrueOf, SameKey
  <2> QED BY <2>1, <2>2, <2>3 DEF AnswersAreTrue, IsTrueOf
<1> QED BY <1>2, <1>3, <1>4, <1>5, <1>6, <1>7, <1>8

(* A step inside the statement changes neither requests nor answers.       *)
LEMMA WorkKeepsAnswers ==
  ASSUME RegistersInv, UNCHANGED <<req, events, rows, verdict>>
  PROVE  AnswersAreTrue' /\ (events = rows)'
<1>1. \A c \in Calls : IsTrueOf(c, verdict[c])'
  BY TruthsOfAnswers DEF RegistersInv, IsTrueOf, SameKey
<1> QED BY <1>1 DEF RegistersInv, AnswersAreTrue, IsTrueOf
-----------------------------------------------------------------------------
(* One lemma per action that neither ends a transaction nor a call. *)

(* A request arrives at a call that holds nothing.                         *)
LEMMA ReceiveKeeps ==
  ASSUME RegistersInv, NEW c \in Calls, Receive(c)
  PROVE  RegistersInv'
<1> USE DEF RegistersInv, Receive, Goto
<1> PICK r \in Menu[c] :
      /\ req' = [req EXCEPT ![c] = r]
      /\ IF WellFormed(r)
           THEN Goto(c, IF IsOpening(r) THEN "reading" ELSE "claiming") /\ UNCHANGED verdict
           ELSE Answer(c, "Invalid", None, None)
  OBVIOUS
<1>1. r \in Requests /\ r # None
  BY NamesAssumption DEF Requests
<1>2. /\ c \notin events \cup rows \cup claims \cup entered
      /\ events \cup claims \subseteq Calls /\ rows \cup entered \subseteq Calls
      /\ \A d \in Calls \ {c} : req'[d] = req[d] /\ pc'[d] = pc[d] /\ verdict'[d] = verdict[d]
  BY DEF TypeOK, At, Answer
<1>3. /\ pc'[c] \in {"reading", "claiming", "done"} /\ req'[c] = r
      /\ pc'[c] # "done" => WellFormed(r) /\ verdict'[c].kind = "none"
      /\ pc'[c] = "claiming" => ~IsOpening(r)
      /\ pc'[c] = "reading" => IsOpening(r)
      /\ verdict'[c] \in Verdicts
      /\ verdict'[c].kind \in {"none", "Invalid"}
  BY DEF TypeOK, Progress, At, Answer, Verdicts, Refusals
<1>4. TypeOK'
  <2>1. /\ pc' \in [Calls -> InFlight \cup {"idle", "done"}]
        /\ req' \in [Calls -> Requests \cup {None}] /\ verdict' \in [Calls -> Verdicts]
    BY <1>1, <1>3 DEF TypeOK, InFlight, Answer
  <2>2. \A d \in Calls : pc'[d] = "idle" <=> req'[d] = None
    BY <1>1, <1>2, <1>3 DEF TypeOK, At
  <2>3. /\ claims = {d \in Calls : pc'[d] \in {"inserting", "excluding", "committing"}}
        /\ entered = {d \in Calls : pc'[d] \in {"excluding", "committing"}}
    BY <1>2, <1>3 DEF TypeOK, At
  <2>4. \A d \in events \cup rows : pc'[d] = "done"
    BY <1>2 DEF TypeOK, At
  <2> QED BY <2>1, <2>2, <2>3, <2>4 DEF TypeOK, At
<1>5. Progress'
  <2>1. \A d \in Calls \ {c} : KeyCommitted(d) => KeyCommitted(d)'
    BY <1>2 DEF KeyCommitted, SameKey
  <2> QED BY <1>2, <1>3, <2>1 DEF Progress, At, InFlight
<1>6. OneHolderPerKey' /\ OneRowPerNaturalKey'
  BY <1>2 DEF OneHolderPerKey, OneRowPerNaturalKey, SameKey
<1>7. NoOverlap'
  BY <1>2 DEF TypeOK, NoOverlap, Cleared, At
<1>8. Chartered'
  <2>1. \A d \in Calls \ {c} : MayStand(d)' <=> MayStand(d)
    BY <1>2 DEF MayStand
  <2>2. \A d \in rows \cup entered : d \in Calls \ {c}
    BY <1>2
  <2> QED BY <1>2, <1>3, <2>1, <2>2 DEF Chartered, InFlight
<1>9. AnswersAreTrue'
  <2>1. \A d \in Calls \ {c} : IsTrueOf(d, verdict[d])'
    BY <1>2, TruthsOfAnswers DEF IsTrueOf, SameKey
  <2>2. IsTrueOf(c, verdict[c])'
    BY <1>2, <1>3 DEF IsTrueOf
  <2> QED BY <2>1, <2>2 DEF AnswersAreTrue, IsTrueOf
<1> QED BY <1>4, <1>5, <1>6, <1>7, <1>8, <1>9

(* The chart is read, and the owner rules hold of what was read.           *)
LEMMA ReadChartKeeps ==
  ASSUME RegistersInv, NEW c \in Calls, ReadChart(c)
  PROVE  RegistersInv'
<1> USE DEF RegistersInv, ReadChart, Goto, At
<1>1. /\ IsOpening(req[c]) /\ triple'[c] \in Scopes /\ MayStand(c)'
      /\ \A d \in Calls \ {c} : triple'[d] = triple[d]
  <2>1. WellFormed(req[c]) /\ IsOpening(req[c]) /\ req[c] \in Requests
    BY DEF TypeOK, Progress, InFlight
  <2>2. req[c].purpose \in Purposes
    BY <2>1, MenuAssumption DEF WellFormed, MayOpen, IsOpening
  <2>3. chart[req[c].purpose] \in Scopes
    BY <2>2, ChartsAssumption DEF TypeOK
  <2>4. /\ triple'[c] = chart[req[c].purpose]
        /\ \A d \in Calls \ {c} : triple'[d] = triple[d]
    BY DEF TypeOK
  <2>5. (req[c].owner_type = "house") = (req[c].owner_id = None)
    BY DEF OwnerMismatched
  <2>6. triple'[c] = "per_shard" => req[c].owner_type # "house"
    BY <2>4 DEF NeedsAnOwner
  <2> QED BY <2>1, <2>3, <2>4, <2>5, <2>6, NamesAssumption DEF MayStand
<1>2. c \notin rows \cup entered \cup claims /\ rows \cup entered \subseteq Calls
  BY DEF TypeOK
<1>3. TypeOK'
  BY <1>1 DEF TypeOK, InFlight
<1>4. Progress'
  BY DEF TypeOK, Progress, KeyCommitted, SameKey, InFlight
<1>5. OneHolderPerKey' /\ OneRowPerNaturalKey' /\ NoOverlap'
  BY <1>2 DEF TypeOK, OneHolderPerKey, OneRowPerNaturalKey, NoOverlap, Cleared, SameKey
<1>6. Chartered'
  <2>1. \A d \in Calls \ {c} : MayStand(d)' <=> MayStand(d)
    BY <1>1 DEF MayStand
  <2> QED BY <1>1, <1>2, <2>1 DEF TypeOK, Chartered, InFlight
<1> QED BY <1>3, <1>4, <1>5, <1>6, WorkKeepsAnswers

(* The key is claimed.                                                     *)
LEMMA ClaimKeeps ==
  ASSUME RegistersInv, NEW c \in Calls, Claim(c)
  PROVE  RegistersInv'
<1> USE DEF RegistersInv, Claim, Goto, At
<1>1. TypeOK'
  BY DEF TypeOK, InFlight
<1>2. Progress'
  BY DEF TypeOK, Progress, KeyCommitted, SameKey, InFlight
<1>3. OneHolderPerKey'
  BY DEF TypeOK, OneHolderPerKey, KeyRivals, KeyCommitted, SameKey
<1>4. OneRowPerNaturalKey' /\ NoOverlap'
  BY DEF TypeOK, OneRowPerNaturalKey, NoOverlap, Cleared
<1>5. Chartered'
  BY DEF TypeOK, Chartered, MayStand, InFlight
<1> QED BY <1>1, <1>2, <1>3, <1>4, <1>5, WorkKeepsAnswers

(* The key is held by a committed event, as the lookup will find.          *)
LEMMA FindKeyHeldKeeps ==
  ASSUME RegistersInv, NEW c \in Calls, FindKeyHeld(c)
  PROVE  RegistersInv'
<1> USE DEF RegistersInv, FindKeyHeld, Goto, At
<1>1. TypeOK'
  BY DEF TypeOK, InFlight
<1>2. Progress'
  BY DEF TypeOK, Progress, KeyCommitted, SameKey, InFlight
<1>3. OneHolderPerKey' /\ OneRowPerNaturalKey' /\ NoOverlap'
  BY DEF TypeOK, OneHolderPerKey, OneRowPerNaturalKey, NoOverlap, Cleared, SameKey
<1>4. Chartered'
  BY DEF TypeOK, Chartered, MayStand, InFlight
<1> QED BY <1>1, <1>2, <1>3, <1>4, WorkKeepsAnswers

(* A row enters the register beside no row of its natural key.             *)
LEMMA EnterKeeps ==
  ASSUME RegistersInv, NEW c \in Calls, MayInsert(c), ~NaturalCommitted(c),
         NEW place \in {"excluding", "committing"},
         IsOpening(req[c]) => place = "committing" /\ TripleHolds(c),
         ~IsOpening(req[c]) => place = "excluding",
         entered' = entered \cup {c}, Goto(c, place),
         UNCHANGED <<req, triple, claims, events, rows, chart, edits, verdict>>
  PROVE  RegistersInv'
<1> USE DEF RegistersInv, MayInsert, Goto, At
<1>1. TypeOK'
  BY DEF TypeOK, InFlight
<1>2. Progress'
  BY DEF TypeOK, Progress, KeyCommitted, SameKey, InFlight
<1>3. OneHolderPerKey'
  BY DEF OneHolderPerKey, SameKey
<1>4. OneRowPerNaturalKey'
  BY NaturalKeySymmetric DEF OneRowPerNaturalKey, NaturalRivals, NaturalCommitted
<1>5. NoOverlap'
  BY DEF TypeOK, NoOverlap, Cleared, Overlaps
<1>6. Chartered'
  BY DEF TypeOK, Chartered, MayStand, TripleHolds, InFlight
<1> QED BY <1>1, <1>2, <1>3, <1>4, <1>5, <1>6, WorkKeepsAnswers

(* The exclusion clears a period nothing else overlaps.                    *)
LEMMA DefinePeriodKeeps ==
  ASSUME RegistersInv, NEW c \in Calls, DefinePeriod(c)
  PROVE  RegistersInv'
<1> USE DEF RegistersInv, DefinePeriod, Goto, At
<1>1. TypeOK'
  BY DEF TypeOK, InFlight
<1>2. Progress'
  BY DEF TypeOK, Progress, KeyCommitted, SameKey, InFlight
<1>3. OneHolderPerKey' /\ OneRowPerNaturalKey'
  BY DEF OneHolderPerKey, OneRowPerNaturalKey, SameKey
<1>4. NoOverlap'
  <2>1. Cleared' \subseteq Cleared \cup {c}
    BY DEF TypeOK, Cleared
  <2>2. \A d \in Cleared \ {c} : ~Overlaps(req[d], req[c]) /\ ~Overlaps(req[c], req[d])
    BY OverlapSymmetric DEF Cleared, OverlapRivals, OverlapCommitted
  <2> QED BY <2>1, <2>2 DEF NoOverlap
<1>5. Chartered'
  BY DEF TypeOK, Chartered, MayStand, InFlight
<1> QED BY <1>1, <1>2, <1>3, <1>4, <1>5, WorkKeepsAnswers

(* The chart changes under no account that stands on it.                   *)
LEMMA EditChartKeeps ==
  ASSUME RegistersInv, EditChart
  PROVE  RegistersInv'
<1> USE DEF RegistersInv, EditChart, At
<1>1. TypeOK'
  BY DEF TypeOK
<1>2. Progress'
  BY DEF Progress, KeyCommitted, SameKey
<1>3. OneHolderPerKey' /\ OneRowPerNaturalKey' /\ NoOverlap'
  BY DEF OneHolderPerKey, OneRowPerNaturalKey, NoOverlap, Cleared, SameKey
<1>4. Chartered'
  BY DEF Chartered, MayStand
<1> QED BY <1>1, <1>2, <1>3, <1>4, WorkKeepsAnswers
-----------------------------------------------------------------------------
(* Every step keeps the invariant.                                         *)
LEMMA RegistersNext == RegistersInv /\ [Next]_vars => RegistersInv'
<1> SUFFICES ASSUME RegistersInv, [Next]_vars PROVE RegistersInv'
  OBVIOUS
<1>1. ASSUME NEW c \in Calls, Step(c) PROVE RegistersInv'
  <2>1. CASE ReadChart(c)
    BY <2>1, ReadChartKeeps
  <2>2. CASE RefuseOpening(c)
    BY <2>2, RefuseKeeps DEF RefuseOpening, At, InFlight, Refusals
  <2>3. CASE Claim(c)
    BY <2>3, ClaimKeeps
  <2>4. CASE FindKeyHeld(c)
    BY <2>4, FindKeyHeldKeeps
  <2>5. CASE OpenAccount(c)
    BY <2>5, EnterKeeps DEF OpenAccount
  <2>6. CASE EnterPeriod(c)
    BY <2>6, EnterKeeps DEF EnterPeriod
  <2>7. CASE DefinePeriod(c)
    BY <2>7, DefinePeriodKeeps
  <2>8. CASE RefuseByConstraint(c)
    <3>1. pc[c] \in InFlight
      BY <2>8 DEF RefuseByConstraint, MayInsert, At, InFlight
    <3>2. CASE Refuse(c, "PeriodZoneUnknown")
      BY <3>1, <3>2, RefuseKeeps DEF Refusals
    <3>3. CASE NaturalCommitted(c) /\ Refuse(c, IF IsOpening(req[c]) THEN "AccountExists"
                                                                     ELSE "PeriodExists")
      BY <3>1, <3>3, RefuseKeeps DEF Refusals
    <3>4. CASE OverlapCommitted(c) /\ Refuse(c, "PeriodOverlaps")
      BY <3>1, <3>4, RefuseKeeps DEF Refusals
    <3> QED BY <2>8, <3>2, <3>3, <3>4 DEF RefuseByConstraint
  <2>9. CASE FailByForeignKey(c)
    BY <2>9, RefuseKeeps DEF FailByForeignKey, MayInsert, At, InFlight
  <2>10. CASE LoseDeadlock(c)
    <3>1. pc[c] \in InFlight
      BY <2>10 DEF LoseDeadlock, Deadlocked, WaitsFor, At, InFlight
    <3> QED BY <2>10, <3>1, RefuseKeeps DEF LoseDeadlock
  <2>11. CASE Commit(c)
    BY <2>11, CommitKeeps DEF Commit, Answer, Goto, Verdicts
  <2>12. CASE ReplayOrRefuse(c)
    BY <2>12, ReplayKeeps
  <2> QED BY <1>1, <2>1, <2>2, <2>3, <2>4, <2>5, <2>6, <2>7, <2>8, <2>9, <2>10, <2>11, <2>12
          DEF Step
<1>2. ASSUME NEW c \in Calls, Receive(c) PROVE RegistersInv'
  BY <1>2, ReceiveKeeps
<1>3. ASSUME NEW c \in Calls, Fail(c) PROVE RegistersInv'
  BY <1>3, RefuseKeeps DEF Fail
<1>4. ASSUME NEW c \in Calls, LoseAcknowledgement(c) PROVE RegistersInv'
  BY <1>4, CommitKeeps DEF LoseAcknowledgement, Answer, Goto, Verdicts
<1>5. CASE EditChart
  BY <1>5, EditChartKeeps
<1>6. CASE UNCHANGED vars
  BY <1>6 DEF vars, RegistersInv, TypeOK, Progress, OneHolderPerKey, OneRowPerNaturalKey,
              NoOverlap, Cleared, Chartered, MayStand, AnswersAreTrue, KeyCommitted, SameKey, At
<1> QED BY <1>1, <1>2, <1>3, <1>4, <1>5, <1>6 DEF Next, AllDone

-----------------------------------------------------------------------------
(* The registers' inductive invariant.                                     *)
THEOREM RegistersInvariance == Spec => []RegistersInv
  BY RegistersInit, RegistersNext, PTL DEF Spec

(* Every variable keeps its type, and a call holds the key and the row its *)
(* place in the statement says it holds.                                   *)
THEOREM RegistersTypes == Spec => []TypeOK
<1>1. RegistersInv => TypeOK
  BY DEF RegistersInv
<1> QED BY <1>1, RegistersInvariance, PTL

(* Whatever races, no two accounts share a natural key, no two periods     *)
(* share a code or overlap, accounts stand on the chart under its owner    *)
(* rules, and an event stands only beside the row it caused.               *)
THEOREM SoundRegisters == Spec => []RegistersAreSound
  BY InvIsSound, RegistersInvariance, PTL

(* Every answer is true of the registers for good; in particular a replay  *)
(* finds by the natural key the very row its key's event caused.           *)
THEOREM TrueAnswers == Spec => []AnswersAreTrue
<1>1. RegistersInv => AnswersAreTrue
  BY DEF RegistersInv
<1> QED BY <1>1, RegistersInvariance, PTL
-----------------------------------------------------------------------------
(* What the surface makes of a verdict, by its kind.                       *)
LEMMA StatusOf ==
  ASSUME TypeOK, NEW c \in Answered
  PROVE  /\ verdict[c].kind = "accepted" => Status(c) = 201
         /\ verdict[c].kind = "replayed" => Status(c) = 200
         /\ verdict[c].kind \in {"Internal", "Storage"} => Status(c) = 500
         /\ verdict[c].kind \in Refusals => Status(c) \in {422, 500}
<1>1. verdict[c].kind \in Refusals \cup {"accepted", "replayed", "Internal", "Storage"}
  BY DEF TypeOK, Answered, Verdicts
<1> QED
  BY <1>1 DEF Status, ResponseTo, OpeningResponse, DefiningResponse, StoredResult, RefusalFor,
              Refusal, Response, OpeningProblems, DefiningProblems, Refusals

(* Every response is one its operation documents.                          *)
LEMMA ResponsesAreDocumented ==
  ASSUME TypeOK, NEW c \in Answered
  PROVE  ResponseTo(c) \in IF IsOpening(req[c]) THEN OpenAccountOperation
                                                ELSE DefinePeriodOperation
<1>1. CASE verdict[c].kind \in {"accepted", "replayed"}
  BY <1>1 DEF ResponseTo, OpeningResponse, DefiningResponse, StoredResult, Replayed,
              OpenAccountOperation, DefinePeriodOperation, DocumentedForWrites
<1>2. CASE verdict[c].kind \notin {"accepted", "replayed"} /\ IsOpening(req[c])
  <2>1. ResponseTo(c) = RefusalFor(OpeningProblems, verdict[c].kind)
    BY <1>2 DEF ResponseTo, OpeningResponse
  <2>2. RefusalFor(OpeningProblems, verdict[c].kind) \in OpenAccountOperation
    BY DEF RefusalFor, OpeningProblems, OpenAccountOperation, DocumentedForWrites,
           BodyRejections, Types
  <2> QED BY <1>2, <2>1, <2>2
<1>3. CASE verdict[c].kind \notin {"accepted", "replayed"} /\ ~IsOpening(req[c])
  <2>1. ResponseTo(c) = RefusalFor(DefiningProblems, verdict[c].kind)
    BY <1>3 DEF ResponseTo, DefiningResponse
  <2>2. RefusalFor(DefiningProblems, verdict[c].kind) \in DefinePeriodOperation
    BY DEF RefusalFor, DefiningProblems, DefinePeriodOperation, DocumentedForWrites,
           BodyRejections, Types
  <2> QED BY <1>3, <2>1, <2>2
<1> QED BY <1>1, <1>2, <1>3

LEMMA SameBodyEquivalence ==
  ASSUME NEW r, NEW s, NEW t, SameBody(r, s), SameBody(r, t)
  PROVE  SameBody(s, t)
  BY DEF SameBody, IsOpening

(* Two callers of one key who hear 200 or 201 hear of one row and body, and *)
(* one of them hears a replay.                                              *)
LEMMA SuccessesAgree ==
  ASSUME RegistersInv, NEW c \in Answered, NEW d \in Answered \ {c},
         Succeeds(c), Succeeds(d), SameKey(c, d)
  PROVE  /\ SameBody(req[c], req[d]) /\ verdict[c].row = verdict[d].row
         /\ 200 \in {Status(c), Status(d)}
<1> USE DEF RegistersInv
<1>1. ASSUME NEW x \in Answered, Succeeds(x)
      PROVE  /\ verdict[x].kind \in {"accepted", "replayed"}
             /\ verdict[x].row \in events /\ SameKey(verdict[x].row, x)
             /\ SameBody(req[verdict[x].row], req[x])
             /\ verdict[x].kind = "accepted" => verdict[x].row = x
  <2>1. verdict[x].kind \in {"accepted", "replayed"}
    BY <1>1, StatusOf DEF Succeeds, Answered, TypeOK, Verdicts
  <2>2. IsTrueOf(x, verdict[x])
    BY TruthsOfAnswers DEF Answered
  <2> QED BY <2>1, <2>2 DEF IsTrueOf, SameKey, SameBody
<1>2. verdict[c].row = verdict[d].row
  BY <1>1 DEF OneHolderPerKey, SameKey
<1>3. SameBody(req[c], req[d])
  BY <1>1, <1>2, SameBodyEquivalence
<1>4. 200 \in {Status(c), Status(d)}
  BY <1>1, <1>2, StatusOf
<1> QED BY <1>2, <1>3, <1>4

(* The responses of the two operations agree with the registers and with   *)
(* one another, whatever raced and whoever retried.                        *)
THEOREM TrueResponses == Spec => []ResponsesAreTrue
<1>1. RegistersInv => ResponsesAreTrue
  <2> SUFFICES ASSUME RegistersInv PROVE ResponsesAreTrue
    OBVIOUS
  <2>1. ASSUME NEW c \in Answered, c \in events PROVE Status(c) \in {201, 500}
    <3>1. IsTrueOf(c, verdict[c])
      BY TruthsOfAnswers DEF RegistersInv, Answered
    <3>2. verdict[c].kind \in {"accepted", "Internal", "Storage"}
      BY <2>1, <3>1 DEF RegistersInv, TypeOK, Answered, Verdicts, IsTrueOf
    <3> QED BY <3>2, StatusOf DEF RegistersInv
  <2> QED BY <2>1, ResponsesAreDocumented, SuccessesAgree DEF ResponsesAreTrue, RegistersInv
<1> QED BY <1>1, RegistersInvariance, PTL
=============================================================================
