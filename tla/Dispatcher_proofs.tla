-------------------------- MODULE Dispatcher_proofs --------------------------
(***************************************************************************)
(* The safety of the writer pool, for any callers, dispatchers and         *)
(* ceiling.  The invariant adds to the properties what they depend on:     *)
(* tickets order the queue, a dispatcher holds a batch only while it       *)
(* posts, and a dispatcher on its way to sleep is either awaited by a      *)
(* stored permit or somebody else is coming for the work.                  *)
(***************************************************************************)
EXTENDS Dispatcher, TLAPS, FiniteSetTheorems

TicketsOrderTheQueue ==
  \A b \in Calls : caller[b] # "idle" =>
    /\ ticket[b] < arrivals
    /\ \A c \in Calls : caller[c] # "idle" /\ b # c => ticket[b] # ticket[c]

HeldWhilePosting == \A d \in Dispatchers : pc[d] # "posting" => batch[d] = {}

SleepersRest ==
  /\ \A d \in asleep : pc[d] = "resting"
  /\ permit => asleep = {}

Idle(d) == pc[d] = "drained" \/ d \in asleep

NobodyDozesOff ==
  queue # {} /\ (\E d \in Dispatchers : Idle(d)) => SomebodyIsComing \/ permit

Inv ==
  /\ TypeOK
  /\ SubmissionsAreConserved
  /\ TicketsOrderTheQueue
  /\ HeldWhilePosting
  /\ BatchesAreLegal
  /\ SleepersRest
  /\ NobodyDozesOff

-----------------------------------------------------------------------------
(* Of finitely many submissions one was pushed last. *)
LEMMA LastPushed ==
  ASSUME NEW S \in SUBSET Calls, S # {}, ticket \in [Calls -> Nat]
  PROVE  \E m \in S : \A x \in S : ~Before(m, x)
<1> DEFINE After(x) == {y \in S : Before(x, y)}
           Afters == {After(x) : x \in S}
<1>1. IsFiniteSet(S)
  BY PoolAssumption, FS_Subset
<1>2. \A T \in Afters : T \in FiniteSubsetsOf(S)
  BY <1>1, FS_Subset DEF FiniteSubsetsOf
<1>3. PICK T \in Afters : \A U \in Afters : <<U, T>> \notin StrictSubsetOrdering(S)
  <2>1. Afters \subseteq FiniteSubsetsOf(S) /\ Afters # {}
    BY <1>2
  <2>2. IsWellFoundedOn(StrictSubsetOrdering(S), FiniteSubsetsOf(S))
    BY FS_StrictSubsetOrderingWellFounded
  <2> QED
    BY <2>1, <2>2, WFMin
<1>4. PICK m \in S : T = After(m)
  OBVIOUS
<1>5. ASSUME NEW x \in S, Before(m, x) PROVE FALSE
  <2>1. x \in After(m) /\ x \notin After(x) /\ \A y \in S : Before(x, y) => Before(m, y)
    BY <1>5 DEF Before
  <2>2. <<After(x), After(m)>> \in StrictSubsetOrdering(S)
    BY <2>1 DEF StrictSubsetOrdering
  <2> QED
    BY <2>2, <1>3, <1>4
<1> QED
  BY <1>5

(* What the scan takes is a legal batch, and never empty. *)
LEMMA ScannedBatchIsLegal ==
  ASSUME TypeOK, TicketsOrderTheQueue, \A c \in queue : caller[c] # "idle",
         NEW B \in SUBSET queue, IsTheBatch(B)
  PROVE  LegalBatch(B)
<1>1. PICK head \in queue :
        /\ \A c \in queue \ {head} : Before(head, c)
        /\ \A c \in queue :
             LET taken == {b \in B : Before(b, c)} IN
             c \in B <=> \/ c = head
                         \/ /\ c # head /\ ~PostsAlone(head)
                            /\ Cardinality(taken) < Ceiling
                            /\ RidesWithTheBatch(taken, head, c)
  BY DEF IsTheBatch
<1>2. \A c \in B : c # head =>
        /\ ~PostsAlone(head) /\ ~PostsAlone(c) /\ Tenant(c) = Tenant(head)
        /\ Cardinality({b \in B : Before(b, c)}) < Ceiling
        /\ \A b \in B : Before(b, c) => Key(b) # Key(c)
  BY <1>1 DEF RidesWithTheBatch
<1>3. B \subseteq Calls /\ IsFiniteSet(B) /\ head \in Calls /\ head \in B
  BY <1>1, PoolAssumption, FS_Subset DEF TypeOK
<1>4. ticket \in [Calls -> Nat]
  BY DEF TypeOK
<1>5. \A b, c \in B : b # c => Before(b, c) \/ Before(c, b)
  BY <1>3, <1>4 DEF TicketsOrderTheQueue, Before
<1>6. PICK m \in B : \A x \in B : ~Before(m, x)
  BY <1>3, <1>4, LastPushed
<1>7. Cardinality(B) <= Ceiling
  <2>1. {b \in B : Before(b, m)} = B \ {m}
    BY <1>3, <1>4, <1>5, <1>6 DEF Before
  <2>2. Cardinality(B \ {m}) = Cardinality(B) - 1 /\ Cardinality(B) \in Nat
    BY <1>3, <1>6, FS_RemoveElement, FS_CardinalityType
  <2>3. CASE m # head
    BY <2>1, <2>2, <2>3, <1>2, <1>6, PoolAssumption
  <2>4. CASE m = head
    <3>1. B = {head}
      BY <1>1, <1>3, <1>6, <2>4
    <3>2. Cardinality(B) = 1
      BY <3>1, FS_Singleton
    <3> QED
      BY <3>2, PoolAssumption
  <2> QED
    BY <2>3, <2>4
<1>8. \A b, c \in B : b # c => Tenant(b) = Tenant(c) /\ Key(b) # Key(c) /\ ~PostsAlone(b)
  BY <1>1, <1>2, <1>5
<1> QED
  BY <1>3, <1>7, <1>8 DEF LegalBatch

LEMMA InitInv == Init => Inv
<1> SUFFICES ASSUME Init PROVE Inv
  OBVIOUS
<1>1. LegalBatch({})
  BY FS_EmptySet, PoolAssumption DEF LegalBatch
<1> QED
  BY <1>1 DEF Init, Inv, TypeOK, SubmissionsAreConserved, TicketsOrderTheQueue,
              HeldWhilePosting, BatchesAreLegal, SleepersRest, NobodyDozesOff

-----------------------------------------------------------------------------
(* NotifyOne leaves somebody coming: a sleeper woken, or the permit.       *)
LEMMA NotifyCallsSomebody ==
  ASSUME TypeOK, SleepersRest, NotifyOne, \A e \in asleep : pc'[e] = pc[e]
  PROVE  /\ asleep' \subseteq asleep /\ permit' \in BOOLEAN
         /\ permit' => asleep' = {}
         /\ SomebodyIsComing' \/ permit'
<1>1. CASE \E d \in asleep : asleep' = asleep \ {d} /\ permit' = permit
  <2>1. PICK d \in asleep : asleep' = asleep \ {d} /\ permit' = permit
    BY <1>1
  <2>2. d \in Dispatchers /\ pc'[d] = "resting" /\ d \notin asleep'
    BY <2>1 DEF TypeOK, SleepersRest
  <2> QED
    BY <2>1, <2>2 DEF TypeOK, SleepersRest, SomebodyIsComing
<1>2. CASE asleep = {} /\ permit' = TRUE /\ asleep' = asleep
  BY <1>2
<1> QED
  BY <1>1, <1>2 DEF NotifyOne

(* Batches stay legal when none is given a member and the commands of      *)
(* those they hold stay.                                                   *)
LEMMA SmallerBatchesAreLegal ==
  ASSUME BatchesAreLegal,
         \A d \in Dispatchers : batch'[d] = batch[d] \/ batch'[d] = {},
         \A d \in Dispatchers : \A c \in batch[d] : command'[c] = command[c]
  PROVE  BatchesAreLegal'
<1> SUFFICES ASSUME NEW d \in Dispatchers PROVE LegalBatch(batch[d])'
  BY DEF BatchesAreLegal
<1>1. CASE batch'[d] = {}
  BY <1>1, FS_EmptySet, PoolAssumption DEF LegalBatch
<1>2. CASE batch'[d] = batch[d]
  BY <1>2 DEF BatchesAreLegal, LegalBatch, Tenant, Key, PostsAlone
<1> QED
  BY <1>1, <1>2

LEMMA PushKeepsInv ==
  ASSUME Inv, NEW c \in Calls, Push(c)
  PROVE  Inv'
<1> USE DEF Inv
<1>1. PICK m \in Menu[c] : command' = [command EXCEPT ![c] = m]
  BY DEF Push
<1>2. TypeOK'
  <2>1. m \in Asks
    BY <1>1 DEF Asks
  <2> QED
    BY <1>1, <2>1 DEF Push, TypeOK, notifyVars, poolVars
<1>3. \A d \in Dispatchers : c \notin batch[d]
  BY DEF SubmissionsAreConserved, Push
<1>4. SubmissionsAreConserved'
  BY <1>3 DEF SubmissionsAreConserved, Push, TypeOK, poolVars
<1>5. TicketsOrderTheQueue'
  BY DEF TicketsOrderTheQueue, Push, TypeOK
<1>6. HeldWhilePosting' /\ SleepersRest'
  BY DEF HeldWhilePosting, SleepersRest, Push, notifyVars, poolVars
<1>7. BatchesAreLegal'
  BY <1>1, <1>3, SmallerBatchesAreLegal DEF Push, poolVars, TypeOK
<1>8. NobodyDozesOff'
  BY DEF NobodyDozesOff, SomebodyIsComing, Push, TypeOK
<1> QED
  BY <1>2, <1>4, <1>5, <1>6, <1>7, <1>8

LEMMA NotifyKeepsInv ==
  ASSUME Inv, NEW c \in Calls, Notify(c)
  PROVE  Inv'
<1> USE DEF Inv
<1>1. /\ asleep' \subseteq asleep /\ permit' \in BOOLEAN
      /\ permit' => asleep' = {}
      /\ SomebodyIsComing' \/ permit'
  BY NotifyCallsSomebody DEF Notify, poolVars
<1>2. TypeOK'
  BY <1>1 DEF Notify, TypeOK, queueVars, poolVars
<1>3. SubmissionsAreConserved'
  BY DEF SubmissionsAreConserved, Notify, TypeOK, queueVars, poolVars
<1>4. TicketsOrderTheQueue'
  BY DEF TicketsOrderTheQueue, Notify, TypeOK, queueVars
<1>5. HeldWhilePosting' /\ SleepersRest'
  BY <1>1 DEF HeldWhilePosting, SleepersRest, Notify, poolVars
<1>6. BatchesAreLegal'
  BY SmallerBatchesAreLegal DEF Notify, poolVars
<1>7. NobodyDozesOff'
  BY <1>1 DEF NobodyDozesOff
<1> QED
  BY <1>2, <1>3, <1>4, <1>5, <1>6, <1>7

(* Hearing an answer and hanging up move a caller that no longer pushes.   *)
LEMMA DepartureKeepsInv ==
  ASSUME Inv, NEW c \in Calls, Hear(c) \/ HangUp(c)
  PROVE  Inv'
<1> USE DEF Inv
<1>1. /\ caller[c] = "waiting"
      /\ \E s \in {"done", "gone"} : caller' = [caller EXCEPT ![c] = s]
      /\ UNCHANGED <<command, answer, queueVars, notifyVars, poolVars, running>>
  BY DEF Hear, HangUp
<1>2. TypeOK'
  BY <1>1 DEF TypeOK, queueVars, notifyVars, poolVars
<1>3. SubmissionsAreConserved'
  BY <1>1 DEF SubmissionsAreConserved, TypeOK, queueVars, poolVars
<1>4. TicketsOrderTheQueue'
  BY <1>1 DEF TicketsOrderTheQueue, TypeOK, queueVars
<1>5. HeldWhilePosting' /\ SleepersRest'
  BY <1>1 DEF HeldWhilePosting, SleepersRest, notifyVars, poolVars
<1>6. BatchesAreLegal'
  BY <1>1, SmallerBatchesAreLegal DEF poolVars
<1>7. NobodyDozesOff'
  BY <1>1 DEF NobodyDozesOff, SomebodyIsComing, Idle, TypeOK, queueVars, notifyVars, poolVars
<1> QED
  BY <1>2, <1>3, <1>4, <1>5, <1>6, <1>7

LEMMA TakeKeepsInv ==
  ASSUME Inv, NEW d \in Dispatchers, Take(d)
  PROVE  Inv'
<1> USE DEF Inv
<1>1. PICK B \in SUBSET queue :
        /\ IsTheBatch(B)
        /\ batch' = [batch EXCEPT ![d] = B]
        /\ queue' = queue \ B
        /\ HandTheBatonOn(queue \ B)
  BY DEF Take
<1>2. /\ pc[d] = "draining" /\ pc' = [pc EXCEPT ![d] = "posting"]
      /\ UNCHANGED <<callerVars, ticket, arrivals, served, running>>
  BY DEF Take
<1>3. d \notin asleep /\ \A e \in asleep : pc'[e] = pc[e]
  BY <1>2 DEF SleepersRest, TypeOK
<1>4. /\ asleep' \subseteq asleep /\ permit' \in BOOLEAN
      /\ permit' => asleep' = {}
      /\ queue' # {} => SomebodyIsComing' \/ permit'
  BY <1>1, <1>3, NotifyCallsSomebody DEF HandTheBatonOn, notifyVars, TypeOK, SleepersRest
<1>5. TypeOK'
  BY <1>1, <1>2, <1>4 DEF TypeOK, callerVars
<1>6. \A c \in queue : caller[c] # "idle"
  BY DEF SubmissionsAreConserved, TypeOK
<1>7. batch[d] = {}
  BY <1>2 DEF HeldWhilePosting
<1>8. SubmissionsAreConserved'
  BY <1>1, <1>2, <1>7 DEF SubmissionsAreConserved, TypeOK, callerVars
<1>9. TicketsOrderTheQueue'
  BY <1>2 DEF TicketsOrderTheQueue, callerVars
<1>10. HeldWhilePosting' /\ SleepersRest'
  BY <1>1, <1>2, <1>3, <1>4 DEF HeldWhilePosting, SleepersRest, TypeOK
<1>11. BatchesAreLegal'
  <2>1. LegalBatch(B)
    BY <1>1, <1>6, ScannedBatchIsLegal
  <2>2. \A e \in Dispatchers : batch'[e] = batch[e] \/ batch'[e] = B
    BY <1>1 DEF TypeOK
  <2> QED
    BY <1>2, <2>1, <2>2 DEF BatchesAreLegal, LegalBatch, Tenant, Key, PostsAlone, callerVars
<1>12. NobodyDozesOff'
  BY <1>4 DEF NobodyDozesOff
<1> QED
  BY <1>5, <1>8, <1>9, <1>10, <1>11, <1>12

(* Going to rest and waking up: an empty queue, the permit, or the one who *)
(* was coming keeps the work attended.                                     *)
LEMMA RestingKeepsInv ==
  ASSUME Inv, NEW d \in Dispatchers, FindNothing(d) \/ Rest(d) \/ Wake(d)
  PROVE  Inv'
<1> USE DEF Inv
<1>1. /\ pc[d] \in {"draining", "drained", "resting"}
      /\ \E s \in {"draining", "drained", "resting"} : pc' = [pc EXCEPT ![d] = s]
      /\ UNCHANGED <<callerVars, queueVars, batch, served, running>>
  BY DEF FindNothing, Rest, Wake
<1>2. TypeOK'
  BY <1>1 DEF TypeOK, callerVars, queueVars, FindNothing, Rest, Wake, notifyVars
<1>3. SubmissionsAreConserved' /\ TicketsOrderTheQueue'
  BY <1>1 DEF SubmissionsAreConserved, TicketsOrderTheQueue, callerVars, queueVars
<1>4. HeldWhilePosting'
  BY <1>1 DEF HeldWhilePosting, TypeOK
<1>5. SleepersRest'
  BY DEF SleepersRest, TypeOK, FindNothing, Rest, Wake, notifyVars
<1>6. BatchesAreLegal'
  BY <1>1, SmallerBatchesAreLegal DEF callerVars
<1>7. NobodyDozesOff'
  <2>1. CASE FindNothing(d)
    BY <2>1 DEF NobodyDozesOff, FindNothing, queueVars
  <2>2. CASE Rest(d) /\ permit
    BY <2>2 DEF NobodyDozesOff, SomebodyIsComing, Rest, TypeOK
  <2>3. CASE Rest(d) /\ ~permit
    BY <2>3 DEF NobodyDozesOff, SomebodyIsComing, Idle, Rest, TypeOK, queueVars, callerVars
  <2>4. CASE Wake(d)
    BY <2>4 DEF NobodyDozesOff, SomebodyIsComing, Wake, TypeOK
  <2> QED
    BY <2>1, <2>2, <2>3, <2>4
<1> QED
  BY <1>2, <1>3, <1>4, <1>5, <1>6, <1>7

LEMMA CompleteKeepsInv ==
  ASSUME Inv, NEW d \in Dispatchers, Complete(d)
  PROVE  Inv'
<1> USE DEF Inv
<1>1. TypeOK'
  BY DEF TypeOK, Complete, AnswerMembers, queueVars, notifyVars
<1>2. SubmissionsAreConserved'
  BY DEF SubmissionsAreConserved, Complete, AnswerMembers, TypeOK, queueVars
<1>3. TicketsOrderTheQueue'
  BY DEF TicketsOrderTheQueue, Complete, queueVars
<1>4. HeldWhilePosting' /\ SleepersRest'
  BY DEF HeldWhilePosting, SleepersRest, Complete, TypeOK, notifyVars
<1>5. BatchesAreLegal'
  BY SmallerBatchesAreLegal DEF Complete, TypeOK
<1>6. NobodyDozesOff'
  BY DEF NobodyDozesOff, SomebodyIsComing, Complete, TypeOK
<1> QED
  BY <1>1, <1>2, <1>3, <1>4, <1>5, <1>6

LEMMA PanicKeepsInv ==
  ASSUME Inv, NEW d \in Dispatchers, Panic(d)
  PROVE  Inv'
<1> USE DEF Inv
<1>1. TypeOK'
  BY DEF TypeOK, Panic, AnswerMembers, queueVars, notifyVars
<1>2. SubmissionsAreConserved'
  BY DEF SubmissionsAreConserved, Panic, AnswerMembers, TypeOK, queueVars
<1>3. TicketsOrderTheQueue'
  BY DEF TicketsOrderTheQueue, Panic, queueVars
<1>4. HeldWhilePosting' /\ SleepersRest'
  BY DEF HeldWhilePosting, SleepersRest, Panic, TypeOK, notifyVars
<1>5. BatchesAreLegal'
  BY SmallerBatchesAreLegal DEF Panic, TypeOK
<1>6. NobodyDozesOff'
  BY DEF NobodyDozesOff, SomebodyIsComing, Idle, Panic, SleepersRest, TypeOK, queueVars, notifyVars
<1> QED
  BY <1>1, <1>2, <1>3, <1>4, <1>5, <1>6

(* Steps that move nothing of the pool.                                    *)
LEMMA StandingStillKeepsInv ==
  ASSUME Inv, UNCHANGED <<callerVars, queueVars, notifyVars, poolVars>>,
         running' \in BOOLEAN
  PROVE  Inv'
<1> USE DEF Inv, callerVars, queueVars, notifyVars, poolVars
<1>1. TypeOK'
  BY DEF TypeOK
<1>2. SubmissionsAreConserved' /\ TicketsOrderTheQueue'
  BY DEF SubmissionsAreConserved, TicketsOrderTheQueue
<1>3. HeldWhilePosting' /\ SleepersRest'
  BY DEF HeldWhilePosting, SleepersRest
<1>4. BatchesAreLegal'
  BY SmallerBatchesAreLegal
<1>5. NobodyDozesOff'
  BY DEF NobodyDozesOff, SomebodyIsComing, Idle
<1> QED
  BY <1>1, <1>2, <1>3, <1>4, <1>5

LEMMA InvStep == Inv /\ [Next]_vars => Inv'
<1> SUFFICES ASSUME Inv, [Next]_vars PROVE Inv'
  OBVIOUS
<1>1. CASE \E c \in Calls : Push(c) \/ Notify(c) \/ Hear(c) \/ HangUp(c)
  BY <1>1, PushKeepsInv, NotifyKeepsInv, DepartureKeepsInv
<1>2. CASE \E d \in Dispatchers : DispatcherStep(d) \/ Panic(d)
  BY <1>2, TakeKeepsInv, RestingKeepsInv, CompleteKeepsInv, PanicKeepsInv DEF DispatcherStep
<1>3. CASE Exit \/ Exited \/ Quiet \/ UNCHANGED vars
  <2>1. /\ UNCHANGED <<callerVars, queueVars, notifyVars, poolVars>>
        /\ running' = FALSE \/ running' = running
    BY <1>3 DEF Exit, Exited, Quiet, vars
  <2> QED
    BY <2>1, StandingStillKeepsInv DEF Inv, TypeOK
<1> QED
  BY <1>1, <1>2, <1>3 DEF Next

-----------------------------------------------------------------------------
(* The invariant holds of every reachable state, for any finite number of  *)
(* callers, any dispatchers and any ceiling.                               *)
THEOREM PoolInvariance == Spec => []Inv
<1> QED
  BY InitInv, InvStep, PTL DEF Spec

(* What dispatchers hand to the batched statement is always a batch it can *)
(* carry: BatchedWrite's Take assumes no more than this.                   *)
THEOREM StatementsAreLegal == Spec => []BatchesAreLegal
<1>1. Inv => BatchesAreLegal
  BY DEF Inv
<1> QED
  BY <1>1, PoolInvariance, PTL

(* No submission is lost or carried twice, however pushes, drains, panics  *)
(* and hang-ups interleave.                                                *)
THEOREM Conservation == Spec => []SubmissionsAreConserved
<1>1. Inv => SubmissionsAreConserved
  BY DEF Inv
<1> QED
  BY <1>1, PoolInvariance, PTL

(* The permit and the baton together keep every sleeper away from work     *)
(* nobody is coming for.                                                   *)
THEOREM AttendedWork == Spec => []NoSleeperBesideWork
<1>1. Inv => NoSleeperBesideWork
  BY DEF Inv, NobodyDozesOff, NoSleeperBesideWork, SleepersRest, Idle, TypeOK
<1> QED
  BY <1>1, PoolInvariance, PTL
=============================================================================
