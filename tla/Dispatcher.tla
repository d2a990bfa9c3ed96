----------------------------- MODULE Dispatcher -----------------------------
(***************************************************************************)
(* The writer pool of crates/openledger/src/batching.rs: callers push      *)
(* submissions onto one queue, dispatchers take what is waiting, post it   *)
(* in one statement, answer its callers and drain again.  No timer rescues *)
(* a lost wakeup, and a watcher ends the process when a dispatcher stops.  *)
(*                                                                         *)
(* The queue is a set ordered by `ticket', the push order.  Notify is      *)
(* tokio's: notify_one wakes one sleeper, or stores one permit when nobody *)
(* sleeps; it wakes the oldest, here any.  A push and its notify are two   *)
(* steps, and so are a drain that finds nothing and the wait it leads to:  *)
(* the lock is released in between.  (The shipped binary runs every task   *)
(* on one thread, so its interleavings are some of these.)                 *)
(***************************************************************************)
EXTENDS Integers, FiniteSets

CONSTANTS
  Calls,        \* posts on the HTTP surface
  Dispatchers,  \* the pool
  Menu,         \* what each call may ask: [tenant, key, alone] records, which
                \* is what a command is to the queue
  Ceiling,      \* MAX_BATCH_MEMBERS
  None          \* no command yet

Asks == UNION {Menu[c] : c \in Calls}

ASSUME PoolAssumption == IsFiniteSet(Calls) /\ Ceiling \in Nat \ {0}

VARIABLES
  caller,   \* where each request's task is
  command,  \* what each call asked
  answer,   \* the oneshot back to the caller
  queue,    \* the submissions nobody has taken
  ticket,   \* the order they were pushed in
  arrivals, \* the submissions pushed so far
  permit,   \* the wakeup Notify has stored
  asleep,   \* the dispatchers Notify would wake
  pc,       \* where each dispatcher is
  batch,    \* the submissions each dispatcher holds
  served,   \* the submissions a statement has carried
  running   \* FALSE once the process has exited

callerVars == <<caller, command, answer>>
queueVars  == <<queue, ticket, arrivals>>
notifyVars == <<permit, asleep>>
poolVars   == <<pc, batch, served>>
vars == <<callerVars, queueVars, notifyVars, poolVars, running>>

Init ==
  /\ caller = [c \in Calls |-> "idle"]
  /\ command = [c \in Calls |-> None]
  /\ answer = [c \in Calls |-> "none"]
  /\ queue = {} /\ ticket = [c \in Calls |-> 0] /\ arrivals = 0
  /\ permit = FALSE /\ asleep = {}
  /\ pc = [d \in Dispatchers |-> "draining"]
  /\ batch = [d \in Dispatchers |-> {}]
  /\ served = {}
  /\ running = TRUE

-----------------------------------------------------------------------------
(* Notify *)

(* Variant: a wakeup nobody waits for is dropped.                          *)
NotifyOneWithoutPermit ==
  /\ \/ \E d \in asleep : asleep' = asleep \ {d}
     \/ asleep = {} /\ UNCHANGED asleep
  /\ UNCHANGED permit

NotifyOne ==
  \/ /\ \E d \in asleep : asleep' = asleep \ {d}
     /\ UNCHANGED permit
  \/ /\ asleep = {}
     /\ permit' = TRUE
     /\ UNCHANGED asleep

-----------------------------------------------------------------------------
(* Callers *)

(* push, first half: the submission is queued under the lock.              *)
Push(c) ==
  /\ running /\ caller[c] = "idle"
  /\ \E m \in Menu[c] : command' = [command EXCEPT ![c] = m]
  /\ queue' = queue \cup {c}
  /\ ticket' = [ticket EXCEPT ![c] = arrivals] /\ arrivals' = arrivals + 1
  /\ caller' = [caller EXCEPT ![c] = "pushing"]
  /\ UNCHANGED <<answer, notifyVars, poolVars, running>>

(* push, second half.                                                      *)
Notify(c) ==
  /\ running /\ caller[c] = "pushing"
  /\ NotifyOne
  /\ caller' = [caller EXCEPT ![c] = "waiting"]
  /\ UNCHANGED <<command, answer, queueVars, poolVars, running>>

(* The oneshot resolves: an answer, or a sender dropped by a dead task.    *)
Hear(c) ==
  /\ running /\ caller[c] = "waiting" /\ answer[c] # "none"
  /\ caller' = [caller EXCEPT ![c] = "done"]
  /\ UNCHANGED <<command, answer, queueVars, notifyVars, poolVars, running>>

(* Variant: a caller that hangs up takes its submission with it.           *)
HangUpWithdraws(c) ==
  /\ running /\ caller[c] = "waiting"
  /\ caller' = [caller EXCEPT ![c] = "gone"]
  /\ queue' = queue \ {c}
  /\ UNCHANGED <<command, answer, ticket, arrivals, notifyVars, poolVars, running>>

(* The client goes away.  Its submission stays where it is.                *)
HangUp(c) ==
  /\ running /\ caller[c] = "waiting"
  /\ caller' = [caller EXCEPT ![c] = "gone"]
  /\ UNCHANGED <<command, answer, queueVars, notifyVars, poolVars, running>>

-----------------------------------------------------------------------------
(* Dispatchers *)

Tenant(c)     == command[c].tenant
Key(c)        == command[c].key
PostsAlone(c) == command[c].alone

Before(b, c) == ticket[b] < ticket[c]

(* Variant: a batch that takes a key twice.                                *)
RidesWithTheBatchKeyAside(taken, head, c) ==
  Tenant(c) = Tenant(head) /\ ~PostsAlone(c)

(* rides_with_the_batch: the head's tenant, a plain posted posting, and a  *)
(* key nobody ahead of it in the batch carries.                            *)
RidesWithTheBatch(taken, head, c) ==
  /\ Tenant(c) = Tenant(head) /\ ~PostsAlone(c)
  /\ \A b \in taken : Key(b) # Key(c)

(* take_whatever_is_waiting and collect_the_company_behind: one scan of    *)
(* the queue behind its head takes each waiter that rides with those taken *)
(* before it while there is room, and steps over the others.               *)
IsTheBatch(B) ==
  \E head \in queue :
    /\ \A c \in queue \ {head} : Before(head, c)
    /\ \A c \in queue :
         LET taken == {b \in B : Before(b, c)} IN
         c \in B <=> \/ c = head
                     \/ /\ c # head /\ ~PostsAlone(head)
                        /\ Cardinality(taken) < Ceiling
                        /\ RidesWithTheBatch(taken, head, c)

(* Variant: no baton.                                                      *)
KeepTheBaton(left) == UNCHANGED notifyVars

(* hand_the_baton_on: a drain that leaves work behind wakes another.       *)
HandTheBatonOn(left) ==
  IF left # {} THEN NotifyOne ELSE UNCHANGED notifyVars

(* Variant: a drain that leaves in the queue what it took.                 *)
TakeAndKeep(d) ==
  /\ running /\ pc[d] = "draining" /\ queue # {}
  /\ \E B \in SUBSET queue : IsTheBatch(B) /\ batch' = [batch EXCEPT ![d] = B]
  /\ HandTheBatonOn(queue)
  /\ pc' = [pc EXCEPT ![d] = "posting"]
  /\ UNCHANGED <<callerVars, queueVars, served, running>>

Take(d) ==
  /\ running /\ pc[d] = "draining" /\ queue # {}
  /\ \E B \in SUBSET queue :
       /\ IsTheBatch(B)
       /\ batch' = [batch EXCEPT ![d] = B]
       /\ queue' = queue \ B
       /\ HandTheBatonOn(queue \ B)
  /\ pc' = [pc EXCEPT ![d] = "posting"]
  /\ UNCHANGED <<callerVars, ticket, arrivals, served, running>>

FindNothing(d) ==
  /\ running /\ pc[d] = "draining" /\ queue = {}
  /\ pc' = [pc EXCEPT ![d] = "drained"]
  /\ UNCHANGED <<callerVars, queueVars, notifyVars, batch, served, running>>

(* notified().await: a stored permit is consumed at once.                  *)
Rest(d) ==
  /\ running /\ pc[d] = "drained"
  /\ IF permit
       THEN /\ permit' = FALSE /\ UNCHANGED asleep
            /\ pc' = [pc EXCEPT ![d] = "draining"]
       ELSE /\ asleep' = asleep \cup {d} /\ UNCHANGED permit
            /\ pc' = [pc EXCEPT ![d] = "resting"]
  /\ UNCHANGED <<callerVars, queueVars, batch, served, running>>

Wake(d) ==
  /\ running /\ pc[d] = "resting" /\ d \notin asleep
  /\ pc' = [pc EXCEPT ![d] = "draining"]
  /\ UNCHANGED <<callerVars, queueVars, notifyVars, batch, served, running>>

(* Every member's oneshot is resolved the same way.                        *)
AnswerMembers(d, kind) ==
  answer' = [c \in Calls |-> IF c \in batch[d] THEN kind ELSE answer[c]]

(* post_the_batch_and_answer_its_callers: the statement has ended.         *)
Complete(d) ==
  /\ running /\ pc[d] = "posting"
  /\ AnswerMembers(d, "result")
  /\ served' = served \cup batch[d]
  /\ batch' = [batch EXCEPT ![d] = {}]
  /\ pc' = [pc EXCEPT ![d] = "draining"]
  /\ UNCHANGED <<caller, command, queueVars, notifyVars, running>>

(* The writer panics: the task is dropped, and its senders with it.        *)
Panic(d) ==
  /\ running /\ pc[d] = "posting"
  /\ AnswerMembers(d, "stopped")
  /\ batch' = [batch EXCEPT ![d] = {}]
  /\ pc' = [pc EXCEPT ![d] = "stopped"]
  /\ UNCHANGED <<caller, command, queueVars, notifyVars, served, running>>

(* end_the_process_when_a_dispatcher_stops.                                *)
Exit ==
  /\ running
  /\ \E d \in Dispatchers : pc[d] = "stopped"
  /\ running' = FALSE
  /\ UNCHANGED <<callerVars, queueVars, notifyVars, poolVars>>

-----------------------------------------------------------------------------
DispatcherStep(d) ==
  Take(d) \/ FindNothing(d) \/ Rest(d) \/ Wake(d) \/ Complete(d)

Exited == ~running /\ UNCHANGED vars
Quiet  == (\A d \in Dispatchers : pc[d] = "resting" /\ d \in asleep) /\ UNCHANGED vars

Next ==
  \/ \E c \in Calls : Push(c) \/ Notify(c) \/ Hear(c) \/ HangUp(c)
  \/ \E d \in Dispatchers : DispatcherStep(d) \/ Panic(d)
  \/ Exit \/ Exited \/ Quiet

Spec == Init /\ [][Next]_vars

Progress ==
  \/ \E c \in Calls : Notify(c) \/ Hear(c)
  \/ \E d \in Dispatchers : DispatcherStep(d)
  \/ Exit

(* While some task can run, one does: the runtime polls what is woken, and *)
(* a statement ends, under statement, lock and idle timeouts.  Nothing     *)
(* makes a client call, hang up, or a dispatcher panic.                    *)
FairSpec == Spec /\ WF_vars(Progress)

-----------------------------------------------------------------------------
(* Properties *)

(* Every variable has its type. *)
TypeOK ==
  /\ caller \in [Calls -> {"idle", "pushing", "waiting", "done", "gone"}]
  /\ command \in [Calls -> Asks \cup {None}]
  /\ answer \in [Calls -> {"none", "result", "stopped"}]
  /\ queue \subseteq Calls /\ served \subseteq Calls
  /\ ticket \in [Calls -> Nat] /\ arrivals \in Nat
  /\ permit \in BOOLEAN /\ running \in BOOLEAN
  /\ asleep \subseteq Dispatchers
  /\ pc \in [Dispatchers -> {"draining", "drained", "resting", "posting", "stopped"}]
  /\ batch \in [Dispatchers -> SUBSET Calls]

LegalBatch(B) ==
  /\ Cardinality(B) <= Ceiling
  /\ \A b, c \in B : b # c =>
       Tenant(b) = Tenant(c) /\ Key(b) # Key(c) /\ ~PostsAlone(b)

(* What the batched statement requires of a batch, and aborts or misposts  *)
(* without: one tenant, no key twice, nothing but plain posted postings    *)
(* unless alone, no more than the ceiling.                                 *)
BatchesAreLegal == \A d \in Dispatchers : LegalBatch(batch[d])

(* No submission is lost or carried twice: one that has been pushed is in  *)
(* the queue, or in exactly one batch, or has been answered; never two.    *)
SubmissionsAreConserved ==
  \A c \in Calls :
    LET holders == {d \in Dispatchers : c \in batch[d]} IN
    /\ \A d, e \in holders : d = e
    /\ (caller[c] # "idle") <=> (c \in queue \/ holders # {} \/ answer[c] # "none")
    /\ c \in queue => holders = {} /\ answer[c] = "none"
    /\ holders # {} => answer[c] = "none"

SomebodyIsComing ==
  \/ \E d \in Dispatchers :
       pc[d] = "draining" \/ (pc[d] = "resting" /\ d \notin asleep)
  \/ \E c \in queue : caller[c] = "pushing"

(* No dispatcher sleeps beside work nobody is coming for: while one does,  *)
(* another is on its way to a drain, or a pusher is about to notify.  A    *)
(* dispatcher busy with a statement does not count: it may hold the stall  *)
(* the stepped-over tenant is to be kept out of.                           *)
NoSleeperBesideWork == queue # {} /\ asleep # {} => SomebodyIsComing

(* A caller that waits is answered, unless it hangs up or the process      *)
(* ends: no lost wakeup, and no pool without dispatchers.                  *)
EveryCallerIsAnswered ==
  \A c \in Calls : caller[c] = "waiting" ~> (caller[c] \in {"done", "gone"} \/ ~running)

(* A submission is posted even if its caller hangs up: the retry under its *)
(* key finds out what happened.                                            *)
EverySubmissionIsPosted ==
  \A c \in Calls : caller[c] = "pushing" ~> (c \in served \/ ~running)
=============================================================================
