----------------------------- MODULE Deployment -----------------------------
(***************************************************************************)
(* The binary as an operator runs it against one database: migrate, a job  *)
(* that takes a lock, applies what is pending and exits; serve, which      *)
(* checks the schema once and listens; reconcile, which sweeps once and    *)
(* exits.                                                                  *)
(*                                                                         *)
(* A job may be started twice, killed, or lose its session.  The lock is   *)
(* the session's, so it outlives a killed process for as long as its       *)
(* backend does, which may be for ever.  Each migration runs in one        *)
(* transaction with the row that records it, except the concurrent ones,   *)
(* which build an index outside any transaction and record it afterwards.  *)
(***************************************************************************)
EXTENDS Integers, FiniteSets

CONSTANTS
  Processes,   \* the processes an operator starts, each once
  Command,     \* what each is: migrate, serve or reconcile
  Versions,    \* the migrations ever written, by number
  Files,       \* checksums
  Embedded,    \* what each binary carries: its versions and their files
  Concurrent,  \* the versions marked no-transaction
  Roles,       \* the version that creates the cluster's roles under a guard
  Budget,      \* bound: how often a migrator asks for the lock before the deadline
  None

ASSUME CommandAssumption == Command \in [Processes -> {"migrate", "serve", "reconcile"}]
ASSUME VersionsAssumption == Versions \subseteq Nat \ {0} /\ Concurrent \subseteq Versions
                             /\ Roles \in Versions \ Concurrent
ASSUME EmbeddedAssumption == Embedded \in [Processes -> [Versions -> Files \cup {None}]]
ASSUME BudgetAssumption == Budget \in Nat
ASSUME NoneAssumption == None \notin Processes /\ None \notin Files

VARIABLES
  pc,        \* where each process is
  code,      \* the exit code of each, None while it runs
  sessions,  \* the migrators whose backend is alive
  asked,     \* how often each asked for the lock
  lock,      \* the session that holds the advisory lock
  table,     \* _sqlx_migrations: the file recorded for each version
  schema,    \* what each version's statements left: absent, invalid, whole
  roles,     \* whether the cluster has the roles
  listed,    \* the version table as each process read it
  next,      \* the version each migrator is at
  guard      \* whether each saw the roles missing

vars == <<pc, code, sessions, asked, lock, table, schema, roles, listed, next, guard>>
book == <<table, schema, roles>>
mine == <<asked, listed, next, guard>>

Carried(p)  == {v \in Versions : Embedded[p][v] # None}
Migrators   == {p \in Processes : Command[p] = "migrate"}
At(p, place) == pc[p] = place
Goto(p, place) == pc' = [pc EXCEPT ![p] = place]

Nothing == [v \in Versions |-> None]

(* What a process knew goes with it; what its backend was at stays. *)
Forget(p) ==
  /\ asked' = [asked EXCEPT ![p] = 0]
  /\ listed' = [listed EXCEPT ![p] = Nothing]
  /\ guard' = [guard EXCEPT ![p] = FALSE]

(* main and Failure::code: 1 failed, 2 usage, 3 locked.                    *)
Exit(p, n) == Goto(p, "exited") /\ code' = [code EXCEPT ![p] = n] /\ Forget(p)

Init ==
  /\ pc = [p \in Processes |-> "idle"]
  /\ code = [p \in Processes |-> None]
  /\ sessions = {}
  /\ asked = [p \in Processes |-> 0]
  /\ lock = None
  /\ table = Nothing
  /\ schema = [v \in Versions |-> "absent"]
  /\ roles = FALSE
  /\ listed = [p \in Processes |-> Nothing]
  /\ next = [p \in Processes |-> 0]
  /\ guard = [p \in Processes |-> FALSE]

(* dispatch: a wrong invocation, a URL that does not parse, a database     *)
(* that cannot be reached.                                                 *)
FailToStart(p) ==
  /\ At(p, "idle")
  /\ Exit(p, 2) \/ Exit(p, 1)
  /\ UNCHANGED <<sessions, lock, book, next>>

Start(p) ==
  /\ At(p, "idle")
  /\ Goto(p, CASE Command[p] = "migrate"   -> "asking"
               [] Command[p] = "serve"     -> "gate"
               [] Command[p] = "reconcile" -> "sweeping")
  /\ sessions' = sessions \cup ({p} \cap Migrators)
  /\ UNCHANGED <<code, lock, book, mine>>

-----------------------------------------------------------------------------
(* migrate *)

(* Variant: a lock nobody else can hold.                                   *)
TakeTheLockRegardless(p) ==
  /\ At(p, "asking")
  /\ lock' = p
  /\ Goto(p, "listing")
  /\ UNCHANGED <<code, sessions, book, mine>>

(* pg_try_advisory_lock answers true.                                      *)
TakeTheLock(p) ==
  /\ At(p, "asking") /\ lock = None
  /\ lock' = p
  /\ Goto(p, "listing")
  /\ UNCHANGED <<code, sessions, book, mine>>

(* It answers false, before the deadline: sleep, outside any transaction,  *)
(* and ask again.                                                          *)
AskAgain(p) ==
  /\ At(p, "asking") /\ lock # None /\ asked[p] < Budget
  /\ asked' = [asked EXCEPT ![p] = @ + 1]
  /\ UNCHANGED <<pc, code, sessions, lock, book, listed, next, guard>>

(* Variant: no deadline.                                                   *)
NeverGiveUp(p) == FALSE /\ UNCHANGED vars

(* The session ends with the process.                                      *)
GiveUp(p) ==
  /\ At(p, "asking") /\ lock # None /\ asked[p] = Budget
  /\ Exit(p, 3)
  /\ sessions' = sessions \ {p}
  /\ UNCHANGED <<lock, book, next>>

(* apply's outcome, kept while the lock is released.                       *)
Conclude(p, n) == Goto(p, "releasing") /\ code' = [code EXCEPT ![p] = n]

(* Migrator::run: make the version table if there is none, read it, refuse *)
(* a database that applied what this binary does not carry.                *)
ListApplied(p) ==
  /\ At(p, "listing")
  /\ listed' = [listed EXCEPT ![p] = table]
  /\ IF \A v \in Versions : table[v] # None => v \in Carried(p)
       THEN Goto(p, "choosing") /\ UNCHANGED code
       ELSE Conclude(p, 1)
  /\ UNCHANGED <<sessions, asked, lock, book, next, guard>>

Ahead(p) == {v \in Carried(p) : v > next[p]}

(* The next version it carries, in order: recorded with this file, passed  *)
(* over; with another, refused; not recorded, run.                         *)
Choose(p) ==
  /\ At(p, "choosing")
  /\ \E v \in Ahead(p) :
       /\ \A w \in Ahead(p) : v <= w
       /\ CASE listed[p][v] = Embedded[p][v] ->
                 next' = [next EXCEPT ![p] = v] /\ UNCHANGED <<pc, code>>
            [] listed[p][v] = None ->
                 /\ next' = [next EXCEPT ![p] = v]
                 /\ Goto(p, IF v \in Concurrent THEN "building" ELSE "migrating")
                 /\ UNCHANGED code
            [] OTHER -> Conclude(p, 1) /\ UNCHANGED next
  /\ guard' = [guard EXCEPT ![p] = ~roles]
  /\ UNCHANGED <<sessions, asked, lock, book, listed>>

RunOutOfMigrations(p) ==
  /\ At(p, "choosing") /\ Ahead(p) = {}
  /\ Conclude(p, 0)
  /\ UNCHANGED <<sessions, lock, book, mine>>

Leave(p, state)  == schema' = [schema EXCEPT ![next[p]] = state]
Record(p) == table' = [table EXCEPT ![next[p]] = Embedded[p][next[p]]]

Unrecorded(p)   == table[next[p]] = None
Untouched(p)    == schema[next[p]] = "absent"
RolesCollide(p) == next[p] = Roles /\ guard[p] /\ roles

(* One transaction: the statements and the row.                            *)
Migrate(p) ==
  /\ At(p, "migrating") /\ Untouched(p) /\ Unrecorded(p) /\ ~RolesCollide(p)
  /\ Leave(p, "whole") /\ Record(p) /\ roles' = (roles \/ next[p] = Roles)
  /\ Goto(p, "choosing")
  /\ UNCHANGED <<code, sessions, lock, mine>>

(* classify: lock_not_available is 3, anything else is 1; the transaction  *)
(* is rolled back.  Two first migrations into sibling databases may both    *)
(* have seen no roles; the later one's CREATE ROLE finds a duplicate.      *)
FailToMigrate(p) ==
  /\ At(p, "migrating")
  /\ IF Untouched(p) /\ Unrecorded(p) /\ ~RolesCollide(p)
       THEN Conclude(p, 1) \/ Conclude(p, 3)
       ELSE Conclude(p, 1)
  /\ UNCHANGED <<sessions, lock, book, mine>>

(* CREATE INDEX CONCURRENTLY commits an invalid index first, then waits    *)
(* for other transactions, then validates it.  What it left stays.         *)
StartBuild(p) ==
  /\ At(p, "building") /\ Untouched(p)
  /\ Leave(p, "invalid") /\ Goto(p, "validating")
  /\ UNCHANGED <<code, sessions, lock, table, roles, mine>>

FindItBuilt(p) ==
  /\ At(p, "building") /\ ~Untouched(p)
  /\ Conclude(p, 1)
  /\ UNCHANGED <<sessions, lock, book, mine>>

FinishBuild(p) ==
  /\ At(p, "validating")
  /\ Leave(p, "whole") /\ Goto(p, "recording")
  /\ UNCHANGED <<code, sessions, lock, table, roles, mine>>

FailToBuild(p) ==
  /\ At(p, "validating")
  /\ Conclude(p, 1) \/ Conclude(p, 3)
  /\ UNCHANGED <<sessions, lock, book, mine>>

RecordBuild(p) ==
  /\ At(p, "recording") /\ Unrecorded(p)
  /\ Record(p) /\ Goto(p, "choosing")
  /\ UNCHANGED <<code, sessions, lock, schema, roles, mine>>

Free(p) == lock' = IF lock = p THEN None ELSE lock

(* release_lock, then exit with apply's outcome.                           *)
Release(p) ==
  /\ At(p, "releasing")
  /\ Free(p)
  /\ sessions' = sessions \ {p}
  /\ Goto(p, "exited") /\ Forget(p)
  /\ UNCHANGED <<code, book, next>>

(* Another database of the cluster is migrated for the first time: the    *)
(* roles are the cluster's, the lock is not.                               *)
CreateRolesElsewhere ==
  /\ ~roles /\ roles' = TRUE
  /\ UNCHANGED <<pc, code, sessions, lock, table, schema, mine>>

Working == {"listing", "choosing", "migrating", "building", "validating", "recording"}

(* The server ends the session: the transaction is rolled back, the lock   *)
(* is free, and the migrator's next statement fails.                       *)
LoseSession(p) ==
  /\ pc[p] \in Working \cup {"asking"}
  /\ Free(p)
  /\ sessions' = sessions \ {p}
  /\ Exit(p, 1)
  /\ UNCHANGED <<book, next>>

(* The process dies; its backend has not noticed yet.                      *)
Kill(p) ==
  /\ pc[p] \in Working \cup {"asking"}
  /\ Goto(p, "killed") /\ Forget(p)
  /\ UNCHANGED <<code, sessions, lock, book, next>>

(* The backend ends, perhaps only after the statement it was running: an   *)
(* index it was building may become whole with nobody left to record it.   *)
EndBackend(p) ==
  /\ At(p, "killed") /\ p \in sessions
  /\ Free(p)
  /\ sessions' = sessions \ {p}
  /\ \/ UNCHANGED schema
     \/ next[p] \in Concurrent /\ schema[next[p]] = "invalid" /\ Leave(p, "whole")
  /\ UNCHANGED <<pc, code, table, roles, mine>>

-----------------------------------------------------------------------------
(* serve and reconcile *)

Migrated == \E v \in Versions : table[v] # None

(* refuse_an_unmigrated_database *)
PassTheFirstRead(p) ==
  /\ At(p, "gate") /\ Migrated
  /\ Goto(p, "reading")
  /\ UNCHANGED <<code, sessions, lock, book, mine>>

RefuseUnmigrated(p) ==
  /\ At(p, "gate") /\ ~Migrated
  /\ Exit(p, 1)
  /\ UNCHANGED <<sessions, lock, book, next>>

(* applied_migration_checksums, in a second statement.                     *)
ReadChecksums(p) ==
  /\ At(p, "reading")
  /\ listed' = [listed EXCEPT ![p] = table]
  /\ Goto(p, "judging")
  /\ UNCHANGED <<code, sessions, asked, lock, book, next, guard>>

(* Variant: a gate that compares versions and not checksums.               *)
CurrentByVersion(p, applied) == \A v \in Carried(p) : applied[v] # None

(* drift_from_the_embedded_migrations: nothing missing, nothing different; *)
(* what this binary does not carry is ignored.                             *)
Current(p, applied) == \A v \in Carried(p) : applied[v] = Embedded[p][v]

Listen(p) ==
  /\ At(p, "judging") /\ Current(p, listed[p])
  /\ Goto(p, "serving")
  /\ UNCHANGED <<code, sessions, lock, book, mine>>

(* Behind, or of other files; or the address cannot be bound, a read       *)
(* failed, or serving stopped.                                             *)
StopServing(p) ==
  /\ pc[p] \in {"gate", "reading", "judging", "serving"}
  /\ Exit(p, 1)
  /\ UNCHANGED <<sessions, lock, book, next>>

(* SET ROLE, then the summary in one snapshot: without the roles or the    *)
(* views it fails, with another number of checks or a break it is refused. *)
Sweep(p) ==
  /\ At(p, "sweeping")
  /\ \/ Exit(p, 1)
     \/ roles /\ table[Roles] # None /\ Exit(p, 0)
  /\ UNCHANGED <<sessions, lock, book, next>>

Step(p) ==
  \/ Start(p)
  \/ TakeTheLock(p) \/ AskAgain(p) \/ GiveUp(p)
  \/ ListApplied(p) \/ Choose(p) \/ RunOutOfMigrations(p)
  \/ Migrate(p) \/ FailToMigrate(p)
  \/ StartBuild(p) \/ FindItBuilt(p) \/ FinishBuild(p) \/ FailToBuild(p) \/ RecordBuild(p)
  \/ Release(p)
  \/ PassTheFirstRead(p) \/ RefuseUnmigrated(p) \/ ReadChecksums(p) \/ Listen(p)
  \/ Sweep(p)

Terminated ==
  /\ \A p \in Processes : pc[p] \in {"exited", "killed", "serving"}
  /\ UNCHANGED vars

Next ==
  \/ \E p \in Processes :
       Step(p) \/ FailToStart(p) \/ LoseSession(p) \/ Kill(p) \/ EndBackend(p) \/ StopServing(p)
  \/ CreateRolesElsewhere
  \/ Terminated

Spec == Init /\ [][Next]_vars

(* A process that was started runs.  Nothing says that an orphaned backend *)
(* ever ends.                                                              *)
FairSpec == Spec /\ \A p \in Processes : WF_vars(Step(p))

-----------------------------------------------------------------------------
(* Properties *)

(* Each migration runs once and is recorded with what ran, whoever is      *)
(* killed and however many jobs are started: one migrator works on a       *)
(* database at a time, what it read of the version table stays true but    *)
(* for what it applied itself, a transactional migration is in the schema  *)
(* exactly when it is in the table, and a concurrent one only if it is     *)
(* whole.                                                                  *)
MigrationsRunOnce ==
  /\ \A p \in Migrators : pc[p] \in Working => lock = p
  /\ \A p \in Migrators : pc[p] \in Working \ {"listing"} =>
       \A v \in Versions : listed[p][v] # table[v] =>
         listed[p][v] = None /\ table[v] = Embedded[p][v] /\ v <= next[p]
  /\ \A v \in Versions :
       /\ table[v] # None => schema[v] = "whole"
       /\ v \notin Concurrent /\ schema[v] # "absent" => table[v] # None

(* Success lasts.  After exit 0 of a migrate job the database has all it   *)
(* carries, as it carries it, and a server that listens never finds its    *)
(* schema behind or of other files, whatever jobs run or are killed later. *)
SuccessLasts ==
  \A p \in Processes :
    \/ Command[p] = "migrate" /\ At(p, "exited") /\ code[p] = 0
    \/ At(p, "serving")
    => \A v \in Carried(p) : table[v] = Embedded[p][v] /\ schema[v] = "whole"

(* Every job that was started ends with an exit code, unless it is killed; *)
(* also when the lock is held for ever by a backend nobody is behind.      *)
EveryJobEnds ==
  \A p \in Migrators : pc[p] \notin {"idle", "exited"} ~> pc[p] \in {"exited", "killed"}
=============================================================================
