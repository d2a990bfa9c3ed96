------------------------- MODULE Deployment_proofs --------------------------
(***************************************************************************)
(* Proofs, for any processes, binaries and migrations: each migration runs *)
(* once, and success lasts.                                                *)
(***************************************************************************)
EXTENDS Deployment, TLAPS

Places ==
  {"idle", "asking", "gate", "reading", "judging", "serving", "sweeping",
   "releasing", "exited", "killed"} \cup Working

Types ==
  /\ pc \in [Processes -> Places]
  /\ code \in [Processes -> {0, 1, 2, 3, None}]
  /\ table \in [Versions -> Files \cup {None}]
  /\ schema \in [Versions -> {"absent", "invalid", "whole"}]
  /\ listed \in [Processes -> [Versions -> Files \cup {None}]]
  /\ next \in [Processes -> Nat]

(* Only a migrator is at work, and until it has read the version table it  *)
(* has reached no version.                                                 *)
Jobs ==
  \A p \in Processes :
    /\ pc[p] \in Working \cup {"asking", "releasing", "killed"} => Command[p] = "migrate"
    /\ pc[p] \in {"gate", "reading", "judging", "serving", "sweeping"} => Command[p] # "migrate"
    /\ pc[p] \in {"idle", "asking", "listing"} => next[p] = 0

Exclusive == \A p \in Processes : pc[p] \in Working => lock = p

(* What a migrator at work read of the version table is still true, but    *)
(* for what it applied itself.                                             *)
ReadTrue ==
  \A p \in Processes : pc[p] \in Working \ {"listing"} =>
    \A v \in Versions : listed[p][v] # table[v] =>
      listed[p][v] = None /\ table[v] = Embedded[p][v] /\ v <= next[p]

(* Everything it carries up to the version it is at has been applied, and  *)
(* that version, while it is run, is one it read as missing.               *)
InOrder ==
  \A p \in Processes : pc[p] \in Working \ {"listing"} =>
    /\ \A v \in Carried(p) :
         v < next[p] \/ (v = next[p] /\ At(p, "choosing")) => table[v] = Embedded[p][v]
    /\ ~At(p, "choosing") =>
         /\ next[p] \in Carried(p) /\ listed[p][next[p]] = None
         /\ next[p] \in Concurrent <=> ~At(p, "migrating")
         /\ At(p, "recording") => schema[next[p]] = "whole"

(* The version table and the schema agree.                                 *)
Agree ==
  \A v \in Versions :
    /\ table[v] # None => schema[v] = "whole"
    /\ v \notin Concurrent /\ schema[v] # "absent" => table[v] # None

Applied(p) == \A v \in Carried(p) : table[v] = Embedded[p][v]

(* A migrator that will exit with success has applied all it carries, and  *)
(* what the gate read and let pass is still there.                         *)
Succeeded ==
  \A p \in Processes :
    /\ Command[p] = "migrate" /\ pc[p] \in {"releasing", "exited"} /\ code[p] = 0 => Applied(p)
    /\ At(p, "judging") =>
         \A v \in Versions : listed[p][v] # None => table[v] = listed[p][v]
    /\ At(p, "serving") => Applied(p)

DeploymentInv ==
  Types /\ Jobs /\ Exclusive /\ ReadTrue /\ InOrder /\ Agree /\ Succeeded

USE CommandAssumption, VersionsAssumption, EmbeddedAssumption, NoneAssumption

LEMMA DeploymentInit == Init => DeploymentInv
  BY DEF Init, Nothing, Carried, Applied, At, Places, Working,
         DeploymentInv, Types, Jobs, Exclusive, ReadTrue, InOrder, Agree, Succeeded

(* A process that stops working, whatever became of its lock and of what   *)
(* it read, disturbs nobody; if it reports success, it has earned it.      *)
LEMMA StopKeeps ==
  ASSUME DeploymentInv, NEW p \in Processes, NEW s \in {"releasing", "exited", "killed"},
         Goto(p, s), s # "exited" => Command[p] = "migrate",
         code' \in [Processes -> {0, 1, 2, 3, None}],
         listed' \in [Processes -> [Versions -> Files \cup {None}]],
         \A q \in Processes \ {p} :
           code'[q] = code[q] /\ listed'[q] = listed[q] /\ (lock = q => lock' = q),
         Command[p] = "migrate" /\ s # "killed" /\ code'[p] = 0 => Applied(p),
         UNCHANGED <<table, schema, next>>
  PROVE  DeploymentInv'
<1>1. pc' = [pc EXCEPT ![p] = s]
  BY DEF Goto
<1>2. Types' /\ Agree'
  BY <1>1 DEF Places, DeploymentInv, Types, Agree
<1>3. Jobs'
  BY <1>1 DEF Working, DeploymentInv, Types, Jobs
<1>4. Exclusive' /\ ReadTrue'
  BY <1>1 DEF Working, DeploymentInv, Types, Exclusive, ReadTrue
<1>5. InOrder'
  BY <1>1 DEF At, Working, Carried, DeploymentInv, Types, InOrder
<1>6. Succeeded'
  BY <1>1 DEF At, Carried, Applied, DeploymentInv, Types, Succeeded
<1> QED BY <1>2, <1>3, <1>4, <1>5, <1>6 DEF DeploymentInv

LEMMA ExitKeeps ==
  ASSUME DeploymentInv, NEW p \in Processes, NEW n \in {0, 1, 2, 3}, Exit(p, n),
         n = 0 => Command[p] # "migrate",
         lock' = lock \/ Free(p), UNCHANGED <<table, schema, next>>
  PROVE  DeploymentInv'
<1>1. code' = [code EXCEPT ![p] = n] /\ listed' = [listed EXCEPT ![p] = Nothing]
  BY DEF Exit, Forget
<1>2. \A q \in Processes \ {p} :
        code'[q] = code[q] /\ listed'[q] = listed[q] /\ (lock = q => lock' = q)
  BY <1>1 DEF Free, DeploymentInv, Types
<1>3. code' \in [Processes -> {0, 1, 2, 3, None}] /\ code'[p] = n
  BY <1>1 DEF DeploymentInv, Types
<1>4. listed' \in [Processes -> [Versions -> Files \cup {None}]]
  BY <1>1 DEF Nothing, DeploymentInv, Types
<1> QED BY <1>2, <1>3, <1>4, StopKeeps DEF Exit

LEMMA ConcludeKeeps ==
  ASSUME DeploymentInv, NEW p \in Processes, NEW n \in {0, 1, 3}, Conclude(p, n),
         Command[p] = "migrate", n = 0 => Applied(p),
         listed' \in [Processes -> [Versions -> Files \cup {None}]],
         \A q \in Processes \ {p} : listed'[q] = listed[q],
         UNCHANGED <<lock, table, schema, next>>
  PROVE  DeploymentInv'
<1>1. code' = [code EXCEPT ![p] = n]
  BY DEF Conclude
<1>2. code' \in [Processes -> {0, 1, 2, 3, None}] /\ code'[p] = n
  BY <1>1 DEF DeploymentInv, Types
<1>3. \A q \in Processes \ {p} : code'[q] = code[q] /\ (lock = q => lock' = q)
  BY <1>1 DEF DeploymentInv, Types
<1> QED BY <1>2, <1>3, StopKeeps DEF Conclude

(* A job starts at its beginning.                                          *)
LEMMA StartKeeps ==
  ASSUME DeploymentInv, NEW p \in Processes, Start(p)
  PROVE  DeploymentInv'
<1>1. At(p, "idle") /\ UNCHANGED <<code, lock, table, schema, listed, next>>
  BY DEF Start, book, mine
<1>2. PICK s \in {"asking", "gate", "sweeping"} :
        /\ pc' = [pc EXCEPT ![p] = s]
        /\ s = "asking" <=> Command[p] = "migrate"
  BY DEF Start, Goto
<1>3. Types' /\ Jobs'
  BY <1>1, <1>2 DEF At, Working, Places, DeploymentInv, Types, Jobs
<1>4. Exclusive' /\ ReadTrue'
  BY <1>1, <1>2 DEF At, Working, DeploymentInv, Types, Exclusive, ReadTrue
<1>5. InOrder'
  BY <1>1, <1>2 DEF At, Working, Carried, DeploymentInv, Types, InOrder
<1>6. Agree' /\ Succeeded'
  BY <1>1, <1>2 DEF At, Working, Carried, Applied, DeploymentInv, Types, Agree, Succeeded
<1> QED BY <1>3, <1>4, <1>5, <1>6 DEF DeploymentInv

(* Whoever finds the lock free finds nobody at work.                       *)
LEMMA TakeTheLockKeeps ==
  ASSUME DeploymentInv, NEW p \in Processes, TakeTheLock(p)
  PROVE  DeploymentInv'
<1>1. /\ At(p, "asking") /\ lock = None /\ lock' = p
      /\ pc' = [pc EXCEPT ![p] = "listing"]
      /\ UNCHANGED <<code, table, schema, listed, next>>
  BY DEF TakeTheLock, Goto, book, mine
<1>2. Types' /\ Jobs'
  BY <1>1 DEF At, Working, Places, DeploymentInv, Types, Jobs
<1>3. Exclusive' /\ ReadTrue'
  BY <1>1 DEF At, Working, DeploymentInv, Types, Exclusive, ReadTrue
<1>4. InOrder'
  BY <1>1 DEF At, Working, Carried, DeploymentInv, Types, Exclusive, InOrder
<1>5. Agree' /\ Succeeded'
  BY <1>1 DEF At, Working, Carried, Applied, DeploymentInv, Types, Agree, Succeeded
<1> QED BY <1>2, <1>3, <1>4, <1>5 DEF DeploymentInv

(* The gate's second read is of the table as it is.                        *)
LEMMA ReadChecksumsKeeps ==
  ASSUME DeploymentInv, NEW p \in Processes, ReadChecksums(p)
  PROVE  DeploymentInv'
<1>1. /\ At(p, "reading") /\ listed' = [listed EXCEPT ![p] = table]
      /\ pc' = [pc EXCEPT ![p] = "judging"]
      /\ UNCHANGED <<code, lock, table, schema, next>>
  BY DEF ReadChecksums, Goto, book
<1>2. Types' /\ Jobs'
  BY <1>1 DEF At, Working, Places, DeploymentInv, Types, Jobs
<1>3. Exclusive' /\ ReadTrue'
  BY <1>1 DEF At, Working, DeploymentInv, Types, Exclusive, ReadTrue
<1>4. InOrder'
  BY <1>1 DEF At, Working, Carried, DeploymentInv, Types, InOrder
<1>5. Agree' /\ Succeeded'
  BY <1>1 DEF At, Working, Carried, Applied, DeploymentInv, Types, Agree, Succeeded
<1> QED BY <1>2, <1>3, <1>4, <1>5 DEF DeploymentInv

(* What the gate lets pass is what it carries.                             *)
LEMMA ListenKeeps ==
  ASSUME DeploymentInv, NEW p \in Processes, Listen(p)
  PROVE  DeploymentInv'
<1>1. /\ At(p, "judging") /\ \A v \in Carried(p) : listed[p][v] = Embedded[p][v]
      /\ pc' = [pc EXCEPT ![p] = "serving"]
      /\ UNCHANGED <<code, lock, table, schema, listed, next>>
  BY DEF Listen, Current, Goto, book, mine
<1>2. Types' /\ Jobs'
  BY <1>1 DEF At, Working, Places, DeploymentInv, Types, Jobs
<1>3. Exclusive' /\ ReadTrue'
  BY <1>1 DEF At, Working, DeploymentInv, Types, Exclusive, ReadTrue
<1>4. InOrder'
  BY <1>1 DEF At, Working, Carried, DeploymentInv, Types, InOrder
<1>5. Agree' /\ Succeeded'
  BY <1>1 DEF At, Working, Carried, Applied, DeploymentInv, Types, Agree, Succeeded
<1> QED BY <1>2, <1>3, <1>4, <1>5 DEF DeploymentInv

(* The gate's first read decides nothing for good.                         *)
LEMMA PassTheFirstReadKeeps ==
  ASSUME DeploymentInv, NEW p \in Processes, PassTheFirstRead(p)
  PROVE  DeploymentInv'
<1>1. /\ At(p, "gate") /\ pc' = [pc EXCEPT ![p] = "reading"]
      /\ UNCHANGED <<code, lock, table, schema, listed, next>>
  BY DEF PassTheFirstRead, Goto, book, mine
<1>2. Types' /\ Jobs'
  BY <1>1 DEF At, Working, Places, DeploymentInv, Types, Jobs
<1>3. Exclusive' /\ ReadTrue'
  BY <1>1 DEF At, Working, DeploymentInv, Types, Exclusive, ReadTrue
<1>4. InOrder'
  BY <1>1 DEF At, Working, Carried, DeploymentInv, Types, InOrder
<1>5. Agree' /\ Succeeded'
  BY <1>1 DEF At, Working, Carried, Applied, DeploymentInv, Types, Agree, Succeeded
<1> QED BY <1>2, <1>3, <1>4, <1>5 DEF DeploymentInv

(* An index that is begun is in nobody's table.                            *)
LEMMA StartBuildKeeps ==
  ASSUME DeploymentInv, NEW p \in Processes, StartBuild(p)
  PROVE  DeploymentInv'
<1>1. /\ At(p, "building") /\ schema[next[p]] = "absent"
      /\ pc' = [pc EXCEPT ![p] = "validating"]
      /\ schema' = [schema EXCEPT ![next[p]] = "invalid"]
      /\ UNCHANGED <<code, lock, table, listed, next>>
  BY DEF StartBuild, Goto, Leave, Untouched, mine
<1>2. Types' /\ Jobs'
  BY <1>1 DEF At, Working, Places, DeploymentInv, Types, Jobs
<1>3. Exclusive' /\ ReadTrue'
  BY <1>1 DEF At, Working, DeploymentInv, Types, Exclusive, ReadTrue
<1>4. InOrder'
  BY <1>1 DEF At, Working, Carried, DeploymentInv, Types, Exclusive, InOrder
<1>5. Agree' /\ Succeeded'
  BY <1>1 DEF At, Working, Carried, Applied, DeploymentInv, Types, InOrder, Agree, Succeeded
<1> QED BY <1>2, <1>3, <1>4, <1>5 DEF DeploymentInv

(* Only a whole index is recorded.                                         *)
LEMMA FinishBuildKeeps ==
  ASSUME DeploymentInv, NEW p \in Processes, FinishBuild(p)
  PROVE  DeploymentInv'
<1>1. /\ At(p, "validating") /\ pc' = [pc EXCEPT ![p] = "recording"]
      /\ schema' = [schema EXCEPT ![next[p]] = "whole"]
      /\ UNCHANGED <<code, lock, table, listed, next>>
  BY DEF FinishBuild, Goto, Leave, mine
<1>2. Types' /\ Jobs'
  BY <1>1 DEF At, Working, Places, DeploymentInv, Types, Jobs
<1>3. Exclusive' /\ ReadTrue'
  BY <1>1 DEF At, Working, DeploymentInv, Types, Exclusive, ReadTrue
<1>4. InOrder'
  BY <1>1 DEF At, Working, Carried, DeploymentInv, Types, Exclusive, InOrder
<1>5. Agree' /\ Succeeded'
  <2>1. next[p] \in Concurrent /\ next[p] \in Versions
    BY <1>1 DEF At, Working, Carried, DeploymentInv, InOrder
  <2>2. Agree'
    BY <1>1, <2>1 DEF DeploymentInv, Types, Agree
  <2>3. Succeeded'
    BY <1>1 DEF At, Carried, Applied, DeploymentInv, Types, Succeeded
  <2> QED BY <2>2, <2>3
<1> QED BY <1>2, <1>3, <1>4, <1>5 DEF DeploymentInv

(* A version is recorded once it is whole: it was in nobody's table, and   *)
(* nobody else is at work.                                                 *)
LEMMA RecordKeeps ==
  ASSUME DeploymentInv, NEW p \in Processes,
         pc[p] \in {"migrating", "recording"}, Unrecorded(p), Record(p), Goto(p, "choosing"),
         Leave(p, "whole") \/ (At(p, "recording") /\ schema' = schema),
         UNCHANGED <<code, lock, listed, next>>
  PROVE  DeploymentInv'
<1> DEFINE v == next[p]
<1>1. /\ v \in Versions /\ Embedded[p][v] \in Files \ {None}
      /\ table[v] = None /\ listed[p][v] = None
  BY DEF DeploymentInv, Types, InOrder, Carried, Unrecorded, At, Working
<1>2. /\ pc' = [pc EXCEPT ![p] = "choosing"]
      /\ table' = [table EXCEPT ![v] = Embedded[p][v]]
  BY DEF Goto, Record
<1>3. \A q \in Processes \ {p} : pc[q] \notin Working /\ pc'[q] = pc[q]
  BY <1>2 DEF DeploymentInv, Types, Exclusive, Working
<1>4. \A q \in Processes : Applied(q) => Applied(q)'
  <2> SUFFICES ASSUME NEW q \in Processes, Applied(q), NEW w \in Carried(q)
               PROVE  table'[w] = Embedded[q][w]
    BY DEF Applied, Carried
  <2>1. w \in Versions /\ table[w] = Embedded[q][w] /\ table[w] # None
    BY DEF Applied, Carried
  <2> QED BY <1>1, <1>2, <2>1 DEF DeploymentInv, Types
<1>5. schema'[v] = "whole" /\ \A w \in Versions \ {v} : schema'[w] = schema[w]
  BY <1>1 DEF Leave, At, DeploymentInv, Types, InOrder, Working
<1>6. Types'
  BY <1>1, <1>2 DEF Leave, Working, Places, DeploymentInv, Types
<1>7. Jobs'
  BY <1>2, <1>3 DEF DeploymentInv, Types, Jobs, Working
<1>8. Exclusive'
  BY <1>2, <1>3 DEF DeploymentInv, Types, Exclusive, Working
<1>9. ReadTrue'
  BY <1>1, <1>2, <1>3 DEF DeploymentInv, Types, ReadTrue, Working
<1>10. InOrder'
  <2> SUFFICES ASSUME NEW q \in Processes, pc'[q] \in Working \ {"listing"}
               PROVE  /\ q = p
                      /\ \A w \in Carried(q) :
                           w < next'[q] \/ w = next'[q] => table'[w] = Embedded[q][w]
    BY <1>2 DEF InOrder, At, Carried, DeploymentInv, Types
  <2>1. q = p
    BY <1>3
  <2>2. \A w \in Carried(p) : w < v => table[w] = Embedded[p][w]
    <3>1. pc[p] \in Working \ {"listing"}
      BY DEF Working
    <3> QED BY <3>1 DEF DeploymentInv, InOrder
  <2> QED BY <1>1, <1>2, <2>1, <2>2 DEF Carried, DeploymentInv, Types
<1>11. Agree'
  BY <1>1, <1>2, <1>5 DEF DeploymentInv, Types, Agree
<1>12. Succeeded'
  <2>1. \A q \in Processes, w \in Versions :
          At(q, "judging") /\ listed[q][w] # None => table'[w] = listed[q][w]
    BY <1>1, <1>2 DEF DeploymentInv, Types, Succeeded
  <2> QED BY <1>2, <1>3, <1>4, <2>1 DEF DeploymentInv, Types, Succeeded, At
<1> QED BY <1>6, <1>7, <1>8, <1>9, <1>10, <1>11, <1>12 DEF DeploymentInv

(* An orphaned backend makes whole at most what its migrator had begun.    *)
LEMMA EndBackendKeeps ==
  ASSUME DeploymentInv, NEW p \in Processes, EndBackend(p)
  PROVE  DeploymentInv'
<1>1. /\ At(p, "killed") /\ lock' = (IF lock = p THEN None ELSE lock)
      /\ \/ schema' = schema
         \/ /\ next[p] \in Concurrent /\ schema' = [schema EXCEPT ![next[p]] = "whole"]
      /\ UNCHANGED <<pc, code, table, listed, next>>
  BY DEF EndBackend, Free, Leave, mine
<1>2. Types' /\ Jobs'
  BY <1>1 DEF At, Working, Places, DeploymentInv, Types, Jobs
<1>3. Exclusive' /\ ReadTrue'
  BY <1>1 DEF At, Working, DeploymentInv, Types, Exclusive, ReadTrue
<1>4. InOrder'
  BY <1>1 DEF At, Working, Carried, DeploymentInv, Types, InOrder
<1>5. Agree' /\ Succeeded'
  BY <1>1 DEF At, Working, Carried, Applied, DeploymentInv, Types, Agree, Succeeded
<1> QED BY <1>2, <1>3, <1>4, <1>5 DEF DeploymentInv

(* Reading the version table: refused, or at the first version.            *)
LEMMA ListAppliedKeeps ==
  ASSUME DeploymentInv, NEW p \in Processes, ListApplied(p)
  PROVE  DeploymentInv'
<1>1. listed' = [listed EXCEPT ![p] = table] /\ UNCHANGED <<lock, table, schema, next>>
  BY DEF ListApplied, book
<1>2. At(p, "listing") /\ Command[p] = "migrate" /\ next[p] = 0
  BY DEF ListApplied, DeploymentInv, Jobs, At, Working
<1>3. CASE Conclude(p, 1)
  <2>1. /\ listed' \in [Processes -> [Versions -> Files \cup {None}]]
        /\ \A q \in Processes \ {p} : listed'[q] = listed[q]
    BY <1>1 DEF DeploymentInv, Types
  <2>2. 1 \in {0, 1, 3} /\ (1 = 0 => Applied(p))
    OBVIOUS
  <2>3. UNCHANGED <<lock, table, schema, next>>
    BY <1>1
  <2> QED BY <1>2, <1>3, <2>1, <2>2, <2>3, ConcludeKeeps
<1>4. CASE Goto(p, "choosing") /\ UNCHANGED code
  <2>1. pc' = [pc EXCEPT ![p] = "choosing"] /\ code' = code
    BY <1>4 DEF Goto
  <2>2. Types' /\ Jobs' /\ Exclusive' /\ Agree'
    BY <1>1, <1>2, <2>1 DEF At, Working, Places, DeploymentInv, Types, Jobs, Exclusive, Agree
  <2>3. ReadTrue' /\ InOrder'
    BY <1>1, <1>2, <2>1 DEF At, Working, Carried, DeploymentInv, Types, ReadTrue, InOrder
  <2>4. Succeeded'
    BY <1>1, <1>2, <2>1 DEF At, Carried, Applied, DeploymentInv, Types, Succeeded
  <2> QED BY <2>2, <2>3, <2>4 DEF DeploymentInv
<1> QED BY <1>3, <1>4 DEF ListApplied

(* The next version is the least one ahead, so nothing it carries is left  *)
(* behind.                                                                 *)
LEMMA ChooseKeeps ==
  ASSUME DeploymentInv, NEW p \in Processes, Choose(p)
  PROVE  DeploymentInv'
<1> PICK v \in Ahead(p) :
      /\ \A w \in Ahead(p) : v <= w
      /\ \/ /\ listed[p][v] = Embedded[p][v]
            /\ next' = [next EXCEPT ![p] = v] /\ UNCHANGED <<pc, code>>
         \/ /\ listed[p][v] = None
            /\ next' = [next EXCEPT ![p] = v]
            /\ Goto(p, IF v \in Concurrent THEN "building" ELSE "migrating")
            /\ UNCHANGED code
         \/ Conclude(p, 1) /\ UNCHANGED next
  BY DEF Choose
<1>1. At(p, "choosing") /\ UNCHANGED <<lock, table, schema, listed>>
  BY DEF Choose, book
<1>2. CASE Conclude(p, 1) /\ UNCHANGED next
  <2>1. Command[p] = "migrate"
    BY <1>1 DEF At, Working, DeploymentInv, Jobs
  <2>2. listed' \in [Processes -> [Versions -> Files \cup {None}]]
    BY <1>1 DEF DeploymentInv, Types
  <2>3. 1 \in {0, 1, 3} /\ (1 = 0 => Applied(p))
    OBVIOUS
  <2>4. UNCHANGED <<lock, table, schema, next>> /\ \A q \in Processes : listed'[q] = listed[q]
    BY <1>1, <1>2
  <2> QED BY <1>2, <2>1, <2>2, <2>3, <2>4, ConcludeKeeps
<1>3. CASE ~(Conclude(p, 1) /\ UNCHANGED next)
  <2>1. v \in Carried(p) /\ v \in Nat /\ v > next[p] /\ next[p] \in Nat
    BY DEF Ahead, Carried, DeploymentInv, Types
  <2>2. next' = [next EXCEPT ![p] = v] /\ UNCHANGED code
    BY <1>3
  <2>3. \A w \in Carried(p) : w < v => table[w] = Embedded[p][w]
    <3>1. \A w \in Carried(p) : w \in Nat
      BY DEF Carried
    <3>2. \A w \in Carried(p) : w > next[p] => v <= w
      BY DEF Ahead
    <3>3. \A w \in Carried(p) : w < next[p] \/ w = next[p] => table[w] = Embedded[p][w]
      BY <1>1 DEF At, DeploymentInv, InOrder, Working
    <3> QED BY <2>1, <3>1, <3>2, <3>3
  <2>4. CASE listed[p][v] = Embedded[p][v] /\ UNCHANGED pc
    <3>1. table[v] = Embedded[p][v]
      BY <1>1, <2>1, <2>4 DEF Carried, At, DeploymentInv, ReadTrue, Working
    <3>2. Types' /\ Jobs' /\ Exclusive' /\ Agree' /\ Succeeded'
      BY <1>1, <2>1, <2>2, <2>4 DEF At, Working, Carried, Applied, DeploymentInv, Types,
         Jobs, Exclusive, Agree, Succeeded
    <3>3. ReadTrue'
      BY <1>1, <2>1, <2>2, <2>4 DEF At, DeploymentInv, Types, ReadTrue
    <3>4. InOrder'
      BY <1>1, <2>1, <2>2, <2>3, <2>4, <3>1 DEF At, Carried, DeploymentInv, Types, InOrder
    <3> QED BY <3>2, <3>3, <3>4 DEF DeploymentInv
  <2>5. CASE listed[p][v] = None /\ Goto(p, IF v \in Concurrent THEN "building" ELSE "migrating")
    <3>1. pc' = [pc EXCEPT ![p] = IF v \in Concurrent THEN "building" ELSE "migrating"]
      BY <2>5 DEF Goto
    <3>2. Types' /\ Jobs' /\ Exclusive' /\ Agree'
      BY <1>1, <2>1, <2>2, <3>1 DEF At, Working, Places, DeploymentInv, Types, Jobs,
         Exclusive, Agree
    <3>3. ReadTrue'
      BY <1>1, <2>1, <2>2, <3>1 DEF At, Working, DeploymentInv, Types, ReadTrue
    <3>4. InOrder'
      BY <1>1, <2>1, <2>2, <2>3, <2>5, <3>1 DEF At, Working, Carried, DeploymentInv, Types, InOrder
    <3>5. Succeeded'
      BY <1>1, <2>2, <3>1 DEF At, Carried, Applied, DeploymentInv, Types, Succeeded
    <3> QED BY <3>2, <3>3, <3>4, <3>5 DEF DeploymentInv
  <2> QED BY <1>3, <2>4, <2>5
<1> QED BY <1>2, <1>3

LEMMA StutterKeeps ==
  ASSUME DeploymentInv, UNCHANGED <<pc, code, lock, table, schema, listed, next>>
  PROVE  DeploymentInv'
  BY DEF At, Carried, Applied,
         DeploymentInv, Types, Jobs, Exclusive, ReadTrue, InOrder, Agree, Succeeded

LEMMA StepKeeps ==
  ASSUME DeploymentInv, NEW p \in Processes, Step(p)
  PROVE  DeploymentInv'
<1>1. CASE Start(p) \/ TakeTheLock(p)
  BY <1>1, StartKeeps, TakeTheLockKeeps
<1>2. CASE AskAgain(p)
  BY <1>2, StutterKeeps DEF AskAgain, book
<1>3. CASE ListApplied(p) \/ Choose(p)
  BY <1>3, ListAppliedKeeps, ChooseKeeps
<1>4. CASE RunOutOfMigrations(p)
  <2>1. At(p, "choosing") /\ Ahead(p) = {} /\ next[p] \in Nat
    BY <1>4 DEF RunOutOfMigrations, DeploymentInv, Types
  <2>2. \A w \in Carried(p) : w \in Nat /\ ~(w > next[p])
    BY <2>1 DEF Ahead, Carried
  <2>3. Applied(p)
    <3>1. \A w \in Carried(p) : w < next[p] \/ w = next[p] => table[w] = Embedded[p][w]
      BY <2>1 DEF At, Working, DeploymentInv, InOrder
    <3> QED BY <2>1, <2>2, <3>1 DEF Applied
  <2>4. Command[p] = "migrate"
    BY <2>1 DEF At, Working, DeploymentInv, Jobs
  <2>5. Conclude(p, 0) /\ UNCHANGED <<lock, table, schema, listed, next>>
    BY <1>4 DEF RunOutOfMigrations, book, mine
  <2>6. listed' \in [Processes -> [Versions -> Files \cup {None}]]
    BY <2>5 DEF DeploymentInv, Types
  <2> QED BY <2>3, <2>4, <2>5, <2>6, ConcludeKeeps
<1>5. CASE Migrate(p)
  <2>1. /\ pc[p] \in {"migrating", "recording"} /\ Unrecorded(p) /\ Record(p)
        /\ Goto(p, "choosing") /\ Leave(p, "whole") /\ UNCHANGED <<code, lock, listed, next>>
    BY <1>5 DEF Migrate, mine, At
  <2> QED BY <2>1, RecordKeeps
<1>6. CASE FailToMigrate(p) \/ FindItBuilt(p) \/ FailToBuild(p)
  <2>1. Command[p] = "migrate"
    BY <1>6 DEF FailToMigrate, FindItBuilt, FailToBuild, At, Working, DeploymentInv, Jobs
  <2>2. (Conclude(p, 1) \/ Conclude(p, 3)) /\ UNCHANGED <<lock, table, schema, listed, next>>
    BY <1>6 DEF FailToMigrate, FindItBuilt, FailToBuild, book, mine
  <2>3. listed' \in [Processes -> [Versions -> Files \cup {None}]]
    BY <2>2 DEF DeploymentInv, Types
  <2>4. \A n \in {1, 3} : n \in {0, 1, 3} /\ (n = 0 => Applied(p))
    OBVIOUS
  <2>5. PICK n \in {1, 3} : Conclude(p, n)
    BY <2>2
  <2>6. \A q \in Processes : listed'[q] = listed[q]
    BY <2>2
  <2> QED BY <2>1, <2>2, <2>3, <2>4, <2>5, <2>6, ConcludeKeeps
<1>7. CASE StartBuild(p) \/ FinishBuild(p)
  BY <1>7, StartBuildKeeps, FinishBuildKeeps
<1>8. CASE RecordBuild(p)
  BY <1>8, RecordKeeps DEF RecordBuild, mine, At
<1>9. CASE Release(p)
  <2>1. Command[p] = "migrate" /\ (code[p] = 0 => Applied(p))
    BY <1>9 DEF Release, At, DeploymentInv, Jobs, Succeeded
  <2>2. listed' = [listed EXCEPT ![p] = Nothing] /\ UNCHANGED <<code, table, schema, next>>
    BY <1>9 DEF Release, Forget, book
  <2>3. \A q \in Processes \ {p} : listed'[q] = listed[q] /\ (lock = q => lock' = q)
    BY <1>9, <2>2 DEF Release, Free, DeploymentInv, Types
  <2>4. /\ code' \in [Processes -> {0, 1, 2, 3, None}]
        /\ listed' \in [Processes -> [Versions -> Files \cup {None}]]
    BY <2>2 DEF Nothing, DeploymentInv, Types
  <2> QED BY <1>9, <2>1, <2>2, <2>3, <2>4, StopKeeps DEF Release
<1>10. CASE PassTheFirstRead(p) \/ ReadChecksums(p) \/ Listen(p)
  BY <1>10, PassTheFirstReadKeeps, ReadChecksumsKeeps, ListenKeeps
<1>11. CASE RefuseUnmigrated(p)
  BY <1>11, ExitKeeps DEF RefuseUnmigrated, book
<1>12. CASE Sweep(p)
  BY <1>12, ExitKeeps DEF Sweep, book, At, DeploymentInv, Jobs
<1>13. CASE GiveUp(p)
  BY <1>13, ExitKeeps DEF GiveUp, book
<1> QED BY <1>1, <1>2, <1>3, <1>4, <1>5, <1>6, <1>7, <1>8, <1>9, <1>10, <1>11, <1>12, <1>13 DEF Step

LEMMA DeploymentNext == DeploymentInv /\ [Next]_vars => DeploymentInv'
<1> SUFFICES ASSUME DeploymentInv, [Next]_vars PROVE DeploymentInv'
  OBVIOUS
<1>1. ASSUME NEW p \in Processes, FailToStart(p) PROVE DeploymentInv'
  BY <1>1, ExitKeeps DEF FailToStart, book
<1>2. ASSUME NEW p \in Processes, LoseSession(p) PROVE DeploymentInv'
  BY <1>2, ExitKeeps DEF LoseSession, book
<1>3. ASSUME NEW p \in Processes, Kill(p) PROVE DeploymentInv'
  <2>1. Command[p] = "migrate" /\ UNCHANGED <<code, lock, table, schema, next>>
    BY <1>3 DEF Kill, book, DeploymentInv, Jobs
  <2>2. listed' = [listed EXCEPT ![p] = Nothing] /\ Goto(p, "killed")
    BY <1>3 DEF Kill, Forget
  <2>3. listed' \in [Processes -> [Versions -> Files \cup {None}]]
    BY <2>2 DEF Nothing, DeploymentInv, Types
  <2> QED BY <2>1, <2>2, <2>3, StopKeeps DEF DeploymentInv, Types
<1>4. ASSUME NEW p \in Processes, StopServing(p) PROVE DeploymentInv'
  BY <1>4, ExitKeeps DEF StopServing, book
<1>5. CASE CreateRolesElsewhere \/ Terminated \/ UNCHANGED vars
  BY <1>5, StutterKeeps DEF CreateRolesElsewhere, Terminated, vars, mine
<1> QED BY <1>1, <1>2, <1>3, <1>4, <1>5, StepKeeps, EndBackendKeeps DEF Next

(* Types, exclusion, an ordered walk over the versions, and agreement of   *)
(* the version table with the schema, whoever is killed.                   *)
THEOREM DeploymentInvariance == Spec => []DeploymentInv
  BY DeploymentInit, DeploymentNext, PTL DEF Spec

(* However many jobs start, race, are killed or lose their sessions, each  *)
(* migration is applied by one migrator and recorded with what it applied. *)
THEOREM AppliedOnce == Spec => []MigrationsRunOnce
<1>1. DeploymentInv => MigrationsRunOnce
  BY DEF DeploymentInv, Exclusive, ReadTrue, Agree, MigrationsRunOnce, Migrators
<1> QED BY <1>1, DeploymentInvariance, PTL

(* What a migrator that exited with 0, or a server that listens, relies on *)
(* is there for good.                                                      *)
THEOREM LastingSuccess == Spec => []SuccessLasts
<1>1. DeploymentInv => SuccessLasts
  BY DEF DeploymentInv, Types, Agree, Succeeded, Applied, Carried, SuccessLasts, At
<1> QED BY <1>1, DeploymentInvariance, PTL
=============================================================================
