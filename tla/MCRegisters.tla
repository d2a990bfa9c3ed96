---------------------------- MODULE MCRegisters ----------------------------
(* Small instances of the registers for TLC. *)
EXTENDS RegistersApi, TLC

CONSTANTS c1, c2, c3, t1, t2, k1, k2, blank, fees, owed, alice, usd, utc, mars, jan, feb

At0(instant) == [at |-> instant, offset |-> 0]

Open(t, k, purpose, type, owner, stripes) ==
  [op |-> "open", tenant |-> t, key |-> k, purpose |-> purpose, owner_type |-> type,
   owner_id |-> owner, currency |-> usd, stripe_count |-> stripes, metadata |-> None]
Define(t, k, code, starts, ends, tz) ==
  [op |-> "define", tenant |-> t, key |-> k, code |-> code, starts_at |-> starts,
   ends_at |-> ends, tz |-> tz]

(* fees may be held by the house; owed is split by counterparty, in the    *)
(* second chart fees is as well, and owed is gone.                         *)
FirstChart  == (fees :> "none" @@ owed :> "per_shard")
SecondChart == (fees :> "per_shard" @@ owed :> None)
BothCharts  == {FirstChart, SecondChart}

HouseFees(t, k)   == Open(t, k, fees, "house", None, None)
AliceOwed(k)      == Open(t1, k, owed, "company", alice, 1024)
January(k, clock) == Define(t1, k, jan, [at |-> 1, offset |-> clock], [at |-> 3, offset |-> clock], utc)
February(t, from) == Define(t, k2, feb, At0(from), At0(4), utc)

(* The first client opens an account or defines a period.  The second     *)
(* retries it, under the same clock or another, with the default spelled  *)
(* out, with the other operation under its key, or defines a period that  *)
(* overlaps it.  The third asks for what the first may already have made, *)
(* for its neighbour or its namesake in the other tenant, and for what    *)
(* the domain, the chart, the owner rules or the time zone data refuse.   *)
ThreeClients ==
  c1 :> {HouseFees(t1, k1), January(k1, 0)} @@
  c2 :> {HouseFees(t1, k1), Open(t1, k1, fees, "house", None, 1),
         January(k1, 2), February(t1, 2)} @@
  c3 :> {HouseFees(t1, k2), HouseFees(t2, k1), AliceOwed(k1),
         Open(t1, k2, owed, "house", None, None),
         Open(t1, k2, fees, "company", None, None),
         Open(t1, k1, fees, "house", None, 1025),
         February(t1, 3), February(t2, 2), February(t1, 4), January(k2, 0),
         Define(t1, k2, jan, At0(1), At0(3), mars)}
=============================================================================
