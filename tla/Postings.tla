------------------------------ MODULE Postings ------------------------------
(***************************************************************************)
(* The posting math of crates/ledger/src/postings.rs: what the writer      *)
(* computes before its SQL runs.  A posting moves an amount from a source  *)
(* account to a destination account; it expands into two legs.  Legs       *)
(* coalesce into one delta per account, and each leg is numbered by its    *)
(* distance back from the account's counter.                               *)
(*                                                                         *)
(* An account here is an (account_id, currency) pair: every map of the     *)
(* code is keyed by that pair, and nothing else reads the currency.        *)
(*                                                                         *)
(* The operators are declarative; PostingsLoop.tla states the loops the    *)
(* code runs and checks that they compute these.                           *)
(***************************************************************************)
EXTENDS Integers, Sequences, FiniteSets, FiniteSetsExt

PostingLists == Seq([source : Nat, destination : Nat, amount : Nat])
Leg == [account : Nat, direction : {"debit", "credit"}, amount : Nat]

Opposite(direction) == IF direction = "debit" THEN "credit" ELSE "debit"

(* An amount leaves the source (a credit leg) and arrives at the           *)
(* destination (a debit leg), in posting order.                            *)
ExpandPostings(postings) ==
  [i \in 1..(2 * Len(postings)) |->
     LET p == postings[(i + 1) \div 2] IN
     IF i % 2 = 1
       THEN [account |-> p.source,      direction |-> "credit", amount |-> p.amount]
       ELSE [account |-> p.destination, direction |-> "debit",  amount |-> p.amount]]

AccountsOf(legs) == {legs[i].account : i \in DOMAIN legs}

LegsOn(legs, a) == {i \in DOMAIN legs : legs[i].account = a}

(* The sum of one side of one account: debits are input, credits output.   *)
SideOf(legs, a, direction) ==
  SumFunctionOnSet([i \in DOMAIN legs |-> legs[i].amount],
                   {i \in LegsOn(legs, a) : legs[i].direction = direction})

Coalesce(legs) ==
  [a \in AccountsOf(legs) |->
     [input  |-> SideOf(legs, a, "debit"),
      output |-> SideOf(legs, a, "credit"),
      legs   |-> Cardinality(LegsOn(legs, a))]]

(* checked_add: a side that leaves 64 bits refuses the whole plan.         *)
Overflows(legs, max) ==
  \E a \in AccountsOf(legs) :
    SideOf(legs, a, "debit") > max \/ SideOf(legs, a, "credit") > max

(* The number of LATER legs on the same account.                           *)
OffsetBack(legs, i) == Cardinality({j \in LegsOn(legs, legs[i].account) : j > i})

(* THE CACHE MEANS POSTED: a pending transaction's deltas keep their leg   *)
(* count, since its entries still need sequence numbers, and move nothing. *)
Withheld(deltas) ==
  [a \in DOMAIN deltas |-> [deltas[a] EXCEPT !.input = 0, !.output = 0]]

PlannedDeltas(legs, status) ==
  IF status = "pending" THEN Withheld(Coalesce(legs)) ELSE Coalesce(legs)
=============================================================================
