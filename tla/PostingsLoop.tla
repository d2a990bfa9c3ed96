----------------------------- MODULE PostingsLoop -----------------------------
(***************************************************************************)
(* plan_append as the code runs it: one pass over the legs accumulates     *)
(* the deltas with checked additions, one pass from the last leg to the    *)
(* first numbers them.  The property says that the passes compute the      *)
(* operators of Postings, which the writers' modules use.                  *)
(***************************************************************************)
EXTENDS Postings, SequencesExt

NoDelta == [input |-> 0, output |-> 0, legs |-> 0]

(* or_default: the entry of a key, or its default.                         *)
Entry(map, key, default) == IF key \in DOMAIN map THEN map[key] ELSE default
With(map, key, value) ==
  [k \in DOMAIN map \cup {key} |-> IF k = key THEN value ELSE map[k]]

Accumulated(delta, leg) ==
  IF leg.direction = "debit"
    THEN [delta EXCEPT !.input  = @ + leg.amount, !.legs = @ + 1]
    ELSE [delta EXCEPT !.output = @ + leg.amount, !.legs = @ + 1]

(* Variant: a side refused when it reaches the largest amount.             *)
FitsStrictly(delta, max) == delta.input < max /\ delta.output < max

Fits(delta, max) == delta.input <= max /\ delta.output <= max

(* coalesce, at one leg: the first addition that leaves the width ends the *)
(* pass.                                                                   *)
CoalesceLeg(pass, leg, max) ==
  LET delta == Accumulated(Entry(pass.deltas, leg.account, NoDelta), leg) IN
  IF pass.overflow \/ ~Fits(delta, max)
    THEN [pass EXCEPT !.overflow = TRUE]
    ELSE [pass EXCEPT !.deltas = With(@, leg.account, delta)]

CoalescePass(legs, max) ==
  FoldLeft(LAMBDA pass, leg : CoalesceLeg(pass, leg, max),
           [overflow |-> FALSE, deltas |-> <<>>], legs)

(* offsets_back_from_last_seq, at one leg: the number of legs seen so far  *)
(* on its account.                                                         *)
NumberLeg(leg, pass) ==
  LET seen == Entry(pass.later, leg.account, 0) IN
  [later   |-> With(pass.later, leg.account, seen + 1),
   offsets |-> <<seen>> \o pass.offsets]

(* From the last leg to the first.                                         *)
NumberingPass(legs) ==
  FoldRight(NumberLeg, legs, [later |-> <<>>, offsets |-> <<>>])

(* plan_append: the pending rule comes last, so a set that could not post  *)
(* is refused now.                                                         *)
PlanAppend(postings, status, max) ==
  LET legs == ExpandPostings(postings)
      pass == CoalescePass(legs, max) IN
  [overflow |-> pass.overflow,
   deltas   |-> IF status = "pending" THEN Withheld(pass.deltas) ELSE pass.deltas,
   offsets  |-> NumberingPass(legs).offsets]

-----------------------------------------------------------------------------
(* A plan is refused exactly when the sum of one side of one account       *)
(* leaves the width, wherever in the list that happens and whatever the    *)
(* status; the deltas of a plan are the sums of its legs, withheld for a   *)
(* pending transaction; and the offsets of one account's legs are          *)
(* 0 .. n-1, falling in posting order, so `last_seq - offset' numbers them *)
(* without gap or repeat.                                                  *)
PlanIsExact(postings, status, max) ==
  LET legs == ExpandPostings(postings)
      plan == PlanAppend(postings, status, max) IN
  /\ plan.overflow <=> Overflows(legs, max)
  /\ ~plan.overflow => plan.deltas = PlannedDeltas(legs, status)
  /\ \A n \in DOMAIN legs : plan.offsets[n] = OffsetBack(legs, n)
  /\ \A a \in AccountsOf(legs) :
       /\ {plan.offsets[n] : n \in LegsOn(legs, a)} =
            0..(Cardinality(LegsOn(legs, a)) - 1)
       /\ \A m, n \in LegsOn(legs, a) : m < n => plan.offsets[m] > plan.offsets[n]
=============================================================================
