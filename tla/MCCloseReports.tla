--------------------------- MODULE MCCloseReports ---------------------------
(* Small instances of the period close and its readers for TLC. *)
EXTENDS CloseApi, TLC

CONSTANTS aug, sep, oct, usd, eur, p1, p2, c1, c2

(* Fees are temporary, cash and retained earnings are not.                 *)
fees == 1
cash == 2
retained == 3

Chart == {fees, cash, retained}
OneCurrency == [a \in Chart |-> usd]
EarningsHomes == usd :> retained @@ eur :> None

Ends == aug :> 2 @@ sep :> 4
Boundaries == {2, 4}

Charge(d, c, n, t, k) == [debit |-> d, credit |-> c, amount |-> n, effective |-> t, key |-> k]
Closing(p) == [period |-> p, currency |-> usd]
Both == {Closing(aug), Closing(sep)}

(* August, a period nobody defined, and a currency without earnings.       *)
OneGoodAsk == {Closing(aug), Closing(oct), [period |-> aug, currency |-> eur]}

OneStripe == [a \in Chart |-> 1]
Alike == [s \in Sessions |-> 0]

(* A fee in August and a larger one in September.                          *)
Fees == {Charge(cash, fees, 1, 0, None), Charge(cash, fees, 2, 2, None)}

(* A fee under the key a close derives, and an adjustment of the earnings, *)
(* which locks the rows a close locks.                                     *)
FeeAndAdjustment == {Charge(cash, fees, 1, 0, Closing(aug)),
                     Charge(retained, fees, 2, 0, None)}

Interchangeable == Permutations(Posts) \cup Permutations(Closes)
=============================================================================
