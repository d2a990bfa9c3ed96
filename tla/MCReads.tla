-------------------------------- MODULE MCReads --------------------------------
(* Small instances of the read path for TLC. *)
EXTENDS ReadsApi, TLC

CONSTANTS w1, w2, w3, c1, t1, t2

Account(id, book, type) ==
  [id |-> id, by |-> None, book |-> book, type |-> type, currency |-> "USD"]
ThreeAccounts == {Account(1, t1, "sales"), Account(2, t2, "sales"), Account(3, t1, "fees")}

Leg(account, date, posted) == [account |-> account, date |-> date, posted |-> posted]

Nothing == [book |-> t1, opens |-> None, legs |-> <<>>, closes |-> FALSE, chart |-> None]
Posts(book, legs) == [Nothing EXCEPT !.book = book, !.legs = legs]
Closes == [Posts(t1, <<Leg(1, 6, TRUE)>>) EXCEPT !.closes = TRUE]
Opens  == [Nothing EXCEPT !.opens = [type |-> "sales", currency |-> "EUR"]]

Line(line, face) == [line |-> line, face |-> face]
On(type, line)   == [type |-> type, line |-> line, face |-> "income_statement"]
Charts(fresh, rows, presents) ==
  [Nothing EXCEPT !.chart = [fresh |-> fresh, lines |-> rows, presents |-> presents]]
Seeds == Charts(TRUE, {Line("revenue", "income_statement"), Line("cash", "balance_sheet")},
                {On("sales", "revenue")})
Adds  == Charts(FALSE, {Line("other", "income_statement")}, {On("fees", "other")})

(* The first writer's batch reaches the account twice on one date, posted  *)
(* and held.  The second backdates, or closes the period.  The third opens *)
(* an account in another currency, posts to one the first chart does not   *)
(* present, writes for another tenant, or presents it on a new line of the *)
(* chart.  The first and the third may seed a chart instead.               *)
ThreeWriters ==
  w1 :> {Posts(t1, <<Leg(1, 5, TRUE), Leg(1, 5, FALSE)>>), Seeds} @@
  w2 :> {Posts(t1, <<Leg(1, 4, TRUE)>>), Closes} @@
  w3 :> {Opens, Posts(t1, <<Leg(3, 5, TRUE)>>), Posts(t2, <<Leg(2, 5, TRUE)>>), Seeds, Adds}

Asks(read, axis, limit, from, to, cursor, version, resend) ==
  [read |-> read, tenant |-> t1, account |-> 1, transaction |-> w1, axis |-> axis,
   limit |-> limit, from |-> from, to |-> to, cursor |-> cursor, after |-> None,
   version |-> version, resend |-> resend]

Walk(axis, limit, resend) == Asks("statement", axis, limit, None, None, None, None, resend)
(* A report's range; a balance sheet has no beginning. *)
From(read) == CASE read = "balance_sheet" -> None [] read = "income_statement" -> 4 [] OTHER -> 5

Plain(read, version) == Asks(read, None, None, From(read), 7, None, version, TRUE)

(* Every read, at the default and at a page of one or two; the statement   *)
(* on both axes; each refusal on the request's face and each kind of       *)
(* cursor.                                                                 *)
OneReader ==
  c1 :> {Walk("recorded", 1, FALSE), Walk("recorded", 2, TRUE), Walk("effective", 1, TRUE),
         Walk("effective", 1, FALSE),
         Asks("statement", "effective", None, 5, 6, None, None, TRUE),
         Walk(None, 1, TRUE), Walk("recorded", 0, TRUE), Walk("recorded", 4, TRUE),
         Asks("statement", "recorded", None, 5, None, None, None, TRUE),
         [Walk("recorded", 1, TRUE) EXCEPT !.after = <<5, 3, FirstId>>],
         [Walk("recorded", 1, TRUE) EXCEPT !.account = FirstId],
         Asks("accounts", None, 1, None, None, None, None, TRUE),
         Asks("accounts", None, 0, None, None, None, None, TRUE),
         Plain("trial_balance", None), Plain("balance_sheet", None),
         Plain("income_statement", 1), Plain("balance", None),
         Plain("transaction", None), Plain("cursor", None)}
        \cup {Asks("trial_balance", None, None, 5, 7, cursor, None, TRUE) :
                cursor \in {Garbled, -1, 4}}
=============================================================================
