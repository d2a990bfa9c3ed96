--------------------------- MODULE MCBatchedWrite ---------------------------
(* Small instances of the batched write path for TLC. *)
EXTENDS BatchedWrite, TLC

CONSTANTS k1, k2, d1, d2

Move(s, d, n) == [source |-> s, destination |-> d, amount |-> n]
Ask(k, postings) == [key |-> k, postings |-> postings]

(* Account 1 has one stripe, account 2 two; each dispatcher has its own.   *)
Stripes == [a \in OpenAccounts |-> a]
Affinities == d1 :> 0 @@ d2 :> 1

(* One key for two bodies, two keys over one account pair in both orders,  *)
(* of which the larger bodies fit the width one by one and not together,   *)
(* an account that is not open under a key that is also used well, and a   *)
(* posting no plan fits.                                                   *)
MixedMenu ==
  {Ask(k1, <<Move(1, 2, 1)>>), Ask(k1, <<Move(1, 2, 2)>>),
   Ask(k1, <<Move(1, 3, 1)>>),
   Ask(k2, <<Move(2, 1, 1), Move(1, 2, 2)>>),
   Ask(k2, <<Move(2, 1, 9)>>)}

(* Two keys, each asked for twice.                                         *)
RetryMenu == {Ask(k1, <<Move(1, 2, 1)>>), Ask(k2, <<Move(1, 2, 1)>>)}

(* The second half of the calls retries the first.                         *)
RetriesInit ==
  /\ Init
  /\ req = [c \in Calls |-> Ask(IF c % 2 = 1 THEN k1 ELSE k2, <<Move(1, 2, 1)>>)]

RetriesSpec ==
  /\ RetriesInit
  /\ [][Next]_vars
  /\ WF_vars(\E d \in Dispatchers : Step(d))

(* Every list of one or two postings between three accounts, and of three  *)
(* between two.                                                            *)
Between(accounts) ==
  {Move(s, d, n) : s \in accounts, d \in accounts, n \in 1..2}
    \ {Move(a, a, n) : a \in accounts, n \in 1..2}
ShortLists ==
  (UNION {[1..n -> Between(1..3)] : n \in 1..2}) \cup [1..3 -> Between(1..2)]
=============================================================================
