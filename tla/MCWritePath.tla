---------------------------- MODULE MCWritePath ----------------------------
(* Small instances of the write path for TLC. *)
EXTENDS TransactionsApi, TLC

CONSTANTS c1, c2, c3, k1, k2, k3, k4

Move(s, d, n) == [source |-> s, destination |-> d, amount |-> n]
Ask(k, verb, status, postings) ==
  [key |-> k, verb |-> verb, status |-> status, postings |-> postings]

(* Account 1 has one stripe, account 2 two. *)
Stripes == [a \in OpenAccounts |-> a]

(* The first call posts an original, pending or posted.  The second        *)
(* supersedes whatever is committed when it begins, retries the original,  *)
(* or asks under its key for a post to account 3, which is not open.  The  *)
(* third supersedes under a key of its own, or posts what the first may    *)
(* have posted, or the second reversed, under one key, with its rows taken *)
(* the other way round.                                                    *)
ThreeCalls ==
  c1 :> {Ask(k1, "post",    "pending", <<Move(1, 2, 1)>>),
         Ask(k2, "post",    "posted",  <<Move(1, 2, 2), Move(2, 1, 1)>>)} @@
  c2 :> {Ask(k3, "resolve", "posted",  <<Move(2, 1, 1)>>),
         Ask(k2, "reverse", "posted",  <<>>),
         Ask(k1, "post",    "pending", <<Move(1, 2, 1)>>),
         Ask(k1, "post",    "posted",  <<Move(1, 3, 1)>>)} @@
  c3 :> {Ask(k4, "reverse", "posted",  <<>>),
         Ask(k2, "post",    "posted",  <<Move(2, 1, 1), Move(1, 2, 1)>>)}

(* The second call runs on either of two dispatchers. *)
ThreeAffinities == c1 :> {0} @@ c2 :> {0, 1} @@ c3 :> {0}
=============================================================================
