------------------------------ MODULE MCLedger ------------------------------
(***************************************************************************)
(* Instances of the ledger for TLC.  Account 1 is the cash_in account, 2   *)
(* and 4 are the customers, 3 is an fx position, so that the lock order    *)
(* runs through both kinds of accounts.                                    *)
(***************************************************************************)
EXTENDS Ledger

MCCustomers == {2, 4}
MCInternals == {1, 3}
MCCur == [a \in 1..4 |-> "KZT"]

Post(ref, hold, legs) == [op |-> "post", ref |-> ref, hold |-> hold, legs |-> legs]
Place(ref, acct, amount) ==
  [op |-> "place", ref |-> ref, acct |-> acct, amount |-> amount, cur |-> "KZT"]
Release(ref) == [op |-> "release", hold |-> ref]
Posting(acct, amount) == [acct |-> acct, amount |-> amount, cur |-> "KZT"]
Move(from, to, amount) == <<Posting(from, -amount), Posting(to, amount)>>

\* One saga (hold, capture, release) next to a second reservation of the same
\* money and a capture of more than the hold, after a top-up from cash_in.
SagaRefs == {"f", "t", "u"}
SagaRequests ==
  {Post("f", NoRef, Move(1, 2, 2)),
   Place("t", 2, 1), Post("t", "t", Move(2, 4, 1)), Post("t", "t", Move(2, 4, 2)),
   Release("t"), Place("u", 2, 1), Place("u", 2, 2)}

\* The books: two-currency entries of four legs through the fx positions, split legs,
\* entries that ValidateEntry refuses, and the edges of a narrow int64 (-4 .. 3):
\* reservations and balances of internal accounts at the limit, zero holds,
\* overflowing sums.
BooksCustomers == {2, 5}
BooksInternals == {1, 3, 4}
BooksCur == [a \in 1..5 |-> IF a \in {4, 5} THEN "USD" ELSE "KZT"]
Usd(acct, amount) == [acct |-> acct, amount |-> amount, cur |-> "USD"]
BooksRefs == {"f", "g", "x", "y"}
BooksRequests ==
  {Post("f", NoRef, <<Posting(1, -3), Posting(2, 2), Posting(2, 1)>>),
   Post("g", NoRef, Move(3, 2, 3)),
   Place("f", 1, 3), Place("g", 1, 2), Place("x", 2, 0), Place("x", 2, 3),
   Post("x", "x", <<Posting(2, -3), Posting(3, 3), Usd(4, -1), Usd(5, 1)>>),
   Post("y", NoRef, <<Usd(5, -1), Usd(4, 1), Posting(3, -1), Posting(2, 1)>>),
   Post("y", NoRef, <<Posting(2, -1), Usd(5, 1)>>),
   Post("y", NoRef, <<Posting(2, -1), Posting(4, 1)>>),
   Post("g", NoRef, <<Posting(1, 3), Posting(3, 1), Posting(1, -4)>>),
   Release("x")}

\* One saga served twice (every call may be in flight in two workers), whose
\* entry names the credited account first, next to another post to that account.
LiveRefs == {"f", "g", "t"}
LiveRequests ==
  {Post("f", NoRef, Move(1, 2, 1)), Post("g", NoRef, Move(1, 4, 1)),
   Place("t", 2, 1), Post("t", "t", <<Posting(4, 1), Posting(2, -1)>>), Release("t")}
=============================================================================
