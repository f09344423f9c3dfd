-------------------------- MODULE MCTransferRules --------------------------
(***************************************************************************)
(* The rules of transfers for TLC: ann has a tenge and a dollar account,   *)
(* bob a tenge account, whose number may be mistyped.  A rate of 5/2 (buy) *)
(* and 7/2 (sell) makes a tie and a remainder; on the second day it is so  *)
(* high that amounts overflow or vanish.                                   *)
(***************************************************************************)
EXTENDS TransferRules, TLC

Acct(owner, cur, bban) == [owner |-> owner, cur |-> cur, bban |-> bban]
MCInfo == 5 :> Acct("ann", "KZT", <<1, 1>>) @@ 6 :> Acct("ann", "USD", <<1, 7>>)
          @@ 7 :> Acct("bob", "KZT", <<3, 4>>)

\* The internal accounts the ledger's migration creates.
Row(id, cur) == [id |-> id, cur |-> cur]
MCChart == [cash_in_kzt |-> Row(1, "KZT"), cash_in_usd |-> Row(2, "USD"),
            fx_position_kzt |-> Row(3, "KZT"), fx_position_usd |-> Row(4, "USD")]

MCRates == {[buy |-> 5, sell |-> 7, from |-> 0], [buy |-> 40, sell |-> 44, from |-> 1]}
MCPerTx == [KZT |-> 6, USD |-> 3]
MCDaily == [KZT |-> 9, USD |-> 3]

Topup(to, amount, cur) ==
  [type |-> "TOPUP", customer |-> "ann", from |-> 0, to |-> to, number |-> <<>>,
   amount |-> amount, cur |-> cur]
Own(from, to, amount, cur) ==
  [type |-> "INTERNAL", customer |-> "ann", from |-> from, to |-> to, number |-> <<>>,
   amount |-> amount, cur |-> cur]
P2P(from, number, amount) ==
  [type |-> "P2P", customer |-> "ann", from |-> from, to |-> 0, number |-> number,
   amount |-> amount, cur |-> "KZT"]

\* The last digit of bob's number, mistyped.
Mistyped == [Number(7) EXCEPT ![4] = 5]

MCSpecs ==
  {Topup(5, 1, "KZT"), Own(5, 6, 5, "KZT"), Own(6, 5, 1, "USD"),
   P2P(5, Number(7), 5), P2P(5, Mistyped, 4)}

RulesSymmetry == Permutations(Drivers) \cup Permutations(Ids)
=============================================================================
