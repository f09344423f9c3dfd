---------------------------- MODULE LedgerDomain ----------------------------
(***************************************************************************)
(* The pure double-entry rules of the ledger service                       *)
(* (services/ledger/internal/domain/domain.go), together with the shapes   *)
(* of its rows and requests.                                               *)
(*                                                                         *)
(* Amounts are the int64 minor units of the code, cut down to the          *)
(* two's-complement range -Half .. Half-1 (Half is 2^63 in the code).      *)
(* Accounts are numbers so that "<" is the order of their UUID strings,    *)
(* the canonical lock order of ADR-0007.                                   *)
(***************************************************************************)
EXTENDS Integers, Sequences, FiniteSets, FiniteSetsExt, SequencesExt

CONSTANTS
  Customers,  \* accounts of type 'customer', opened by CreateAccount
  Internals,  \* accounts of type 'internal', seeded by the migration
  Cur,        \* the currency of every account
  Refs,       \* (reference_type, reference_id) pairs; a hold is known by its own
  NoRef,      \* the empty hold id of a PostTransaction without a hold
  Requests,   \* the requests that callers may issue
  Half        \* amounts are Half-bit-range integers, see above

Accounts == Customers \cup Internals
Currencies == {"KZT", "USD"}
Int64 == (-Half) .. (Half - 1)

Leg == [acct : Accounts, amount : Int64, cur : Currencies]
PlaceHoldRequest ==
  [op : {"place"}, ref : Refs, acct : Accounts, amount : Int64, cur : Currencies]
ReleaseHoldRequest == [op : {"release"}, hold : Refs]
PostRequest ==
  [op : {"post"}, ref : Refs, hold : Refs \cup {NoRef}, legs : Seq(Leg)]

ASSUME AccountsAssumption ==
  /\ Customers \subseteq Nat
  /\ Internals \subseteq Nat
  /\ Customers \cap Internals = {}
  /\ IsFiniteSet(Customers)
  /\ IsFiniteSet(Internals)
ASSUME CurAssumption == Cur \in [Accounts -> Currencies]
ASSUME HalfAssumption == Half \in Nat \ {0}
ASSUME RefsAssumption == NoRef \notin Refs /\ IsFiniteSet(Refs)
ASSUME RequestsAssumption ==
  Requests \subseteq PlaceHoldRequest \cup ReleaseHoldRequest \cup PostRequest

-----------------------------------------------------------------------------
(* Rows *)

Row == [balance : Int64, held : Int64, version : Nat]
ZeroRow == [balance |-> 0, held |-> 0, version |-> 0]

HoldStatus == {"active", "captured", "released"}
Hold == [acct : Accounts, amount : 1 .. (Half - 1), status : HoldStatus]
NoHold == [status |-> "none"]

NoEntry == <<>>   \* a committed entry has at least two postings

-----------------------------------------------------------------------------
(* 64-bit arithmetic *)

\* The two's-complement result of one addition or subtraction of two Int64s.
Wrap(x) == IF x >= Half THEN x - 2 * Half
           ELSE IF x < -Half THEN x + 2 * Half
           ELSE x

\* addChecked and addInt64: the code compares the wrapped sum with an operand.
AddOverflows(x, y) ==
  LET sum == Wrap(x + y) IN (y > 0 /\ sum < x) \/ (y < 0 /\ sum > x)

-----------------------------------------------------------------------------
(* Journal entries *)

Amounts(legs) == [i \in DOMAIN legs |-> legs[i].amount]

\* The sum of the first n postings of account a, and of currency c.
AccountSum(legs, n, a) ==
  SumFunctionOnSet(Amounts(legs), {i \in 1..n : legs[i].acct = a})
CurrencySum(legs, n, c) ==
  SumFunctionOnSet(Amounts(legs), {i \in 1..n : legs[i].cur = c})

Affected(legs) == {legs[i].acct : i \in DOMAIN legs}
Delta(legs, a) == AccountSum(legs, Len(legs), a)

\* Variant: the currencies are added up together.
ZeroTotal(legs) == SumFunctionOnSet(Amounts(legs), DOMAIN legs) = 0

\* The entry adds up to zero in every currency: ValidateEntry's last loop, and
\* the deferred trigger check_entry_zero_sum.
ZeroSum(legs) == \A c \in Currencies : CurrencySum(legs, Len(legs), c) = 0

\* A posting ValidateEntry's loop refuses; its partial sums must not overflow.
BadLeg(legs, n) ==
  \/ legs[n].amount = 0
  \/ legs[n].cur # Cur[legs[n].acct]
  \/ CurrencySum(legs, n, legs[n].cur) \notin Int64

\* ValidateEntry followed by the net delta per account: "OK", or the code the
\* first violated rule is answered with.
ValidateEntry(legs) ==
  LET bad == {n \in DOMAIN legs : BadLeg(legs, n)}
      first == legs[Min(bad)]
  IN  IF Len(legs) < 2 THEN "UNBALANCED_ENTRY"
      ELSE IF bad # {}
           THEN IF first.amount # 0 /\ first.cur # Cur[first.acct]
                THEN "CURRENCY_MISMATCH" ELSE "UNBALANCED_ENTRY"
      ELSE IF /\ ZeroSum(legs)
              /\ \A n \in DOMAIN legs, a \in Affected(legs) :
                   AccountSum(legs, n, a) \in Int64
           THEN "OK" ELSE "UNBALANCED_ENTRY"

\* samePayload: equal as multisets of postings.
SamePayload(legs, other) == ToBag(legs) = ToBag(other)

-----------------------------------------------------------------------------
(* Balances and holds *)

Available(b) == Wrap(b.balance - b.held)

\* Variant: the version is not bumped.
AppliedRowUnversioned(b, adj, d) ==
  [balance |-> b.balance + d, held |-> b.held + adj, version |-> b.version]

\* ApplyPosting, after the held adjustment of a captured hold (adj <= 0).
AppliedRow(b, adj, d) ==
  [balance |-> b.balance + d, held |-> b.held + adj, version |-> b.version + 1]
\* Variant: the balance is added without addChecked.
ApplyPostingUnchecked(b, a, adj, d) ==
  IF b.held + adj < 0 THEN "INTERNAL"
  ELSE IF a \in Customers /\ Available(AppliedRow(b, adj, d)) < 0
       THEN "INSUFFICIENT_FUNDS"
  ELSE "OK"

ApplyPosting(b, a, adj, d) ==
  IF b.held + adj < 0 THEN "INTERNAL"
  ELSE IF b.balance + d \notin Int64 THEN "UNBALANCED_ENTRY"
  ELSE IF a \in Customers /\ Available(AppliedRow(b, adj, d)) < 0
       THEN "INSUFFICIENT_FUNDS"
  ELSE "OK"

CanPlaceHold(b, a, amount) ==
  IF amount <= 0 THEN "INVALID_ARGUMENT"
  ELSE IF a \in Customers /\ Available(b) < amount THEN "INSUFFICIENT_FUNDS"
  ELSE "OK"

\* PlaceHold's update of the row, which the CHECK (held >= 0) may refuse.
HeldRow(b, amount) ==
  [balance |-> b.balance, held |-> Wrap(b.held + amount), version |-> b.version]
ReleasedRow(b, amount) ==
  [balance |-> b.balance, held |-> b.held - amount, version |-> b.version]

\* Variant: the debit is not looked at.
CaptureAnyAmount(h, legs) ==
  IF h.status # "active" THEN "INVALID_ARGUMENT" ELSE "OK"

\* CaptureHold(h, debit), where debit is the non-positive part of the net delta
\* of the hold's account; the negation wraps as Go's does.
CaptureHold(h, legs) ==
  LET delta == Delta(legs, h.acct)
      debit == IF delta < 0 THEN Wrap(-delta) ELSE 0
  IN  IF h.status # "active" THEN "INVALID_ARGUMENT"
      ELSE IF debit > h.amount THEN "INVALID_ARGUMENT"
      ELSE "OK"
=============================================================================
