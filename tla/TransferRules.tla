--------------------------- MODULE TransferRules ---------------------------
(***************************************************************************)
(* What the saga decides before money moves: the validation of a transfer  *)
(* (service.go, validate), the limits, the locked rate, the postings it    *)
(* will ask the ledger for.                                                *)
(*                                                                         *)
(* A driver reads the accounts and the rate, then the daily sum, then      *)
(* writes the outcome under the guard of the state; other drivers, the     *)
(* account service and midnight come in between.  A driver that dies is    *)
(* one that takes no further step.  Time is the day.  What happens to an   *)
(* accepted transfer is TransferSaga's matter.                             *)
(***************************************************************************)
EXTENDS Money, FiniteSets, FiniteSetsExt, Functions

CONSTANTS
  Ids,          \* transfer ids
  Drivers,      \* goroutines that drive transfers
  Info,         \* the account registry: owner, currency and digits of each account
  Chart,        \* the ledger's internal accounts: id and currency, by code
  Specs,        \* the requests
  Rates,        \* table rates: buy, sell and the day each is valid from
  PerTx, Daily, \* table limits, by currency
  MaxDay,       \* bound on days
  Freezable,    \* accounts whose status may change
  MaxFreezes    \* bound on status changes

Accounts == DOMAIN Info
Currencies == {"KZT", "USD"}

ASSUME RulesAssumption ==
  /\ Accounts \subseteq Nat \ {0}
  /\ \A a \in Accounts : Info[a].cur \in Currencies
  /\ \A a \in Accounts : Info[a].bban \in Seq(0..9) /\ Len(Info[a].bban) = BBANLength
  /\ MaxDay \in Nat /\ MaxFreezes \in Nat
ASSUME AmountsAssumption ==
  /\ \A s \in Specs : s.amount \in (-HalfRange) .. (HalfRange - 1)
  /\ \A cur \in Currencies : PerTx[cur] \in Nat /\ Daily[cur] \in Nat
  /\ \A r \in Rates : r.buy \in Nat \ {0} /\ r.sell \in Nat \ {0} /\ r.from \in Nat
\* What the ledger's migration creates.
ASSUME ChartAssumption ==
  /\ \A c \in {"cash_in_kzt", "fx_position_kzt"} : c \in DOMAIN Chart /\ Chart[c].cur = "KZT"
  /\ \A c \in {"cash_in_usd", "fx_position_usd"} : c \in DOMAIN Chart /\ Chart[c].cur = "USD"
  /\ \A c \in DOMAIN Chart : Chart[c].id \in Nat \ {0} /\ Chart[c].id \notin Accounts
  /\ \A c, e \in DOMAIN Chart : Chart[c].id = Chart[e].id => c = e

VARIABLES
  today,
  frozen,   \* accounts that are not ACTIVE
  freezes,
  rows,     \* table transfers
  work      \* where each driver stands

rvars == <<today, frozen, freezes, rows, work>>

Idle == [at |-> "idle"]
NoFx == [counter |-> 0, cur |-> "", rate |-> 0]

\* The ledger's accounts besides the customers', and the currencies of all of them.
InternalIds == {Chart[c].id : c \in DOMAIN Chart}
LedgerCur ==
  [a \in Accounts \cup InternalIds |->
     IF a \in Accounts THEN Info[a].cur ELSE (CHOOSE x \in Range(Chart) : x.id = a).cur]

\* The entry the ledger is asked for is judged by the ledger's own rules.
Books == INSTANCE LedgerDomain WITH
  Customers <- Accounts, Internals <- InternalIds, Cur <- LedgerCur,
  Refs <- {}, NoRef <- 0, Requests <- {}, Half <- HalfRange

Number(a) == GenerateNumber(Info[a].bban)

RulesInit ==
  /\ today = 0
  /\ frozen = {} /\ freezes = 0
  /\ rows = <<>>
  /\ work = [d \in Drivers |-> Idle]

-----------------------------------------------------------------------------
(* CreateTransfer *)

ValidateSpec(s) ==
  /\ s.amount > 0
  /\ s.cur \in Currencies
  /\ CASE s.type = "TOPUP" -> s.to # 0 /\ s.from = 0
       [] s.type = "INTERNAL" -> s.from # 0 /\ s.to # 0 /\ s.from # s.to
       [] s.type = "P2P" -> s.from # 0 /\ s.number # <<>>
       [] OTHER -> FALSE

InsertTransfer(s) ==
  [spec |-> s, to |-> s.to, state |-> "VALIDATING", reason |-> "", fx |-> NoFx,
   created |-> today, checked |-> 0]

\* The row and, by EvStart, its first step; nothing else happens in CREATED.
CreateTransfer(x, s) ==
  /\ x \notin DOMAIN rows
  /\ ValidateSpec(s)
  /\ rows' = [y \in DOMAIN rows \cup {x} |-> IF y = x THEN InsertTransfer(s) ELSE rows[y]]
  /\ UNCHANGED <<today, frozen, freezes, work>>

-----------------------------------------------------------------------------
(* validate *)

\* GetAccount and ResolveByNumber: 0 stands for NOT_FOUND.
Known(a) == IF a \in Accounts THEN a ELSE 0
ResolveByNumber(number) ==
  LET found == {a \in Accounts : Number(a) = number}
  IN  IF found = {} THEN 0 ELSE CHOOSE a \in found : TRUE

Destination(s) == IF s.type = "P2P" THEN ResolveByNumber(s.number) ELSE Known(s.to)

GetLatestRate ==
  LET valid == {r \in Rates : r.from <= today}
  IN  IF valid = {} THEN [buy |-> 0, sell |-> 0, from |-> -1]
      ELSE CHOOSE r \in valid : \A o \in valid : o.from <= r.from

\* The rate the bank buys or sells dollars at.
FxLock(s, to) ==
  LET rate == GetLatestRate
      sells == Info[s.from].cur = "KZT"
  IN  [counter |-> IF sells THEN ConvertInverse(s.amount, rate.sell)
                   ELSE Convert(s.amount, rate.buy),
       cur |-> Info[to].cur,
       rate |-> IF sells THEN rate.sell ELSE rate.buy]

Crosses(s, to) == s.type # "TOPUP" /\ Info[s.from].cur # Info[to].cur

SourceCurrency(s, to) == IF s.type = "TOPUP" THEN Info[to].cur ELSE Info[s.from].cur

\* validate up to the limits, in the order of its early returns.  INVALID_ARGUMENT, the
\* answer to a malformed number, is no reason to fail: the request ends, the row stays.
Verdict(s, to) ==
  IF s.type # "TOPUP" /\ Known(s.from) = 0 THEN "ACCOUNT_NOT_FOUND"
  ELSE IF s.type # "TOPUP" /\ Info[s.from].owner # s.customer THEN "NOT_ACCOUNT_OWNER"
  ELSE IF s.type = "P2P" /\ ~ValidNumber(s.number) THEN "INVALID_ARGUMENT"
  ELSE IF to = 0 THEN "ACCOUNT_NOT_FOUND"
  ELSE IF s.type # "P2P" /\ Info[to].owner # s.customer THEN "NOT_ACCOUNT_OWNER"
  ELSE IF {s.from, to} \cap frozen # {} THEN "ACCOUNT_FROZEN"
  ELSE IF s.type = "P2P" /\ s.from = to THEN "SAME_ACCOUNT"
  ELSE IF s.cur # SourceCurrency(s, to) THEN "CURRENCY_MISMATCH"
  ELSE IF ~Crosses(s, to) THEN "OK"
  ELSE IF GetLatestRate.from < 0 THEN "RATE_UNAVAILABLE"
  ELSE IF ~Fits(FxLock(s, to).counter) THEN "CONVERSION_FAILED"
  ELSE IF FxLock(s, to).counter <= 0 THEN "AMOUNT_TOO_SMALL"
  ELSE "OK"

\* The accounts and the rate are read, in one step: a freeze between the reads comes before or
\* after all of them.  An outage parks the transfer: no step.
LookUp(d, x) ==
  LET s == rows[x].spec
      to == Destination(s)
      verdict == Verdict(s, to)
  IN  /\ work[d] = Idle
      /\ rows[x].state = "VALIDATING"
      /\ verdict # "INVALID_ARGUMENT"
      /\ work' = [work EXCEPT ![d] =
           [at |-> IF verdict = "OK" /\ s.type # "TOPUP" THEN "limits" ELSE "write",
            x |-> x, verdict |-> verdict, to |-> to, day |-> today,
            fx |-> IF verdict = "OK" /\ Crosses(s, to) THEN FxLock(s, to) ELSE NoFx]]
      /\ UNCHANGED <<today, frozen, freezes, rows>>

Amounts == [x \in DOMAIN rows |-> rows[x].spec.amount]

\* Variant: what is still being validated is not counted.
SumDailyAccepted(customer, cur) ==
  SumFunctionOnSet(Amounts,
    {x \in DOMAIN rows : /\ rows[x].spec.customer = customer /\ rows[x].spec.cur = cur
                         /\ rows[x].spec.type # "TOPUP" /\ rows[x].state = "HELD"
                         /\ rows[x].created >= today})

\* SumDailyOutgoing since the last midnight.
SumDailyOutgoing(customer, cur) ==
  SumFunctionOnSet(Amounts,
    {x \in DOMAIN rows : /\ rows[x].spec.customer = customer /\ rows[x].spec.cur = cur
                         /\ rows[x].spec.type # "TOPUP" /\ rows[x].state # "FAILED"
                         /\ rows[x].created >= today})

GetLimit(cur) == [perTx |-> PerTx[cur], daily |-> Daily[cur]]

CheckLimits(amount, limit, used) == amount <= limit.perTx /\ used <= limit.daily - amount

\* The limits, with the transfer itself taken off the sum.
Limits(d) ==
  LET s == rows[work[d].x].spec
      used == SumDailyOutgoing(s.customer, s.cur) - s.amount
  IN  /\ work[d].at = "limits"
      /\ work' = [work EXCEPT ![d].at = "write", ![d].day = today,
           ![d].verdict = IF CheckLimits(s.amount, GetLimit(s.cur), used)
                          THEN "OK" ELSE "LIMIT_EXCEEDED"]
      /\ UNCHANGED <<today, frozen, freezes, rows>>

\* The outcome on the row.
Decided(row, w) ==
  IF w.verdict # "OK"
  THEN [row EXCEPT !.state = "FAILED", !.reason = w.verdict, !.checked = w.day]
  ELSE [row EXCEPT !.state = "HELD", !.to = w.to, !.fx = w.fx, !.checked = w.day]

\* UpdateTransferGuarded: nothing when another driver was faster.
UpdateTransferGuarded(row, w) == IF row.state = "VALIDATING" THEN Decided(row, w) ELSE row

Write(d) ==
  /\ work[d].at = "write"
  /\ rows' = [rows EXCEPT ![work[d].x] = UpdateTransferGuarded(@, work[d])]
  /\ work' = [work EXCEPT ![d] = Idle]
  /\ UNCHANGED <<today, frozen, freezes>>

-----------------------------------------------------------------------------
(* The rest of the saga, the account service and the calendar *)

\* The saga compensates; HELD stands for every state on the way to COMPLETED as well.
Compensate(x) ==
  /\ rows[x].state = "HELD"
  /\ rows' = [rows EXCEPT ![x].state = "FAILED"]
  /\ UNCHANGED <<today, frozen, freezes, work>>

SetStatus(a) ==
  /\ freezes < MaxFreezes
  /\ freezes' = freezes + 1
  /\ frozen' = (frozen \cup {a}) \ (frozen \cap {a})
  /\ UNCHANGED <<today, rows, work>>

Midnight ==
  /\ today < MaxDay
  /\ today' = today + 1
  /\ UNCHANGED <<frozen, freezes, rows, work>>

-----------------------------------------------------------------------------
(* Postings *)

External(a) == [external |-> a, internal |-> ""]
Internal(code) == [external |-> 0, internal |-> code]

cashInCode(cur) == IF cur = "USD" THEN "cash_in_usd" ELSE "cash_in_kzt"
fxPositionCode(cur) == IF cur = "USD" THEN "fx_position_usd" ELSE "fx_position_kzt"

SourceRef(row) ==
  IF row.spec.type = "TOPUP" THEN Internal(cashInCode(row.spec.cur)) ELSE External(row.spec.from)

Leg(ref, amount, cur) == [ref |-> ref, amount |-> amount, cur |-> cur]

\* Variant: the two positions are swapped.
BuildPostingsSwapped(row) ==
  IF row.fx = NoFx
  THEN <<Leg(SourceRef(row), -row.spec.amount, row.spec.cur),
         Leg(External(row.to), row.spec.amount, row.spec.cur)>>
  ELSE <<Leg(SourceRef(row), -row.spec.amount, row.spec.cur),
         Leg(Internal(fxPositionCode(row.fx.cur)), row.spec.amount, row.spec.cur),
         Leg(Internal(fxPositionCode(row.spec.cur)), -row.fx.counter, row.fx.cur),
         Leg(External(row.to), row.fx.counter, row.fx.cur)>>

BuildPostings(row) ==
  IF row.fx = NoFx
  THEN <<Leg(SourceRef(row), -row.spec.amount, row.spec.cur),
         Leg(External(row.to), row.spec.amount, row.spec.cur)>>
  ELSE <<Leg(SourceRef(row), -row.spec.amount, row.spec.cur),
         Leg(Internal(fxPositionCode(row.spec.cur)), row.spec.amount, row.spec.cur),
         Leg(Internal(fxPositionCode(row.fx.cur)), -row.fx.counter, row.fx.cur),
         Leg(External(row.to), row.fx.counter, row.fx.cur)>>

\* The reference on the wire, and what the ledger's server makes of it.
toProtoRef(ref) ==
  IF ref.internal # "" THEN [kind |-> "internal_code", code |-> ref.internal]
  ELSE [kind |-> "external_account_id", id |-> ref.external]
refFromProto(msg) ==
  IF msg.kind = "external_account_id" THEN External(msg.id) ELSE Internal(msg.code)

\* The ledger account, or 0 where there is none; a customer's has the account's id.
GetAccountByRef(ref) ==
  IF ref.external # 0 THEN Known(ref.external)
  ELSE IF ref.internal \in DOMAIN Chart THEN Chart[ref.internal].id
  ELSE 0

\* The account that PlaceHold reserves money on.
HeldAccount(row) == GetAccountByRef(refFromProto(toProtoRef(SourceRef(row))))

\* The client's PostTransaction encodes the legs, the server's decodes them.
Encoded(legs) ==
  [i \in DOMAIN legs |-> [account |-> toProtoRef(legs[i].ref),
                          units |-> legs[i].amount, currency |-> legs[i].cur]]
Decoded(msg) ==
  [i \in DOMAIN msg |-> [acct |-> GetAccountByRef(refFromProto(msg[i].account)),
                         amount |-> msg[i].units, cur |-> msg[i].currency]]

-----------------------------------------------------------------------------

RulesNext ==
  \/ \E x \in Ids, s \in Specs : CreateTransfer(x, s)
  \/ \E d \in Drivers : \/ \E x \in DOMAIN rows : LookUp(d, x)
                        \/ Limits(d) \/ Write(d)
  \/ \E x \in DOMAIN rows : Compensate(x)
  \/ \E a \in Freezable : SetStatus(a)
  \/ Midnight

RulesSpec == RulesInit /\ [][RulesNext]_rvars

-----------------------------------------------------------------------------
(* Properties *)

Accepted(x) == rows[x].state = "HELD"

\* The transfers of a customer in a currency that count towards a day's limit.
AcceptedOn(day, c, cur) ==
  {x \in DOMAIN rows : /\ Accepted(x) /\ rows[x].spec.type # "TOPUP"
                       /\ rows[x].spec.customer = c /\ rows[x].spec.cur = cur
                       /\ rows[x].created = day /\ rows[x].checked = day}

\* The amounts of the transfers that were created and checked on one day and have
\* not failed stay within the daily limit, however the drivers interleave: each adds up
\* the rows without a lock, but its own row is committed before it does.
DailyLimitHolds ==
  \A day \in 0..today, c \in {s.customer : s \in Specs}, cur \in Currencies :
    SumFunctionOnSet(Amounts, AcceptedOn(day, c, cur)) <= Daily[cur]

\* The entry for a row, as it arrives at the ledger.
SoundEntry(row) ==
  LET legs == Decoded(Encoded(BuildPostings(row)))
      amount == row.spec.amount
  IN  /\ \A i \in DOMAIN legs : legs[i].acct # 0
      /\ Books!ValidateEntry(legs) = "OK"
      /\ Books!Delta(legs, HeldAccount(row)) = -amount
      /\ row.fx = NoFx => Books!Delta(legs, row.to) = amount
      /\ row.fx # NoFx =>
           /\ \E r \in Rates : r.from <= today /\ row.fx.rate \in {r.buy, r.sell}
           /\ IF row.spec.cur = "USD"
              THEN Nearest(Books!Delta(legs, row.to), amount * row.fx.rate, RateScale)
              ELSE Nearest(Books!Delta(legs, row.to), amount * RateScale, row.fx.rate)

\* The entry of an accepted transfer, as it arrives at the ledger, is one the ledger
\* takes, whoever decided it and whatever became of the rate since: it debits the account
\* that the hold is on by the amount held, credits the destination, and the credit is the
\* amount converted to the nearest unit, ties to even, at a rate that was in force.
EntryIsSound == \A x \in DOMAIN rows : Accepted(x) => SoundEntry(rows[x])

\* The check digits of a number that money was sent to: with one character mistyped or
\* two neighbours swapped ValidNumber refuses it, so that a slip cannot pay someone else.
MistypesAreCaught ==
  \A x \in DOMAIN rows : Accepted(x) /\ rows[x].spec.type = "P2P" =>
    LET number == rows[x].spec.number
        mistyped == {[number EXCEPT ![i] = d] : i \in DOMAIN number, d \in 0..10}
        swapped == {[number EXCEPT ![i] = number[i + 1], ![i + 1] = number[i]] :
                      i \in 1..(Len(number) - 1)}
    IN  \A n \in mistyped \cup swapped : ValidNumber(n) <=> n = number
=============================================================================
