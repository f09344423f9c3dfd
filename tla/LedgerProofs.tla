---------------------------- MODULE LedgerProofs ----------------------------
(***************************************************************************)
(* Theorems about the ledger, for every set of accounts, references,       *)
(* requests and workers and every integer width.  First those about its    *)
(* promise, LedgerAtomic.  Then the statement-level ledger: the locking    *)
(* discipline holds, therefore it implements LedgerAtomic, and what was    *)
(* proved of the promise holds of it.                                      *)
(***************************************************************************)
EXTENDS Ledger, SumTheorems, TLAPS

-----------------------------------------------------------------------------
(* 64-bit arithmetic *)

\* The comparison by which addChecked (domain.go) and addInt64 (service.go) detect
\* an overflow of the wrapped sum is exact.
THEOREM AddCheckedExact ==
  \A x, y \in Int64 : AddOverflows(x, y) <=> x + y \notin Int64
  BY HalfAssumption DEF AddOverflows, Wrap, Int64

\* One wrapped addition or subtraction stays in range.
LEMMA WrapType ==
  \A x, y \in Int64 : Wrap(x + y) \in Int64 /\ Wrap(x - y) \in Int64
  BY HalfAssumption DEF Wrap, Int64

-----------------------------------------------------------------------------
(* The rows the operations write *)

\* The row PlaceHold writes is a row, and the hold it inserts has a positive amount.
LEMMA HeldRowType ==
  ASSUME NEW b \in Row, NEW a \in Accounts, NEW amount \in Int64,
         CanPlaceHold(b, a, amount) = "OK"
  PROVE  HeldRow(b, amount) \in Row /\ amount \in 1 .. (Half - 1)
  <1>1. amount \in 1 .. (Half - 1)
    BY HalfAssumption DEF CanPlaceHold, Int64
  <1>2. Wrap(b.held + amount) \in Int64
    BY WrapType DEF Row
  <1>3. QED
    BY <1>1, <1>2 DEF HeldRow, Row

\* The row ReleaseHold writes is a row.
LEMMA ReleasedRowType ==
  ASSUME NEW b \in Row, NEW amount \in 1 .. (Half - 1), b.held >= amount
  PROVE  ReleasedRow(b, amount) \in Row
  BY HalfAssumption DEF ReleasedRow, Row, Int64

\* The row PostTransaction writes is a row.
LEMMA AppliedRowType ==
  ASSUME NEW b \in Row, NEW a \in Accounts, NEW d,
         NEW adj \in Int, adj <= 0, ApplyPosting(b, a, adj, d) = "OK"
  PROVE  AppliedRow(b, adj, d) \in Row /\ b.held + adj >= 0
  <1>1. b.held + adj >= 0 /\ b.balance + d \in Int64
    BY DEF ApplyPosting, Row, Int64
  <1>2. b.held + adj \in Int64
    BY <1>1, HalfAssumption DEF Row, Int64
  <1>3. b.version + 1 \in Nat
    BY DEF Row
  <1>4. QED
    BY <1>1, <1>2, <1>3 DEF AppliedRow, Row

\* The accounts an entry touches are accounts, and its net deltas are Int64s once
\* ValidateEntry has accepted it.
LEMMA ValidEntry ==
  ASSUME NEW legs \in Seq(Leg)
  PROVE  /\ Affected(legs) \subseteq Accounts
         /\ ValidateEntry(legs) = "OK" =>
              /\ legs # NoEntry /\ Affected(legs) # {}
              /\ ZeroSum(legs)
              /\ \A a \in Affected(legs) : Delta(legs, a) \in Int64
  <1>1. Affected(legs) \subseteq Accounts
    <2>1. \A i \in DOMAIN legs : legs[i] \in Leg
      OBVIOUS
    <2>2. QED
      BY <2>1 DEF Affected, Leg
  <1>2. ASSUME ValidateEntry(legs) = "OK"
        PROVE  /\ Len(legs) >= 2
               /\ ZeroSum(legs)
               /\ \A n \in DOMAIN legs, a \in Affected(legs) : AccountSum(legs, n, a) \in Int64
    BY <1>2 DEF ValidateEntry
  <1>3. ASSUME ValidateEntry(legs) = "OK"
        PROVE  Len(legs) \in DOMAIN legs /\ legs # NoEntry
    BY <1>2, <1>3 DEF NoEntry
  <1>4. ASSUME ValidateEntry(legs) = "OK"
        PROVE  Affected(legs) # {}
    BY <1>3, <1>4 DEF Affected
  <1>5. QED
    BY <1>1, <1>2, <1>3, <1>4 DEF Delta

\* The held adjustment of a capture is never positive.
LEMMA HeldAdjType ==
  ASSUME ATypeOK, NEW q \in PostRequest, NEW a \in Accounts,
         q.hold # NoRef => holds[q.hold] # NoHold
  PROVE  AHeldAdj(q, a) \in Int /\ AHeldAdj(q, a) <= 0
  <1>1. CASE q.hold = NoRef
    BY <1>1 DEF AHeldAdj
  <1>2. CASE q.hold # NoRef
    <2>1. q.hold \in Refs
      BY <1>2 DEF PostRequest
    <2>2. holds[q.hold] \in Hold
      BY <1>2, <2>1 DEF ATypeOK
    <2>3. QED
      BY <2>2, HalfAssumption DEF AHeldAdj, Hold
  <1>3. QED
    BY <1>1, <1>2

-----------------------------------------------------------------------------
(* Type correctness *)

\* Every step of the ledger keeps the types of the tables.
LEMMA AtomicTypeStep ==
  ATypeOK /\ [ANext]_avars => ATypeOK'
  <1> SUFFICES ASSUME ATypeOK, [ANext]_avars
               PROVE  ATypeOK'
    OBVIOUS
  <1>1. ASSUME NEW a \in Customers, ACreateAccount(a)
        PROVE  ATypeOK'
    BY <1>1 DEF ACreateAccount, ATypeOK, Accounts
  <1>2. ASSUME NEW r \in Refs, AExpire(r)
        PROVE  ATypeOK'
    BY <1>2 DEF AExpire, ATypeOK
  <1>3. ASSUME NEW r \in Refs, AReleaseHold(r)
        PROVE  ATypeOK'
    <2>1. holds[r] \in Hold
      BY <1>3 DEF AReleaseHold, ATypeOK, NoHold
    <2>2. ReleasedRow(balances[holds[r].acct], holds[r].amount) \in Row
      BY <1>3, <2>1, ReleasedRowType DEF AReleaseHold, ATypeOK, Hold
    <2>3. balances' \in [Accounts -> Row]
      BY <1>3, <2>2 DEF AReleaseHold, ATypeOK
    <2>4. [holds[r] EXCEPT !.status = "released"] \in Hold
      BY <2>1 DEF Hold, HoldStatus
    <2>5. holds' \in [Refs -> Hold \cup {NoHold}]
      BY <1>3, <2>4 DEF AReleaseHold, ATypeOK
    <2>6. QED
      BY <1>3, <2>3, <2>5 DEF AReleaseHold, ATypeOK
  <1>4. ASSUME NEW q \in Requests, q.op = "place", APlaceHold(q)
        PROVE  ATypeOK'
    <2>1. q \in PlaceHoldRequest
      BY <1>4, RequestsAssumption DEF PlaceHoldRequest, ReleaseHoldRequest, PostRequest
    <2>2. q.acct \in Accounts /\ q.ref \in Refs /\ q.amount \in Int64
      BY <2>1 DEF PlaceHoldRequest
    <2>3. balances[q.acct] \in Row
      BY <2>2 DEF ATypeOK
    <2>4. /\ HeldRow(balances[q.acct], q.amount) \in Row
          /\ q.amount \in 1 .. (Half - 1)
      BY <1>4, <2>2, <2>3, HeldRowType DEF APlaceHold
    <2>5. balances' \in [Accounts -> Row]
      BY <1>4, <2>2, <2>4 DEF APlaceHold, ATypeOK
    <2>6. [acct |-> q.acct, amount |-> q.amount, status |-> "active"] \in Hold
      BY <2>2, <2>4 DEF Hold, HoldStatus
    <2>7. holds' \in [Refs -> Hold \cup {NoHold}]
      BY <1>4, <2>2, <2>6 DEF APlaceHold, ATypeOK
    <2>8. QED
      BY <1>4, <2>5, <2>7 DEF APlaceHold, ATypeOK
  <1>5. ASSUME NEW q \in Requests, q.op = "post", APostTransaction(q)
        PROVE  ATypeOK'
    <2>1. q \in PostRequest
      BY <1>5, RequestsAssumption DEF PlaceHoldRequest, ReleaseHoldRequest, PostRequest
    <2>2. q.ref \in Refs /\ q.hold \in Refs \cup {NoRef} /\ q.legs \in Seq(Leg)
      BY <2>1 DEF PostRequest
    <2>3. Affected(q.legs) \subseteq Accounts
      BY <2>2, ValidEntry
    <2>4. ASSUME NEW a \in Affected(q.legs)
          PROVE  AppliedRow(balances[a], AHeldAdj(q, a), Delta(q.legs, a)) \in Row
      <3>1. AHeldAdj(q, a) \in Int /\ AHeldAdj(q, a) <= 0
        BY <1>5, <2>1, <2>3, <2>4, HeldAdjType DEF APostTransaction
      <3>2. balances[a] \in Row
        BY <2>3, <2>4 DEF ATypeOK
      <3>3. ApplyPosting(balances[a], a, AHeldAdj(q, a), Delta(q.legs, a)) = "OK"
        BY <1>5, <2>4 DEF APostTransaction
      <3>4. QED
        BY <2>3, <2>4, <3>1, <3>2, <3>3, AppliedRowType
    <2>5. balances' \in [Accounts -> Row]
      BY <1>5, <2>4 DEF APostTransaction, ATypeOK
    <2>6. holds' \in [Refs -> Hold \cup {NoHold}]
      <3>1. CASE q.hold = NoRef
        BY <1>5, <3>1 DEF APostTransaction, ATypeOK
      <3>2. CASE q.hold # NoRef
        <4>1. q.hold \in Refs /\ holds[q.hold] \in Hold
          BY <1>5, <2>2, <3>2 DEF APostTransaction, ATypeOK
        <4>2. [holds[q.hold] EXCEPT !.status = "captured"] \in Hold
          BY <4>1 DEF Hold, HoldStatus
        <4>3. QED
          BY <1>5, <3>2, <4>1, <4>2 DEF APostTransaction, ATypeOK
      <3>3. QED
        BY <3>1, <3>2
    <2>7. entries' \in [Refs -> Seq(Leg)]
      BY <1>5, <2>2 DEF APostTransaction, ATypeOK
    <2>8. outbox' \subseteq Event
      BY <1>5, <2>2, <2>3, <2>5 DEF APostTransaction, ATypeOK, Event, Row
    <2>9. QED
      BY <1>5, <2>5, <2>6, <2>7, <2>8 DEF APostTransaction, ATypeOK
  <1>6. CASE UNCHANGED avars
    BY <1>6 DEF avars, ATypeOK
  <1>7. QED
    BY <1>1, <1>2, <1>3, <1>4, <1>5, <1>6 DEF ANext

\* The tables keep their types: balances and holds stay within int64, a hold
\* has a positive amount, versions are naturals.
THEOREM AtomicTypeCorrect == ASpec => []ATypeOK
  <1>1. AInit => ATypeOK
    BY HalfAssumption DEF AInit, ATypeOK, ZeroRow, Row, Int64, NoEntry, NoHold, Accounts
  <1>2. QED
    BY <1>1, AtomicTypeStep, PTL DEF ASpec

-----------------------------------------------------------------------------
(* No overdraft *)

\* In range, a balance and a reservation no larger than it do not wrap.
LEMMA AvailableExact ==
  ASSUME NEW b \in Row, b.held >= 0, b.balance >= 0
  PROVE  Available(b) = b.balance - b.held
  BY HalfAssumption DEF Available, Wrap, Row, Int64

\* No step of the ledger overdraws a customer account.
LEMMA AtomicNoOverdraftStep ==
  ATypeOK /\ NoOverdraft /\ [ANext]_avars => NoOverdraft'
  <1> SUFFICES ASSUME ATypeOK, NoOverdraft, [ANext]_avars
               PROVE  NoOverdraft'
    OBVIOUS
  <1>0. ASSUME UNCHANGED balances
        PROVE  NoOverdraft'
    BY <1>0 DEF NoOverdraft
  <1>1. ASSUME NEW a \in Customers, ACreateAccount(a)
        PROVE  NoOverdraft'
    BY <1>0, <1>1 DEF ACreateAccount
  <1>2. ASSUME NEW r \in Refs, AExpire(r)
        PROVE  NoOverdraft'
    BY <1>0, <1>2 DEF AExpire
  <1>3. ASSUME NEW r \in Refs, AReleaseHold(r)
        PROVE  NoOverdraft'
    <2>1. holds[r] \in Hold
      BY <1>3 DEF AReleaseHold, ATypeOK, NoHold
    <2>2. \A a \in Accounts : balances[a] \in Row
      BY DEF ATypeOK
    <2>3. \A a \in Accounts :
            balances'[a] = IF a = holds[r].acct
                           THEN ReleasedRow(balances[a], holds[r].amount) ELSE balances[a]
      BY <1>3 DEF AReleaseHold, ATypeOK
    <2>4. holds[r].amount \in 1 .. (Half - 1) /\ balances[holds[r].acct].held >= holds[r].amount
      BY <1>3, <2>1 DEF AReleaseHold, Hold
    <2>5. ASSUME NEW a \in Accounts, a = holds[r].acct
          PROVE  LET n == ReleasedRow(balances[a], holds[r].amount)
                 IN  n.held >= 0 /\ (a \in Customers => n.balance - n.held >= 0)
      <3>1. balances[a].held \in Int /\ balances[a].balance \in Int
        BY <2>2, <2>5, HalfAssumption DEF Row, Int64
      <3>2. a \in Customers => balances[a].balance - balances[a].held >= 0
        BY <2>5 DEF NoOverdraft
      <3>3. QED
        BY <2>4, <2>5, <3>1, <3>2, HalfAssumption DEF ReleasedRow
    <2>6. QED
      BY <2>3, <2>5 DEF NoOverdraft
  <1>4. ASSUME NEW q \in Requests, q.op = "place", APlaceHold(q)
        PROVE  NoOverdraft'
    <2>1. q \in PlaceHoldRequest
      BY <1>4, RequestsAssumption DEF PlaceHoldRequest, ReleaseHoldRequest, PostRequest
    <2>2. q.acct \in Accounts /\ q.amount \in Int64
      BY <2>1 DEF PlaceHoldRequest
    <2>3. \A a \in Accounts : balances[a] \in Row
      BY DEF ATypeOK
    <2>4. \A a \in Accounts :
            balances'[a] = IF a = q.acct THEN HeldRow(balances[a], q.amount) ELSE balances[a]
      BY <1>4 DEF APlaceHold, ATypeOK
    <2>5. HeldRow(balances[q.acct], q.amount).held >= 0
      BY <1>4 DEF APlaceHold
    <2>6. ASSUME q.acct \in Customers
          PROVE  LET n == HeldRow(balances[q.acct], q.amount) IN n.balance - n.held >= 0
      <3>1. balances[q.acct].held >= 0 /\ balances[q.acct].balance >= balances[q.acct].held
        BY <2>2, <2>3, <2>6 DEF NoOverdraft, Row, Int64
      <3>2. Available(balances[q.acct]) = balances[q.acct].balance - balances[q.acct].held
        BY <2>2, <2>3, <3>1, AvailableExact, HalfAssumption DEF Row, Int64
      <3>3. /\ q.amount > 0
            /\ ~(Available(balances[q.acct]) < q.amount)
        BY <1>4, <2>2, <2>6, HalfAssumption DEF APlaceHold, CanPlaceHold, Int64
      <3>4. Wrap(balances[q.acct].held + q.amount) = balances[q.acct].held + q.amount
        BY <2>2, <2>3, <3>1, <3>2, <3>3, HalfAssumption DEF Wrap, Row, Int64
      <3>5. QED
        BY <2>2, <2>3, <3>2, <3>3, <3>4, HalfAssumption DEF HeldRow, Row, Int64
    <2>7. QED
      BY <2>3, <2>4, <2>5, <2>6 DEF NoOverdraft
  <1>5. ASSUME NEW q \in Requests, q.op = "post", APostTransaction(q)
        PROVE  NoOverdraft'
    <2>1. q \in PostRequest
      BY <1>5, RequestsAssumption DEF PlaceHoldRequest, ReleaseHoldRequest, PostRequest
    <2>2. q.legs \in Seq(Leg)
      BY <2>1 DEF PostRequest
    <2>3. Affected(q.legs) \subseteq Accounts
      BY <2>2, ValidEntry
    <2>4. ASSUME NEW a \in Affected(q.legs)
          PROVE  LET n == AppliedRow(balances[a], AHeldAdj(q, a), Delta(q.legs, a))
                 IN  n.held >= 0 /\ (a \in Customers => n.balance - n.held >= 0)
      <3> DEFINE adj == AHeldAdj(q, a)
                 d == Delta(q.legs, a)
                 b == balances[a]
                 n == AppliedRow(b, adj, d)
      <3>1. adj \in Int /\ adj <= 0
        BY <1>5, <2>1, <2>3, <2>4, HeldAdjType DEF APostTransaction
      <3>2. b \in Row /\ b.held >= 0 /\ (a \in Customers => b.balance - b.held >= 0)
        BY <2>3, <2>4 DEF ATypeOK, NoOverdraft
      <3>3. ApplyPosting(b, a, adj, d) = "OK"
        BY <1>5, <2>4 DEF APostTransaction
      <3>4. d \in Int64
        BY <1>5, <2>2, <2>4, ValidEntry DEF APostTransaction
      <3> HIDE DEF adj, d, b
      <3>5. n \in Row /\ b.held + adj >= 0
        BY <2>3, <2>4, <3>1, <3>2, <3>3, AppliedRowType
      <3>6. n.held >= 0 /\ n.held = b.held + adj /\ n.balance = b.balance + d
        BY <3>5 DEF AppliedRow
      <3>7. ASSUME a \in Customers
            PROVE  n.balance - n.held >= 0
        <4>1. Available(n) \in Int64 /\ ~(Available(n) < 0)
          BY <3>3, <3>5, <3>7, WrapType DEF ApplyPosting, Available, Row
        <4>2. Available(n) = n.balance - n.held
          BY <3>1, <3>2, <3>4, <3>5, <3>6, <3>7, HalfAssumption
          DEF Available, Wrap, Row, Int64
        <4>3. QED
          BY <4>1, <4>2, HalfAssumption DEF Int64
      <3>8. QED
        BY <3>6, <3>7 DEF adj, d, b
    <2>5. \A a \in Accounts :
            balances'[a] = IF a \in Affected(q.legs)
                           THEN AppliedRow(balances[a], AHeldAdj(q, a), Delta(q.legs, a))
                           ELSE balances[a]
      BY <1>5 DEF APostTransaction
    <2>6. QED
      BY <2>4, <2>5 DEF NoOverdraft
  <1>6. CASE UNCHANGED avars
    BY <1>0, <1>6 DEF avars
  <1>7. QED
    BY <1>1, <1>2, <1>3, <1>4, <1>5, <1>6 DEF ANext

\* Invariant 3 of docs/services/ledger-service.md: no sequence of holds, releases,
\* captures and posts overdraws a customer account or drives held below zero, at
\* any integer width: none of the int64 expressions of PlaceHold and ApplyPosting
\* wraps its way around the check.
THEOREM AtomicNoOverdraft == ASpec => []NoOverdraft
  <1>1. AInit => NoOverdraft
    BY DEF AInit, NoOverdraft, ZeroRow
  <1>2. QED
    BY <1>1, AtomicNoOverdraftStep, AtomicTypeCorrect, PTL DEF ASpec

-----------------------------------------------------------------------------
(* Finality *)

\* Invariants 2 and 7: entries are immutable, captured and released are final, and
\* a hold is captured only by the step that commits the entry of its reference.
THEOREM AtomicHistoryIsFinal == ASpec => HistoryIsFinal
  <1> DEFINE Final ==
        \A r \in Refs :
          /\ entries[r] # NoEntry => entries'[r] = entries[r]
          /\ holds[r].status \in {"captured", "released"} => holds'[r] = holds[r]
          /\ (holds[r].status = "active" /\ holds'[r].status = "captured") =>
               entries[r] = NoEntry /\ entries'[r] # NoEntry
  <1>1. ATypeOK /\ [ANext]_avars => [Final]_avars
    <2> SUFFICES ASSUME ATypeOK, ANext
                 PROVE  Final
      OBVIOUS
    <2>1. ASSUME NEW a \in Customers, ACreateAccount(a)
          PROVE  Final
      BY <2>1 DEF ACreateAccount
    <2>2. ASSUME NEW r \in Refs, AExpire(r)
          PROVE  Final
      BY <2>2 DEF AExpire
    <2>3. ASSUME NEW r \in Refs, AReleaseHold(r)
          PROVE  Final
      <3>1. holds[r] \in Hold
        BY <2>3 DEF AReleaseHold, ATypeOK, NoHold
      <3>2. holds'[r].status = "released" /\ \A s \in Refs : s # r => holds'[s] = holds[s]
        BY <2>3, <3>1 DEF AReleaseHold, ATypeOK, Hold
      <3>3. QED
        BY <2>3, <3>2 DEF AReleaseHold
    <2>4. ASSUME NEW q \in Requests, q.op = "place", APlaceHold(q)
          PROVE  Final
      <3>1. q.ref \in Refs
        BY <2>4, RequestsAssumption DEF PlaceHoldRequest, ReleaseHoldRequest, PostRequest
      <3>2. \A s \in Refs : s # q.ref => holds'[s] = holds[s]
        BY <2>4 DEF APlaceHold, ATypeOK
      <3>3. holds[q.ref].status = "none"
        BY <2>4 DEF APlaceHold, NoHold
      <3>4. QED
        BY <2>4, <3>1, <3>2, <3>3 DEF APlaceHold
    <2>5. ASSUME NEW q \in Requests, q.op = "post", APostTransaction(q)
          PROVE  Final
      <3>1. q \in PostRequest
        BY <2>5, RequestsAssumption DEF PlaceHoldRequest, ReleaseHoldRequest, PostRequest
      <3>2. q.ref \in Refs /\ q.legs \in Seq(Leg) /\ q.hold \in Refs \cup {NoRef}
        BY <3>1 DEF PostRequest
      <3>3. /\ entries[q.ref] = NoEntry /\ entries'[q.ref] # NoEntry
            /\ \A s \in Refs : s # q.ref => entries'[s] = entries[s]
        BY <2>5, <3>2, ValidEntry DEF APostTransaction, ATypeOK
      <3>4. \A s \in Refs : s # q.hold => holds'[s] = holds[s]
        BY <2>5, <3>2 DEF APostTransaction, ATypeOK
      <3>5. q.hold # NoRef => q.hold = q.ref /\ holds[q.hold].status = "active"
        BY <2>5 DEF APostTransaction, CaptureHold
      <3>6. QED
        BY <3>2, <3>3, <3>4, <3>5, RefsAssumption
    <2>6. QED
      BY <2>1, <2>2, <2>3, <2>4, <2>5 DEF ANext
  <1>2. QED
    BY <1>1, AtomicTypeCorrect, PTL DEF ASpec, HistoryIsFinal

-----------------------------------------------------------------------------
(* What a valid entry moves *)

\* The postings of an entry can be added up.
LEMMA AmountsSummable ==
  ASSUME NEW legs \in Seq(Leg), NEW S, S \subseteq 1 .. Len(legs)
  PROVE  Summable(Amounts(legs), S)
  <1>1. IsFiniteSet(S)
    <2>1. Len(legs) \in Int
      OBVIOUS
    <2>2. IsFiniteSet(1 .. Len(legs))
      BY <2>1, FS_Interval
    <2>3. QED
      BY <2>2, FS_Subset
  <1>2. \A i \in 1 .. Len(legs) : Amounts(legs)[i] \in Int64
    <2>1. \A i \in 1 .. Len(legs) : i \in DOMAIN legs /\ legs[i] \in Leg
      OBVIOUS
    <2>2. QED
      BY <2>1 DEF Amounts, Leg
  <1>3. Int64 \subseteq Int
    BY HalfAssumption DEF Int64
  <1>4. QED
    BY <1>1, <1>2, <1>3 DEF Summable

\* The net delta of an account is an integer, and zero unless the entry touches it.
LEMMA DeltaOf ==
  ASSUME NEW legs \in Seq(Leg), NEW a
  PROVE  /\ Delta(legs, a) \in Int
         /\ a \notin Affected(legs) => Delta(legs, a) = 0
  <1> DEFINE S == {i \in 1 .. Len(legs) : legs[i].acct = a}
  <1>1. Delta(legs, a) = SumFunctionOnSet(Amounts(legs), S)
    BY DEF Delta, AccountSum
  <1>2. Summable(Amounts(legs), S)
    BY AmountsSummable
  <1>3. ASSUME a \notin Affected(legs)
        PROVE  S = {}
    BY <1>3 DEF Affected
  <1> HIDE DEF S
  <1>4. QED
    BY <1>1, <1>2, <1>3, SumType, SumEmpty

\* An entry that has not been committed moves nothing.
LEMMA DeltaNoEntry == \A a : Delta(NoEntry, a) = 0
  <1>1. NoEntry \in Seq(Leg)
    BY DEF NoEntry
  <1>2. Affected(NoEntry) = {}
    BY DEF NoEntry, Affected
  <1>3. QED
    BY <1>1, <1>2, DeltaOf

\* The deltas of a valid entry cancel out within each currency: a posting is in
\* the currency of its account, so adding them up by account is adding up by posting.
LEMMA DeltasCancel ==
  ASSUME NEW legs \in Seq(Leg), ValidateEntry(legs) = "OK", NEW c \in Currencies
  PROVE  SumFunctionOnSet([a \in Accounts |-> Delta(legs, a)], {a \in Accounts : Cur[a] = c}) = 0
  <1> DEFINE S == 1 .. Len(legs)
             C == {a \in Accounts : Cur[a] = c}
             k == [i \in S |-> legs[i].acct]
             deltas == [a \in Accounts |-> Delta(legs, a)]
  <1>1. Summable(Amounts(legs), S)
    BY AmountsSummable
  <1>2. IsFiniteSet(C)
    BY AccountsAssumption, FS_Union, FS_Subset DEF Accounts
  <1>3. AddsUpClasses(deltas, Amounts(legs), S, k, C)
    <2> SUFFICES ASSUME NEW a \in C
                 PROVE  deltas[a] = SumFunctionOnSet(Amounts(legs), {i \in S : k[i] = a})
      BY DEF AddsUpClasses
    <2>1. {i \in S : k[i] = a} = {i \in S : legs[i].acct = a}
      OBVIOUS
    <2>2. QED
      BY <2>1 DEF Delta, AccountSum
  <1>4. \A i \in S : legs[i] \in Leg /\ legs[i].cur = Cur[legs[i].acct]
    <2>1. \A i \in S : ~BadLeg(legs, i)
      BY DEF ValidateEntry
    <2>2. QED
      BY <2>1 DEF BadLeg
  <1>5. InClasses(S, k, C) = {i \in S : legs[i].cur = c}
    BY <1>4 DEF Leg, InClasses
  <1>6. SumFunctionOnSet(Amounts(legs), {i \in S : legs[i].cur = c}) = 0
    BY ValidEntry DEF ZeroSum, CurrencySum
  <1> HIDE DEF S, C, k, deltas
  <1>7. SumFunctionOnSet(deltas, C) = SumFunctionOnSet(Amounts(legs), InClasses(S, k, C))
    BY <1>1, <1>2, <1>3, SumByClasses
  <1>8. QED
    BY <1>5, <1>6, <1>7 DEF deltas, C

-----------------------------------------------------------------------------
(* Balances and postings *)

\* What a post does to a balance: it adds the delta of the entry, zero included.
LEMMA PostAddsDelta ==
  ASSUME ATypeOK, NEW q \in Requests, q.op = "post", APostTransaction(q), NEW a \in Accounts
  PROVE  /\ Delta(q.legs, a) \in Int
         /\ balances[a].balance \in Int
         /\ balances'[a].balance = balances[a].balance + Delta(q.legs, a)
  <1>1. q \in PostRequest
    BY RequestsAssumption DEF PlaceHoldRequest, ReleaseHoldRequest, PostRequest
  <1>2. q.legs \in Seq(Leg)
    BY <1>1 DEF PostRequest
  <1>3. Delta(q.legs, a) \in Int /\ (a \notin Affected(q.legs) => Delta(q.legs, a) = 0)
    BY <1>2, DeltaOf
  <1>4. balances[a].balance \in Int
    BY HalfAssumption DEF ATypeOK, Row, Int64
  <1>5. balances'[a] = IF a \in Affected(q.legs)
                       THEN AppliedRow(balances[a], AHeldAdj(q, a), Delta(q.legs, a))
                       ELSE balances[a]
    BY DEF APostTransaction
  <1>6. QED
    BY <1>3, <1>4, <1>5 DEF AppliedRow

\* Only a post changes a balance, a version, an entry or the outbox.
LEMMA OnlyPostsCount ==
  ASSUME ATypeOK, [ANext]_avars,
         ~\E q \in Requests : q.op = "post" /\ APostTransaction(q)
  PROVE  /\ entries' = entries /\ outbox' = outbox
         /\ \A a \in Accounts : /\ balances'[a].balance = balances[a].balance
                                /\ balances'[a].version = balances[a].version
  <1> DEFINE Same == /\ entries' = entries /\ outbox' = outbox
                     /\ \A a \in Accounts : /\ balances'[a].balance = balances[a].balance
                                            /\ balances'[a].version = balances[a].version
  <1>1. ASSUME NEW a \in Customers, ACreateAccount(a)
        PROVE  Same
    BY <1>1 DEF ACreateAccount
  <1>2. ASSUME NEW r \in Refs, AExpire(r)
        PROVE  Same
    BY <1>2 DEF AExpire
  <1>3. ASSUME NEW r \in Refs, AReleaseHold(r)
        PROVE  Same
    <2>1. \A a \in Accounts : \/ balances'[a] = ReleasedRow(balances[a], holds[r].amount)
                               \/ balances'[a] = balances[a]
      BY <1>3 DEF AReleaseHold, ATypeOK
    <2>2. \A b, x : /\ ReleasedRow(b, x).balance = b.balance
                    /\ ReleasedRow(b, x).version = b.version
      BY DEF ReleasedRow
    <2>3. UNCHANGED <<entries, outbox>>
      BY <1>3 DEF AReleaseHold
    <2>4. QED
      BY <2>1, <2>2, <2>3, Zenon
  <1>4. ASSUME NEW q \in Requests, APlaceHold(q)
        PROVE  Same
    <2>1. \A a \in Accounts : \/ balances'[a] = HeldRow(balances[a], q.amount)
                               \/ balances'[a] = balances[a]
      BY <1>4 DEF APlaceHold, ATypeOK
    <2>2. \A b, x : HeldRow(b, x).balance = b.balance /\ HeldRow(b, x).version = b.version
      BY DEF HeldRow
    <2>3. UNCHANGED <<entries, outbox>>
      BY <1>4 DEF APlaceHold
    <2>4. QED
      BY <2>1, <2>2, <2>3, Zenon
  <1>5. CASE UNCHANGED avars
    BY <1>5 DEF avars
  <1>6. QED
    BY <1>1, <1>2, <1>3, <1>4, <1>5 DEF ANext

\* The materialised balance stays the sum of the committed postings.
LEMMA BalanceIsPostingsStep ==
  ATypeOK /\ BalanceIsPostings /\ [ANext]_avars => BalanceIsPostings'
  <1> SUFFICES ASSUME ATypeOK, BalanceIsPostings, [ANext]_avars, NEW a \in Accounts
               PROVE  balances'[a].balance =
                        SumFunctionOnSet([r \in Refs |-> Delta(entries'[r], a)], Refs)
    BY DEF BalanceIsPostings
  <1> DEFINE f == [r \in Refs |-> Delta(entries[r], a)]
             g == [r \in Refs |-> Delta(entries'[r], a)]
  <1>1. balances[a].balance = SumFunctionOnSet(f, Refs)
    BY DEF BalanceIsPostings
  <1>2. Summable(f, Refs) /\ Summable(g, Refs)
    <2>1. ATypeOK'
      BY AtomicTypeStep
    <2>2. \A r \in Refs : f[r] \in Int /\ g[r] \in Int
      BY <2>1, DeltaOf DEF ATypeOK
    <2>3. QED
      BY <2>2, RefsAssumption DEF Summable
  <1>3. CASE ~\E q \in Requests : q.op = "post" /\ APostTransaction(q)
    BY <1>1, <1>3, OnlyPostsCount
  <1>4. ASSUME NEW q \in Requests, q.op = "post", APostTransaction(q)
        PROVE  balances'[a].balance = SumFunctionOnSet(g, Refs)
    <2>1. q.ref \in Refs
      BY <1>4, RequestsAssumption DEF PlaceHoldRequest, ReleaseHoldRequest, PostRequest
    <2>2. f[q.ref] = 0 /\ g[q.ref] = Delta(q.legs, a)
      BY <1>4, <2>1, DeltaNoEntry DEF APostTransaction, ATypeOK
    <2>3. \A r \in Refs \ {q.ref} : f[r] = g[r]
      BY <1>4 DEF APostTransaction, ATypeOK
    <2>4. /\ Delta(q.legs, a) \in Int
          /\ balances[a].balance \in Int
          /\ balances'[a].balance = balances[a].balance + Delta(q.legs, a)
      BY <1>4, PostAddsDelta
    <2> HIDE DEF f, g
    <2>5. SumFunctionOnSet(g, Refs) = SumFunctionOnSet(f, Refs) + g[q.ref] - f[q.ref]
      BY <1>2, <2>1, <2>3, SumChange
    <2>6. QED
      BY <1>1, <2>2, <2>4, <2>5
  <1>5. QED
    BY <1>3, <1>4

\* Invariant 4: whatever holds, posts and replays commit in whatever order, the
\* balance column UpdateBalance maintains is the sum of the account's postings.
THEOREM AtomicBalanceIsPostings == ASpec => []BalanceIsPostings
  <1>1. AInit => BalanceIsPostings
    <2> SUFFICES ASSUME AInit, NEW a \in Accounts
                 PROVE  balances[a].balance =
                          SumFunctionOnSet([r \in Refs |-> Delta(entries[r], a)], Refs)
      BY DEF BalanceIsPostings
    <2> DEFINE f == [r \in Refs |-> Delta(entries[r], a)]
    <2>1. \A r \in Refs : f[r] = 0
      BY DeltaNoEntry DEF AInit
    <2> HIDE DEF f
    <2>2. SumFunctionOnSet(f, Refs) = 0
      BY <2>1, RefsAssumption, SumZero
    <2>3. QED
      BY <2>2 DEF f, AInit, ZeroRow
  <1>2. QED
    BY <1>1, BalanceIsPostingsStep, AtomicTypeCorrect, PTL DEF ASpec

-----------------------------------------------------------------------------
(* Double entry *)

\* Every step keeps the books of each currency at zero.
LEMMA MoneyConservedStep ==
  ATypeOK /\ MoneyConserved /\ [ANext]_avars => MoneyConserved'
  <1> SUFFICES ASSUME ATypeOK, MoneyConserved, [ANext]_avars, NEW c \in Currencies
               PROVE  SumFunctionOnSet([a \in Accounts |-> balances'[a].balance],
                                       {a \in Accounts : Cur[a] = c}) = 0
    BY DEF MoneyConserved
  <1> DEFINE C == {a \in Accounts : Cur[a] = c}
             f == [a \in Accounts |-> balances[a].balance]
             h == [a \in Accounts |-> balances'[a].balance]
  <1>1. SumFunctionOnSet(f, C) = 0
    BY DEF MoneyConserved
  <1>2. IsFiniteSet(C)
    BY AccountsAssumption, FS_Union, FS_Subset DEF Accounts
  <1>3. CASE ~\E q \in Requests : q.op = "post" /\ APostTransaction(q)
    <2>1. \A a \in Accounts : balances'[a].balance = balances[a].balance
      BY <1>3, OnlyPostsCount
    <2>2. f = h
      BY <2>1
    <2>3. QED
      BY <1>1, <2>2
  <1>4. ASSUME NEW q \in Requests, q.op = "post", APostTransaction(q)
        PROVE  SumFunctionOnSet(h, C) = 0
    <2> DEFINE g == [a \in Accounts |-> Delta(q.legs, a)]
    <2>1. q \in PostRequest
      BY <1>4, RequestsAssumption DEF PlaceHoldRequest, ReleaseHoldRequest, PostRequest
    <2>2. q.legs \in Seq(Leg) /\ ValidateEntry(q.legs) = "OK"
      BY <1>4, <2>1 DEF PostRequest, APostTransaction
    <2>3. SumFunctionOnSet(g, C) = 0
      BY <2>2, DeltasCancel
    <2>4. \A a \in Accounts : /\ f[a] \in Int /\ g[a] \in Int
                              /\ h[a] = f[a] + g[a]
      BY <1>4, PostAddsDelta
    <2>5. Summable(f, C) /\ Summable(g, C) /\ \A a \in C : h[a] = f[a] + g[a]
      BY <1>2, <2>4 DEF Summable
    <2> HIDE DEF f, g, h, C
    <2>6. SumFunctionOnSet(h, C) = SumFunctionOnSet(f, C) + SumFunctionOnSet(g, C)
      BY <2>5, SumPlus
    <2>7. QED
      BY <1>1, <2>3, <2>6
  <1>5. QED
    BY <1>3, <1>4

\* Double entry at the level of the books: no sequence of posts, captures and
\* replays creates or destroys money in any currency.
THEOREM AtomicMoneyConserved == ASpec => []MoneyConserved
  <1>1. AInit => MoneyConserved
    <2> SUFFICES ASSUME AInit, NEW c \in Currencies
                 PROVE  SumFunctionOnSet([a \in Accounts |-> balances[a].balance],
                                         {a \in Accounts : Cur[a] = c}) = 0
      BY DEF MoneyConserved
    <2> DEFINE C == {a \in Accounts : Cur[a] = c}
               f == [a \in Accounts |-> balances[a].balance]
    <2>1. IsFiniteSet(C)
      BY AccountsAssumption, FS_Union, FS_Subset DEF Accounts
    <2>2. \A a \in C : f[a] = 0
      BY DEF AInit, ZeroRow
    <2> HIDE DEF f, C
    <2>3. SumFunctionOnSet(f, C) = 0
      BY <2>1, <2>2, SumZero
    <2>4. QED
      BY <2>3 DEF f, C
  <1>2. QED
    BY <1>1, MoneyConservedStep, AtomicTypeCorrect, PTL DEF ASpec

-----------------------------------------------------------------------------
(* Events *)

\* An event is of a committed entry.
EventsHaveEntries == \A e \in outbox : entries[e.ref] # NoEntry

\* The part of EventsFollowVersions about account a, together with what makes it
\* inductive: the events add up to the balance.
EventsInOrder(a) ==
  /\ IsFiniteSet(EventsOf(a))
  /\ {e.version : e \in EventsOf(a)} = 1 .. balances[a].version
  /\ Cardinality(EventsOf(a)) = balances[a].version
  /\ balances[a].balance = SumFunctionOnSet(Posted(a), EventsOf(a))
  /\ \A e \in EventsOf(a) :
       e.balance = SumFunctionOnSet(Posted(a), {d \in EventsOf(a) : d.version <= e.version})

EventsInv == EventsHaveEntries /\ \A a \in Accounts : EventsInOrder(a)

\* A post announces the new balance of each account it touches as the next event.
LEMMA PostAppendsEvent ==
  ASSUME ATypeOK, EventsInv, NEW q \in Requests, q.op = "post", APostTransaction(q),
         NEW a \in Affected(q.legs)
  PROVE  EventsInOrder(a)'
  <1> DEFINE new == [acct |-> a, ref |-> q.ref, balance |-> balances'[a].balance,
                     version |-> balances'[a].version]
             old == EventsOf(a)
             v == balances[a].version
  <1>0. q \in PostRequest /\ q.ref \in Refs /\ q.legs \in Seq(Leg)
    BY RequestsAssumption DEF PlaceHoldRequest, ReleaseHoldRequest, PostRequest
  <1>1. a \in Accounts
    BY <1>0, ValidEntry
  <1>2. EventsInOrder(a) /\ v \in Nat
    BY <1>1 DEF EventsInv, ATypeOK, Row
  <1>3. EventsOf(a)' = old \cup {new}
    <2> DEFINE event(b) == [acct |-> b, ref |-> q.ref, balance |-> balances'[b].balance,
                            version |-> balances'[b].version]
    <2>1. outbox' = outbox \cup {event(b) : b \in Affected(q.legs)}
      BY DEF APostTransaction
    <2>2. \A b : event(b).acct = b
      OBVIOUS
    <2>3. EventsOf(a)' = {e \in outbox' : e.acct = a} /\ new = event(a)
      BY DEF EventsOf
    <2> HIDE DEF event, new
    <2>4. {e \in outbox' : e.acct = a} = {e \in outbox : e.acct = a} \cup {event(a)}
      BY <2>1, <2>2
    <2>5. QED
      BY <2>3, <2>4 DEF EventsOf
  <1>4. /\ balances'[a].version = v + 1
        /\ balances'[a].balance = balances[a].balance + Delta(q.legs, a)
        /\ Delta(q.legs, a) \in Int /\ balances[a].balance \in Int
    <2>1. balances'[a] = AppliedRow(balances[a], AHeldAdj(q, a), Delta(q.legs, a))
      BY <1>1 DEF APostTransaction
    <2>2. QED
      BY <1>1, <2>1, PostAddsDelta DEF AppliedRow
  <1>5. \A e \in old : /\ e.version \in 1 .. v
                       /\ e.ref \in Refs /\ e.ref # q.ref /\ e.acct = a
    BY <1>2, ATypeOK DEF EventsInOrder, EventsOf, EventsInv, EventsHaveEntries,
       APostTransaction, ATypeOK, Event
  <1>6. new.version = v + 1 /\ new.ref = q.ref /\ new.balance = balances'[a].balance
    BY <1>4
  <1>7. new \notin old
    BY <1>5, <1>6
  <1> DEFINE f == Posted(a)
             g == Posted(a)'
  <1>8. g[new] = Delta(q.legs, a)
    BY <1>0, <1>3, <1>6 DEF Posted, APostTransaction, ATypeOK
  <1>9. \A e \in old : f[e] = g[e] /\ g[e] \in Int
    <2> TAKE e \in old
    <2>1. e \in EventsOf(a)' /\ e.ref \in Refs /\ entries'[e.ref] = entries[e.ref]
      BY <1>3, <1>5 DEF APostTransaction, ATypeOK
    <2>2. f[e] = Delta(entries[e.ref], a) /\ g[e] = Delta(entries'[e.ref], a)
      BY <2>1 DEF Posted
    <2>3. entries[e.ref] \in Seq(Leg)
      BY <2>1 DEF ATypeOK
    <2>4. QED
      BY <2>1, <2>2, <2>3, DeltaOf
  <1>10. IsFiniteSet(old) /\ IsFiniteSet(old \cup {new})
         /\ Cardinality(old \cup {new}) = v + 1
    BY <1>2, <1>7, FS_AddElement DEF EventsInOrder
  <1>11. Summable(g, old \cup {new})
    BY <1>4, <1>8, <1>9, <1>10 DEF Summable
  <1>12. {e.version : e \in old \cup {new}} = 1 .. (v + 1)
    <2>1. {e.version : e \in old} = 1 .. v
      BY <1>2 DEF EventsInOrder
    <2>2. {e.version : e \in old \cup {new}} = {e.version : e \in old} \cup {new.version}
      OBVIOUS
    <2> HIDE DEF old, new
    <2>3. QED
      BY <1>2, <1>6, <2>1, <2>2
  <1>13. balances[a].balance = SumFunctionOnSet(f, old)
    BY <1>2 DEF EventsInOrder
  <1>14. \A e \in old : e.balance = SumFunctionOnSet(f, {d \in old : d.version <= e.version})
    BY <1>2 DEF EventsInOrder
  <1>15. new.version = v + 1 /\ new.balance = balances'[a].balance
    BY <1>4
  <1> HIDE DEF f, g, old, new, v
  <1>16. SumFunctionOnSet(g, old \cup {new}) = balances'[a].balance
    <2>1. SumFunctionOnSet(g, old \cup {new}) = g[new] + SumFunctionOnSet(g, old)
      BY <1>7, <1>11, SumAdd
    <2>2. SumFunctionOnSet(f, old) = SumFunctionOnSet(g, old)
      BY <1>9, <1>10, SumAgree
    <2>3. QED
      BY <1>4, <1>8, <1>13, <2>1, <2>2
  <1>17. ASSUME NEW e \in old \cup {new}
         PROVE  e.balance = SumFunctionOnSet(g, {d \in old \cup {new} : d.version <= e.version})
    <2> DEFINE upto == {d \in old : d.version <= e.version}
    <2>1. CASE e = new
      <3>1. {d \in old \cup {new} : d.version <= e.version} = old \cup {new}
        BY <1>2, <1>5, <1>15, <2>1
      <3>2. QED
        BY <1>15, <1>16, <2>1, <3>1
    <2>2. CASE e \in old
      <3>1. {d \in old \cup {new} : d.version <= e.version} = upto
        BY <1>2, <1>5, <1>15, <2>2
      <3>2. IsFiniteSet(upto) /\ \A d \in upto : f[d] = g[d]
        BY <1>9, <1>10, FS_Subset
      <3>3. e.balance = SumFunctionOnSet(f, upto)
        BY <1>14, <2>2
      <3> HIDE DEF upto
      <3>4. SumFunctionOnSet(f, upto) = SumFunctionOnSet(g, upto)
        BY <3>2, SumAgree
      <3>5. QED
        BY <3>1, <3>3, <3>4
    <2>3. QED
      BY <2>1, <2>2
  <1>18. QED
    BY <1>3, <1>4, <1>10, <1>12, <1>16, <1>17 DEF EventsInOrder, g, v

\* Every step keeps the events of every account in order.
LEMMA EventsStep == ATypeOK /\ EventsInv /\ [ANext]_avars => EventsInv'
  <1> SUFFICES ASSUME ATypeOK, EventsInv, [ANext]_avars
               PROVE  EventsInv'
    OBVIOUS
  <1>1. ASSUME outbox' = outbox, entries' = entries,
               \A a \in Accounts : /\ balances'[a].balance = balances[a].balance
                                   /\ balances'[a].version = balances[a].version
        PROVE  EventsInv'
    <2>1. EventsHaveEntries'
      BY <1>1 DEF EventsInv, EventsHaveEntries
    <2>2. ASSUME NEW a \in Accounts
          PROVE  EventsInOrder(a)'
      <3>1. EventsOf(a)' = EventsOf(a) /\ Posted(a)' = Posted(a)
        BY <1>1 DEF EventsOf, Posted
      <3>2. EventsInOrder(a)
        BY DEF EventsInv
      <3>3. QED
        BY <1>1, <3>1, <3>2 DEF EventsInOrder
    <2>3. QED
      BY <2>1, <2>2 DEF EventsInv
  <1>2. ASSUME NEW q \in Requests, q.op = "post", APostTransaction(q)
        PROVE  EventsInv'
    <2>0. q \in PostRequest /\ q.ref \in Refs /\ q.legs \in Seq(Leg)
      BY <1>2, RequestsAssumption DEF PlaceHoldRequest, ReleaseHoldRequest, PostRequest
    <2>1. /\ entries' = [entries EXCEPT ![q.ref] = q.legs]
          /\ entries[q.ref] = NoEntry /\ q.legs # NoEntry
      BY <1>2, <2>0, ValidEntry DEF APostTransaction
    <2> DEFINE event(b) == [acct |-> b, ref |-> q.ref, balance |-> balances'[b].balance,
                            version |-> balances'[b].version]
    <2>2. outbox' = outbox \cup {event(b) : b \in Affected(q.legs)}
      BY <1>2 DEF APostTransaction
    <2>3. \A b : event(b).acct = b /\ event(b).ref = q.ref
      OBVIOUS
    <2>4. \A e \in outbox : e.ref \in Refs /\ entries[e.ref] # NoEntry
      BY DEF EventsInv, EventsHaveEntries, ATypeOK, Event
    <2> HIDE DEF event
    <2>5. EventsHaveEntries'
      <3>1. ASSUME NEW e \in outbox'
            PROVE  entries'[e.ref] # NoEntry
        BY <2>0, <2>1, <2>2, <2>3, <2>4 DEF ATypeOK
      <3>2. QED
        BY <3>1 DEF EventsHaveEntries
    <2>6. ASSUME NEW a \in Accounts, a \notin Affected(q.legs)
          PROVE  EventsInOrder(a)'
      <3>1. EventsOf(a)' = EventsOf(a)
        BY <2>2, <2>3, <2>6 DEF EventsOf
      <3>2. \A e \in EventsOf(a) : entries'[e.ref] = entries[e.ref]
        BY <2>0, <2>1, <2>4 DEF EventsOf, ATypeOK
      <3>3. Posted(a)' = Posted(a)
        BY <3>1, <3>2 DEF Posted
      <3>4. balances'[a] = balances[a]
        BY <1>2, <2>6 DEF APostTransaction
      <3>5. EventsInOrder(a)
        BY DEF EventsInv
      <3>6. QED
        BY <3>1, <3>3, <3>4, <3>5 DEF EventsInOrder
    <2>7. QED
      BY <1>2, <2>5, <2>6, PostAppendsEvent DEF EventsInv
  <1>3. QED
    BY <1>1, <1>2, OnlyPostsCount

\* Invariant 5, which the projections of the account service and the scorer rely
\* on: the TransactionPosted events of an account carry the versions 1, 2, 3, ...
\* without gap or repetition, each with the balance after the postings so far.
THEOREM AtomicEventsFollowVersions == ASpec => []EventsFollowVersions
  <1>1. AInit => EventsInv
    <2> SUFFICES ASSUME AInit
                 PROVE  EventsInv
      OBVIOUS
    <2>1. EventsHaveEntries
      BY DEF AInit, EventsHaveEntries
    <2>2. ASSUME NEW a \in Accounts
          PROVE  EventsInOrder(a)
      <3>1. EventsOf(a) = {}
        BY DEF AInit, EventsOf
      <3>2. balances[a].balance = 0 /\ balances[a].version = 0
        BY DEF AInit, ZeroRow
      <3>3. IsFiniteSet({}) /\ Cardinality({}) = 0
        BY FS_EmptySet
      <3>4. SumFunctionOnSet(Posted(a), {}) = 0
        BY SumEmpty
      <3>5. 1 .. 0 = {}
        OBVIOUS
      <3>6. QED
        BY <3>1, <3>2, <3>3, <3>4, <3>5 DEF EventsInOrder
    <2>3. QED
      BY <2>1, <2>2 DEF EventsInv
  <1>2. EventsInv => EventsFollowVersions
    BY DEF EventsInv, EventsInOrder, EventsFollowVersions
  <1>3. QED
    BY <1>1, <1>2, EventsStep, AtomicTypeCorrect, PTL DEF ASpec

-----------------------------------------------------------------------------
(* Reservations *)

\* What the active holds of an account reserve is an integer.
LEMMA ActiveSumType ==
  ASSUME ATypeOK, NEW a
  PROVE  /\ Summable([r \in ActiveHolds(a) |-> holds[r].amount], ActiveHolds(a))
         /\ ActiveSum(a) \in Int
  <1> DEFINE S == ActiveHolds(a)
             f == [r \in S |-> holds[r].amount]
  <1>1. IsFiniteSet(S)
    BY RefsAssumption, FS_Subset DEF ActiveHolds
  <1>2. \A r \in S : holds[r] \in Hold
    BY DEF ActiveHolds, ATypeOK, NoHold
  <1>3. \A r \in S : f[r] \in Int
    BY <1>2, HalfAssumption DEF Hold
  <1>4. Summable(f, S)
    BY <1>1, <1>3 DEF Summable
  <1> HIDE DEF f, S
  <1>5. SumFunctionOnSet(f, S) \in Int
    BY <1>4, SumType
  <1>6. QED
    BY <1>4, <1>5 DEF f, S, ActiveSum

\* A hold that is released or captured no longer reserves its amount.
LEMMA EndedHold ==
  ASSUME ATypeOK, ATypeOK', NEW r \in Refs, holds[r].status = "active",
         NEW s \in {"captured", "released"}, holds' = [holds EXCEPT ![r].status = s],
         NEW a \in Accounts
  PROVE  ActiveSum(a)' = IF a = holds[r].acct THEN ActiveSum(a) - holds[r].amount
                         ELSE ActiveSum(a)
  <1> DEFINE S == ActiveHolds(a)
             T == ActiveHolds(a)'
             f == [x \in S |-> holds[x].amount]
             g == [x \in T |-> holds'[x].amount]
  <1>1. holds[r] \in Hold
    BY DEF ATypeOK, NoHold
  <1>2. /\ holds'[r].status = s /\ \A x \in Refs : x # r => holds'[x] = holds[x]
    BY <1>1 DEF ATypeOK, Hold
  <1>3. T = S \ {r} /\ (a = holds[r].acct <=> r \in S)
    BY <1>2 DEF ActiveHolds
  <1>4. \A x \in T : g[x] = f[x]
    BY <1>2, <1>3 DEF ActiveHolds
  <1>5. Summable(f, S) /\ ActiveSum(a) = SumFunctionOnSet(f, S) /\ ActiveSum(a) \in Int
    BY ActiveSumType DEF ActiveSum
  <1>6. ActiveSum(a)' = SumFunctionOnSet(g, T)
    BY DEF ActiveSum
  <1>7. IsFiniteSet(T)
    BY <1>3, <1>5, FS_Subset DEF Summable
  <1>8. r \in S => f[r] = holds[r].amount
    OBVIOUS
  <1>9. holds[r].amount \in Int
    BY <1>1, HalfAssumption DEF Hold
  <1> HIDE DEF S, T, f, g
  <1>10. SumFunctionOnSet(g, T) = SumFunctionOnSet(f, T)
    BY <1>4, <1>7, SumAgree
  <1>11. CASE r \in S
    <2>1. SumFunctionOnSet(f, S) = f[r] + SumFunctionOnSet(f, T)
      BY <1>3, <1>5, <1>11, SumRemove
    <2>2. SumFunctionOnSet(f, T) \in Int
      <3>1. Summable(f, T)
        BY <1>3, <1>5, <1>7 DEF Summable
      <3>2. QED
        BY <3>1, SumType
    <2>3. QED
      BY <1>3, <1>5, <1>6, <1>8, <1>9, <1>10, <1>11, <2>1, <2>2
  <1>12. CASE r \notin S
    <2>1. T = S
      BY <1>3, <1>12
    <2>2. QED
      BY <1>3, <1>5, <1>6, <1>10, <1>12, <2>1
  <1>13. QED
    BY <1>11, <1>12

\* A hold that is placed reserves its amount.
LEMMA PlacedHold ==
  ASSUME ATypeOK, ATypeOK', NEW r \in Refs, holds[r] = NoHold,
         NEW h \in Hold, h.status = "active", holds' = [holds EXCEPT ![r] = h],
         NEW a \in Accounts
  PROVE  ActiveSum(a)' = IF a = h.acct THEN ActiveSum(a) + h.amount ELSE ActiveSum(a)
  <1> DEFINE S == ActiveHolds(a)
             T == ActiveHolds(a)'
             f == [x \in S |-> holds[x].amount]
             g == [x \in T |-> holds'[x].amount]
  <1>1. /\ holds'[r] = h /\ \A x \in Refs : x # r => holds'[x] = holds[x]
    BY DEF ATypeOK
  <1>2. holds[r].status = "none"
    BY DEF NoHold
  <1>3. T = (IF a = h.acct THEN S \cup {r} ELSE S) /\ r \notin S
    BY <1>1, <1>2 DEF ActiveHolds
  <1>4. \A x \in S : g[x] = f[x]
    BY <1>1, <1>3 DEF ActiveHolds
  <1>5. Summable(f, S) /\ ActiveSum(a) = SumFunctionOnSet(f, S) /\ ActiveSum(a) \in Int
    BY ActiveSumType DEF ActiveSum
  <1>6. ActiveSum(a)' = SumFunctionOnSet(g, T)
    BY DEF ActiveSum
  <1>7. a = h.acct => g[r] = h.amount
    BY <1>1, <1>3
  <1>8. h.amount \in Int
    BY HalfAssumption DEF Hold
  <1> HIDE DEF S, T, f, g
  <1>9. IsFiniteSet(S)
    BY <1>5 DEF Summable
  <1>10. SumFunctionOnSet(g, S) = SumFunctionOnSet(f, S)
    BY <1>4, <1>9, SumAgree
  <1>11. CASE a = h.acct
    <2>1. IsFiniteSet(S \cup {r})
      BY <1>9, FS_AddElement
    <2>2. Summable(g, S \cup {r})
      BY <1>4, <1>5, <1>7, <1>8, <1>11, <2>1 DEF Summable
    <2>3. SumFunctionOnSet(g, S \cup {r}) = g[r] + SumFunctionOnSet(g, S)
      BY <1>3, <2>2, SumAdd
    <2>4. QED
      BY <1>3, <1>5, <1>6, <1>7, <1>8, <1>10, <1>11, <2>3
  <1>12. CASE a # h.acct
    BY <1>3, <1>5, <1>6, <1>10, <1>12
  <1>13. QED
    BY <1>11, <1>12

\* The part of the held column that no active hold accounts for.
Slack(a) == balances[a].held - ActiveSum(a)

\* A capture whose entry does not touch the account of the hold.
StrayCapture(q, a) ==
  /\ q.op = "post" /\ APostTransaction(q)
  /\ q.hold # NoRef /\ holds[q.hold].acct = a /\ a \notin Affected(q.legs)

\* Placing, releasing, sweeping and capturing move the held column and the active
\* holds together, except for the stray capture, which leaves the held column too high.
LEMMA SlackStep ==
  ASSUME ATypeOK, NoOverdraft, [ANext]_avars, NEW a \in Accounts
  PROVE  \/ Slack(a)' = Slack(a)
         \/ /\ Slack(a)' \in Int /\ Slack(a)' >= Slack(a)
            /\ \E q \in Requests : StrayCapture(q, a)
  <1> DEFINE held == balances[a].held
             Goal == \/ Slack(a)' = Slack(a)
                     \/ /\ Slack(a)' \in Int /\ Slack(a)' >= Slack(a)
                        /\ \E q \in Requests : StrayCapture(q, a)
  <1>1. ATypeOK'
    BY AtomicTypeStep
  <1>2. held \in Int /\ held' \in Int /\ held >= 0
    BY <1>1, HalfAssumption DEF ATypeOK, Row, Int64, NoOverdraft
  <1>3. ActiveSum(a) \in Int
    BY ActiveSumType
  <1>4. Slack(a) = held - ActiveSum(a) /\ Slack(a)' = held' - ActiveSum(a)' /\ Slack(a) \in Int
    BY <1>2, <1>3 DEF Slack
  <1>5. ASSUME UNCHANGED <<balances, holds>>
        PROVE  Goal
    <2>1. ActiveSum(a)' = ActiveSum(a)
      BY <1>5 DEF ActiveSum, ActiveHolds
    <2>2. QED
      BY <1>5, <2>1 DEF Slack
  <1>6. ASSUME NEW r \in Refs, AReleaseHold(r)
        PROVE  Slack(a)' = Slack(a)
    <2>1. holds[r] \in Hold /\ holds[r].amount \in Int
      BY <1>6, HalfAssumption DEF AReleaseHold, ATypeOK, NoHold, Hold
    <2>2. ActiveSum(a)' = IF a = holds[r].acct THEN ActiveSum(a) - holds[r].amount
                          ELSE ActiveSum(a)
      BY <1>1, <1>6, EndedHold DEF AReleaseHold
    <2>3. balances'[a] = IF a = holds[r].acct THEN ReleasedRow(balances[a], holds[r].amount)
                         ELSE balances[a]
      BY <1>6 DEF AReleaseHold, ATypeOK
    <2>4. held' = IF a = holds[r].acct THEN held - holds[r].amount ELSE held
      BY <2>3 DEF ReleasedRow
    <2> HIDE DEF held
    <2>5. QED
      BY <1>2, <1>3, <1>4, <2>1, <2>2, <2>4
  <1>7. ASSUME NEW q \in Requests, q.op = "place", APlaceHold(q)
        PROVE  Slack(a)' = Slack(a)
    <2> DEFINE h == [acct |-> q.acct, amount |-> q.amount, status |-> "active"]
    <2>1. q \in PlaceHoldRequest
      BY <1>7, RequestsAssumption DEF PlaceHoldRequest, ReleaseHoldRequest, PostRequest
    <2>2. q.acct \in Accounts /\ q.ref \in Refs /\ q.amount \in Int64
      BY <2>1 DEF PlaceHoldRequest
    <2>3. balances[q.acct] \in Row
      BY <2>2 DEF ATypeOK
    <2>4. q.amount \in 1 .. (Half - 1)
      BY <1>7, <2>2, <2>3, HeldRowType DEF APlaceHold
    <2>5. h \in Hold /\ h.status = "active" /\ h.acct = q.acct /\ h.amount = q.amount
      BY <2>2, <2>4 DEF Hold, HoldStatus
    <2>6. holds[q.ref] = NoHold /\ holds' = [holds EXCEPT ![q.ref] = h]
      BY <1>7 DEF APlaceHold
    <2> HIDE DEF h
    <2>7. ActiveSum(a)' = IF a = h.acct THEN ActiveSum(a) + h.amount ELSE ActiveSum(a)
      BY <1>1, <2>2, <2>5, <2>6, PlacedHold
    <2>8. balances'[a] = IF a = q.acct THEN HeldRow(balances[a], q.amount) ELSE balances[a]
      BY <1>7 DEF APlaceHold, ATypeOK
    <2>9. a = q.acct => Wrap(held + q.amount) >= 0
      BY <1>7 DEF APlaceHold, HeldRow
    <2>10. held \in Int64
      BY DEF ATypeOK, Row
    <2>11. held' = IF a = q.acct THEN Wrap(held + q.amount) ELSE held
      BY <2>8 DEF HeldRow
    <2> HIDE DEF held
    <2>12. a = q.acct => Wrap(held + q.amount) = held + q.amount
      BY <1>2, <2>4, <2>9, <2>10, HalfAssumption DEF Wrap, Int64
    <2>13. QED
      BY <1>2, <1>3, <1>4, <2>4, <2>5, <2>7, <2>11, <2>12, HalfAssumption
  <1>8. ASSUME NEW q \in Requests, q.op = "post", APostTransaction(q)
        PROVE  Goal
    <2>1. q \in PostRequest /\ q.hold \in Refs \cup {NoRef} /\ q.legs \in Seq(Leg)
      BY <1>8, RequestsAssumption DEF PlaceHoldRequest, ReleaseHoldRequest, PostRequest
    <2>2. held' = IF a \in Affected(q.legs) THEN held + AHeldAdj(q, a) ELSE held
      <3>1. balances'[a] = IF a \in Affected(q.legs)
                           THEN AppliedRow(balances[a], AHeldAdj(q, a), Delta(q.legs, a))
                           ELSE balances[a]
        BY <1>8 DEF APostTransaction
      <3>2. QED
        BY <3>1 DEF AppliedRow
    <2>3. CASE q.hold = NoRef
      <3>1. holds' = holds /\ AHeldAdj(q, a) = 0
        BY <1>8, <2>3 DEF APostTransaction, AHeldAdj
      <3>2. ActiveSum(a)' = ActiveSum(a)
        BY <3>1 DEF ActiveSum, ActiveHolds
      <3> HIDE DEF held
      <3>3. Slack(a)' = Slack(a)
        BY <1>2, <1>3, <1>4, <2>2, <3>1, <3>2
      <3>4. QED
        BY <3>3
    <2>4. CASE q.hold # NoRef
      <3> DEFINE r == q.hold
      <3>1. /\ r \in Refs /\ holds[r].status = "active"
            /\ holds' = [holds EXCEPT ![r].status = "captured"]
        BY <1>8, <2>1, <2>4 DEF APostTransaction, CaptureHold
      <3>2. holds[r] \in Hold /\ holds[r].amount \in Int /\ holds[r].amount > 0
        BY <3>1, HalfAssumption DEF ATypeOK, NoHold, Hold
      <3>3. ActiveSum(a)' = IF a = holds[r].acct THEN ActiveSum(a) - holds[r].amount
                            ELSE ActiveSum(a)
        BY <1>1, <3>1, EndedHold
      <3>4. AHeldAdj(q, a) = IF a = holds[r].acct THEN -holds[r].amount ELSE 0
        BY <2>4 DEF AHeldAdj
      <3> HIDE DEF held, r
      <3>5. CASE a \in Affected(q.legs) \/ a # holds[r].acct
        <4>1. Slack(a)' = Slack(a)
          BY <1>2, <1>3, <1>4, <2>2, <3>2, <3>3, <3>4, <3>5
        <4>2. QED
          BY <4>1
      <3>6. CASE a \notin Affected(q.legs) /\ a = holds[r].acct
        <4>1. Slack(a)' \in Int /\ Slack(a)' >= Slack(a)
          BY <1>2, <1>3, <1>4, <2>2, <3>2, <3>3, <3>4, <3>6
        <4>2. StrayCapture(q, a)
          BY <1>8, <2>4, <3>6 DEF StrayCapture, r
        <4>3. QED
          BY <4>1, <4>2
      <3>7. QED
        BY <3>5, <3>6
    <2>5. QED
      BY <2>3, <2>4
  <1>9. CASE UNCHANGED avars
    BY <1>5, <1>9 DEF avars
  <1>10. ASSUME NEW b \in Customers, ACreateAccount(b)
         PROVE  Goal
    BY <1>5, <1>10 DEF ACreateAccount
  <1>11. ASSUME NEW r \in Refs, AExpire(r)
         PROVE  Goal
    BY <1>5, <1>11 DEF AExpire
  <1>12. QED
    BY <1>6, <1>7, <1>8, <1>9, <1>10, <1>11 DEF ANext

\* Nothing an active hold reserves is ever available to somebody else, whatever
\* entry captures a hold: the held column covers the active holds.
HeldCoversActiveHolds == \A a \in Accounts : balances[a].held >= ActiveSum(a)

\* Before the first step nothing is reserved.
LEMMA NothingHeldAtFirst == AInit => \A a \in Accounts : Slack(a) = 0
  <1> SUFFICES ASSUME AInit, NEW a \in Accounts
               PROVE  Slack(a) = 0
    OBVIOUS
  <1>1. ActiveHolds(a) = {}
    BY DEF AInit, ActiveHolds, NoHold
  <1>2. ActiveSum(a) = 0
    BY <1>1, SumEmpty DEF ActiveSum
  <1>3. QED
    BY <1>2 DEF AInit, ZeroRow, Slack

\* The slack of an account is the difference the two properties speak of.
LEMMA SlackIs ==
  ASSUME ATypeOK, NEW a \in Accounts
  PROVE  /\ Slack(a) \in Int
         /\ Slack(a) >= 0 <=> balances[a].held >= ActiveSum(a)
         /\ Slack(a) = 0 <=> balances[a].held = ActiveSum(a)
  <1>1. ActiveSum(a) \in Int
    BY ActiveSumType
  <1>2. balances[a].held \in Int
    BY HalfAssumption DEF ATypeOK, Row, Int64
  <1>3. QED
    BY <1>1, <1>2 DEF Slack

\* The reservation of an active hold is never lost: PlaceHold, ReleaseHold, the
\* sweeper and captures leave at least the sum of the active holds in held.
THEOREM AtomicHeldCovers == ASpec => []HeldCoversActiveHolds
  <1> DEFINE Inv == \A a \in Accounts : Slack(a) >= 0
  <1>1. AInit => Inv
    BY NothingHeldAtFirst
  <1>2. ATypeOK /\ NoOverdraft /\ Inv /\ [ANext]_avars => Inv'
    <2> SUFFICES ASSUME ATypeOK, NoOverdraft, Inv, [ANext]_avars, NEW a \in Accounts
                 PROVE  Slack(a)' >= 0
      OBVIOUS
    <2>1. Slack(a) \in Int /\ Slack(a) >= 0
      BY SlackIs
    <2>2. \/ Slack(a)' = Slack(a)
          \/ Slack(a)' \in Int /\ Slack(a)' >= Slack(a)
      BY SlackStep
    <2>3. QED
      BY <2>1, <2>2
  <1>3. ATypeOK /\ Inv => HeldCoversActiveHolds
    BY SlackIs DEF HeldCoversActiveHolds
  <1>4. QED
    BY <1>1, <1>2, <1>3, AtomicTypeCorrect, AtomicNoOverdraft, PTL DEF ASpec

\* The callers' obligation: an entry that captures a hold has a posting on the
\* account the hold was placed on.  The saga's do (it captures the payer's hold
\* with the entry that debits the payer); PostTransaction does not ask for it.
CapturesTouchTheirHold ==
  \A p, q \in Requests :
    (p.op = "place" /\ q.op = "post" /\ q.hold = p.ref) => p.acct \in Affected(q.legs)

\* A hold is on the account of a request that placed it.
HoldsAreRequested ==
  \A r \in Refs : holds[r] # NoHold =>
    \E p \in Requests : p.op = "place" /\ p.ref = r /\ p.acct = holds[r].acct

\* A step leaves every hold as it is, ends it, or inserts it for a request.
LEMMA HoldsRequestedStep ==
  ATypeOK /\ HoldsAreRequested /\ [ANext]_avars => HoldsAreRequested'
  <1> SUFFICES ASSUME ATypeOK, HoldsAreRequested, [ANext]_avars
               PROVE  HoldsAreRequested'
    OBVIOUS
  <1>1. ASSUME UNCHANGED holds
        PROVE  HoldsAreRequested'
    BY <1>1 DEF HoldsAreRequested
  <1>2. ASSUME NEW r \in Refs, holds[r] # NoHold, NEW s,
               holds' = [holds EXCEPT ![r].status = s]
        PROVE  HoldsAreRequested'
    <2>1. holds[r] \in Hold
      BY <1>2 DEF ATypeOK
    <2>2. holds'[r].acct = holds[r].acct /\ \A x \in Refs : x # r => holds'[x] = holds[x]
      BY <1>2, <2>1 DEF ATypeOK, Hold
    <2>3. \A x \in Refs : holds'[x] # NoHold =>
            holds[x] # NoHold /\ holds'[x].acct = holds[x].acct
      BY <1>2, <2>2
    <2>4. QED
      BY <2>3 DEF HoldsAreRequested
  <1>3. ASSUME NEW r \in Refs, AReleaseHold(r)
        PROVE  HoldsAreRequested'
    <2>1. holds[r] # NoHold
      BY <1>3 DEF AReleaseHold, NoHold
    <2>2. holds' = [holds EXCEPT ![r].status = "released"]
      BY <1>3 DEF AReleaseHold
    <2>3. QED
      BY <1>2, <2>1, <2>2
  <1>4. ASSUME NEW q \in Requests, q.op = "place", APlaceHold(q)
        PROVE  HoldsAreRequested'
    <2>1. q.ref \in Refs
      BY <1>4, RequestsAssumption DEF PlaceHoldRequest, ReleaseHoldRequest, PostRequest
    <2>2. holds'[q.ref].acct = q.acct /\ \A x \in Refs : x # q.ref => holds'[x] = holds[x]
      BY <1>4, <2>1 DEF APlaceHold, ATypeOK
    <2>3. QED
      BY <1>4, <2>2 DEF HoldsAreRequested
  <1>5. ASSUME NEW q \in Requests, q.op = "post", APostTransaction(q)
        PROVE  HoldsAreRequested'
    <2>1. q.hold \in Refs \cup {NoRef}
      BY <1>5, RequestsAssumption DEF PlaceHoldRequest, ReleaseHoldRequest, PostRequest
    <2>2. QED
      BY <1>1, <1>2, <1>5, <2>1 DEF APostTransaction
  <1>6. ASSUME NEW b \in Customers, ACreateAccount(b)
        PROVE  HoldsAreRequested'
    BY <1>1, <1>6 DEF ACreateAccount
  <1>7. ASSUME NEW r \in Refs, AExpire(r)
        PROVE  HoldsAreRequested'
    BY <1>1, <1>7 DEF AExpire
  <1>8. CASE UNCHANGED avars
    BY <1>1, <1>8 DEF avars
  <1>9. QED
    BY <1>3, <1>4, <1>5, <1>6, <1>7, <1>8 DEF ANext

\* The held column is exactly the sum of the account's active holds, as long as
\* callers capture a hold with an entry that touches its account.
THEOREM AtomicHeldIsActiveHolds ==
  CapturesTouchTheirHold => (ASpec => []HeldIsActiveHolds)
  <1> SUFFICES ASSUME CapturesTouchTheirHold
               PROVE  ASpec => []HeldIsActiveHolds
    OBVIOUS
  <1> DEFINE Inv == HoldsAreRequested /\ \A a \in Accounts : Slack(a) = 0
  <1>1. AInit => Inv
    BY NothingHeldAtFirst DEF AInit, HoldsAreRequested
  <1>2. ATypeOK /\ NoOverdraft /\ Inv /\ [ANext]_avars => Inv'
    <2> SUFFICES ASSUME ATypeOK, NoOverdraft, Inv, [ANext]_avars, NEW a \in Accounts
                 PROVE  Slack(a)' = 0
      BY HoldsRequestedStep
    <2>1. ASSUME NEW q \in Requests, StrayCapture(q, a)
          PROVE  FALSE
      <3>1. q.hold \in Refs \cup {NoRef}
        BY <2>1, RequestsAssumption
        DEF PlaceHoldRequest, ReleaseHoldRequest, PostRequest, StrayCapture
      <3>2. q.hold \in Refs /\ holds[q.hold] # NoHold
        BY <2>1, <3>1 DEF StrayCapture, APostTransaction
      <3>3. PICK p \in Requests : /\ p.op = "place" /\ p.ref = q.hold
                                  /\ p.acct = holds[q.hold].acct
        BY <3>2 DEF HoldsAreRequested
      <3>4. QED
        BY <2>1, <3>3 DEF CapturesTouchTheirHold, StrayCapture
    <2>2. Slack(a)' = Slack(a)
      BY <2>1, SlackStep
    <2>3. QED
      BY <2>2
  <1>3. ATypeOK /\ Inv => HeldIsActiveHolds
    BY SlackIs DEF HeldIsActiveHolds
  <1>4. QED
    BY <1>1, <1>2, <1>3, AtomicTypeCorrect, AtomicNoOverdraft, PTL DEF ASpec

-----------------------------------------------------------------------------
(* Captures *)

\* The entry that captured hold r debits its account by no more than the hold.
WithinHold(r) ==
  holds[r].status = "captured" => Delta(entries[r], holds[r].acct) >= -holds[r].amount

\* A captured hold has the entry of its reference.
CapturedHaveEntries ==
  \A r \in Refs : holds[r].status = "captured" => entries[r] # NoEntry

\* A delta that CaptureHold's negation does not represent, on the account of a hold.
MinimalDebit(q) ==
  /\ q.op = "post" /\ q.hold # NoRef
  /\ \E a \in Affected(q.legs) \cap Internals : Delta(q.legs, a) = -Half

\* A capture debits no more than the hold, unless it debits an internal account by
\* the minimal int64; a customer's balance cannot.
LEMMA CaptureStep ==
  ASSUME ATypeOK, NoOverdraft', CapturedHaveEntries, [ANext]_avars, NEW r \in Refs
  PROVE  /\ holds'[r].status = "captured" => entries'[r] # NoEntry
         /\ \/ holds'[r] = holds[r] /\ entries'[r] = entries[r]
            \/ WithinHold(r)'
            \/ holds'[r].acct \in Internals /\ \E q \in Requests : MinimalDebit(q)
  <1> DEFINE Goal ==
        /\ holds'[r].status = "captured" => entries'[r] # NoEntry
        /\ \/ holds'[r] = holds[r] /\ entries'[r] = entries[r]
           \/ WithinHold(r)'
           \/ holds'[r].acct \in Internals /\ \E q \in Requests : MinimalDebit(q)
  <1>1. ASSUME entries'[r] = entries[r], holds'[r] = holds[r]
        PROVE  Goal
    BY <1>1 DEF CapturedHaveEntries
  <1>2. ASSUME holds'[r].status # "captured"
        PROVE  Goal
    BY <1>2 DEF WithinHold
  <1>3. ASSUME NEW s \in Refs, AReleaseHold(s)
        PROVE  Goal
    <2>1. holds[s] \in Hold
      BY <1>3 DEF AReleaseHold, ATypeOK, NoHold
    <2>2. entries' = entries /\ (r # s => holds'[r] = holds[r])
          /\ (r = s => holds'[r].status = "released")
      BY <1>3, <2>1 DEF AReleaseHold, ATypeOK, Hold
    <2>3. QED
      BY <1>1, <1>2, <2>2
  <1>4. ASSUME NEW q \in Requests, q.op = "place", APlaceHold(q)
        PROVE  Goal
    <2>1. entries' = entries /\ (r # q.ref => holds'[r] = holds[r])
          /\ (r = q.ref => holds'[r].status = "active")
      BY <1>4 DEF APlaceHold, ATypeOK
    <2>2. QED
      BY <1>1, <1>2, <2>1
  <1>5. ASSUME NEW q \in Requests, q.op = "post", APostTransaction(q)
        PROVE  Goal
    <2>1. q \in PostRequest /\ q.ref \in Refs /\ q.hold \in Refs \cup {NoRef} /\ q.legs \in Seq(Leg)
      BY <1>5, RequestsAssumption DEF PlaceHoldRequest, ReleaseHoldRequest, PostRequest
    <2>2. entries[q.ref] = NoEntry /\ entries' = [entries EXCEPT ![q.ref] = q.legs]
          /\ q.legs # NoEntry /\ (q.hold # NoRef => q.hold = q.ref)
      BY <1>5, <2>1, ValidEntry DEF APostTransaction
    <2>3. CASE r # q.ref
      <3>1. holds'[r] = holds[r]
        BY <1>5, <2>1, <2>2, <2>3 DEF APostTransaction, ATypeOK
      <3>2. QED
        BY <1>1, <2>2, <2>3, <3>1
    <2>4. CASE r = q.ref /\ q.hold = NoRef
      <3>1. holds'[r] = holds[r] /\ holds[r].status # "captured"
        BY <1>5, <2>2, <2>4 DEF APostTransaction, CapturedHaveEntries
      <3>2. QED
        BY <1>2, <3>1
    <2>5. CASE r = q.ref /\ q.hold = r
      <3> DEFINE h == holds[r]
                 d == Delta(q.legs, h.acct)
      <3>1. h.status = "active" /\ CaptureHold(h, q.legs) = "OK" /\ r # NoRef
            /\ holds' = [holds EXCEPT ![r].status = "captured"]
        BY <1>5, <2>5, RefsAssumption DEF APostTransaction, CaptureHold
      <3>2. h \in Hold
        BY <3>1 DEF ATypeOK, NoHold
      <3>3. holds'[r].acct = h.acct /\ holds'[r].amount = h.amount
        BY <3>1, <3>2 DEF ATypeOK, Hold
      <3>4. entries'[r] = q.legs
        BY <2>2, <2>5 DEF ATypeOK
      <3>5. d \in Int /\ (h.acct \notin Affected(q.legs) => d = 0)
            /\ (h.acct \in Affected(q.legs) => d \in Int64)
        BY <1>5, <2>1, DeltaOf, ValidEntry DEF APostTransaction
      <3>6. h.amount \in Int /\ h.amount > 0 /\ h.acct \in Accounts
        BY <3>2, HalfAssumption DEF Hold
      <3>7. (IF d < 0 THEN Wrap(-d) ELSE 0) <= h.amount
        <4>1. ~((IF d < 0 THEN Wrap(-d) ELSE 0) > h.amount)
          BY <3>1 DEF CaptureHold
        <4>2. (IF d < 0 THEN Wrap(-d) ELSE 0) \in Int
          BY <3>5, HalfAssumption DEF Wrap
        <4>3. QED
          BY <3>6, <4>1, <4>2
      <3>8. ASSUME h.acct \in Customers, h.acct \in Affected(q.legs), d = -Half
            PROVE  FALSE
        <4> DEFINE old == balances[h.acct].balance
                   new == balances'[h.acct].balance
        <4>1. old \in Int64 /\ new = old + d
          BY <1>5, <3>6, PostAddsDelta DEF ATypeOK, Row
        <4>2. ATypeOK'
          BY AtomicTypeStep
        <4>3. balances'[h.acct].held \in Int /\ new \in Int
          BY <3>6, <4>2, HalfAssumption DEF ATypeOK, Row, Int64
        <4>4. balances'[h.acct].held >= 0 /\ new - balances'[h.acct].held >= 0
          BY <3>6, <3>8 DEF NoOverdraft
        <4> HIDE DEF d, new, old
        <4>5. new >= 0
          BY <4>3, <4>4
        <4>6. QED
          BY <3>8, <4>1, <4>3, <4>5, HalfAssumption DEF Int64
      <3>9. CASE h.acct \in Affected(q.legs) /\ d = -Half
        <4>1. h.acct \in Internals
          BY <3>6, <3>8, <3>9 DEF Accounts
        <4>2. MinimalDebit(q)
          BY <1>5, <2>5, <3>1, <3>9, <4>1 DEF MinimalDebit
        <4>3. QED
          BY <2>2, <2>5, <3>3, <3>4, <4>1, <4>2
      <3>10. CASE ~(h.acct \in Affected(q.legs) /\ d = -Half)
        <4> HIDE DEF d, h
        <4>1. d >= -h.amount
          <5>1. CASE d >= 0
            BY <3>5, <3>6, <5>1
          <5>2. CASE d < 0
            <6>1. d \in Int64 /\ d # -Half
              BY <3>5, <3>10, <5>2
            <6>2. Wrap(-d) = -d
              BY <5>2, <6>1, HalfAssumption DEF Wrap, Int64
            <6>3. QED
              BY <3>5, <3>6, <3>7, <5>2, <6>2
          <5>3. QED
            BY <3>5, <5>1, <5>2
        <4>2. WithinHold(r)'
          BY <3>3, <3>4, <4>1 DEF WithinHold, d, h
        <4>3. QED
          BY <2>2, <3>4, <4>2
      <3>11. QED
        BY <3>9, <3>10
    <2>6. QED
      BY <2>1, <2>2, <2>3, <2>4, <2>5
  <1>6. ASSUME NEW b \in Customers, ACreateAccount(b)
        PROVE  Goal
    BY <1>1, <1>6 DEF ACreateAccount
  <1>7. ASSUME NEW s \in Refs, AExpire(s)
        PROVE  Goal
    BY <1>1, <1>7 DEF AExpire
  <1>8. CASE UNCHANGED avars
    BY <1>1, <1>8 DEF avars
  <1>9. Goal
    BY <1>3, <1>4, <1>5, <1>6, <1>7, <1>8 DEF ANext
  <1>10. QED
    BY <1>9, Zenon

\* Invariant 7 where it protects a customer.
CustomerCaptureWithinHold ==
  \A r \in Refs : holds[r].acct \in Customers => WithinHold(r)

\* Invariant 7, for every request there may be: no entry that captures a customer's
\* hold takes more from the account than the hold, at any integer width.
THEOREM AtomicCustomerCapture == ASpec => []CustomerCaptureWithinHold
  <1> DEFINE Inv == CapturedHaveEntries /\ CustomerCaptureWithinHold
  <1>1. AInit => Inv
    BY DEF AInit, CapturedHaveEntries, CustomerCaptureWithinHold, WithinHold, NoHold
  <1>2. ATypeOK /\ NoOverdraft /\ NoOverdraft' /\ Inv /\ [ANext]_avars => Inv'
    <2> SUFFICES ASSUME ATypeOK, NoOverdraft', Inv, [ANext]_avars, NEW r \in Refs
                 PROVE  /\ holds'[r].status = "captured" => entries'[r] # NoEntry
                        /\ holds'[r].acct \in Customers => WithinHold(r)'
      BY DEF CapturedHaveEntries, CustomerCaptureWithinHold
    <2>1. ~(holds'[r].acct \in Customers /\ holds'[r].acct \in Internals)
      BY AccountsAssumption
    <2>2. ASSUME holds'[r] = holds[r], entries'[r] = entries[r], holds'[r].acct \in Customers
          PROVE  WithinHold(r)'
      BY <2>2 DEF WithinHold, CustomerCaptureWithinHold
    <2>3. QED
      BY <2>1, <2>2, CaptureStep
  <1>3. QED
    BY <1>1, <1>2, AtomicTypeCorrect, AtomicNoOverdraft, PTL DEF ASpec

\* Invariant 7 for internal accounts too, which may hold a balance from which the
\* minimal int64 can be taken: the one debit that CaptureHold's negation wraps is
\* the only way around its check.
THEOREM AtomicCaptureWithinHold ==
  (\A q \in Requests : ~MinimalDebit(q)) => (ASpec => []CaptureWithinHold)
  <1> SUFFICES ASSUME \A q \in Requests : ~MinimalDebit(q)
               PROVE  ASpec => []CaptureWithinHold
    OBVIOUS
  <1> DEFINE Inv == CapturedHaveEntries /\ CaptureWithinHold
  <1>1. AInit => Inv
    BY DEF AInit, CapturedHaveEntries, CaptureWithinHold, NoHold
  <1>2. ATypeOK /\ NoOverdraft /\ NoOverdraft' /\ Inv /\ [ANext]_avars => Inv'
    <2> SUFFICES ASSUME ATypeOK, NoOverdraft', Inv, [ANext]_avars, NEW r \in Refs
                 PROVE  /\ holds'[r].status = "captured" => entries'[r] # NoEntry
                        /\ WithinHold(r)'
      BY DEF CapturedHaveEntries, CaptureWithinHold, WithinHold
    <2>1. ASSUME holds'[r] = holds[r], entries'[r] = entries[r]
          PROVE  WithinHold(r)'
      BY <2>1 DEF WithinHold, CaptureWithinHold
    <2>2. QED
      BY <2>1, CaptureStep
  <1>3. QED
    BY <1>1, <1>2, AtomicTypeCorrect, AtomicNoOverdraft, PTL DEF ASpec

-----------------------------------------------------------------------------
(* The statement-level ledger *)

Inv == TypeOK /\ NothingStale

-----------------------------------------------------------------------------
(* A step of one process seen by the others *)

\* A step of p leaves the other processes where they are.
OthersStay(p) ==
  \A s \in Procs : s # p => /\ pc'[s] = pc[s] /\ req'[s] = req[s]
                            /\ locks'[s] = locks[s] /\ rows'[s] = rows[s]

\* A step of p changes only the rows that p has locked or inserted.
WritesOwnRows(p) ==
  /\ accounts \subseteq accounts'
  /\ \A a \in Accounts : a \notin locks[p] => balances'[a] = balances[a]
  /\ \A r \in Refs : \/ holds'[r] = holds[r]
                     \/ r = HoldLock(p)
                     \/ pc[p] = "hold_commit" /\ r = req[p].ref
  /\ \A r \in Refs : \/ entries'[r] = entries[r]
                     \/ pc[p] = "post_commit" /\ r = req[p].ref

\* The hold that a process has locked is in the table.
LEMMA LockedHold ==
  ASSUME Inv, NEW s \in Procs, HoldLock(s) # NoRef
  PROVE  HoldLock(s) \in Refs /\ holds[HoldLock(s)] \in Hold
  <1>1. CASE pc[s] \in {"rel_bal", "rel_commit"}
    <2>1. req[s].hold \in Refs /\ holds[req[s].hold].status = "active"
      BY <1>1 DEF Inv, NothingStale, ProcInv, ReleaseInv, ReleasePC, ReleaseHoldRequest
    <2>2. holds[req[s].hold] \in Hold
      BY <2>1 DEF Inv, TypeOK, ATypeOK, NoHold
    <2>3. QED
      BY <1>1, <2>1, <2>2 DEF HoldLock
  <1>2. CASE pc[s] \in {"post_bal", "post_ref", "post_commit"}
    <2>1. req[s].hold # NoRef
      BY <1>2 DEF HoldLock
    <2>2. req[s].hold \in Refs /\ holds[req[s].hold] # NoHold
      BY <1>2, <2>1 DEF Inv, NothingStale, ProcInv, PostInv, PostPC, PostRequest
    <2>3. holds[req[s].hold] \in Hold
      BY <2>2 DEF Inv, TypeOK, ATypeOK
    <2>4. QED
      BY <1>2, <2>2, <2>3 DEF HoldLock
  <1>3. QED
    BY <1>1, <1>2 DEF HoldLock

\* What a step of another process leaves alone.
LEMMA OwnRowsStay ==
  ASSUME Inv, NEW p \in Procs, NEW s \in Procs, p # s,
         OthersStay(p), WritesOwnRows(p)
  PROVE  /\ \A a \in locks[s] : a \in Accounts /\ balances'[a] = balances[a]
         /\ HoldLock(s) # NoRef => holds'[HoldLock(s)] = holds[HoldLock(s)]
         /\ HoldLock(s)' = HoldLock(s)
         /\ pc[s] = "hold_commit" => holds'[req[s].ref] = holds[req[s].ref]
         /\ pc[s] = "post_commit" => entries'[req[s].ref] = entries[req[s].ref]
         /\ pc[s] = "post_replay" => entries'[req[s].ref] = entries[req[s].ref]
  <1>1. Exclusive(p, s) /\ Exclusive(s, p)
    BY DEF Inv, NothingStale
  <1>2. \A a \in locks[s] : a \in Accounts /\ balances'[a] = balances[a]
    BY <1>1 DEF Exclusive, WritesOwnRows, Inv, TypeOK
  <1>3. ASSUME HoldLock(s) # NoRef
        PROVE  holds'[HoldLock(s)] = holds[HoldLock(s)]
    <2>1. HoldLock(s) \in Refs /\ holds[HoldLock(s)] \in Hold /\ HoldLock(s) # HoldLock(p)
      BY <1>1, <1>3, LockedHold DEF Exclusive
    <2>2. NoHold \notin Hold
      BY DEF NoHold, Hold, HoldStatus
    <2>3. pc[p] = "hold_commit" => holds[req[p].ref] = NoHold
      BY DEF Inv, NothingStale, ProcInv, PlaceInv
    <2>4. QED
      BY <2>1, <2>2, <2>3 DEF WritesOwnRows
  <1>4. HoldLock(s)' = HoldLock(s)
    BY DEF HoldLock, OthersStay
  <1>5. ASSUME pc[s] = "hold_commit"
        PROVE  holds'[req[s].ref] = holds[req[s].ref]
    <2>1. req[s].ref \in Refs /\ holds[req[s].ref] = NoHold
      BY <1>5 DEF Inv, NothingStale, ProcInv, PlaceInv, PlacePC, PlaceHoldRequest
    <2>2. req[s].ref # HoldLock(p)
      <3>1. CASE HoldLock(p) = NoRef
        BY <2>1, <3>1, RefsAssumption
      <3>2. CASE HoldLock(p) # NoRef
        BY <2>1, <3>2, LockedHold DEF NoHold, Hold, HoldStatus
      <3>3. QED
        BY <3>1, <3>2
    <2>3. QED
      BY <1>1, <1>5, <2>1, <2>2 DEF WritesOwnRows, Exclusive
  <1>6. ASSUME pc[s] = "post_commit"
        PROVE  entries'[req[s].ref] = entries[req[s].ref]
    <2>1. req[s].ref \in Refs
      BY <1>6 DEF Inv, NothingStale, ProcInv, PostInv, PostPC, PostRequest
    <2>2. QED
      BY <1>1, <1>6, <2>1 DEF WritesOwnRows, Exclusive
  <1>7. ASSUME pc[s] = "post_replay"
        PROVE  entries'[req[s].ref] = entries[req[s].ref]
    <2>1. req[s].ref \in Refs /\ entries[req[s].ref] # NoEntry
      BY <1>7 DEF Inv, NothingStale, ProcInv, PostInv, PostPC, PostRequest
    <2>2. pc[p] = "post_commit" => entries[req[p].ref] = NoEntry
      BY DEF Inv, NothingStale, ProcInv, PostInv
    <2>3. QED
      BY <2>1, <2>2 DEF WritesOwnRows
  <1>8. QED
    BY <1>2, <1>3, <1>4, <1>5, <1>6, <1>7

\* The invariant of a process survives the steps of the others.
LEMMA OthersKeep ==
  ASSUME Inv, NEW p \in Procs, NEW s \in Procs, p # s,
         OthersStay(p), WritesOwnRows(p)
  PROVE  ProcInv(s)'
  <1>1. pc'[s] = pc[s] /\ req'[s] = req[s] /\ locks'[s] = locks[s] /\ rows'[s] = rows[s]
    BY DEF OthersStay
  <1>2. ProcInv(s)
    BY DEF Inv, NothingStale
  <1>3. accounts \subseteq accounts'
    BY DEF WritesOwnRows
  <1>4. PlaceInv(s)'
    <2>1. pc[s] \in {"hold_insert", "hold_commit"} =>
            balances'[req[s].acct] = balances[req[s].acct]
      BY <1>2, OwnRowsStay DEF ProcInv, PlaceInv
    <2>2. pc[s] = "hold_commit" => holds'[req[s].ref] = holds[req[s].ref]
      BY OwnRowsStay
    <2>3. QED
      BY <1>1, <1>2, <1>3, <2>1, <2>2 DEF ProcInv, PlaceInv
  <1>5. ReleaseInv(s)'
    <2>1. pc[s] \in {"rel_bal", "rel_commit"} => holds'[req[s].hold] = holds[req[s].hold]
      <3>1. pc[s] \in {"rel_bal", "rel_commit"} => HoldLock(s) = req[s].hold /\ req[s].hold # NoRef
        BY <1>2, RefsAssumption DEF HoldLock, ProcInv, ReleaseInv, ReleasePC, ReleaseHoldRequest
      <3>2. QED
        BY <3>1, OwnRowsStay
    <2>2. pc[s] = "rel_commit" =>
            balances'[holds[req[s].hold].acct] = balances[holds[req[s].hold].acct]
      BY <1>2, OwnRowsStay DEF ProcInv, ReleaseInv
    <2>3. QED
      BY <1>1, <1>2, <2>1, <2>2 DEF ProcInv, ReleaseInv
  <1>6. PostInv(s)'
    <2>1. ASSUME pc[s] \in {"post_bal", "post_ref", "post_commit"}, req[s].hold # NoRef
          PROVE  holds'[req[s].hold] = holds[req[s].hold]
      BY <2>1, OwnRowsStay DEF HoldLock
    <2>2. ASSUME pc[s] \in {"post_bal", "post_ref", "post_commit"}, NEW a \in locks[s]
          PROVE  PostCode(s, a)' = PostCode(s, a) /\ PostRow(s, a)' = PostRow(s, a)
      <3>1. balances'[a] = balances[a]
        BY <2>2, OwnRowsStay
      <3>2. AHeldAdj(req[s], a)' = AHeldAdj(req[s], a)
        BY <1>1, <2>1, <2>2 DEF AHeldAdj
      <3>3. QED
        BY <1>1, <3>1, <3>2 DEF PostCode, PostRow
    <2>3. Remaining(s)' = Remaining(s)
      BY <1>1 DEF Remaining
    <2>4. pc[s] \in {"post_commit", "post_replay"} => entries'[req[s].ref] = entries[req[s].ref]
      BY OwnRowsStay
    <2>5. QED
      BY <1>1, <1>2, <1>3, <2>1, <2>2, <2>3, <2>4 DEF ProcInv, PostInv
  <1>7. QED
    BY <1>1, <1>2, <1>4, <1>5, <1>6 DEF ProcInv

\* To show that a step of p preserves NothingStale it is enough to look at p.
LEMMA StepKeeps ==
  ASSUME Inv, NEW p \in Procs, OthersStay(p), WritesOwnRows(p), ProcInv(p)',
         \A s \in Procs : s # p => Exclusive(p, s)'
  PROVE  NothingStale'
  <1>1. \A s \in Procs : ProcInv(s)'
    BY OthersKeep
  <1>2. ASSUME NEW s \in Procs, NEW t \in Procs, s # t
        PROVE  Exclusive(s, t)'
    <2>1. CASE s = p
      BY <1>2, <2>1
    <2>2. CASE t = p
      <3>1. Exclusive(p, s)'
        BY <1>2, <2>2
      <3>2. QED
        BY <2>2, <3>1 DEF Exclusive
    <2>3. CASE s # p /\ t # p
      <3>1. HoldLock(s)' = HoldLock(s) /\ HoldLock(t)' = HoldLock(t)
        BY <2>3, OwnRowsStay
      <3>2. Exclusive(s, t)
        BY <1>2 DEF Inv, NothingStale
      <3>3. QED
        BY <2>3, <3>1, <3>2 DEF Exclusive, OthersStay
    <2>4. QED
      BY <2>1, <2>2, <2>3
  <1>3. QED
    BY <1>1, <1>2 DEF NothingStale

\* A request that ends, answered or rolled back, gives up everything it had.
LEMMA EndKeeps ==
  ASSUME Inv, NEW p \in Procs, NEW code, End(p, code), WritesOwnRows(p)
  PROVE  NothingStale'
  <1>1. pc'[p] = "idle" /\ locks'[p] = {} /\ OthersStay(p)
    BY DEF End, OthersStay, Inv, TypeOK
  <1>2. ProcInv(p)'
    BY <1>1 DEF ProcInv, PlaceInv, ReleaseInv, PostInv, PlacePC, ReleasePC, PostPC
  <1>3. HoldLock(p)' = NoRef
    BY <1>1 DEF HoldLock
  <1>4. \A s \in Procs : s # p => Exclusive(p, s)'
    BY <1>1, <1>3 DEF Exclusive
  <1>5. QED
    BY <1>1, <1>2, <1>4, StepKeeps

\* An answer changes no table.
LEMMA AnswerKeeps ==
  ASSUME Inv, NEW p \in Procs, NEW code, Answer(p, code)
  PROVE  NothingStale'
  <1>1. WritesOwnRows(p)
    BY DEF Answer, WritesOwnRows, avars
  <1>2. QED
    BY <1>1, EndKeeps DEF Answer

-----------------------------------------------------------------------------
(* Types of a process's variables *)

LocalTypes ==
  /\ pc \in [Procs -> {"idle"} \cup PlacePC \cup ReleasePC \cup PostPC]
  /\ req \in [Procs -> Requests \cup ReleaseHoldRequest \cup {NoReq}]
  /\ locks \in [Procs -> SUBSET Accounts]
  /\ rows \in [Procs -> [Accounts -> Row]]
  /\ reply \in [Procs -> Codes \cup {"none"}]
  /\ sweeping \subseteq Refs
  /\ aborts \in 0..MaxAborts

\* A balance row that was never written is a row.
LEMMA ZeroRowType == ZeroRow \in Row
  BY HalfAssumption DEF ZeroRow, Row, Int64

\* Going on to the next statement keeps the types of the process's variables.
LEMMA GotoTypes ==
  ASSUME LocalTypes, NEW p \in Procs, NEW at \in PlacePC \cup ReleasePC \cup PostPC, Goto(p, at)
  PROVE  LocalTypes'
  BY DEF LocalTypes, Goto

\* So does locking one more balance row,
LEMMA GotoWithTypes ==
  ASSUME LocalTypes, NEW p \in Procs, NEW at \in PlacePC \cup ReleasePC \cup PostPC,
         NEW a \in Accounts, NEW b \in Row, GotoWith(p, at, a, b)
  PROVE  LocalTypes'
  <1>1. [rows[p] EXCEPT ![a] = b] \in [Accounts -> Row]
    BY DEF LocalTypes
  <1>2. rows' \in [Procs -> [Accounts -> Row]]
    BY <1>1 DEF LocalTypes, GotoWith
  <1>3. locks' \in [Procs -> SUBSET Accounts]
    BY DEF LocalTypes, GotoWith
  <1>4. QED
    BY <1>2, <1>3 DEF LocalTypes, GotoWith

\* starting the request again,
LEMMA RestartTypes ==
  ASSUME LocalTypes, NEW p \in Procs, NEW at \in PlacePC \cup ReleasePC \cup PostPC, Restart(p, at)
  PROVE  LocalTypes'
  BY ZeroRowType DEF LocalTypes, Restart

\* ending it,
LEMMA EndTypes ==
  ASSUME LocalTypes, NEW p \in Procs, NEW code \in Codes, End(p, code), aborts' \in 0..MaxAborts
  PROVE  LocalTypes'
  BY ZeroRowType DEF LocalTypes, End

\* and answering it without a commit.
LEMMA AnswerTypes ==
  ASSUME LocalTypes, NEW p \in Procs, NEW code \in Codes, Answer(p, code)
  PROVE  LocalTypes'
  <1>1. aborts' \in 0..MaxAborts
    BY DEF LocalTypes, Answer
  <1>2. QED
    BY <1>1, EndTypes DEF Answer

\* A step that changes no table keeps its types and writes no row.
LEMMA TablesStay ==
  ASSUME UNCHANGED avars, NEW p \in Procs
  PROVE  (ATypeOK => ATypeOK') /\ WritesOwnRows(p)
  BY DEF avars, ATypeOK, WritesOwnRows

-----------------------------------------------------------------------------
(* The steps of PlaceHold *)

\* What a step must show: the types of the locals and the locking discipline.
Kept == LocalTypes' /\ NothingStale'

\* The first statement of PlaceHold preserves the invariant.
LEMMA PlaceHoldReadKeeps ==
  ASSUME Inv, NEW p \in Procs, PlaceHoldRead(p)
  PROVE  UNCHANGED avars /\ Kept
  <1> DEFINE q == req[p]
             h == holds[q.ref]
             code == IF q.acct \notin accounts THEN "NOT_FOUND"
                     ELSE IF h # NoHold
                          THEN IF h.acct = q.acct /\ h.amount = q.amount
                               THEN "OK" ELSE "ALREADY_EXISTS"
                     ELSE IF q.cur # Cur[q.acct] THEN "CURRENCY_MISMATCH"
                     ELSE "none"
  <1>0. pc[p] = "hold_read" /\ LocalTypes /\ ProcInv(p)
    BY DEF PlaceHoldRead, Runs, Inv, TypeOK, LocalTypes, NothingStale
  <1>1. CASE code # "none" /\ Answer(p, code)
    <2>1. code \in Codes
      BY <1>1 DEF Codes
    <2>2. QED
      BY <1>0, <1>1, <2>1, AnswerKeeps, AnswerTypes DEF Kept, Answer
  <1>2. CASE code = "none" /\ Goto(p, "hold_lock") /\ UNCHANGED avars
    <2>1. q.acct \in accounts /\ q.cur = Cur[q.acct]
      BY <1>2
    <2>2. LocalTypes'
      BY <1>0, <1>2, GotoTypes DEF PlacePC
    <2>3. /\ pc'[p] = "hold_lock" /\ req'[p] = q /\ locks'[p] = {}
          /\ OthersStay(p) /\ HoldLock(p)' = NoRef
      BY <1>0, <1>2 DEF Goto, LocalTypes, OthersStay, HoldLock, ProcInv, PlaceInv
    <2>4. ProcInv(p)'
      BY <1>0, <1>2, <2>1, <2>3 DEF avars, ProcInv, PlaceInv, ReleaseInv, PostInv, PlacePC, ReleasePC, PostPC
    <2>5. \A s \in Procs : s # p => Exclusive(p, s)'
      BY <2>3 DEF Exclusive
    <2>6. QED
      BY <1>2, <2>2, <2>3, <2>4, <2>5, StepKeeps, TablesStay DEF Kept
  <1>3. QED
    BY <1>1, <1>2 DEF PlaceHoldRead

\* The lock of PlaceHold preserves the invariant.
LEMMA PlaceHoldLockKeeps ==
  ASSUME Inv, NEW p \in Procs, PlaceHoldLock(p)
  PROVE  UNCHANGED avars /\ Kept
  <1> DEFINE q == req[p]
             b == balances[q.acct]
             code == CanPlaceHold(b, q.acct, q.amount)
  <1>0. /\ pc[p] = "hold_lock" /\ LocalTypes /\ ProcInv(p) /\ \A s \in Procs : ~WaitsFor(p, s)
    BY DEF PlaceHoldLock, Runs, Inv, TypeOK, LocalTypes, NothingStale
  <1>1. CASE code # "OK" /\ Answer(p, code)
    <2>1. code \in Codes
      BY <1>1 DEF Codes, CanPlaceHold
    <2>2. QED
      BY <1>0, <1>1, <2>1, AnswerKeeps, AnswerTypes DEF Kept, Answer
  <1>2. CASE code = "OK" /\ GotoWith(p, "hold_insert", q.acct, HeldRow(b, q.amount)) /\ UNCHANGED avars
    <2>1. q \in PlaceHoldRequest /\ q.acct \in Accounts /\ q.amount \in Int64
      BY <1>0 DEF ProcInv, PlaceInv, PlacePC, PlaceHoldRequest
    <2>2. b \in Row
      BY <2>1 DEF Inv, TypeOK, ATypeOK
    <2>3. HeldRow(b, q.amount) \in Row
      BY <1>2, <2>1, <2>2, HeldRowType
    <2>4. LocalTypes'
      BY <1>0, <1>2, <2>1, <2>3, GotoWithTypes DEF PlacePC
    <2>5. /\ pc'[p] = "hold_insert" /\ req'[p] = q /\ locks'[p] = {q.acct}
          /\ rows'[p][q.acct] = HeldRow(b, q.amount)
          /\ OthersStay(p) /\ HoldLock(p)' = NoRef
      BY <1>0, <1>2, <2>1 DEF GotoWith, LocalTypes, OthersStay, HoldLock, ProcInv, PlaceInv
    <2>6. ProcInv(p)'
      BY <1>0, <1>2, <2>5 DEF avars, ProcInv, PlaceInv, ReleaseInv, PostInv, PlacePC, ReleasePC, PostPC
    <2>7. \A s \in Procs : s # p => q.acct \notin locks[s]
      BY <1>0 DEF WaitsFor, WantsBalance
    <2>8. \A s \in Procs : s # p => Exclusive(p, s)'
      BY <2>5, <2>7 DEF Exclusive, OthersStay
    <2>9. QED
      BY <1>2, <2>4, <2>5, <2>6, <2>8, StepKeeps, TablesStay DEF Kept
  <1>3. QED
    BY <1>1, <1>2 DEF PlaceHoldLock

\* The insert of PlaceHold preserves the invariant: the unique index lets one through.
LEMMA PlaceHoldInsertKeeps ==
  ASSUME Inv, NEW p \in Procs, PlaceHoldInsert(p)
  PROVE  UNCHANGED avars /\ Kept
  <1> DEFINE q == req[p]
  <1>0. /\ pc[p] = "hold_insert" /\ LocalTypes /\ ProcInv(p) /\ UNCHANGED avars
        /\ \A s \in Procs : ~WaitsFor(p, s)
    BY DEF PlaceHoldInsert, Runs, Inv, TypeOK, LocalTypes, NothingStale
  <1>1. CASE holds[q.ref] # NoHold /\ Restart(p, "hold_read")
    <2>1. LocalTypes'
      BY <1>0, <1>1, RestartTypes DEF PlacePC
    <2>2. /\ pc'[p] = "hold_read" /\ req'[p] = q /\ locks'[p] = {}
          /\ OthersStay(p) /\ HoldLock(p)' = NoRef
      BY <1>0, <1>1 DEF Restart, LocalTypes, OthersStay, HoldLock
    <2>3. ProcInv(p)'
      BY <1>0, <2>2 DEF ProcInv, PlaceInv, ReleaseInv, PostInv, PlacePC, ReleasePC, PostPC
    <2>4. \A s \in Procs : s # p => Exclusive(p, s)'
      BY <2>2 DEF Exclusive
    <2>5. QED
      BY <1>0, <2>1, <2>2, <2>3, <2>4, StepKeeps, TablesStay DEF Kept
  <1>2. CASE Answer(p, "INTERNAL")
    BY <1>0, <1>2, AnswerKeeps, AnswerTypes DEF Kept, Codes
  <1>3. CASE /\ holds[q.ref] = NoHold
             /\ rows[p][q.acct].held >= 0
             /\ Goto(p, "hold_commit")
    <2>1. LocalTypes'
      BY <1>0, <1>3, GotoTypes DEF PlacePC
    <2>2. /\ pc'[p] = "hold_commit" /\ req'[p] = q /\ locks'[p] = locks[p] /\ rows'[p] = rows[p]
          /\ OthersStay(p) /\ HoldLock(p)' = NoRef
      BY <1>0, <1>3 DEF Goto, LocalTypes, OthersStay, HoldLock
    <2>3. ProcInv(p)'
      BY <1>0, <1>3, <2>2 DEF avars, ProcInv, PlaceInv, ReleaseInv, PostInv, PlacePC, ReleasePC, PostPC
    <2>4. \A s \in Procs : s # p => ~(pc[s] = "hold_commit" /\ req[s].ref = q.ref)
      BY <1>0 DEF WaitsFor
    <2>5. \A s \in Procs : s # p => Exclusive(p, s)
      BY DEF Inv, NothingStale
    <2>6. \A s \in Procs : s # p => Exclusive(p, s)'
      BY <2>2, <2>4, <2>5 DEF Exclusive, OthersStay
    <2>7. QED
      BY <1>0, <2>1, <2>2, <2>3, <2>6, StepKeeps, TablesStay DEF Kept
  <1>4. QED
    BY <1>1, <1>2, <1>3 DEF PlaceHoldInsert

\* The commit of PlaceHold is an atomic PlaceHold, and preserves the invariant.
LEMMA PlaceHoldCommitKeeps ==
  ASSUME Inv, NEW p \in Procs, PlaceHoldCommit(p)
  PROVE  /\ req[p] \in Requests /\ req[p].op = "place" /\ APlaceHold(req[p])
         /\ Kept
  <1> DEFINE q == req[p]
  <1>0. pc[p] = "hold_commit" /\ LocalTypes /\ ProcInv(p)
    BY DEF PlaceHoldCommit, Runs, Inv, TypeOK, LocalTypes, NothingStale
  <1>1. q \in Requests \cap PlaceHoldRequest /\ q.acct \in Accounts /\ q.ref \in Refs
    BY <1>0 DEF ProcInv, PlaceInv, PlacePC, PlaceHoldRequest
  <1>2. /\ locks[p] = {q.acct}
        /\ CanPlaceHold(balances[q.acct], q.acct, q.amount) = "OK"
        /\ rows[p][q.acct] = HeldRow(balances[q.acct], q.amount)
        /\ holds[q.ref] = NoHold /\ rows[p][q.acct].held >= 0
        /\ q.acct \in accounts /\ q.cur = Cur[q.acct]
    BY <1>0 DEF ProcInv, PlaceInv
  <1>3. APlaceHold(q)
    BY <1>2 DEF APlaceHold, PlaceHoldCommit
  <1>4. PICK code \in {"OK", "INTERNAL"} : End(p, code) /\ UNCHANGED aborts
    BY DEF PlaceHoldCommit, Commit
  <1>5. WritesOwnRows(p)
    BY <1>0, <1>2 DEF WritesOwnRows, PlaceHoldCommit, Inv, TypeOK, ATypeOK
  <1>6. LocalTypes'
    <2>1. aborts' \in 0..MaxAborts
      BY <1>0, <1>4 DEF LocalTypes
    <2>2. QED
      BY <1>0, <1>4, <2>1, EndTypes DEF Codes
  <1>7. QED
    BY <1>1, <1>3, <1>4, <1>5, <1>6, EndKeeps DEF Kept, PlaceHoldRequest

-----------------------------------------------------------------------------
(* The steps of ReleaseHold *)

\* The lock of the hold row by ReleaseHold preserves the invariant.
LEMMA ReleaseHoldLockKeeps ==
  ASSUME Inv, NEW p \in Procs, ReleaseHoldLock(p)
  PROVE  UNCHANGED avars /\ Kept
  <1> DEFINE r == req[p].hold
  <1>0. /\ pc[p] = "rel_lock" /\ LocalTypes /\ ProcInv(p) /\ \A s \in Procs : ~WaitsFor(p, s)
    BY DEF ReleaseHoldLock, Runs, Inv, TypeOK, LocalTypes, NothingStale
  <1>1. ASSUME NEW code \in Codes, Answer(p, code)
        PROVE  UNCHANGED avars /\ Kept
    BY <1>0, <1>1, AnswerKeeps, AnswerTypes DEF Kept, Answer
  <1>2. CASE holds[r].status = "active" /\ Goto(p, "rel_bal") /\ UNCHANGED avars
    <2>1. LocalTypes'
      BY <1>0, <1>2, GotoTypes DEF ReleasePC
    <2>2. /\ pc'[p] = "rel_bal" /\ req'[p] = req[p] /\ locks'[p] = {}
          /\ OthersStay(p) /\ HoldLock(p)' = r
      BY <1>0, <1>2 DEF Goto, LocalTypes, OthersStay, HoldLock, ProcInv, ReleaseInv
    <2>3. ProcInv(p)'
      BY <1>0, <1>2, <2>2 DEF avars, ProcInv, PlaceInv, ReleaseInv, PostInv, PlacePC, ReleasePC, PostPC
    <2>4. \A s \in Procs : s # p => HoldLock(s) # r
      BY <1>0 DEF WaitsFor
    <2>5. \A s \in Procs : s # p => HoldLock(s)' = HoldLock(s)
      BY <1>2, <2>2, OwnRowsStay, TablesStay
    <2>6. \A s \in Procs : s # p => Exclusive(p, s)'
      BY <2>2, <2>4, <2>5 DEF Exclusive
    <2>7. QED
      BY <1>2, <2>1, <2>2, <2>3, <2>6, StepKeeps, TablesStay DEF Kept
  <1>3. QED
    BY <1>1, <1>2 DEF ReleaseHoldLock, Codes

\* The lock of the balance row by ReleaseHold preserves the invariant.
LEMMA ReleaseHoldBalanceKeeps ==
  ASSUME Inv, NEW p \in Procs, ReleaseHoldBalance(p)
  PROVE  UNCHANGED avars /\ Kept
  <1> DEFINE r == req[p].hold
             h == holds[r]
             b == balances[h.acct]
  <1>0. /\ pc[p] = "rel_bal" /\ LocalTypes /\ ProcInv(p) /\ UNCHANGED avars
        /\ \A s \in Procs : ~WaitsFor(p, s)
    BY DEF ReleaseHoldBalance, Runs, Inv, TypeOK, LocalTypes, NothingStale
  <1>1. CASE b.held - h.amount < 0
    BY <1>0, <1>1, AnswerKeeps, AnswerTypes DEF Kept, Codes, ReleaseHoldBalance
  <1>2. CASE ~(b.held - h.amount < 0)
    <2>1. r \in Refs /\ h.status = "active"
      BY <1>0 DEF ProcInv, ReleaseInv, ReleasePC, ReleaseHoldRequest
    <2>2. h \in Hold
      BY <2>1 DEF Inv, TypeOK, ATypeOK, NoHold
    <2>3. h.acct \in Accounts /\ h.amount \in 1 .. (Half - 1) /\ b \in Row
      BY <2>2 DEF Hold, Inv, TypeOK, ATypeOK
    <2>4. b.held >= h.amount
      BY <1>2, <2>3, HalfAssumption DEF Row, Int64
    <2>5. ReleasedRow(b, h.amount) \in Row
      BY <2>3, <2>4, ReleasedRowType
    <2>6. GotoWith(p, "rel_commit", h.acct, ReleasedRow(b, h.amount))
      BY <1>2 DEF ReleaseHoldBalance
    <2>7. LocalTypes'
      BY <1>0, <2>3, <2>5, <2>6, GotoWithTypes DEF ReleasePC
    <2>8. /\ pc'[p] = "rel_commit" /\ req'[p] = req[p] /\ locks'[p] = {h.acct}
          /\ rows'[p][h.acct] = ReleasedRow(b, h.amount)
          /\ OthersStay(p) /\ HoldLock(p)' = r /\ HoldLock(p) = r
      BY <1>0, <2>3, <2>6 DEF GotoWith, LocalTypes, OthersStay, HoldLock, ProcInv, ReleaseInv
    <2>9. ProcInv(p)'
      BY <1>0, <2>1, <2>4, <2>8 DEF avars, ProcInv, PlaceInv, ReleaseInv, PostInv, PlacePC, ReleasePC, PostPC
    <2>10. \A s \in Procs : s # p => h.acct \notin locks[s]
      BY <1>0 DEF WaitsFor, WantsBalance
    <2>11. \A s \in Procs : s # p => HoldLock(s)' = HoldLock(s) /\ Exclusive(p, s)
      BY <1>0, <2>8, OwnRowsStay, TablesStay DEF Inv, NothingStale
    <2>12. \A s \in Procs : s # p => Exclusive(p, s)'
      BY <2>8, <2>10, <2>11 DEF Exclusive, OthersStay
    <2>13. QED
      BY <1>0, <2>7, <2>8, <2>9, <2>12, StepKeeps, TablesStay DEF Kept
  <1>3. QED
    BY <1>1, <1>2

\* The commit of ReleaseHold is an atomic ReleaseHold, and preserves the invariant.
LEMMA ReleaseHoldCommitKeeps ==
  ASSUME Inv, NEW p \in Procs, ReleaseHoldCommit(p)
  PROVE  req[p].hold \in Refs /\ AReleaseHold(req[p].hold) /\ Kept
  <1> DEFINE r == req[p].hold
             a == holds[r].acct
  <1>0. pc[p] = "rel_commit" /\ LocalTypes /\ ProcInv(p)
    BY DEF ReleaseHoldCommit, Runs, Inv, TypeOK, LocalTypes, NothingStale
  <1>1. r \in Refs
    BY <1>0 DEF ProcInv, ReleaseInv, ReleasePC, ReleaseHoldRequest
  <1>2. /\ holds[r].status = "active"
        /\ locks[p] = {a}
        /\ balances[a].held >= holds[r].amount
        /\ rows[p][a] = ReleasedRow(balances[a], holds[r].amount)
    BY <1>0 DEF ProcInv, ReleaseInv
  <1>3. AReleaseHold(r)
    BY <1>2 DEF AReleaseHold, ReleaseHoldCommit
  <1>4. PICK code \in {"OK", "INTERNAL"} : End(p, code) /\ UNCHANGED aborts
    BY DEF ReleaseHoldCommit, Commit
  <1>5. WritesOwnRows(p)
    BY <1>0, <1>2 DEF WritesOwnRows, ReleaseHoldCommit, Inv, TypeOK, ATypeOK, HoldLock
  <1>6. LocalTypes'
    <2>1. aborts' \in 0..MaxAborts
      BY <1>0, <1>4 DEF LocalTypes
    <2>2. QED
      BY <1>0, <1>4, <2>1, EndTypes DEF Codes
  <1>7. QED
    BY <1>1, <1>3, <1>4, <1>5, <1>6, EndKeeps DEF Kept

-----------------------------------------------------------------------------
(* The steps of PostTransaction *)

\* The idempotency read and the validation preserve the invariant.
LEMMA PostReadKeeps ==
  ASSUME Inv, NEW p \in Procs, PostRead(p)
  PROVE  UNCHANGED avars /\ Kept
  <1> DEFINE q == req[p]
             e == entries[q.ref]
             code == IF ~(Affected(q.legs) \subseteq accounts) THEN "NOT_FOUND"
                     ELSE IF e # NoEntry
                          THEN IF SamePayload(e, q.legs) THEN "OK" ELSE "ALREADY_EXISTS"
                     ELSE IF ValidateEntry(q.legs) # "OK" THEN ValidateEntry(q.legs)
                     ELSE "none"
             at == IF q.hold = NoRef THEN "post_bal" ELSE "post_hold"
  <1>0. pc[p] = "post_read" /\ LocalTypes /\ ProcInv(p) /\ UNCHANGED avars
    BY DEF PostRead, Runs, Inv, TypeOK, LocalTypes, NothingStale
  <1>1. CASE code # "none" /\ Answer(p, code)
    <2>1. ValidateEntry(q.legs) \in Codes
      BY DEF Codes, ValidateEntry
    <2>2. code \in Codes
      BY <1>1, <2>1 DEF Codes
    <2>3. QED
      BY <1>0, <1>1, <2>2, AnswerKeeps, AnswerTypes DEF Kept, Answer
  <1>2. CASE code = "none" /\ Goto(p, at)
    <2>0. ValidateEntry(q.legs) # "none"
      BY DEF ValidateEntry
    <2>1. Affected(q.legs) \subseteq accounts /\ ValidateEntry(q.legs) = "OK"
      BY <1>2, <2>0
    <2>2. LocalTypes'
      BY <1>0, <1>2, GotoTypes DEF PostPC
    <2>3. /\ pc'[p] = at /\ req'[p] = q /\ locks'[p] = {} /\ OthersStay(p)
      BY <1>0, <1>2 DEF Goto, LocalTypes, OthersStay, ProcInv, PostInv
    <2>4. HoldLock(p)' = NoRef
      BY <2>3 DEF HoldLock
    <2>5. Remaining(p)' # {}
      <3>1. q.legs \in Seq(Leg)
        BY <1>0 DEF ProcInv, PostInv, PostPC, PostRequest
      <3>2. QED
        BY <2>1, <2>3, <3>1, ValidEntry DEF Remaining
    <2>6. ProcInv(p)'
      BY <1>0, <2>1, <2>3, <2>5 DEF avars, ProcInv, PlaceInv, ReleaseInv, PostInv, PlacePC, ReleasePC, PostPC
    <2>7. \A s \in Procs : s # p => Exclusive(p, s)'
      BY <2>3, <2>4 DEF Exclusive
    <2>8. QED
      BY <1>0, <2>2, <2>3, <2>6, <2>7, StepKeeps, TablesStay DEF Kept
  <1>3. QED
    BY <1>1, <1>2 DEF PostRead

\* The lock of the hold row by PostTransaction preserves the invariant.
LEMMA PostHoldKeeps ==
  ASSUME Inv, NEW p \in Procs, PostHold(p)
  PROVE  UNCHANGED avars /\ Kept
  <1> DEFINE q == req[p]
             h == holds[q.hold]
             code == IF h = NoHold \/ q.hold # q.ref THEN "INVALID_ARGUMENT"
                     ELSE CaptureHold(h, q.legs)
  <1>0. /\ pc[p] = "post_hold" /\ LocalTypes /\ ProcInv(p) /\ \A s \in Procs : ~WaitsFor(p, s)
    BY DEF PostHold, Runs, Inv, TypeOK, LocalTypes, NothingStale
  <1>1. CASE code # "OK" /\ Answer(p, code)
    <2>1. code \in Codes
      BY <1>1 DEF Codes, CaptureHold
    <2>2. QED
      BY <1>0, <1>1, <2>1, AnswerKeeps, AnswerTypes DEF Kept, Answer
  <1>2. CASE code = "OK" /\ Goto(p, "post_bal") /\ UNCHANGED avars
    <2>1. h # NoHold /\ q.hold = q.ref /\ CaptureHold(h, q.legs) = "OK"
      BY <1>2
    <2>2. LocalTypes'
      BY <1>0, <1>2, GotoTypes DEF PostPC
    <2>3. /\ pc'[p] = "post_bal" /\ req'[p] = q /\ locks'[p] = {}
          /\ OthersStay(p) /\ HoldLock(p)' = q.hold
      BY <1>0, <1>2 DEF Goto, LocalTypes, OthersStay, HoldLock, ProcInv, PostInv
    <2>4. ProcInv(p)'
      <3>1. q.legs \in Seq(Leg) /\ ValidateEntry(q.legs) = "OK"
        BY <1>0 DEF ProcInv, PostInv, PostPC, PostRequest
      <3>2. Remaining(p)' # {}
        BY <2>3, <3>1, ValidEntry DEF Remaining
      <3>3. QED
        BY <1>0, <1>2, <2>1, <2>3, <3>2 DEF avars, ProcInv, PlaceInv, ReleaseInv, PostInv, PlacePC, ReleasePC, PostPC
    <2>5. \A s \in Procs : s # p => HoldLock(s) # q.hold
      BY <1>0 DEF WaitsFor
    <2>6. \A s \in Procs : s # p => HoldLock(s)' = HoldLock(s)
      BY <1>2, <2>3, OwnRowsStay, TablesStay
    <2>7. \A s \in Procs : s # p => Exclusive(p, s)'
      BY <2>3, <2>5, <2>6 DEF Exclusive
    <2>8. QED
      BY <1>2, <2>2, <2>3, <2>4, <2>7, StepKeeps, TablesStay DEF Kept
  <1>3. QED
    BY <1>1, <1>2 DEF PostHold

\* A turn of the lock loop preserves the invariant: the row is locked by nobody
\* else, and it comes after the rows already locked.
LEMMA PostBalanceKeeps ==
  ASSUME Inv, NEW p \in Procs, PostBalance(p)
  PROVE  UNCHANGED avars /\ Kept
  <1> DEFINE q == req[p]
  <1>0. /\ pc[p] = "post_bal" /\ LocalTypes /\ ProcInv(p) /\ UNCHANGED avars
        /\ \A s \in Procs : ~WaitsFor(p, s)
    BY DEF PostBalance, Runs, Inv, TypeOK, LocalTypes, NothingStale
  <1>1. PICK a \in Accounts :
          /\ IsNext(p, a)
          /\ \/ PostCode(p, a) # "OK" /\ Answer(p, PostCode(p, a))
             \/ /\ PostCode(p, a) = "OK"
                /\ GotoWith(p, IF Remaining(p) = {a} THEN "post_ref" ELSE "post_bal",
                            a, PostRow(p, a))
    BY DEF PostBalance
  <1> DEFINE at == IF Remaining(p) = {a} THEN "post_ref" ELSE "post_bal"
  <1>2. CASE PostCode(p, a) # "OK" /\ Answer(p, PostCode(p, a))
    <2>1. PostCode(p, a) \in Codes
      BY DEF Codes, PostCode, ApplyPosting
    <2>2. QED
      BY <1>0, <1>2, <2>1, AnswerKeeps, AnswerTypes DEF Kept
  <1>3. CASE PostCode(p, a) = "OK" /\ GotoWith(p, at, a, PostRow(p, a))
    <2>1. /\ q \in Requests /\ q \in PostRequest
          /\ Affected(q.legs) \subseteq accounts /\ ValidateEntry(q.legs) = "OK"
          /\ q.hold # NoRef => /\ q.hold = q.ref
                               /\ holds[q.hold] # NoHold
                               /\ CaptureHold(holds[q.hold], q.legs) = "OK"
          /\ locks[p] \subseteq Affected(q.legs)
          /\ \A b \in locks[p] : PostCode(p, b) = "OK" /\ rows[p][b] = PostRow(p, b)
          /\ \A b \in locks[p], c \in Remaining(p) : b < c
      BY <1>0 DEF ProcInv, PostInv, PostPC
    <2>2. balances[a] \in Row /\ AHeldAdj(q, a) \in Int /\ AHeldAdj(q, a) <= 0
      BY <2>1, HeldAdjType DEF Inv, TypeOK, ATypeOK
    <2>3. PostRow(p, a) \in Row
      BY <1>3, <2>2, AppliedRowType DEF PostRow, PostCode
    <2>4. at \in PostPC
      BY DEF PostPC
    <2>5. LocalTypes'
      BY <1>0, <1>3, <2>3, <2>4, GotoWithTypes
    <2>6. /\ pc'[p] = at /\ req'[p] = q /\ locks'[p] = locks[p] \cup {a}
          /\ rows'[p][a] = PostRow(p, a)
          /\ \A b \in Accounts : b # a => rows'[p][b] = rows[p][b]
          /\ OthersStay(p)
      BY <1>0, <1>3 DEF GotoWith, LocalTypes, OthersStay
    <2>7. HoldLock(p)' = q.hold /\ HoldLock(p) = q.hold
      BY <1>0, <2>6 DEF HoldLock
    <2>8. \A b : PostCode(p, b)' = PostCode(p, b) /\ PostRow(p, b)' = PostRow(p, b)
      BY <1>0, <2>6 DEF avars, PostCode, PostRow, AHeldAdj
    <2>9. Remaining(p)' = Remaining(p) \ {a} /\ a \in Affected(q.legs)
      BY <1>1, <2>6 DEF Remaining, IsNext
    <2>10. ASSUME NEW b \in locks'[p]
           PROVE  PostCode(p, b)' = "OK" /\ rows'[p][b] = PostRow(p, b)'
      <3>1. CASE b = a
        BY <1>3, <2>6, <2>8, <3>1
      <3>2. CASE b # a
        <4>1. b \in locks[p] /\ b \in Accounts
          BY <2>6, <2>10, <3>2, <1>0 DEF LocalTypes
        <4>2. QED
          BY <2>1, <2>6, <2>8, <3>2, <4>1
      <3>3. QED
        BY <3>1, <3>2
    <2>11. ASSUME NEW b \in locks'[p], NEW c \in Remaining(p)'
           PROVE  b < c
      <3>1. c \in Remaining(p) /\ c # a
        BY <2>9, <2>11
      <3>2. CASE b = a
        <4>1. a <= c
          BY <1>1, <3>1 DEF IsNext
        <4>2. a \in Nat /\ c \in Nat
          <5>1. Affected(q.legs) \subseteq Accounts
            BY <2>1, ValidEntry DEF PostRequest
          <5>2. QED
            BY <3>1, <5>1, AccountsAssumption DEF Remaining, Accounts
        <4>3. QED
          BY <3>1, <3>2, <4>1, <4>2
      <3>3. CASE b # a
        BY <2>1, <2>6, <2>11, <3>1, <3>3
      <3>4. QED
        BY <3>2, <3>3
    <2>12. at = "post_ref" <=> Remaining(p)' = {}
      <3>1. a \in Remaining(p)
        BY <1>1 DEF IsNext
      <3>2. QED
        BY <2>9, <3>1
    <2>13. PostInv(p)'
      <3>1. locks'[p] \subseteq Affected(q.legs)
        BY <2>1, <2>6, <2>9
      <3>2. accounts' = accounts /\ holds' = holds
        BY <1>0 DEF avars
      <3>3. pc'[p] \in {"post_bal", "post_ref"}
        BY <2>6
      <3>4. QED
        BY <2>1, <2>6, <2>10, <2>11, <2>12, <3>1, <3>2, <3>3 DEF PostInv, PostPC
    <2>14. ProcInv(p)'
      <3>1. pc'[p] \in {"post_bal", "post_ref"}
        BY <2>6
      <3>2. PlaceInv(p)' /\ ReleaseInv(p)'
        BY <3>1 DEF PlaceInv, ReleaseInv, PlacePC, ReleasePC
      <3>3. QED
        BY <2>13, <3>1, <3>2 DEF ProcInv
    <2>15. \A s \in Procs : s # p => a \notin locks[s]
      BY <1>0, <1>1 DEF WaitsFor, WantsBalance
    <2>16. \A s \in Procs : s # p => HoldLock(s)' = HoldLock(s) /\ Exclusive(p, s)
      BY <1>0, <2>6, OwnRowsStay, TablesStay DEF Inv, NothingStale
    <2>17. \A s \in Procs : s # p => Exclusive(p, s)'
      BY <2>6, <2>7, <2>15, <2>16 DEF Exclusive, OthersStay
    <2>18. QED
      BY <1>0, <2>5, <2>6, <2>14, <2>17, StepKeeps, TablesStay DEF Kept
  <1>4. QED
    BY <1>1, <1>2, <1>3

\* The insert of the reference preserves the invariant: the primary key of
\* journal_entry_refs lets one through.
LEMMA PostRefKeeps ==
  ASSUME Inv, NEW p \in Procs, PostRef(p)
  PROVE  UNCHANGED avars /\ Kept
  <1> DEFINE q == req[p]
  <1>0. /\ pc[p] = "post_ref" /\ LocalTypes /\ ProcInv(p) /\ UNCHANGED avars
        /\ \A s \in Procs : ~WaitsFor(p, s)
    BY DEF PostRef, Runs, Inv, TypeOK, LocalTypes, NothingStale
  <1>1. CASE entries[q.ref] # NoEntry /\ Restart(p, "post_replay")
    <2>1. LocalTypes'
      BY <1>0, <1>1, RestartTypes DEF PostPC
    <2>2. /\ pc'[p] = "post_replay" /\ req'[p] = q /\ locks'[p] = {}
          /\ OthersStay(p) /\ HoldLock(p)' = NoRef
      BY <1>0, <1>1 DEF Restart, LocalTypes, OthersStay, HoldLock
    <2>3. ProcInv(p)'
      BY <1>0, <1>1, <2>2 DEF avars, ProcInv, PlaceInv, ReleaseInv, PostInv, PlacePC, ReleasePC, PostPC
    <2>4. \A s \in Procs : s # p => Exclusive(p, s)'
      BY <2>2 DEF Exclusive
    <2>5. QED
      BY <1>0, <2>1, <2>2, <2>3, <2>4, StepKeeps, TablesStay DEF Kept
  <1>2. CASE entries[q.ref] = NoEntry /\ Goto(p, "post_commit")
    <2>1. LocalTypes'
      BY <1>0, <1>2, GotoTypes DEF PostPC
    <2>2. /\ pc'[p] = "post_commit" /\ req'[p] = q /\ locks'[p] = locks[p] /\ rows'[p] = rows[p]
          /\ OthersStay(p)
      BY <1>0, <1>2 DEF Goto, LocalTypes, OthersStay
    <2>3. HoldLock(p)' = q.hold /\ HoldLock(p) = q.hold
      BY <1>0, <2>2 DEF HoldLock
    <2>4. \A b : PostCode(p, b)' = PostCode(p, b) /\ PostRow(p, b)' = PostRow(p, b)
      BY <1>0, <2>2 DEF avars, PostCode, PostRow, AHeldAdj
    <2>5. Remaining(p)' = Remaining(p)
      BY <2>2 DEF Remaining
    <2>6. ProcInv(p)'
      BY <1>0, <1>2, <2>2, <2>4, <2>5 DEF avars, ProcInv, PlaceInv, ReleaseInv, PostInv, PlacePC, ReleasePC, PostPC
    <2>7. \A s \in Procs : s # p => ~(pc[s] = "post_commit" /\ req[s].ref = q.ref)
      BY <1>0 DEF WaitsFor
    <2>8. \A s \in Procs : s # p => HoldLock(s)' = HoldLock(s) /\ Exclusive(p, s)
      BY <1>0, <2>2, OwnRowsStay, TablesStay DEF Inv, NothingStale
    <2>9. \A s \in Procs : s # p => Exclusive(p, s)'
      BY <2>2, <2>3, <2>7, <2>8 DEF Exclusive, OthersStay
    <2>10. QED
      BY <1>0, <2>1, <2>2, <2>6, <2>9, StepKeeps, TablesStay DEF Kept
  <1>3. QED
    BY <1>1, <1>2 DEF PostRef

\* The commit of PostTransaction is an atomic PostTransaction, and preserves the
\* invariant.
LEMMA PostCommitKeeps ==
  ASSUME Inv, NEW p \in Procs, PostCommit(p)
  PROVE  /\ req[p] \in Requests /\ req[p].op = "post" /\ APostTransaction(req[p])
         /\ Kept
  <1> DEFINE q == req[p]
             affected == Affected(q.legs)
  <1>0. pc[p] = "post_commit" /\ LocalTypes /\ ProcInv(p)
    BY DEF PostCommit, Runs, Inv, TypeOK, LocalTypes, NothingStale
  <1>1. /\ q \in Requests /\ q \in PostRequest
        /\ affected \subseteq accounts /\ ValidateEntry(q.legs) = "OK"
        /\ q.hold # NoRef => /\ q.hold = q.ref
                             /\ holds[q.hold] # NoHold
                             /\ CaptureHold(holds[q.hold], q.legs) = "OK"
        /\ locks[p] \subseteq affected /\ Remaining(p) = {}
        /\ \A a \in locks[p] : PostCode(p, a) = "OK" /\ rows[p][a] = PostRow(p, a)
        /\ entries[q.ref] = NoEntry
    BY <1>0 DEF ProcInv, PostInv, PostPC
  <1>2. locks[p] = affected
    BY <1>1 DEF Remaining
  <1>3. \A a \in affected :
          /\ ApplyPosting(balances[a], a, AHeldAdj(q, a), Delta(q.legs, a)) = "OK"
          /\ rows[p][a] = AppliedRow(balances[a], AHeldAdj(q, a), Delta(q.legs, a))
    BY <1>1, <1>2 DEF PostCode, PostRow
  <1>4. balances' = [a \in Accounts |->
                       IF a \in affected
                       THEN AppliedRow(balances[a], AHeldAdj(q, a), Delta(q.legs, a))
                       ELSE balances[a]]
    BY <1>3 DEF PostCommit
  <1>5. affected \subseteq Accounts
    BY <1>1, ValidEntry DEF PostRequest
  <1>6. \A a \in affected : balances'[a] = rows[p][a]
    BY <1>5 DEF PostCommit
  <1>7. outbox' = outbox \cup
          {[acct |-> a, ref |-> q.ref, balance |-> balances'[a].balance,
            version |-> balances'[a].version] : a \in affected}
    BY <1>6 DEF PostCommit
  <1>8. APostTransaction(q)
    BY <1>1, <1>3, <1>4, <1>7 DEF APostTransaction, PostCommit
  <1>9. PICK code \in {"OK", "INTERNAL"} : End(p, code) /\ UNCHANGED aborts
    BY DEF PostCommit, Commit
  <1>10. WritesOwnRows(p)
    <2>1. \A a \in Accounts : a \notin locks[p] => balances'[a] = balances[a]
      BY <1>2 DEF PostCommit
    <2>2. HoldLock(p) = q.hold
      BY <1>0 DEF HoldLock
    <2>3. \A r \in Refs : holds'[r] = holds[r] \/ r = q.hold
      BY DEF PostCommit, Inv, TypeOK, ATypeOK
    <2>4. \A r \in Refs : entries'[r] = entries[r] \/ r = q.ref
      BY DEF PostCommit, Inv, TypeOK, ATypeOK
    <2>5. accounts' = accounts
      BY DEF PostCommit
    <2>6. QED
      BY <1>0, <2>1, <2>2, <2>3, <2>4, <2>5 DEF WritesOwnRows
  <1>11. LocalTypes'
    <2>1. aborts' \in 0..MaxAborts
      BY <1>0, <1>9 DEF LocalTypes
    <2>2. QED
      BY <1>0, <1>9, <2>1, EndTypes DEF Codes
  <1>12. QED
    BY <1>1, <1>8, <1>9, <1>10, <1>11, EndKeeps DEF Kept, PostRequest

\* The replay of a twin's entry preserves the invariant.
LEMMA PostReplayKeeps ==
  ASSUME Inv, NEW p \in Procs, PostReplay(p)
  PROVE  UNCHANGED avars /\ Kept
  <1> DEFINE code == IF SamePayload(entries[req[p].ref], req[p].legs)
                     THEN "OK" ELSE "ALREADY_EXISTS"
  <1>1. Answer(p, code) /\ code \in Codes /\ LocalTypes
    BY DEF PostReplay, Codes, Inv, TypeOK, LocalTypes
  <1>2. QED
    BY <1>1, AnswerKeeps, AnswerTypes DEF Kept, Answer

-----------------------------------------------------------------------------
(* The other steps *)

\* A step that moves no process and touches no locked row keeps the discipline.
LEMMA NobodyMoves ==
  ASSUME Inv, UNCHANGED <<pc, req, locks, rows, balances, holds, entries>>,
         accounts \subseteq accounts'
  PROVE  NothingStale'
  <1>1. ASSUME NEW p \in Procs
        PROVE  ProcInv(p)'
    <2>1. ProcInv(p)
      BY DEF Inv, NothingStale
    <2>2. PlaceInv(p)' /\ ReleaseInv(p)'
      BY <2>1 DEF ProcInv, PlaceInv, ReleaseInv
    <2>3. \A a : PostCode(p, a)' = PostCode(p, a) /\ PostRow(p, a)' = PostRow(p, a)
      BY DEF PostCode, PostRow, AHeldAdj
    <2>4. Remaining(p)' = Remaining(p)
      BY DEF Remaining
    <2>5. PostInv(p)'
      BY <2>1, <2>3, <2>4 DEF ProcInv, PostInv
    <2>6. QED
      BY <2>1, <2>2, <2>5 DEF ProcInv
  <1>2. ASSUME NEW p \in Procs, NEW s \in Procs, p # s
        PROVE  Exclusive(p, s)'
    <2>1. Exclusive(p, s)
      BY <1>2 DEF Inv, NothingStale
    <2>2. HoldLock(p)' = HoldLock(p) /\ HoldLock(s)' = HoldLock(s)
      BY DEF HoldLock
    <2>3. QED
      BY <2>1, <2>2 DEF Exclusive
  <1>3. QED
    BY <1>1, <1>2 DEF NothingStale

\* A request that starts owns nothing yet.
LEMMA StartKeeps ==
  ASSUME Inv, NEW p \in Procs, NEW q \in Requests \cup ReleaseHoldRequest,
         Start(p, q), sweeping' \subseteq Refs
  PROVE  UNCHANGED avars /\ Kept
  <1> DEFINE at == CASE q.op = "place"   -> "hold_read"
                     [] q.op = "release" -> "rel_lock"
                     [] q.op = "post"    -> "post_read"
  <1>1. /\ pc[p] = "idle" /\ LocalTypes /\ ProcInv(p) /\ UNCHANGED avars
    BY DEF Start, Inv, TypeOK, LocalTypes, NothingStale
  <1>2. \/ q \in Requests \cap PlaceHoldRequest /\ at = "hold_read"
        \/ q \in ReleaseHoldRequest /\ at = "rel_lock"
        \/ q \in Requests \cap PostRequest /\ at = "post_read"
    BY RequestsAssumption DEF PlaceHoldRequest, ReleaseHoldRequest, PostRequest
  <1>3. /\ pc'[p] = at /\ req'[p] = q /\ locks'[p] = {} /\ OthersStay(p)
    BY <1>1 DEF Start, LocalTypes, OthersStay, ProcInv
  <1>4. LocalTypes'
    BY <1>1, <1>2 DEF Start, LocalTypes, PlacePC, ReleasePC, PostPC
  <1>5. HoldLock(p)' = NoRef
    BY <1>2, <1>3 DEF HoldLock
  <1>6. ProcInv(p)'
    BY <1>2, <1>3 DEF ProcInv, PlaceInv, ReleaseInv, PostInv, PlacePC, ReleasePC, PostPC
  <1>7. \A s \in Procs : s # p => Exclusive(p, s)'
    BY <1>2, <1>3, <1>5 DEF Exclusive
  <1>8. QED
    BY <1>1, <1>3, <1>4, <1>6, <1>7, StepKeeps, TablesStay DEF Kept

\* A rollback gives up everything the request had and changes no table.
LEMMA AbortKeeps ==
  ASSUME Inv, NEW p \in Procs, Abort(p)
  PROVE  UNCHANGED avars /\ Kept
  <1>1. LocalTypes /\ End(p, "INTERNAL") /\ UNCHANGED avars
    BY DEF Inv, TypeOK, LocalTypes, Abort
  <1>2. aborts' \in 0..MaxAborts
    BY <1>1, MaxAbortsAssumption DEF Abort, LocalTypes
  <1>3. LocalTypes'
    BY <1>1, <1>2, EndTypes DEF Codes
  <1>4. NothingStale'
    BY <1>1, EndKeeps, TablesStay
  <1>5. QED
    BY <1>1, <1>3, <1>4 DEF Kept

-----------------------------------------------------------------------------
(* The inductive step *)

\* A statement of a request either changes no table or is one atomic operation.
LEMMA StepSimulates ==
  ASSUME Inv, NEW p \in Procs, Step(p)
  PROVE  [ANext]_avars /\ Kept
  <1>1. CASE PlaceHold(p)
    <2>1. CASE PlaceHoldCommit(p)
      BY <2>1, PlaceHoldCommitKeeps DEF ANext
    <2>2. QED
      BY <1>1, <2>1, PlaceHoldReadKeeps, PlaceHoldLockKeeps, PlaceHoldInsertKeeps DEF PlaceHold
  <1>2. CASE ReleaseHold(p)
    <2>1. CASE ReleaseHoldCommit(p)
      BY <2>1, ReleaseHoldCommitKeeps DEF ANext
    <2>2. QED
      BY <1>2, <2>1, ReleaseHoldLockKeeps, ReleaseHoldBalanceKeeps DEF ReleaseHold
  <1>3. CASE PostTransaction(p)
    <2>1. CASE PostCommit(p)
      BY <2>1, PostCommitKeeps DEF ANext
    <2>2. QED
      BY <1>3, <2>1, PostReadKeeps, PostHoldKeeps, PostBalanceKeeps, PostRefKeeps,
         PostReplayKeeps DEF PostTransaction
  <1>4. QED
    BY <1>1, <1>2, <1>3 DEF Step

\* Every step of the ledger preserves the invariant and is a step of LedgerAtomic,
\* or one that LedgerAtomic does not see.
LEMMA LedgerStep ==
  ASSUME Inv, [Next]_vars
  PROVE  Inv' /\ [ANext]_avars
  <1> USE DEF Kept
  <1>0. LocalTypes /\ ATypeOK
    BY DEF Inv, TypeOK, LocalTypes
  <1>1. ASSUME NEW a \in Customers, CreateAccount(a)
        PROVE  [ANext]_avars /\ Kept
    <2>1. ACreateAccount(a) /\ UNCHANGED lvars
      BY <1>1 DEF CreateAccount
    <2>2. UNCHANGED <<balances, holds, entries>> /\ accounts \subseteq accounts'
      BY <2>1 DEF ACreateAccount
    <2>3. LocalTypes' /\ NothingStale'
      BY <1>0, <2>1, <2>2, NobodyMoves DEF lvars, LocalTypes
    <2>4. QED
      BY <2>1, <2>3 DEF ANext
  <1>2. ASSUME NEW r \in Refs, Expire(r)
        PROVE  [ANext]_avars /\ Kept
    <2>1. AExpire(r) /\ UNCHANGED lvars
      BY <1>2 DEF Expire
    <2>2. UNCHANGED <<accounts, balances, holds, entries>>
      BY <2>1 DEF AExpire
    <2>3. LocalTypes' /\ NothingStale'
      BY <1>0, <2>1, <2>2, NobodyMoves DEF lvars, LocalTypes
    <2>4. QED
      BY <2>1, <2>3 DEF ANext
  <1>3. ASSUME NEW r \in Refs, SweepNext(r)
        PROVE  [ANext]_avars /\ Kept
    <2>1. [op |-> "release", hold |-> r] \in ReleaseHoldRequest
      BY DEF ReleaseHoldRequest
    <2>2. sweeping' \subseteq Refs /\ Sweeper \in Procs
      BY <1>0, <1>3 DEF SweepNext, LocalTypes, Procs
    <2>3. QED
      BY <1>3, <2>1, <2>2, StartKeeps DEF SweepNext
  <1>4. ASSUME SweepScan
        PROVE  [ANext]_avars /\ Kept
    <2>1. UNCHANGED <<avars, pc, req, locks, rows, reply, aborts>>
      BY <1>4 DEF SweepScan
    <2>2. sweeping' \subseteq Refs
      BY <1>0, <1>4 DEF SweepScan, ATypeOK
    <2>3. NothingStale'
      BY <2>1, NobodyMoves DEF avars
    <2>4. QED
      BY <1>0, <2>1, <2>2, <2>3 DEF LocalTypes
  <1>5. ASSUME NEW w \in Workers, NEW q \in Requests, Serve(w, q)
        PROVE  [ANext]_avars /\ Kept
    <2>1. sweeping' \subseteq Refs /\ w \in Procs
      BY <1>0, <1>5 DEF Serve, LocalTypes, Procs
    <2>2. QED
      BY <1>5, <2>1, StartKeeps DEF Serve
  <1>6. ASSUME NEW p \in Procs, Step(p) \/ Abort(p)
        PROVE  [ANext]_avars /\ Kept
    BY <1>6, StepSimulates, AbortKeeps
  <1>7. ASSUME UNCHANGED vars
        PROVE  [ANext]_avars /\ Kept
    <2>1. UNCHANGED avars /\ UNCHANGED lvars
      BY <1>7 DEF vars
    <2>2. NothingStale'
      BY <2>1, NobodyMoves DEF avars, lvars
    <2>3. LocalTypes'
      BY <1>0, <2>1 DEF lvars, LocalTypes
    <2>4. QED
      BY <2>1, <2>2, <2>3
  <1>8. [ANext]_avars /\ Kept
    BY <1>1, <1>2, <1>3, <1>4, <1>5, <1>6, <1>7 DEF Next
  <1>9. ATypeOK'
    BY <1>0, <1>8, AtomicTypeStep
  <1>10. QED
    BY <1>8, <1>9 DEF Inv, TypeOK, LocalTypes

\* The initial states satisfy the invariant.
LEMMA LedgerInit ==
  ASSUME Init
  PROVE  Inv
  <1>1. ATypeOK
    BY HalfAssumption DEF Init, AInit, ATypeOK, ZeroRow, Row, Int64, NoEntry, NoHold, Accounts
  <1>2. TypeOK
    BY <1>1, ZeroRowType, MaxAbortsAssumption DEF Init, TypeOK
  <1>3. \A p \in Procs : pc[p] = "idle" /\ locks[p] = {} /\ HoldLock(p) = NoRef
    BY DEF Init, HoldLock
  <1>4. \A p \in Procs : ProcInv(p)
    BY <1>3 DEF ProcInv, PlaceInv, ReleaseInv, PostInv, PlacePC, ReleasePC, PostPC
  <1>5. \A p, s \in Procs : p # s => Exclusive(p, s)
    BY <1>3 DEF Exclusive
  <1>6. QED
    BY <1>2, <1>4, <1>5 DEF Inv, NothingStale

-----------------------------------------------------------------------------
(* The theorems *)

\* The inductive invariant: every variable keeps its type and nothing that a
\* request has checked or computed under its locks goes stale.
THEOREM LockingDiscipline == Spec => [](TypeOK /\ NothingStale)
  <1>1. Init => Inv
    BY LedgerInit
  <1>2. Inv /\ [Next]_vars => Inv'
    BY LedgerStep
  <1>3. QED
    BY <1>1, <1>2, PTL DEF Spec, Inv

\* The tables, the requests in progress and the rows a request is going to write keep
\* their types, the row version and the balances within the width of an int64.
THEOREM LedgerTypes == Spec => []TypeOK
  BY LockingDiscipline, PTL

\* The statement-by-statement ledger implements the one whose operations are
\* atomic: row locks and unique keys make READ COMMITTED transactions serializable.
THEOREM LedgerImplementsAtomic == Spec => ASpec
  <1>1. Init => AInit
    BY DEF Init
  <1>2. TypeOK /\ NothingStale /\ [Next]_vars => [ANext]_avars
    BY LedgerStep DEF Inv
  <1>3. QED
    BY <1>1, <1>2, LockingDiscipline, PTL DEF Spec, ASpec

\* No interleaving of the statements of PlaceHold, ReleaseHold, PostTransaction
\* and the sweeper overdraws a customer or makes held negative.
THEOREM LedgerNoOverdraft == Spec => []NoOverdraft
  BY LedgerImplementsAtomic, AtomicNoOverdraft, PTL

\* Committed entries and finished holds are final in the statement-level ledger.
THEOREM LedgerHistoryIsFinal == Spec => HistoryIsFinal
  BY LedgerImplementsAtomic, AtomicHistoryIsFinal, PTL

\* The books of the statement-level ledger: what the atomic operations promise of
\* balances, reservations, captures and events holds of every interleaving of
\* statements.  First, the materialised balance is the sum of the postings.
THEOREM LedgerBalanceIsPostings == Spec => []BalanceIsPostings
  BY LedgerImplementsAtomic, AtomicBalanceIsPostings, PTL

\* No interleaving creates or destroys money.
THEOREM LedgerMoneyConserved == Spec => []MoneyConserved
  BY LedgerImplementsAtomic, AtomicMoneyConserved, PTL

\* The events of an account are numbered without gap and carry its balances.
THEOREM LedgerEventsFollowVersions == Spec => []EventsFollowVersions
  BY LedgerImplementsAtomic, AtomicEventsFollowVersions, PTL

\* No interleaving of holds, releases, captures and the sweeper loses a reservation.
THEOREM LedgerHeldCovers == Spec => []HeldCoversActiveHolds
  BY LedgerImplementsAtomic, AtomicHeldCovers, PTL

\* The held column is the sum of the active holds, if captures touch their hold.
THEOREM LedgerHeldIsActiveHolds ==
  CapturesTouchTheirHold => (Spec => []HeldIsActiveHolds)
  <1> SUFFICES ASSUME CapturesTouchTheirHold
               PROVE  Spec => []HeldIsActiveHolds
    OBVIOUS
  <1>1. ASpec => []HeldIsActiveHolds
    BY AtomicHeldIsActiveHolds
  <1>2. QED
    BY <1>1, LedgerImplementsAtomic, PTL

\* A customer's hold bounds what its capture takes, whatever the requests;
THEOREM LedgerCustomerCapture == Spec => []CustomerCaptureWithinHold
  BY LedgerImplementsAtomic, AtomicCustomerCapture, PTL

\* an internal account's as well, if no capture debits it by the minimal int64.
THEOREM LedgerCaptureWithinHold ==
  (\A q \in Requests : ~MinimalDebit(q)) => (Spec => []CaptureWithinHold)
  <1> SUFFICES ASSUME \A q \in Requests : ~MinimalDebit(q)
               PROVE  Spec => []CaptureWithinHold
    OBVIOUS
  <1>1. ASpec => []CaptureWithinHold
    BY AtomicCaptureWithinHold
  <1>2. QED
    BY <1>1, LedgerImplementsAtomic, PTL

-----------------------------------------------------------------------------
(* Answers *)

\* Process p is not answered "OK" in this step.
NotOK(p) == pc'[p] # "idle" \/ reply'[p] # "OK"

\* What a step of p writes into the variables of p.
LEMMA OwnVariables ==
  ASSUME LocalTypes, NEW p \in Procs
  PROVE  /\ \A at : Goto(p, at) => pc'[p] = at
         /\ \A at, a, b : GotoWith(p, at, a, b) => pc'[p] = at
         /\ \A at : Restart(p, at) => pc'[p] = at
         /\ \A code : End(p, code) => reply'[p] = code
         /\ \A code : Answer(p, code) => reply'[p] = code /\ UNCHANGED avars
  BY DEF LocalTypes, Goto, GotoWith, Restart, End, Answer

\* An "OK" of PlaceHold comes from the hold found at the start or from the commit.
LEMMA PlaceHoldIsTrue ==
  ASSUME Inv, NEW p \in Procs, PlaceHold(p)
  PROVE  NotOK(p) \/ Fulfilled(p)
  <1>0. LocalTypes /\ ProcInv(p) /\ ATypeOK
    BY DEF Inv, TypeOK, LocalTypes, NothingStale
  <1>1. req[p] \in PlaceHoldRequest /\ req[p].op = "place" /\ req[p].ref \in Refs
    BY <1>0 DEF PlaceHold, PlaceHoldRead, PlaceHoldLock, PlaceHoldInsert, PlaceHoldCommit,
       Runs, ProcInv, PlaceInv, PlacePC, PlaceHoldRequest
  <1>2. CASE PlaceHoldRead(p)
    <2>1. CASE pc'[p] = "hold_lock"
      BY <2>1 DEF NotOK
    <2>2. CASE Answer(p, "OK") /\ holds[req[p].ref] # NoHold
               /\ holds[req[p].ref].acct = req[p].acct /\ holds[req[p].ref].amount = req[p].amount
      <3>1. holds' = holds
        BY <2>2 DEF Answer, avars
      <3>2. QED
        BY <1>1, <2>2, <3>1 DEF Fulfilled
    <2>3. CASE \E code : code # "OK" /\ Answer(p, code)
      BY <1>0, <2>3, OwnVariables DEF NotOK
    <2>4. QED
      BY <1>0, <1>2, <2>1, <2>2, <2>3, OwnVariables DEF PlaceHoldRead
  <1>3. CASE PlaceHoldLock(p)
    BY <1>0, <1>3, OwnVariables DEF PlaceHoldLock, NotOK
  <1>4. CASE PlaceHoldInsert(p)
    BY <1>0, <1>4, OwnVariables DEF PlaceHoldInsert, NotOK
  <1>5. CASE PlaceHoldCommit(p)
    <2>1. holds'[req[p].ref] = [acct |-> req[p].acct, amount |-> req[p].amount,
                                status |-> "active"]
      BY <1>0, <1>1, <1>5 DEF PlaceHoldCommit, ATypeOK
    <2>2. holds'[req[p].ref] # NoHold
      <3>1. holds'[req[p].ref].status = "active" /\ NoHold.status = "none"
        BY <2>1 DEF NoHold
      <3>2. QED
        BY <3>1
    <2>3. QED
      BY <1>1, <2>1, <2>2 DEF Fulfilled
  <1>6. QED
    BY <1>2, <1>3, <1>4, <1>5 DEF PlaceHold

\* An "OK" of ReleaseHold comes from a hold already released or from the commit.
LEMMA ReleaseHoldIsTrue ==
  ASSUME Inv, NEW p \in Procs, ReleaseHold(p)
  PROVE  NotOK(p) \/ Fulfilled(p)
  <1>0. LocalTypes /\ ProcInv(p) /\ ATypeOK
    BY DEF Inv, TypeOK, LocalTypes, NothingStale
  <1>1. req[p] \in ReleaseHoldRequest /\ req[p].op = "release" /\ req[p].hold \in Refs
    BY <1>0 DEF ReleaseHold, ReleaseHoldLock, ReleaseHoldBalance, ReleaseHoldCommit,
       Runs, ProcInv, ReleaseInv, ReleasePC, ReleaseHoldRequest
  <1>2. CASE ReleaseHoldLock(p)
    <2>1. CASE holds[req[p].hold].status = "released" /\ Answer(p, "OK")
      BY <1>1, <2>1 DEF Fulfilled, Answer, avars
    <2>2. QED
      BY <1>0, <1>2, <2>1, OwnVariables DEF ReleaseHoldLock, NotOK
  <1>3. CASE ReleaseHoldBalance(p)
    BY <1>0, <1>3, OwnVariables DEF ReleaseHoldBalance, NotOK
  <1>4. CASE ReleaseHoldCommit(p)
    <2>1. holds[req[p].hold] \in Hold
      BY <1>0, <1>1, <1>4 DEF ReleaseHoldCommit, Runs, ProcInv, ReleaseInv, ATypeOK, NoHold
    <2>2. holds'[req[p].hold].status = "released"
      BY <1>0, <1>1, <1>4, <2>1 DEF ReleaseHoldCommit, ATypeOK, Hold
    <2>3. QED
      BY <1>1, <2>2 DEF Fulfilled
  <1>5. QED
    BY <1>2, <1>3, <1>4 DEF ReleaseHold

\* An "OK" of PostTransaction comes from the entry found at the start, from the
\* commit, or from the entry found after losing the race for the reference.
LEMMA PostIsTrue ==
  ASSUME Inv, NEW p \in Procs, PostTransaction(p)
  PROVE  NotOK(p) \/ Fulfilled(p)
  <1>0. LocalTypes /\ ProcInv(p) /\ ATypeOK
    BY DEF Inv, TypeOK, LocalTypes, NothingStale
  <1>1. req[p] \in PostRequest /\ req[p].op = "post" /\ req[p].ref \in Refs
    BY <1>0 DEF PostTransaction, PostRead, PostHold, PostBalance, PostRef, PostCommit,
       PostReplay, Runs, ProcInv, PostInv, PostPC, PostRequest
  <1>2. ASSUME Answer(p, "OK"), SamePayload(entries[req[p].ref], req[p].legs)
        PROVE  Fulfilled(p)
    BY <1>1, <1>2 DEF Fulfilled, Answer, avars
  <1>3. ASSUME NEW code, code # "OK", Answer(p, code)
        PROVE  NotOK(p)
    BY <1>0, <1>3, OwnVariables DEF NotOK
  <1>4. CASE PostRead(p)
    <2>1. CASE pc'[p] \in {"post_bal", "post_hold"}
      BY <2>1 DEF NotOK
    <2>2. QED
      BY <1>0, <1>2, <1>3, <1>4, <2>1, OwnVariables DEF PostRead
  <1>5. CASE PostHold(p)
    BY <1>0, <1>3, <1>5, OwnVariables DEF PostHold, NotOK
  <1>6. CASE PostBalance(p)
    BY <1>0, <1>3, <1>6, OwnVariables DEF PostBalance, NotOK
  <1>7. CASE PostRef(p)
    BY <1>0, <1>7, OwnVariables DEF PostRef, NotOK
  <1>8. CASE PostCommit(p)
    <2>1. entries'[req[p].ref] = req[p].legs
      BY <1>0, <1>1, <1>8 DEF PostCommit, ATypeOK
    <2>2. QED
      BY <1>1, <2>1 DEF Fulfilled, SamePayload
  <1>9. CASE PostReplay(p)
    BY <1>2, <1>3, <1>9 DEF PostReplay
  <1>10. QED
    BY <1>4, <1>5, <1>6, <1>7, <1>8, <1>9 DEF PostTransaction

\* No caller is told "OK" for something the committed tables do not say: neither
\* the fast paths, nor the retry of a lost insert, nor the replay of a lost race.
THEOREM AnswersHold == Spec => AnswersAreTrue
  <1> DEFINE True(p) ==
        (pc[p] # "idle" /\ pc'[p] = "idle" /\ reply'[p] = "OK") => Fulfilled(p)
  <1>1. Inv /\ [Next]_vars => [\A p \in Procs : True(p)]_vars
    <2> SUFFICES ASSUME Inv, Next, NEW p \in Procs
                 PROVE  True(p)
      OBVIOUS
    <2>0. LocalTypes
      BY DEF Inv, TypeOK, LocalTypes
    <2>1. ASSUME pc'[p] = pc[p] \/ NotOK(p)
          PROVE  True(p)
      BY <2>1 DEF NotOK
    <2>2. ASSUME NEW s \in Procs, Step(s)
          PROVE  True(p)
      <3>1. CASE s = p
        BY <2>1, <2>2, <3>1, PlaceHoldIsTrue, ReleaseHoldIsTrue, PostIsTrue DEF Step
      <3>2. CASE s # p
        <4>1. pc'[p] = pc[p]
          BY <2>0, <2>2, <3>2
          DEF Step, PlaceHold, PlaceHoldRead, PlaceHoldLock, PlaceHoldInsert, PlaceHoldCommit,
              ReleaseHold, ReleaseHoldLock, ReleaseHoldBalance, ReleaseHoldCommit,
              PostTransaction, PostRead, PostHold, PostBalance, PostRef, PostCommit, PostReplay,
              Answer, Commit, End, Goto, GotoWith, Restart, LocalTypes
        <4>2. QED
          BY <2>1, <4>1
      <3>3. QED
        BY <3>1, <3>2
    <2>3. ASSUME NEW s \in Procs, Abort(s)
          PROVE  True(p)
      <3>1. pc'[p] = pc[p] \/ reply'[p] # "OK"
        BY <2>0, <2>3 DEF Abort, End, LocalTypes
      <3>2. QED
        BY <2>1, <3>1 DEF NotOK
    <2>4. ASSUME NEW s \in Procs, NEW q, Start(s, q)
          PROVE  True(p)
      <3>1. pc[p] = "idle" \/ pc'[p] = pc[p]
        BY <2>0, <2>4 DEF Start, LocalTypes
      <3>2. QED
        BY <2>1, <3>1
    <2>5. ASSUME UNCHANGED pc
          PROVE  True(p)
      BY <2>1, <2>5
    <2>6. ASSUME NEW a \in Customers, CreateAccount(a)
          PROVE  True(p)
      BY <2>5, <2>6 DEF CreateAccount, lvars
    <2>7. ASSUME NEW r \in Refs, Expire(r)
          PROVE  True(p)
      BY <2>5, <2>7 DEF Expire, lvars
    <2>8. ASSUME NEW r \in Refs, SweepNext(r)
          PROVE  True(p)
      <3>1. Sweeper \in Procs
        BY DEF Procs
      <3>2. QED
        BY <2>4, <2>8, <3>1 DEF SweepNext
    <2>9. ASSUME SweepScan
          PROVE  True(p)
      BY <2>5, <2>9 DEF SweepScan
    <2>10. ASSUME NEW w \in Workers, NEW q \in Requests, Serve(w, q)
           PROVE  True(p)
      BY <2>4, <2>10 DEF Serve, Procs
    <2>11. QED
      BY <2>2, <2>3, <2>6, <2>7, <2>8, <2>9, <2>10 DEF Next
  <1>2. QED
    BY <1>1, LockingDiscipline, PTL DEF Spec, AnswersAreTrue, Inv

-----------------------------------------------------------------------------
(* Deadlock freedom *)

\* A non-empty set of accounts has a first one in the lock order.
LEMMA FirstAccount ==
  ASSUME NEW T, T \subseteq Accounts, T # {}
  PROVE  \E x \in T : \A y \in T : x <= y
  <1>1. T \subseteq Nat
    BY AccountsAssumption DEF Accounts
  <1>2. QED
    BY <1>1, LeastNatural

\* The lock loop of PostTransaction waits for the row WaitRank names.
LEMMA NextLock ==
  ASSUME Inv, NEW p \in Procs, pc[p] = "post_bal"
  PROVE  /\ WaitRank(p)[1] = 1
         /\ WaitRank(p)[2] \in Remaining(p)
         /\ \A a \in Accounts : IsNext(p, a) => a = WaitRank(p)[2]
  <1> DEFINE c == CHOOSE a \in Accounts : IsNext(p, a)
  <1>1. Remaining(p) # {} /\ req[p] \in PostRequest
    BY DEF Inv, NothingStale, ProcInv, PostInv, PostPC
  <1>2. Affected(req[p].legs) \subseteq Accounts
    BY <1>1, ValidEntry DEF PostRequest
  <1>3. Remaining(p) \subseteq Accounts
    BY <1>2 DEF Remaining
  <1>4. \E a \in Accounts : IsNext(p, a)
    BY <1>1, <1>3, FirstAccount DEF IsNext
  <1>5. c \in Accounts /\ IsNext(p, c)
    BY <1>4, Zenon
  <1>6. WaitRank(p) = <<1, c>>
    BY DEF WaitRank
  <1>7. ASSUME NEW a \in Accounts, IsNext(p, a)
        PROVE  a = c
    <2>1. a <= c /\ c <= a
      BY <1>5, <1>7 DEF IsNext
    <2>2. QED
      BY <1>5, <1>7, <2>1, AccountsAssumption DEF Accounts
  <1>8. QED
    BY <1>5, <1>6, <1>7 DEF IsNext

\* A wait for a process goes up in the lock order.
LEMMA WaitsGoUp ==
  ASSUME Inv, NEW p \in Procs, NEW s \in Procs, WaitsFor(p, s)
  PROVE  Below(WaitRank(p), WaitRank(s))
  <1>0. ProcInv(p) /\ ProcInv(s) /\ TypeOK
    BY DEF Inv, NothingStale
  <1>1. CASE pc[p] \in {"rel_lock", "post_hold"} /\ HoldLock(s) = req[p].hold
    <2>1. req[p].hold # NoRef
      BY <1>0, <1>1, RefsAssumption
         DEF ProcInv, ReleaseInv, PostInv, ReleasePC, ReleaseHoldRequest
    <2>2. pc[s] \in {"rel_bal", "rel_commit", "post_bal", "post_ref", "post_commit"}
      BY <1>1, <2>1 DEF HoldLock
    <2>3. WaitRank(p) = <<0, 0>>
      BY <1>1 DEF WaitRank
    <2>4. WaitRank(s)[1] \in {1, 2, 3}
      BY <2>2 DEF WaitRank
    <2>5. QED
      BY <2>3, <2>4 DEF Below
  <1>2. ASSUME NEW a \in locks[s], WantsBalance(p, a)
        PROVE  Below(WaitRank(p), WaitRank(s))
    <2>1. a \in Accounts /\ a \in Nat
      BY <1>0, AccountsAssumption DEF TypeOK, Accounts
    <2>2. WaitRank(p)[1] = 1 /\ WaitRank(p)[2] = a
      <3>1. CASE pc[p] = "post_bal"
        BY <1>2, <2>1, <3>1, NextLock DEF WantsBalance
      <3>2. CASE pc[p] \in {"hold_lock", "rel_bal"}
        BY <1>2, <3>2 DEF WantsBalance, WaitRank
      <3>3. QED
        BY <1>2, <3>1, <3>2 DEF WantsBalance
    <2>3. pc[s] \in {"hold_insert", "hold_commit", "rel_commit",
                     "post_bal", "post_ref", "post_commit"}
      BY <1>0, <1>2 DEF ProcInv, PlaceInv, ReleaseInv, PostInv, TypeOK, PlacePC, ReleasePC, PostPC
    <2>4. CASE pc[s] = "post_bal"
      <3>1. WaitRank(s)[1] = 1 /\ WaitRank(s)[2] \in Remaining(s)
        BY <2>4, NextLock
      <3>2. a < WaitRank(s)[2]
        BY <1>0, <1>2, <2>4, <3>1 DEF ProcInv, PostInv
      <3>3. QED
        BY <2>2, <3>1, <3>2 DEF Below
    <2>5. CASE pc[s] # "post_bal"
      <3>1. WaitRank(s)[1] \in {2, 3}
        BY <2>3, <2>5 DEF WaitRank
      <3>2. QED
        BY <2>2, <3>1 DEF Below
    <2>6. QED
      BY <2>4, <2>5
  <1>3. CASE pc[p] \in {"hold_insert", "post_ref"} /\ pc[s] \in {"hold_commit", "post_commit"}
    <2>1. WaitRank(p) = <<2, 0>> /\ WaitRank(s) = <<3, 0>>
      BY <1>3 DEF WaitRank
    <2>2. QED
      BY <2>1 DEF Below
  <1>4. QED
    BY <1>1, <1>2, <1>3 DEF WaitsFor

\* No circle of requests waiting for each other: every wait goes up in the
\* canonical order of hold rows, balance rows by account, unique keys.
THEOREM DeadlockFreedom == Spec => []LockOrder
  <1>1. TypeOK /\ NothingStale => LockOrder
    BY WaitsGoUp DEF LockOrder, Inv
  <1>2. QED
    BY <1>1, LockingDiscipline, PTL
=============================================================================
