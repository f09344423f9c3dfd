------------------------ MODULE TransferRulesProofs -------------------------
(***************************************************************************)
(* Proofs about the rules of transfers, for any number of transfers,       *)
(* drivers, accounts, days and rates, any scale of rates and width of      *)
(* amounts: the daily limit, the entry the ledger is asked for, and the    *)
(* check digits of the account that is paid.                               *)
(***************************************************************************)
EXTENDS TransferRules, SumTheorems, TLAPS

-----------------------------------------------------------------------------
(* Rows and drivers *)

RowOf(row) ==
  /\ row = [spec |-> row.spec, to |-> row.to, state |-> row.state, reason |-> row.reason,
            fx |-> row.fx, created |-> row.created, checked |-> row.checked]
  /\ row.spec \in Specs /\ ValidateSpec(row.spec)
  /\ row.state \in {"VALIDATING", "HELD", "FAILED"}
  /\ row.created \in Nat

WorkOf(w) ==
  \/ w = Idle
  \/ /\ w = [at |-> w.at, x |-> w.x, verdict |-> w.verdict, to |-> w.to, day |-> w.day,
             fx |-> w.fx]
     /\ w.at \in {"limits", "write"}
     /\ w.x \in DOMAIN rows
     /\ w.at = "limits" => w.verdict = "OK"

RulesTypes ==
  /\ today \in Nat
  /\ IsFiniteSet(DOMAIN rows)
  /\ \A x \in DOMAIN rows : RowOf(rows[x])
  /\ work = [d \in Drivers |-> work[d]]
  /\ \A d \in Drivers : WorkOf(work[d])

\* Rows come in and change their state, but keep what was asked for and when.
RowsGo ==
  \A x \in DOMAIN rows : /\ x \in DOMAIN rows'
                         /\ rows'[x].spec = rows[x].spec
                         /\ rows'[x].created = rows[x].created

\* Tables are empty and drivers idle at the start.
LEMMA TypesStart == RulesInit => RulesTypes
<1> SUFFICES ASSUME RulesInit PROVE RulesTypes OBVIOUS
<1>1. DOMAIN rows = {} BY DEF RulesInit
<1>2. IsFiniteSet(DOMAIN rows) BY <1>1, FS_EmptySet
<1>3. \A d \in Drivers : work[d] = Idle BY DEF RulesInit
<1> QED BY <1>1, <1>2, <1>3 DEF RulesInit, RulesTypes, WorkOf

\* Drivers that have nothing to do with a change of the rows keep their work.
LEMMA WorkStays ==
  ASSUME RulesTypes, RowsGo, NEW d \in Drivers, work'[d] = work[d]
  PROVE  WorkOf(work[d])'
<1>1. WorkOf(work[d]) BY DEF RulesTypes
<1> QED BY <1>1 DEF WorkOf, RowsGo

\* A transfer is created.
LEMMA CreateTypes ==
  ASSUME RulesTypes, NEW x \in Ids, NEW s \in Specs, CreateTransfer(x, s)
  PROVE  RulesTypes' /\ RowsGo
<1> USE DEF CreateTransfer
<1>1. DOMAIN rows' = DOMAIN rows \cup {x} OBVIOUS
<1>2. IsFiniteSet(DOMAIN rows') BY <1>1, FS_AddElement DEF RulesTypes
<1>3. rows'[x] = InsertTransfer(s) /\ \A y \in DOMAIN rows : rows'[y] = rows[y]
  OBVIOUS
<1>4. RowOf(InsertTransfer(s)) BY DEF RowOf, InsertTransfer, RulesTypes
<1>5. \A y \in DOMAIN rows' : RowOf(rows'[y]) BY <1>1, <1>3, <1>4 DEF RulesTypes
<1>6. RowsGo BY <1>1, <1>3 DEF RowsGo
<1>7. \A d \in Drivers : WorkOf(work[d])' BY <1>6, WorkStays
<1> QED BY <1>2, <1>5, <1>6, <1>7 DEF RulesTypes, RowOf

\* What a driver has in hand once it has read the accounts and the rate.
Read(s, x) ==
  LET to == Destination(s)
      verdict == Verdict(s, to)
  IN  [at |-> IF verdict = "OK" /\ s.type # "TOPUP" THEN "limits" ELSE "write",
       x |-> x, verdict |-> verdict, to |-> to, day |-> today,
       fx |-> IF verdict = "OK" /\ Crosses(s, to) THEN FxLock(s, to) ELSE NoFx]

\* The accounts and the rate are read.
LEMMA LookUpTypes ==
  ASSUME RulesTypes, NEW d \in Drivers, NEW x \in DOMAIN rows, LookUp(d, x)
  PROVE  RulesTypes' /\ RowsGo
<1>1. rows' = rows /\ today' = today BY DEF LookUp
<1>2. RowsGo BY <1>1 DEF RowsGo
<1>3. work' = [e \in Drivers |-> work'[e]] /\ \A e \in Drivers \ {d} : work'[e] = work[e]
  BY DEF LookUp, RulesTypes
<1>4. work'[d] = Read(rows[x].spec, x) BY DEF LookUp, Read, RulesTypes
<1>5. WorkOf(work[d])' BY <1>1, <1>4 DEF WorkOf, Read
<1>6. \A e \in Drivers \ {d} : WorkOf(work[e])' BY <1>2, <1>3, WorkStays
<1> QED BY <1>1, <1>2, <1>3, <1>5, <1>6 DEF RulesTypes, RowOf

\* The limits are checked.
LEMMA LimitsTypes ==
  ASSUME RulesTypes, NEW d \in Drivers, Limits(d)
  PROVE  RulesTypes' /\ RowsGo
<1>1. rows' = rows /\ today' = today BY DEF Limits
<1>2. RowsGo BY <1>1 DEF RowsGo
<1>3. work' = [e \in Drivers |-> work'[e]] /\ \A e \in Drivers \ {d} : work'[e] = work[e]
  BY DEF Limits, RulesTypes
<1>4. work[d] # Idle /\ WorkOf(work[d]) BY DEF Limits, Idle, RulesTypes
<1>5. PICK verdict :
        work'[d] = [at |-> "write", x |-> work[d].x, verdict |-> verdict, to |-> work[d].to,
                    day |-> today, fx |-> work[d].fx]
  BY <1>4 DEF Limits, WorkOf, RulesTypes
<1>6. WorkOf(work[d])' BY <1>1, <1>4, <1>5 DEF WorkOf
<1>7. \A e \in Drivers \ {d} : WorkOf(work[e])' BY <1>2, <1>3, WorkStays
<1> QED BY <1>1, <1>2, <1>3, <1>6, <1>7 DEF RulesTypes, RowOf

\* What the guarded update may do to a row.
LEMMA UpdatedRow ==
  ASSUME NEW row, NEW w, RowOf(row)
  PROVE  LET new == UpdateTransferGuarded(row, w)
         IN  /\ RowOf(new) /\ new.spec = row.spec /\ new.created = row.created
             /\ \/ new = row
                \/ row.state = "VALIDATING" /\ w.verdict # "OK" /\ new.state = "FAILED"
                \/ /\ row.state = "VALIDATING" /\ w.verdict = "OK" /\ new.state = "HELD"
                   /\ new.to = w.to /\ new.fx = w.fx /\ new.checked = w.day
  BY DEF UpdateTransferGuarded, Decided, RowOf

\* The outcome is written.
LEMMA WriteTypes ==
  ASSUME RulesTypes, NEW d \in Drivers, Write(d)
  PROVE  /\ RulesTypes' /\ RowsGo
         /\ work[d].x \in DOMAIN rows /\ DOMAIN rows' = DOMAIN rows
         /\ rows'[work[d].x] = UpdateTransferGuarded(rows[work[d].x], work[d])
         /\ \A x \in DOMAIN rows \ {work[d].x} : rows'[x] = rows[x]
<1> DEFINE x == work[d].x
<1>1. work[d] # Idle /\ WorkOf(work[d]) BY DEF Write, Idle, RulesTypes
<1>2. x \in DOMAIN rows BY <1>1 DEF WorkOf
<1>3. /\ DOMAIN rows' = DOMAIN rows
      /\ rows'[x] = UpdateTransferGuarded(rows[x], work[d])
      /\ \A y \in DOMAIN rows \ {x} : rows'[y] = rows[y]
  BY <1>2 DEF Write
<1> HIDE DEF x
<1>4. RowOf(rows[x]) BY <1>2 DEF RulesTypes
<1>5. RowOf(rows'[x]) /\ rows'[x].spec = rows[x].spec /\ rows'[x].created = rows[x].created
  BY <1>3, <1>4, UpdatedRow
<1>6. RowsGo BY <1>3, <1>5 DEF RowsGo
<1>7. \A y \in DOMAIN rows' : RowOf(rows'[y]) BY <1>3, <1>5 DEF RulesTypes
<1>8. /\ work' = [e \in Drivers |-> work'[e]] /\ work'[d] = Idle
      /\ \A e \in Drivers \ {d} : work'[e] = work[e]
  BY DEF Write, RulesTypes
<1>9. WorkOf(work[d])' BY <1>8 DEF WorkOf, Idle
<1>10. \A e \in Drivers \ {d} : WorkOf(work[e])' BY <1>6, <1>8, WorkStays
<1>11. today' = today BY DEF Write
<1>12. RulesTypes' BY <1>3, <1>7, <1>8, <1>9, <1>10, <1>11 DEF RulesTypes, RowOf
<1> QED BY <1>2, <1>3, <1>6, <1>12 DEF x

\* A transfer that was accepted fails.
LEMMA CompensateTypes ==
  ASSUME RulesTypes, NEW x \in DOMAIN rows, Compensate(x)
  PROVE  /\ RulesTypes' /\ RowsGo /\ DOMAIN rows' = DOMAIN rows
         /\ rows'[x].state = "FAILED"
         /\ \A y \in DOMAIN rows \ {x} : rows'[y] = rows[y]
<1>1. /\ DOMAIN rows' = DOMAIN rows /\ today' = today /\ work' = work
      /\ rows'[x] = [rows[x] EXCEPT !.state = "FAILED"]
      /\ \A y \in DOMAIN rows \ {x} : rows'[y] = rows[y]
  BY DEF Compensate
<1>2. RowOf(rows[x]) BY DEF RulesTypes
<1>3. /\ RowOf(rows'[x]) /\ rows'[x].state = "FAILED"
      /\ rows'[x].spec = rows[x].spec /\ rows'[x].created = rows[x].created
  BY <1>1, <1>2 DEF RowOf
<1>4. RowsGo BY <1>1, <1>3 DEF RowsGo
<1>5. \A d \in Drivers : WorkOf(work[d])' BY <1>1, <1>4, WorkStays
<1> QED BY <1>1, <1>3, <1>4, <1>5 DEF RulesTypes, RowOf

\* A status changes or a day ends; no row or driver is touched.
LEMMA OutsideTypes ==
  ASSUME RulesTypes, Midnight \/ (\E a \in Freezable : SetStatus(a)) \/ UNCHANGED rvars
  PROVE  RulesTypes' /\ RowsGo /\ rows' = rows /\ work' = work /\ today <= today'
<1>1. rows' = rows /\ work' = work BY DEF Midnight, SetStatus, rvars
<1>2. today' = today \/ today' = today + 1 BY DEF Midnight, SetStatus, rvars
<1>3. RowsGo BY <1>1 DEF RowsGo
<1>4. \A d \in Drivers : WorkOf(work[d])' BY <1>1, <1>3, WorkStays
<1> QED BY <1>1, <1>2, <1>3, <1>4 DEF RulesTypes, RowOf
-----------------------------------------------------------------------------
(* The daily limit *)

\* The driver has found the transfer within the limits and has not written it yet.
Clears(d, x, day) ==
  /\ work[d].at = "write" /\ work[d].verdict = "OK"
  /\ work[d].x = x /\ work[d].day = day

\* The transfers that count towards a day's limit, or will once their driver writes.
Cleared(day, c, cur) ==
  {x \in DOMAIN rows :
     /\ rows[x].spec.type # "TOPUP"
     /\ rows[x].spec.customer = c /\ rows[x].spec.cur = cur
     /\ rows[x].created = day
     /\ \/ rows[x].state = "HELD" /\ rows[x].checked = day
        \/ rows[x].state = "VALIDATING" /\ \E d \in Drivers : Clears(d, x, day)}

WithinLimit(day, c, cur) == SumFunctionOnSet(Amounts, Cleared(day, c, cur)) <= Daily[cur]

DailyInv ==
  \A day \in Nat, c \in {s.customer : s \in Specs}, cur \in Currencies :
    WithinLimit(day, c, cur)

\* The amounts of rows can be added up, and none is negative.
LEMMA RowsAddUp ==
  ASSUME RulesTypes, NEW S, S \subseteq DOMAIN rows
  PROVE  Summable(Amounts, S) /\ \A x \in S : Amounts[x] \in Nat
<1>1. IsFiniteSet(S) BY FS_Subset DEF RulesTypes
<1>2. \A x \in S : Amounts[x] \in Nat
  <2> TAKE x \in S
  <2>1. rows[x].spec \in Specs /\ rows[x].spec.amount > 0
    BY DEF RulesTypes, RowOf, ValidateSpec
  <2>2. rows[x].spec.amount \in Int /\ Amounts[x] = rows[x].spec.amount
    BY <2>1, AmountsAssumption, MoneyAssumption DEF Amounts
  <2> QED BY <2>1, <2>2
<1> QED BY <1>1, <1>2 DEF Summable

\* A smaller part of the rows adds up to less, whatever became of their states.
LEMMA PartAddsUpToLess ==
  ASSUME RulesTypes, RulesTypes', RowsGo,
         NEW S, NEW T, S \subseteq T, T \subseteq DOMAIN rows
  PROVE  /\ SumFunctionOnSet(Amounts', S) <= SumFunctionOnSet(Amounts, T)
         /\ SumFunctionOnSet(Amounts', S) \in Int /\ SumFunctionOnSet(Amounts, T) \in Int
<1>1. Summable(Amounts, T) /\ \A x \in T : Amounts[x] >= 0 BY RowsAddUp
<1>2. Summable(Amounts, S) BY RowsAddUp
<1>3. IsFiniteSet(S) /\ \A x \in S : Amounts'[x] = Amounts[x]
  BY <1>2 DEF Summable, RowsGo, Amounts
<1>4. SumFunctionOnSet(Amounts', S) = SumFunctionOnSet(Amounts, S) BY <1>3, SumAgree
<1>5. SumFunctionOnSet(Amounts, S) <= SumFunctionOnSet(Amounts, T) BY <1>1, SumMonotone
<1>6. SumFunctionOnSet(Amounts, S) \in Int /\ SumFunctionOnSet(Amounts, T) \in Int
  BY <1>1, <1>2, SumType
<1> QED BY <1>4, <1>5, <1>6

\* A step that clears no further transfer.
LEMMA FewerCleared ==
  ASSUME RulesTypes, RulesTypes', RowsGo, DailyInv,
         \A day \in Nat : \A c, cur : Cleared(day, c, cur)' \subseteq Cleared(day, c, cur)
  PROVE  DailyInv'
<1> SUFFICES ASSUME NEW day \in Nat, NEW c \in {s.customer : s \in Specs}, NEW cur \in Currencies
             PROVE  WithinLimit(day, c, cur)'
  BY DEF DailyInv
<1> DEFINE S == Cleared(day, c, cur)'
           T == Cleared(day, c, cur)
<1>1. S \subseteq T /\ T \subseteq DOMAIN rows BY DEF Cleared
<1>2. WithinLimit(day, c, cur) BY DEF DailyInv
<1> HIDE DEF S, T
<1>3. /\ SumFunctionOnSet(Amounts', S) <= SumFunctionOnSet(Amounts, T)
      /\ SumFunctionOnSet(Amounts', S) \in Int /\ SumFunctionOnSet(Amounts, T) \in Int
  BY <1>1, PartAddsUpToLess
<1>4. SumFunctionOnSet(Amounts, T) <= Daily[cur] BY <1>2 DEF WithinLimit, T
<1>5. Daily[cur] \in Nat BY AmountsAssumption
<1>6. SumFunctionOnSet(Amounts', S) <= Daily[cur] BY <1>3, <1>4, <1>5
<1> QED BY <1>6 DEF WithinLimit, S

\* A new transfer is in no driver's hands.
LEMMA CreateDaily ==
  ASSUME RulesTypes, DailyInv, NEW x \in Ids, NEW s \in Specs, CreateTransfer(x, s)
  PROVE  DailyInv'
<1>1. RulesTypes' /\ RowsGo BY CreateTypes
<1>2. /\ DOMAIN rows' = DOMAIN rows \cup {x} /\ work' = work
      /\ rows'[x].state = "VALIDATING" /\ \A y \in DOMAIN rows : rows'[y] = rows[y]
  BY DEF CreateTransfer, InsertTransfer
<1>3. \A d \in Drivers : \A day : ~Clears(d, x, day)'
  <2> SUFFICES ASSUME NEW d \in Drivers, NEW day, Clears(d, x, day) PROVE FALSE
    BY <1>2 DEF Clears
  <2>1. WorkOf(work[d]) /\ work[d] # Idle BY DEF RulesTypes, Clears, Idle
  <2> QED BY <2>1 DEF WorkOf, Clears, CreateTransfer
<1>4. \A day, c, cur : Cleared(day, c, cur)' \subseteq Cleared(day, c, cur)
  BY <1>2, <1>3 DEF Cleared, Clears
<1> QED BY <1>1, <1>4, FewerCleared

\* Nothing is cleared before the limits are checked; a top-up has none.
LEMMA LookUpDaily ==
  ASSUME RulesTypes, DailyInv, NEW d \in Drivers, NEW x \in DOMAIN rows, LookUp(d, x)
  PROVE  DailyInv'
<1>1. RulesTypes' /\ RowsGo BY LookUpTypes
<1>2. rows' = rows /\ \A e \in Drivers \ {d} : work'[e] = work[e]
  BY DEF LookUp, RulesTypes
<1>3. work'[d] = Read(rows[x].spec, x) BY DEF LookUp, Read, RulesTypes
<1>4. \A y, day : Clears(d, y, day)' => y = x /\ rows[x].spec.type = "TOPUP"
  BY <1>3 DEF Clears, Read
<1>5. \A day, c, cur : Cleared(day, c, cur)' \subseteq Cleared(day, c, cur)
  BY <1>2, <1>4 DEF Cleared, Clears
<1> QED BY <1>1, <1>5, FewerCleared

\* What was cleared today is part of what SumDailyOutgoing adds up, and so is the
\* transfer that is being checked: the two together stay within the limit.
LEMMA LimitsDaily ==
  ASSUME RulesTypes, DailyInv, NEW d \in Drivers, Limits(d)
  PROVE  DailyInv'
<1> DEFINE x == work[d].x
<1>1. RulesTypes' /\ RowsGo BY LimitsTypes
<1>2. rows' = rows /\ \A e \in Drivers \ {d} : work'[e] = work[e]
  BY DEF Limits, RulesTypes
<1>3. work[d] # Idle /\ WorkOf(work[d]) BY DEF Limits, Idle, RulesTypes
<1>4. x \in DOMAIN rows BY <1>3 DEF WorkOf
<1> DEFINE s == rows[x].spec
           sum == SumDailyOutgoing(s.customer, s.cur)
<1>5. /\ work'[d].at = "write" /\ work'[d].x = x /\ work'[d].day = today
      /\ work'[d].verdict = "OK" => CheckLimits(s.amount, GetLimit(s.cur), sum - s.amount)
  BY <1>3 DEF Limits, WorkOf, RulesTypes
<1> HIDE DEF x, s, sum
<1> SUFFICES ASSUME NEW day \in Nat, NEW c \in {z.customer : z \in Specs}, NEW cur \in Currencies
             PROVE  WithinLimit(day, c, cur)'
  BY DEF DailyInv
<1>6. WithinLimit(day, c, cur) BY DEF DailyInv
<1> DEFINE Out == {y \in DOMAIN rows :
                     /\ rows[y].spec.customer = s.customer /\ rows[y].spec.cur = s.cur
                     /\ rows[y].spec.type # "TOPUP" /\ rows[y].state # "FAILED"
                     /\ rows[y].created >= today}
           S == Cleared(day, c, cur)'
           T == Cleared(day, c, cur)
<1>7. Daily[cur] \in Nat BY AmountsAssumption
<1>8. CASE S \subseteq T
  <2>1. T \subseteq DOMAIN rows BY DEF Cleared
  <2> HIDE DEF S, T
  <2>2. /\ SumFunctionOnSet(Amounts', S) <= SumFunctionOnSet(Amounts, T)
        /\ SumFunctionOnSet(Amounts', S) \in Int /\ SumFunctionOnSet(Amounts, T) \in Int
    BY <1>1, <1>8, <2>1, PartAddsUpToLess
  <2>3. SumFunctionOnSet(Amounts, T) <= Daily[cur] BY <1>6 DEF WithinLimit, T
  <2>4. SumFunctionOnSet(Amounts', S) <= Daily[cur] BY <1>7, <2>2, <2>3
  <2> QED BY <2>4 DEF WithinLimit, S
<1>9. CASE ~(S \subseteq T)
  <2>1. PICK y \in S : y \notin T BY <1>9
  <2>2. /\ y = x /\ day = today /\ work'[d].verdict = "OK"
        /\ s.customer = c /\ s.cur = cur
    BY <1>2, <1>5, <2>1 DEF Cleared, Clears, s
  <2>3. S \subseteq Out /\ Out \subseteq DOMAIN rows
    <3>1. \A z \in S : /\ z \in DOMAIN rows
                       /\ rows[z].spec.type # "TOPUP" /\ rows[z].state # "FAILED"
                       /\ rows[z].spec.customer = c /\ rows[z].spec.cur = cur
                       /\ rows[z].created = day
      BY <1>2 DEF Cleared
    <3>2. \A z \in S : rows[z].created >= today
      BY <2>2, <3>1
    <3> QED BY <2>2, <3>1, <3>2
  <2> HIDE DEF S, T
  <2>4. SumFunctionOnSet(Amounts, Out) = sum BY DEF SumDailyOutgoing, sum
  <2> HIDE DEF Out
  <2>5. /\ SumFunctionOnSet(Amounts', S) <= SumFunctionOnSet(Amounts, Out)
        /\ SumFunctionOnSet(Amounts', S) \in Int /\ SumFunctionOnSet(Amounts, Out) \in Int
    BY <1>1, <2>3, PartAddsUpToLess
  <2>6. sum - s.amount <= Daily[cur] - s.amount
    BY <1>5, <2>2 DEF CheckLimits, GetLimit
  <2>7. s.amount \in Int
    <3>1. s \in Specs BY <1>4 DEF RulesTypes, RowOf, s
    <3> QED BY <3>1, AmountsAssumption, MoneyAssumption
  <2>8. SumFunctionOnSet(Amounts', S) <= Daily[cur] BY <1>7, <2>4, <2>5, <2>6, <2>7
  <2> QED BY <2>8 DEF WithinLimit, S
<1> QED BY <1>8, <1>9

\* A transfer that is accepted was cleared by the driver that writes.
LEMMA WriteDaily ==
  ASSUME RulesTypes, DailyInv, NEW d \in Drivers, Write(d)
  PROVE  DailyInv'
<1> DEFINE x == work[d].x
<1>1. /\ RulesTypes' /\ RowsGo /\ x \in DOMAIN rows /\ DOMAIN rows' = DOMAIN rows
      /\ rows'[x] = UpdateTransferGuarded(rows[x], work[d])
      /\ \A y \in DOMAIN rows \ {x} : rows'[y] = rows[y]
  BY WriteTypes
<1>2. work[d].at = "write" /\ work'[d] = Idle /\ \A e \in Drivers \ {d} : work'[e] = work[e]
  BY DEF Write, RulesTypes
<1>3. \A e \in Drivers : \A y, day : Clears(e, y, day)' => Clears(e, y, day)
  BY <1>2 DEF Clears, Idle
<1> HIDE DEF x
<1>4. RowOf(rows[x]) BY <1>1 DEF RulesTypes
<1>5. /\ rows'[x].spec = rows[x].spec /\ rows'[x].created = rows[x].created
      /\ \/ rows'[x] = rows[x]
         \/ rows'[x].state = "FAILED"
         \/ /\ rows[x].state = "VALIDATING" /\ work[d].verdict = "OK"
            /\ rows'[x].state = "HELD" /\ rows'[x].checked = work[d].day
  BY <1>1, <1>4, UpdatedRow
<1>6. ASSUME NEW day, NEW c, NEW cur
      PROVE  Cleared(day, c, cur)' \subseteq Cleared(day, c, cur)
  <2> SUFFICES ASSUME NEW y \in Cleared(day, c, cur)' PROVE y \in Cleared(day, c, cur)
    OBVIOUS
  <2>1. CASE y # x BY <1>1, <1>3, <2>1 DEF Cleared
  <2>2. CASE y = x /\ rows'[x] = rows[x] BY <1>1, <1>3, <2>2 DEF Cleared
  <2>3. CASE y = x /\ rows'[x].state = "FAILED" BY <2>3 DEF Cleared
  <2>4. CASE /\ y = x /\ rows[x].state = "VALIDATING" /\ work[d].verdict = "OK"
             /\ rows'[x].state = "HELD" /\ rows'[x].checked = work[d].day
    <3>1. work[d].day = day BY <2>4 DEF Cleared
    <3>2. Clears(d, x, day) BY <1>2, <2>4, <3>1 DEF Clears, x
    <3> QED BY <1>1, <1>5, <2>4, <3>2 DEF Cleared
  <2> QED BY <1>5, <2>1, <2>2, <2>3, <2>4
<1> QED BY <1>1, <1>6, FewerCleared

\* Rows and drivers fit their types and the daily sums the limits at every step.
LEMMA DailyStep ==
  ASSUME RulesTypes, DailyInv, [RulesNext]_rvars
  PROVE  RulesTypes' /\ DailyInv'
<1>1. ASSUME NEW x \in Ids, NEW s \in Specs, CreateTransfer(x, s) PROVE RulesTypes' /\ DailyInv'
  BY <1>1, CreateTypes, CreateDaily
<1>2. ASSUME NEW d \in Drivers, NEW x \in DOMAIN rows, LookUp(d, x) PROVE RulesTypes' /\ DailyInv'
  BY <1>2, LookUpTypes, LookUpDaily
<1>3. ASSUME NEW d \in Drivers, Limits(d) PROVE RulesTypes' /\ DailyInv'
  BY <1>3, LimitsTypes, LimitsDaily
<1>4. ASSUME NEW d \in Drivers, Write(d) PROVE RulesTypes' /\ DailyInv'
  BY <1>4, WriteTypes, WriteDaily
<1>5. ASSUME NEW x \in DOMAIN rows, Compensate(x) PROVE RulesTypes' /\ DailyInv'
  <2>1. /\ RulesTypes' /\ RowsGo /\ DOMAIN rows' = DOMAIN rows
        /\ rows'[x].state = "FAILED"
        /\ \A y \in DOMAIN rows \ {x} : rows'[y] = rows[y]
    BY <1>5, CompensateTypes
  <2>2. work' = work BY <1>5 DEF Compensate
  <2>3. \A day, c, cur : Cleared(day, c, cur)' \subseteq Cleared(day, c, cur)
    BY <2>1, <2>2 DEF Cleared, Clears
  <2> QED BY <2>1, <2>3, FewerCleared
<1>6. ASSUME Midnight \/ (\E a \in Freezable : SetStatus(a)) \/ UNCHANGED rvars
      PROVE  RulesTypes' /\ DailyInv'
  <2>1. RulesTypes' /\ RowsGo /\ rows' = rows /\ work' = work BY <1>6, OutsideTypes
  <2>2. \A day, c, cur : Cleared(day, c, cur)' \subseteq Cleared(day, c, cur)
    BY <2>1 DEF Cleared, Clears
  <2> QED BY <2>1, <2>2, FewerCleared
<1> QED BY <1>1, <1>2, <1>3, <1>4, <1>5, <1>6 DEF RulesNext

\* The transfers of one customer that were created and checked on one day and have not
\* failed stay within the daily limit: validate's unlocked sum is enough, because a
\* transfer is committed before its own driver adds the others up.
THEOREM DailyLimitIsKept == RulesSpec => []DailyLimitHolds
<1>1. RulesInit => RulesTypes /\ DailyInv
  <2> SUFFICES ASSUME RulesInit PROVE DailyInv BY TypesStart
  <2>1. \A day, c, cur : Cleared(day, c, cur) = {} BY DEF RulesInit, Cleared
  <2>2. \A day, c, cur : SumFunctionOnSet(Amounts, Cleared(day, c, cur)) = 0
    BY <2>1, SumEmpty
  <2> QED BY <2>2, AmountsAssumption DEF DailyInv, WithinLimit
<1>2. RulesTypes /\ DailyInv /\ [RulesNext]_rvars => (RulesTypes /\ DailyInv)'
  BY DailyStep
<1>3. RulesTypes /\ DailyInv => DailyLimitHolds
  <2> SUFFICES ASSUME RulesTypes, DailyInv, NEW day \in 0..today,
                      NEW c \in {s.customer : s \in Specs}, NEW cur \in Currencies
               PROVE  SumFunctionOnSet(Amounts, AcceptedOn(day, c, cur)) <= Daily[cur]
    BY DEF DailyLimitHolds
  <2> DEFINE S == AcceptedOn(day, c, cur)
             T == Cleared(day, c, cur)
  <2>1. S \subseteq T /\ T \subseteq DOMAIN rows BY DEF AcceptedOn, Accepted, Cleared
  <2>2. day \in Nat BY DEF RulesTypes
  <2>3. SumFunctionOnSet(Amounts, T) <= Daily[cur] BY <2>2 DEF DailyInv, WithinLimit
  <2> HIDE DEF S, T
  <2>4. Summable(Amounts, T) /\ Summable(Amounts, S) /\ \A x \in T : Amounts[x] >= 0
    BY <2>1, RowsAddUp
  <2>5. SumFunctionOnSet(Amounts, S) <= SumFunctionOnSet(Amounts, T) BY <2>1, <2>4, SumMonotone
  <2>6. /\ SumFunctionOnSet(Amounts, S) \in Int /\ SumFunctionOnSet(Amounts, T) \in Int
        /\ Daily[cur] \in Int
    BY <2>4, SumType, AmountsAssumption
  <2>7. SumFunctionOnSet(Amounts, S) <= Daily[cur] BY <2>3, <2>5, <2>6
  <2> QED BY <2>7 DEF S
<1> QED BY <1>1, <1>2, <1>3, PTL DEF RulesSpec

-----------------------------------------------------------------------------
(* Conversion *)

\* mulDivHalfEven of a product that is already at hand.
HalfEven(n, den) ==
  LET q == Quo(n, den)
      r == n - q * den
      twice == 2 * (IF r >= 0 THEN r ELSE -r)
      away == twice > den \/ (twice = den /\ q % 2 = 1)
  IN  IF ~away THEN q ELSE IF n < 0 THEN q - 1 ELSE q + 1

\* Rounding the truncated quotient away from zero by its remainder is rounding to the
\* nearest integer, a tie to the even one.
LEMMA HalfEvenIsNearest ==
  ASSUME NEW n \in Int, NEW d \in Nat \ {0}
  PROVE  HalfEven(n, d) \in Int /\ Nearest(HalfEven(n, d), n, d)
<1> DEFINE q == Quo(n, d)
<1>1. /\ q \in Int
      /\ IF n >= 0 THEN 0 <= n - q * d /\ n - q * d < d
         ELSE -d < n - q * d /\ n - q * d <= 0
  BY DEF Quo
<1>2. PICK p \in Int : p = q * d BY <1>1
<1>3. q % 2 \in {0, 1} /\ (q + 1) % 2 = 1 - (q % 2) /\ (q - 1) % 2 = 1 - (q % 2) BY <1>1
<1>4. (q + 1) * d = p + d /\ (q - 1) * d = p - d BY <1>1, <1>2
<1> DEFINE r == n - p
           odd == q % 2 = 1
           twice == 2 * (IF r >= 0 THEN r ELSE -r)
           away == twice > d \/ (twice = d /\ odd)
           m == IF ~away THEN q ELSE IF n < 0 THEN q - 1 ELSE q + 1
           pm == IF ~away THEN p ELSE IF n < 0 THEN p - d ELSE p + d
           off == IF n >= pm THEN n - pm ELSE pm - n
<1>5. HalfEven(n, d) = m
  <2> HIDE DEF q
  <2> QED BY <1>2 DEF HalfEven, q
<1> HIDE DEF q
<1>6. m * d = pm /\ m \in Int BY <1>1, <1>2, <1>4
<1>7. 2 * off < d \/ (2 * off = d /\ m % 2 = 0)
  <2>1. CASE ~away
    <3>1. 2 * off = twice BY <1>1, <1>2, <2>1
    <3>2. twice \in Int /\ (twice < d \/ (twice = d /\ ~odd)) BY <1>1, <1>2, <2>1
    <3> QED BY <1>3, <2>1, <3>1, <3>2
  <2>2. CASE away /\ n < 0
    <3>1. off = IF n >= p - d THEN n - (p - d) ELSE (p - d) - n BY <2>2
    <3>2. n - p <= 0 /\ -d < n - p BY <1>1, <1>2, <2>2
    <3>3. off = n - p + d BY <1>2, <3>1, <3>2
    <3>4. 2 * (p - n) > d \/ (2 * (p - n) = d /\ odd) BY <1>1, <1>2, <2>2, <3>2
    <3>5. 2 * off < d \/ (2 * off = d /\ odd) BY <1>2, <3>3, <3>4
    <3>6. m = q - 1 BY <2>2
    <3>7. odd => (q - 1) % 2 = 0 BY <1>1, <1>3
    <3>8. odd => m % 2 = 0
      <4> HIDE DEF m
      <4> QED BY <3>6, <3>7
    <3> QED BY <3>5, <3>8
  <2>3. CASE away /\ ~(n < 0)
    <3>1. off = IF n >= p + d THEN n - (p + d) ELSE (p + d) - n BY <2>3
    <3>2. n - p >= 0 /\ n - p < d BY <1>1, <1>2, <2>3
    <3>3. off = p + d - n BY <1>2, <3>1, <3>2
    <3>4. 2 * (n - p) > d \/ (2 * (n - p) = d /\ odd) BY <1>1, <1>2, <2>3, <3>2
    <3>5. 2 * off < d \/ (2 * off = d /\ odd) BY <1>2, <3>3, <3>4
    <3>6. m = q + 1 BY <2>3
    <3>7. odd => (q + 1) % 2 = 0 BY <1>1, <1>3
    <3>8. odd => m % 2 = 0
      <4> HIDE DEF m
      <4> QED BY <3>6, <3>7
    <3> QED BY <3>5, <3>8
  <2> QED BY <2>1, <2>2, <2>3
<1>8. Nearest(m, n, d)
  <2> HIDE DEF m
  <2>1. Nearest(m, n, d) <=> LET o == IF n >= pm THEN n - pm ELSE pm - n
                             IN  2 * o < d \/ (2 * o = d /\ m % 2 = 0)
    BY <1>6 DEF Nearest
  <2> QED BY <1>7, <2>1
<1> QED BY <1>5, <1>6, <1>8

\* Convert and ConvertInverse round to the nearest unit, ties to even, whatever the
\* amount, its sign, the rate and the scale.
THEOREM ConversionIsNearest ==
  \A v \in Int, num \in Int, den \in Nat \ {0} :
    MulDivHalfEven(v, num, den) \in Int /\ Nearest(MulDivHalfEven(v, num, den), v * num, den)
<1> TAKE v \in Int, num \in Int, den \in Nat \ {0}
<1>1. PICK n \in Int : n = v * num OBVIOUS
<1>2. MulDivHalfEven(v, num, den) = HalfEven(n, den) BY <1>1 DEF MulDivHalfEven, HalfEven
<1>3. HalfEven(n, den) \in Int /\ Nearest(HalfEven(n, den), n, den) BY HalfEvenIsNearest
<1> QED BY <1>1, <1>2, <1>3

-----------------------------------------------------------------------------
(* Entries the books accept *)

\* A function on 1..n is a sequence of length n.
LEMMA LenOf ==
  ASSUME NEW n \in Nat, NEW D, D = [i \in 1..n |-> D[i]]
  PROVE  Len(D) = n
<1>1. \A i \in 1..n : D[i] \in {D[j] : j \in 1..n} OBVIOUS
<1>2. D \in [1..n -> {D[j] : j \in 1..n}] BY <1>1
<1>3. D \in Seq({D[j] : j \in 1..n}) BY <1>2
<1>4. DOMAIN D = 1..n OBVIOUS
<1> QED BY <1>3, <1>4

\* The legs' amounts, and the legs of an account and of a currency among the first n.
BooksAmounts(D) == [i \in DOMAIN D |-> D[i].amount]
OfAccount(D, n, a) == {i \in 1..n : D[i].acct = a}
OfCurrency(D, n, c) == {i \in 1..n : D[i].cur = c}

\* The sums of the books, instantiated for the saga, are sums.
LEMMA BooksAddUp ==
  ASSUME NEW f, NEW S
  PROVE  Books!SumFunctionOnSet(f, S) = SumFunctionOnSet(f, S)
  BY DEF SumFunctionOnSet, FoldFunctionOnSet, MapThenFoldSet,
         Books!SumFunctionOnSet, Books!FoldFunctionOnSet, Books!MapThenFoldSet

\* They add up the amounts of the legs of a currency and of an account.
LEMMA BooksSums ==
  ASSUME NEW D, NEW n, NEW k
  PROVE  /\ Books!CurrencySum(D, n, k) = SumFunctionOnSet(BooksAmounts(D), OfCurrency(D, n, k))
         /\ Books!AccountSum(D, n, k) = SumFunctionOnSet(BooksAmounts(D), OfAccount(D, n, k))
  BY BooksAddUp DEF Books!CurrencySum, Books!AccountSum, Books!Amounts, BooksAmounts,
                    OfAccount, OfCurrency

\* m legs of int64 amounts, no two on one account.
IntLegs(D, m) ==
  /\ D = [i \in 1..m |-> D[i]]
  /\ \A i \in 1..m : D[i].amount \in (-HalfRange) .. (HalfRange - 1)
  /\ \A i, j \in 1..m : D[i].acct = D[j].acct => i = j

\* The net delta of an account that has one leg is that leg's amount.
LEMMA OnceEach ==
  ASSUME NEW D, NEW m \in Nat, IntLegs(D, m), NEW n \in 1..m, NEW j \in 1..m
  PROVE  /\ Books!AccountSum(D, n, D[j].acct) = IF j <= n THEN D[j].amount ELSE 0
         /\ Books!AccountSum(D, n, D[j].acct) \in (-HalfRange) .. (HalfRange - 1)
<1> DEFINE f == BooksAmounts(D)
           S == OfAccount(D, n, D[j].acct)
<1>0. D[j].amount \in (-HalfRange) .. (HalfRange - 1) BY DEF IntLegs
<1>1. f[j] = D[j].amount /\ f[j] \in Int BY <1>0, MoneyAssumption DEF IntLegs, BooksAmounts
<1>2. S = IF j <= n THEN {j} ELSE {} BY DEF IntLegs, OfAccount
<1>3. Books!AccountSum(D, n, D[j].acct) = SumFunctionOnSet(f, S) BY BooksSums
<1> HIDE DEF f, S
<1>4. SumFunctionOnSet(f, {j}) = f[j] /\ SumFunctionOnSet(f, {}) = 0 BY <1>1, SumOne, SumEmpty
<1>5. 0 \in (-HalfRange) .. (HalfRange - 1) BY MoneyAssumption
<1> QED BY <1>0, <1>1, <1>2, <1>3, <1>4, <1>5

\* ValidateEntry takes such an entry when no leg is refused and every currency adds up.
LEMMA AcceptedByBooks ==
  ASSUME NEW D, NEW m \in Nat, m >= 2, IntLegs(D, m),
         \A n \in 1..m : /\ D[n].amount # 0
                         /\ D[n].cur = LedgerCur[D[n].acct]
                         /\ Books!CurrencySum(D, n, D[n].cur) \in (-HalfRange) .. (HalfRange - 1),
         \A c \in Currencies : Books!CurrencySum(D, m, c) = 0
  PROVE  /\ Books!ValidateEntry(D) = "OK"
         /\ \A j \in 1..m : Books!Delta(D, D[j].acct) = D[j].amount
<1>1. Len(D) = m /\ DOMAIN D = 1..m BY LenOf DEF IntLegs
<1>2. \A n \in DOMAIN D : ~Books!BadLeg(D, n) BY <1>1 DEF Books!BadLeg, Books!Int64
<1>3. Books!ZeroSum(D) BY <1>1 DEF Books!ZeroSum, Books!Currencies, Currencies
<1>4. \A n \in DOMAIN D, a \in Books!Affected(D) : Books!AccountSum(D, n, a) \in Books!Int64
  <2> TAKE n \in DOMAIN D, a \in Books!Affected(D)
  <2>1. PICK j \in 1..m : a = D[j].acct BY <1>1 DEF Books!Affected
  <2>2. n \in 1..m BY <1>1
  <2> QED BY <2>1, <2>2, OnceEach DEF Books!Int64
<1>5. ~(Len(D) < 2) BY <1>1
<1>6. Books!ValidateEntry(D) = "OK" BY <1>2, <1>3, <1>4, <1>5 DEF Books!ValidateEntry
<1>7. ASSUME NEW j \in 1..m PROVE Books!Delta(D, D[j].acct) = D[j].amount
  <2>1. m \in 1..m OBVIOUS
  <2>2. Books!AccountSum(D, m, D[j].acct) = IF j <= m THEN D[j].amount ELSE 0 BY <2>1, OnceEach
  <2> QED BY <1>1, <2>2 DEF Books!Delta
<1> QED BY <1>6, <1>7

\* It takes a debit and a credit of the same amount.
LEMMA PairAccepted ==
  ASSUME NEW D, IntLegs(D, 2), NEW a \in 1..(HalfRange - 1), NEW c \in Currencies,
         D[1].amount = -a, D[2].amount = a, D[1].cur = c, D[2].cur = c,
         \A n \in 1..2 : D[n].cur = LedgerCur[D[n].acct]
  PROVE  /\ Books!ValidateEntry(D) = "OK"
         /\ \A j \in 1..2 : Books!Delta(D, D[j].acct) = D[j].amount
<1> DEFINE f == BooksAmounts(D)
           CS(n, k) == Books!CurrencySum(D, n, k)
<1>0. \A n, k : CS(n, k) = SumFunctionOnSet(f, OfCurrency(D, n, k)) BY BooksSums
<1>1. f[1] = -a /\ f[2] = a /\ f[1] \in Int /\ f[2] \in Int /\ f[1] + f[2] = 0
  BY MoneyAssumption DEF IntLegs, BooksAmounts
<1>2. /\ OfCurrency(D, 1, c) = {1} /\ OfCurrency(D, 2, c) = {1, 2}
      /\ \A k : k # c => OfCurrency(D, 2, k) = {}
  BY DEF OfCurrency
<1> HIDE DEF f, CS
<1>3. /\ SumFunctionOnSet(f, {1}) = -a /\ SumFunctionOnSet(f, {1, 2}) = 0
      /\ SumFunctionOnSet(f, {}) = 0
  <2>1. SumFunctionOnSet(f, {1}) = f[1] BY <1>1, SumOne
  <2>2. 1 # 2 OBVIOUS
  <2>3. SumFunctionOnSet(f, {1, 2}) = f[1] + f[2] BY <1>1, <2>2, SumTwo
  <2> QED BY <1>1, <2>1, <2>3, SumEmpty
<1>4. CS(1, c) = -a /\ CS(2, c) = 0 /\ \A k : k # c => CS(2, k) = 0
  BY <1>0, <1>2, <1>3
<1>5. \A n \in 1..2 : /\ D[n].amount # 0 /\ CS(n, D[n].cur) \in (-HalfRange) .. (HalfRange - 1)
  <2> TAKE n \in 1..2
  <2>1. n = 1 \/ n = 2 OBVIOUS
  <2> QED BY <1>4, <2>1, MoneyAssumption
<1>6. \A k \in Currencies : CS(2, k) = 0 BY <1>4
<1> QED BY <1>5, <1>6, AcceptedByBooks DEF CS

\* It takes two such pairs in two currencies.
LEMMA CrossAccepted ==
  ASSUME NEW D, IntLegs(D, 4), NEW a \in 1..(HalfRange - 1), NEW b \in 1..(HalfRange - 1),
         NEW c \in Currencies, NEW e \in Currencies, c # e,
         D[1].amount = -a, D[2].amount = a, D[1].cur = c, D[2].cur = c,
         D[3].amount = -b, D[4].amount = b, D[3].cur = e, D[4].cur = e,
         \A n \in 1..4 : D[n].cur = LedgerCur[D[n].acct]
  PROVE  /\ Books!ValidateEntry(D) = "OK"
         /\ \A j \in 1..4 : Books!Delta(D, D[j].acct) = D[j].amount
<1> DEFINE f == BooksAmounts(D)
           CS(n, k) == Books!CurrencySum(D, n, k)
<1>0. \A n, k : CS(n, k) = SumFunctionOnSet(f, OfCurrency(D, n, k)) BY BooksSums
<1>1. /\ f[1] = -a /\ f[2] = a /\ f[1] \in Int /\ f[2] \in Int /\ f[1] + f[2] = 0
      /\ f[3] = -b /\ f[4] = b /\ f[3] \in Int /\ f[4] \in Int /\ f[3] + f[4] = 0
  BY MoneyAssumption DEF IntLegs, BooksAmounts
<1>2. /\ OfCurrency(D, 1, c) = {1} /\ OfCurrency(D, 2, c) = {1, 2}
      /\ OfCurrency(D, 3, e) = {3} /\ OfCurrency(D, 4, e) = {3, 4}
      /\ OfCurrency(D, 4, c) = {1, 2}
      /\ \A k : k \notin {c, e} => OfCurrency(D, 4, k) = {}
  <2>1. 1..1 = {1} /\ 1..2 = {1, 2} /\ 1..3 = {1, 2, 3} /\ 1..4 = {1, 2, 3, 4} OBVIOUS
  <2> QED BY <2>1 DEF OfCurrency
<1> HIDE DEF f, CS
<1>3. /\ SumFunctionOnSet(f, {1}) = -a /\ SumFunctionOnSet(f, {1, 2}) = 0
      /\ SumFunctionOnSet(f, {3}) = -b /\ SumFunctionOnSet(f, {3, 4}) = 0
      /\ SumFunctionOnSet(f, {}) = 0
  <2>1. SumFunctionOnSet(f, {1}) = f[1] /\ SumFunctionOnSet(f, {3}) = f[3] BY <1>1, SumOne
  <2>2. 1 # 2 /\ 3 # 4 OBVIOUS
  <2>3. SumFunctionOnSet(f, {1, 2}) = f[1] + f[2] BY <1>1, <2>2, SumTwo
  <2>4. SumFunctionOnSet(f, {3, 4}) = f[3] + f[4] BY <1>1, <2>2, SumTwo
  <2> QED BY <1>1, <2>1, <2>3, <2>4, SumEmpty
<1>4. /\ CS(1, c) = -a /\ CS(2, c) = 0 /\ CS(3, e) = -b /\ CS(4, e) = 0 /\ CS(4, c) = 0
      /\ \A k : k \notin {c, e} => CS(4, k) = 0
  BY <1>0, <1>2, <1>3
<1>5. \A n \in 1..4 : /\ D[n].amount # 0 /\ CS(n, D[n].cur) \in (-HalfRange) .. (HalfRange - 1)
  <2> TAKE n \in 1..4
  <2>1. n = 1 \/ n = 2 \/ n = 3 \/ n = 4 OBVIOUS
  <2> QED BY <1>4, <2>1, MoneyAssumption
<1>6. \A k \in Currencies : CS(4, k) = 0 BY <1>4
<1> QED BY <1>5, <1>6, AcceptedByBooks DEF CS

-----------------------------------------------------------------------------
(* The postings of a transfer *)

\* The currency of a ledger account is that of the customer's account or of the chart.
LEMMA LedgerCurOf ==
  /\ \A a \in Accounts : LedgerCur[a] = Info[a].cur
  /\ \A e \in DOMAIN Chart : LedgerCur[Chart[e].id] = Chart[e].cur
<1>1. \A a \in Accounts : LedgerCur[a] = Info[a].cur BY DEF LedgerCur
<1>2. ASSUME NEW e \in DOMAIN Chart PROVE LedgerCur[Chart[e].id] = Chart[e].cur
  <2> DEFINE id == Chart[e].id
             x == CHOOSE x \in Range(Chart) : x.id = id
  <2>1. id \in InternalIds /\ id \notin Accounts BY ChartAssumption DEF InternalIds
  <2>2. Chart[e] \in Range(Chart) BY DEF Range
  <2>3. x \in Range(Chart) /\ x.id = id BY <2>2
  <2>4. x = Chart[e] BY <2>3, ChartAssumption DEF Range
  <2>5. LedgerCur[id] = x.cur BY <2>1 DEF LedgerCur
  <2> QED BY <2>4, <2>5
<1> QED BY <1>1, <1>2

\* A reference survives the wire, and the ledger finds the account it means.
LEMMA RefArrives ==
  /\ \A a \in Accounts : GetAccountByRef(refFromProto(toProtoRef(External(a)))) = a
  /\ \A e \in DOMAIN Chart \ {""} :
       GetAccountByRef(refFromProto(toProtoRef(Internal(e)))) = Chart[e].id
<1>1. ASSUME NEW a \in Accounts
      PROVE  GetAccountByRef(refFromProto(toProtoRef(External(a)))) = a
  <2>1. toProtoRef(External(a)) = [kind |-> "external_account_id", id |-> a]
    BY DEF toProtoRef, External
  <2>2. refFromProto(toProtoRef(External(a))) = External(a) BY <2>1 DEF refFromProto
  <2>3. a # 0 BY RulesAssumption
  <2>4. External(a).external = a BY DEF External
  <2>5. GetAccountByRef(External(a)) = a BY <2>3, <2>4 DEF GetAccountByRef, Known
  <2> QED BY <2>2, <2>5
<1>2. ASSUME NEW e \in DOMAIN Chart \ {""}
      PROVE  GetAccountByRef(refFromProto(toProtoRef(Internal(e)))) = Chart[e].id
  <2>1. Internal(e).internal = e BY DEF Internal
  <2>2. toProtoRef(Internal(e)).kind = "internal_code" /\ toProtoRef(Internal(e)).code = e
    BY <2>1 DEF toProtoRef
  <2>3. refFromProto(toProtoRef(Internal(e))) = Internal(e) BY <2>2 DEF refFromProto
  <2>4. Internal(e).external = 0 /\ Internal(e).internal = e BY DEF Internal
  <2>5. GetAccountByRef(Internal(e)) = Chart[e].id BY <2>4 DEF GetAccountByRef
  <2> QED BY <2>3, <2>5
<1> QED BY <1>1, <1>2

\* The legs arrive in order with their amounts and currencies.
LEMMA LegsArrive ==
  ASSUME NEW L, NEW m \in Nat, DOMAIN L = 1..m
  PROVE  LET D == Decoded(Encoded(L))
         IN  /\ D = [i \in 1..m |-> D[i]]
             /\ \A i \in 1..m :
                  /\ D[i].acct = GetAccountByRef(refFromProto(toProtoRef(L[i].ref)))
                  /\ D[i].amount = L[i].amount /\ D[i].cur = L[i].cur
<1> DEFINE E == Encoded(L)
           D == Decoded(E)
<1>1. DOMAIN E = 1..m BY DEF Encoded
<1> HIDE DEF E
<1>3. /\ D = [i \in 1..m |-> D[i]]
      /\ \A i \in 1..m : D[i] = [acct |-> GetAccountByRef(refFromProto(E[i].account)),
                                 amount |-> E[i].units, cur |-> E[i].currency]
  BY <1>1 DEF Decoded
<1> HIDE DEF D
<1>4. ASSUME NEW i \in 1..m
      PROVE  /\ D[i].acct = GetAccountByRef(refFromProto(toProtoRef(L[i].ref)))
             /\ D[i].amount = L[i].amount /\ D[i].cur = L[i].cur
  <2>1. /\ E[i].account = toProtoRef(L[i].ref)
        /\ E[i].units = L[i].amount /\ E[i].currency = L[i].cur
    BY DEF E, Encoded
  <2>2. /\ D[i].acct = GetAccountByRef(refFromProto(E[i].account))
        /\ D[i].amount = E[i].units /\ D[i].cur = E[i].currency
    BY <1>3
  <2> QED BY <2>1, <2>2
<1> QED BY <1>3, <1>4 DEF D, E

\* What a decision rests on, whoever took it and when.
FxIsSound(s, to, fx) ==
  /\ fx.counter \in 1..(HalfRange - 1)
  /\ fx.cur = Info[to].cur
  /\ \E r \in Rates : r.from <= today /\ fx.rate \in {r.buy, r.sell}
  /\ IF s.cur = "USD" THEN Nearest(fx.counter, s.amount * fx.rate, RateScale)
     ELSE Nearest(fx.counter, s.amount * RateScale, fx.rate)

Settled(s, to, fx) ==
  /\ to \in Accounts
  /\ s.type # "TOPUP" => s.from \in Accounts /\ s.from # to
  /\ s.type = "P2P" => s.number = Number(to)
  /\ s.cur = SourceCurrency(s, to)
  /\ IF Crosses(s, to) THEN FxIsSound(s, to, fx) ELSE fx = NoFx

\* The accounts of the chart that the postings name.
LEMMA ChartCodes ==
  \A c \in Currencies :
    /\ cashInCode(c) \in DOMAIN Chart \ {""} /\ Chart[cashInCode(c)].cur = c
    /\ fxPositionCode(c) \in DOMAIN Chart \ {""} /\ Chart[fxPositionCode(c)].cur = c
  BY ChartAssumption DEF Currencies, cashInCode, fxPositionCode

\* The source of a settled transfer is a ledger account of the transfer's currency.
LEMMA SourceArrives ==
  ASSUME NEW row, row.spec \in Specs, ValidateSpec(row.spec), Settled(row.spec, row.to, row.fx)
  PROVE  /\ HeldAccount(row) # 0 /\ HeldAccount(row) # row.to
         /\ LedgerCur[HeldAccount(row)] = row.spec.cur
         /\ \A c \in Currencies : HeldAccount(row) # Chart[fxPositionCode(c)].id
<1> DEFINE s == row.spec
<1>0. s.cur \in Currencies BY DEF ValidateSpec
<1>1. CASE s.type = "TOPUP"
  <2> DEFINE e == cashInCode(s.cur)
  <2>1. e \in DOMAIN Chart \ {""} /\ Chart[e].cur = s.cur BY <1>0, ChartCodes
  <2>2. HeldAccount(row) = Chart[e].id BY <1>1, <2>1, RefArrives DEF HeldAccount, SourceRef
  <2>3. \A c \in Currencies : fxPositionCode(c) # e BY DEF fxPositionCode, cashInCode
  <2> HIDE DEF e
  <2>4. \A c \in Currencies : Chart[e].id # Chart[fxPositionCode(c)].id
    BY <2>1, <2>3, ChartCodes, ChartAssumption
  <2>5. Chart[e].id # 0 /\ Chart[e].id \notin Accounts BY <2>1, ChartAssumption
  <2> QED BY <2>1, <2>2, <2>4, <2>5, LedgerCurOf DEF Settled
<1>2. CASE s.type # "TOPUP"
  <2>1. s.from \in Accounts /\ s.from # row.to BY <1>2 DEF Settled
  <2>2. HeldAccount(row) = s.from BY <1>2, <2>1, RefArrives DEF HeldAccount, SourceRef
  <2>3. s.cur = Info[s.from].cur BY <1>2 DEF Settled, SourceCurrency
  <2>4. s.from # 0 BY <2>1, RulesAssumption
  <2>5. \A c \in Currencies : s.from # Chart[fxPositionCode(c)].id
    BY <2>1, ChartCodes, ChartAssumption
  <2> QED BY <2>1, <2>2, <2>3, <2>4, <2>5, LedgerCurOf
<1> QED BY <1>1, <1>2

\* The entry of a transfer within one currency.
LEMMA PlainEntry ==
  ASSUME NEW row, row.spec \in Specs, ValidateSpec(row.spec), Settled(row.spec, row.to, row.fx),
         ~Crosses(row.spec, row.to)
  PROVE  SoundEntry(row)
<1> DEFINE s == row.spec
           a == s.amount
           L == BuildPostings(row)
           D == Decoded(Encoded(L))
           A == HeldAccount(row)
<1>1. row.fx = NoFx /\ row.to \in Accounts BY DEF Settled
<1>2. s.cur \in Currencies /\ a > 0 BY DEF ValidateSpec
<1>3. a \in 1..(HalfRange - 1) BY <1>2, AmountsAssumption, MoneyAssumption
<1>4. /\ A # 0 /\ A # row.to /\ LedgerCur[A] = s.cur BY SourceArrives
<1>5. LedgerCur[row.to] = s.cur /\ row.to # 0
  <2>1. Info[row.to].cur = s.cur BY DEF Settled, SourceCurrency, Crosses
  <2> QED BY <1>1, <2>1, LedgerCurOf, RulesAssumption
<1>6. L = <<Leg(SourceRef(row), -a, s.cur), Leg(External(row.to), a, s.cur)>>
  BY <1>1 DEF BuildPostings
<1>7. /\ DOMAIN L = 1..2
      /\ L[1].ref = SourceRef(row) /\ L[1].amount = -a /\ L[1].cur = s.cur
      /\ L[2].ref = External(row.to) /\ L[2].amount = a /\ L[2].cur = s.cur
  BY <1>6 DEF Leg
<1> HIDE DEF L
<1>8. /\ D = [i \in 1..2 |-> D[i]]
      /\ \A i \in 1..2 : /\ D[i].acct = GetAccountByRef(refFromProto(toProtoRef(L[i].ref)))
                         /\ D[i].amount = L[i].amount /\ D[i].cur = L[i].cur
  BY <1>7, LegsArrive
<1>9. /\ D[1].acct = A /\ D[1].amount = -a /\ D[1].cur = s.cur
      /\ D[2].acct = row.to /\ D[2].amount = a /\ D[2].cur = s.cur
  <2>1. 1 \in 1..2 /\ 2 \in 1..2 OBVIOUS
  <2> QED BY <1>1, <1>7, <1>8, <2>1, RefArrives DEF HeldAccount
<1> HIDE DEF D, A
<1>10. IntLegs(D, 2)
  <2>1. \A i \in 1..2 : i = 1 \/ i = 2 OBVIOUS
  <2> QED BY <1>3, <1>4, <1>8, <1>9, <2>1, MoneyAssumption DEF IntLegs
<1>11. \A n \in 1..2 : D[n].cur = LedgerCur[D[n].acct]
  <2>1. \A i \in 1..2 : i = 1 \/ i = 2 OBVIOUS
  <2> QED BY <1>4, <1>5, <1>9, <2>1
<1> HIDE DEF a
<1>12. /\ Books!ValidateEntry(D) = "OK"
       /\ \A j \in 1..2 : Books!Delta(D, D[j].acct) = D[j].amount
  BY <1>2, <1>3, <1>9, <1>10, <1>11, PairAccepted
<1>13. Books!Delta(D, A) = -a /\ Books!Delta(D, row.to) = a
  <2>1. 1 \in 1..2 /\ 2 \in 1..2 OBVIOUS
  <2> QED BY <1>9, <1>12, <2>1
<1>14. \A i \in DOMAIN D : D[i].acct # 0
  <2>1. \A i \in 1..2 : i = 1 \/ i = 2 OBVIOUS
  <2> QED BY <1>4, <1>5, <1>8, <1>9, <2>1
<1> QED BY <1>1, <1>12, <1>13, <1>14 DEF SoundEntry, D, L, A, a

\* The entry of a transfer between two currencies.
LEMMA CrossEntry ==
  ASSUME NEW row, row.spec \in Specs, ValidateSpec(row.spec), Settled(row.spec, row.to, row.fx),
         Crosses(row.spec, row.to)
  PROVE  SoundEntry(row)
<1> DEFINE s == row.spec
           a == s.amount
           b == row.fx.counter
           c == s.cur
           e == row.fx.cur
           L == BuildPostings(row)
           D == Decoded(Encoded(L))
           A == HeldAccount(row)
           P == Chart[fxPositionCode(c)].id
           Q == Chart[fxPositionCode(e)].id
<1>1. FxIsSound(s, row.to, row.fx) /\ row.to \in Accounts BY DEF Settled
<1>2. s.cur \in Currencies /\ a > 0 BY DEF ValidateSpec
<1>3. a \in 1..(HalfRange - 1) /\ b \in 1..(HalfRange - 1)
  BY <1>1, <1>2, AmountsAssumption, MoneyAssumption DEF FxIsSound
<1>4. row.fx # NoFx
  <2>1. b # 0 BY <1>3, MoneyAssumption
  <2>2. NoFx.counter = 0 BY DEF NoFx
  <2> QED BY <2>1, <2>2
<1>5. e = Info[row.to].cur /\ e \in Currencies /\ c # e
  <2>1. e = Info[row.to].cur BY <1>1 DEF FxIsSound
  <2>2. c # e BY <2>1 DEF Settled, SourceCurrency, Crosses
  <2> QED BY <1>1, <2>1, <2>2, RulesAssumption
<1>6. /\ A # 0 /\ A # row.to /\ LedgerCur[A] = c /\ A # P /\ A # Q
  BY <1>2, <1>5, SourceArrives
<1>7. /\ LedgerCur[P] = c /\ LedgerCur[Q] = e /\ P # Q /\ P # 0 /\ Q # 0
      /\ P # row.to /\ Q # row.to
  <2>1. /\ fxPositionCode(c) \in DOMAIN Chart /\ Chart[fxPositionCode(c)].cur = c
        /\ fxPositionCode(e) \in DOMAIN Chart /\ Chart[fxPositionCode(e)].cur = e
    BY <1>2, <1>5, ChartCodes
  <2> QED BY <1>1, <1>5, <2>1, LedgerCurOf, ChartAssumption
<1>8. LedgerCur[row.to] = e /\ row.to # 0
  BY <1>1, <1>5, LedgerCurOf, RulesAssumption
<1>9. L = <<Leg(SourceRef(row), -a, c), Leg(Internal(fxPositionCode(c)), a, c),
            Leg(Internal(fxPositionCode(e)), -b, e), Leg(External(row.to), b, e)>>
  BY <1>4 DEF BuildPostings
<1>10. /\ DOMAIN L = 1..4
       /\ L[1].ref = SourceRef(row) /\ L[1].amount = -a /\ L[1].cur = c
       /\ L[2].ref = Internal(fxPositionCode(c)) /\ L[2].amount = a /\ L[2].cur = c
       /\ L[3].ref = Internal(fxPositionCode(e)) /\ L[3].amount = -b /\ L[3].cur = e
       /\ L[4].ref = External(row.to) /\ L[4].amount = b /\ L[4].cur = e
  BY <1>9 DEF Leg
<1> HIDE DEF L
<1>11. /\ D = [i \in 1..4 |-> D[i]]
       /\ \A i \in 1..4 : /\ D[i].acct = GetAccountByRef(refFromProto(toProtoRef(L[i].ref)))
                          /\ D[i].amount = L[i].amount /\ D[i].cur = L[i].cur
  BY <1>10, LegsArrive
<1> HIDE DEF D
<1>12. /\ D[1].acct = A /\ D[1].amount = -a /\ D[1].cur = c
       /\ D[2].acct = P /\ D[2].amount = a /\ D[2].cur = c
       /\ D[3].acct = Q /\ D[3].amount = -b /\ D[3].cur = e
       /\ D[4].acct = row.to /\ D[4].amount = b /\ D[4].cur = e
  <2>1. 1 \in 1..4 /\ 2 \in 1..4 /\ 3 \in 1..4 /\ 4 \in 1..4 OBVIOUS
  <2>2. GetAccountByRef(refFromProto(toProtoRef(External(row.to)))) = row.to
    BY <1>1, RefArrives
  <2>3. /\ GetAccountByRef(refFromProto(toProtoRef(Internal(fxPositionCode(c))))) = P
        /\ GetAccountByRef(refFromProto(toProtoRef(Internal(fxPositionCode(e))))) = Q
    BY <1>2, <1>5, RefArrives, ChartCodes
  <2>4. GetAccountByRef(refFromProto(toProtoRef(SourceRef(row)))) = A BY DEF HeldAccount
  <2> HIDE DEF a, b, c, e, A, P, Q
  <2> QED BY <1>10, <1>11, <2>1, <2>2, <2>3, <2>4
<1> HIDE DEF a, b, c, e, A, P, Q
<1>13. \A i \in 1..4 : i = 1 \/ i = 2 \/ i = 3 \/ i = 4 OBVIOUS
<1>14. IntLegs(D, 4)
  <2>1. \A i \in 1..4 : D[i].amount \in (-HalfRange) .. (HalfRange - 1)
    BY <1>3, <1>12, <1>13, MoneyAssumption
  <2>2. \A i, j \in 1..4 : D[i].acct = D[j].acct => i = j
    BY <1>6, <1>7, <1>12, <1>13
  <2> QED BY <1>11, <2>1, <2>2 DEF IntLegs
<1>15. \A n \in 1..4 : D[n].cur = LedgerCur[D[n].acct]
  BY <1>6, <1>7, <1>8, <1>12, <1>13
<1>16. /\ Books!ValidateEntry(D) = "OK"
       /\ \A j \in 1..4 : Books!Delta(D, D[j].acct) = D[j].amount
  <2>1. c \in Currencies BY <1>2 DEF c
  <2> QED BY <1>3, <1>5, <1>12, <1>14, <1>15, <2>1, CrossAccepted
<1>17. Books!Delta(D, A) = -a /\ Books!Delta(D, row.to) = b
  <2>1. 1 \in 1..4 /\ 4 \in 1..4 OBVIOUS
  <2> QED BY <1>12, <1>16, <2>1
<1>18. \A i \in DOMAIN D : D[i].acct # 0
  BY <1>6, <1>7, <1>8, <1>11, <1>12, <1>13
<1> QED BY <1>1, <1>4, <1>16, <1>17, <1>18 DEF SoundEntry, FxIsSound, D, L, A, a, b

-----------------------------------------------------------------------------
(* What validate accepts *)

\* A rate that is found is the latest one in force.
LEMMA RateInForce ==
  ASSUME today \in Nat, ~(GetLatestRate.from < 0)
  PROVE  GetLatestRate \in Rates /\ GetLatestRate.from <= today
<1> DEFINE valid == {r \in Rates : r.from <= today}
           T == {today - r.from : r \in valid}
<1>1. valid # {}
  <2> SUFFICES ASSUME valid = {} PROVE FALSE OBVIOUS
  <2>1. GetLatestRate = [buy |-> 0, sell |-> 0, from |-> -1] BY DEF GetLatestRate
  <2>2. GetLatestRate.from = -1 BY <2>1
  <2> QED BY <2>2
<1>2. \A r \in valid : r.from \in Nat /\ r.from <= today BY AmountsAssumption
<1>3. T \subseteq Nat /\ T # {} BY <1>1, <1>2
<1>4. PICK t \in T : \A u \in T : t <= u
  <2> HIDE DEF T
  <2> QED BY <1>3, LeastNatural
<1>5. PICK r \in valid : t = today - r.from OBVIOUS
<1>6. \A o \in valid : o.from <= r.from
  <2> TAKE o \in valid
  <2>1. today - r.from <= today - o.from BY <1>4, <1>5
  <2>2. r.from \in Nat /\ o.from \in Nat BY <1>2
  <2> QED BY <2>1, <2>2
<1>7. GetLatestRate = CHOOSE q \in valid : \A o \in valid : o.from <= q.from
  BY <1>1 DEF GetLatestRate
<1>8. GetLatestRate \in valid BY <1>6, <1>7
<1> QED BY <1>8

\* An amount that passes validate is converted to the nearest unit.
LEMMA LockIsSound ==
  ASSUME today \in Nat, NEW s \in Specs, ValidateSpec(s), NEW to \in Accounts,
         s.type # "TOPUP", s.from \in Accounts, s.cur = Info[s.from].cur,
         ~(GetLatestRate.from < 0),
         Fits(FxLock(s, to).counter), ~(FxLock(s, to).counter <= 0)
  PROVE  FxIsSound(s, to, FxLock(s, to))
<1> DEFINE rate == GetLatestRate
           fx == FxLock(s, to)
<1>1. rate \in Rates /\ rate.from <= today BY RateInForce
<1>2. s.amount \in Int /\ s.cur \in Currencies
  BY AmountsAssumption, MoneyAssumption DEF ValidateSpec
<1>3. rate.buy \in Nat \ {0} /\ rate.sell \in Nat \ {0} /\ RateScale \in Nat \ {0}
  BY <1>1, AmountsAssumption, MoneyAssumption
<1> HIDE DEF rate
<1>4. /\ rate.buy \in Int /\ rate.sell \in Int /\ RateScale \in Int
      /\ rate.sell \in Nat \ {0} /\ RateScale \in Nat \ {0}
  BY <1>3
<1>5. fx.cur = Info[to].cur BY DEF FxLock
<1>6. CASE s.cur = "KZT"
  <2>1. fx.counter = MulDivHalfEven(s.amount, RateScale, rate.sell) /\ fx.rate = rate.sell
    BY <1>6 DEF FxLock, ConvertInverse, rate
  <2> HIDE DEF fx
  <2>2. fx.counter \in Int /\ Nearest(fx.counter, s.amount * RateScale, fx.rate)
    <3>1. LET q == MulDivHalfEven(s.amount, RateScale, rate.sell)
          IN  q \in Int /\ Nearest(q, s.amount * RateScale, rate.sell)
      BY <1>2, <1>4, ConversionIsNearest, Zenon
    <3> QED BY <2>1, <3>1
  <2>3. fx.counter \in 1..(HalfRange - 1) BY <2>2, MoneyAssumption DEF Fits, fx
  <2> QED BY <1>1, <1>5, <1>6, <2>1, <2>2, <2>3 DEF FxIsSound, fx
<1>7. CASE s.cur = "USD"
  <2>1. fx.counter = MulDivHalfEven(s.amount, rate.buy, RateScale) /\ fx.rate = rate.buy
    BY <1>7 DEF FxLock, Convert, rate
  <2> HIDE DEF fx
  <2>2. fx.counter \in Int /\ Nearest(fx.counter, s.amount * fx.rate, RateScale)
    <3>1. LET q == MulDivHalfEven(s.amount, rate.buy, RateScale)
          IN  q \in Int /\ Nearest(q, s.amount * rate.buy, RateScale)
      BY <1>2, <1>4, ConversionIsNearest, Zenon
    <3> QED BY <2>1, <3>1
  <2>3. fx.counter \in 1..(HalfRange - 1) BY <2>2, MoneyAssumption DEF Fits, fx
  <2> QED BY <1>1, <1>5, <1>7, <2>1, <2>2, <2>3 DEF FxIsSound, fx
<1> QED BY <1>2, <1>6, <1>7 DEF Currencies

\* A destination is not found, or the account with the id or the number asked for.
LEMMA DestinationOf ==
  ASSUME NEW s, 0 \notin Accounts
  PROVE  /\ Destination(s) \in Accounts \cup {0}
         /\ s.type # "P2P" /\ Destination(s) # 0 => Destination(s) = s.to
         /\ s.type = "P2P" /\ Destination(s) # 0 => s.number = Number(Destination(s))
<1> DEFINE found == {a \in Accounts : Number(a) = s.number}
<1>1. CASE s.type = "P2P" /\ found # {}
  <2>1. Destination(s) = CHOOSE a \in found : TRUE BY <1>1 DEF Destination, ResolveByNumber
  <2>2. Destination(s) \in found BY <1>1, <2>1
  <2> QED BY <1>1, <2>2
<1>2. CASE s.type = "P2P" /\ found = {} BY <1>2 DEF Destination, ResolveByNumber
<1>3. CASE s.type # "P2P" BY <1>3 DEF Destination, Known
<1> QED BY <1>1, <1>2, <1>3

\* What validate accepts rests on accounts, currencies and a rate that are right.
LEMMA VerdictSettles ==
  ASSUME today \in Nat, NEW s \in Specs, ValidateSpec(s), Verdict(s, Destination(s)) = "OK"
  PROVE  Settled(s, Destination(s),
                 IF Crosses(s, Destination(s)) THEN FxLock(s, Destination(s)) ELSE NoFx)
<1> DEFINE to == Destination(s)
<1>1. /\ s.type # "TOPUP" => Known(s.from) # 0
      /\ to # 0
      /\ ~(s.type = "P2P" /\ s.from = to)
      /\ s.cur = SourceCurrency(s, to)
      /\ Crosses(s, to) => /\ ~(GetLatestRate.from < 0)
                           /\ Fits(FxLock(s, to).counter)
                           /\ ~(FxLock(s, to).counter <= 0)
  BY DEF Verdict
<1>2. to \in Accounts /\ (s.type # "P2P" => to = s.to) /\ (s.type = "P2P" => s.number = Number(to))
  <2>1. 0 \notin Accounts BY RulesAssumption
  <2> QED BY <1>1, <2>1, DestinationOf
<1> HIDE DEF to
<1>3. s.type # "TOPUP" => s.from \in Accounts BY <1>1 DEF Known
<1>4. s.type # "TOPUP" => s.from # to
  BY <1>1, <1>2 DEF ValidateSpec
<1>5. ASSUME Crosses(s, to) PROVE FxIsSound(s, to, FxLock(s, to))
  <2>1. s.type # "TOPUP" /\ s.cur = Info[s.from].cur BY <1>1, <1>5 DEF Crosses, SourceCurrency
  <2> QED BY <1>1, <1>2, <1>3, <1>5, <2>1, LockIsSound
<1> QED BY <1>1, <1>2, <1>3, <1>4, <1>5 DEF Settled, to

-----------------------------------------------------------------------------
(* Decisions under way *)

\* Rows that were accepted and decisions under way rest on sound facts.
EntryInv ==
  /\ \A x \in DOMAIN rows : Accepted(x) => Settled(rows[x].spec, rows[x].to, rows[x].fx)
  /\ \A d \in Drivers :
       work[d] # Idle /\ work[d].verdict = "OK" =>
         Settled(rows[work[d].x].spec, work[d].to, work[d].fx)

\* Rates do not leave the table, so what was settled stays so.
LEMMA SettledStays ==
  ASSUME today \in Nat, today' \in Nat, today <= today',
         NEW s, NEW to, NEW fx, Settled(s, to, fx)
  PROVE  Settled(s, to, fx)'
<1>1. FxIsSound(s, to, fx) => FxIsSound(s, to, fx)'
  <2> SUFFICES ASSUME FxIsSound(s, to, fx) PROVE FxIsSound(s, to, fx)' OBVIOUS
  <2>1. PICK r \in Rates : r.from <= today /\ fx.rate \in {r.buy, r.sell} BY DEF FxIsSound
  <2>2. r.from <= today' BY <2>1, AmountsAssumption
  <2> QED BY <2>1, <2>2 DEF FxIsSound
<1> QED BY <1>1 DEF Settled, SourceCurrency, Crosses

\* A step that accepts nothing and hands no decision out.
LEMMA NothingDecided ==
  ASSUME RulesTypes, RulesTypes', RowsGo, EntryInv, today <= today', work' = work,
         \A x \in DOMAIN rows' : Accepted(x)' => x \in DOMAIN rows /\ rows'[x] = rows[x]
  PROVE  EntryInv'
<1>1. today \in Nat /\ today' \in Nat BY DEF RulesTypes
<1>2. ASSUME NEW x \in DOMAIN rows', Accepted(x)'
      PROVE  Settled(rows[x].spec, rows[x].to, rows[x].fx)'
  <2>1. x \in DOMAIN rows /\ rows'[x] = rows[x] BY <1>2
  <2>2. Settled(rows[x].spec, rows[x].to, rows[x].fx) BY <1>2, <2>1 DEF EntryInv, Accepted
  <2> QED BY <1>1, <2>1, <2>2, SettledStays
<1>3. ASSUME NEW d \in Drivers, work[d] # Idle, work[d].verdict = "OK"
      PROVE  Settled(rows[work[d].x].spec, work[d].to, work[d].fx)'
  <2>1. Settled(rows[work[d].x].spec, work[d].to, work[d].fx) BY <1>3 DEF EntryInv
  <2>2. rows'[work[d].x].spec = rows[work[d].x].spec
    BY <1>3 DEF RulesTypes, WorkOf, RowsGo
  <2> QED BY <1>1, <2>1, <2>2, SettledStays
<1> QED BY <1>2, <1>3 DEF EntryInv

\* A driver that reads the accounts and the rate has the verdict of validate.
LEMMA LookUpSettles ==
  ASSUME RulesTypes, EntryInv, NEW d \in Drivers, NEW t \in DOMAIN rows, LookUp(d, t)
  PROVE  EntryInv'
<1>1. today \in Nat /\ today' = today /\ rows' = rows BY DEF RulesTypes, LookUp
<1>2. work'[d] = Read(rows[t].spec, t) /\ \A e \in Drivers \ {d} : work'[e] = work[e]
  BY DEF LookUp, Read, RulesTypes
<1>3. rows[t].spec \in Specs /\ ValidateSpec(rows[t].spec) BY DEF RulesTypes, RowOf
<1>4. work'[d].verdict = "OK" => Settled(rows[t].spec, work'[d].to, work'[d].fx)
  BY <1>1, <1>2, <1>3, VerdictSettles DEF Read
<1>5. work'[d].x = t BY <1>2 DEF Read
<1>6. \A s, to, fx : Settled(s, to, fx)' <=> Settled(s, to, fx)
  BY <1>1 DEF Settled, FxIsSound, SourceCurrency, Crosses
<1>7. ASSUME NEW y \in DOMAIN rows', Accepted(y)'
      PROVE  Settled(rows'[y].spec, rows'[y].to, rows'[y].fx)
  BY <1>1, <1>7 DEF EntryInv, Accepted
<1>8. ASSUME NEW e \in Drivers, work'[e] # Idle, work'[e].verdict = "OK"
      PROVE  Settled(rows'[work'[e].x].spec, work'[e].to, work'[e].fx)
  BY <1>1, <1>2, <1>4, <1>5, <1>8 DEF EntryInv
<1> QED BY <1>6, <1>7, <1>8 DEF EntryInv

\* The limits change nothing that the decision rests on.
LEMMA LimitsSettle ==
  ASSUME RulesTypes, EntryInv, NEW d \in Drivers, Limits(d)
  PROVE  EntryInv'
<1>1. today' = today /\ rows' = rows BY DEF Limits
<1>2. work[d] # Idle /\ WorkOf(work[d]) /\ work[d].at = "limits" BY DEF Limits, Idle, RulesTypes
<1>3. work[d].verdict = "OK" BY <1>2 DEF WorkOf
<1>4. /\ work'[d].x = work[d].x /\ work'[d].to = work[d].to /\ work'[d].fx = work[d].fx
      /\ \A e \in Drivers \ {d} : work'[e] = work[e]
  BY <1>2 DEF Limits, WorkOf, RulesTypes
<1>5. \A s, to, fx : Settled(s, to, fx)' <=> Settled(s, to, fx)
  BY <1>1 DEF Settled, FxIsSound, SourceCurrency, Crosses
<1>6. ASSUME NEW y \in DOMAIN rows', Accepted(y)'
      PROVE  Settled(rows'[y].spec, rows'[y].to, rows'[y].fx)
  BY <1>1, <1>6 DEF EntryInv, Accepted
<1>7. ASSUME NEW e \in Drivers, work'[e] # Idle, work'[e].verdict = "OK"
      PROVE  Settled(rows'[work'[e].x].spec, work'[e].to, work'[e].fx)
  BY <1>1, <1>2, <1>3, <1>4, <1>7 DEF EntryInv
<1> QED BY <1>5, <1>6, <1>7 DEF EntryInv

\* The row takes over what its driver has settled, or nothing.
LEMMA WriteSettles ==
  ASSUME RulesTypes, EntryInv, NEW d \in Drivers, Write(d)
  PROVE  EntryInv'
<1> DEFINE x == work[d].x
<1>1. /\ RulesTypes' /\ RowsGo /\ x \in DOMAIN rows /\ DOMAIN rows' = DOMAIN rows
      /\ rows'[x] = UpdateTransferGuarded(rows[x], work[d])
      /\ \A y \in DOMAIN rows \ {x} : rows'[y] = rows[y]
  BY WriteTypes
<1>2. today' = today /\ work'[d] = Idle /\ \A e \in Drivers \ {d} : work'[e] = work[e]
  BY DEF Write, RulesTypes
<1>3. work[d] # Idle BY DEF Write, Idle
<1> HIDE DEF x
<1>4. RowOf(rows[x]) BY <1>1 DEF RulesTypes
<1>5. /\ rows'[x].spec = rows[x].spec
      /\ \/ rows'[x] = rows[x]
         \/ rows'[x].state = "FAILED"
         \/ work[d].verdict = "OK" /\ rows'[x].to = work[d].to /\ rows'[x].fx = work[d].fx
  BY <1>1, <1>4, UpdatedRow
<1>6. \A s, to, fx : Settled(s, to, fx)' <=> Settled(s, to, fx)
  BY <1>2 DEF Settled, FxIsSound, SourceCurrency, Crosses
<1>7. ASSUME NEW y \in DOMAIN rows', Accepted(y)'
      PROVE  Settled(rows'[y].spec, rows'[y].to, rows'[y].fx)
  <2>1. CASE rows'[y] = rows[y] BY <1>1, <1>7, <2>1 DEF EntryInv, Accepted
  <2>2. CASE y = x /\ rows'[x].state = "FAILED" BY <1>7, <2>2 DEF Accepted
  <2>3. CASE /\ y = x /\ work[d].verdict = "OK"
             /\ rows'[x].to = work[d].to /\ rows'[x].fx = work[d].fx
    BY <1>3, <1>5, <2>3 DEF EntryInv, x
  <2> QED BY <1>1, <1>5, <2>1, <2>2, <2>3
<1>8. ASSUME NEW e \in Drivers, work'[e] # Idle, work'[e].verdict = "OK"
      PROVE  Settled(rows'[work'[e].x].spec, work'[e].to, work'[e].fx)
  <2>1. e # d /\ work'[e] = work[e] BY <1>2, <1>8
  <2>2. work[e].x \in DOMAIN rows BY <1>8, <2>1 DEF RulesTypes, WorkOf
  <2>3. rows'[work[e].x].spec = rows[work[e].x].spec BY <1>1, <2>2 DEF RowsGo
  <2> QED BY <1>8, <2>1, <2>3 DEF EntryInv
<1> QED BY <1>6, <1>7, <1>8 DEF EntryInv

\* What decisions rest on stays sound at every step.
LEMMA EntryStep ==
  ASSUME RulesTypes, EntryInv, [RulesNext]_rvars
  PROVE  RulesTypes' /\ EntryInv'
<1> DEFINE Goal == RulesTypes' /\ EntryInv'
<1>1. ASSUME NEW x \in Ids, NEW s \in Specs, CreateTransfer(x, s) PROVE Goal
  <2>1. RulesTypes' /\ RowsGo BY <1>1, CreateTypes
  <2>2. work' = work /\ today <= today' BY <1>1 DEF CreateTransfer, RulesTypes
  <2>3. \A y \in DOMAIN rows' : Accepted(y)' => y \in DOMAIN rows /\ rows'[y] = rows[y]
    BY <1>1 DEF CreateTransfer, InsertTransfer, Accepted
  <2> QED BY <2>1, <2>2, <2>3, NothingDecided
<1>2. ASSUME NEW d \in Drivers, NEW x \in DOMAIN rows, LookUp(d, x) PROVE Goal
  BY <1>2, LookUpTypes, LookUpSettles
<1>3. ASSUME NEW d \in Drivers, Limits(d) PROVE Goal
  BY <1>3, LimitsTypes, LimitsSettle
<1>4. ASSUME NEW d \in Drivers, Write(d) PROVE Goal
  BY <1>4, WriteTypes, WriteSettles
<1>5. ASSUME NEW x \in DOMAIN rows, Compensate(x) PROVE Goal
  <2>1. /\ RulesTypes' /\ RowsGo /\ DOMAIN rows' = DOMAIN rows
        /\ rows'[x].state = "FAILED"
        /\ \A y \in DOMAIN rows \ {x} : rows'[y] = rows[y]
    BY <1>5, CompensateTypes
  <2>2. work' = work /\ today <= today' BY <1>5 DEF Compensate, RulesTypes
  <2>3. \A y \in DOMAIN rows' : Accepted(y)' => y \in DOMAIN rows /\ rows'[y] = rows[y]
    BY <2>1 DEF Accepted
  <2> QED BY <2>1, <2>2, <2>3, NothingDecided
<1>6. ASSUME Midnight \/ (\E a \in Freezable : SetStatus(a)) \/ UNCHANGED rvars PROVE Goal
  <2>1. RulesTypes' /\ RowsGo /\ rows' = rows /\ work' = work /\ today <= today'
    BY <1>6, OutsideTypes
  <2>2. \A y \in DOMAIN rows' : Accepted(y)' => y \in DOMAIN rows /\ rows'[y] = rows[y]
    BY <2>1 DEF Accepted
  <2> QED BY <2>1, <2>2, NothingDecided
<1> QED BY <1>1, <1>2, <1>3, <1>4, <1>5, <1>6 DEF RulesNext

\* The entry of every accepted transfer is one the ledger takes: it debits the account
\* the hold is on by the amount held and credits the destination with the same amount
\* or with its conversion to the nearest unit at a rate that was in force.
THEOREM EntriesAreSound == RulesSpec => []EntryIsSound
<1>1. RulesInit => RulesTypes /\ EntryInv
  BY TypesStart DEF RulesInit, EntryInv, Idle
<1>2. RulesTypes /\ EntryInv /\ [RulesNext]_rvars => (RulesTypes /\ EntryInv)'
  BY EntryStep
<1>3. RulesTypes /\ EntryInv => EntryIsSound
  <2> SUFFICES ASSUME RulesTypes, EntryInv, NEW x \in DOMAIN rows, Accepted(x)
               PROVE  SoundEntry(rows[x])
    BY DEF EntryIsSound
  <2>1. rows[x].spec \in Specs /\ ValidateSpec(rows[x].spec) BY DEF RulesTypes, RowOf
  <2>2. Settled(rows[x].spec, rows[x].to, rows[x].fx) BY DEF EntryInv
  <2> QED BY <2>1, <2>2, PlainEntry, CrossEntry
<1> QED BY <1>1, <1>2, <1>3, PTL DEF RulesSpec

-----------------------------------------------------------------------------
(* Check digits *)

Digits == Seq(0..9)

\* One turn of mod97's loop.
Turn(r, d) == (r * 10 + d) % 97

\* What the loop has after n digits of s.
Loops(f, s, n) == f = [i \in 0..n |-> IF i = 0 THEN 0 ELSE (f[i - 1] * 10 + s[i]) % 97]

\* The loop runs over any number of digits.
LEMMA LoopUpTo ==
  ASSUME NEW s, NEW n \in Nat
  PROVE  \E f : Loops(f, s, n)
<1> DEFINE Bad == {m \in Nat : ~\E f : Loops(f, s, m)}
<1> SUFFICES ASSUME Bad # {} PROVE FALSE OBVIOUS
<1>1. PICK m \in Bad : \A k \in Bad : m <= k
  <2>1. Bad \subseteq Nat OBVIOUS
  <2> HIDE DEF Bad
  <2> QED BY <2>1, LeastNatural
<1>2. m \in Nat /\ ~\E f : Loops(f, s, m) OBVIOUS
<1>3. m # 0
  <2> SUFFICES ASSUME m = 0 PROVE FALSE OBVIOUS
  <2> DEFINE f == [i \in 0..0 |-> 0]
  <2>1. Loops(f, s, 0) BY DEF Loops
  <2> QED BY <1>2, <2>1
<1>4. m - 1 \in Nat /\ m - 1 \notin Bad BY <1>1, <1>2, <1>3
<1>5. PICK f : Loops(f, s, m - 1) BY <1>4
<1> DEFINE g == [i \in 0..m |-> IF i = 0 THEN 0 ELSE (f[i - 1] * 10 + s[i]) % 97]
<1>6. \A i \in 0..(m - 1) : g[i] = f[i]
  <2> TAKE i \in 0..(m - 1)
  <2>1. i \in 0..m BY <1>2
  <2>2. f[i] = IF i = 0 THEN 0 ELSE (f[i - 1] * 10 + s[i]) % 97 BY <1>5 DEF Loops
  <2> QED BY <2>1, <2>2
<1>7. \A i \in 0..m : i # 0 => g[i - 1] = f[i - 1]
  <2> SUFFICES ASSUME NEW i \in 0..m, i # 0 PROVE g[i - 1] = f[i - 1] OBVIOUS
  <2>1. i - 1 \in 0..(m - 1) BY <1>2
  <2> HIDE DEF g
  <2> QED BY <1>6, <2>1
<1>8. g = [i \in 0..m |-> IF i = 0 THEN 0 ELSE (g[i - 1] * 10 + s[i]) % 97]
  <2> DEFINE h == [i \in 0..m |-> IF i = 0 THEN 0 ELSE (g[i - 1] * 10 + s[i]) % 97]
  <2>1. \A i \in 0..m : h[i] = g[i]
    <3> TAKE i \in 0..m
    <3>1. g[i] = IF i = 0 THEN 0 ELSE (f[i - 1] * 10 + s[i]) % 97 OBVIOUS
    <3>2. h[i] = IF i = 0 THEN 0 ELSE (g[i - 1] * 10 + s[i]) % 97 OBVIOUS
    <3> HIDE DEF g, h
    <3> QED BY <1>7, <3>1, <3>2
  <2> QED BY <2>1
<1> QED BY <1>2, <1>8 DEF Loops

\* The remainders of a sequence of digits.
LEMMA RemaindersAre ==
  ASSUME NEW s \in Digits
  PROVE  LET R == Remainders(s)
         IN  /\ R[0] = 0
             /\ \A i \in 1..Len(s) : R[i] = Turn(R[i - 1], s[i])
             /\ \A i \in 0..Len(s) : R[i] \in 0..96
<1> DEFINE R == Remainders(s)
<1>1. Len(s) \in Nat /\ \A i \in 1..Len(s) : s[i] \in 0..9 BY DEF Digits
<1>2. PICK f : Loops(f, s, Len(s)) BY <1>1, LoopUpTo
<1>3. Loops(R, s, Len(s)) BY <1>2 DEF Remainders, Loops
<1> HIDE DEF R
<1>4. \A i \in 0..Len(s) : R[i] = IF i = 0 THEN 0 ELSE (R[i - 1] * 10 + s[i]) % 97
  BY <1>3 DEF Loops
<1>5. R[0] = 0 BY <1>1, <1>4
<1>6. \A i \in 1..Len(s) : R[i] = Turn(R[i - 1], s[i]) BY <1>1, <1>4 DEF Turn
<1>7. \A i \in 0..Len(s) : R[i] \in 0..96
  <2> DEFINE Bad == {i \in 0..Len(s) : R[i] \notin 0..96}
  <2> SUFFICES ASSUME Bad # {} PROVE FALSE OBVIOUS
  <2>1. PICK m \in Bad : \A k \in Bad : m <= k
    <3>1. Bad \subseteq Nat BY <1>1
    <3> HIDE DEF Bad
    <3> QED BY <3>1, LeastNatural
  <2>2. m \in 1..Len(s) /\ R[m] \notin 0..96 BY <1>1, <1>5
  <2>3. m - 1 \in 0..Len(s) /\ m - 1 \notin Bad
    <3>1. m - 1 \in 0..Len(s) /\ m \in Nat /\ ~(m <= m - 1) BY <1>1, <2>2
    <3> HIDE DEF Bad
    <3> QED BY <2>1, <3>1
  <2>4. R[m - 1] \in 0..96 /\ s[m] \in 0..9 BY <1>1, <2>2, <2>3
  <2>5. \A r \in 0..96, d \in 0..9 : Turn(r, d) \in 0..96 BY DEF Turn
  <2> QED BY <1>6, <2>2, <2>4, <2>5
<1> QED BY <1>5, <1>6, <1>7 DEF R

\* 10 has an inverse: different remainders stay different when the same digit follows.
LEMMA TurnIsInjective ==
  ASSUME NEW q \in 0..96, NEW r \in 0..96, NEW d \in 0..9
  PROVE  /\ Turn(q, d) \in 0..96
         /\ Turn(q, d) = Turn(r, d) => q = r
BY DEF Turn

\* Different digits after the same remainder tell it apart.
LEMMA TurnTellsDigits ==
  ASSUME NEW r \in 0..96, NEW c \in 0..9, NEW d \in 0..9, Turn(r, c) = Turn(r, d)
  PROVE  c = d
BY DEF Turn

\* So do two digits in the wrong order.
LEMMA TurnTellsOrder ==
  ASSUME NEW r \in 0..96, NEW c \in 0..9, NEW d \in 0..9,
         Turn(Turn(r, c), d) = Turn(Turn(r, d), c)
  PROVE  c = d
<1>1. PICK p \in Int : Turn(r, c) = 10 * r + c - 97 * p BY DEF Turn
<1>2. PICK q \in Int : Turn(r, d) = 10 * r + d - 97 * q BY DEF Turn
<1>3. PICK u \in Int : Turn(Turn(r, c), d) = 10 * Turn(r, c) + d - 97 * u BY <1>1 DEF Turn
<1>4. PICK v \in Int : Turn(Turn(r, d), c) = 10 * Turn(r, d) + c - 97 * v BY <1>2 DEF Turn
<1>5. 9 * (c - d) = 97 * (10 * p + u - 10 * q - v) BY <1>1, <1>2, <1>3, <1>4
<1>6. PICK w \in Int : w = 10 * p + u - 10 * q - v OBVIOUS
<1>7. 9 * (c - d) = 97 * w /\ 9 * (c - d) \in -81..81 BY <1>5, <1>6
<1>8. w = 0 BY <1>7
<1> QED BY <1>7, <1>8

\* The same digits leave the same remainders.
LEMMA SameSoFar ==
  ASSUME NEW a \in Digits, NEW b \in Digits, NEW n \in Nat, n <= Len(a), n <= Len(b),
         \A i \in 1..n : a[i] = b[i]
  PROVE  \A i \in 0..n : Remainders(a)[i] = Remainders(b)[i]
<1> DEFINE A == Remainders(a)
           B == Remainders(b)
           Bad == {i \in 0..n : A[i] # B[i]}
<1>1. Len(a) \in Nat /\ Len(b) \in Nat BY DEF Digits
<1>2. A[0] = 0 /\ \A i \in 1..Len(a) : A[i] = Turn(A[i - 1], a[i]) BY RemaindersAre
<1>3. B[0] = 0 /\ \A i \in 1..Len(b) : B[i] = Turn(B[i - 1], b[i]) BY RemaindersAre
<1> HIDE DEF A, B
<1> SUFFICES ASSUME Bad # {} PROVE FALSE BY DEF A, B
<1>4. PICK m \in Bad : \A k \in Bad : m <= k
  <2>1. Bad \subseteq Nat OBVIOUS
  <2> HIDE DEF Bad
  <2> QED BY <2>1, LeastNatural
<1>5. m \in 0..n /\ A[m] # B[m] OBVIOUS
<1>6. m \in 1..n /\ m \in 1..Len(a) /\ m \in 1..Len(b) BY <1>1, <1>2, <1>3, <1>5
<1>7. m - 1 \in 0..n /\ m - 1 \notin Bad
  <2>1. m - 1 \in 0..n /\ ~(m <= m - 1) BY <1>6
  <2> HIDE DEF Bad
  <2> QED BY <1>4, <2>1
<1>8. A[m - 1] = B[m - 1] BY <1>7
<1> QED BY <1>2, <1>3, <1>5, <1>6, <1>8

\* A difference is not lost while the digits agree.
LEMMA DifferenceStays ==
  ASSUME NEW a \in Digits, NEW b \in Digits, Len(a) = Len(b), NEW n \in 0..Len(a),
         Remainders(a)[n] # Remainders(b)[n],
         \A i \in (n + 1)..Len(a) : a[i] = b[i]
  PROVE  Remainders(a)[Len(a)] # Remainders(b)[Len(a)]
<1> DEFINE A == Remainders(a)
           B == Remainders(b)
           L == Len(a)
           Bad == {i \in (n + 1)..L : A[i] = B[i]}
<1>1. L \in Nat /\ n \in Nat /\ \A i \in 1..L : a[i] \in 0..9 BY DEF Digits
<1>2. /\ \A i \in 1..L : A[i] = Turn(A[i - 1], a[i]) /\ B[i] = Turn(B[i - 1], b[i])
      /\ \A i \in 0..L : A[i] \in 0..96 /\ B[i] \in 0..96
  BY RemaindersAre
<1>3. A[n] # B[n] /\ n <= L BY <1>1
<1> HIDE DEF A, B
<1>4. CASE n = L BY <1>3, <1>4 DEF A, B
<1>5. CASE n # L /\ Bad = {}
  <2>1. L \in (n + 1)..L BY <1>1, <1>3, <1>5
  <2> QED BY <1>5, <2>1 DEF A, B
<1>6. ASSUME Bad # {} PROVE FALSE
  <2>1. PICK m \in Bad : \A k \in Bad : m <= k
    <3>1. Bad \subseteq Nat BY <1>1
    <3> HIDE DEF Bad
    <3> QED BY <1>6, <3>1, LeastNatural
  <2>2. m \in (n + 1)..L /\ A[m] = B[m] OBVIOUS
  <2>3. m \in 1..L /\ m - 1 \in 0..L BY <1>1, <2>2
  <2>4. A[m - 1] # B[m - 1]
    <3>1. CASE m = n + 1 BY <1>1, <1>3, <3>1
    <3>2. CASE m # n + 1
      <4>1. m - 1 \in (n + 1)..L /\ ~(m <= m - 1) BY <1>1, <2>2, <3>2
      <4>2. m - 1 \notin Bad
        <5> HIDE DEF Bad
        <5> QED BY <2>1, <4>1
      <4> QED BY <4>1, <4>2
    <3> QED BY <3>1, <3>2
  <2>5. A[m] = Turn(A[m - 1], a[m]) /\ B[m] = Turn(B[m - 1], a[m]) BY <1>2, <2>2, <2>3
  <2>6. A[m - 1] \in 0..96 /\ B[m - 1] \in 0..96 /\ a[m] \in 0..9 BY <1>1, <1>2, <2>3
  <2> QED BY <2>2, <2>4, <2>5, <2>6, TurnIsInjective
<1> QED BY <1>4, <1>5, <1>6

\* One wrong digit changes the remainder.
LEMMA OneDigitTells ==
  ASSUME NEW a \in Digits, NEW b \in Digits, Len(a) = Len(b), NEW n \in 1..Len(a),
         a[n] # b[n], \A i \in 1..Len(a) : i # n => a[i] = b[i]
  PROVE  Remainders(a)[Len(a)] # Remainders(b)[Len(a)]
<1> DEFINE A == Remainders(a)
           B == Remainders(b)
<1>1. Len(a) \in Nat /\ n \in Nat /\ a[n] \in 0..9 /\ b[n] \in 0..9 BY DEF Digits
<1>2. n - 1 \in Nat /\ n - 1 <= Len(a) /\ n - 1 \in 0..(n - 1) /\ n - 1 \in 0..Len(a)
      /\ n \in 0..Len(a)
  BY <1>1
<1>3. \A i \in 1..(n - 1) : a[i] = b[i] BY <1>1
<1>4. A[n - 1] = B[n - 1] BY <1>2, <1>3, SameSoFar
<1>5. A[n] = Turn(A[n - 1], a[n]) /\ B[n] = Turn(B[n - 1], b[n]) /\ A[n - 1] \in 0..96
  BY <1>2, RemaindersAre
<1>6. A[n] # B[n] BY <1>1, <1>4, <1>5, TurnTellsDigits
<1>7. \A i \in (n + 1)..Len(a) : a[i] = b[i] BY <1>1
<1> QED BY <1>2, <1>6, <1>7, DifferenceStays

\* Two neighbours in the wrong order change it.
LEMMA NeighboursTell ==
  ASSUME NEW a \in Digits, NEW b \in Digits, Len(a) = Len(b), NEW n \in 1..(Len(a) - 1),
         a[n] # a[n + 1], b[n] = a[n + 1], b[n + 1] = a[n],
         \A i \in 1..Len(a) : i # n /\ i # n + 1 => a[i] = b[i]
  PROVE  Remainders(a)[Len(a)] # Remainders(b)[Len(a)]
<1> DEFINE A == Remainders(a)
           B == Remainders(b)
<1>1. Len(a) \in Nat /\ n \in Nat /\ n \in 1..Len(a) /\ n + 1 \in 1..Len(a) BY DEF Digits
<1>2. a[n] \in 0..9 /\ a[n + 1] \in 0..9 BY <1>1 DEF Digits
<1>3. /\ n - 1 \in Nat /\ n - 1 <= Len(a) /\ n - 1 \in 0..(n - 1) /\ n - 1 \in 0..Len(a)
      /\ (n + 1) - 1 = n /\ n + 1 \in 0..Len(a)
  BY <1>1
<1>4. \A i \in 1..(n - 1) : a[i] = b[i] BY <1>1
<1>5. A[n - 1] = B[n - 1] BY <1>3, <1>4, SameSoFar
<1>6. /\ A[n] = Turn(A[n - 1], a[n]) /\ A[n + 1] = Turn(A[n], a[n + 1])
      /\ B[n] = Turn(B[n - 1], b[n]) /\ B[n + 1] = Turn(B[n], b[n + 1])
      /\ A[n - 1] \in 0..96
  BY <1>1, <1>3, RemaindersAre
<1>7. A[n + 1] # B[n + 1] BY <1>2, <1>5, <1>6, TurnTellsOrder
<1>8. \A i \in ((n + 1) + 1)..Len(a) : a[i] = b[i] BY <1>1
<1> QED BY <1>3, <1>7, <1>8, DifferenceStays

\* Ten times p, modulo 97.
TenTimes(p) == (10 * p) % 97

\* r and s differ by p times d, modulo 97.
Weighs(r, s, p, d) == \E w \in Int : r - s = p * d + 97 * w

\* The powers of ten modulo 97.
Power == <<1, 10, 3, 30, 9, 90, 27, 76, 81, 34, 49, 5, 50, 15, 53, 45, 62, 38, 89, 17, 73, 51>>

\* Each is ten times the one before it, and none but the first is 1.
LEMMA PowersAre ==
  \A n \in 1..21 : /\ Power[n] \in 0..96 /\ Power[n + 1] \in 0..96
                   /\ Power[n + 1] = TenTimes(Power[n])
                   /\ Power[n + 1] # 1
<1> TAKE n \in 1..21
<1>1. CASE n \in 1..5
  <2>1. n \in {1, 2, 3, 4, 5} BY <1>1
  <2> QED BY <2>1 DEF Power, TenTimes
<1>2. CASE n \in 6..11
  <2>1. n \in {6, 7, 8, 9, 10, 11} BY <1>2
  <2> QED BY <2>1 DEF Power, TenTimes
<1>3. CASE n \in 12..16
  <2>1. n \in {12, 13, 14, 15, 16} BY <1>3
  <2> QED BY <2>1 DEF Power, TenTimes
<1>4. CASE n \in 17..21
  <2>1. n \in {17, 18, 19, 20, 21} BY <1>4
  <2> QED BY <2>1 DEF Power, TenTimes
<1> QED BY <1>1, <1>2, <1>3, <1>4

\* 97 is prime: it divides no product of smaller factors, one of them the difference of
\* two digits.
LEMMA NotDivided ==
  ASSUME NEW c \in 1..96, NEW d \in -9..9, NEW w \in Int, c * d = 97 * w
  PROVE  d = 0
<1>1. ASSUME NEW e \in 1..9, NEW v \in Int, c * e = 97 * v PROVE FALSE
  <2>1. e \in {1, 2, 3, 4, 5, 6, 7, 8, 9} OBVIOUS
  <2>2. c \in Int /\ 1 <= c /\ c <= 96 OBVIOUS
  <2>3. CASE e = 1 BY <1>1, <2>2, <2>3
  <2>4. CASE e = 2 BY <1>1, <2>2, <2>4
  <2>5. CASE e = 3 BY <1>1, <2>2, <2>5
  <2>6. CASE e = 4 BY <1>1, <2>2, <2>6
  <2>7. CASE e = 5 BY <1>1, <2>2, <2>7
  <2>8. CASE e = 6 BY <1>1, <2>2, <2>8
  <2>9. CASE e = 7 BY <1>1, <2>2, <2>9
  <2>10. CASE e = 8 BY <1>1, <2>2, <2>10
  <2>11. CASE e = 9 BY <1>1, <2>2, <2>11
  <2> QED BY <2>1, <2>3, <2>4, <2>5, <2>6, <2>7, <2>8, <2>9, <2>10, <2>11
<1>2. CASE d > 0
  <2>1. d \in 1..9 BY <1>2
  <2> QED BY <1>1, <2>1
<1>3. CASE d < 0
  <2>1. -d \in 1..9 /\ c * (-d) = 97 * (-w) /\ -w \in Int BY <1>3
  <2> QED BY <1>1, <2>1
<1> QED BY <1>2, <1>3

\* A turn of the loop subtracts a multiple of 97.
LEMMA TurnIs ==
  ASSUME NEW r \in 0..96, NEW x \in 0..9
  PROVE  \E t \in Int : Turn(r, x) = 10 * r + x - 97 * t
<1>1. PICK n \in Nat : n = r * 10 + x OBVIOUS
<1>2. n = 97 * (n \div 97) + (n % 97) /\ n \div 97 \in Int BY <1>1
<1>3. Turn(r, x) = n % 97 BY <1>1 DEF Turn
<1>4. Turn(r, x) = 10 * r + x - 97 * (n \div 97) BY <1>1, <1>2, <1>3
<1> QED BY <1>2, <1>4

\* What a difference weighs is multiplied by ten when the same digit follows.
LEMMA WeightGrows ==
  ASSUME NEW r \in 0..96, NEW s \in 0..96, NEW x \in 0..9, NEW p \in 0..96, NEW d \in Int,
         Weighs(r, s, p, d)
  PROVE  Weighs(Turn(r, x), Turn(s, x), TenTimes(p), d)
<1> PICK w \in Int : r - s = p * d + 97 * w BY DEF Weighs
<1>1. PICK t \in Int : Turn(r, x) = 10 * r + x - 97 * t BY TurnIs, Zenon
<1>2. PICK u \in Int : Turn(s, x) = 10 * s + x - 97 * u BY TurnIs, Zenon
<1>3. PICK e \in Int : (10 * p) % 97 = 10 * p - 97 * e
  <2>1. PICK m \in Nat : m = 10 * p OBVIOUS
  <2>2. m = 97 * (m \div 97) + (m % 97) /\ m \div 97 \in Int BY <2>1
  <2>3. m % 97 = m - 97 * (m \div 97) BY <2>2
  <2> QED BY <2>1, <2>2, <2>3
<1>4. PICK z \in Int : z = p * d OBVIOUS
<1>5. PICK y \in Int : y = e * d OBVIOUS
<1>6. (10 * p - 97 * e) * d = 10 * z - 97 * y BY <1>4, <1>5
<1>7. ((10 * p) % 97) * d = 10 * z - 97 * y BY <1>3, <1>6
<1>8. Turn(r, x) - Turn(s, x) = (10 * z - 97 * y) + 97 * (y + 10 * w - t + u)
  BY <1>1, <1>2, <1>4
<1>9. y + 10 * w - t + u \in Int OBVIOUS
<1> QED BY <1>7, <1>8, <1>9 DEF Weighs, TenTimes

\* The last digit weighs one, and the first something else.
LEMMA EndsWeigh ==
  ASSUME NEW r \in 0..96, NEW s \in 0..96, NEW x \in 0..9, NEW y \in 0..9, NEW p \in 0..96,
         NEW d \in -9..9, d = x - y, Weighs(r, s, p, d), TenTimes(p) \in 0..96, TenTimes(p) # 1,
         Turn(r, y) = Turn(s, x)
  PROVE  x = y
<1>2. Weighs(Turn(r, y), Turn(s, y), TenTimes(p), d)
  <2>1. d \in Int OBVIOUS
  <2> QED BY <2>1, WeightGrows, Zenon
<1>3. PICK v \in Int : Turn(r, y) - Turn(s, y) = TenTimes(p) * d + 97 * v BY <1>2 DEF Weighs
<1>4. PICK t \in Int : Turn(s, y) = 10 * s + y - 97 * t BY TurnIs, Zenon
<1>5. PICK u \in Int : Turn(s, x) = 10 * s + x - 97 * u BY TurnIs, Zenon
<1>6. PICK e \in 0..96 : e = TenTimes(p) /\ e # 1 OBVIOUS
<1>7. PICK z \in Int : z = e * d OBVIOUS
<1>8. z - d = 97 * (t - u - v)
  <2>1. Turn(r, y) - Turn(s, y) = z + 97 * v BY <1>3, <1>6, <1>7
  <2>2. Turn(r, y) - Turn(s, y) = (10 * s + x - 97 * u) - (10 * s + y - 97 * t) BY <1>4, <1>5
  <2>3. Turn(r, y) - Turn(s, y) = d + 97 * (t - u) BY <2>2
  <2>4. z + 97 * v = d + 97 * (t - u) BY <2>1, <2>3
  <2> QED BY <1>7, <2>4
<1>9. (e - 1) * d = z - d BY <1>7
<1>10. PICK c \in -1..95 : c = e - 1 /\ c # 0 BY <1>6
<1>11. PICK q \in Int : q = t - u - v OBVIOUS
<1>12. c * d = 97 * q BY <1>8, <1>9, <1>10, <1>11
<1>13. CASE c = -1
  <2>1. -d = 97 * q BY <1>12, <1>13
  <2>2. d = 0 BY <2>1
  <2> QED BY <2>2
<1>14. CASE c # -1
  <2>1. c \in 1..96 BY <1>10, <1>14
  <2>2. d = 0 BY <1>12, <2>1, NotDivided
  <2> QED BY <2>2
<1> QED BY <1>13, <1>14

\* The first digit of n weighs 10^(n - 1).
LEMMA FirstDigitWeighs ==
  ASSUME NEW a \in Digits, NEW b \in Digits, Len(a) = Len(b), NEW n \in 1..21, n <= Len(a),
         \A i \in 2..n : a[i] = b[i]
  PROVE  Weighs(Remainders(a)[n], Remainders(b)[n], Power[n], a[1] - b[1])
<1> DEFINE A == Remainders(a)
           B == Remainders(b)
           d == a[1] - b[1]
           Bad == {m \in 1..n : ~Weighs(A[m], B[m], Power[m], d)}
<1>1. Len(a) \in Nat /\ n \in Nat /\ \A i \in 1..Len(a) : a[i] \in 0..9 /\ b[i] \in 0..9 BY DEF Digits
<1>2. /\ A[0] = 0 /\ B[0] = 0
      /\ \A i \in 1..Len(a) : A[i] = Turn(A[i - 1], a[i]) /\ B[i] = Turn(B[i - 1], b[i])
      /\ \A i \in 0..Len(a) : A[i] \in 0..96 /\ B[i] \in 0..96
  BY RemaindersAre
<1>3. d \in Int /\ a[1] \in 0..9 /\ b[1] \in 0..9 BY <1>1
<1> HIDE DEF A, B, d
<1> SUFFICES ASSUME Bad # {} PROVE FALSE
  <2>1. n \in 1..n BY <1>1
  <2> QED BY <2>1 DEF A, B, d
<1>4. PICK m \in Bad : \A k \in Bad : m <= k
  <2>1. Bad \subseteq Nat OBVIOUS
  <2> HIDE DEF Bad
  <2> QED BY <2>1, LeastNatural
<1>5. m \in 1..n /\ ~Weighs(A[m], B[m], Power[m], d) OBVIOUS
<1>6. m \in 1..Len(a) /\ m - 1 \in 0..Len(a) BY <1>1, <1>5
<1>7. m # 1
  <2> SUFFICES ASSUME m = 1 PROVE FALSE OBVIOUS
  <2>1. 1 \in 1..Len(a) /\ 1 - 1 = 0 BY <1>6
  <2>2. A[1] = Turn(0, a[1]) /\ B[1] = Turn(0, b[1]) BY <1>2, <2>1
  <2>3. \A x \in 0..9 : Turn(0, x) = x BY DEF Turn
  <2>4. Power[1] = 1 BY DEF Power
  <2>5. A[1] = a[1] /\ B[1] = b[1] BY <1>3, <2>2, <2>3
  <2>6. A[1] - B[1] = d BY <2>5 DEF d
  <2>7. A[1] - B[1] = Power[1] * d + 97 * 0 BY <1>3, <2>4, <2>6
  <2>8. 0 \in Int OBVIOUS
  <2>9. Weighs(A[1], B[1], Power[1], d) BY <2>7, <2>8, Zenon DEF Weighs
  <2> QED BY <1>5, <2>9
<1>8. m - 1 \in 1..n /\ m - 1 \notin Bad /\ m - 1 \in 1..21 /\ m \in 2..n /\ (m - 1) + 1 = m
  <2>1. m - 1 \in 1..n /\ ~(m <= m - 1) /\ m - 1 \in 1..21 /\ m \in 2..n /\ (m - 1) + 1 = m
    BY <1>1, <1>5, <1>7
  <2> HIDE DEF Bad
  <2> QED BY <1>4, <2>1
<1>9. Weighs(A[m - 1], B[m - 1], Power[m - 1], d) BY <1>8
<1> HIDE DEF Bad
<1>10. A[m] = Turn(A[m - 1], a[m]) /\ B[m] = Turn(B[m - 1], a[m]) BY <1>2, <1>6, <1>8
<1>11. A[m - 1] \in 0..96 /\ B[m - 1] \in 0..96 /\ a[m] \in 0..9 BY <1>1, <1>2, <1>6
<1>12. Power[m - 1] \in 0..96 /\ Power[m] = TenTimes(Power[m - 1]) BY <1>8, PowersAre
<1>13. Weighs(A[m], B[m], Power[m], d) BY <1>3, <1>9, <1>10, <1>11, <1>12, WeightGrows
<1> QED BY <1>5, <1>13

\* The first and the last digit in each other's place change it, if there are not more
\* digits than in the code.
LEMMA EndsTell ==
  ASSUME NEW a \in Digits, NEW b \in Digits, Len(a) = Len(b), Len(a) \in 2..22,
         a[1] # a[Len(a)], b[1] = a[Len(a)], b[Len(a)] = a[1],
         \A i \in 2..(Len(a) - 1) : a[i] = b[i]
  PROVE  Remainders(a)[Len(a)] # Remainders(b)[Len(a)]
<1> DEFINE A == Remainders(a)
           B == Remainders(b)
<1>1. PICK n \in 1..21 : Len(a) = n + 1
  <2>1. \A l \in 2..22 : l - 1 \in 1..21 /\ l = (l - 1) + 1 OBVIOUS
  <2> QED BY <2>1
<1>2. n \in 2..(n + 1) \/ n = 1 OBVIOUS
<1>3. /\ n <= Len(a) /\ 1 \in 1..Len(a) /\ n + 1 \in 1..Len(a) /\ n \in 0..Len(a)
      /\ (n + 1) - 1 = n /\ Len(a) - 1 = n
  BY <1>1
<1>4. a[1] \in 0..9 /\ a[n + 1] \in 0..9 BY <1>3 DEF Digits
<1>5. Weighs(A[n], B[n], Power[n], a[1] - a[n + 1]) BY <1>1, <1>3, FirstDigitWeighs
<1>6. /\ A[n + 1] = Turn(A[n], a[n + 1]) /\ B[n + 1] = Turn(B[n], b[n + 1])
      /\ A[n] \in 0..96 /\ B[n] \in 0..96
  BY <1>3, RemaindersAre
<1>7. Power[n] \in 0..96 /\ TenTimes(Power[n]) \in 0..96 /\ TenTimes(Power[n]) # 1
  BY PowersAre
<1> HIDE DEF A, B
<1>8. b[n + 1] = a[1] /\ a[1] # a[n + 1] BY <1>1, Zenon
<1>9. ASSUME A[n + 1] = B[n + 1] PROVE FALSE
  <2>1. Turn(A[n], a[n + 1]) = Turn(B[n], a[1]) BY <1>6, <1>8, <1>9, Zenon
  <2>2. PICK r \in 0..96, s \in 0..96, p \in 0..96, x \in 0..9, y \in 0..9 :
          r = A[n] /\ s = B[n] /\ p = Power[n] /\ x = a[1] /\ y = a[n + 1]
    BY <1>4, <1>6, <1>7
  <2>3. PICK d \in -9..9 : d = x - y OBVIOUS
  <2>4. Weighs(r, s, p, d) BY <1>5, <2>2, <2>3, Zenon
  <2>5. TenTimes(p) \in 0..96 /\ TenTimes(p) # 1 /\ Turn(r, y) = Turn(s, x) BY <1>7, <2>1, <2>2, Zenon
  <2>6. x = y BY ONLY <2>2, <2>3, <2>4, <2>5, EndsWeigh, ZenonT(60)
  <2> QED BY <1>8, <2>2, <2>6
<1> QED BY <1>1, <1>9, Zenon DEF A, B

-----------------------------------------------------------------------------
(* Account numbers *)

\* The digits that ValidNumber adds up.
Rearranged(number) ==
  SubSeq(number, 3, Len(number)) \o <<2, 0, 3, 5>> \o SubSeq(number, 1, 2)

\* Where the characters of a number go.
LEMMA RearrangedIs ==
  ASSUME NEW S, 0..9 \subseteq S, NEW number \in Seq(S), Len(number) = BBANLength + 2
  PROVE  LET r == Rearranged(number)
         IN  /\ r \in Seq(S) /\ Len(r) = BBANLength + 6
             /\ \A i \in 1..BBANLength : r[i] = number[i + 2]
             /\ r[BBANLength + 1] = 2 /\ r[BBANLength + 2] = 0
             /\ r[BBANLength + 3] = 3 /\ r[BBANLength + 4] = 5
             /\ r[BBANLength + 5] = number[1] /\ r[BBANLength + 6] = number[2]
<1> DEFINE B == BBANLength
           h == SubSeq(number, 3, Len(number))
           c == <<2, 0, 3, 5>>
           e == SubSeq(number, 1, 2)
           hc == h \o c
           r == hc \o e
<1>1. B \in Nat BY MoneyAssumption
<1>2. h \in Seq(S) /\ Len(h) = B /\ \A i \in 1..B : h[i] = number[i + 2]
  <2>1. Len(number) \in Nat /\ 3 \in 1..(Len(number) + 1) BY <1>1
  <2>2. \A i \in 3..Len(number) : number[i] \in S OBVIOUS
  <2> QED BY <1>1, <2>1, <2>2
<1>3. e \in Seq(S) /\ Len(e) = 2 /\ e[1] = number[1] /\ e[2] = number[2]
  <2>1. 1 \in 1..Len(number) /\ 2 \in 1..Len(number) BY <1>1
  <2> QED BY <1>1, <2>1
<1>4. c \in Seq(S) /\ Len(c) = 4 /\ c[1] = 2 /\ c[2] = 0 /\ c[3] = 3 /\ c[4] = 5
  <2>1. 2 \in S /\ 0 \in S /\ 3 \in S /\ 5 \in S OBVIOUS
  <2> QED BY <2>1
<1>5. Rearranged(number) = r BY DEF Rearranged
<1> HIDE DEF B, h, c, e
<1>6. /\ hc \in Seq(S) /\ Len(hc) = B + 4
      /\ \A i \in 1..B : hc[i] = h[i]
      /\ \A i \in 1..4 : hc[B + i] = c[i]
  <2>1. h \in Seq(S) /\ c \in Seq(S) BY <1>2, <1>4
  <2>2. /\ hc \in Seq(S) /\ Len(hc) = Len(h) + Len(c)
        /\ \A i \in 1..Len(h) : hc[i] = h[i]
        /\ \A i \in 1..Len(c) : hc[Len(h) + i] = c[i]
    BY <2>1
  <2> HIDE DEF hc
  <2> QED BY <1>2, <1>4, <2>2
<1> HIDE DEF hc
<1>7. /\ r \in Seq(S) /\ Len(r) = B + 6
      /\ \A i \in 1..(B + 4) : r[i] = hc[i]
      /\ \A i \in 1..2 : r[B + 4 + i] = e[i]
  <2>1. (B + 4) + 2 = B + 6 BY <1>1
  <2>2. hc \in Seq(S) /\ e \in Seq(S) BY <1>3, <1>6
  <2>3. /\ r \in Seq(S) /\ Len(r) = Len(hc) + Len(e)
        /\ \A i \in 1..Len(hc) : r[i] = hc[i]
        /\ \A i \in 1..Len(e) : r[Len(hc) + i] = e[i]
    BY <2>2
  <2> HIDE DEF r
  <2> QED BY <1>3, <1>6, <2>1, <2>3
<1> HIDE DEF r
<1>8. \A i \in 1..B : i \in 1..(B + 4) BY <1>1
<1>9. \A i \in 1..4 : B + i \in 1..(B + 4) BY <1>1
<1>10. \A i \in 1..4 : r[B + i] = c[i] BY <1>6, <1>7, <1>9
<1>11. r[B + 1] = 2 /\ r[B + 2] = 0 /\ r[B + 3] = 3 /\ r[B + 4] = 5 BY <1>4, <1>10
<1>12. B + 4 + 1 = B + 5 /\ B + 4 + 2 = B + 6 BY <1>1
<1>13. r[B + 5] = number[1] /\ r[B + 6] = number[2] BY <1>3, <1>7, <1>12
<1>14. \A i \in 1..B : r[i] = number[i + 2] BY <1>2, <1>6, <1>7, <1>8
<1> QED BY <1>5, <1>7, <1>11, <1>13, <1>14 DEF B

\* What ValidNumber decides for a number of the right length.
LEMMA ValidIs ==
  ASSUME NEW number \in Seq(0..10), Len(number) = BBANLength + 2
  PROVE  /\ number \in Digits =>
              (ValidNumber(number) <=> Remainders(Rearranged(number))[BBANLength + 6] = 1)
         /\ number \notin Digits => ~ValidNumber(number)
<1> DEFINE r == Rearranged(number)
<1>1. /\ r \in Seq(0..10) /\ Len(r) = BBANLength + 6
      /\ \A i \in 1..BBANLength : r[i] = number[i + 2]
      /\ r[BBANLength + 5] = number[1] /\ r[BBANLength + 6] = number[2]
  <2>1. 0..9 \subseteq 0..10 OBVIOUS
  <2> QED BY <2>1, RearrangedIs
<1>2. ValidNumber(number) <=> Mod97(r) = 1 BY DEF ValidNumber, Rearranged
<1>3. ASSUME number \in Digits PROVE Mod97(r) = Remainders(r)[BBANLength + 6]
  <2>1. r \in Seq(0..9) BY <1>3, RearrangedIs DEF Digits
  <2> HIDE DEF r
  <2>2. DOMAIN r = 1..Len(r) /\ \A i \in 1..Len(r) : r[i] \in 0..9 BY <2>1
  <2> QED BY <1>1, <2>2 DEF Mod97
<1>4. ASSUME number \notin Digits PROVE Mod97(r) = -1
  <2>1. PICK i \in 1..Len(number) : number[i] \notin 0..9 BY <1>4 DEF Digits
  <2>2. BBANLength \in Nat BY MoneyAssumption
  <2>3. \E j \in 1..(BBANLength + 6) : r[j] = number[i]
    <3>1. CASE i = 1
      <4>1. BBANLength + 5 \in 1..(BBANLength + 6) BY <2>2
      <4> HIDE DEF r
      <4> QED BY <1>1, <3>1, <4>1
    <3>2. CASE i = 2
      <4>1. BBANLength + 6 \in 1..(BBANLength + 6) BY <2>2
      <4> HIDE DEF r
      <4> QED BY <1>1, <3>2, <4>1
    <3>3. CASE i > 2
      <4>1. i - 2 \in 1..BBANLength /\ i - 2 \in 1..(BBANLength + 6) /\ (i - 2) + 2 = i BY <2>2, <3>3
      <4> HIDE DEF r
      <4> QED BY <1>1, <4>1
    <3>4. i \in Nat /\ i >= 1 BY <2>2
    <3> QED BY <3>1, <3>2, <3>3, <3>4
  <2> HIDE DEF r
  <2>4. DOMAIN r = 1..(BBANLength + 6) BY <1>1
  <2> QED BY <2>1, <2>3, <2>4 DEF Mod97
<1> HIDE DEF r
<1>5. -1 # 1 OBVIOUS
<1> QED BY <1>2, <1>3, <1>4, <1>5 DEF r

\* The number of an account.
LEMMA GeneratedIs ==
  ASSUME NEW bban \in Digits, Len(bban) = BBANLength
  PROVE  LET number == GenerateNumber(bban)
             check == 98 - Remainders(bban \o <<2, 0, 3, 5, 0, 0>>)[BBANLength + 6]
         IN  /\ number \in Digits /\ Len(number) = BBANLength + 2
             /\ number[1] = check \div 10 /\ number[2] = check % 10
             /\ \A i \in 1..BBANLength : number[i + 2] = bban[i]
<1> DEFINE z == <<2, 0, 3, 5, 0, 0>>
           s == bban \o z
           R == Remainders(s)[BBANLength + 6]
           check == 98 - R
           two == <<check \div 10, check % 10>>
           number == two \o bban
<1>1. BBANLength \in Nat BY MoneyAssumption
<1>2. z \in Seq(0..9) /\ Len(z) = 6 OBVIOUS
<1> HIDE DEF z
<1>3. s \in Digits /\ Len(s) = BBANLength + 6
  <2>1. bban \in Seq(0..9) /\ z \in Seq(0..9) BY <1>2 DEF Digits
  <2>2. s \in Seq(0..9) /\ Len(s) = Len(bban) + Len(z) BY <2>1
  <2> QED BY <1>2, <2>2 DEF Digits
<1> HIDE DEF s
<1>4. R \in 0..96
  <2>1. BBANLength + 6 \in 0..Len(s) BY <1>1, <1>3
  <2> QED BY <1>3, <2>1, RemaindersAre
<1>5. Mod97(s) = R
  <2>1. DOMAIN s = 1..Len(s) /\ \A i \in 1..Len(s) : s[i] \in 0..9 BY <1>3 DEF Digits
  <2> QED BY <1>3, <2>1 DEF Mod97
<1>6. GenerateNumber(bban) = number
  <2> HIDE DEF R
  <2> QED BY <1>5 DEF GenerateNumber, s, z
<1> HIDE DEF R
<1>7. check \div 10 \in 0..9 /\ check % 10 \in 0..9 BY <1>4
<1>8. two \in Seq(0..9) /\ Len(two) = 2 /\ two[1] = check \div 10 /\ two[2] = check % 10
  <2> HIDE DEF check
  <2> QED BY <1>7
<1> HIDE DEF check, two
<1>9. /\ number \in Seq(0..9) /\ Len(number) = BBANLength + 2
      /\ number[1] = two[1] /\ number[2] = two[2]
      /\ \A i \in 1..BBANLength : number[i + 2] = bban[i]
  <2>1. two \in Seq(0..9) /\ bban \in Seq(0..9) BY <1>8 DEF Digits
  <2>2. /\ number \in Seq(0..9) /\ Len(number) = Len(two) + Len(bban)
        /\ \A i \in 1..Len(two) : number[i] = two[i]
        /\ \A i \in 1..Len(bban) : number[Len(two) + i] = bban[i]
    BY <2>1
  <2> HIDE DEF number
  <2>3. /\ number \in Seq(0..9) /\ Len(number) = 2 + BBANLength
        /\ \A i \in 1..2 : number[i] = two[i]
        /\ \A i \in 1..BBANLength : number[2 + i] = bban[i]
    BY <1>8, <2>2
  <2>4. 1 \in 1..2 /\ 2 \in 1..2 /\ 2 + BBANLength = BBANLength + 2 BY <1>1
  <2>5. \A i \in 1..BBANLength : 2 + i = i + 2 BY <1>1
  <2> QED BY <2>3, <2>4, <2>5
<1> HIDE DEF number
<1> QED BY <1>6, <1>8, <1>9 DEF check, R, s, z, Digits

\* The check digits complete the remainder to 1.
LEMMA ChecksComplete ==
  ASSUME NEW r \in 0..96, NEW c \in Int, c = 98 - Turn(Turn(r, 0), 0)
  PROVE  Turn(Turn(r, c \div 10), c % 10) = 1
<1>1. Turn(r, 0) \in 0..96 /\ Turn(Turn(r, 0), 0) \in 0..96
  <2>1. 0 \in 0..9 OBVIOUS
  <2>2. \A q \in 0..96 : Turn(q, 0) \in 0..96 BY ONLY <2>1, TurnIsInjective, Zenon
  <2> QED BY <2>2, Zenon
<1>2. PICK x \in 0..9, y \in 0..9 : x = c \div 10 /\ y = c % 10 /\ c = 10 * x + y BY <1>1
<1>3. Turn(r, x) \in 0..96 /\ Turn(Turn(r, x), y) \in 0..96 BY TurnIsInjective
<1>4. PICK p \in Int : Turn(r, 0) = 10 * r + 0 - 97 * p
  <2>1. 0 \in 0..9 OBVIOUS
  <2> QED BY <2>1, TurnIs, Zenon
<1>5. PICK q \in Int : Turn(Turn(r, 0), 0) = 10 * Turn(r, 0) + 0 - 97 * q
  <2>1. 0 \in 0..9 OBVIOUS
  <2> QED BY ONLY <1>1, <2>1, TurnIs, Zenon
<1>6. PICK t \in Int : Turn(r, x) = 10 * r + x - 97 * t BY TurnIs, Zenon
<1>7. PICK u \in Int : Turn(Turn(r, x), y) = 10 * Turn(r, x) + y - 97 * u BY <1>3, TurnIs, Zenon
<1>8. PICK n \in 0..96 : n = Turn(Turn(r, x), y) BY <1>3
<1>9. n = 98 + 97 * (10 * p + q - 10 * t - u)
  <2>1. n = 100 * r + c - 97 * (10 * t + u) BY <1>2, <1>6, <1>7, <1>8
  <2>2. c = 98 - (100 * r - 97 * (10 * p + q)) BY <1>4, <1>5
  <2> QED BY <2>1, <2>2
<1>10. PICK w \in Int : w = 10 * p + q - 10 * t - u OBVIOUS
<1>11. n = 98 + 97 * w BY <1>9, <1>10
<1>12. n = 1 BY <1>11
<1> QED BY <1>2, <1>8, <1>12

\* GenerateNumber makes numbers that ValidNumber accepts, whatever the random part.
THEOREM GeneratedNumbersAreValid ==
  \A bban \in Seq(0..9) : Len(bban) = BBANLength => ValidNumber(GenerateNumber(bban))
<1> SUFFICES ASSUME NEW bban \in Digits, Len(bban) = BBANLength
             PROVE  ValidNumber(GenerateNumber(bban))
  BY DEF Digits
<1> DEFINE L == BBANLength
           z == <<2, 0, 3, 5, 0, 0>>
           a == bban \o z
           number == GenerateNumber(bban)
           b == Rearranged(number)
           A == Remainders(a)
           B == Remainders(b)
           c == 98 - A[L + 6]
<1>1. L \in Nat BY MoneyAssumption
<1>2. /\ number \in Digits /\ Len(number) = L + 2
      /\ number[1] = c \div 10 /\ number[2] = c % 10
      /\ \A i \in 1..L : number[i + 2] = bban[i]
  BY GeneratedIs
<1> HIDE DEF number
<1>3. /\ b \in Digits /\ Len(b) = L + 6 /\ \A i \in 1..L : b[i] = bban[i]
      /\ b[L + 1] = 2 /\ b[L + 2] = 0 /\ b[L + 3] = 3 /\ b[L + 4] = 5
      /\ b[L + 5] = c \div 10 /\ b[L + 6] = c % 10
  <2> HIDE DEF c
  <2> QED BY <1>2, RearrangedIs DEF Digits
<1>4. z \in Seq(0..9) /\ Len(z) = 6 /\ z[1] = 2 /\ z[2] = 0 /\ z[3] = 3 /\ z[4] = 5 /\ z[5] = 0
      /\ z[6] = 0
  OBVIOUS
<1> HIDE DEF z
<1>5. /\ a \in Digits /\ Len(a) = L + 6 /\ \A i \in 1..L : a[i] = bban[i]
      /\ \A i \in 1..6 : a[L + i] = z[i]
  <2>1. bban \in Seq(0..9) /\ z \in Seq(0..9) BY <1>4 DEF Digits
  <2>2. /\ a \in Seq(0..9) /\ Len(a) = Len(bban) + Len(z)
        /\ \A i \in 1..Len(bban) : a[i] = bban[i]
        /\ \A i \in 1..Len(z) : a[Len(bban) + i] = z[i]
    BY <2>1
  <2> HIDE DEF a
  <2> QED BY <1>4, <2>2 DEF Digits
<1> HIDE DEF L, a, b, A, B, c
<1>6. a[L + 1] = 2 /\ a[L + 2] = 0 /\ a[L + 3] = 3 /\ a[L + 4] = 5 /\ a[L + 5] = 0 /\ a[L + 6] = 0
  BY <1>4, <1>5
<1>7. \A i \in 1..(L + 4) : a[i] = b[i]
  <2> TAKE i \in 1..(L + 4)
  <2>1. i \in 1..L \/ i = L + 1 \/ i = L + 2 \/ i = L + 3 \/ i = L + 4 BY <1>1
  <2> QED BY <1>3, <1>5, <1>6, <2>1
<1>8. /\ L + 4 \in Nat /\ L + 4 <= L + 6 /\ L + 4 \in 0..(L + 4) /\ L + 4 \in 0..(L + 6)
      /\ L + 5 \in 1..(L + 6) /\ L + 6 \in 1..(L + 6) /\ L + 6 \in 0..(L + 6)
      /\ (L + 5) - 1 = L + 4 /\ (L + 6) - 1 = L + 5
  BY <1>1
<1>9. A[L + 4] = B[L + 4] BY <1>3, <1>5, <1>7, <1>8, SameSoFar DEF A, B
<1>10. /\ A[L + 5] = Turn(A[L + 4], 0) /\ A[L + 6] = Turn(A[L + 5], 0) /\ A[L + 4] \in 0..96
       /\ A[L + 6] \in 0..96
  <2>1. /\ \A i \in 1..Len(a) : A[i] = Turn(A[i - 1], a[i])
        /\ \A i \in 0..Len(a) : A[i] \in 0..96
    BY <1>5, RemaindersAre DEF A
  <2>2. A[L + 5] = Turn(A[(L + 5) - 1], a[L + 5]) /\ A[L + 6] = Turn(A[(L + 6) - 1], a[L + 6])
    BY <1>5, <1>8, <2>1, Zenon
  <2>3. A[L + 5] = Turn(A[L + 4], a[L + 5]) /\ A[L + 6] = Turn(A[L + 5], a[L + 6])
    BY ONLY <1>8, <2>2, Zenon
  <2> QED BY ONLY <1>5, <1>6, <1>8, <2>1, <2>3, Zenon
<1>11. B[L + 5] = Turn(B[L + 4], c \div 10) /\ B[L + 6] = Turn(B[L + 5], c % 10)
  <2>1. \A i \in 1..Len(b) : B[i] = Turn(B[i - 1], b[i]) BY <1>3, RemaindersAre DEF B
  <2>2. B[L + 5] = Turn(B[(L + 5) - 1], b[L + 5]) /\ B[L + 6] = Turn(B[(L + 6) - 1], b[L + 6])
    BY <1>3, <1>8, <2>1, Zenon
  <2>3. B[L + 5] = Turn(B[L + 4], b[L + 5]) /\ B[L + 6] = Turn(B[L + 5], b[L + 6])
    BY ONLY <1>8, <2>2, Zenon
  <2> QED BY ONLY <1>3, <2>3, Zenon
<1>12. c \in Int /\ c = 98 - Turn(Turn(A[L + 4], 0), 0)
  <2>1. c = 98 - A[L + 6] BY DEF c
  <2>2. c \in Int
    <3>1. \A k \in 0..96 : 98 - k \in Int OBVIOUS
    <3>2. 98 - A[L + 6] \in Int BY ONLY <1>10, <3>1, Zenon
    <3> QED BY ONLY <2>1, <3>2, Zenon
  <2> QED BY ONLY <1>10, <2>1, <2>2, Zenon
<1>13. Turn(Turn(A[L + 4], c \div 10), c % 10) = 1 BY <1>10, <1>12, ChecksComplete
<1>14. B[L + 6] = 1 BY <1>9, <1>11, <1>13
<1>15. number \in Seq(0..10)
  <2>1. 0..9 \subseteq 0..10 OBVIOUS
  <2>2. number \in Seq(0..9) BY <1>2 DEF Digits
  <2> QED BY <2>1, <2>2
<1>16. Len(number) = BBANLength + 2 BY <1>2 DEF L
<1>17. ValidNumber(number) <=> Remainders(Rearranged(number))[BBANLength + 6] = 1
  BY <1>2, <1>15, <1>16, ValidIs
<1> QED BY <1>14, <1>17 DEF L, b, B, number

\* A number of the right length that ValidNumber accepts is one it no longer accepts with
\* one character mistyped.
LEMMA MistypeIsCaught ==
  ASSUME NEW number \in Digits, Len(number) = BBANLength + 2, ValidNumber(number),
         NEW i \in 1..Len(number), NEW d \in 0..10, d # number[i]
  PROVE  ~ValidNumber([number EXCEPT ![i] = d])
<1> DEFINE L == BBANLength
           n == [number EXCEPT ![i] = d]
           a == Rearranged(number)
           b == Rearranged(n)
<1>1. L \in Nat /\ Len(number) = L + 2 BY MoneyAssumption
<1>2. 0..9 \subseteq 0..10 /\ number \in Seq(0..9) BY DEF Digits
<1>3. number \in Seq(0..10) BY <1>2
<1>4. /\ n \in Seq(0..10) /\ Len(n) = L + 2 /\ n[i] = d
      /\ \A j \in 1..(L + 2) : j # i => n[j] = number[j]
  BY <1>1, <1>3
<1> HIDE DEF n
<1>5. CASE d = 10
  <2>1. n \notin Digits
    <3> SUFFICES ASSUME n \in Seq(0..9) PROVE FALSE BY DEF Digits
    <3>1. i \in 1..Len(n) BY <1>1, <1>4
    <3>2. n[i] \in 0..9 BY <3>1
    <3> QED BY <1>4, <1>5, <3>2
  <2> QED BY <1>4, <2>1, ValidIs DEF n
<1>6. CASE d # 10
  <2>1. n \in Seq(0..9)
    <3>1. \A j \in 1..(L + 2) : n[j] \in 0..9 BY <1>1, <1>2, <1>4, <1>6
    <3>2. n \in [1..(L + 2) -> 0..9] BY <1>4, <3>1
    <3> QED BY <1>1, <3>2
  <2>2. /\ a \in Seq(0..9) /\ Len(a) = L + 6
        /\ \A j \in 1..L : a[j] = number[j + 2]
        /\ a[L + 1] = 2 /\ a[L + 2] = 0 /\ a[L + 3] = 3 /\ a[L + 4] = 5
        /\ a[L + 5] = number[1] /\ a[L + 6] = number[2]
    BY <1>1, <1>2, RearrangedIs
  <2>3. /\ b \in Seq(0..9) /\ Len(b) = L + 6
        /\ \A j \in 1..L : b[j] = n[j + 2]
        /\ b[L + 1] = 2 /\ b[L + 2] = 0 /\ b[L + 3] = 3 /\ b[L + 4] = 5
        /\ b[L + 5] = n[1] /\ b[L + 6] = n[2]
    BY <1>4, <2>1, RearrangedIs
  <2> HIDE DEF a, b, L
  <2> DEFINE p == IF i > 2 THEN i - 2 ELSE i + L + 4
  <2>4. p \in 1..(L + 6) /\ a[p] = number[i] /\ b[p] = d
    <3>1. CASE i > 2
      <4>1. i - 2 \in 1..L /\ (i - 2) + 2 = i /\ p = i - 2 /\ p \in 1..(L + 6) BY <1>1, <3>1
      <4> QED BY <1>4, <2>2, <2>3, <4>1
    <3>2. CASE i = 1
      <4>1. p = L + 5 /\ p \in 1..(L + 6) BY <1>1, <3>2
      <4> QED BY <1>4, <2>2, <2>3, <3>2, <4>1
    <3>3. CASE i = 2
      <4>1. p = L + 6 /\ p \in 1..(L + 6) BY <1>1, <3>3
      <4> QED BY <1>4, <2>2, <2>3, <3>3, <4>1
    <3> QED BY <1>1, <3>1, <3>2, <3>3
  <2>5. \A j \in 1..(L + 6) : j # p => a[j] = b[j]
    <3> SUFFICES ASSUME NEW j \in 1..(L + 6), j # p PROVE a[j] = b[j] OBVIOUS
    <3>1. CASE j \in 1..L
      <4>1. j + 2 \in 1..(L + 2) /\ j + 2 # i BY <1>1, <3>1
      <4> QED BY <1>4, <2>2, <2>3, <3>1, <4>1
    <3>2. CASE j = L + 5
      <4>1. 1 # i /\ 1 \in 1..(L + 2) BY <1>1, <3>2
      <4> QED BY <1>4, <2>2, <2>3, <3>2, <4>1
    <3>3. CASE j = L + 6
      <4>1. 2 # i /\ 2 \in 1..(L + 2) BY <1>1, <3>3
      <4> QED BY <1>4, <2>2, <2>3, <3>3, <4>1
    <3>4. CASE j = L + 1 \/ j = L + 2 \/ j = L + 3 \/ j = L + 4 BY <2>2, <2>3, <3>4
    <3>5. j \in 1..L \/ j = L + 5 \/ j = L + 6 \/ j = L + 1 \/ j = L + 2 \/ j = L + 3 \/ j = L + 4
      BY <1>1
    <3> QED BY <3>1, <3>2, <3>3, <3>4, <3>5
  <2> HIDE DEF p
  <2>6. Remainders(a)[L + 6] # Remainders(b)[L + 6]
    <3>1. a \in Digits /\ b \in Digits BY <2>2, <2>3 DEF Digits
    <3>2. Len(a) = L + 6 /\ Len(b) = Len(a) BY <2>2, <2>3
    <3>3. p \in 1..Len(a) /\ a[p] # b[p] /\ \A j \in 1..Len(a) : j # p => a[j] = b[j]
      BY <2>4, <2>5, <3>2
    <3> QED BY <3>1, <3>2, <3>3, OneDigitTells
  <2>7. Remainders(a)[L + 6] = 1 BY <1>3, ValidIs DEF a, L
  <2>8. ValidNumber(n) => Remainders(b)[L + 6] = 1 BY <1>4, <2>1, ValidIs DEF b, L, Digits
  <2>9. ~ValidNumber(n) BY <2>6, <2>7, <2>8
  <2> QED BY <2>9 DEF n
<1> QED BY <1>5, <1>6

\* Nor does it accept one with two neighbours in the wrong order.
LEMMA SwapIsCaught ==
  ASSUME NEW number \in Digits, Len(number) = BBANLength + 2, ValidNumber(number),
         NEW i \in 1..(Len(number) - 1), number[i] # number[i + 1]
  PROVE  ~ValidNumber([number EXCEPT ![i] = number[i + 1], ![i + 1] = number[i]])
<1> DEFINE L == BBANLength
           n == [number EXCEPT ![i] = number[i + 1], ![i + 1] = number[i]]
           a == Rearranged(number)
           b == Rearranged(n)
<1>1. L \in 0..16 /\ Len(number) = L + 2 BY MoneyAssumption
<1>2. number \in Seq(0..9) BY DEF Digits
<1>3. i \in 1..(L + 2) /\ i + 1 \in 1..(L + 2) /\ i # i + 1 BY <1>1
<1>4. number[i] \in 0..9 /\ number[i + 1] \in 0..9 BY <1>1, <1>2, <1>3
<1>5. /\ n \in Seq(0..9) /\ Len(n) = L + 2 /\ n[i] = number[i + 1] /\ n[i + 1] = number[i]
      /\ \A j \in 1..(L + 2) : j # i /\ j # i + 1 => n[j] = number[j]
  <2>1. DOMAIN number = 1..(L + 2) BY <1>1, <1>2
  <2>2. /\ DOMAIN n = 1..(L + 2) /\ n[i] = number[i + 1] /\ n[i + 1] = number[i]
        /\ \A j \in 1..(L + 2) : j # i /\ j # i + 1 => n[j] = number[j]
    BY <1>3, <2>1
  <2>3. \A j \in 1..(L + 2) : number[j] \in 0..9 BY <1>1, <1>2
  <2>4. n = [j \in 1..(L + 2) |-> n[j]] BY <2>1
  <2> HIDE DEF n
  <2>5. \A j \in 1..(L + 2) : n[j] \in 0..9 BY <1>4, <2>2, <2>3
  <2>6. n \in [1..(L + 2) -> 0..9] BY <2>4, <2>5
  <2> QED BY <1>1, <2>2, <2>6
<1> HIDE DEF n
<1>6. /\ a \in Seq(0..9) /\ Len(a) = L + 6
      /\ \A j \in 1..L : a[j] = number[j + 2]
      /\ a[L + 1] = 2 /\ a[L + 2] = 0 /\ a[L + 3] = 3 /\ a[L + 4] = 5
      /\ a[L + 5] = number[1] /\ a[L + 6] = number[2]
  BY <1>1, <1>2, RearrangedIs
<1>7. /\ b \in Seq(0..9) /\ Len(b) = L + 6
      /\ \A j \in 1..L : b[j] = n[j + 2]
      /\ b[L + 1] = 2 /\ b[L + 2] = 0 /\ b[L + 3] = 3 /\ b[L + 4] = 5
      /\ b[L + 5] = n[1] /\ b[L + 6] = n[2]
  BY <1>5, RearrangedIs
<1>8. a \in Digits /\ b \in Digits /\ Len(b) = Len(a) BY <1>6, <1>7 DEF Digits
<1> HIDE DEF a, b, L
<1>9. \A j \in 1..(L + 6) : \/ j \in 1..L \/ j = L + 5 \/ j = L + 6
                            \/ j = L + 1 \/ j = L + 2 \/ j = L + 3 \/ j = L + 4
  BY <1>1
<1>10. Remainders(a)[Len(a)] # Remainders(b)[Len(a)]
  <2>1. CASE i = 1
    <3>1. \A j \in 1..L : j + 2 \in 1..(L + 2) /\ j + 2 # i /\ j + 2 # i + 1 BY <1>1, <2>1
    <3>2. \A j \in 1..L : a[j] = b[j] BY <1>5, <1>6, <1>7, <3>1
    <3>3. i + 1 = 2 /\ (L + 5) + 1 = L + 6 /\ L + 5 \in 1..(Len(a) - 1) BY <1>1, <1>6, <2>1
    <3>4. a[L + 5] # a[L + 6] /\ b[L + 5] = a[L + 6] /\ b[L + 6] = a[L + 5]
      BY <1>5, <1>6, <1>7, <2>1, <3>3
    <3>5. \A j \in 1..(L + 6) : j # L + 5 /\ j # L + 6 => a[j] = b[j] BY <1>6, <1>7, <1>9, <3>2
    <3>6. PICK p : p = L + 5 OBVIOUS
    <3>7. p + 1 = L + 6 BY <3>3, <3>6
    <3>8. /\ p \in 1..(Len(a) - 1) /\ a[p] # a[p + 1] /\ b[p] = a[p + 1] /\ b[p + 1] = a[p]
          /\ \A j \in 1..Len(a) : j # p /\ j # p + 1 => a[j] = b[j]
      BY <1>6, <3>3, <3>4, <3>5, <3>6, <3>7
    <3> QED BY <1>8, <3>8, NeighboursTell
  <2>2. CASE i = 2
    <3>1. 1 \in 1..(L + 2) /\ i + 1 = 3 /\ 1 # i /\ 1 # i + 1 /\ 1 \in 1..L /\ 1 + 2 = 3
      BY <1>1, <1>3, <2>2
    <3>2. \A j \in 2..L : j \in 1..L /\ j + 2 \in 1..(L + 2) /\ j + 2 # i /\ j + 2 # i + 1
      BY <1>1, <2>2
    <3>3. \A j \in 2..L : a[j] = b[j] BY <1>5, <1>6, <1>7, <3>2
    <3>4. a[1] = number[3] /\ b[1] = number[2] BY <1>5, <1>6, <1>7, <2>2, <3>1
    <3>5. a[L + 6] = number[2] /\ b[L + 6] = number[3] BY <1>5, <1>6, <1>7, <2>2, <3>1
    <3>6. number[2] # number[3] BY <2>2, <3>1
    <3>7. a[L + 5] = b[L + 5] BY <1>5, <1>6, <1>7, <3>1
    <3>8. \A j \in 2..(L + 5) : a[j] = b[j]
      <4> TAKE j \in 2..(L + 5)
      <4>1. j \in 2..L \/ j = L + 5 \/ j = L + 1 \/ j = L + 2 \/ j = L + 3 \/ j = L + 4 BY <1>1
      <4> QED BY <1>6, <1>7, <3>3, <3>7, <4>1
    <3>9. L + 6 \in 2..22 /\ (L + 6) - 1 = L + 5 BY <1>1
    <3>10. /\ Len(a) \in 2..22 /\ a[1] # a[Len(a)] /\ b[1] = a[Len(a)] /\ b[Len(a)] = a[1]
           /\ \A j \in 2..(Len(a) - 1) : a[j] = b[j]
      BY <1>6, <3>4, <3>5, <3>6, <3>8, <3>9
    <3> QED BY <1>8, <3>10, EndsTell
  <2>3. CASE i > 2
    <3>1. /\ i - 2 \in 1..L /\ (i - 2) + 1 \in 1..L /\ (i - 2) + 2 = i
          /\ ((i - 2) + 1) + 2 = i + 1 /\ i - 2 \in 1..((L + 6) - 1)
      BY <1>1, <1>3, <2>3
    <3>2. PICK p : p = i - 2 OBVIOUS
    <3>3. p \in 1..L /\ p + 1 \in 1..L /\ p + 2 = i /\ (p + 1) + 2 = i + 1 /\ p \in 1..((L + 6) - 1)
      BY <3>1, <3>2
    <3>4. a[p] = number[i] /\ a[p + 1] = number[i + 1] BY <1>6, <3>3
    <3>5. b[p] = number[i + 1] /\ b[p + 1] = number[i] BY <1>5, <1>7, <3>3
    <3>6. \A j \in 1..L : j # p /\ j # p + 1 => j + 2 \in 1..(L + 2) /\ j + 2 # i /\ j + 2 # i + 1
      BY <1>1, <3>2
    <3>7. \A j \in 1..L : j # p /\ j # p + 1 => a[j] = b[j] BY <1>5, <1>6, <1>7, <3>6
    <3>8. 1 \in 1..(L + 2) /\ 1 # i /\ 1 # i + 1 /\ 2 \in 1..(L + 2) /\ 2 # i /\ 2 # i + 1
      BY <1>1, <1>3, <2>3
    <3>9. a[L + 5] = b[L + 5] /\ a[L + 6] = b[L + 6] BY <1>5, <1>6, <1>7, <3>8
    <3>10. \A j \in 1..(L + 6) : j # p /\ j # p + 1 => a[j] = b[j]
      BY <1>6, <1>7, <1>9, <3>7, <3>9
    <3>11. /\ p \in 1..(Len(a) - 1) /\ a[p] # a[p + 1] /\ b[p] = a[p + 1] /\ b[p + 1] = a[p]
           /\ \A j \in 1..Len(a) : j # p /\ j # p + 1 => a[j] = b[j]
      BY <1>6, <3>3, <3>4, <3>5, <3>10
    <3> QED BY <1>8, <3>11, NeighboursTell
  <2> QED BY <1>3, <2>1, <2>2, <2>3
<1>11. number \in Seq(0..10) /\ n \in Seq(0..10)
  <2>1. 0..9 \subseteq 0..10 OBVIOUS
  <2> QED BY <1>2, <1>5, <2>1
<1>12. Remainders(a)[L + 6] = 1 BY <1>11, ValidIs DEF a, L
<1>13. ValidNumber(n) => Remainders(b)[L + 6] = 1 BY <1>5, <1>11, ValidIs DEF b, L, Digits
<1>14. ~ValidNumber(n) BY <1>6, <1>10, <1>12, <1>13
<1> QED BY <1>14 DEF n

-----------------------------------------------------------------------------
(* The number that is paid *)

\* A transfer by number pays the account whose number it is, so the number has the check
\* digits the account service gave it, and no slip of one character and no two swapped
\* neighbours make another number that ValidNumber takes.
THEOREM NoSlipPaysAnother == RulesSpec => []MistypesAreCaught
<1>1. RulesInit => RulesTypes /\ EntryInv
  BY TypesStart DEF RulesInit, EntryInv, Idle
<1>2. RulesTypes /\ EntryInv /\ [RulesNext]_rvars => (RulesTypes /\ EntryInv)'
  BY EntryStep
<1>3. RulesTypes /\ EntryInv => MistypesAreCaught
  <2> SUFFICES ASSUME EntryInv, NEW x \in DOMAIN rows, Accepted(x), rows[x].spec.type = "P2P"
               PROVE  LET number == rows[x].spec.number
                          mistyped == {[number EXCEPT ![i] = d] : i \in DOMAIN number, d \in 0..10}
                          swapped == {[number EXCEPT ![i] = number[i + 1], ![i + 1] = number[i]] :
                                        i \in 1..(Len(number) - 1)}
                      IN  \A n \in mistyped \cup swapped : ValidNumber(n) <=> n = number
    BY DEF MistypesAreCaught
  <2> DEFINE number == rows[x].spec.number
             to == rows[x].to
  <2>1. to \in Accounts /\ number = GenerateNumber(Info[to].bban)
    BY DEF EntryInv, Settled, Number
  <2>2. Info[to].bban \in Digits /\ Len(Info[to].bban) = BBANLength
    BY <2>1, RulesAssumption DEF Digits
  <2>3. number \in Digits /\ Len(number) = BBANLength + 2 BY <2>1, <2>2, GeneratedIs
  <2>4. ValidNumber(number) BY <2>1, <2>2, GeneratedNumbersAreValid DEF Digits
  <2> HIDE DEF number, to
  <2>5. DOMAIN number = 1..Len(number) /\ number \in Seq(0..9) /\ Len(number) \in Nat
    BY <2>3 DEF Digits
  <2> DEFINE Mistyped(i, d) == [number EXCEPT ![i] = d]
  <2>6. ASSUME NEW i \in DOMAIN number, NEW d \in 0..10
        PROVE  ValidNumber(Mistyped(i, d)) <=> Mistyped(i, d) = number
    <3>1. CASE d = number[i]
      <4>1. Mistyped(i, d) = number BY <2>5, <3>1
      <4> HIDE DEF Mistyped
      <4> QED BY <2>4, <4>1
    <3>2. CASE d # number[i]
      <4>1. ~ValidNumber(Mistyped(i, d)) BY <2>3, <2>4, <2>5, <3>2, MistypeIsCaught
      <4> HIDE DEF Mistyped
      <4> QED BY <2>4, <4>1
    <3> QED BY <3>1, <3>2
  <2>7. ASSUME NEW i \in 1..(Len(number) - 1)
        PROVE  LET n == [number EXCEPT ![i] = number[i + 1], ![i + 1] = number[i]]
               IN  ValidNumber(n) <=> n = number
    <3> DEFINE n == [number EXCEPT ![i] = number[i + 1], ![i + 1] = number[i]]
    <3>1. CASE number[i] = number[i + 1]
      <4>1. i \in DOMAIN number /\ i + 1 \in DOMAIN number BY <2>5
      <4>2. DOMAIN n = DOMAIN number /\ \A j \in DOMAIN number : n[j] = number[j]
        BY <3>1, <4>1
      <4>3. n = [j \in DOMAIN number |-> n[j]] OBVIOUS
      <4>4. number = [j \in DOMAIN number |-> number[j]] BY <2>5
      <4>5. n = number
        <5> HIDE DEF n
        <5> QED BY <4>2, <4>3, <4>4
      <4> HIDE DEF n
      <4>6. ValidNumber(n) <=> n = number BY <2>4, <4>5
      <4> QED BY <4>6 DEF n
    <3>2. CASE number[i] # number[i + 1]
      <4>1. ~ValidNumber(n) BY <2>3, <2>4, <3>2, SwapIsCaught
      <4> HIDE DEF n
      <4>2. ValidNumber(n) <=> n = number BY <2>4, <4>1
      <4> QED BY <4>2 DEF n
    <3> QED BY <3>1, <3>2
  <2>8. \A n \in {[number EXCEPT ![i] = d] : i \in DOMAIN number, d \in 0..10} :
          ValidNumber(n) <=> n = number
    <3>1. \A n \in {Mistyped(i, d) : i \in DOMAIN number, d \in 0..10} :
            ValidNumber(n) <=> n = number
      <4> HIDE DEF Mistyped
      <4> QED BY <2>6
    <3> QED BY <3>1
  <2>9. \A n \in {[number EXCEPT ![i] = number[i + 1], ![i + 1] = number[i]] :
                    i \in 1..(Len(number) - 1)} : ValidNumber(n) <=> n = number
    BY <2>7
  <2> QED BY <2>8, <2>9 DEF number
<1> QED BY <1>1, <1>2, <1>3, PTL DEF RulesSpec
=============================================================================
