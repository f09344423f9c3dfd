----------------------------- MODULE Antifraud ------------------------------
(***************************************************************************)
(* The anti-fraud scorer: it reads the customer's sliding statistics,      *)
(* advances them by one completed transfer, evaluates the rules and writes *)
(* statistics, beneficiary and alerts in the transaction of the dedup row. *)
(*                                                                         *)
(* One customer and one currency, which is what a row of customer_stats is *)
(* about.  transfers.status is keyed by transfer id, so that transfers of  *)
(* one customer are in different partitions and reach the scorer in any    *)
(* order.  An attempt that fails rolls back and leaves nothing; EventFlow  *)
(* models those.                                                           *)
(***************************************************************************)
EXTENDS Integers, FiniteSets, Functions

CONSTANTS
  Transfers,    \* transfers of the customer
  Kind,         \* "p2p", "internal" or "topup"
  At,           \* the time each one completes: occurred_at of its event
  Amount,       \* its amount
  Dest,         \* its destination account
  Scorers,      \* consumers of the group: one, or two while a rollout overlaps
  Window,       \* five minutes
  Day,          \* the length of a day
  Rules         \* the table rules: [kind, severity, limit, enabled]

ASSUME AntifraudAssumption ==
  /\ At \in [Transfers -> Nat] /\ Amount \in [Transfers -> Nat]
  /\ Window \in Nat \ {0} /\ Day \in Nat \ {0}
  /\ Scorers \in Nat
  /\ Rules \subseteq [kind : {"amount_over", "velocity", "daily_out_sum", "new_beneficiary"},
                      severity : {"MEDIUM", "HIGH"}, limit : Nat, enabled : BOOLEAN]

VARIABLES
  stats,          \* the row of customer_stats, or NoStats
  beneficiaries,  \* counterparty accounts seen
  scoring,        \* the transfers being scored, each with the stats that were read
  scored,         \* transfers whose scoring committed
  alerts,         \* rows of alerts, each with its FraudAlertRaised
  skewed          \* history: two scorings overlapped, or an event came late

fvars == <<stats, beneficiaries, scoring, scored, alerts, skewed>>

NoStats == [day |-> -1, sum |-> 0, start |-> -1, count |-> 0]
Nothing == [day |-> -2]

\* loadRules: the enabled rows, parsed.
loadRules == {r \in Rules : r.enabled}

AntifraudInit ==
  /\ stats = NoStats
  /\ beneficiaries = {} /\ scored = {} /\ alerts = {}
  /\ scoring = [t \in Transfers |-> Nothing]
  /\ skewed = FALSE

\* The scored transfers that count as outgoing spend.
Spending == {t \in scored : Kind[t] # "topup"}

DateOf(at) == at \div Day

\* The window restarts with the first transfer after its end.
AdvanceWindow(st, at) ==
  IF at - st.start >= Window \/ st = NoStats
  THEN [start |-> at, count |-> 1]
  ELSE [start |-> st.start, count |-> st.count + 1]

\* Variant: the sum is carried into the next day.
AdvanceDayNoReset(st, at, amount) == [day |-> DateOf(at), sum |-> st.sum + amount]

\* The sum restarts when the date changes.
AdvanceDay(st, at, amount) ==
  IF DateOf(at) # st.day
  THEN [day |-> DateOf(at), sum |-> amount]
  ELSE [day |-> st.day, sum |-> st.sum + amount]

\* The rules that fire: strictly above their threshold.
Evaluate(rules, amount, count, sum, isNew) ==
  {r \in rules :
     \/ r.kind = "amount_over" /\ amount > r.limit
     \/ r.kind = "velocity" /\ r.limit > 0 /\ count > r.limit
     \/ r.kind = "daily_out_sum" /\ sum > r.limit
     \/ r.kind = "new_beneficiary" /\ isNew /\ amount > r.limit}

-----------------------------------------------------------------------------
(* The statements *)

GetStats == stats

UpsertStats(day, win) ==
  stats' = [day |-> day.day, sum |-> day.sum, start |-> win.start, count |-> win.count]

\* ON CONFLICT DO NOTHING: a beneficiary is new once.
TryInsertBeneficiary(to) == beneficiaries' = beneficiaries \cup {to}
IsNew(to) == to \notin beneficiaries

\* raise, for each rule that fired: the row of alerts and FraudAlertRaised.
Raise(t, fired) == alerts' = alerts \cup {<<t, r>> : r \in fired}

-----------------------------------------------------------------------------
(* The handler *)

\* Handle returns at once for incoming funding.
SkipTopup(t) ==
  /\ t \notin scored /\ Kind[t] = "topup"
  /\ scored' = scored \cup {t}
  /\ UNCHANGED <<stats, beneficiaries, scoring, alerts, skewed>>

InHand == {t \in Transfers : scoring[t] # Nothing}

\* The dedup row is in, and GetStats has read the committed statistics.
ScoreRead(t) ==
  /\ t \notin scored \cup InHand /\ Kind[t] # "topup"
  /\ Cardinality(InHand) < Scorers
  /\ scoring' = [scoring EXCEPT ![t] = GetStats]
  /\ skewed' = (skewed \/ InHand # {} \/ \E u \in Spending : At[u] > At[t])
  /\ UNCHANGED <<stats, beneficiaries, scored, alerts>>

\* The rest of Handle and the commit: windows slid over what was read, the
\* beneficiary, the alerts with their events, the statistics.
ScoreWrite(t) ==
  /\ t \in InHand
  /\ LET win == AdvanceWindow(scoring[t], At[t])
         day == AdvanceDay(scoring[t], At[t], Amount[t])
     IN  /\ TryInsertBeneficiary(Dest[t])
         /\ Raise(t, Evaluate(loadRules, Amount[t], win.count, day.sum, IsNew(Dest[t])))
         /\ UpsertStats(day, win)
  /\ scored' = scored \cup {t}
  /\ scoring' = [scoring EXCEPT ![t] = Nothing]
  /\ UNCHANGED skewed

-----------------------------------------------------------------------------
(* Properties *)

\* What was spent on a day, as far as it was scored.
Spent(day) == SumFunctionOnSet(Amount, {t \in Spending : DateOf(At[t]) = day})

\* The transfers of t's day that raised the daily limit r.
Raised(t, r) == {u \in Spending : DateOf(At[u]) = DateOf(At[t]) /\ <<u, r>> \in alerts}

\* The statistics never count money twice, so that no daily limit is raised for a
\* day that was within it; and while events come in order and one at a time they
\* are exact, so that no day above it is missed (customer_stats "updated in the
\* consumer transaction").
SumsAreSound ==
  /\ stats # NoStats => stats.sum <= Spent(stats.day)
  /\ ~skewed /\ stats # NoStats => stats.sum = Spent(stats.day)
  /\ \A t \in Spending, r \in {x \in loadRules : x.kind = "daily_out_sum"} :
       LET over == Spent(DateOf(At[t])) > r.limit
       IN  /\ Raised(t, r) # {} => over
           /\ over /\ ~skewed => Raised(t, r) # {}
=============================================================================
