---------------------------- MODULE LedgerAtomic ----------------------------
(***************************************************************************)
(* What the ledger service promises: every operation that takes effect     *)
(* does so in one step, with all of its checks true of the state that step *)
(* starts from (docs/services/ledger-service.md, "Posting algorithm", and  *)
(* ADR-0007).  Nothing is said of answers, locks or unfinished requests;   *)
(* module Ledger, the statement-by-statement model of the code, is shown   *)
(* to implement this specification.                                        *)
(***************************************************************************)
EXTENDS LedgerDomain

VARIABLES
  accounts,   \* ledger_accounts: the accounts that exist
  balances,   \* account_balances: account -> Row
  holds,      \* holds: reference -> Hold or NoHold
  expired,    \* the references of the holds whose expires_at is in the past
  entries,    \* journal_entry_refs, journal_entries, postings: reference -> legs
  outbox      \* outbox: the TransactionPosted events ever written

avars == <<accounts, balances, holds, expired, entries, outbox>>

Event == [acct : Accounts, ref : Refs, balance : Int64, version : Nat]

ATypeOK ==
  /\ accounts \subseteq Accounts
  /\ balances \in [Accounts -> Row]
  /\ holds \in [Refs -> Hold \cup {NoHold}]
  /\ expired \subseteq Refs
  /\ entries \in [Refs -> Seq(Leg)]
  /\ outbox \subseteq Event

AInit ==
  /\ accounts = Internals
  /\ balances = [a \in Accounts |-> ZeroRow]
  /\ holds = [r \in Refs |-> NoHold]
  /\ expired = {}
  /\ entries = [r \in Refs |-> NoEntry]
  /\ outbox = {}

ACreateAccount(a) ==
  /\ a \notin accounts
  /\ accounts' = accounts \cup {a}
  /\ UNCHANGED <<balances, holds, expired, entries, outbox>>

AExpire(r) ==
  /\ holds[r].status # "none"
  /\ r \notin expired
  /\ expired' = expired \cup {r}
  /\ UNCHANGED <<accounts, balances, holds, entries, outbox>>

APlaceHold(q) ==
  /\ q.acct \in accounts
  /\ q.cur = Cur[q.acct]
  /\ holds[q.ref] = NoHold
  /\ CanPlaceHold(balances[q.acct], q.acct, q.amount) = "OK"
  /\ HeldRow(balances[q.acct], q.amount).held >= 0
  /\ holds' = [holds EXCEPT ![q.ref] =
                 [acct |-> q.acct, amount |-> q.amount, status |-> "active"]]
  /\ balances' = [balances EXCEPT ![q.acct] = HeldRow(@, q.amount)]
  /\ UNCHANGED <<accounts, expired, entries, outbox>>

AReleaseHold(r) ==
  /\ holds[r].status = "active"
  /\ balances[holds[r].acct].held >= holds[r].amount
  /\ holds' = [holds EXCEPT ![r].status = "released"]
  /\ balances' = [balances EXCEPT ![holds[r].acct] = ReleasedRow(@, holds[r].amount)]
  /\ UNCHANGED <<accounts, expired, entries, outbox>>

\* The held adjustment of account a when q captures a hold.
AHeldAdj(q, a) ==
  IF q.hold # NoRef /\ holds[q.hold].acct = a THEN -holds[q.hold].amount ELSE 0

APostTransaction(q) ==
  /\ Affected(q.legs) \subseteq accounts
  /\ entries[q.ref] = NoEntry
  /\ ValidateEntry(q.legs) = "OK"
  /\ q.hold # NoRef => /\ q.hold = q.ref
                       /\ holds[q.hold] # NoHold
                       /\ CaptureHold(holds[q.hold], q.legs) = "OK"
  /\ \A a \in Affected(q.legs) :
       ApplyPosting(balances[a], a, AHeldAdj(q, a), Delta(q.legs, a)) = "OK"
  /\ entries' = [entries EXCEPT ![q.ref] = q.legs]
  /\ balances' = [a \in Accounts |->
                    IF a \in Affected(q.legs)
                    THEN AppliedRow(balances[a], AHeldAdj(q, a), Delta(q.legs, a))
                    ELSE balances[a]]
  /\ holds' = IF q.hold = NoRef THEN holds
              ELSE [holds EXCEPT ![q.hold].status = "captured"]
  /\ outbox' = outbox \cup
       {[acct |-> a, ref |-> q.ref, balance |-> balances'[a].balance,
         version |-> balances'[a].version] : a \in Affected(q.legs)}
  /\ UNCHANGED <<accounts, expired>>

ANext ==
  \/ \E a \in Customers : ACreateAccount(a)
  \/ \E r \in Refs : AExpire(r) \/ AReleaseHold(r)
  \/ \E q \in Requests : q.op = "place" /\ APlaceHold(q)
  \/ \E q \in Requests : q.op = "post" /\ APostTransaction(q)

ASpec == AInit /\ [][ANext]_avars

-----------------------------------------------------------------------------
(* What follows from it *)

\* Invariant 4 of the ledger's documentation: the materialised balance of an
\* account, written by UpdateBalance, is the sum of its committed postings.
BalanceIsPostings ==
  \A a \in Accounts :
    balances[a].balance = SumFunctionOnSet([r \in Refs |-> Delta(entries[r], a)], Refs)

\* What the active holds of account a reserve.
ActiveHolds(a) == {r \in Refs : holds[r].status = "active" /\ holds[r].acct = a}
ActiveSum(a) ==
  SumFunctionOnSet([r \in ActiveHolds(a) |-> holds[r].amount], ActiveHolds(a))

\* The held column is the sum of the account's active holds: what PlaceHold,
\* ReleaseHold, the sweeper and a capture add to it and take from it balances.
HeldIsActiveHolds == \A a \in Accounts : balances[a].held = ActiveSum(a)

\* Invariant 3: no interleaving of holds, captures and releases overdraws a
\* customer (balance - held >= 0), and held never becomes negative.
NoOverdraft ==
  \A a \in Accounts :
    /\ balances[a].held >= 0
    /\ a \in Customers => balances[a].balance - balances[a].held >= 0

\* The events of account a, and what the entry of each one posted to it.
EventsOf(a) == {e \in outbox : e.acct = a}
Posted(a) == [e \in EventsOf(a) |-> Delta(entries[e.ref], a)]

\* Invariant 5, as projections rely on it: the events of an account carry the
\* versions 1 .. version, one each, and the balance after the postings so far.
EventsFollowVersions ==
  \A a \in Accounts :
    /\ {e.version : e \in EventsOf(a)} = 1 .. balances[a].version
    /\ Cardinality(EventsOf(a)) = balances[a].version
    /\ \A e \in EventsOf(a) :
         e.balance = SumFunctionOnSet(Posted(a), {d \in EventsOf(a) : d.version <= e.version})

\* Double entry at the level of the books: whatever posts commit in whatever
\* order, the balances of all accounts of a currency add up to zero.
MoneyConserved ==
  \A c \in Currencies :
    SumFunctionOnSet([a \in Accounts |-> balances[a].balance],
                     {a \in Accounts : Cur[a] = c}) = 0

\* Invariants 2 and 7: an entry is never changed; a hold leaves "active" once,
\* to "released", or to "captured" in the very step that commits the entry of its
\* reference.
HistoryIsFinal ==
  [][\A r \in Refs :
       /\ entries[r] # NoEntry => entries'[r] = entries[r]
       /\ holds[r].status \in {"captured", "released"} => holds'[r] = holds[r]
       /\ (holds[r].status = "active" /\ holds'[r].status = "captured") =>
            entries[r] = NoEntry /\ entries'[r] # NoEntry]_avars

\* Invariant 7, "Capturing a hold posts at most the held amount": the entry a
\* captured hold was captured by debits its account by no more than the hold.
CaptureWithinHold ==
  \A r \in Refs :
    holds[r].status = "captured" => Delta(entries[r], holds[r].acct) >= -holds[r].amount
=============================================================================
