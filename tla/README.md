# bank-core in TLA+

This directory holds the formal model of bank-core: TLA+ modules that follow the
code, TLC configurations that check them on small instances, and TLAPS proofs of
what matters most. `PROJECT.json` records which definition models which lines
(`map`), the runs, a mutant for every property, the hazards and the finding.

Run a check with `tlc -config <file>.cfg <module>`, the proofs of a module with
`tlapm <module>.tla`. The modules with proofs are `SumTheorems`, `LedgerProofs`,
`JournalProofs`, `TransferSagaProofs`, `TransferRulesProofs`, `EventFlowProofs`,
`FraudLoopProofs` and `GatewayProofs` (which covers identity too).

## 1. Inventory

Six services behind a gateway; each has its own Postgres database, calls the
others over gRPC and publishes events through an outbox table and Kafka.

| Component | State | Operations | What is hard | Module |
|---|---|---|---|---|
| ledger (`services/ledger`) | accounts, balances with `held` and `version`, holds, journal entries with postings, entry references, outbox | CreateAccount, PlaceHold, ReleaseHold, PostTransaction, hold sweeper | row locks taken statement by statement, unique keys, retried requests, lost commit acknowledgements, 64-bit limits | `LedgerDomain`, `LedgerAtomic`, `Ledger` |
| ledger partitions and lists | monthly partitions, triggers; cursors | EnsurePartitions at start and daily; ListPostings, ListTransfers | separate statements, several instances, the turn of the month; paging while rows commit | `Journal` |
| transfer saga and recovery (`services/transfer`) | transfers, idempotency keys, audit trail, `recovery_attempts` | CreateTransfer, Drive, key clean-up; ClaimStuck, recoverOne | several processes drive one transfer; calls whose outcome is unknown; copies of rows kept across calls | `TransferSaga` |
| validation, limits, FX | limits, rates | validate, CheckLimits, conversion, buildPostings | daily sum without a lock, midnight, rounding | `TransferRules`, `Money` |
| account (`services/account`) | customers, accounts, balance projection | OpenAccount, Freeze, Unfreeze, reads, three consumers | the ledger mirror is created first; status read then written; late and duplicate events | `Accounts`, `FraudLoop` |
| antifraud | statistics, beneficiaries, alerts | scoring of completed transfers | read-modify-write of windows, events out of order | `Antifraud`, `FraudLoop` |
| notification | feed | one message per event | the send precedes the commit | `Notification`, `FraudLoop` |
| identity | users, sessions in families, signing key | Register, Login, Refresh, Logout, RevokeSession, reads | concurrent rotation, reuse detection, snapshots of UPDATE | `Identity` |
| gateway, `pkg/grpcx` | key cache, limiter counters, breakers | route table, middleware chain, client chain | throttled key refresh, lost answers, retries, shared breaker | `Gateway` |
| `pkg/apperr` | none | codes to gRPC, back, to HTTP | a refusal and an unknown outcome must stay apart | `AppErr` |
| `pkg/outbox`, `pkg/kafka` | outbox rows, log, offsets, dedup rows | Insert, relayOnce; Run, processWithRetry, processOnce, toDLQ | order, duplicates, crashes between steps, rebalances | `EventFlow`, `Delivery` |
| `pkg/pgtx` | none | WithTx | a COMMIT with an unknown outcome | in `Ledger`, `TransferSaga` |
| `pkg/config`, `pkg/logging`, `pkg/metrics`, `pkg/otel`, `gen/`, `cmd/` | none | wiring, generated code | none that involves state | not modelled |

How they interact: the gateway calls the services; transfer calls account (to
resolve accounts) and ledger (hold, post, release, existence); account calls
ledger (mirror account, balances) and consumes `ledger`, `fraud` and identity
events; antifraud consumes transfer status events; notification consumes transfer
and fraud events.

What makes each correct: the *ledger* keeps double entry, never overdraws a
customer, ends every hold once, answers truthfully and never deadlocks; the *saga*
ends every transfer in a state that is true about the money, whatever fails in
between; *keys* give one transfer per request; *validation* accepts only what the
limits and the ledger allow; the *bus* applies a committed event once and in order or
says that it gave up; the *projection* shows balances that existed; the *scorer* counts
no money twice and its alerts freeze accounts; *sessions* have one holder; the
*gateway* serves only the entitled, once, and tells the truth about the outcome.

## 2. Modules

A property is stated in the module of the state it is about. Definitions whose
comment begins with "Variant:" are the mutated forms that `PROJECT.json` substitutes
to show that a property can fail; no specification uses them.

### Ledger (`LedgerDomain`, `LedgerAtomic`, `Ledger`, `MCLedger`)

`LedgerDomain` has the constants and the pure rules of `domain/domain.go` and of the SQL
checks; `LedgerAtomic` is the ledger as promised, every call one atomic step on the
committed tables; `Ledger` is the ledger as written, one action per SQL statement.

State and code: `accounts`, `balances`, `holds`, `entries`, `outbox`, `expired`
are the tables (a hold and an entry are named by their reference, which is unique
in the code too; `entries[r]` is the sequence of postings). `pc` is the next
statement of each goroutine, `req` its request, `locks` the balance rows it has
locked, `rows` the contents it is going to write, `sweeping` the sweeper's list.

Actions: `PlaceHoldRead/Lock/Insert/Commit`, `ReleaseHoldLock/Balance/Commit`,
`PostRead/Hold/Balance/Ref/Commit/Replay`, `SweepScan/SweepNext`,
`CreateAccount`. READ COMMITTED is modelled as it is used: a plain read sees what
is committed at that moment, `FOR UPDATE` waits (`WaitsFor`, `Runs`) and then reads
the current row, an insert into a unique index waits for an uncommitted twin. A
process's writes become visible in its commit step. `Commit` may answer INTERNAL
(the acknowledgement is lost); `Abort` rolls a transaction back at any statement.

Abstractions: integers have `2 * Half` values, so that overflow is met with small
numbers; UUID order of accounts is the order of the integers that name them;
timestamps are left out, `Expire` makes a hold's expiry pass at any time.

### Journal (`Journal`, `MCJournal`)

The journal as stored and read back. `entryParts`, `postParts`, `triggers` are the
monthly partitions and their zero-sum triggers, `todo` the statements an
EnsurePartitions has left, `ticked` and `late` the daily timer; `writing` are entries
between `time.Now()` and their commit; `walk` is a client paging through ListPostings or
ListTransfers. Time is the day, months have `DaysPerMonth` days. The instance explores the
turn of a month and the lists side by side instead of their product (`scenario` in
`MCJournal`), since pages do not depend on who made the partitions. ORDER BY is
`NewestFirst`: place i of a page has the row that i - 1 others come before.

The assumption `MaxFaults + 3 <= DaysPerMonth` is what the daily retry buys: a month in
which every run of EnsurePartitions fails ends with rows in the DEFAULT partition, after
which that month's partition can never be created and the service no longer starts. Two days
of a month do not count. An instance whose start-up straddles the turn of the month has made
only the partition of the month it finds itself in, and its timer fires a day later for the
first time; and the run of the last day may straddle the end. A start-up is taken to last less
than a day, like a run: an instance that had made its partitions and then waited a month before
it served would write into the DEFAULT partition at once.

### Transfer saga (`TransferSaga`, `MCTransferSaga`)

State and code: `transfers`, `keys`, `trail` (`transfer_events`), `status` (the
outbox) are the transfer database; `copy` is the row a process read, `reply` the
answer of its ledger call, `claimed` the rest of a recovery batch. `calls` are
ledger calls at the server: the server goes on with a call whose caller timed out
(`by = Nobody`). On the ledger's side a transfer has one hold and one entry
(`holds`, `entries`) and takes one unit of `available`; the reads that PlaceHold
and PostTransaction make before they lock are steps of their own, because two calls
of one transfer can both pass them; from the lock on a call is one step, which
`LedgerImplementsAtomic` justifies.

Actions: `Create`, `Repeat`, `ExpireKey`; `Load` (read the row, dispatch, send the
call), `Start`, `Validate`, `HoldAnswered`, `PostAnswered`, `ReleaseAnswered`,
`ReleaseNothing`; `Claim`, `Recover`, `ExistsAnswered`, `Budget`; `Serve...` at the
ledger, `Sweep`; `Retry`, `Park`, `Die` for time-outs and crashes. `Transition` is
the whole of `transition`: guarded update, audit event, outbox event.

Abstractions: validation accepts or refuses at will (`TransferRules` has its rules; a
validation that cannot reach the account service is a `Die`: the request ends and nothing
is written). All transfers draw on one account. Attempts are counted up to
`MaxAttempts + 1`, beyond which the code does not tell them apart. Staleness is untimed:
recovery may claim any stuck transfer, which includes one that a slow request is still
driving; the code only makes that rare (`staleAfter`). A retried request with another hash
changes nothing (IDEMPOTENCY_CONFLICT), so it is the guard of `Repeat`. A hold id on a row
in HELD cannot occur, so that branch of `holdAndAdvance` has no action; nor can
`ReleaseHold` be answered NOT_FOUND, since holds are never deleted.

### Transfer rules (`TransferRules`, `Money`, `MCTransferRules`)

`rows` is the table transfers, `work` what a driver has read: accounts and rate in
`LookUp`, the daily sum in `Limits`, the outcome in `Write` under the guard of the state.
Other drivers, a status change and midnight come in between. `BuildPostings` goes through the client's encoding
and the server's decoding to `LedgerDomain!ValidateEntry`, so the saga's entries are judged
by the ledger's own rules. `Money` has the conversion with half-even rounding, checked
against `Nearest`, and the mod-97 check digits: `Remainders` is the loop of `mod97` as a
recursive function, and 10 stands for any character that is no digit (`mod97` answers -1). The
scale of rates, the width of amounts and the length of numbers are parameters; numbers are
not longer than the code's.

Abstractions: CREATED and VALIDATING are one state (nothing happens in between); HELD
stands for every later state before FAILED; time is the day.

### Event bus (`EventFlow`, `Delivery`, `MCEventFlow`)

`Delivery` is the promise of ADR-0009 (an event of a committed transaction takes effect at
most once); `EventFlow` implements it with the outbox, the relay, a Kafka log, and the
consumer runtime. `created` is the order of `created_at`, which is the start of the business
transaction and not its commit; `claim` the rows a relay locked (SKIP LOCKED); `marked` and
`committed` are offsets; `work` is the fetch in hand with its attempt; `processed` the dedup
rows. Faults are crashes, failed statements, lost acknowledgements, refused produces,
rebalances and a second relay. One topic, one group; a key stands for its partition.

### Fraud loop (`Accounts`, `Antifraud`, `Notification`, `FraudLoop`, `MCFraudLoop`)

Three modules, one per service, and their composition over the transfers of one account:
Validate asks the account service, Complete is the ledger's posting, and the events reach
projection, scorer, freeze consumer and notifier in any order, each once (`EventFlow`).
Statements are operators of their own; a call or handler is cut wherever it reads
before it writes without a lock (`ReadStatus`/`WriteStatus`, `FreezeRead`/`FreezeWrite`,
`ScoreRead`/`ScoreWrite`, `Send`/`NotifyCommit`). `seenFrozen` and `skewed` are history.

### Identity (`Identity`, `MCIdentity`)

`sessions` are the rows in the order of their commits, a family is named by its first row. Refresh is
cut where its transaction takes the row lock, RevokeSessionFamily where its UPDATE takes its
snapshot, because a row that commits in between is not in it. Passwords and signatures are
ideal: a token is its claims and the id of its key.

### Gateway (`Gateway`, `AppErr`, `MCGateway`)

Extends `Identity`, whose tokens and published key it checks. `Table` is the route
table, `handlerTable` says which method a route calls. One request is followed through
authentication, limiter, idempotency key, handler and client chain; the others in flight are
what they do to shared state (`OthersFetch`, `OthersCall`). Its own refresh of the keys is cut
between the GET and the assignment, which no lock spans (`FetchKeys`, `InstallKeys`,
`RecheckKey`), so that it may install an older document over a newer one. A service may refuse a
call before it writes anything or after: `reached` counts executions, whole or partial, `reply` is
what the service said to the last attempt, and `LateErrors` are the errors a method can answer after
a write: for CreateTransfer, Freeze and most others the untyped and internal ones and the deadline, for
`WriteThenRefuse` (OpenAccount, which has written the customer, and Refresh, which has revoked the
family) the typed ones too. The breaker is gobreaker as
`pkg/grpcx` configures it: `Trip` consecutive failures open it, after a time-out one probe
passes, and outcomes of calls admitted in an earlier state are not counted (`counted`).

## 3. What the runs check

| Run | Instance | Checks |
|---|---|---|
| `ledger_saga` | 2 workers, sweeper, 7 requests about one account, 1 rollback | `NothingStale`, `EventsFollowVersions`, `CaptureWithinHold`, `AnswersAreTrue`, refinement of `ASpec` |
| `ledger_books` | 1 worker, sweeper, 3-bit integers, two currencies, entries to refuse, 1 rollback | `TypeOK`, `MoneyConserved`, `BalanceIsPostings`, `NoOverdraft`, `HeldIsActiveHolds` |
| `ledger_live` | 2 workers, every call possibly twice in flight, fairness, 1 rollback | `LockOrder`, `Answered`, `ExpiredHoldsEnd` |
| `saga_funds` | 2 transfers for 1 unit, 2 keys, 2 payloads, 1 fault, 1 expiry | `OutcomeIsTrue`, `OneTransferPerKey`, `RightTransfer` |
| `saga_live` | 2 requests with one key, 1 recovery worker, 1 fault, fairness | `HoldIdIsKept`, `HistoryIsLegal`, `IntentIsResolved`, `CompensationEnds` |
| `events` | 2 events (the second poison or undecodable), 2 relays, 2 members, 2 attempts, 2 faults, fairness | `NothingSkipped`, `NoOvertaking`, `LogFollowsCommits`, refinement of `Delivery` (`ExactlyOnceEffect`), `EverySettled` |
| `fraud` | a top-up and 3 transfers over 2 days, 2 scorings at once, 1 staff call, failing sends, 1 rollback after a delivery, fairness | `RowIsMirrored`, `ProjectionIsTrue`, `SumsAreSound`, `FeedIsTrue`, `LoopCloses` |
| `identity` | 1 user, 2 concurrent calls, 4 sessions | `SingleHolder`, `NoRevival` |
| `gateway` | a read, a money and a staff route, 2 keys, forged and expired tokens, a typed, a deadline and an untyped error of the service, 2 faults, fairness | `ServedIsEntitled`, `AnswerIsHonest`, `CallersComeThrough` |
| `transfers` | 3 transfers of 5 kinds, 2 drivers, 2 days, 2 rates, 1 status change | `DailyLimitHolds`, `EntryIsSound`, `MistypesAreCaught` |
| `journal` | 2 instances over two turns of a month of 4 days, 1 fault; 3 entries and all page sizes | `PostingsAreFiled`, `WalkIsComplete` |
| `saga_stranded` | 2 requests, 1 recovery worker, no fault | expected violation of `NotStranded` |

What they show beyond their names: `LogFollowsCommits` holds only for transactions that did
not run concurrently and only while a single relay works, which is all `created_at` and SKIP
LOCKED can give; the projection does not need more, because versions order the balances
(`ProjectionIsTrue`). `DailyLimitHolds` needs no lock because a transfer's own row is
committed before it adds up the others. `SumsAreSound` is exact only while events come in
order and one at a time; else sums are too low, never too high.

The violation. In `saga_stranded`, without any fault, two drivers of one transfer leave it in
RELEASING with the money moved: the second post is refused because the first captured the
hold, and if its refusal is written first, the release of a captured hold is refused for ever.
`OutcomeIsTrue` shows that such a transfer never becomes FAILED.

Bounds. Two workers, relays, members or drivers are the fewest that interleave; each
reference has at most two competing payloads. `MaxAborts`, `MaxFaults`, `MaxExpiries`,
`MaxStaffOps`, `MaxFreezes`, `MaxUndone`, `MaxSessions`, `MaxDay` bound what comes from
outside. Two faults on the bus and in the gateway are enough to exhaust the attempts and to
open a breaker (`MaxAttempts = 2`, `Trip = 2`). One recovery attempt (`MaxAttempts = 1`)
reaches both sides of the budget. Four sessions hold a family with two rotations and another
one. Two turns of a month are needed for an instance that started over the first to meet the
second. Symmetry is used only over interchangeable values and never in a liveness run. Deadlock
is checked where the system has no end; the other runs end when their bounded inputs are used
up, and say CHECK_DEADLOCK FALSE.

Fairness. Ledger: strong fairness of each process's next statement (goroutines are
scheduled; Postgres queues the waiters of a row) and weak fairness of the sweeper's
ticker. Saga: weak fairness of each process and of the ledger serving a call
somebody waits for; strong fairness of claiming, because a transfer that sits still
grows stale and the ticker fires. Bus: weak fairness of each relay's ticker and each member's
poll loop; offsets need not be committed. Fraud loop: weak fairness of the scorer's and the freeze
consumer's poll loops only. Gateway: a request goes on, clocks advance, other calls end, and
callers with a good token do not stop asking (strong, since tokens come and go). No fault has
to happen, and clients of the ledger and the saga need not come back.

## 4. What is proved

Every theorem holds for all values of the constants that satisfy the named ASSUMEs
of the modules; TLC evaluates the same assumptions on its instances. Except where a
hypothesis is named, nothing else is assumed. Of the 40 properties that the passing runs
check, 33 are theorems; the others, all liveness, are listed under "Only model-checked".

### The ledger (`LedgerProofs`, `SumTheorems`)

For every finite set of accounts and references, every set of requests, every integer
width and any number of workers, from the named assumptions of `LedgerDomain` and
`Ledger` (customers and internal accounts are disjoint sets of naturals, each account
has a currency, requests are well-formed, the sweeper is not a worker):

- `AddCheckedExact`: the overflow test of `addChecked` is exact.
- `AtomicTypeCorrect`, `AtomicNoOverdraft`, `AtomicHistoryIsFinal`: the atomic
  ledger keeps its types, overdraws no customer and rewrites no history.
- `LockingDiscipline`: `Spec => [](TypeOK /\ NothingStale)`; `LedgerTypes` is its
  first half.
- `LedgerImplementsAtomic`: `Spec => ASpec`.
- `LedgerNoOverdraft`, `LedgerHistoryIsFinal`: the two before, for all interleavings.
- `LedgerBalanceIsPostings`, `LedgerMoneyConserved`, `LedgerEventsFollowVersions`:
  a balance is the sum of its postings, the postings of a currency cancel out, and the
  outbox has one event per version of a balance, in order.
- `LedgerHeldCovers`: what is held is never less than the active holds, whatever is
  requested. `LedgerHeldIsActiveHolds`: it is exactly that, if every capture posts to the
  account of its hold (`CapturesTouchTheirHold`). PostTransaction does not ask for it;
  the saga sends no other captures, which is part of `EntriesAreSound` below.
- `LedgerCustomerCapture`: no capture debits a customer by more than the hold, whatever is
  requested. `LedgerCaptureWithinHold`: the same of every account, if no request captures a
  hold with a debit of the least integer from an internal account (`MinimalDebit`). The
  hypothesis is needed: the negation in `CaptureHold` overflows there (section 5).
- `AnswersHold`: a call is answered OK only when the tables contain what it asked for,
  whether the fast path, the commit, the retry or the replay gives the answer.
- `DeadlockFreedom`: `Spec => []LockOrder`.

The argument. That the statement-level ledger implements the atomic one needs to
know at each commit step that the rows read under locks are still the committed
ones. That is `NothingStale`: for each process and each statement, which locks it
holds, that the checks it made are still satisfied, and that the row it is going to
write is the domain rule applied to the committed row (`PlaceInv`, `ReleaseInv`,
`PostInv`); and that no two processes hold one row or key (`Exclusive`). It is
inductive together with `TypeOK`. The proof has one lemma per action (`...Keeps`) that
yields both the invariant after the step and the step or stutter of `ASpec`
(`LedgerStep`); `OthersKeep` says once that a process that writes only rows it has
locked cannot disturb another. The theorems about `ASpec` then carry over. Lock order
follows from the ascending order in `PostInv`.

The sums. The prover cannot use an induction theorem that has an operator as a
parameter. `SumTheorems` goes round that: the set of subsets for which a law of sums fails
is a set like any other, and if it has a member it has one of least cardinality
(`WFMin`, `LeastNatural`, `SmallestCounterexample`), from which one element can be taken
away. This gives the laws used everywhere: a sum is a number, it does not depend on the
order, it changes by the difference when one summand changes, it is monotone, it adds up over
disjoint sets and over classes.

### The journal (`JournalProofs`)

- `PostingsAreFiledHolds`: `PostingsAreFiled` for any number of instances, crashes, days and
  entries, from `MaxFaults + 3 <= DaysPerMonth`.

`JournalInv` says what the statements that a run has left will make: a month of the run is
ready or its probe is still to come, after its table (`Will`, `Backed`). A serving instance has
its month ready, and the next one too unless every run that is over this month has met a fault
of its own (`Over(i) <= faults`); on the last day more runs are over than there can be
faults. A run that loses the race for a trigger ends early without a fault, but it
is the trigger of the next month, which then exists: that of this month was there when the
instance began to serve. An entry's month was ready when it took its time, and partitions are
never dropped.

- `WalkIsCompleteHolds`: `WalkIsComplete` for both lists, every page size and range, whatever
  commits between two pages.

`NewestFirstSorts` says that the sorted list exists and what it is: a finite set of rows under a
total order has one row of every rank (`EveryPlaceIsTaken`, by counting: no two rows have the same
rank, and there are as many rows as ranks). `WalkInv` says that the pages so far descend, and that
a row that was there at the first page is on one of them or is still in the list and below the
cursor. A page takes the greatest rows below the cursor, so what it leaves out is below its
last row (`TakeWalks`, `NextPageKeeps`); a page that is not full leaves out nothing. Rows
that commit meanwhile may appear above the cursor, where they are not shown and not due, or below
it, where they only take places of a page (`TablesKeep`).

### The saga (`TransferSagaProofs`)

For every set of transfers, keys, payloads, requests and recovery workers, every
amount of money, recovery budget and number of faults, from the assumptions of
`TransferSaga` (drivers, recovery workers and `Nobody` are told apart, the bounds are
naturals):

- `SagaFitsTogether`: `Spec => []SagaInv`.
- `SagaOutcome`, `SagaHoldId`, `SagaHistory`: `OutcomeIsTrue`, `HoldIdIsKept` and
  `HistoryIsLegal` always hold.
- `SagaTypes`: `Spec => []TypeOK`, which needs that every unit of money is available
  or under a hold (`FundsInv`, by cardinality).
- `SagaOneTransferPerKey`, `SagaRightTransfer`: one key leads to one transfer, and to one
  more each time the clean-up deletes it, and a request is answered with a transfer of its
  own payload. The invariant is `KeysFit`: a key in the table names a transfer of its
  payload, and a key that is not in the table has used up one expiry for each transfer it made.

The argument. `OutcomeIsTrue` is not inductive: whether FAILED is true depends on what
processes and calls under way may still do. `SagaInv` says that for each of them. A row
only moves forward (`Rank`) and has its hold id from POSTING on, never before
(`HoldFits`). Every copy is `Behind` the row it was read from, so that a copy in the
row's state agrees with it on the hold id: this is what makes the guard on the state
alone enough. A post or release call has its hold id on the row (`CallInv`); the ledger
commits an entry only by capturing an active hold, and FAILED with a hold id comes only
after the hold was released, so a late post finds nothing to capture. Answers that a
process has not used yet are still true (`ReplyInv`), because the ledger forgets nothing
(`LedgerGrows`). The proof shows once that a process that does not move keeps its
invariant while rows and ledger grow (`ProcStays`, `Keeps`), once what the guarded update
does (`TransitionKeeps`), once that a true answer is harmless (`AnswerKeeps`), and has one
lemma per action on top.

### The rules (`TransferRulesProofs`)

For any transfers, drivers, rates, freezes and days. The assumptions are what the
migrations and types give: amounts fit their integer type, seeded limits are naturals,
rates are positive, the accounts of the chart exist, are distinct and have their currency, and
every account was opened with a bank code and random part of `BBANLength` digits, at most 16.

- `DailyLimitIsKept`: `DailyLimitHolds`. The invariant counts a transfer from the moment its
  driver has added up the day and found room, not from the moment the row says so
  (`Cleared`). Two drivers that both found room have both seen the other's row, because
  rows are committed before anybody adds up; so the sum of all cleared amounts is bounded
  by the one that was added up last.
- `EntriesAreSound`: `EntryIsSound`. `EntryInv` says of every decision under way and of every
  accepted row that it rests on existing, different accounts, the currency of the source
  and a conversion at a rate that was in force (`Settled`); then `BuildPostings`, encoded and
  decoded, passes `ValidateEntry` and debits exactly the held amount.
- `NoSlipPaysAnother`: `MistypesAreCaught`. `Settled` says as well that a transfer by number
  pays the account that has this number, so the number comes from `GenerateNumber`. The rest is
  about mod 97, for digits of any values: a turn of the loop is injective in the remainder and in
  the digit, so a difference made at one place is not lost at the next (`DifferenceStays`, by the
  least place where it would be). A wrong digit makes one (`OneDigitTells`), and so do two
  neighbours in the wrong order (`NeighboursTell`: 9 times the difference of two digits is no
  multiple of 97). Second check digit and first digit of the bank code are neighbours in the
  number, but the first and last place of what ValidNumber adds up; there the powers of ten count
  (`EndsTell`), and the slip is caught because none of 10, ..., 10^21 leaves 1 modulo 97. That
  is why the length is bounded: the period of 10 is 96, so with 91 digits it would go unnoticed.
- `GeneratedNumbersAreValid`: what `GenerateNumber` makes, `ValidNumber` takes, whatever the
  random part.
- `ConversionIsNearest`: `Convert` and `ConvertInverse` return the nearest integer, ties to even, for
  every amount of either sign, every rate and every scale.

### The bus (`EventFlowProofs`)

For any events, keys, relays, members, batch size, attempts and faults:

- `NothingSkippedHolds`, `NoOvertakingHolds`, `LogFollowsCommitsHolds`;
- `EffectOnceHolds`: the refinement of `Delivery`.

`FlowInv` is inductive. Its sender half says that a row that is sent, or in a batch that was
produced, has its record in the log, that only committed rows are claimed or logged, and that
while relays take turns a batch brings earlier rows first. Its receiver half says that every offset,
marked or committed, and every fetch in hand has only settled records below it, that an open
dedup row is nobody else's and of an event without a committed one, and that only faults use up
the attempts on an event the handler can process. Only the log's growth connects the halves (`MoreDone`), so
each is proved without the other's actions.

### The fraud loop (`FraudLoopProofs`)

For any accounts, transfers, rules, staff calls, scorers and faults:

- `RowIsMirroredHolds` from `RegistryInv`: the steps of an OpenAccount under way are done in
  their order, and who writes a status has seen the row.
- `FeedIsTrueHolds` from `FeedInv`: a notice in hand has no row yet, and deliveries are conserved:
  there are as many as attempts that were rolled back after one, plus one if the row says "sent" or
  the attempt in hand has delivered. A row that says "failed" is thus about attempts that delivered
  nothing, apart from those rolled back. The sender's contract is that Send returns nil if and only
  if it delivered; the only sender there is, LogSender, never fails.
- `ProjectionIsTrueHolds` from `ProjectionInv`: versions number the postings, and the row shown is
  the newest one delivered.
- `SumsAreSoundHolds` from `ScoringInv`: a stored window, and a window that a scorer has read and
  not yet written, is at most the sum of what was scored in it; while nothing was skewed it is
  equal and no alert is missing.

### Identity and gateway (`GatewayProofs`)

For any users, callers, sessions, keys, routes, tokens, limits and faults:

- `SingleHolderHolds`, `NoRevivalHolds` from `IdentityInv`: a family has at most one live row, a
  rotated row points to a younger one of its family that no other row points to, and a row that an
  open refresh has marked is live and marked by that refresh alone, because a revocation waits
  for the row lock.
- `ServedIsEntitledHolds`, `AnswerIsHonestHolds` from `GatewayInv`: signed
  tokens carry the roles of users that exist (`TokensAreTrue`); past the role check the claims are
  those of a signed token that the route allows (`Staged`); nothing is executed before an attempt,
  and a write that was executed is never sent again (`Tried`); and the answer is a function of the
  service's last reply, which for a write is the reply of the attempt that executed it: none, OK, or
  an error the method can answer late (`Told`).

### Only model-checked

- Liveness, since the prover has no fairness: `Answered`, `ExpiredHoldsEnd`,
  `IntentIsResolved`, `CompensationEnds`, `EverySettled`, `LoopCloses`, `CallersComeThrough`.

## 5. Divergences without a run of their own

Where a document or comment says more than the code does, besides `saga_stranded`:

- A retry of a capturing PostTransaction that meets its twin in flight is refused
  INVALID_ARGUMENT although the entry is committed (`ledger/internal/app/service.go:210`;
  `docs/services/ledger-service.md:46` calls it idempotent). `saga_stranded` is its effect.
- A retry of PlaceHold that meets its twin may be refused INSUFFICIENT_FUNDS for its own
  reservation (`service.go:109`; the same document, line 44).
- CaptureHold's negation of the least int64 passes the comparison with the held amount
  (`domain/domain.go:166`; the document, line 37). Only an internal account can get there.
- A COMMIT whose acknowledgement is lost reaches the saga as INTERNAL, which it takes for a
  definitive refusal (`transfer/internal/app/service.go:358`, `domain/state.go:50`).
- A capture whose entry does not touch the hold's account leaves `held` raised
  (`ledger/internal/app/service.go:263`); no client sends one (`EntryIsSound`).
- The loser of a concurrent refresh revokes the family and returns an error from the same
  transaction, which rolls the revocation back (`identity/internal/app/service.go:194-205`).
  A refresh that is open while Logout runs leaves a live session behind.
- AdvanceWindow restarts a fixed window; the comments and
  `docs/services/anti-fraud-service.md:13-14` speak of a sliding one. A late event of the day
  before resets the daily sum; two members that score one customer at once lose an update.
- A staff Freeze or Unfreeze writes without a guard and may cancel a fraud freeze; it emits no
  AccountFrozen. The notice of a HIGH alert says "has been frozen" before the freeze consumer
  has run. A failed OpenAccount leaves a ledger account without an owner. No call leads to CLOSED.
- A write that was executed may be answered 500, not only 503: CreateTransfer commits its row, and
  may have moved the money, before Drive returns an untyped error
  (`transfer/internal/app/service.go:88-132`, `369-372`, `384-385`), and so does a COMMIT whose
  acknowledgement is lost (`pkg/pgtx/pgtx.go:78`). ADR-0018 (lines 10-11) calls only UNAVAILABLE and
  DEADLINE_EXCEEDED retryable for clients, so one that takes a 500 as final has to ask for its
  transfer. OpenAccount and Refresh may even have written before a typed refusal. This is why
  `AnswerIsHonest` allows 500.
- A P2P transfer to a malformed number stays in VALIDATING and counts against the daily sum; a
  transfer created before midnight and validated after it is in no day's sum; an account frozen after validation is still debited.

## 6. Not modelled

Generated code, configuration, logging, metrics, tracing, start-up wiring, JSON and HTTP
formatting, message templates, password hashing and token signatures: they keep no protocol
state or are text and cryptography. Recovery from panics in the gRPC server and the gateway.
The gateway's public routes are in the table and in the model, but not in the checked instance,
to keep it small; they differ only in skipping authentication. `openAccount` and `refresh`, the
routes that refuse after a write, are covered by the proof and not by that instance. GetTransfer and GetRates are
single reads.

Small things left out of modelled operations, on which no property depends: the refusals of the
ledger's CreateAccount, which change nothing; PlaceHold's check for a frozen ledger account, since no
query changes that status; the order and the limit of 100 of the sweeper's list; that Postgres may
refuse one of two concurrent CREATE TABLE IF NOT EXISTS of a partition, which counts as one of
`Journal`'s faults; a freeze between the two account reads of `validate`, which are one step; and the
gateway's default range of ListTransactions, which it computes anew for each page
(`gateway/internal/adapters/http/handlers.go:142-143`), while `Journal` follows a client that
repeats its range.

## 7. Plan

1. Ledger, saga, and their proofs (done).
2. Bus, fraud loop, identity, gateway, transfer rules, journal (done).
3. Their safety properties proved, the refinement of `Delivery`, the ledger's sums, the pages
   of the lists and the check digits included (done).

What is left is liveness, which stays with TLC.
