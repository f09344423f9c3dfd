---------------------------- MODULE TransferSaga ----------------------------
(***************************************************************************)
(* The transfer saga (services/transfer/internal/app/service.go), its      *)
(* recovery worker (recovery.go) and the ledger calls it makes.            *)
(*                                                                         *)
(* Request goroutines and recovery workers all run Drive: they read the    *)
(* transfer's row, call the ledger on the strength of that copy, and write *)
(* the next state with an UPDATE guarded by the state they read.  A ledger *)
(* call takes two steps at the server (the idempotency read, then the      *)
(* locked part), and goes on at the server when its caller has given up.   *)
(*                                                                         *)
(* Every transfer moves one unit from the same account, on which Funds     *)
(* units are available at first, so that transfers compete for it.         *)
(***************************************************************************)
EXTENDS Integers, Sequences, FiniteSets

CONSTANTS
  Xfers,        \* transfer ids
  NoXfer,
  Keys,         \* (customer, idempotency key) pairs
  Specs,        \* request payloads, as far as their hash tells them apart
  Drivers,      \* goroutines serving CreateTransfer
  Recoverers,   \* recovery workers, one per instance of the service
  Nobody,       \* the caller of a call nobody waits for any more
  Funds,        \* units available on the source account
  MaxAttempts,  \* the recovery budget (5 in the code)
  MaxFaults,    \* bound on time-outs, crashes and INTERNAL answers
  MaxExpiries   \* bound on idempotency keys the clean-up job deletes

Procs == Drivers \cup Recoverers

ASSUME SagaProcsAssumption == Drivers \cap Recoverers = {} /\ Nobody \notin Procs
ASSUME SagaXfersAssumption == NoXfer \notin Xfers
ASSUME SagaBoundsAssumption ==
  /\ Funds \in Nat /\ MaxAttempts \in Nat
  /\ MaxFaults \in Nat /\ MaxExpiries \in Nat

VARIABLES
  transfers,   \* table transfers
  keys,        \* table idempotency_keys
  trail,       \* table transfer_events: the states each transfer entered
  status,      \* the transfers.status events in the outbox
  holds,       \* the ledger: status of the hold placed for each transfer
  entries,     \* the ledger: the transfers whose journal entry is committed
  available,   \* the ledger: what is left on the source account
  calls,       \* ledger calls being served
  pc,          \* where each process is
  cur,         \* the transfer it works at
  spec,        \* the payload of the request it serves
  copy,        \* the row it read
  reply,       \* the answer to its ledger call
  claimed,     \* the transfers of a recovery worker's batch still to be done
  faults, expiries

db == <<transfers, keys, trail, status>>
ledger == <<holds, entries, available>>
local == <<pc, cur, spec, copy, reply, claimed>>
vars == <<db, ledger, calls, local, faults, expiries>>

-----------------------------------------------------------------------------
(* The state machine of domain/state.go *)

State == {"CREATED", "VALIDATING", "HELD", "POSTING", "COMPLETED", "RELEASING",
          "FAILED"}
IsTerminal(s) == s \in {"COMPLETED", "FAILED"}

DomainNext(s, e) ==
  CASE s = "CREATED" /\ e = "START" -> "VALIDATING"
    [] s = "VALIDATING" /\ e = "VALIDATED" -> "HELD"
    [] s = "VALIDATING" /\ e = "VALIDATION_FAILED" -> "FAILED"
    [] s = "HELD" /\ e = "POSTING_STARTED" -> "POSTING"
    [] s \in {"HELD", "POSTING"} /\ e = "RECOVERY_EXHAUSTED" -> "RELEASING"
    [] s = "HELD" /\ e = "HOLD_FAILED" -> "RELEASING"
    [] s = "POSTING" /\ e = "POSTED" -> "COMPLETED"
    [] s = "POSTING" /\ e = "POST_FAILED" -> "RELEASING"
    [] s = "RELEASING" /\ e = "RELEASED" -> "FAILED"
    [] OTHER -> "illegal"

-----------------------------------------------------------------------------
(* Rows, calls and processes *)

\* hold: hold_id is set; key and spec: what CreateTransfer was asked.
Absent == [state |-> "none", hold |-> FALSE, attempts |-> 0]
Row == [state : State, hold : BOOLEAN, attempts : 0..(MaxAttempts + 1),
        key : Keys, spec : Specs]
NoKey == [xfer |-> NoXfer]

Ops == {"hold", "post", "release", "exists"}
Call(p, op, x) == [op |-> op, xfer |-> x, at |-> "read", by |-> p]
Codes == {"OK", "NOT_FOUND", "INSUFFICIENT_FUNDS", "INVALID_ARGUMENT", "INTERNAL"}

TypeOK ==
  /\ transfers \in [Xfers -> Row \cup {Absent}]
  /\ keys \in [Keys -> [xfer : Xfers, hash : Specs] \cup {NoKey}]
  /\ trail \in [Xfers -> Seq(State)]
  /\ status \in [Xfers -> Seq(State)]
  /\ holds \in [Xfers -> {"none", "active", "captured", "released"}]
  /\ entries \subseteq Xfers
  /\ available \in 0..Funds
  /\ calls \subseteq [op : Ops, xfer : Xfers, at : {"read", "apply"},
                      by : Procs \cup {Nobody}]
  /\ pc \in [Procs -> {"idle", "load", "start", "validate", "released", "budget"}
                        \cup Ops]
  /\ cur \in [Procs -> Xfers \cup {NoXfer}]
  /\ spec \in [Procs -> Specs \cup {NoXfer}]
  /\ copy \in [Procs -> Row \cup {Absent}]
  /\ reply \in [Procs -> Codes \cup {"none"}]
  /\ claimed \in [Procs -> SUBSET Xfers]
  /\ faults \in 0..MaxFaults
  /\ expiries \in 0..MaxExpiries

Init ==
  /\ transfers = [x \in Xfers |-> Absent]
  /\ keys = [k \in Keys |-> NoKey]
  /\ trail = [x \in Xfers |-> <<>>]
  /\ status = [x \in Xfers |-> <<>>]
  /\ holds = [x \in Xfers |-> "none"]
  /\ entries = {}
  /\ available = Funds
  /\ calls = {}
  /\ pc = [p \in Procs |-> "idle"]
  /\ cur = [p \in Procs |-> NoXfer]
  /\ spec = [p \in Procs |-> NoXfer]
  /\ copy = [p \in Procs |-> Absent]
  /\ reply = [p \in Procs |-> "none"]
  /\ claimed = [p \in Procs |-> {}]
  /\ faults = 0
  /\ expiries = 0

\* Something from outside goes wrong.
Fault == faults < MaxFaults /\ faults' = faults + 1

\* Calls of process p that nobody waits for any more.
Orphaned(p) == {IF c.by = p THEN [c EXCEPT !.by = Nobody] ELSE c : c \in calls}

\* Process p goes on at "at".
Goto(p, at) ==
  /\ pc' = [pc EXCEPT ![p] = at]
  /\ reply' = [reply EXCEPT ![p] = "none"]
  /\ UNCHANGED <<cur, spec, copy, claimed>>

\* Drive or recoverOne returns.
Return(p) ==
  /\ pc' = [pc EXCEPT ![p] = "idle"]
  /\ cur' = [cur EXCEPT ![p] = NoXfer]
  /\ spec' = [spec EXCEPT ![p] = NoXfer]
  /\ copy' = [copy EXCEPT ![p] = Absent]
  /\ reply' = [reply EXCEPT ![p] = "none"]
  /\ UNCHANGED claimed

-----------------------------------------------------------------------------
(* transition: guarded update, audit event and terminal outbox event at once *)

Raced(p) == transfers[cur[p]].state # copy[p].state

\* Variant: the update is not guarded by the state that was read.
TransitionUnguarded(p, event, hold) ==
  LET x == cur[p]
      next == DomainNext(copy[p].state, event)
  IN  /\ transfers' = [transfers EXCEPT ![x].state = next, ![x].hold = hold]
      /\ trail' = [trail EXCEPT ![x] = Append(@, next)]
      /\ status' = [status EXCEPT ![x] =
                      IF IsTerminal(next) THEN Append(@, next) ELSE @]
      /\ UNCHANGED keys

Transition(p, event, hold) ==
  LET x == cur[p]
      next == DomainNext(copy[p].state, event)
  IN  IF Raced(p) THEN UNCHANGED db
      ELSE /\ transfers' = [transfers EXCEPT ![x].state = next, ![x].hold = hold]
           /\ trail' = [trail EXCEPT ![x] = Append(@, next)]
           /\ status' = [status EXCEPT ![x] =
                           IF IsTerminal(next) THEN Append(@, next) ELSE @]
           /\ UNCHANGED keys

\* ... by Drive, which reads the row again whether or not it lost the race.
Advance(p, event, hold) ==
  /\ Transition(p, event, hold)
  /\ Goto(p, "load")
  /\ UNCHANGED <<ledger, calls, faults, expiries>>

-----------------------------------------------------------------------------
(* CreateTransfer *)

\* Variants: the conflict on the key, or the hash, is not looked at.
CreateAnyKey(d, k, s, x) ==
  /\ pc[d] = "idle"
  /\ transfers[x] = Absent
  /\ keys' = [keys EXCEPT ![k] = [xfer |-> x, hash |-> s]]
  /\ transfers' = [transfers EXCEPT ![x] =
       [state |-> "CREATED", hold |-> FALSE, attempts |-> 0, key |-> k, spec |-> s]]
  /\ trail' = [trail EXCEPT ![x] = Append(@, "CREATED")]
  /\ pc' = [pc EXCEPT ![d] = "load"]
  /\ cur' = [cur EXCEPT ![d] = x]
  /\ spec' = [spec EXCEPT ![d] = s]
  /\ UNCHANGED <<status, ledger, calls, copy, reply, claimed, faults, expiries>>
RepeatAnyHash(d, k, s) ==
  /\ pc[d] = "idle"
  /\ keys[k] # NoKey
  /\ pc' = [pc EXCEPT ![d] = "load"]
  /\ cur' = [cur EXCEPT ![d] = keys[k].xfer]
  /\ spec' = [spec EXCEPT ![d] = s]
  /\ UNCHANGED <<db, ledger, calls, copy, reply, claimed, faults, expiries>>

\* A new key: key, transfer and first audit event in one transaction.
Create(d, k, s, x) ==
  /\ pc[d] = "idle"
  /\ keys[k] = NoKey
  /\ transfers[x] = Absent
  /\ keys' = [keys EXCEPT ![k] = [xfer |-> x, hash |-> s]]
  /\ transfers' = [transfers EXCEPT ![x] =
       [state |-> "CREATED", hold |-> FALSE, attempts |-> 0, key |-> k, spec |-> s]]
  /\ trail' = [trail EXCEPT ![x] = Append(@, "CREATED")]
  /\ pc' = [pc EXCEPT ![d] = "load"]
  /\ cur' = [cur EXCEPT ![d] = x]
  /\ spec' = [spec EXCEPT ![d] = s]
  /\ UNCHANGED <<status, ledger, calls, copy, reply, claimed, faults, expiries>>

\* A known key: another hash is IDEMPOTENCY_CONFLICT and changes nothing; the
\* same hash drives the transfer on.
Repeat(d, k, s) ==
  /\ pc[d] = "idle"
  /\ keys[k] # NoKey
  /\ keys[k].hash = s
  /\ pc' = [pc EXCEPT ![d] = "load"]
  /\ cur' = [cur EXCEPT ![d] = keys[k].xfer]
  /\ spec' = [spec EXCEPT ![d] = s]
  /\ UNCHANGED <<db, ledger, calls, copy, reply, claimed, faults, expiries>>

\* CleanupIdempotencyKeys, 24 hours later.
ExpireKey(k) ==
  /\ keys[k] # NoKey
  /\ expiries < MaxExpiries
  /\ expiries' = expiries + 1
  /\ keys' = [keys EXCEPT ![k] = NoKey]
  /\ UNCHANGED <<transfers, trail, status, ledger, calls, local, faults>>

-----------------------------------------------------------------------------
(* Drive *)

\* What Drive does about a row in this state.
Dispatch(t) ==
  CASE t.state = "CREATED" -> "start"
    [] t.state = "VALIDATING" -> "validate"
    [] t.state = "HELD" -> "hold"
    [] t.state = "POSTING" -> "post"
    [] t.state = "RELEASING" -> IF t.hold THEN "release" ELSE "released"
    [] OTHER -> "idle"

\* GetTransfer, and the ledger call that follows it.
Load(p) ==
  LET x == cur[p]
      at == Dispatch(transfers[x])
  IN  /\ pc[p] = "load"
      /\ \/ at = "idle" /\ Return(p) /\ UNCHANGED calls
         \/ /\ at # "idle"
            /\ pc' = [pc EXCEPT ![p] = at]
            /\ copy' = [copy EXCEPT ![p] = transfers[x]]
            /\ calls' = IF at \in Ops THEN calls \cup {Call(p, at, x)} ELSE calls
            /\ UNCHANGED <<cur, spec, reply, claimed>>
      /\ UNCHANGED <<db, ledger, faults, expiries>>

Start(p) == pc[p] = "start" /\ Advance(p, "START", copy[p].hold)

\* The account service, the rates and the limits accept the transfer, or not; a
\* refusal that lost the race is an error.
Validate(p) ==
  /\ pc[p] = "validate"
  /\ \/ Advance(p, "VALIDATED", copy[p].hold)
     \/ /\ Transition(p, "VALIDATION_FAILED", copy[p].hold)
        /\ IF Raced(p) THEN Return(p) ELSE Goto(p, "load")
        /\ UNCHANGED <<ledger, calls, faults, expiries>>

\* holdAndAdvance, post and release, once the ledger has answered.
HoldAnswered(p) ==
  /\ pc[p] = "hold" /\ reply[p] # "none"
  /\ IF reply[p] = "OK" THEN Advance(p, "POSTING_STARTED", TRUE)
     ELSE Advance(p, "HOLD_FAILED", copy[p].hold)

PostAnswered(p) ==
  /\ pc[p] = "post" /\ reply[p] # "none"
  /\ Advance(p, IF reply[p] = "OK" THEN "POSTED" ELSE "POST_FAILED", copy[p].hold)

\* Variant: every refusal of the release counts as "nothing to release".
ReleaseAnsweredAny(p) ==
  /\ pc[p] = "release" /\ reply[p] # "none"
  /\ Advance(p, "RELEASED", copy[p].hold)

ReleaseAnswered(p) ==
  /\ pc[p] = "release" /\ reply[p] # "none"
  /\ \/ reply[p] \in {"OK", "NOT_FOUND"} /\ Advance(p, "RELEASED", copy[p].hold)
     \/ /\ reply[p] \notin {"OK", "NOT_FOUND"}
        /\ Return(p)
        /\ UNCHANGED <<db, ledger, calls, faults, expiries>>

ReleaseNothing(p) == pc[p] = "released" /\ Advance(p, "RELEASED", copy[p].hold)

-----------------------------------------------------------------------------
(* The recovery worker *)

\* Variants: the scan leaves out POSTING, or RELEASING.
StuckNotPosting == {x \in Xfers : transfers[x].state \in {"HELD", "RELEASING"}}
StuckTwoStates == {x \in Xfers : transfers[x].state \in {"HELD", "POSTING"}}

\* ClaimStuck: a batch of transfers that have not moved for a while.
Stuck == {x \in Xfers : transfers[x].state \in {"HELD", "POSTING", "RELEASING"}}
Bump(n) == IF n > MaxAttempts THEN n ELSE n + 1

Claim(r, batch) ==
  /\ pc[r] = "idle" /\ claimed[r] = {}
  /\ batch # {} /\ batch \subseteq Stuck
  /\ claimed' = [claimed EXCEPT ![r] = batch]
  /\ transfers' = [x \in Xfers |->
                     IF x \in batch THEN [transfers[x] EXCEPT !.attempts = Bump(@)]
                     ELSE transfers[x]]
  /\ UNCHANGED <<keys, trail, status, ledger, calls, pc, cur, spec, copy, reply,
                 faults, expiries>>

\* recoverOne reads the row and, in POSTING, asks for the entry.
Recover(r, x) ==
  LET at == IF transfers[x].state = "POSTING" THEN "exists" ELSE "budget"
  IN  /\ pc[r] = "idle"
      /\ x \in claimed[r]
      /\ claimed' = [claimed EXCEPT ![r] = @ \ {x}]
      /\ cur' = [cur EXCEPT ![r] = x]
      /\ copy' = [copy EXCEPT ![r] = transfers[x]]
      /\ pc' = [pc EXCEPT ![r] = at]
      /\ calls' = IF at = "exists" THEN calls \cup {Call(r, at, x)} ELSE calls
      /\ UNCHANGED <<db, ledger, spec, reply, faults, expiries>>

ExistsAnswered(r) ==
  /\ pc[r] = "exists" /\ reply[r] # "none"
  /\ \/ /\ reply[r] = "OK"
        /\ Transition(r, "POSTED", copy[r].hold)
        /\ Return(r)
     \/ reply[r] # "OK" /\ Goto(r, "budget") /\ UNCHANGED db
  /\ UNCHANGED <<ledger, calls, faults, expiries>>

\* The budget check: give up, or drive on.  On a terminal row, giving up is an
\* illegal transition and recoverOne returns.
Budget(r) ==
  LET exhausted == copy[r].attempts > MaxAttempts /\ copy[r].state # "RELEASING"
  IN  /\ pc[r] = "budget"
      /\ \/ exhausted /\ ~IsTerminal(copy[r].state)
            /\ Advance(r, "RECOVERY_EXHAUSTED", copy[r].hold)
         \/ /\ exhausted /\ IsTerminal(copy[r].state)
            /\ Return(r)
            /\ UNCHANGED <<db, ledger, calls, faults, expiries>>
         \/ /\ ~exhausted
            /\ Goto(r, "load")
            /\ UNCHANGED <<db, ledger, calls, faults, expiries>>

-----------------------------------------------------------------------------
(* The ledger's side of a call; see module Ledger for the statements *)

Answer(c, code) ==
  /\ calls' = calls \ {c}
  /\ reply' = IF c.by = Nobody THEN reply ELSE [reply EXCEPT ![c.by] = code]

\* The call goes on at the server, or back to its start.
Proceed(c, at) == calls' = (calls \ {c}) \cup {[c EXCEPT !.at = at]} /\ UNCHANGED reply

\* The answer to a commit: the acknowledgement may be lost.
Committed(c) ==
  \/ Answer(c, "OK") /\ UNCHANGED faults
  \/ Answer(c, "INTERNAL") /\ Fault

\* PlaceHold: the replay read.
ServeHoldRead(c) ==
  /\ c.op = "hold" /\ c.at = "read"
  /\ IF holds[c.xfer] # "none" THEN Answer(c, "OK") ELSE Proceed(c, "apply")
  /\ UNCHANGED <<ledger, faults>>

\* PlaceHold from the balance lock on: the funds are checked before the insert
\* finds out that the reference is taken.
ServeHold(c) ==
  LET x == c.xfer
  IN  /\ c.op = "hold" /\ c.at = "apply"
      /\ \/ /\ available < 1
            /\ Answer(c, "INSUFFICIENT_FUNDS") /\ UNCHANGED <<ledger, faults>>
         \/ /\ available >= 1 /\ holds[x] # "none"
            /\ Proceed(c, "read") /\ UNCHANGED <<ledger, faults>>
         \/ /\ available >= 1 /\ holds[x] = "none"
            /\ holds' = [holds EXCEPT ![x] = "active"]
            /\ available' = available - 1
            /\ Committed(c)
            /\ UNCHANGED entries

\* PostTransaction: the idempotency fast path.
ServePostRead(c) ==
  /\ c.op = "post" /\ c.at = "read"
  /\ IF c.xfer \in entries THEN Answer(c, "OK") ELSE Proceed(c, "apply")
  /\ UNCHANGED <<ledger, faults>>

\* PostTransaction from the hold lock on.
ServePost(c) ==
  LET x == c.xfer
  IN  /\ c.op = "post" /\ c.at = "apply"
      /\ \/ /\ holds[x] # "active"
            /\ Answer(c, "INVALID_ARGUMENT") /\ UNCHANGED <<ledger, faults>>
         \/ /\ holds[x] = "active"
            /\ holds' = [holds EXCEPT ![x] = "captured"]
            /\ entries' = entries \cup {x}
            /\ Committed(c)
            /\ UNCHANGED available

ServeRelease(c) ==
  LET x == c.xfer
  IN  /\ c.op = "release"
      /\ \/ /\ holds[x] # "active"
            /\ Answer(c, CASE holds[x] = "released" -> "OK"
                           [] holds[x] = "captured" -> "INVALID_ARGUMENT"
                           [] OTHER -> "NOT_FOUND")
            /\ UNCHANGED <<ledger, faults>>
         \/ /\ holds[x] = "active"
            /\ holds' = [holds EXCEPT ![x] = "released"]
            /\ available' = available + 1
            /\ Committed(c)
            /\ UNCHANGED entries

\* GetTransactionByReference.
ServeExists(c) ==
  /\ c.op = "exists"
  /\ Answer(c, IF c.xfer \in entries THEN "OK" ELSE "NOT_FOUND")
  /\ UNCHANGED <<ledger, faults>>

\* The transaction is rolled back.
ServeFail(c) == Answer(c, "INTERNAL") /\ Fault /\ UNCHANGED ledger

Serve(c) ==
  /\ \/ ServeHoldRead(c) \/ ServeHold(c) \/ ServePostRead(c) \/ ServePost(c)
     \/ ServeRelease(c) \/ ServeExists(c) \/ ServeFail(c)
  /\ UNCHANGED <<db, pc, cur, spec, copy, claimed, expiries>>

\* The ledger's sweeper releases a hold past its expiry.
Sweep(x) ==
  /\ holds[x] = "active"
  /\ holds' = [holds EXCEPT ![x] = "released"]
  /\ available' = available + 1
  /\ UNCHANGED <<db, entries, calls, local, faults, expiries>>

-----------------------------------------------------------------------------
(* Time-outs and crashes *)

\* A call ends with UNAVAILABLE or DEADLINE_EXCEEDED, whatever became of it at
\* the server: the client sends it again ...
Retry(p) ==
  /\ pc[p] \in Ops
  /\ Fault
  /\ calls' = Orphaned(p) \cup {Call(p, pc[p], cur[p])}
  /\ reply' = [reply EXCEPT ![p] = "none"]
  /\ UNCHANGED <<db, ledger, pc, cur, spec, copy, claimed, expiries>>

\* ... or gives up: Drive parks the transfer, recoverOne goes on.
Park(p) ==
  /\ pc[p] \in Ops
  /\ Fault
  /\ calls' = Orphaned(p)
  /\ IF pc[p] = "exists" THEN Goto(p, "budget") ELSE Return(p)
  /\ UNCHANGED <<db, ledger, expiries>>

\* The process dies, its context is cancelled or one of its statements fails: a
\* recovery worker then goes on with its batch or loses it.
Die(p) ==
  /\ pc[p] # "idle"
  /\ Fault
  /\ calls' = Orphaned(p)
  /\ pc' = [pc EXCEPT ![p] = "idle"]
  /\ cur' = [cur EXCEPT ![p] = NoXfer]
  /\ spec' = [spec EXCEPT ![p] = NoXfer]
  /\ copy' = [copy EXCEPT ![p] = Absent]
  /\ reply' = [reply EXCEPT ![p] = "none"]
  /\ \E rest \in {claimed[p], {}} : claimed' = [claimed EXCEPT ![p] = rest]
  /\ UNCHANGED <<db, ledger, expiries>>

-----------------------------------------------------------------------------
(* The specification *)

Drive(p) ==
  \/ Load(p) \/ Start(p) \/ Validate(p)
  \/ HoldAnswered(p) \/ PostAnswered(p) \/ ReleaseAnswered(p) \/ ReleaseNothing(p)

RecoverOne(r) == (\E x \in Xfers : Recover(r, x)) \/ ExistsAnswered(r) \/ Budget(r)

Next ==
  \/ \E d \in Drivers, k \in Keys, s \in Specs :
       Repeat(d, k, s) \/ \E x \in Xfers : Create(d, k, s, x)
  \/ \E k \in Keys : ExpireKey(k)
  \/ \E r \in Recoverers : RecoverOne(r) \/ \E batch \in SUBSET Xfers : Claim(r, batch)
  \/ \E c \in calls : Serve(c)
  \/ \E x \in Xfers : Sweep(x)
  \/ \E p \in Procs : Drive(p) \/ Retry(p) \/ Park(p) \/ Die(p)

Spec == Init /\ [][Next]_vars

-----------------------------------------------------------------------------
(* Safety *)

\* A terminal state tells the truth about the money, whatever drivers, recovery
\* workers, late calls and the sweeper did: COMPLETED means that the entry is
\* committed; FAILED means that it is not and that nothing still under way can
\* commit it, the hold being released or never confirmed to the saga.
OutcomeIsTrue ==
  \A x \in Xfers :
    /\ transfers[x].state = "COMPLETED" => x \in entries
    /\ transfers[x].state = "FAILED" =>
         /\ x \notin entries
         /\ transfers[x].hold => holds[x] = "released"
         /\ ~transfers[x].hold => ~ \E c \in calls : c.op = "post" /\ c.xfer = x

\* UpdateTransferGuarded writes every column of a copy and compares only the
\* state.  That loses nothing: a copy in the row's state has the row's hold id, and
\* the id is on the row before the first post is sent.
HoldIdIsKept ==
  /\ \A x \in Xfers :
       /\ transfers[x].state \in {"POSTING", "COMPLETED"} => transfers[x].hold
       /\ transfers[x].hold => holds[x] # "none"
       /\ x \in entries => transfers[x].hold
  /\ \A p \in Procs :
       (copy[p] # Absent /\ copy[p].state = transfers[cur[p]].state)
         => copy[p].hold = transfers[cur[p]].hold

\* The edges of the saga as docs/architecture.md draws them.
Edges ==
  {<<"CREATED", "VALIDATING">>, <<"VALIDATING", "HELD">>, <<"VALIDATING", "FAILED">>,
   <<"HELD", "POSTING">>, <<"HELD", "RELEASING">>, <<"POSTING", "COMPLETED">>,
   <<"POSTING", "RELEASING">>, <<"RELEASING", "FAILED">>}

\* The audit trail of a transfer is one unbroken walk along these edges up to its
\* present state, although several processes write it, and the outbox holds one
\* status event for a terminal transfer and none for another.
HistoryIsLegal ==
  \A x \in Xfers :
    LET n == Len(trail[x])
        s == transfers[x].state
    IN  /\ s = "none" => n = 0
        /\ s # "none" => n > 0 /\ trail[x][1] = "CREATED" /\ trail[x][n] = s
        /\ \A i \in 1..(n - 1) : <<trail[x][i], trail[x][i + 1]>> \in Edges
        /\ status[x] = IF IsTerminal(s) THEN <<s>> ELSE <<>>

\* Idempotency keys: repeated and parallel requests with one key make one
\* transfer, and one more for each time the clean-up job deletes the key.
OneTransferPerKey ==
  \A k \in Keys :
    Cardinality({x \in Xfers : transfers[x] # Absent /\ transfers[x].key = k})
      <= 1 + expiries

\* A request never drives, or is answered with, a transfer of another payload.
RightTransfer ==
  \A d \in Drivers : pc[d] # "idle" => transfers[cur[d]].spec = spec[d]

-----------------------------------------------------------------------------
(* Why the outcome is true: the inductive invariant behind the above *)

\* How far a transfer has come.  No process ever takes one back.
Rank(s) ==
  CASE s = "none" -> 0 [] s = "CREATED" -> 1 [] s = "VALIDATING" -> 2
    [] s = "HELD" -> 3 [] s = "POSTING" -> 4 [] s = "RELEASING" -> 5
    [] s = "COMPLETED" -> 6 [] OTHER -> 7

\* The hold id is on the row from POSTING on, and never before.
HoldFits(t) ==
  /\ t.state \in {"none", "CREATED", "VALIDATING", "HELD"} => ~t.hold
  /\ t.state \in {"POSTING", "COMPLETED"} => t.hold

\* Row t was read before row r: r has come at least as far and kept the hold id.
Behind(t, r) ==
  /\ Rank(t.state) <= Rank(r.state)
  /\ t.state = r.state => t.hold = r.hold
  /\ t.hold => r.hold

\* A row and the ledger.
RowInv(x) ==
  /\ HoldFits(transfers[x])
  /\ transfers[x].hold => holds[x] # "none"
  /\ x \in entries <=> holds[x] = "captured"
  /\ x \in entries => transfers[x].hold
  /\ transfers[x].state = "COMPLETED" => x \in entries
  /\ transfers[x].state = "FAILED" /\ transfers[x].hold => holds[x] = "released"

\* A call: the hold id was on the row before the call was sent, and at most the
\* process that waits for the answer is where the call was made.
CallInv(c) ==
  /\ transfers[c.xfer] # Absent
  /\ c.op \in {"post", "release"} => transfers[c.xfer].hold
  /\ c.by # Nobody =>
       pc[c.by] = c.op /\ cur[c.by] = c.xfer /\ reply[c.by] = "none"

\* What the state of the copy is where process p is.
CopyFits(p) ==
  /\ pc[p] = "start" => copy[p].state = "CREATED"
  /\ pc[p] = "validate" => copy[p].state = "VALIDATING"
  /\ pc[p] = "hold" => copy[p].state = "HELD"
  /\ pc[p] \in {"post", "exists"} => copy[p].state = "POSTING"
  /\ pc[p] = "release" => copy[p].state = "RELEASING" /\ copy[p].hold
  /\ pc[p] = "released" => copy[p].state = "RELEASING" /\ ~copy[p].hold
  /\ pc[p] = "budget" => Rank(copy[p].state) >= 3

\* Answers the ledger gave to process p are still true.
ReplyInv(p) ==
  /\ pc[p] \notin Ops => reply[p] = "none"
  /\ pc[p] = "hold" /\ reply[p] = "OK" => holds[cur[p]] # "none"
  /\ pc[p] \in {"post", "exists"} /\ reply[p] = "OK" => cur[p] \in entries
  /\ pc[p] = "release" /\ reply[p] = "OK" => holds[cur[p]] = "released"
  /\ pc[p] = "release" => reply[p] # "NOT_FOUND"

ProcInv(p) ==
  /\ pc[p] = "idle" => copy[p] = Absent
  /\ pc[p] # "idle" => cur[p] \in Xfers /\ transfers[cur[p]] # Absent
  /\ pc[p] \notin {"idle", "load"} => copy[p] # Absent
  /\ copy[p] # Absent => Behind(copy[p], transfers[cur[p]]) /\ HoldFits(copy[p])
  /\ CopyFits(p) /\ ReplyInv(p)
  /\ \A x \in claimed[p] : Rank(transfers[x].state) >= 3

SagaInv ==
  /\ \A x \in Xfers : RowInv(x)
  /\ \A c \in calls : CallInv(c)
  /\ \A c, d \in calls : c.by = d.by /\ c.by # Nobody => c = d
  /\ \A p \in Procs : ProcInv(p)

-----------------------------------------------------------------------------
(* Liveness *)

\* Goroutines and the ledger make progress, the worker's ticker fires and a
\* transfer that sits still grows stale.  Clients need not come back; calls nobody
\* waits for need not end.
Fairness ==
  /\ \A p \in Procs : WF_vars(Drive(p))
  /\ \A p \in Procs : WF_vars(\E c \in calls : c.by = p /\ Serve(c))
  /\ \A r \in Recoverers : WF_vars(RecoverOne(r))
  /\ \A x \in Xfers :
       SF_vars(\E r \in Recoverers, batch \in SUBSET Xfers : x \in batch /\ Claim(r, batch))

FairSpec == Spec /\ Fairness

\* No crash or time-out leaves a transfer in HELD or POSTING: re-driven, found
\* posted or given up after the budget, it moves on.
IntentIsResolved ==
  \A x \in Xfers : transfers[x].state \in {"HELD", "POSTING"}
                     ~> transfers[x].state \notin {"HELD", "POSTING"}

\* A transfer under compensation whose money has not moved fails in the end, also
\* after a crash in RELEASING.
CompensationEnds ==
  \A x \in Xfers : (transfers[x].state = "RELEASING" /\ x \notin entries)
                     ~> (transfers[x].state = "FAILED" \/ x \in entries)

-----------------------------------------------------------------------------
(* What the documentation says and the code does not do *)

\* "RELEASING is scanned in addition to HELD/POSTING so a crash during compensation
\* cannot strand a transfer", and Drive is "safe to call concurrently": every
\* transfer in RELEASING becomes FAILED.
NotStranded ==
  \A x \in Xfers : transfers[x].state = "RELEASING" ~> transfers[x].state = "FAILED"

=============================================================================
