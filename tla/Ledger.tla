------------------------------- MODULE Ledger -------------------------------
(***************************************************************************)
(* The ledger service, statement by statement                              *)
(* (services/ledger/internal/app/service.go, sweeper.go and the Postgres   *)
(* adapter).  Every request runs one READ COMMITTED transaction: a plain   *)
(* SELECT sees what is committed when it runs, SELECT ... FOR UPDATE waits *)
(* for the holder of the row and reads the row as it then is, an INSERT    *)
(* into a unique index waits for an uncommitted twin.  A process's writes  *)
(* are kept in its own variables until its commit step publishes them.     *)
(*                                                                         *)
(* The committed tables are the variables of LedgerAtomic.                 *)
(***************************************************************************)
EXTENDS LedgerAtomic

CONSTANTS
  Workers,    \* goroutines serving gRPC calls
  Sweeper,    \* the goroutine of the hold sweeper
  MaxAborts   \* bound on rollbacks forced from outside (see Abort)

Procs == Workers \cup {Sweeper}

ASSUME ProcsAssumption == Sweeper \notin Workers
ASSUME MaxAbortsAssumption == MaxAborts \in Nat

VARIABLES
  pc,         \* the next statement of each process
  req,        \* the request each process serves
  locks,      \* the account_balances rows each process has locked
  rows,       \* the new contents each process has computed for those rows
  reply,      \* the code each process's last request was answered with
  sweeping,   \* the holds of the sweeper's last scan it has still to release
  aborts      \* rollbacks forced so far

lvars == <<pc, req, locks, rows, reply, sweeping, aborts>>
vars == <<avars, lvars>>

NoReq == [op |-> "none"]
Codes == {"OK", "INTERNAL", "NOT_FOUND", "ALREADY_EXISTS", "CURRENCY_MISMATCH",
          "INSUFFICIENT_FUNDS", "INVALID_ARGUMENT", "UNBALANCED_ENTRY"}

PlacePC == {"hold_read", "hold_lock", "hold_insert", "hold_commit"}
ReleasePC == {"rel_lock", "rel_bal", "rel_commit"}
PostPC == {"post_read", "post_hold", "post_bal", "post_ref", "post_commit",
           "post_replay"}

TypeOK ==
  /\ ATypeOK
  /\ pc \in [Procs -> {"idle"} \cup PlacePC \cup ReleasePC \cup PostPC]
  /\ req \in [Procs -> Requests \cup ReleaseHoldRequest \cup {NoReq}]
  /\ locks \in [Procs -> SUBSET Accounts]
  /\ rows \in [Procs -> [Accounts -> Row]]
  /\ reply \in [Procs -> Codes \cup {"none"}]
  /\ sweeping \subseteq Refs
  /\ aborts \in 0..MaxAborts

Init ==
  /\ AInit
  /\ pc = [p \in Procs |-> "idle"]
  /\ req = [p \in Procs |-> NoReq]
  /\ locks = [p \in Procs |-> {}]
  /\ rows = [p \in Procs |-> [a \in Accounts |-> ZeroRow]]
  /\ reply = [p \in Procs |-> "none"]
  /\ sweeping = {}
  /\ aborts = 0

-----------------------------------------------------------------------------
(* Row locks and unique keys *)

\* Variant: the hold is read without FOR UPDATE.
HoldNotLocked(p) == NoRef

\* The row of holds that process p has locked (LockHoldByID).
HoldLock(p) ==
  IF pc[p] \in {"rel_bal", "rel_commit", "post_bal", "post_ref", "post_commit"}
  THEN req[p].hold ELSE NoRef

\* The balances PostTransaction has still to lock, and the next one: ascending.
Remaining(p) == Affected(req[p].legs) \ locks[p]
\* Variant: the locks are taken in the order of the request.
IsNextOfRequest(p, a) ==
  \E i \in DOMAIN req[p].legs :
    /\ req[p].legs[i].acct = a
    /\ a \notin locks[p]
    /\ \A j \in 1..(i - 1) : req[p].legs[j].acct \in locks[p]

IsNext(p, a) == a \in Remaining(p) /\ \A b \in Remaining(p) : a <= b

\* The account_balances row the next statement of p locks.
WantsBalance(p, a) ==
  \/ pc[p] = "hold_lock" /\ a = req[p].acct
  \/ pc[p] = "rel_bal" /\ a = holds[req[p].hold].acct
  \/ pc[p] = "post_bal" /\ IsNext(p, a)

\* Process p cannot take its next statement before process s commits or rolls back.
WaitsFor(p, s) ==
  /\ p # s
  /\ \/ pc[p] \in {"rel_lock", "post_hold"} /\ HoldLock(s) = req[p].hold
     \/ \E a \in locks[s] : WantsBalance(p, a)
     \/ /\ pc[p] = "hold_insert" /\ pc[s] = "hold_commit"
        /\ req[p].ref = req[s].ref
     \/ /\ pc[p] = "post_ref" /\ pc[s] = "post_commit"
        /\ req[p].ref = req[s].ref

Runs(p, at) == pc[p] = at /\ \A s \in Procs : ~WaitsFor(p, s)

-----------------------------------------------------------------------------
(* Bookkeeping of a process *)

\* Go on to statement "at" holding the same locks.
Goto(p, at) ==
  /\ pc' = [pc EXCEPT ![p] = at]
  /\ UNCHANGED <<req, locks, rows, reply, sweeping, aborts>>

\* Lock balance row a, having computed its new contents b, and go on.
GotoWith(p, at, a, b) ==
  /\ pc' = [pc EXCEPT ![p] = at]
  /\ locks' = [locks EXCEPT ![p] = @ \cup {a}]
  /\ rows' = [rows EXCEPT ![p][a] = b]
  /\ UNCHANGED <<req, reply, sweeping, aborts>>

\* The transaction ends and its locks go: the request starts again at "at".
Restart(p, at) ==
  /\ pc' = [pc EXCEPT ![p] = at]
  /\ locks' = [locks EXCEPT ![p] = {}]
  /\ rows' = [rows EXCEPT ![p] = [a \in Accounts |-> ZeroRow]]
  /\ UNCHANGED <<req, reply, sweeping, aborts>>

\* The transaction ends and the request is answered.
End(p, code) ==
  /\ pc' = [pc EXCEPT ![p] = "idle"]
  /\ req' = [req EXCEPT ![p] = NoReq]
  /\ locks' = [locks EXCEPT ![p] = {}]
  /\ rows' = [rows EXCEPT ![p] = [a \in Accounts |-> ZeroRow]]
  /\ reply' = [reply EXCEPT ![p] = code]
  /\ UNCHANGED sweeping

Answer(p, code) == End(p, code) /\ UNCHANGED <<avars, aborts>>

\* A COMMIT that took effect; the error of a lost acknowledgement is answered
\* with the code of an unclassified error.
Commit(p) == \E code \in {"OK", "INTERNAL"} : End(p, code) /\ UNCHANGED aborts

Start(p, q) ==
  /\ pc[p] = "idle"
  /\ pc' = [pc EXCEPT ![p] = CASE q.op = "place"   -> "hold_read"
                               [] q.op = "release" -> "rel_lock"
                               [] q.op = "post"    -> "post_read"]
  /\ req' = [req EXCEPT ![p] = q]
  /\ reply' = [reply EXCEPT ![p] = "none"]
  /\ UNCHANGED <<avars, locks, rows, aborts>>

\* A cancelled context, a lost connection or a crash rolls the transaction back.
Abort(p) ==
  /\ pc[p] # "idle"
  /\ aborts < MaxAborts
  /\ aborts' = aborts + 1
  /\ End(p, "INTERNAL")
  /\ UNCHANGED avars

-----------------------------------------------------------------------------
(* CreateAccount: one statement, INSERT ... ON CONFLICT DO NOTHING *)

\* Its refusals (INVALID_ARGUMENT, CURRENCY_MISMATCH, ALREADY_EXISTS) change nothing and are
\* left out.
CreateAccount(a) == ACreateAccount(a) /\ UNCHANGED lvars

-----------------------------------------------------------------------------
(* PlaceHold *)

\* Variant: a hold of the same reference is returned whatever it reserves.
PlaceHoldReadByReference(p) ==
  /\ Runs(p, "hold_read")
  /\ \/ req[p].acct \notin accounts /\ Answer(p, "NOT_FOUND")
     \/ req[p].acct \in accounts /\ holds[req[p].ref] # NoHold /\ Answer(p, "OK")
     \/ /\ req[p].acct \in accounts /\ holds[req[p].ref] = NoHold
        /\ Goto(p, "hold_lock") /\ UNCHANGED avars

\* GetAccountByRef, GetHoldByReference and the checks before the lock.  No query changes
\* ledger_accounts.status, so the check for a frozen account never fails and is left out.
PlaceHoldRead(p) ==
  LET q == req[p]
      h == holds[q.ref]
      code == IF q.acct \notin accounts THEN "NOT_FOUND"
              ELSE IF h # NoHold
                   THEN IF h.acct = q.acct /\ h.amount = q.amount
                        THEN "OK" ELSE "ALREADY_EXISTS"
              ELSE IF q.cur # Cur[q.acct] THEN "CURRENCY_MISMATCH"
              ELSE "none"
  IN  /\ Runs(p, "hold_read")
      /\ \/ code # "none" /\ Answer(p, code)
         \/ code = "none" /\ Goto(p, "hold_lock") /\ UNCHANGED avars

\* LockBalance and domain.CanPlaceHold.
PlaceHoldLock(p) ==
  LET q == req[p]
      b == balances[q.acct]
      code == CanPlaceHold(b, q.acct, q.amount)
  IN  /\ Runs(p, "hold_lock")
      /\ \/ code # "OK" /\ Answer(p, code)
         \/ /\ code = "OK"
            /\ GotoWith(p, "hold_insert", q.acct, HeldRow(b, q.amount))
            /\ UNCHANGED avars

\* Variants: no CHECK on held; a retry that does not look for the twin's hold.
PlaceHoldInsertUnchecked(p) ==
  /\ Runs(p, "hold_insert")
  /\ UNCHANGED avars
  /\ \/ holds[req[p].ref] # NoHold /\ Restart(p, "hold_read")
     \/ holds[req[p].ref] = NoHold /\ Goto(p, "hold_commit")
PlaceHoldInsertRetry(p) ==
  /\ Runs(p, "hold_insert")
  /\ UNCHANGED avars
  /\ \/ holds[req[p].ref] # NoHold /\ Restart(p, "hold_lock")
     \/ holds[req[p].ref] = NoHold /\ Goto(p, "hold_commit")

\* InsertHold and UpdateBalance: a committed twin sends the request back to the
\* start, a held that wrapped is refused by CHECK (held >= 0).
PlaceHoldInsert(p) ==
  LET q == req[p]
  IN  /\ Runs(p, "hold_insert")
      /\ UNCHANGED avars
      /\ \/ holds[q.ref] # NoHold /\ Restart(p, "hold_read")
         \/ /\ holds[q.ref] = NoHold
            /\ rows[p][q.acct].held < 0
            /\ Answer(p, "INTERNAL")
         \/ /\ holds[q.ref] = NoHold
            /\ rows[p][q.acct].held >= 0
            /\ Goto(p, "hold_commit")

PlaceHoldCommit(p) ==
  LET q == req[p]
  IN  /\ Runs(p, "hold_commit")
      /\ holds' = [holds EXCEPT ![q.ref] =
                     [acct |-> q.acct, amount |-> q.amount, status |-> "active"]]
      /\ balances' = [balances EXCEPT ![q.acct] = rows[p][q.acct]]
      /\ Commit(p)
      /\ UNCHANGED <<accounts, expired, entries, outbox>>

PlaceHold(p) ==
  PlaceHoldRead(p) \/ PlaceHoldLock(p) \/ PlaceHoldInsert(p) \/ PlaceHoldCommit(p)

-----------------------------------------------------------------------------
(* ReleaseHold *)

\* LockHoldByID and domain.ReleaseHold.
ReleaseHoldLock(p) ==
  LET status == holds[req[p].hold].status
  IN  /\ Runs(p, "rel_lock")
      /\ \/ status = "none" /\ Answer(p, "NOT_FOUND")
         \/ status = "released" /\ Answer(p, "OK")
         \/ status = "captured" /\ Answer(p, "INVALID_ARGUMENT")
         \/ status = "active" /\ Goto(p, "rel_bal") /\ UNCHANGED avars

\* LockBalance and the underflow check.
ReleaseHoldBalance(p) ==
  LET h == holds[req[p].hold]
      b == balances[h.acct]
  IN  /\ Runs(p, "rel_bal")
      /\ UNCHANGED avars
      /\ IF b.held - h.amount < 0
         THEN Answer(p, "INTERNAL")
         ELSE GotoWith(p, "rel_commit", h.acct, ReleasedRow(b, h.amount))

ReleaseHoldCommit(p) ==
  LET r == req[p].hold
      a == holds[r].acct
  IN  /\ Runs(p, "rel_commit")
      /\ holds' = [holds EXCEPT ![r].status = "released"]
      /\ balances' = [balances EXCEPT ![a] = rows[p][a]]
      /\ Commit(p)
      /\ UNCHANGED <<accounts, expired, entries, outbox>>

ReleaseHold(p) ==
  ReleaseHoldLock(p) \/ ReleaseHoldBalance(p) \/ ReleaseHoldCommit(p)

-----------------------------------------------------------------------------
(* PostTransaction *)

\* GetAccountByRef of every leg, the idempotency fast path, ValidateEntry and
\* the net deltas.
PostRead(p) ==
  LET q == req[p]
      e == entries[q.ref]
      code == IF ~(Affected(q.legs) \subseteq accounts) THEN "NOT_FOUND"
              ELSE IF e # NoEntry
                   THEN IF SamePayload(e, q.legs) THEN "OK" ELSE "ALREADY_EXISTS"
              ELSE IF ValidateEntry(q.legs) # "OK" THEN ValidateEntry(q.legs)
              ELSE "none"
  IN  /\ Runs(p, "post_read")
      /\ UNCHANGED avars
      /\ \/ code # "none" /\ Answer(p, code)
         \/ /\ code = "none"
            /\ Goto(p, IF q.hold = NoRef THEN "post_bal" ELSE "post_hold")

\* LockHoldByID and domain.CaptureHold.
PostHold(p) ==
  LET q == req[p]
      h == holds[q.hold]
      code == IF h = NoHold \/ q.hold # q.ref THEN "INVALID_ARGUMENT"
              ELSE CaptureHold(h, q.legs)
  IN  /\ Runs(p, "post_hold")
      /\ \/ code # "OK" /\ Answer(p, code)
         \/ code = "OK" /\ Goto(p, "post_bal") /\ UNCHANGED avars

\* What one turn of the lock loop answers for account a, and the row it computes:
\* the held adjustment and domain.ApplyPosting.
PostCode(p, a) ==
  ApplyPosting(balances[a], a, AHeldAdj(req[p], a), Delta(req[p].legs, a))

\* Variant: the last posting of the account replaces the net delta.
PostRowLast(p, a) ==
  LET legs == req[p].legs
      last == Max({i \in DOMAIN legs : legs[i].acct = a})
  IN  AppliedRow(balances[a], AHeldAdj(req[p], a), legs[last].amount)

PostRow(p, a) ==
  AppliedRow(balances[a], AHeldAdj(req[p], a), Delta(req[p].legs, a))

\* One turn of the lock loop: LockBalance, then the above.
PostBalance(p) ==
  /\ Runs(p, "post_bal")
  /\ UNCHANGED avars
  /\ \E a \in Accounts :
       /\ IsNext(p, a)
       /\ \/ PostCode(p, a) # "OK" /\ Answer(p, PostCode(p, a))
          \/ /\ PostCode(p, a) = "OK"
             /\ GotoWith(p, IF Remaining(p) = {a} THEN "post_ref" ELSE "post_bal",
                         a, PostRow(p, a))

\* Variant: the reference is inserted with ON CONFLICT DO NOTHING.
PostRefIgnored(p) ==
  Runs(p, "post_ref") /\ Goto(p, "post_commit") /\ UNCHANGED avars

\* InsertEntry and InsertEntryRef: a committed twin is ErrRefConflict.
PostRef(p) ==
  /\ Runs(p, "post_ref")
  /\ UNCHANGED avars
  /\ \/ entries[req[p].ref] # NoEntry /\ Restart(p, "post_replay")
     \/ entries[req[p].ref] = NoEntry /\ Goto(p, "post_commit")

\* Postings, balances, the captured hold and the outbox events, in one commit.
\* The deferred trigger lets the commit pass only if the entry adds up to zero.
PostCommit(p) ==
  LET q == req[p]
      affected == Affected(q.legs)
  IN  /\ Runs(p, "post_commit")
      /\ ZeroSum(q.legs)
      /\ entries' = [entries EXCEPT ![q.ref] = q.legs]
      /\ balances' = [a \in Accounts |->
                        IF a \in affected THEN rows[p][a] ELSE balances[a]]
      /\ holds' = IF q.hold = NoRef THEN holds
                  ELSE [holds EXCEPT ![q.hold].status = "captured"]
      /\ outbox' = outbox \cup
           {[acct |-> a, ref |-> q.ref, balance |-> rows[p][a].balance,
             version |-> rows[p][a].version] : a \in affected}
      /\ Commit(p)
      /\ UNCHANGED <<accounts, expired>>

\* replayByReference, outside any transaction.
PostReplay(p) ==
  /\ Runs(p, "post_replay")
  /\ Answer(p, IF SamePayload(entries[req[p].ref], req[p].legs)
               THEN "OK" ELSE "ALREADY_EXISTS")

PostTransaction(p) ==
  \/ PostRead(p) \/ PostHold(p) \/ PostBalance(p) \/ PostRef(p)
  \/ PostCommit(p) \/ PostReplay(p)

-----------------------------------------------------------------------------
(* Expiry and the sweeper *)

Expire(r) == AExpire(r) /\ UNCHANGED lvars

\* Variant: the comparison with expires_at is turned round.
SweepScanUnexpired ==
  LET found == {r \in Refs \ expired : holds[r].status = "active"}
  IN  /\ pc[Sweeper] = "idle"
      /\ sweeping = {}
      /\ found # {}
      /\ sweeping' = found
      /\ UNCHANGED <<avars, pc, req, locks, rows, reply, aborts>>

\* ListExpiredHolds.  Its order and its limit of 100 are dropped: the sweep takes all it
\* found, in any order.
SweepScan ==
  LET found == {r \in expired : holds[r].status = "active"}
  IN  /\ pc[Sweeper] = "idle"
      /\ sweeping = {}
      /\ found # {}
      /\ sweeping' = found
      /\ UNCHANGED <<avars, pc, req, locks, rows, reply, aborts>>

SweepNext(r) ==
  /\ r \in sweeping
  /\ sweeping' = sweeping \ {r}
  /\ Start(Sweeper, [op |-> "release", hold |-> r])

-----------------------------------------------------------------------------
(* The specification *)

Step(p) == PlaceHold(p) \/ ReleaseHold(p) \/ PostTransaction(p)

Serve(w, q) == Start(w, q) /\ UNCHANGED sweeping

Next ==
  \/ \E a \in Customers : CreateAccount(a)
  \/ \E r \in Refs : Expire(r) \/ SweepNext(r)
  \/ SweepScan
  \/ \E w \in Workers, q \in Requests : Serve(w, q)
  \/ \E p \in Procs : Step(p) \/ Abort(p)

Spec == Init /\ [][Next]_vars

-----------------------------------------------------------------------------
(* The locking discipline *)

\* A process that serves PlaceHold: from the balance lock on, what CanPlaceHold
\* saw is still so, and the row to be written is the committed row plus the hold.
PlaceInv(p) ==
  /\ pc[p] \in PlacePC => req[p] \in Requests \cap PlaceHoldRequest
  /\ pc[p] \in {"hold_read", "hold_lock"} => locks[p] = {}
  /\ pc[p] \in {"hold_lock", "hold_insert", "hold_commit"} =>
       req[p].acct \in accounts /\ req[p].cur = Cur[req[p].acct]
  /\ pc[p] \in {"hold_insert", "hold_commit"} =>
       LET a == req[p].acct
       IN  /\ locks[p] = {a}
           /\ CanPlaceHold(balances[a], a, req[p].amount) = "OK"
           /\ rows[p][a] = HeldRow(balances[a], req[p].amount)
  /\ pc[p] = "hold_commit" =>
       holds[req[p].ref] = NoHold /\ rows[p][req[p].acct].held >= 0

\* A process that serves ReleaseHold: the hold it has locked stays active.
ReleaseInv(p) ==
  /\ pc[p] \in ReleasePC => req[p] \in ReleaseHoldRequest
  /\ pc[p] \in {"rel_lock", "rel_bal"} => locks[p] = {}
  /\ pc[p] \in {"rel_bal", "rel_commit"} => holds[req[p].hold].status = "active"
  /\ pc[p] = "rel_commit" =>
       LET h == holds[req[p].hold]
       IN  /\ locks[p] = {h.acct}
           /\ balances[h.acct].held >= h.amount
           /\ rows[p][h.acct] = ReleasedRow(balances[h.acct], h.amount)

\* A process that serves PostTransaction: its hold stays capturable, its balances
\* are locked in ascending order, and every row it will write is ApplyPosting of
\* the committed row.
PostInv(p) ==
  /\ pc[p] \in PostPC => req[p] \in Requests \cap PostRequest
  /\ pc[p] \in {"post_read", "post_hold", "post_replay"} => locks[p] = {}
  /\ pc[p] = "post_hold" => req[p].hold # NoRef
  /\ pc[p] \in {"post_hold", "post_bal", "post_ref", "post_commit"} =>
       Affected(req[p].legs) \subseteq accounts /\ ValidateEntry(req[p].legs) = "OK"
  /\ pc[p] \in {"post_bal", "post_ref", "post_commit"} =>
       /\ req[p].hold # NoRef => /\ req[p].hold = req[p].ref
                                 /\ holds[req[p].hold] # NoHold
                                 /\ CaptureHold(holds[req[p].hold], req[p].legs) = "OK"
       /\ locks[p] \subseteq Affected(req[p].legs)
       /\ \A a \in locks[p] : PostCode(p, a) = "OK" /\ rows[p][a] = PostRow(p, a)
       /\ \A a \in locks[p], b \in Remaining(p) : a < b
  /\ pc[p] = "post_bal" => Remaining(p) # {}
  /\ pc[p] \in {"post_ref", "post_commit"} => Remaining(p) = {}
  /\ pc[p] = "post_commit" => entries[req[p].ref] = NoEntry
  /\ pc[p] = "post_replay" => entries[req[p].ref] # NoEntry

ProcInv(p) ==
  /\ PlaceInv(p) /\ ReleaseInv(p) /\ PostInv(p)
  /\ pc[p] = "idle" => locks[p] = {}

\* No row is locked and no unique key inserted by two processes.
Exclusive(p, s) ==
  /\ locks[p] \cap locks[s] = {}
  /\ HoldLock(p) # NoRef => HoldLock(p) # HoldLock(s)
  /\ pc[p] = "hold_commit" /\ pc[s] = "hold_commit" => req[p].ref # req[s].ref
  /\ pc[p] = "post_commit" /\ pc[s] = "post_commit" => req[p].ref # req[s].ref

\* What FOR UPDATE buys the service (ADR-0007): from the lock to the commit no
\* value it has checked or computed goes stale, whatever the other requests, the
\* sweeper and rollbacks do in between.
NothingStale ==
  /\ \A p \in Procs : ProcInv(p)
  /\ \A p, s \in Procs : p # s => Exclusive(p, s)

-----------------------------------------------------------------------------
(* Safety *)

\* An answer "OK" to a post means that an entry with these postings is committed,
\* to PlaceHold that the hold exists with this account and amount, to ReleaseHold
\* that the hold is released.
Fulfilled(p) ==
  LET q == req[p]
  IN  /\ q.op = "post" => SamePayload(entries'[q.ref], q.legs)
      /\ q.op = "place" => /\ holds'[q.ref] # NoHold
                           /\ holds'[q.ref].acct = q.acct
                           /\ holds'[q.ref].amount = q.amount
      /\ q.op = "release" => holds'[q.hold].status = "released"

\* What the service answers is so when it answers, whichever of the fast path, the
\* commit, the retry or the replay gives the answer.
AnswersAreTrue ==
  [][\A p \in Procs :
       (pc[p] # "idle" /\ pc'[p] = "idle" /\ reply'[p] = "OK") => Fulfilled(p)]_vars

\* The place of a process's next statement in the canonical lock order of
\* ADR-0007: hold rows, then balance rows by account, then unique keys; last the
\* statements that wait for nothing.
WaitRank(p) ==
  CASE pc[p] \in {"rel_lock", "post_hold"} -> <<0, 0>>
    [] pc[p] = "hold_lock" -> <<1, req[p].acct>>
    [] pc[p] = "rel_bal" -> <<1, holds[req[p].hold].acct>>
    [] pc[p] = "post_bal" -> <<1, CHOOSE a \in Accounts : IsNext(p, a)>>
    [] pc[p] \in {"hold_insert", "post_ref"} -> <<2, 0>>
    [] OTHER -> <<3, 0>>
Below(r, s) == r[1] < s[1] \/ (r[1] = s[1] /\ r[2] < s[2])

\* ADR-0007, "deadlocks impossible by construction": a process is only ever
\* waited for by processes whose wait comes earlier in the lock order, so no
\* requests of PlaceHold, ReleaseHold, PostTransaction and the sweeper can wait
\* for each other in a circle.
LockOrder ==
  \A p, s \in Procs : WaitsFor(p, s) => Below(WaitRank(p), WaitRank(s))

-----------------------------------------------------------------------------
(* Liveness *)

\* Goroutines are scheduled and Postgres queues the waiters of a row, so a
\* process that can take a statement again and again takes it; the sweeper's
\* ticker fires.  Clients may stop calling, accounts need not be opened.
Fairness ==
  /\ \A p \in Procs : SF_vars(Step(p))
  /\ WF_vars(SweepScan \/ \E r \in Refs : SweepNext(r))

FairSpec == Spec /\ Fairness

\* Every request is answered: the retry of PlaceHold, the replay of
\* PostTransaction and the queues for rows and keys all come to an end.
Answered == \A p \in Procs : pc[p] # "idle" ~> pc[p] = "idle"

\* The sweeper's promise (ledger-service.md, Failure & ops): the reservation of a
\* hold past its expiry does not last, even when rollbacks hit the sweeper.
ExpiredHoldsEnd ==
  \A r \in Refs : (r \in expired /\ holds[r].status = "active")
                    ~> holds[r].status # "active"

=============================================================================
