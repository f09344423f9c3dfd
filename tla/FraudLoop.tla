----------------------------- MODULE FraudLoop ------------------------------
(***************************************************************************)
(* The fraud loop: completed transfers are scored, a HIGH alert freezes    *)
(* the account, and a frozen account's transfers are refused.  It composes *)
(* the account service, the scorer and the notifier over the events of the *)
(* bus, with the transfers of one account (Acct) as the environment that   *)
(* the saga and the ledger are to them.                                    *)
(***************************************************************************)
EXTENDS Accounts, Antifraud, Notification, Sequences

CONSTANT Acct  \* the source account of the transfers

ASSUME AcctAssumption == Acct \in Accounts

VARIABLES
  xfer,       \* where each transfer stands
  history,    \* the ledger's balance of Acct after each posting
  version,    \* the version of the posting of each completed transfer
  projected,  \* TransactionPosted events the account group has handled
  handled,    \* FraudAlertRaised events the account group has handled
  seenFrozen  \* history: alerts since which the account has been frozen once

lvars == <<xfer, history, version, projected, handled>>
vars == <<avars, fvars, nvars, lvars, seenFrozen>>

High == {x \in alerts : x[2].severity = "HIGH"}
Completed == {t \in Transfers : xfer[t] = "completed"}

Init ==
  /\ AccountsInit /\ AntifraudInit /\ NotificationInit
  /\ xfer = [t \in Transfers |-> "new"]
  /\ history = <<>>
  /\ version = [t \in Transfers |-> 0]
  /\ projected = {} /\ handled = {} /\ seenFrozen = {}

-----------------------------------------------------------------------------
(* The transfers *)

Balance == IF history = <<>> THEN 0 ELSE history[Len(history)]

\* The saga's validation asks the account service; only an active account passes.
\* One transfer is in flight at a time, in the order of their times.
Validate(t) ==
  /\ xfer[t] = "new"
  /\ \A u \in Transfers : At[u] < At[t] => xfer[u] \in {"completed", "failed"}
  /\ GetAccount(Owner[Acct], Acct) # "NOT_FOUND"
  /\ xfer' = [xfer EXCEPT ![t] =
                IF GetAccount(Owner[Acct], Acct) = "ACTIVE" THEN "validated" ELSE "failed"]
  /\ UNCHANGED <<avars, fvars, nvars, history, version, projected, handled>>

\* The ledger posts a validated transfer that is covered.
Complete(t) ==
  /\ xfer[t] = "validated"
  /\ Kind[t] = "topup" \/ Balance >= Amount[t]
  /\ history' = Append(history, IF Kind[t] = "topup" THEN Balance + Amount[t]
                                                    ELSE Balance - Amount[t])
  /\ version' = [version EXCEPT ![t] = Len(history) + 1]
  /\ xfer' = [xfer EXCEPT ![t] = "completed"]
  /\ UNCHANGED <<avars, fvars, nvars, projected, handled>>

-----------------------------------------------------------------------------
(* Deliveries *)

\* TransactionPosted reaches the projection.
Project(t) ==
  /\ t \in Completed \ projected
  /\ ApplyProjection(Acct, history[version[t]], version[t])
  /\ projected' = projected \cup {t}
  /\ UNCHANGED <<fvars, nvars, xfer, history, version, handled>>

\* TransferCompleted reaches the scorer.
ScoreStep ==
  /\ \E t \in Completed : SkipTopup(t) \/ ScoreRead(t) \/ ScoreWrite(t)
  /\ UNCHANGED <<avars, nvars, lvars>>

\* A HIGH FraudAlertRaised reaches the account service; it ignores the others.
AlertStep ==
  \/ /\ \E x \in High \ handled : FreezeRead(x, Acct)
     /\ UNCHANGED <<fvars, nvars, lvars>>
  \/ /\ FreezeWrite
     /\ handled' = handled \cup {freezing.alert}
     /\ UNCHANGED <<fvars, nvars, xfer, history, version, projected>>

\* FraudAlertRaised reaches the notifier.
NotifyStep ==
  /\ \/ \E x \in alerts \cap Notices : Send(x) \/ SendFails(x)
     \/ NotifyCommit \/ NotifyAbort
  /\ UNCHANGED <<avars, fvars, lvars>>

RegistryStep ==
  /\ \/ \E a \in Accounts : \/ UpsertCustomer(a) \/ CreateMirror(a) \/ MirrorFails(a)
                            \/ CreateRow(a) \/ RowFails(a)
     \/ \E u \in Users : BootstrapCustomer(u)
     \/ \E s \in Staff, a \in Accounts, to \in {"ACTIVE", "FROZEN"} : ReadStatus(s, a, to)
     \/ \E s \in Staff : WriteStatus(s)
  /\ UNCHANGED <<fvars, nvars, lvars>>

Step ==
  \/ RegistryStep
  \/ \E t \in Transfers : Validate(t) \/ Complete(t) \/ Project(t)
  \/ ScoreStep
  \/ AlertStep
  \/ NotifyStep

\* Bookkeeping of every step.
Watch == seenFrozen' = seenFrozen \cup
           {x \in alerts' : x[2].severity = "HIGH" /\ status'[Acct] = "FROZEN"}

Next == Step /\ Watch

Spec == Init /\ [][Next]_vars

\* The poll loops of the scorer and of the account service keep running.
FairSpec ==
  /\ Spec
  /\ WF_vars(ScoreStep /\ Watch)
  /\ WF_vars(AlertStep /\ Watch)

-----------------------------------------------------------------------------
(* Properties *)

\* GetBalances asks the ledger, once GetAccount has let the caller through.
GetBalances(caller) ==
  IF GetAccount(caller, Acct) \in {"NOT_FOUND", "FORBIDDEN"} THEN {} ELSE {Balance}

\* What ListAccounts shows is a balance the account really had, after the posting
\* its version names, and the newest one delivered, in whatever order the events
\* arrive (UpsertBalanceGuarded); once all are, it is what GetBalances answers.  It
\* shows them to the owner and to staff, never to another customer.
ProjectionIsTrue ==
  \A caller \in Users \cup Staff \cup {"stranger"} :
    LET list == {x \in ListAccounts(caller, Owner[Acct]) : x.acct = Acct}
    IN  /\ list # {} <=> GetBalances(caller) # {}
        /\ \A x \in list :
             /\ \A t \in projected : version[t] <= x.shown.version
             /\ projected = {} => x.shown = NoBalance
             /\ projected # {} => \E t \in projected :
                  x.shown = [balance |-> history[version[t]], version |-> version[t]]
             /\ projected = Completed => GetBalances(caller) = {x.shown.balance}

\* The loop closes: every HIGH alert freezes the account in the end, and so does
\* every day whose completed transfers exceed the limit, unless statistics were
\* read concurrently or out of order; applyFreeze reads the status without a lock,
\* and staff may freeze and unfreeze meanwhile.
LoopCloses ==
  LET day(t) == DateOf(At[t])
      outgoing(d) == {t \in Completed : Kind[t] # "topup" /\ day(t) = d}
  IN  []<>(/\ High \subseteq seenFrozen
           /\ skewed \/ \A t \in Completed, r \in loadRules :
                r.kind = "daily_out_sum" /\ r.severity = "HIGH"
                  /\ SumFunctionOnSet(Amount, outgoing(day(t))) > r.limit =>
                     \E x \in seenFrozen : x[2] = r /\ day(x[1]) = day(t))
=============================================================================
