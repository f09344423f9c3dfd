------------------------------ MODULE Accounts ------------------------------
(***************************************************************************)
(* The account service: the registry (OpenAccount, Freeze, Unfreeze and    *)
(* the reads) and the writes of its consumer group: the balance projection *)
(* of ledger.transactions, the freeze by a HIGH fraud alert and the        *)
(* customer bootstrap.                                                     *)
(*                                                                         *)
(* Every statement on its own and every transaction is one step; between   *)
(* them anyone may act.  The bus is what EventFlow shows it to be: each    *)
(* event is handled at most once, in any order.  An account stands for its *)
(* id; the owner's user id is Owner[a].                                    *)
(***************************************************************************)
EXTENDS Naturals

CONSTANTS
  Accounts,    \* account ids that OpenAccount may draw
  Users,       \* user ids
  Owner,       \* the caller who asks for each account
  Staff,       \* support and admin users
  MaxStaffOps  \* bound on Freeze and Unfreeze calls

ASSUME AccountsAssumption ==
  Owner \in [Accounts -> Users] /\ MaxStaffOps \in Nat

VARIABLES
  customers,  \* rows of customers, by user id
  opening,    \* where the OpenAccount of each id stands
  mirror,     \* accounts that exist in the ledger
  status,     \* the account rows: ACTIVE, FROZEN or CLOSED
  opened,     \* AccountOpened events
  balances,   \* the projection: rows of balances
  staffOp,    \* a staff call between its read and its update
  staffOps,   \* staff calls so far
  freezing,   \* the alert the freeze consumer is handling, and what it read
  frozen      \* AccountFrozen events: the alerts that froze an account

registry == <<customers, opening, mirror, opened, staffOp, staffOps>>
avars == <<registry, status, balances, freezing, frozen>>

NoBalance == [balance |-> 0, version |-> 0]
Idle == [at |-> "idle"]

AccountsInit ==
  /\ customers = {}
  /\ opening = [a \in Accounts |-> "no"]
  /\ mirror = {} /\ opened = {}
  /\ status = [a \in Accounts |-> "none"]
  /\ balances = [a \in Accounts |-> NoBalance]
  /\ staffOp = [s \in Staff |-> Idle] /\ staffOps = 0
  /\ freezing = Idle
  /\ frozen = {}

-----------------------------------------------------------------------------
(* The statements.  A row is there once its status is. *)

Rows == {a \in Accounts : status[a] # "none"}

UpsertCustomerRow(user) == customers' = customers \cup {user}

CreateAccountRow(a) == status' = [status EXCEPT ![a] = "ACTIVE"]

\* The row joined with its customer, in the columns that decide something.
GetAccountByID(a) == {[status |-> status[b], user |-> Owner[b]] : b \in Rows \cap {a}}

GetAccountStatus(a) == status[a]

UpdateAccountStatus(a, to) == status' = [status EXCEPT ![a] = to]

ListAccountsByUser(user) == {a \in Rows : Owner[a] = user}

GetBalancesForAccounts(as) == {a \in as : balances[a] # NoBalance}

-----------------------------------------------------------------------------
(* OpenAccount *)

\* UpsertCustomer, in a transaction of its own.
UpsertCustomer(a) ==
  /\ opening[a] = "no"
  /\ UpsertCustomerRow(Owner[a])
  /\ opening' = [opening EXCEPT ![a] = "customer"]
  /\ UNCHANGED <<mirror, opened, staffOp, staffOps, status, balances, freezing, frozen>>

\* The ledger answers that the account exists.
CreateMirror(a) ==
  /\ opening[a] = "customer"
  /\ mirror' = mirror \cup {a}
  /\ opening' = [opening EXCEPT ![a] = "mirrored"]
  /\ UNCHANGED <<customers, opened, staffOp, staffOps, status, balances, freezing, frozen>>

\* The call fails or times out, having taken effect or not; or the process dies.
\* The caller who asks again draws another id.
MirrorFails(a) ==
  /\ opening[a] = "customer"
  /\ mirror' \in {mirror, mirror \cup {a}}
  /\ opening' = [opening EXCEPT ![a] = "failed"]
  /\ UNCHANGED <<customers, opened, staffOp, staffOps, status, balances, freezing, frozen>>

\* Variant: the row is written before the ledger is asked.
CreateRowEarly(a) ==
  /\ opening[a] \in {"customer", "mirrored"}
  /\ CreateAccountRow(a)
  /\ opened' = opened \cup {a}
  /\ opening' = [opening EXCEPT ![a] = "done"]
  /\ UNCHANGED <<customers, mirror, staffOp, staffOps, balances, freezing, frozen>>

\* The row and AccountOpened in one transaction.
CreateRow(a) ==
  /\ opening[a] = "mirrored"
  /\ CreateAccountRow(a)
  /\ opened' = opened \cup {a}
  /\ opening' = [opening EXCEPT ![a] = "done"]
  /\ UNCHANGED <<customers, mirror, staffOp, staffOps, balances, freezing, frozen>>

\* That transaction fails: the mirror stays behind without a row.
RowFails(a) ==
  /\ opening[a] = "mirrored"
  /\ opening' = [opening EXCEPT ![a] = "failed"]
  /\ UNCHANGED <<customers, mirror, opened, staffOp, staffOps, status, balances, freezing, frozen>>

-----------------------------------------------------------------------------
(* Freeze and Unfreeze *)

CanTransition(from, to) ==
  \/ from = "ACTIVE" /\ to \in {"FROZEN", "CLOSED"}
  \/ from = "FROZEN" /\ to \in {"ACTIVE", "CLOSED"}

\* setStatus reads the row; an unknown account, the status it has already and an
\* illegal transition end the call here.
ReadStatus(s, a, to) ==
  /\ staffOps < MaxStaffOps /\ staffOps' = staffOps + 1
  /\ staffOp[s] = Idle
  /\ \E row \in GetAccountByID(a) : row.status # to /\ CanTransition(row.status, to)
  /\ staffOp' = [staffOp EXCEPT ![s] = [at |-> "write", acct |-> a, to |-> to]]
  /\ UNCHANGED <<customers, opening, mirror, opened, status, balances, freezing, frozen>>

\* UpdateAccountStatus: whatever the status is by now.
WriteStatus(s) ==
  /\ staffOp[s] # Idle
  /\ UpdateAccountStatus(staffOp[s].acct, staffOp[s].to)
  /\ staffOp' = [staffOp EXCEPT ![s] = Idle]
  /\ UNCHANGED <<customers, opening, mirror, opened, staffOps, balances, freezing, frozen>>

-----------------------------------------------------------------------------
(* Reads *)

\* GetAccount: the status of the caller's own account, or any one for staff.
GetAccount(caller, a) ==
  LET rows == GetAccountByID(a)
      row == CHOOSE x \in rows : TRUE
  IN  IF rows = {} THEN "NOT_FOUND"
      ELSE IF caller \notin Staff /\ row.user # caller THEN "FORBIDDEN"
      ELSE row.status

\* ListAccounts: the accounts of a user with their projected balances; only staff
\* may name another user.
ListAccounts(caller, user) ==
  LET mine == ListAccountsByUser(user)
      projected == GetBalancesForAccounts(mine)
  IN  IF user # caller /\ caller \notin Staff THEN {}
      ELSE {[acct |-> a, shown |-> IF a \in projected THEN balances[a] ELSE NoBalance]
              : a \in mine}

-----------------------------------------------------------------------------
(* The consumer group *)

\* bootstrapCustomer.
BootstrapCustomer(user) ==
  /\ user \notin customers
  /\ UpsertCustomerRow(user)
  /\ UNCHANGED <<opening, mirror, opened, staffOp, staffOps, status, balances, freezing, frozen>>

\* Variant: the event that comes last wins.
UpsertBalanceBlind(a, new) == balances' = [balances EXCEPT ![a] = new]

\* UpsertBalanceGuarded: only a strictly newer version overwrites.
UpsertBalanceGuarded(a, new) ==
  balances' = [balances EXCEPT ![a] = IF @.version < new.version THEN new ELSE @]

\* applyProjection of TransactionPosted{balance_after, version}; the foreign key
\* asks for the account's row.
ApplyProjection(a, balance, version) ==
  /\ a \in Rows
  /\ UpsertBalanceGuarded(a, [balance |-> balance, version |-> version])
  /\ UNCHANGED <<registry, status, freezing, frozen>>

\* applyFreeze reads the status, without a lock.
FreezeRead(alert, a) ==
  /\ freezing = Idle
  /\ freezing' = [at |-> "write", alert |-> alert, acct |-> a, read |-> GetAccountStatus(a)]
  /\ UNCHANGED <<registry, status, balances, frozen>>

\* Variant: skips the accounts that are active.
FreezeWriteInverted ==
  /\ freezing # Idle
  /\ IF freezing.read = "FROZEN"
     THEN /\ UpdateAccountStatus(freezing.acct, "FROZEN")
          /\ frozen' = frozen \cup {freezing.alert}
     ELSE UNCHANGED <<status, frozen>>
  /\ freezing' = Idle
  /\ UNCHANGED <<registry, balances>>

\* It freezes an account it saw active and writes AccountFrozen, all in the
\* transaction of the dedup row; an unknown, frozen or closed one is skipped.
FreezeWrite ==
  /\ freezing # Idle
  /\ IF freezing.read = "ACTIVE"
     THEN /\ UpdateAccountStatus(freezing.acct, "FROZEN")
          /\ frozen' = frozen \cup {freezing.alert}
     ELSE UNCHANGED <<status, frozen>>
  /\ freezing' = Idle
  /\ UNCHANGED <<registry, balances>>

-----------------------------------------------------------------------------
(* Properties *)

\* Money can never move on an unmirrored account (OpenAccount asks the ledger
\* before the row is visible), whatever fails in between, and an account that is
\* visible has its customer and was announced.
RowIsMirrored ==
  \A a \in Rows :
    a \in mirror /\ a \in opened /\ Owner[a] \in customers
=============================================================================
