--------------------------- MODULE FraudLoopProofs --------------------------
(***************************************************************************)
(* Proofs about the fraud loop: the registry of accounts, the projection   *)
(* of balances, the statistics of the scorer and the notifier's feed, for  *)
(* any number of accounts, transfers, scorers, staff calls and faults.     *)
(* Each has its own invariant, and the steps of the loop disturb one of    *)
(* them at a time.                                                         *)
(***************************************************************************)
EXTENDS FraudLoop, SumTheorems, TLAPS

-----------------------------------------------------------------------------
(* The registry *)

Status == {"none", "ACTIVE", "FROZEN", "CLOSED"}
StaffOp == [at : {"write"}, acct : Accounts, to : {"ACTIVE", "FROZEN"}]

RegistryTypes ==
  /\ status \in [Accounts -> Status]
  /\ opening \in [Accounts -> {"no", "customer", "mirrored", "failed", "done"}]
  /\ staffOp \in [Staff -> {Idle} \cup StaffOp]

\* What OpenAccount has done by the time it is at each step.
OpensInOrder ==
  \A a \in Accounts :
    /\ opening[a] \in {"customer", "mirrored", "done"} => Owner[a] \in customers
    /\ opening[a] \in {"mirrored", "done"} => a \in mirror
    /\ a \in Rows => opening[a] = "done" /\ a \in opened

\* Whoever is about to write a status has seen the row.
WritersSawRows ==
  /\ \A s \in Staff : staffOp[s] # Idle => staffOp[s].acct \in Rows
  /\ freezing # Idle => freezing.acct = Acct /\ (freezing.read = "ACTIVE" => Acct \in Rows)

RegistryInv == RegistryTypes /\ OpensInOrder /\ WritersSawRows

\* The registry is empty at the start.
LEMMA RegistryStart == AccountsInit => RegistryInv
<1> SUFFICES ASSUME AccountsInit PROVE RegistryInv OBVIOUS
<1> USE DEF AccountsInit
<1>1. RegistryTypes BY DEF RegistryTypes, Status
<1>2. Rows = {} BY DEF Rows
<1>3. OpensInOrder BY <1>2 DEF OpensInOrder
<1>4. WritersSawRows BY DEF WritersSawRows
<1> QED BY <1>1, <1>3, <1>4 DEF RegistryInv

\* A step of OpenAccount: rows come in at its last one.
LEMMA OpeningKeeps ==
  ASSUME RegistryInv, NEW a \in Accounts,
         UpsertCustomer(a) \/ CreateMirror(a) \/ MirrorFails(a) \/ CreateRow(a) \/ RowFails(a)
  PROVE  RegistryInv'
<1> USE DEF RegistryInv
<1>1. RegistryTypes'
  BY DEF RegistryTypes, Status, UpsertCustomer, CreateMirror, MirrorFails, CreateRow, RowFails,
         CreateAccountRow
<1>2. Rows \subseteq Rows' /\ \A b \in Rows' : b \in Rows \/ (b = a /\ CreateRow(a))
  BY DEF RegistryTypes, Rows, UpsertCustomer, CreateMirror, MirrorFails, CreateRow, RowFails,
         CreateAccountRow
<1>3. customers \subseteq customers' /\ mirror \subseteq mirror' /\ opened \subseteq opened'
  BY DEF UpsertCustomer, CreateMirror, MirrorFails, CreateRow, RowFails, UpsertCustomerRow
<1>4. \A b \in Accounts \ {a} : opening'[b] = opening[b]
  BY DEF RegistryTypes, UpsertCustomer, CreateMirror, MirrorFails, CreateRow, RowFails
<1>5. /\ opening'[a] \in {"customer", "mirrored", "done"} => Owner[a] \in customers'
      /\ opening'[a] \in {"mirrored", "done"} => a \in mirror'
  BY DEF RegistryTypes, OpensInOrder, UpsertCustomer, CreateMirror, MirrorFails, CreateRow, RowFails,
         UpsertCustomerRow
<1>6. a \notin Rows
  <2>1. opening[a] # "done"
    BY DEF UpsertCustomer, CreateMirror, MirrorFails, CreateRow, RowFails
  <2> QED BY <2>1 DEF OpensInOrder
<1>7. CreateRow(a) => opening'[a] = "done" /\ a \in opened' BY DEF CreateRow, RegistryTypes
<1>8. OpensInOrder'
  <2> SUFFICES ASSUME NEW b \in Accounts
               PROVE  /\ opening'[b] \in {"customer", "mirrored", "done"} => Owner[b] \in customers'
                      /\ opening'[b] \in {"mirrored", "done"} => b \in mirror'
                      /\ b \in Rows' => opening'[b] = "done" /\ b \in opened'
    BY DEF OpensInOrder
  <2>1. CASE b = a BY <2>1, <1>2, <1>5, <1>6, <1>7
  <2>2. CASE b # a BY <2>2, <1>2, <1>3, <1>4 DEF OpensInOrder
  <2> QED BY <2>1, <2>2
<1>9. staffOp' = staffOp /\ freezing' = freezing
  BY DEF UpsertCustomer, CreateMirror, MirrorFails, CreateRow, RowFails
<1>10. WritersSawRows' BY <1>2, <1>9 DEF WritersSawRows
<1> QED BY <1>1, <1>8, <1>10

\* A status is written over a row that is there, and a row stays one.
LEMMA StatusKeeps ==
  ASSUME RegistryInv, UNCHANGED <<customers, opening, mirror, opened>>, RegistryTypes',
         Rows' = Rows, WritersSawRows'
  PROVE  RegistryInv'
BY DEF RegistryInv, OpensInOrder

\* setStatus reads the row.
LEMMA ReadStatusKeeps ==
  ASSUME RegistryInv, NEW s \in Staff, NEW a \in Accounts, NEW to \in {"ACTIVE", "FROZEN"},
         ReadStatus(s, a, to)
  PROVE  RegistryInv'
<1> DEFINE op == [at |-> "write", acct |-> a, to |-> to]
<1>1. /\ staffOp' = [staffOp EXCEPT ![s] = op] /\ status' = status /\ freezing' = freezing
      /\ UNCHANGED <<customers, opening, mirror, opened>>
  BY DEF ReadStatus
<1>2. GetAccountByID(a) # {} BY DEF ReadStatus
<1>3. a \in Rows BY <1>2 DEF GetAccountByID
<1>4. op \in StaffOp /\ op.acct = a BY DEF StaffOp
<1> HIDE DEF op
<1>5. RegistryTypes' BY <1>1, <1>4 DEF RegistryInv, RegistryTypes
<1>6. Rows' = Rows BY <1>1 DEF Rows
<1>7. WritersSawRows' BY <1>1, <1>3, <1>4, <1>6 DEF RegistryInv, RegistryTypes, WritersSawRows
<1> QED BY <1>1, <1>5, <1>6, <1>7, StatusKeeps

\* setStatus writes what it was asked for.
LEMMA WriteStatusKeeps ==
  ASSUME RegistryInv, NEW s \in Staff, WriteStatus(s)
  PROVE  RegistryInv'
<1> DEFINE op == staffOp[s]
<1>1. /\ staffOp' = [staffOp EXCEPT ![s] = Idle] /\ freezing' = freezing
      /\ status' = [status EXCEPT ![op.acct] = op.to] /\ op # Idle
      /\ UNCHANGED <<customers, opening, mirror, opened>>
  BY DEF WriteStatus, UpdateAccountStatus
<1>2. op \in StaffOp BY <1>1 DEF RegistryInv, RegistryTypes
<1>3. op.acct \in Rows BY <1>1 DEF RegistryInv, WritersSawRows
<1>4. op.to \in {"ACTIVE", "FROZEN"} /\ op.acct \in Accounts BY <1>2 DEF StaffOp
<1> HIDE DEF op
<1>5. RegistryTypes' BY <1>1, <1>4 DEF RegistryInv, RegistryTypes, Status
<1>6. Rows' = Rows BY <1>1, <1>3, <1>4 DEF RegistryInv, RegistryTypes, Rows
<1>7. WritersSawRows' BY <1>1, <1>6 DEF RegistryInv, RegistryTypes, WritersSawRows
<1> QED BY <1>1, <1>5, <1>6, <1>7, StatusKeeps

\* applyFreeze reads the status of the account of its alert.
LEMMA FreezeReadKeeps ==
  ASSUME RegistryInv, NEW x, FreezeRead(x, Acct)
  PROVE  RegistryInv'
<1> DEFINE f == [at |-> "write", alert |-> x, acct |-> Acct, read |-> status[Acct]]
<1>1. freezing' = f /\ status' = status /\ UNCHANGED registry
  BY DEF FreezeRead, GetAccountStatus
<1>2. f.acct = Acct /\ f.read = status[Acct] OBVIOUS
<1> HIDE DEF f
<1>3. Rows' = Rows BY <1>1 DEF Rows
<1>4. f.read = "ACTIVE" => Acct \in Rows BY <1>2, AcctAssumption DEF Rows
<1>5. RegistryTypes' BY <1>1 DEF RegistryInv, RegistryTypes, registry
<1>6. WritersSawRows' BY <1>1, <1>2, <1>3, <1>4 DEF RegistryInv, WritersSawRows, registry
<1> QED BY <1>1, <1>3, <1>5, <1>6, StatusKeeps DEF registry

\* applyFreeze freezes the account if it saw it active.
LEMMA FreezeWriteKeeps ==
  ASSUME RegistryInv, FreezeWrite
  PROVE  RegistryInv'
<1>1. /\ freezing # Idle /\ freezing' = Idle /\ UNCHANGED registry
      /\ \/ freezing.read = "ACTIVE" /\ status' = [status EXCEPT ![freezing.acct] = "FROZEN"]
         \/ status' = status
  BY DEF FreezeWrite, UpdateAccountStatus
<1>2. freezing.acct = Acct /\ (freezing.read = "ACTIVE" => Acct \in Rows)
  BY <1>1 DEF RegistryInv, WritersSawRows
<1>3. status \in [Accounts -> Status] BY DEF RegistryInv, RegistryTypes
<1>4. status' \in [Accounts -> Status] BY <1>1, <1>2, <1>3 DEF Status
<1>5. Rows' = Rows
  <2>1. CASE status' = status BY <2>1 DEF Rows
  <2>2. CASE freezing.read = "ACTIVE" /\ status' = [status EXCEPT ![Acct] = "FROZEN"]
    BY <2>2, <1>2, <1>3, AcctAssumption DEF Rows
  <2> QED BY <2>1, <2>2, <1>1, <1>2
<1>6. RegistryTypes' BY <1>1, <1>4 DEF RegistryInv, RegistryTypes, registry
<1>7. WritersSawRows' BY <1>1, <1>5 DEF RegistryInv, WritersSawRows, registry
<1> QED BY <1>1, <1>5, <1>6, <1>7, StatusKeeps DEF registry

\* Other steps leave the registry alone.
LEMMA RegistryRests ==
  ASSUME RegistryInv, UNCHANGED <<registry, status, freezing>>
  PROVE  RegistryInv'
BY DEF RegistryInv, RegistryTypes, OpensInOrder, WritersSawRows, Rows, registry

\* Every step of the loop keeps the registry's invariant.
LEMMA RegistryKeeps == RegistryInv /\ [Next]_vars => RegistryInv'
<1> SUFFICES ASSUME RegistryInv, [Next]_vars PROVE RegistryInv' OBVIOUS
<1>1. CASE RegistryStep
  <2>1. ASSUME NEW u \in Users, BootstrapCustomer(u) PROVE RegistryInv'
    <3>1. customers \subseteq customers' BY <2>1 DEF BootstrapCustomer, UpsertCustomerRow
    <3> QED BY <2>1, <3>1
            DEF BootstrapCustomer, RegistryInv, RegistryTypes, OpensInOrder, WritersSawRows, Rows
  <2> QED BY <1>1, <2>1, OpeningKeeps, ReadStatusKeeps, WriteStatusKeeps DEF RegistryStep
<1>2. CASE AlertStep BY <1>2, FreezeReadKeeps, FreezeWriteKeeps DEF AlertStep
<1>3. CASE \/ \E t \in Transfers : Validate(t) \/ Complete(t) \/ Project(t)
           \/ ScoreStep \/ NotifyStep \/ UNCHANGED vars
  <2>1. UNCHANGED <<registry, status, freezing>>
    BY <1>3 DEF Validate, Complete, Project, ApplyProjection, ScoreStep, NotifyStep, vars, avars
  <2> QED BY <2>1, RegistryRests
<1> QED BY <1>1, <1>2, <1>3 DEF Next, Step

\* The invariant of the registry.
LEMMA RegistryInvariant == Spec => []RegistryInv
<1>1. Init => RegistryInv BY RegistryStart DEF Init
<1> QED BY <1>1, RegistryKeeps, PTL DEF Spec

\* However OpenAccount, its failures, staff and the freeze consumer interleave, an account
\* that is visible exists in the ledger, was announced and has its customer.
THEOREM RowIsMirroredHolds == Spec => []RowIsMirrored
<1>1. RegistryInv => RowIsMirrored BY DEF RegistryInv, OpensInOrder, RowIsMirrored, Rows
<1> QED BY <1>1, RegistryInvariant, PTL

-----------------------------------------------------------------------------
(* The feed *)

\* The notice in hand has no row yet.
FeedInv ==
  /\ feed \in [Notices -> {"none", "sent", "failed"}]
  /\ sends \in [Notices -> Nat] /\ undone \in [Notices -> Nat]
  /\ notifying = NoNotice \/ notifying \in [notice : Notices, status : {"sent", "failed"}]
  /\ notifying # NoNotice => feed[notifying.notice] = "none"
  /\ FeedIsTrue

\* The feed is empty at the start.
LEMMA FeedStart == NotificationInit => FeedInv
<1> SUFFICES ASSUME NotificationInit PROVE FeedInv OBVIOUS
<1>1. NoNotice.status = "none" BY DEF NoNotice
<1> QED BY <1>1 DEF NotificationInit, FeedInv, FeedIsTrue, Sending

\* The message goes out.
LEMMA SendKeeps ==
  ASSUME FeedInv, NEW n \in Notices, Send(n) PROVE FeedInv'
<1> DEFINE r == [notice |-> n, status |-> "sent"]
<1>1. /\ notifying = NoNotice /\ sends' = [sends EXCEPT ![n] = @ + 1] /\ notifying' = r
      /\ feed' = feed /\ undone' = undone /\ feed[n] = "none"
  BY DEF Send
<1>2. /\ r \in [notice : Notices, status : {"sent", "failed"}] /\ r.status = "sent" /\ r.notice = n
  OBVIOUS
<1> HIDE DEF r
<1>3. NoNotice.status = "none" BY DEF NoNotice
<1>4. sends[n] \in Nat /\ undone[n] \in Nat /\ sends[n] = undone[n]
  BY <1>1, <1>3 DEF FeedInv, FeedIsTrue, Sending
<1>5. sends' \in [Notices -> Nat] BY <1>1, <1>4 DEF FeedInv
<1>6. \A m \in Notices : sends'[m] = IF m = n THEN sends[n] + 1 ELSE sends[m]
  BY <1>1 DEF FeedInv
<1>7. FeedIsTrue' BY <1>1, <1>2, <1>3, <1>4, <1>6 DEF FeedInv, FeedIsTrue, Sending
<1> QED BY <1>1, <1>2, <1>5, <1>7 DEF FeedInv

\* The message does not go out.
LEMMA SendFailsKeeps ==
  ASSUME FeedInv, NEW n \in Notices, SendFails(n) PROVE FeedInv'
<1> DEFINE r == [notice |-> n, status |-> "failed"]
<1>1. /\ notifying = NoNotice /\ notifying' = r /\ feed[n] = "none"
      /\ feed' = feed /\ sends' = sends /\ undone' = undone
  BY DEF SendFails
<1>2. r \in [notice : Notices, status : {"sent", "failed"}] /\ r.status = "failed" /\ r.notice = n
  OBVIOUS
<1> HIDE DEF r
<1>3. NoNotice.status = "none" BY DEF NoNotice
<1>4. FeedIsTrue' BY <1>1, <1>2, <1>3 DEF FeedInv, FeedIsTrue, Sending
<1> QED BY <1>1, <1>2, <1>4 DEF FeedInv

\* The row of the message in hand commits.
LEMMA CommitKeeps ==
  ASSUME FeedInv, NotifyCommit PROVE FeedInv'
<1> DEFINE n == notifying.notice
           st == notifying.status
<1>1. /\ notifying # NoNotice /\ notifying' = NoNotice /\ feed' = [feed EXCEPT ![n] = st]
      /\ sends' = sends /\ undone' = undone
  BY DEF NotifyCommit
<1>2. n \in Notices /\ st \in {"sent", "failed"} /\ feed[n] = "none" BY <1>1 DEF FeedInv
<1>3. NoNotice.status = "none" BY DEF NoNotice
<1>4. \A m \in Notices : feed'[m] = IF m = n THEN st ELSE feed[m] BY <1>1 DEF FeedInv
<1>5. feed' \in [Notices -> {"none", "sent", "failed"}] BY <1>1, <1>2 DEF FeedInv
<1>6. \A m \in Notices : Sending(m) <=> st = "sent" /\ m = n BY DEF Sending
<1>7. \A m \in Notices : ~Sending(m)' BY <1>1, <1>3 DEF Sending
<1> HIDE DEF n, st
<1>8. FeedIsTrue' BY <1>1, <1>2, <1>4, <1>6, <1>7 DEF FeedInv, FeedIsTrue
<1> QED BY <1>1, <1>5, <1>8 DEF FeedInv

\* The transaction rolls back: a send stays, and counts as undone.
LEMMA AbortKeeps ==
  ASSUME FeedInv, NotifyAbort PROVE FeedInv'
<1> DEFINE n == notifying.notice
           st == notifying.status
<1>1. /\ notifying # NoNotice /\ notifying' = NoNotice /\ feed' = feed /\ sends' = sends
      /\ undone' = IF st = "failed" THEN undone ELSE [undone EXCEPT ![n] = @ + 1]
  BY DEF NotifyAbort
<1>2. n \in Notices /\ st \in {"sent", "failed"} /\ feed[n] = "none" BY <1>1 DEF FeedInv
<1>3. NoNotice.status = "none" BY DEF NoNotice
<1>4. \A m \in Notices : Sending(m) <=> st = "sent" /\ m = n BY DEF Sending
<1>5. \A m \in Notices : ~Sending(m)' BY <1>1, <1>3 DEF Sending
<1> HIDE DEF n, st
<1>6. undone' \in [Notices -> Nat] BY <1>1, <1>2 DEF FeedInv
<1>7. \A m \in Notices : undone'[m] = IF m = n /\ st = "sent" THEN undone[m] + 1 ELSE undone[m]
  BY <1>1, <1>2 DEF FeedInv
<1>8. FeedIsTrue' BY <1>1, <1>2, <1>4, <1>5, <1>7 DEF FeedInv, FeedIsTrue
<1> QED BY <1>1, <1>6, <1>8 DEF FeedInv

\* Every step of the loop keeps the notifier's invariant.
LEMMA FeedKeeps == FeedInv /\ [Next]_vars => FeedInv'
<1> SUFFICES ASSUME FeedInv, [Next]_vars PROVE FeedInv' OBVIOUS
<1>1. CASE NotifyStep
  BY <1>1, SendKeeps, SendFailsKeeps, CommitKeeps, AbortKeeps DEF NotifyStep
<1>2. CASE \/ \E t \in Transfers : Validate(t) \/ Complete(t) \/ Project(t)
           \/ ScoreStep \/ RegistryStep \/ AlertStep \/ UNCHANGED vars
  <2>1. UNCHANGED nvars
    BY <1>2 DEF Validate, Complete, Project, ScoreStep, RegistryStep, AlertStep, vars
  <2> QED BY <2>1 DEF FeedInv, FeedIsTrue, Sending, nvars
<1> QED BY <1>1, <1>2 DEF Next, Step

\* Every delivery of a message is told by its row, unless its attempt is in hand or
\* rolled back, although the send is no part of the transaction that writes the row
\* (Notifier.Handle).
THEOREM FeedIsTrueHolds == Spec => []FeedIsTrue
<1>1. Init => FeedInv BY FeedStart DEF Init
<1>2. FeedInv => FeedIsTrue BY DEF FeedInv
<1> QED BY <1>1, <1>2, FeedKeeps, PTL DEF Spec

-----------------------------------------------------------------------------
(* The projection *)

Shown == [balance : Int, version : Nat]
After(t) == [balance |-> history[version[t]], version |-> version[t]]

ProjectionTypes ==
  /\ xfer \in [Transfers -> {"new", "validated", "completed", "failed"}]
  /\ history \in Seq(Int)
  /\ version \in [Transfers -> Nat]
  /\ balances \in [Accounts -> Shown]

\* The versions are those of the postings, one for each completed transfer.
VersionsArePostings ==
  /\ \A t \in Completed : version[t] \in 1..Len(history)
  /\ \A i \in 1..Len(history) : \E t \in Completed : version[t] = i

\* The projection has the newest of the postings it was told of.
NewestIsShown ==
  /\ projected \subseteq Completed
  /\ \A t \in projected : version[t] <= balances[Acct].version
  /\ projected = {} => balances[Acct] = NoBalance
  /\ projected # {} => \E t \in projected : balances[Acct] = After(t)

ProjectionInv == ProjectionTypes /\ VersionsArePostings /\ NewestIsShown

\* Nothing is posted at the start.
LEMMA ProjectionStart == Init => ProjectionInv
<1> SUFFICES ASSUME Init PROVE ProjectionInv OBVIOUS
<1> USE DEF Init, AccountsInit
<1>1. NoBalance \in Shown BY DEF NoBalance, Shown
<1>2. <<>> \in Seq(Int) /\ Len(<<>>) = 0 /\ 1..0 = {} OBVIOUS
<1>3. ProjectionTypes BY <1>1, <1>2 DEF ProjectionTypes
<1>4. Completed = {} BY DEF Completed
<1>5. VersionsArePostings BY <1>2, <1>4 DEF VersionsArePostings
<1>6. NewestIsShown BY AcctAssumption DEF NewestIsShown
<1> QED BY <1>3, <1>5, <1>6 DEF ProjectionInv

\* The ledger posts: the new version is above all others, and what was posted stays.
LEMMA CompleteKeeps ==
  ASSUME ProjectionInv, NEW t \in Transfers, Complete(t) PROVE ProjectionInv'
<1> USE DEF ProjectionInv
<1> DEFINE n == Len(history)
           b == IF Kind[t] = "topup" THEN Balance + Amount[t] ELSE Balance - Amount[t]
<1>1. /\ xfer[t] = "validated" /\ history' = Append(history, b)
      /\ version' = [version EXCEPT ![t] = n + 1] /\ xfer' = [xfer EXCEPT ![t] = "completed"]
      /\ balances' = balances /\ projected' = projected
  BY DEF Complete, avars
<1>2. ProjectionTypes /\ n \in Nat BY DEF ProjectionTypes
<1>3. b \in Int
  <2>1. Amount[t] \in Int BY AntifraudAssumption
  <2>2. Balance \in Int
    <3>1. CASE history = <<>> BY <3>1 DEF Balance
    <3>2. CASE history # <<>>
      <4>1. n \in 1..n BY <3>2, <1>2 DEF ProjectionTypes
      <4>2. history[n] \in Int BY <4>1, <1>2 DEF ProjectionTypes
      <4> QED BY <4>2, <3>2 DEF Balance
    <3> QED BY <3>1, <3>2
  <2> HIDE DEF Balance
  <2> QED BY <2>1, <2>2
<1> HIDE DEF b
<1>4. /\ history' \in Seq(Int) /\ Len(history') = n + 1
      /\ \A i \in 1..n : history'[i] = history[i]
  BY <1>1, <1>2, <1>3 DEF ProjectionTypes
<1> HIDE DEF n
<1>5. ProjectionTypes' BY <1>1, <1>2, <1>4 DEF ProjectionTypes
<1>6. Completed' = Completed \cup {t} /\ t \notin Completed BY <1>1, <1>2 DEF ProjectionTypes, Completed
<1>7. /\ version'[t] = n + 1
      /\ \A u \in Completed : u \in Transfers /\ version'[u] = version[u] /\ version[u] \in 1..n
  BY <1>1, <1>2, <1>6 DEF ProjectionTypes, Completed, VersionsArePostings, n
<1>8. VersionsArePostings'
  <2>1. /\ \A i \in 1..(n + 1) : i \in 1..n \/ i = n + 1
        /\ \A i \in 1..n : i \in 1..(n + 1)
        /\ n + 1 \in 1..(n + 1)
    BY <1>2
  <2>2. \A u \in Completed' : version'[u] \in 1..(n + 1) BY <2>1, <1>6, <1>7
  <2>3. ASSUME NEW i \in 1..(n + 1) PROVE \E u \in Completed' : version'[u] = i
    <3>1. CASE i = n + 1 BY <3>1, <1>6, <1>7
    <3>2. CASE i \in 1..n
      <4>1. PICK u \in Completed : version[u] = i BY <3>2 DEF VersionsArePostings, n
      <4> QED BY <4>1, <1>6, <1>7
    <3> QED BY <3>1, <3>2, <2>1
  <2> QED BY <2>2, <2>3, <1>4 DEF VersionsArePostings
<1>9. NewestIsShown'
  <2>1. \A u \in projected : version'[u] = version[u] /\ After(u)' = After(u)
    BY <1>4, <1>7 DEF NewestIsShown, After
  <2>2. projected' \subseteq Completed' BY <1>1, <1>6 DEF NewestIsShown
  <2>3. \A u \in projected' : version'[u] <= balances'[Acct].version
    BY <2>1, <1>1 DEF NewestIsShown
  <2>4. projected' = {} => balances'[Acct] = NoBalance BY <1>1 DEF NewestIsShown
  <2>5. ASSUME projected' # {} PROVE \E u \in projected' : balances'[Acct] = After(u)'
    <3>1. PICK u \in projected : balances[Acct] = After(u) BY <2>5, <1>1 DEF NewestIsShown
    <3> QED BY <3>1, <2>1, <1>1
  <2> QED BY <2>2, <2>3, <2>4, <2>5 DEF NewestIsShown
<1> QED BY <1>5, <1>8, <1>9

\* TransactionPosted arrives: only a newer version is taken over.
LEMMA ProjectKeeps ==
  ASSUME ProjectionInv, NEW t \in Transfers, Project(t) PROVE ProjectionInv'
<1> USE DEF ProjectionInv
<1> DEFINE new == [balance |-> history[version[t]], version |-> version[t]]
           old == balances[Acct]
<1>1. /\ t \in Completed /\ projected' = projected \cup {t}
      /\ balances' = [balances EXCEPT ![Acct] = IF old.version < new.version THEN new ELSE old]
      /\ xfer' = xfer /\ history' = history /\ version' = version
  BY DEF Project, ApplyProjection, UpsertBalanceGuarded
<1>2. ProjectionTypes /\ Acct \in Accounts BY AcctAssumption
<1>3. version[t] \in 1..Len(history) /\ Len(history) \in Nat
  BY <1>1, <1>2 DEF VersionsArePostings, ProjectionTypes
<1>4. history[version[t]] \in Int /\ version[t] \in Nat /\ version[t] >= 1
  BY <1>2, <1>3 DEF ProjectionTypes
<1>5. new \in Shown /\ new.version = version[t] /\ new = After(t) BY <1>4 DEF Shown, After
<1>6. old \in Shown /\ old.version \in Nat BY <1>2 DEF ProjectionTypes, Shown
<1>7. NoBalance.version = 0 BY DEF NoBalance
<1> HIDE DEF new, old
<1>8. ProjectionTypes' BY <1>1, <1>2, <1>5, <1>6 DEF ProjectionTypes
<1>9. Completed' = Completed /\ \A u : After(u)' = After(u) BY <1>1 DEF Completed, After
<1>10. VersionsArePostings' BY <1>1, <1>9 DEF VersionsArePostings
<1>11. balances'[Acct] = IF old.version < new.version THEN new ELSE old
  BY <1>1, <1>2 DEF ProjectionTypes
<1>12. \A u \in projected : version[u] <= old.version /\ version[u] \in Nat
  BY <1>2 DEF NewestIsShown, ProjectionTypes, Completed, old
<1>13. NewestIsShown'
  <2>1. projected' \subseteq Completed' BY <1>1, <1>9 DEF NewestIsShown
  <2>2. CASE old.version < new.version
    <3>1. balances'[Acct] = new BY <2>2, <1>11
    <3>2. \A u \in projected : version[u] <= new.version BY <2>2, <1>4, <1>5, <1>6, <1>12
    <3>3. version[t] <= new.version BY <1>4, <1>5
    <3> QED BY <2>1, <3>1, <3>2, <3>3, <1>1, <1>5, <1>9 DEF NewestIsShown
  <2>3. CASE ~(old.version < new.version)
    <3>1. balances'[Acct] = old BY <2>3, <1>11
    <3>2. version[t] <= old.version /\ old.version # 0 BY <2>3, <1>4, <1>5, <1>6
    <3>3. projected # {} BY <3>2, <1>7 DEF NewestIsShown, old
    <3>4. PICK u \in projected : old = After(u) BY <3>3 DEF NewestIsShown, old
    <3> QED BY <2>1, <3>1, <3>2, <3>4, <1>1, <1>9, <1>12 DEF NewestIsShown
  <2> QED BY <2>2, <2>3
<1> QED BY <1>8, <1>10, <1>13

\* Every step of the loop keeps the projection's invariant.
LEMMA ProjectionKeeps == ProjectionInv /\ [Next]_vars => ProjectionInv'
<1> SUFFICES ASSUME ProjectionInv, [Next]_vars PROVE ProjectionInv' OBVIOUS
<1>1. ASSUME balances' = balances, projected' = projected, history' = history, version' = version,
             Completed' = Completed, xfer' \in [Transfers -> {"new", "validated", "completed", "failed"}]
      PROVE  ProjectionInv'
  BY <1>1 DEF ProjectionInv, ProjectionTypes, VersionsArePostings, NewestIsShown, After
<1>2. ASSUME NEW t \in Transfers, Validate(t) PROVE ProjectionInv'
  <2>1. /\ xfer[t] = "new" /\ balances' = balances /\ projected' = projected
        /\ history' = history /\ version' = version
        /\ \E s \in {"validated", "failed"} : xfer' = [xfer EXCEPT ![t] = s]
    BY <1>2 DEF Validate, avars
  <2>2. xfer \in [Transfers -> {"new", "validated", "completed", "failed"}]
    BY DEF ProjectionInv, ProjectionTypes
  <2>3. Completed' = Completed BY <2>1, <2>2 DEF Completed
  <2>4. xfer' \in [Transfers -> {"new", "validated", "completed", "failed"}] BY <2>1, <2>2
  <2> QED BY <2>1, <2>3, <2>4, <1>1
<1>3. CASE RegistryStep \/ ScoreStep \/ AlertStep \/ NotifyStep \/ UNCHANGED vars
  <2>1. balances' = balances
    BY <1>3 DEF RegistryStep, ScoreStep, AlertStep, NotifyStep, vars, avars, UpsertCustomer, CreateMirror,
                MirrorFails, CreateRow, RowFails, BootstrapCustomer, ReadStatus, WriteStatus, FreezeRead,
                FreezeWrite
  <2>2. projected' = projected /\ history' = history /\ version' = version /\ xfer' = xfer
    BY <1>3 DEF RegistryStep, ScoreStep, AlertStep, NotifyStep, vars, lvars
  <2>3. Completed' = Completed BY <2>2 DEF Completed
  <2> QED BY <2>1, <2>2, <2>3, <1>1 DEF ProjectionInv, ProjectionTypes
<1> QED BY <1>2, <1>3, CompleteKeeps, ProjectKeeps DEF Next, Step

\* What the reads answer about Acct, in terms of its row.
LEMMA ReadsAre ==
  ASSUME RegistryInv, NEW caller
  PROVE  LET may == Acct \in Rows /\ (caller = Owner[Acct] \/ caller \in Staff)
             list == {x \in ListAccounts(caller, Owner[Acct]) : x.acct = Acct}
         IN  /\ GetBalances(caller) = IF may THEN {Balance} ELSE {}
             /\ list # {} <=> may
             /\ \A x \in list : x.shown = balances[Acct]
<1> DEFINE may == Acct \in Rows /\ (caller = Owner[Acct] \/ caller \in Staff)
           list == {x \in ListAccounts(caller, Owner[Acct]) : x.acct = Acct}
           row == [status |-> status[Acct], user |-> Owner[Acct]]
<1>1. GetAccountByID(Acct) = IF Acct \in Rows THEN {row} ELSE {} BY DEF GetAccountByID
<1>2. row.status = status[Acct] /\ row.user = Owner[Acct] OBVIOUS
<1>3. (CHOOSE x \in {row} : TRUE) = row OBVIOUS
<1>4. status[Acct] \notin {"NOT_FOUND", "FORBIDDEN"}
  BY AcctAssumption DEF RegistryInv, RegistryTypes, Status
<1> HIDE DEF row
<1>5. GetAccount(caller, Acct) \in {"NOT_FOUND", "FORBIDDEN"} <=> ~may
  <2>1. CASE Acct \notin Rows BY <2>1, <1>1 DEF GetAccount
  <2>2. CASE Acct \in Rows
    <3>1. GetAccount(caller, Acct) = IF caller \notin Staff /\ Owner[Acct] # caller THEN "FORBIDDEN"
                                     ELSE status[Acct]
      BY <2>2, <1>1, <1>2, <1>3 DEF GetAccount
    <3> QED BY <3>1, <2>2, <1>4
  <2> QED BY <2>1, <2>2
<1>6. GetBalances(caller) = IF may THEN {Balance} ELSE {} BY <1>5 DEF GetBalances
<1> DEFINE mine == ListAccountsByUser(Owner[Acct])
           shown(a) == IF a \in GetBalancesForAccounts(mine) THEN balances[a] ELSE NoBalance
           of(a) == [acct |-> a, shown |-> shown(a)]
<1>7. ListAccounts(caller, Owner[Acct]) =
        IF Owner[Acct] # caller /\ caller \notin Staff THEN {} ELSE {of(a) : a \in mine}
  BY DEF ListAccounts
<1>8. Acct \in mine <=> Acct \in Rows BY DEF ListAccountsByUser
<1>9. Acct \in mine => shown(Acct) = balances[Acct] BY DEF GetBalancesForAccounts
<1> HIDE DEF mine, shown
<1>10. \A a : of(a).acct = a /\ of(a).shown = shown(a) OBVIOUS
<1> HIDE DEF of
<1>11. list # {} <=> may
  <2>1. ASSUME NEW x \in list PROVE may BY <2>1, <1>7, <1>8, <1>10
  <2>2. ASSUME may PROVE of(Acct) \in list BY <2>2, <1>7, <1>8, <1>10
  <2> QED BY <2>1, <2>2
<1>12. ASSUME NEW x \in list PROVE x.shown = balances[Acct]
  <2>1. PICK a \in mine : x = of(a) BY <1>12, <1>7
  <2>2. a = Acct BY <2>1, <1>10, <1>12
  <2> QED BY <2>1, <2>2, <1>9, <1>10
<1> QED BY <1>6, <1>11, <1>12

\* Whatever the order of delivery, ListAccounts shows the newest balance delivered, one the
\* account really had; once everything is delivered it agrees with the ledger, and both reads
\* are open to the same callers (UpsertBalanceGuarded, ListAccounts, GetBalances).
THEOREM ProjectionIsTrueHolds == Spec => []ProjectionIsTrue
<1>1. Init => ProjectionInv BY ProjectionStart
<1>2. RegistryInv /\ ProjectionInv => ProjectionIsTrue
  <2> SUFFICES ASSUME RegistryInv, ProjectionInv, NEW caller \in Users \cup Staff \cup {"stranger"}
               PROVE  LET list == {x \in ListAccounts(caller, Owner[Acct]) : x.acct = Acct}
                      IN  /\ list # {} <=> GetBalances(caller) # {}
                          /\ \A x \in list :
                               /\ \A t \in projected : version[t] <= x.shown.version
                               /\ projected = {} => x.shown = NoBalance
                               /\ projected # {} => \E t \in projected :
                                    x.shown = [balance |-> history[version[t]], version |-> version[t]]
                               /\ projected = Completed => GetBalances(caller) = {x.shown.balance}
    BY DEF ProjectionIsTrue
  <2> DEFINE may == Acct \in Rows /\ (caller = Owner[Acct] \/ caller \in Staff)
             list == {x \in ListAccounts(caller, Owner[Acct]) : x.acct = Acct}
  <2>1. /\ GetBalances(caller) = IF may THEN {Balance} ELSE {}
        /\ list # {} <=> may
        /\ \A x \in list : x.shown = balances[Acct]
    BY ReadsAre
  <2> HIDE DEF may, list
  <2>2. projected = Completed => Balance = balances[Acct].balance
    <3>1. history \in Seq(Int) /\ Len(history) \in Nat BY DEF ProjectionInv, ProjectionTypes
    <3>2. CASE history = <<>>
      <4>1. 1..Len(history) = {} BY <3>2
      <4>2. Completed = {} BY <4>1 DEF ProjectionInv, VersionsArePostings
      <4>3. projected = Completed => balances[Acct] = NoBalance
        BY <4>2 DEF ProjectionInv, NewestIsShown
      <4> QED BY <4>3, <3>2 DEF Balance, NoBalance
    <3>3. CASE history # <<>> /\ projected = Completed
      <4> DEFINE n == Len(history)
      <4>1. n \in 1..n BY <3>1, <3>3
      <4>2. PICK u \in Completed : version[u] = n BY <4>1 DEF ProjectionInv, VersionsArePostings
      <4>3. PICK t \in Completed : balances[Acct] = After(t)
        BY <4>2, <3>3 DEF ProjectionInv, NewestIsShown
      <4>4. balances[Acct].version = version[t] /\ balances[Acct].balance = history[version[t]]
        BY <4>3 DEF After
      <4>5. n <= version[t] BY <4>2, <4>4, <3>3 DEF ProjectionInv, NewestIsShown
      <4>6. version[t] \in 1..n BY <4>3 DEF ProjectionInv, VersionsArePostings
      <4>7. version[t] = n BY <4>5, <4>6, <3>1
      <4> QED BY <4>4, <4>7, <3>3 DEF Balance
    <3> QED BY <3>2, <3>3
  <2>3. ASSUME NEW x \in list
        PROVE  /\ \A t \in projected : version[t] <= x.shown.version
               /\ projected = {} => x.shown = NoBalance
               /\ projected # {} => \E t \in projected :
                    x.shown = [balance |-> history[version[t]], version |-> version[t]]
               /\ projected = Completed => GetBalances(caller) = {x.shown.balance}
    <3>1. x.shown = balances[Acct] /\ GetBalances(caller) = {Balance} BY <2>1, <2>3
    <3>2. NewestIsShown BY DEF ProjectionInv
    <3> QED BY <3>1, <3>2, <2>2 DEF NewestIsShown, After
  <2>4. list # {} <=> GetBalances(caller) # {} BY <2>1
  <2> QED BY <2>3, <2>4 DEF list
<1> QED BY <1>1, <1>2, ProjectionKeeps, RegistryInvariant, PTL DEF Spec

-----------------------------------------------------------------------------
(* The statistics *)

StatsRow == [day : Nat \cup {-1}, sum : Int, start : Int, count : Int]

\* What the spending transfers among S amount to on a day.
Spends(S, day) == {t \in S : Kind[t] # "topup" /\ DateOf(At[t]) = day}
SpentOn(S, day) == SumFunctionOnSet(Amount, Spends(S, day))

ScoringTypes ==
  /\ stats \in StatsRow
  /\ scoring \in [Transfers -> {Nothing} \cup StatsRow]
  /\ scored \subseteq Transfers /\ IsFiniteSet(scored)
  /\ skewed \in BOOLEAN

\* What is being scored was not scored before.
ScoredOnce == \A t \in InHand : t \notin scored /\ Kind[t] # "topup"

\* No statistics, current or read earlier, count money twice.
NeverTooHigh ==
  /\ stats.sum <= SpentOn(scored, stats.day)
  /\ \A t \in InHand : scoring[t].sum <= SpentOn(scored, scoring[t].day)

DailyRules == {r \in loadRules : r.kind = "daily_out_sum"}

AlertsAreDue ==
  \A u \in Transfers, r \in DailyRules :
    <<u, r>> \in alerts => SpentOn(scored, DateOf(At[u])) > r.limit

\* Events came in order and one at a time so far: the statistics are of the last day that
\* saw spending, and a transfer in hand is the only one and the latest.
InOrderSoFar ==
  /\ stats.sum = SpentOn(scored, stats.day)
  /\ \A u \in Spending : DateOf(At[u]) <= stats.day
  /\ stats.day = -1 \/ \E u \in Spending : DateOf(At[u]) = stats.day
  /\ \A t \in InHand : /\ InHand = {t} /\ scoring[t] = stats
                       /\ \A u \in Spending : At[u] <= At[t]

NoAlertMissed ==
  \A t \in Spending, r \in DailyRules :
    SpentOn(scored, DateOf(At[t])) > r.limit =>
      \E u \in Spending : DateOf(At[u]) = DateOf(At[t]) /\ <<u, r>> \in alerts

ScoringInv ==
  /\ ScoringTypes /\ ScoredOnce /\ NeverTooHigh /\ AlertsAreDue
  /\ ~skewed => InOrderSoFar /\ NoAlertMissed

\* Dates are naturals and follow the times.
LEMMA Dates ==
  /\ \A t \in Transfers : At[t] \in Nat /\ DateOf(At[t]) \in Nat
  /\ \A t, u \in Transfers : At[t] <= At[u] => DateOf(At[t]) <= DateOf(At[u])
<1>1. Day \in Nat \ {0} /\ \A t \in Transfers : At[t] \in Nat BY AntifraudAssumption
<1>2. ASSUME NEW D \in Nat \ {0}, NEW a \in Nat PROVE a \div D \in Nat OBVIOUS
<1>3. ASSUME NEW D \in Nat \ {0}, NEW a \in Nat, NEW b \in Nat, a <= b PROVE a \div D <= b \div D
  BY <1>3
<1>4. \A a \in Nat : a \div Day \in Nat BY <1>1, <1>2
<1>5. \A a, b \in Nat : a <= b => a \div Day <= b \div Day BY <1>1, <1>3
<1> QED BY <1>1, <1>4, <1>5 DEF DateOf

\* The spending of a day is a natural number, and none before the first transfer.
LEMMA SpentType ==
  ASSUME NEW S \in SUBSET Transfers, IsFiniteSet(S)
  PROVE  /\ \A day : SpentOn(S, day) \in Nat
         /\ SpentOn(S, -1) = 0
<1>1. \A x \in Transfers : Amount[x] \in Nat /\ Amount[x] \in Int BY AntifraudAssumption
<1>2. ASSUME NEW day PROVE SpentOn(S, day) \in Nat
  <2> DEFINE T == Spends(S, day)
  <2>1. T \subseteq S BY DEF Spends
  <2>2. IsFiniteSet(T) BY <2>1, FS_Subset
  <2>3. Summable(Amount, T) BY <2>1, <2>2, <1>1 DEF Summable
  <2>4. \A x \in T : Amount[x] >= 0 BY <2>1, <1>1
  <2> HIDE DEF T
  <2>5. SumFunctionOnSet(Amount, T) \in Int BY <2>3, SumType
  <2>6. 0 <= SumFunctionOnSet(Amount, T) BY <2>3, <2>4, SumMonotone
  <2>7. SumFunctionOnSet(Amount, T) \in Nat BY <2>5, <2>6
  <2> QED BY <2>7 DEF SpentOn, T
<1>3. SpentOn(S, -1) = 0
  <2>1. \A t \in S : DateOf(At[t]) \in Nat BY Dates
  <2>2. \A t \in S : DateOf(At[t]) # -1 BY <2>1
  <2>3. Spends(S, -1) = {} BY <2>2 DEF Spends
  <2> QED BY <2>3, SumEmpty DEF SpentOn
<1> QED BY <1>2, <1>3

\* One more transfer is scored.
LEMMA SpentGrows ==
  ASSUME NEW S \in SUBSET Transfers, IsFiniteSet(S), NEW t \in Transfers, t \notin S
  PROVE  /\ IsFiniteSet(S \cup {t})
         /\ \A day : SpentOn(S \cup {t}, day) =
              IF Kind[t] # "topup" /\ DateOf(At[t]) = day THEN SpentOn(S, day) + Amount[t]
                                                          ELSE SpentOn(S, day)
<1>1. IsFiniteSet(S \cup {t}) BY FS_AddElement
<1>2. ASSUME NEW day, Kind[t] # "topup" /\ DateOf(At[t]) = day
      PROVE  SpentOn(S \cup {t}, day) = SpentOn(S, day) + Amount[t]
  <2> DEFINE T == Spends(S, day)
  <2>1. Spends(S \cup {t}, day) = T \cup {t} /\ t \notin T BY <1>2 DEF Spends
  <2>2. T \cup {t} \subseteq S \cup {t} BY DEF Spends
  <2>3. IsFiniteSet(T \cup {t}) BY <2>2, <1>1, FS_Subset
  <2>4. \A x \in T \cup {t} : Amount[x] \in Int BY <2>2, AntifraudAssumption
  <2>5. Summable(Amount, T \cup {t}) BY <2>3, <2>4 DEF Summable
  <2>6. t \notin T BY <2>1
  <2> HIDE DEF T
  <2>7. SumFunctionOnSet(Amount, T \cup {t}) = Amount[t] + SumFunctionOnSet(Amount, T)
    BY <2>5, <2>6, SumAdd
  <2>8. SpentOn(S, day) \in Nat /\ Amount[t] \in Nat BY SpentType, AntifraudAssumption
  <2>9. SpentOn(S, day) = SumFunctionOnSet(Amount, T) BY DEF SpentOn, T
  <2>10. SpentOn(S \cup {t}, day) = SumFunctionOnSet(Amount, T \cup {t}) BY <2>1 DEF SpentOn
  <2>11. SpentOn(S \cup {t}, day) = Amount[t] + SpentOn(S, day) BY <2>7, <2>9, <2>10
  <2> QED BY <2>8, <2>11
<1>3. ASSUME NEW day, ~(Kind[t] # "topup" /\ DateOf(At[t]) = day)
      PROVE  SpentOn(S \cup {t}, day) = SpentOn(S, day)
  <2>1. Spends(S \cup {t}, day) = Spends(S, day) BY <1>3 DEF Spends
  <2> QED BY <2>1 DEF SpentOn
<1> QED BY <1>1, <1>2, <1>3

\* Nothing is scored at the start.
LEMMA ScoringStart == AntifraudInit => ScoringInv
<1> SUFFICES ASSUME AntifraudInit PROVE ScoringInv OBVIOUS
<1> USE DEF AntifraudInit
<1>1. NoStats \in StatsRow /\ NoStats.day = -1 /\ NoStats.sum = 0 BY DEF NoStats, StatsRow
<1>2. IsFiniteSet({}) BY FS_EmptySet
<1>3. ScoringTypes BY <1>1, <1>2 DEF ScoringTypes
<1>4. InHand = {} BY DEF InHand
<1>5. Spending = {} BY DEF Spending
<1>6. {} \in SUBSET Transfers OBVIOUS
<1>7. SpentOn({}, -1) = 0 BY <1>2, <1>6, SpentType
<1>8. stats.sum = SpentOn(scored, stats.day) /\ stats.day = -1 BY <1>1, <1>7
<1>9. stats.sum <= SpentOn(scored, stats.day) BY <1>1, <1>7
<1>10. InOrderSoFar /\ NoAlertMissed BY <1>4, <1>5, <1>8 DEF InOrderSoFar, NoAlertMissed
<1>11. ScoredOnce /\ NeverTooHigh BY <1>4, <1>9 DEF ScoredOnce, NeverTooHigh
<1>12. AlertsAreDue BY DEF AlertsAreDue
<1> QED BY <1>3, <1>10, <1>11, <1>12 DEF ScoringInv

\* An incoming funding is skipped.
LEMMA SkipTopupKeeps ==
  ASSUME ScoringInv, NEW t \in Transfers, SkipTopup(t) PROVE ScoringInv'
<1> USE DEF ScoringInv
<1>1. /\ t \notin scored /\ Kind[t] = "topup" /\ scored' = scored \cup {t}
      /\ stats' = stats /\ scoring' = scoring /\ alerts' = alerts /\ skewed' = skewed
  BY DEF SkipTopup
<1>2. ScoringTypes BY DEF ScoringInv
<1>3. scored \in SUBSET Transfers /\ IsFiniteSet(scored) BY <1>2 DEF ScoringTypes
<1>4. IsFiniteSet(scored') /\ \A day : SpentOn(scored', day) = SpentOn(scored, day)
  BY <1>1, <1>3, SpentGrows
<1>5. ScoringTypes' BY <1>1, <1>2, <1>4 DEF ScoringTypes
<1>6. Spending' = Spending /\ InHand' = InHand BY <1>1 DEF Spending, InHand
<1>7. t \notin InHand BY <1>1 DEF ScoredOnce
<1>8. ScoredOnce' BY <1>1, <1>6, <1>7 DEF ScoredOnce
<1>9. NeverTooHigh' BY <1>1, <1>4, <1>6 DEF NeverTooHigh
<1>10. AlertsAreDue' BY <1>1, <1>4 DEF AlertsAreDue
<1>11. InOrderSoFar => InOrderSoFar' BY <1>1, <1>4, <1>6 DEF InOrderSoFar
<1>12. NoAlertMissed => NoAlertMissed' BY <1>1, <1>4, <1>6 DEF NoAlertMissed
<1> QED BY <1>1, <1>5, <1>8, <1>9, <1>10, <1>11, <1>12

\* The statistics are read.
LEMMA ScoreReadKeeps ==
  ASSUME ScoringInv, NEW t \in Transfers, ScoreRead(t) PROVE ScoringInv'
<1> USE DEF ScoringInv
<1>1. /\ t \notin scored /\ t \notin InHand /\ Kind[t] # "topup"
      /\ scoring' = [scoring EXCEPT ![t] = stats]
      /\ stats' = stats /\ scored' = scored /\ alerts' = alerts
      /\ skewed' = (skewed \/ InHand # {} \/ \E u \in Spending : At[u] > At[t])
  BY DEF ScoreRead, GetStats
<1>2. ScoringTypes BY DEF ScoringInv
<1>3. skewed' \in BOOLEAN BY <1>1
<1>4. ScoringTypes' BY <1>1, <1>2, <1>3 DEF ScoringTypes
<1>5. stats # Nothing BY <1>2 DEF ScoringTypes, StatsRow, Nothing
<1>6. \A u \in Transfers : scoring'[u] = IF u = t THEN stats ELSE scoring[u]
  BY <1>1, <1>2 DEF ScoringTypes
<1>7. InHand' = InHand \cup {t} /\ Spending' = Spending BY <1>1, <1>5, <1>6 DEF InHand, Spending
<1>8. ScoredOnce' BY <1>1, <1>7 DEF ScoredOnce
<1>9. \A u \in InHand : scoring'[u] = scoring[u] BY <1>1, <1>6 DEF InHand
<1>10. scoring'[t] = stats BY <1>6
<1>11. NeverTooHigh' BY <1>1, <1>7, <1>9, <1>10 DEF NeverTooHigh
<1>12. AlertsAreDue' BY <1>1 DEF AlertsAreDue
<1>13. ASSUME ~skewed' PROVE InOrderSoFar' /\ NoAlertMissed'
  <2>1. ~skewed /\ InHand = {} /\ \A u \in Spending : ~(At[u] > At[t]) BY <1>1, <1>13
  <2>2. \A u \in Spending : At[u] \in Nat BY <1>2, Dates DEF Spending, ScoringTypes
  <2>3. \A u \in Spending : At[u] <= At[t] BY <2>1, <2>2, Dates
  <2>4. InHand' = {t} BY <2>1, <1>7
  <2>5. InOrderSoFar' BY <2>1, <2>3, <2>4, <1>1, <1>7, <1>10 DEF InOrderSoFar
  <2>6. NoAlertMissed' BY <2>1, <1>1, <1>7 DEF NoAlertMissed
  <2> QED BY <2>5, <2>6
<1> QED BY <1>4, <1>8, <1>11, <1>12, <1>13

\* The statistics that are written for t after st was read, and their sum.
LEMMA Advanced ==
  ASSUME ScoringInv, NEW t \in InHand
  PROVE  LET st == scoring[t]
             day == AdvanceDay(st, At[t], Amount[t])
             win == AdvanceWindow(st, At[t])
             new == [day |-> day.day, sum |-> day.sum, start |-> win.start, count |-> win.count]
         IN  /\ new \in StatsRow /\ new.sum = day.sum /\ new.day = DateOf(At[t])
             /\ day.sum = IF DateOf(At[t]) # st.day THEN Amount[t] ELSE st.sum + Amount[t]
<1> DEFINE st == scoring[t]
           day == AdvanceDay(st, At[t], Amount[t])
           win == AdvanceWindow(st, At[t])
           new == [day |-> day.day, sum |-> day.sum, start |-> win.start, count |-> win.count]
<1>1. t \in Transfers /\ st \in StatsRow BY DEF ScoringInv, ScoringTypes, InHand
<1>2. At[t] \in Nat /\ DateOf(At[t]) \in Nat /\ Amount[t] \in Nat BY <1>1, Dates, AntifraudAssumption
<1>3. st.sum \in Int /\ st.start \in Int /\ st.count \in Int BY <1>1 DEF StatsRow
<1> HIDE DEF st
<1>4. /\ day.day = DateOf(At[t])
      /\ day.sum = IF DateOf(At[t]) # st.day THEN Amount[t] ELSE st.sum + Amount[t]
  BY DEF AdvanceDay
<1>5. day.sum \in Int BY <1>2, <1>3, <1>4
<1>6. win.start \in Int /\ win.count \in Int
  <2>1. st.count + 1 \in Int BY <1>3
  <2> QED BY <2>1, <1>2, <1>3 DEF AdvanceWindow
<1> HIDE DEF day, win
<1>7. new \in StatsRow /\ new.sum = day.sum /\ new.day = day.day BY <1>2, <1>4, <1>5, <1>6 DEF StatsRow
<1> QED BY <1>4, <1>7 DEF st, day, win

\* The statistics, the alerts and the dedup row are written.
LEMMA ScoreWriteKeeps ==
  ASSUME ScoringInv, NEW t \in Transfers, ScoreWrite(t) PROVE ScoringInv'
<1> USE DEF ScoringInv
<1> DEFINE st == scoring[t]
           day == AdvanceDay(st, At[t], Amount[t])
           win == AdvanceWindow(st, At[t])
           new == [day |-> day.day, sum |-> day.sum, start |-> win.start, count |-> win.count]
           fired == Evaluate(loadRules, Amount[t], win.count, day.sum, IsNew(Dest[t]))
           d == DateOf(At[t])
           sum == day.sum
<1>1. /\ t \in InHand /\ stats' = new /\ scored' = scored \cup {t}
      /\ scoring' = [scoring EXCEPT ![t] = Nothing] /\ skewed' = skewed
      /\ alerts' = alerts \cup {<<t, r>> : r \in fired}
  BY DEF ScoreWrite, UpsertStats, Raise
<1>2. ScoringTypes BY DEF ScoringInv
<1>3. t \notin scored /\ Kind[t] # "topup" BY <1>1 DEF ScoredOnce
<1>4. /\ new \in StatsRow /\ new.sum = sum /\ new.day = d
      /\ sum = IF d # st.day THEN Amount[t] ELSE st.sum + Amount[t]
  BY <1>1, Advanced
<1>5. \A r \in DailyRules : r \in fired <=> sum > r.limit
  BY DEF DailyRules, Evaluate
<1>6. st \in StatsRow BY <1>1, <1>2 DEF ScoringTypes, InHand
<1>7. st.sum \in Int /\ Amount[t] \in Nat /\ d \in Nat
  BY <1>6, Dates, AntifraudAssumption DEF StatsRow
<1>8. st.sum <= SpentOn(scored, st.day) BY <1>1 DEF NeverTooHigh
<1> HIDE DEF new, fired, day, win
<1>9. scored \in SUBSET Transfers /\ IsFiniteSet(scored) BY <1>2 DEF ScoringTypes
<1>10. /\ IsFiniteSet(scored')
       /\ \A e : SpentOn(scored', e) = IF d = e THEN SpentOn(scored, e) + Amount[t] ELSE SpentOn(scored, e)
  BY <1>1, <1>3, <1>9, SpentGrows
<1>11. \A e : SpentOn(scored, e) \in Nat BY <1>9, SpentType
<1>12. \A e : SpentOn(scored, e) <= SpentOn(scored', e) /\ SpentOn(scored', e) \in Nat
  BY <1>7, <1>10, <1>11
<1>13. ScoringTypes'
  <2>1. scored' \subseteq Transfers BY <1>1, <1>9
  <2>2. scoring' \in [Transfers -> {Nothing} \cup StatsRow] BY <1>1, <1>2 DEF ScoringTypes
  <2> QED BY <2>1, <2>2, <1>1, <1>2, <1>4, <1>10 DEF ScoringTypes
<1>14. \A u \in Transfers : scoring'[u] = IF u = t THEN Nothing ELSE scoring[u]
  BY <1>1, <1>2 DEF ScoringTypes
<1>15. InHand' = InHand \ {t} /\ \A u \in InHand' : scoring'[u] = scoring[u]
  BY <1>14 DEF InHand
<1>16. Spending' = Spending \cup {t} BY <1>1, <1>3 DEF Spending
<1>17. ScoredOnce' BY <1>1, <1>15 DEF ScoredOnce
<1>18. sum \in Int /\ sum <= SpentOn(scored', d)
  <2>1. SpentOn(scored', d) = SpentOn(scored, d) + Amount[t] BY <1>10
  <2>2. SpentOn(scored, d) \in Nat BY <1>11
  <2>3. CASE d # st.day BY <2>1, <2>2, <2>3, <1>4, <1>7
  <2>4. CASE d = st.day BY <2>1, <2>2, <2>4, <1>4, <1>7, <1>8
  <2> QED BY <2>3, <2>4
<1>19. NeverTooHigh'
  <2>1. ASSUME NEW u \in InHand' PROVE scoring'[u].sum <= SpentOn(scored', scoring'[u].day)
    <3> DEFINE su == scoring[u]
    <3>1. u \in InHand /\ scoring'[u] = su BY <1>15, <2>1
    <3>2. su \in StatsRow /\ su.sum <= SpentOn(scored, su.day)
      BY <3>1, <1>2 DEF ScoringTypes, InHand, NeverTooHigh
    <3>3. su.sum \in Int BY <3>2 DEF StatsRow
    <3> HIDE DEF su
    <3>4. SpentOn(scored, su.day) <= SpentOn(scored', su.day) /\ SpentOn(scored, su.day) \in Nat
          /\ SpentOn(scored', su.day) \in Nat
      BY <1>11, <1>12
    <3>5. su.sum <= SpentOn(scored', su.day) BY <3>2, <3>3, <3>4
    <3> QED BY <3>1, <3>5
  <2> QED BY <2>1, <1>1, <1>4, <1>18 DEF NeverTooHigh
<1>20. \A r \in DailyRules : r.limit \in Nat BY AntifraudAssumption DEF DailyRules, loadRules
<1>21. AlertsAreDue'
  <2> SUFFICES ASSUME NEW u \in Transfers, NEW r \in DailyRules, <<u, r>> \in alerts'
               PROVE  SpentOn(scored', DateOf(At[u])) > r.limit
    BY DEF AlertsAreDue
  <2>1. CASE <<u, r>> \in alerts
    <3>1. SpentOn(scored, DateOf(At[u])) > r.limit BY <2>1 DEF AlertsAreDue
    <3>2. /\ SpentOn(scored, DateOf(At[u])) <= SpentOn(scored', DateOf(At[u]))
          /\ SpentOn(scored, DateOf(At[u])) \in Nat /\ SpentOn(scored', DateOf(At[u])) \in Nat
      BY <1>11, <1>12
    <3> QED BY <3>1, <3>2, <1>20
  <2>2. CASE u = t /\ r \in fired
    <3>1. sum > r.limit BY <2>2, <1>5
    <3>2. SpentOn(scored', d) \in Nat BY <1>12
    <3>3. SpentOn(scored', d) > r.limit BY <3>1, <3>2, <1>18, <1>20
    <3> QED BY <3>3, <2>2
  <2> QED BY <2>1, <2>2, <1>1
<1>22. ASSUME ~skewed PROVE InOrderSoFar' /\ NoAlertMissed'
  <2>1. InHand = {t} /\ st = stats /\ \A u \in Spending : At[u] <= At[t]
    BY <1>1, <1>22 DEF InOrderSoFar
  <2>2. Spending \subseteq Transfers BY <1>9 DEF Spending
  <2>3. \A u \in Spending : DateOf(At[u]) \in Nat /\ DateOf(At[u]) <= d BY <2>1, <2>2, Dates
  <2>4. stats.day \in Nat \cup {-1} BY <1>2 DEF ScoringTypes, StatsRow
  <2>5. stats.day <= d
    <3>1. CASE stats.day = -1 BY <3>1, <1>7
    <3>2. CASE \E u \in Spending : DateOf(At[u]) = stats.day BY <3>2, <2>3
    <3> QED BY <3>1, <3>2, <1>22 DEF InOrderSoFar
  <2>6. sum = SpentOn(scored', d)
    <3>1. SpentOn(scored', d) = SpentOn(scored, d) + Amount[t] BY <1>10
    <3>2. CASE d = st.day
      <4>1. st.sum = SpentOn(scored, d) BY <3>2, <2>1, <1>22 DEF InOrderSoFar
      <4> QED BY <4>1, <3>1, <3>2, <1>4
    <3>3. CASE d # st.day
      <4>1. stats.day < d BY <3>3, <2>1, <2>4, <2>5, <1>7
      <4>2. \A u \in Spending : DateOf(At[u]) <= stats.day BY <1>22 DEF InOrderSoFar
      <4>3. \A u \in Spending : DateOf(At[u]) # d BY <4>1, <4>2, <2>3, <2>4, <1>7
      <4>4. Spends(scored, d) = {} BY <4>3 DEF Spends, Spending
      <4>5. SpentOn(scored, d) = 0 BY <4>4, SumEmpty DEF SpentOn
      <4> QED BY <4>5, <3>1, <3>3, <1>4, <1>7
    <3> QED BY <3>2, <3>3
  <2>7. InHand' = {} BY <2>1, <1>15
  <2>8. stats'.sum = SpentOn(scored', d) /\ stats'.day = d BY <2>6, <1>1, <1>4
  <2>9. \A u \in Spending' : DateOf(At[u]) <= d BY <2>3, <1>7, <1>16
  <2>10. InOrderSoFar' BY <2>7, <2>8, <2>9, <1>16 DEF InOrderSoFar
  <2>11. ASSUME NEW u \in Spending', NEW r \in DailyRules, SpentOn(scored', DateOf(At[u])) > r.limit
         PROVE  \E v \in Spending' : DateOf(At[v]) = DateOf(At[u]) /\ <<v, r>> \in alerts'
    <3>1. CASE DateOf(At[u]) = d
      <4>1. r \in fired BY <2>6, <2>11, <3>1, <1>5
      <4>2. <<t, r>> \in alerts' /\ t \in Spending' BY <4>1, <1>1, <1>16
      <4> QED BY <4>2, <3>1
    <3>2. CASE DateOf(At[u]) # d
      <4>1. u \in Spending BY <3>2, <1>16
      <4>2. SpentOn(scored, DateOf(At[u])) > r.limit BY <2>11, <3>2, <1>10
      <4>3. PICK v \in Spending : DateOf(At[v]) = DateOf(At[u]) /\ <<v, r>> \in alerts
        BY <4>1, <4>2, <1>22 DEF NoAlertMissed
      <4> QED BY <4>3, <1>1, <1>16
    <3> QED BY <3>1, <3>2
  <2>12. NoAlertMissed' BY <2>11 DEF NoAlertMissed
  <2> QED BY <2>10, <2>12
<1> QED BY <1>1, <1>13, <1>17, <1>19, <1>21, <1>22

\* Every step of the loop keeps the scorer's invariant.
LEMMA ScoringKeeps == ScoringInv /\ [Next]_vars => ScoringInv'
<1> SUFFICES ASSUME ScoringInv, [Next]_vars PROVE ScoringInv' OBVIOUS
<1>1. CASE ScoreStep
  <2>1. PICK t \in Completed : SkipTopup(t) \/ ScoreRead(t) \/ ScoreWrite(t) BY <1>1 DEF ScoreStep
  <2>2. t \in Transfers BY DEF Completed
  <2> QED BY <2>1, <2>2, SkipTopupKeeps, ScoreReadKeeps, ScoreWriteKeeps
<1>2. CASE \/ \E t \in Transfers : Validate(t) \/ Complete(t) \/ Project(t)
           \/ NotifyStep \/ RegistryStep \/ AlertStep \/ UNCHANGED vars
  <2>1. stats' = stats /\ scoring' = scoring /\ scored' = scored /\ alerts' = alerts /\ skewed' = skewed
    BY <1>2 DEF Validate, Complete, Project, NotifyStep, RegistryStep, AlertStep, vars, fvars
  <2>2. InHand' = InHand /\ Spending' = Spending BY <2>1 DEF InHand, Spending
  <2> QED BY <2>1, <2>2 DEF ScoringInv, ScoringTypes, ScoredOnce, NeverTooHigh, AlertsAreDue,
                            InOrderSoFar, NoAlertMissed
<1> QED BY <1>1, <1>2 DEF Next, Step

\* However many scorers read and write the statistics at once and in whatever order events
\* come, no money is counted twice and no daily limit is raised without cause; in order and one at
\* a time, the sums are exact and no day above a limit goes unnoticed (Scorer.Handle).
THEOREM SumsAreSoundHolds == Spec => []SumsAreSound
<1>1. Init => ScoringInv BY ScoringStart DEF Init
<1>2. ScoringInv => SumsAreSound
  <2> SUFFICES ASSUME ScoringInv PROVE SumsAreSound OBVIOUS
  <2>1. \A day : Spent(day) = SpentOn(scored, day)
    <3> TAKE day
    <3>1. {t \in Spending : DateOf(At[t]) = day} = Spends(scored, day) BY DEF Spending, Spends
    <3> QED BY <3>1 DEF Spent, SpentOn
  <2>2. stats # NoStats => stats.sum <= Spent(stats.day) BY <2>1 DEF ScoringInv, NeverTooHigh
  <2>3. ~skewed /\ stats # NoStats => stats.sum = Spent(stats.day)
    BY <2>1 DEF ScoringInv, InOrderSoFar
  <2>4. ASSUME NEW t \in Spending, NEW r \in {x \in loadRules : x.kind = "daily_out_sum"}
        PROVE  LET over == Spent(DateOf(At[t])) > r.limit
               IN  /\ Raised(t, r) # {} => over
                   /\ over /\ ~skewed => Raised(t, r) # {}
    <3>1. r \in DailyRules BY DEF DailyRules
    <3>2. Spending \subseteq Transfers BY DEF Spending, ScoringInv, ScoringTypes
    <3>3. ASSUME NEW u \in Raised(t, r) PROVE Spent(DateOf(At[t])) > r.limit
      <4>1. u \in Transfers /\ DateOf(At[u]) = DateOf(At[t]) /\ <<u, r>> \in alerts
        BY <3>2 DEF Raised
      <4> QED BY <4>1, <3>1, <2>1 DEF ScoringInv, AlertsAreDue
    <3>4. ASSUME Spent(DateOf(At[t])) > r.limit, ~skewed PROVE Raised(t, r) # {}
      <4>1. SpentOn(scored, DateOf(At[t])) > r.limit BY <3>4, <2>1
      <4>2. PICK u \in Spending : DateOf(At[u]) = DateOf(At[t]) /\ <<u, r>> \in alerts
        BY <4>1, <3>1, <3>4 DEF ScoringInv, NoAlertMissed
      <4> QED BY <4>2 DEF Raised
    <3> QED BY <3>3, <3>4
  <2> QED BY <2>2, <2>3, <2>4 DEF SumsAreSound
<1> QED BY <1>1, <1>2, ScoringKeeps, PTL DEF Spec
=============================================================================
