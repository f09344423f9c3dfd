---------------------------- MODULE Notification ----------------------------
(***************************************************************************)
(* The notification service: a consumer that sends a message for a         *)
(* transfer event or a fraud alert and writes the row of the user's feed   *)
(* in the transaction of the dedup row.  The send comes before the commit  *)
(* and cannot be rolled back.                                              *)
(***************************************************************************)
EXTENDS Naturals

CONSTANTS
  Notices,    \* the events the service may be told of
  MaxUndone   \* bound on the rollbacks after a delivery, by notice

VARIABLES
  feed,        \* the rows of notifications: the status of each
  sends,       \* how often the sender delivered each notice
  undone,      \* how often an attempt that had delivered it rolled back
  notifying    \* the notice in hand and the status its row will have

nvars == <<feed, sends, undone, notifying>>

NoNotice == [status |-> "none"]

NotificationInit ==
  /\ feed = [n \in Notices |-> "none"]
  /\ sends = [n \in Notices |-> 0]
  /\ undone = [n \in Notices |-> 0]
  /\ notifying = NoNotice

\* Handle renders the message and Send delivers it; it returns nil if it did.
Send(n) ==
  /\ notifying = NoNotice /\ feed[n] = "none"
  /\ sends' = [sends EXCEPT ![n] = @ + 1]
  /\ notifying' = [notice |-> n, status |-> "sent"]
  /\ UNCHANGED <<feed, undone>>

\* Variant: the failure of the send goes unseen.
SendFailsUnseen(n) ==
  /\ notifying = NoNotice /\ feed[n] = "none"
  /\ notifying' = [notice |-> n, status |-> "sent"]
  /\ UNCHANGED <<feed, sends, undone>>

\* Send fails: the row will say so, and nobody sends it again.
SendFails(n) ==
  /\ notifying = NoNotice /\ feed[n] = "none"
  /\ notifying' = [notice |-> n, status |-> "failed"]
  /\ UNCHANGED <<feed, sends, undone>>

\* The feed row and the dedup row commit.
NotifyCommit ==
  /\ notifying # NoNotice
  /\ feed' = [feed EXCEPT ![notifying.notice] = notifying.status]
  /\ notifying' = NoNotice
  /\ UNCHANGED <<sends, undone>>

\* The transaction rolls back after the send, which stays; the runtime tries again.
NotifyAbort ==
  /\ notifying # NoNotice
  /\ IF notifying.status = "failed" THEN UNCHANGED undone
     ELSE /\ undone[notifying.notice] < MaxUndone
          /\ undone' = [undone EXCEPT ![notifying.notice] = @ + 1]
  /\ notifying' = NoNotice
  /\ UNCHANGED <<feed, sends>>

\* The attempt in hand has delivered n.
Sending(n) == notifying.status = "sent" /\ notifying.notice = n

\* Every delivery is told by the notice's one row, or by nothing because the attempt that
\* made it is in hand or rolled back: "sent" stands for one delivery besides those that
\* were undone, and under "failed", or without a row, only attempts that rolled back have
\* delivered the message (Handle, whose send is outside the transaction; a message may
\* go out, its transaction roll back and the next attempt's send fail).
FeedIsTrue ==
  \A n \in Notices :
    sends[n] = undone[n] + IF feed[n] = "sent" \/ Sending(n) THEN 1 ELSE 0
=============================================================================
