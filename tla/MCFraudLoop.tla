---------------------------- MODULE MCFraudLoop -----------------------------
(***************************************************************************)
(* Instances of the fraud loop for TLC: a top-up and then transfers.       *)
(***************************************************************************)
EXTENDS FraudLoop, TLC

MCOwner == [a \in Accounts |-> "u"]
MCKind == [t \in Transfers |-> IF t = 0 THEN "topup" ELSE "p2p"]

\* Two transfers of the first day and one of the next, which is the largest.
MCTransfers == 0..3
MCAt == <<1, 2, 6>> @@ (0 :> 0)
MCAmount == <<1, 2, 3>> @@ (0 :> 6)
MCDest == [t \in Transfers |-> IF t = 3 THEN "new" ELSE "old"]

\* The rows the migration seeds, and one that is switched off.
Row(kind, severity) == [kind |-> kind, severity |-> severity, limit |-> 2, enabled |-> TRUE]
MCRules == {Row("amount_over", "MEDIUM"), Row("velocity", "HIGH"),
            Row("daily_out_sum", "HIGH"), Row("new_beneficiary", "MEDIUM"),
            [kind |-> "daily_out_sum", severity |-> "HIGH", limit |-> 0, enabled |-> FALSE]}
MCNotices == {<<3, Row("amount_over", "MEDIUM")>>}
=============================================================================
