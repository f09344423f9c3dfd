----------------------------- MODULE EventFlow ------------------------------
(***************************************************************************)
(* The way of an event from a business transaction to a consumer group:    *)
(* the transactional outbox (pkg/outbox), its relay, the Kafka log and the *)
(* consumer runtime (pkg/kafka) with its dedup table, retries and dead     *)
(* letters.                                                                *)
(*                                                                         *)
(* One topic and one consumer group; a key stands for its partition.  The  *)
(* rows, records and dedup markers of an event are all known by the event, *)
(* whose id never changes.  Everything that goes wrong from outside        *)
(* (crashes, failed statements, lost acknowledgements, refused produces,   *)
(* rebalances, a second relay during a rollout) is counted in faults.      *)
(***************************************************************************)
EXTENDS Naturals, Sequences, FiniteSets, SequencesExt

CONSTANTS
  Events,      \* the events that business transactions insert
  Keys,        \* partitions
  KeyOf,       \* the partition of each event
  Natures,     \* what the events may be like: see Nature
  Relays,      \* relay goroutines: one, or two while a rollout overlaps
  Consumers,   \* members of the consumer group
  Batch,       \* relayBatch
  MaxAttempts, \* Config.MaxAttempts
  MaxFaults    \* bound on what goes wrong from outside

\* The handler processes a fine event, always refuses a poison one, and does not
\* get to see a garbled one, whose envelope does not decode.
Nature == {"fine", "poison", "garbled"}

ASSUME EventsAssumption ==
  /\ KeyOf \in [Events -> Keys]
  /\ Natures \subseteq [Events -> Nature] /\ Natures # {}
ASSUME BoundsAssumption ==
  /\ Batch \in Nat \ {0} /\ MaxAttempts \in Nat \ {0} /\ MaxFaults \in Nat

VARIABLES
  nature,     \* what each event is like, fixed from the start
  created,    \* the outbox rows in the order of created_at: transaction start
  outbox,     \* the outbox row of each event: none, open, aborted, unsent or sent
  claim,      \* the rows each relay has selected FOR UPDATE
  relay,      \* where each relay stands in relayOnce
  log,        \* the records of each partition
  owner,      \* the member each partition is assigned to
  marked,     \* MarkCommitRecords: records the owner is done with
  committed,  \* the offsets the broker keeps
  work,       \* the fetched records a member is processing: partition, next and last
              \* record, attempt and the step it is at
  processed,  \* rows of processed_messages
  effects,    \* how often the handler's effect of each event was committed
  dlq,        \* dead-lettered events
  lost,       \* events given up on whose dead letter could not be produced
  faults,     \* faults so far
  before,     \* history: the events committed when an event's transaction began
  overlapped  \* history: two relays once held batches at the same time

ovars == <<nature, created, outbox, before>>
rvars == <<claim, relay, log, overlapped>>
gvars == <<owner, marked, committed>>
cvars == <<work, processed, effects, dlq, lost>>
vars == <<ovars, rvars, gvars, cvars, faults>>

NoWork == [at |-> "poll"]

Init ==
  /\ nature \in Natures
  /\ created = <<>>
  /\ outbox = [e \in Events |-> "none"]
  /\ claim = [r \in Relays |-> <<>>]
  /\ relay = [r \in Relays |-> "idle"]
  /\ log = [k \in Keys |-> <<>>]
  /\ owner \in [Keys -> Consumers]
  /\ marked = [k \in Keys |-> 0] /\ committed = [k \in Keys |-> 0]
  /\ work = [c \in Consumers |-> NoWork]
  /\ processed = {} /\ dlq = {} /\ lost = {}
  /\ effects = [e \in Events |-> 0]
  /\ faults = 0
  /\ before = [e \in Events |-> {}]
  /\ overlapped = FALSE

Fault == faults < MaxFaults /\ faults' = faults + 1

-----------------------------------------------------------------------------
(* The business transaction *)

Poison == {e \in Events : nature[e] = "poison"}
Garbled == {e \in Events : nature[e] = "garbled"}
Published == {e \in Events : outbox[e] \in {"unsent", "sent"}}

\* The transaction starts: created_at is now(), the time of its start.
Begin(e) ==
  /\ outbox[e] = "none"
  /\ outbox' = [outbox EXCEPT ![e] = "open"]
  /\ created' = Append(created, e)
  /\ before' = [before EXCEPT ![e] = Published]
  /\ UNCHANGED <<nature, rvars, gvars, cvars, faults>>

\* outbox.Insert ran in the transaction; it commits or rolls back.
EndWrite(e) ==
  /\ outbox[e] = "open"
  /\ \E status \in {"unsent", "aborted"} : outbox' = [outbox EXCEPT ![e] = status]
  /\ UNCHANGED <<nature, created, before, rvars, gvars, cvars, faults>>

-----------------------------------------------------------------------------
(* relayOnce *)

\* Rows locked by a relay's transaction; SKIP LOCKED passes over them.
Locked == UNION {ToSet(claim[r]) : r \in Relays}

\* The elements of s that are in S, in their order (SelectSeq, whose argument the
\* prover cannot instantiate).
Only(s, S) ==
  LET kept[i \in 0..Len(s)] ==
        IF i = 0 THEN <<>>
        ELSE IF s[i] \in S THEN Append(kept[i - 1], s[i]) ELSE kept[i - 1]
  IN  kept[Len(s)]

\* Variant: in the order of the ids, which the client draws.
PendingUnordered ==
  Reverse(Only(created, {e \in Events : outbox[e] = "unsent" /\ e \notin Locked}))

\* The unsent rows another transaction has not locked, ORDER BY created_at.
Pending == Only(created, {e \in Events : outbox[e] = "unsent" /\ e \notin Locked})

\* SELECT ... ORDER BY created_at, id LIMIT n FOR UPDATE SKIP LOCKED.  A second
\* relay at work, as in a rollout, is one of the things counted in faults.
SelectBatch(r) ==
  /\ relay[r] = "idle"
  /\ Pending # <<>>
  /\ claim' = [claim EXCEPT ![r] =
                 SubSeq(Pending, 1, IF Len(Pending) < Batch THEN Len(Pending) ELSE Batch)]
  /\ relay' = [relay EXCEPT ![r] = "selected"]
  /\ IF \E s \in Relays : relay[s] # "idle"
     THEN Fault /\ overlapped' = TRUE
     ELSE UNCHANGED <<faults, overlapped>>
  /\ UNCHANGED <<log, ovars, gvars, cvars>>

\* The records of a batch that go to partition k.
ForKey(s, k) == Only(s, {e \in Events : KeyOf[e] = k})

\* The relay's transaction ends and its row locks go.
Release(r) ==
  /\ claim' = [claim EXCEPT ![r] = <<>>]
  /\ relay' = [relay EXCEPT ![r] = "idle"]
  /\ UNCHANGED overlapped

\* ProduceSync: the broker acknowledges every record.
Produce(r) ==
  /\ relay[r] = "selected"
  /\ log' = [k \in Keys |-> log[k] \o ForKey(claim[r], k)]
  /\ relay' = [relay EXCEPT ![r] = "produced"]
  /\ UNCHANGED <<claim, overlapped, ovars, gvars, cvars, faults>>

\* ProduceSync fails, or the process dies: a prefix of what each partition was
\* to get is in the log, and the transaction rolls back.
ProduceFails(r) ==
  /\ relay[r] = "selected"
  /\ Fault
  /\ \E n \in [Keys -> 0..Len(claim[r])] :
       /\ \A k \in Keys : n[k] <= Len(ForKey(claim[r], k))
       /\ log' = [k \in Keys |-> log[k] \o SubSeq(ForKey(claim[r], k), 1, n[k])]
  /\ Release(r)
  /\ UNCHANGED <<ovars, gvars, cvars>>

\* UPDATE outbox SET sent_at, and the commit.
MarkSent(r) ==
  /\ relay[r] = "produced"
  /\ outbox' = [e \in Events |-> IF e \in ToSet(claim[r]) THEN "sent" ELSE outbox[e]]
  /\ Release(r)
  /\ UNCHANGED <<nature, created, before, log, gvars, cvars, faults>>

\* The update or the commit fails, or the process dies: the batch stays unsent.
MarkFails(r) ==
  /\ relay[r] = "produced"
  /\ Fault
  /\ Release(r)
  /\ UNCHANGED <<log, ovars, gvars, cvars>>

RelayStep(r) == SelectBatch(r) \/ Produce(r) \/ MarkSent(r)

-----------------------------------------------------------------------------
(* Consumer.Run *)

Record(c) == log[work[c].key][work[c].next]
At(c, place) == work[c].at = place
WorksOn(c, k) == work[c] # NoWork /\ work[c].key = k
Goto(c, place) == work' = [work EXCEPT ![c].at = place]

\* PollFetches returns the records of a partition from the member's position on.
Fetch(c, k) ==
  /\ work[c] = NoWork
  /\ owner[k] = c
  /\ marked[k] < Len(log[k])
  /\ work' = [work EXCEPT ![c] = [key |-> k, next |-> marked[k] + 1,
                                  last |-> Len(log[k]), try |-> 1, at |-> "insert"]]
  /\ UNCHANGED <<processed, effects, dlq, lost, ovars, rvars, gvars, faults>>

\* Another member's uncommitted dedup row of the same event.
Twin(c) == \E d \in Consumers \ {c} : At(d, "handle") /\ Record(d) = Record(c)

\* Variant: the dedup row is not looked at.
InsertBlind(c) ==
  /\ At(c, "insert") /\ Record(c) \notin Garbled
  /\ Goto(c, "handle")
  /\ UNCHANGED <<processed, effects, dlq, lost, ovars, rvars, gvars, faults>>

\* processOnce: INSERT INTO processed_messages ... ON CONFLICT DO NOTHING; a
\* duplicate commits and is done.
InsertMarker(c) ==
  /\ At(c, "insert") /\ Record(c) \notin Garbled
  /\ ~Twin(c)
  /\ Goto(c, IF Record(c) \in processed THEN "mark" ELSE "handle")
  /\ UNCHANGED <<processed, effects, dlq, lost, ovars, rvars, gvars, faults>>

\* The handler succeeded: its writes commit together with the dedup row.
Effect(c) ==
  /\ At(c, "handle") /\ Record(c) \notin Poison
  /\ processed' = processed \cup {Record(c)}
  /\ effects' = [effects EXCEPT ![Record(c)] = @ + 1]
  /\ UNCHANGED <<dlq, lost, ovars, rvars, gvars>>

Handle(c) == Effect(c) /\ Goto(c, "mark") /\ UNCHANGED faults

\* processWithRetry after a failed attempt.
Retry(c) ==
  LET w == work[c]
  IN  work' = [work EXCEPT ![c] =
                 IF w.try < MaxAttempts
                 THEN [w EXCEPT !.try = w.try + 1, !.at = "insert"]
                 ELSE [w EXCEPT !.at = "dlq"]]

\* The commit took effect and its acknowledgement was lost: an attempt failed.
HandleUnknown(c) == Effect(c) /\ Retry(c) /\ Fault

\* The attempt rolls back: the handler refuses the event, or the database does.
Fail(c) ==
  /\ \/ At(c, "handle") /\ Record(c) \in Poison /\ UNCHANGED faults
     \/ /\ At(c, "handle") \/ (At(c, "insert") /\ Record(c) \notin Garbled /\ ~Twin(c))
        /\ Fault
  /\ Retry(c)
  /\ UNCHANGED <<processed, effects, dlq, lost, ovars, rvars, gvars>>

\* The dead letter is due: the budget is used up, or the envelope cannot be read.
Hopeless(c) == At(c, "dlq") \/ (At(c, "insert") /\ Record(c) \in Garbled)

ToDLQ(c) ==
  /\ Hopeless(c)
  /\ dlq' = dlq \cup {Record(c)}
  /\ Goto(c, "mark")
  /\ UNCHANGED <<processed, effects, lost, ovars, rvars, gvars, faults>>

\* toDLQ's produce fails: it logs and returns, and the record counts as done.
DLQFails(c) ==
  /\ Hopeless(c)
  /\ Fault
  /\ lost' = lost \cup {Record(c)}
  /\ Goto(c, "mark")
  /\ UNCHANGED <<processed, effects, dlq, ovars, rvars, gvars>>

\* Variant: the whole fetch is marked with its first record.
MarkAll(c) ==
  LET w == work[c]
  IN  /\ At(c, "mark")
      /\ marked' = [marked EXCEPT ![w.key] = IF owner[w.key] = c THEN w.last ELSE @]
      /\ work' = [work EXCEPT ![c] =
                    IF w.next < w.last
                    THEN [w EXCEPT !.next = w.next + 1, !.try = 1, !.at = "insert"] ELSE NoWork]
      /\ UNCHANGED <<processed, effects, dlq, lost, owner, committed, ovars, rvars, faults>>

\* MarkCommitRecords, which a member that lost the partition cannot do any more,
\* and on to the next record of the fetch.
Mark(c) ==
  LET w == work[c]
  IN  /\ At(c, "mark")
      /\ marked' = [marked EXCEPT ![w.key] = IF owner[w.key] = c THEN w.next ELSE @]
      /\ work' = [work EXCEPT ![c] =
                    IF w.next < w.last
                    THEN [w EXCEPT !.next = w.next + 1, !.try = 1, !.at = "insert"] ELSE NoWork]
      /\ UNCHANGED <<processed, effects, dlq, lost, owner, committed, ovars, rvars, faults>>

ConsumerStep(c) ==
  \/ \E k \in Keys : Fetch(c, k)
  \/ InsertMarker(c) \/ Handle(c) \/ ToDLQ(c) \/ Mark(c)
  \/ Fail(c) /\ UNCHANGED faults

\* The client commits the marked offsets from time to time (AutoCommitMarks).
CommitOffsets(k) ==
  /\ committed[k] < marked[k]
  /\ committed' = [committed EXCEPT ![k] = marked[k]]
  /\ UNCHANGED <<owner, marked, cvars, ovars, rvars, faults>>

\* Variant: it resumes at the end of the log (ConsumeResetOffset at the end).
CrashAtEnd(c) ==
  /\ Fault
  /\ work' = [work EXCEPT ![c] = NoWork]
  /\ marked' = [k \in Keys |-> IF owner[k] = c THEN Len(log[k]) ELSE marked[k]]
  /\ UNCHANGED <<processed, effects, dlq, lost, owner, committed, ovars, rvars>>

\* A member dies or is shut down amid a record: its transaction rolls back, and
\* what it had not committed is delivered again.
Crash(c) ==
  /\ Fault
  /\ work' = [work EXCEPT ![c] = NoWork]
  /\ marked' = [k \in Keys |-> IF owner[k] = c THEN committed[k] ELSE marked[k]]
  /\ UNCHANGED <<processed, effects, dlq, lost, owner, committed, ovars, rvars>>

\* Variant: the new owner starts at the end of the log.
RebalanceAtEnd(k, d) ==
  /\ owner[k] # d
  /\ Fault
  /\ owner' = [owner EXCEPT ![k] = d]
  /\ marked' = [marked EXCEPT ![k] = Len(log[k])]
  /\ UNCHANGED <<committed, cvars, ovars, rvars>>

\* The group moves a partition to another member, which starts at the committed
\* offset.  BlockRebalanceOnPoll holds a rebalance back only until the group loses
\* patience with a slow member, which goes on with the records it has fetched.
Rebalance(k, d) ==
  /\ owner[k] # d
  /\ ~WorksOn(d, k)
  /\ Fault
  /\ owner' = [owner EXCEPT ![k] = d]
  /\ marked' = [marked EXCEPT ![k] = committed[k]]
  /\ UNCHANGED <<committed, cvars, ovars, rvars>>

-----------------------------------------------------------------------------
(* The specification *)

Next ==
  \/ \E e \in Events : Begin(e) \/ EndWrite(e)
  \/ \E r \in Relays : SelectBatch(r) \/ Produce(r) \/ ProduceFails(r)
                       \/ MarkSent(r) \/ MarkFails(r)
  \/ \E c \in Consumers, k \in Keys : Fetch(c, k)
  \/ \E c \in Consumers : InsertMarker(c) \/ Handle(c) \/ HandleUnknown(c) \/ Fail(c)
                          \/ ToDLQ(c) \/ DLQFails(c) \/ Mark(c) \/ Crash(c)
  \/ \E k \in Keys : CommitOffsets(k)
  \/ \E k \in Keys, d \in Consumers : Rebalance(k, d)

Spec == Init /\ [][Next]_vars

\* The relay's ticker and the members' poll loops keep running.
FairSpec ==
  /\ Spec
  /\ \A r \in Relays : WF_vars(RelayStep(r))
  /\ \A c \in Consumers : WF_vars(ConsumerStep(c))

-----------------------------------------------------------------------------
(* Properties *)

Settled == processed \cup dlq \cup lost

\* The first record of event e in its partition.
First(e) == CHOOSE i \in 1..Len(log[KeyOf[e]]) :
              /\ log[KeyOf[e]][i] = e
              /\ \A j \in 1..(i - 1) : log[KeyOf[e]][j] # e
InLog(e) == e \in ToSet(log[KeyOf[e]])

\* The bus implements its abstract promise (ADR-0009): whatever is sent twice,
\* delivered twice or processed by two members at once, the handler's effect of
\* an event commits at most once, and only if its transaction did.
D == INSTANCE Delivery WITH published <- Published, applied <- effects,
                            abandoned <- dlq \cup lost
ExactlyOnceEffect == D!DSpec

\* Nothing is passed over: a row marked sent is in the log (relayOnce marks only
\* after the acks), every record below a committed offset was processed or given
\* up on (Run marks only after processWithRetry), and an event the handler can
\* process is given up on only after MaxAttempts failures.
NothingSkipped ==
  /\ \A e \in Events : outbox[e] = "sent" => InLog(e)
  /\ \A k \in Keys : \A i \in 1..committed[k] : log[k][i] \in Settled
  /\ faults < MaxAttempts => dlq \cup lost \subseteq Poison \cup Garbled

\* Per partition, an event takes effect only after every earlier one was
\* processed or given up on, also while a member that lost the partition is
\* still working on it (Run processes a fetch record by record).
NoOvertaking ==
  \A e \in processed : \A i \in 1..First(e) : log[KeyOf[e]][i] \in Settled

\* As long as no two relays hold batches at once, the log keeps the order of
\* business transactions that did not run concurrently (relay.go, "publishes
\* pending rows in insertion order").
LogFollowsCommits ==
  overlapped \/ \A e \in Events : InLog(e) =>
    \A d \in before[e] : KeyOf[d] = KeyOf[e] => InLog(d) /\ First(d) < First(e)

\* Every event whose transaction committed is in the end applied, dead-lettered
\* or reported as lost, whatever crashed on the way.
EverySettled == \A e \in Events : outbox[e] = "unsent" ~> e \in Settled
=============================================================================
