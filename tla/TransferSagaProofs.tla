------------------------- MODULE TransferSagaProofs -------------------------
(***************************************************************************)
(* The transfer saga tells the truth about the money, for every number of  *)
(* transfers, keys, requests and recovery workers and every bound on       *)
(* faults: TypeOK, OutcomeIsTrue, HoldIdIsKept, HistoryIsLegal, and that a *)
(* key stands for one transfer and one payload.                            *)
(***************************************************************************)
EXTENDS TransferSaga, FiniteSetTheorems, TLAPS

\* TypeOK without the bounds on what is available.
Types ==
  /\ transfers \in [Xfers -> Row \cup {Absent}]
  /\ keys \in [Keys -> [xfer : Xfers, hash : Specs] \cup {NoKey}]
  /\ trail \in [Xfers -> Seq(State)]
  /\ status \in [Xfers -> Seq(State)]
  /\ holds \in [Xfers -> {"none", "active", "captured", "released"}]
  /\ entries \subseteq Xfers
  /\ available \in Nat
  /\ calls \subseteq [op : Ops, xfer : Xfers, at : {"read", "apply"},
                      by : Procs \cup {Nobody}]
  /\ pc \in [Procs -> {"idle", "load", "start", "validate", "released", "budget"}
                        \cup Ops]
  /\ cur \in [Procs -> Xfers \cup {NoXfer}]
  /\ spec \in [Procs -> Specs \cup {NoXfer}]
  /\ copy \in [Procs -> Row \cup {Absent}]
  /\ reply \in [Procs -> Codes \cup {"none"}]
  /\ claimed \in [Procs -> SUBSET Xfers]
  /\ faults \in 0..MaxFaults
  /\ expiries \in 0..MaxExpiries

KeysInv == \A k \in Keys : keys[k] # NoKey => transfers[keys[k].xfer] # Absent

IInv == Types /\ SagaInv /\ KeysInv /\ HistoryIsLegal

\* Rows only move on, the ledger forgets nothing, and only process p moves.
RowsGrow ==
  \A x \in Xfers :
    transfers[x] # Absent =>
      transfers'[x] # Absent /\ Behind(transfers[x], transfers'[x])
LedgerGrows ==
  /\ entries \subseteq entries'
  /\ \A x \in Xfers : /\ holds[x] # "none" => holds'[x] # "none"
                      /\ holds[x] = "released" => holds'[x] = "released"
OthersSame(p) ==
  \A q \in Procs \ {p} :
    /\ pc'[q] = pc[q] /\ cur'[q] = cur[q] /\ copy'[q] = copy[q]
    /\ reply'[q] = reply[q] /\ claimed'[q] = claimed[q]

-----------------------------------------------------------------------------
(* Rows and their order *)

\* The rank tells the states apart.
LEMMA RankInjective ==
  ASSUME NEW s \in State \cup {"none"}, NEW t \in State \cup {"none"}
  PROVE  Rank(s) \in 0..7 /\ (Rank(s) = Rank(t) => s = t)
BY DEF Rank, State

\* A row is in a state and an absent one is not.
LEMMA RowFields ==
  ASSUME NEW t \in Row \cup {Absent}
  PROVE  /\ t.state \in State \cup {"none"} /\ t.hold \in BOOLEAN
         /\ t # Absent => t \in Row /\ t.state \in State
         /\ t = Absent => t.state = "none" /\ t.hold = FALSE
         /\ t.attempts \in 0..(MaxAttempts + 1)
<1>1. CASE t \in Row
  <2>1. t.state \in State /\ t.hold \in BOOLEAN /\ t.attempts \in 0..(MaxAttempts + 1)
    BY <1>1 DEF Row
  <2>2. t # Absent
    <3>1. Absent.state = "none" /\ "none" \notin State
      BY DEF Absent, State
    <3>2. QED
      BY <2>1, <3>1
  <2>3. QED
    BY <1>1, <2>1, <2>2
<1>2. CASE t = Absent
  <2>1. t.state = "none" /\ t.hold = FALSE /\ t.attempts = 0
    BY <1>2 DEF Absent
  <2>2. 0 \in 0..(MaxAttempts + 1)
    BY SagaBoundsAssumption
  <2>3. QED
    BY <1>2, <2>1, <2>2
<1>3. QED
  BY <1>1, <1>2

\* "Read before" is transitive.
LEMMA BehindTrans ==
  ASSUME NEW t \in Row \cup {Absent}, NEW r \in Row \cup {Absent},
         NEW u \in Row \cup {Absent}, Behind(t, r), Behind(r, u)
  PROVE  Behind(t, u)
<1>1. /\ t.state \in State \cup {"none"} /\ t.hold \in BOOLEAN
      /\ r.state \in State \cup {"none"} /\ r.hold \in BOOLEAN
      /\ u.state \in State \cup {"none"} /\ u.hold \in BOOLEAN
  BY RowFields
<1>2. Rank(t.state) \in Int /\ Rank(r.state) \in Int /\ Rank(u.state) \in Int
  BY <1>1, RankInjective
<1>3. Rank(t.state) = Rank(r.state) => t.state = r.state
  BY <1>1, RankInjective
<1>4. QED
  BY <1>1, <1>2, <1>3 DEF Behind

\* A row that kept its state and its hold id is not behind itself.
LEMMA BehindSelf ==
  ASSUME NEW t \in Row \cup {Absent}, NEW r \in Row \cup {Absent},
         r.state = t.state, r.hold = t.hold
  PROVE  Behind(t, r)
<1>1. t.state \in State \cup {"none"}
  BY RowFields
<1>2. Rank(t.state) \in Int
  BY <1>1, RankInjective
<1>3. QED
  BY <1>2 DEF Behind

-----------------------------------------------------------------------------
(* What a step leaves alone *)

\* Transfers a recovery worker has claimed stay at least HELD.
LEMMA ClaimedStay ==
  ASSUME Types, transfers' \in [Xfers -> Row \cup {Absent}], RowsGrow, NEW q \in Procs,
         \A x \in claimed[q] : Rank(transfers[x].state) >= 3
  PROVE  \A x \in claimed[q] : Rank(transfers'[x].state) >= 3
<1>1. SUFFICES ASSUME NEW x \in claimed[q] PROVE Rank(transfers'[x].state) >= 3
  OBVIOUS
<1>2. x \in Xfers /\ Rank(transfers[x].state) >= 3
  BY DEF Types
<1>3. transfers[x] \in Row \cup {Absent} /\ transfers'[x] \in Row \cup {Absent}
  BY <1>2 DEF Types
<1>4. transfers[x] # Absent
  <2>1. Rank("none") = 0
    BY DEF Rank
  <2>2. Absent.state = "none"
    BY DEF Absent
  <2>3. QED
    BY <1>2, <2>1, <2>2
<1>5. Rank(transfers[x].state) <= Rank(transfers'[x].state)
  BY <1>2, <1>4 DEF RowsGrow, Behind
<1>6. Rank(transfers[x].state) \in Int /\ Rank(transfers'[x].state) \in Int
  <2>1. /\ transfers[x].state \in State \cup {"none"}
        /\ transfers'[x].state \in State \cup {"none"}
    BY <1>3, RowFields
  <2>2. QED
    BY <2>1, RankInjective
<1>7. QED
  BY <1>2, <1>5, <1>6

\* A process that does not move keeps its invariant while rows and ledger grow.
LEMMA ProcStays ==
  ASSUME Types, Types', RowsGrow, LedgerGrows, NEW q \in Procs, ProcInv(q),
         pc'[q] = pc[q], cur'[q] = cur[q], copy'[q] = copy[q],
         reply'[q] = reply[q], claimed'[q] = claimed[q]
  PROVE  ProcInv(q)'
<1>1. pc'[q] = "idle" => copy'[q] = Absent
  BY DEF ProcInv
<1>2. pc'[q] # "idle" => cur'[q] \in Xfers /\ transfers'[cur'[q]] # Absent
  BY DEF ProcInv, RowsGrow
<1>3. pc'[q] \notin {"idle", "load"} => copy'[q] # Absent
  BY DEF ProcInv
<1>4. ASSUME copy'[q] # Absent
      PROVE  Behind(copy'[q], transfers'[cur'[q]]) /\ HoldFits(copy'[q])
  <2>1. /\ cur[q] \in Xfers /\ transfers[cur[q]] # Absent
        /\ Behind(copy[q], transfers[cur[q]]) /\ HoldFits(copy[q])
    BY <1>4 DEF ProcInv
  <2>2. Behind(transfers[cur[q]], transfers'[cur[q]])
    BY <2>1 DEF RowsGrow
  <2>3. /\ copy[q] \in Row \cup {Absent} /\ transfers[cur[q]] \in Row \cup {Absent}
        /\ transfers'[cur[q]] \in Row \cup {Absent}
    BY <2>1 DEF Types
  <2>4. QED
    BY <2>1, <2>2, <2>3, BehindTrans
<1>5. CopyFits(q)'
  BY DEF ProcInv, CopyFits
<1>6. ReplyInv(q)'
  <2>1. pc[q] # "idle" => cur[q] \in Xfers
    BY DEF ProcInv
  <2>2. QED
    BY <2>1 DEF ProcInv, ReplyInv, LedgerGrows, Types, Ops
<1>7. \A x \in claimed'[q] : Rank(transfers'[x].state) >= 3
  <2>1. transfers' \in [Xfers -> Row \cup {Absent}]
    BY DEF Types
  <2>2. QED
    BY <2>1, ClaimedStay DEF ProcInv
<1>8. QED
  BY <1>1, <1>2, <1>3, <1>4, <1>5, <1>6, <1>7 DEF ProcInv

\* A call keeps its invariant while its caller waits.
LEMMA CallStays ==
  ASSUME Types, RowsGrow, NEW c \in calls, CallInv(c),
         c.by # Nobody => /\ pc'[c.by] = pc[c.by] /\ cur'[c.by] = cur[c.by]
                          /\ reply'[c.by] = reply[c.by]
  PROVE  CallInv(c)'
<1>1. c.xfer \in Xfers
  BY DEF Types
<1>2. QED
  BY <1>1 DEF CallInv, RowsGrow, Behind

\* The shape of every step: process p (or nobody) moves.
LEMMA Keeps ==
  ASSUME Types, Types', SagaInv, NEW p \in Procs \cup {Nobody},
         OthersSame(p), RowsGrow, LedgerGrows,
         \A x \in Xfers : RowInv(x)',
         p \in Procs => ProcInv(p)',
         \A c \in calls' : (c \in calls /\ (c.by = Nobody \/ c.by # p)) \/ CallInv(c)',
         \A c, d \in calls' : c.by = d.by /\ c.by # Nobody => c = d
  PROVE  SagaInv'
<1>1. ASSUME NEW q \in Procs PROVE ProcInv(q)'
  <2>1. CASE q = p
    BY <2>1
  <2>2. CASE q # p
    BY <2>2, ProcStays DEF SagaInv, OthersSame
  <2>3. QED
    BY <2>1, <2>2
<1>2. ASSUME NEW c \in calls' PROVE CallInv(c)'
  <2>1. CASE c \in calls /\ (c.by = Nobody \/ c.by # p)
    <3>1. c.by \in Procs \cup {Nobody}
      BY <2>1 DEF Types
    <3>2. c.by # Nobody => /\ pc'[c.by] = pc[c.by] /\ cur'[c.by] = cur[c.by]
                           /\ reply'[c.by] = reply[c.by]
      BY <2>1, <3>1 DEF OthersSame
    <3>3. QED
      BY <2>1, <3>2, CallStays DEF SagaInv
  <2>2. QED
    BY <2>1
<1>3. QED
  BY <1>1, <1>2 DEF SagaInv

-----------------------------------------------------------------------------
(* The guarded update *)

\* What the transfer database is after a step that leaves it alone.
LEMMA DbSame ==
  ASSUME Types, HistoryIsLegal, KeysInv, UNCHANGED db
  PROVE  /\ RowsGrow /\ KeysInv' /\ HistoryIsLegal'
         /\ transfers' \in [Xfers -> Row \cup {Absent}]
         /\ keys' \in [Keys -> [xfer : Xfers, hash : Specs] \cup {NoKey}]
         /\ trail' \in [Xfers -> Seq(State)]
         /\ status' \in [Xfers -> Seq(State)]
<1>1. RowsGrow
  <2>1. SUFFICES ASSUME NEW x \in Xfers PROVE Behind(transfers[x], transfers'[x])
    BY DEF RowsGrow, db
  <2>2. transfers[x] \in Row \cup {Absent} /\ transfers'[x] = transfers[x]
    BY DEF Types, db
  <2>3. QED
    BY <2>2, BehindSelf
<1>2. QED
  BY <1>1 DEF Types, HistoryIsLegal, KeysInv, db

\* transition, whether or not it loses the race: the row moves on to next or stays.
LEMMA TransitionKeeps ==
  ASSUME Types, SagaInv, HistoryIsLegal, KeysInv,
         NEW p \in Procs, pc[p] # "idle", copy[p] # Absent,
         NEW event, NEW hold \in BOOLEAN, NEW next \in State,
         next = DomainNext(copy[p].state, event),
         Rank(copy[p].state) < Rank(next), <<copy[p].state, next>> \in Edges,
         copy[p].hold => hold,
         next \in {"CREATED", "VALIDATING", "HELD"} => ~hold,
         next \in {"POSTING", "COMPLETED"} => hold,
         hold => holds[cur[p]] # "none",
         next = "COMPLETED" => cur[p] \in entries,
         next = "FAILED" /\ hold => holds[cur[p]] = "released",
         Transition(p, event, hold), UNCHANGED ledger
  PROVE  /\ RowsGrow /\ KeysInv' /\ HistoryIsLegal'
         /\ \A x \in Xfers : RowInv(x)'
         /\ transfers' \in [Xfers -> Row \cup {Absent}]
         /\ keys' \in [Keys -> [xfer : Xfers, hash : Specs] \cup {NoKey}]
         /\ trail' \in [Xfers -> Seq(State)]
         /\ status' \in [Xfers -> Seq(State)]
<1>1. CASE Raced(p)
  <2>1. UNCHANGED db
    BY <1>1 DEF Transition
  <2>2. \A x \in Xfers : RowInv(x)'
    BY <2>1 DEF SagaInv, RowInv, HoldFits, db, ledger
  <2>3. QED
    BY <2>1, <2>2, DbSame
<1>2. CASE ~Raced(p)
  <2> DEFINE x == cur[p]
             old == transfers[x]
             new == [old EXCEPT !.state = next, !.hold = hold]
  <2>1. /\ x \in Xfers /\ old # Absent /\ old \in Row
        /\ old.state = copy[p].state /\ old.hold = copy[p].hold
        /\ old.state \in State /\ old.hold \in BOOLEAN
    <3>1. /\ x \in Xfers /\ old # Absent /\ Behind(copy[p], old)
      BY DEF SagaInv, ProcInv
    <3>2. old \in Row \cup {Absent}
      BY <3>1 DEF Types
    <3>3. QED
      BY <1>2, <3>1, <3>2, RowFields DEF Raced, Behind
  <2>2. /\ transfers' = [transfers EXCEPT ![x] = new]
        /\ trail' = [trail EXCEPT ![x] = Append(@, next)]
        /\ status' = [status EXCEPT ![x] =
                        IF IsTerminal(next) THEN Append(@, next) ELSE @]
        /\ keys' = keys
    BY <1>2, <2>1 DEF Transition, Types, Row
  <2>3. new \in Row /\ new.state = next /\ new.hold = hold
    BY <2>1 DEF Row
  <2>4. new # Absent
    BY <2>3 DEF Absent, State
  <2>5. transfers'[x] = new /\ \A y \in Xfers \ {x} : transfers'[y] = transfers[y]
    BY <2>1, <2>2 DEF Types
  <2>6. RowsGrow
    <3>1. Behind(old, new)
      <4>1. Rank(old.state) \in Int /\ Rank(next) \in Int
        BY <2>1, RankInjective
      <4>2. QED
        BY <2>1, <2>3, <4>1 DEF Behind
    <3>2. ASSUME NEW y \in Xfers \ {x} PROVE Behind(transfers[y], transfers[y])
      BY BehindSelf DEF Types
    <3>3. QED
      BY <2>4, <2>5, <3>1, <3>2 DEF RowsGrow
  <2>7. ASSUME NEW y \in Xfers PROVE RowInv(y)'
    <3>1. RowInv(y) /\ holds' = holds /\ entries' = entries
      BY DEF SagaInv, ledger
    <3>2. CASE y = x
      <4>1. new.state # "none"
        BY <2>3 DEF State
      <4>2. HoldFits(new)
        BY <2>3, <4>1 DEF HoldFits
      <4>3. x \in entries => hold
        BY <2>1, <3>1, <3>2 DEF RowInv
      <4>4. QED
        BY <2>3, <2>5, <3>1, <3>2, <4>2, <4>3 DEF RowInv
    <3>3. CASE y # x
      BY <2>5, <3>1, <3>3 DEF RowInv
    <3>4. QED
      BY <3>2, <3>3
  <2>8. KeysInv'
    <3>1. ASSUME NEW k \in Keys, keys[k] # NoKey PROVE transfers'[keys[k].xfer] # Absent
      <4>1. keys[k].xfer \in Xfers /\ transfers[keys[k].xfer] # Absent
        BY <3>1 DEF KeysInv, Types
      <4>2. QED
        BY <2>6, <4>1 DEF RowsGrow
    <3>2. QED
      BY <2>2, <3>1 DEF KeysInv
  <2>9. HistoryIsLegal'
    <3>1. ASSUME NEW y \in Xfers
          PROVE  LET n == Len(trail'[y])
                     s == transfers'[y].state
                 IN  /\ s = "none" => n = 0
                     /\ s # "none" => n > 0 /\ trail'[y][1] = "CREATED" /\ trail'[y][n] = s
                     /\ \A i \in 1..(n - 1) : <<trail'[y][i], trail'[y][i + 1]>> \in Edges
                     /\ status'[y] = IF IsTerminal(s) THEN <<s>> ELSE <<>>
      <4>1. CASE y # x
        BY <2>1, <2>2, <2>5, <4>1 DEF HistoryIsLegal, Types
      <4>2. CASE y = x
        <5> DEFINE t == trail[x]
        <5>1. /\ t \in Seq(State) /\ Len(t) > 0 /\ t[1] = "CREATED" /\ t[Len(t)] = old.state
              /\ \A i \in 1..(Len(t) - 1) : <<t[i], t[i + 1]>> \in Edges
          BY <2>1 DEF HistoryIsLegal, Types, State
        <5>2. trail'[x] = Append(t, next)
          BY <2>1, <2>2 DEF Types
        <5>3. /\ Len(trail'[x]) = Len(t) + 1
              /\ \A i \in 1..Len(t) : trail'[x][i] = t[i]
              /\ trail'[x][Len(t) + 1] = next
          BY <5>1, <5>2
        <5>4. \A i \in 1..Len(t) : <<trail'[x][i], trail'[x][i + 1]>> \in Edges
          <6>1. SUFFICES ASSUME NEW i \in 1..Len(t)
                         PROVE  <<trail'[x][i], trail'[x][i + 1]>> \in Edges
            OBVIOUS
          <6>2. Len(t) \in Nat
            BY <5>1
          <6>3. CASE i = Len(t)
            <7>1. trail'[x][i] = copy[p].state /\ trail'[x][i + 1] = next
              BY <2>1, <5>1, <5>3, <6>2, <6>3
            <7>2. QED
              BY <7>1
          <6>4. CASE i # Len(t)
            <7>1. i \in 1..(Len(t) - 1) /\ i + 1 \in 1..Len(t) /\ i \in 1..Len(t)
              BY <6>2, <6>4
            <7>2. trail'[x][i] = t[i] /\ trail'[x][i + 1] = t[i + 1]
              BY <5>3, <7>1
            <7>3. QED
              BY <5>1, <7>1, <7>2
          <6>5. QED
            BY <6>3, <6>4
        <5>5. ~IsTerminal(old.state)
          BY <2>1 DEF Edges, IsTerminal
        <5>6. status[x] = <<>>
          BY <2>1, <5>5 DEF HistoryIsLegal
        <5>7. status'[x] = IF IsTerminal(next) THEN <<next>> ELSE <<>>
          <6>1. status'[x] = IF IsTerminal(next) THEN Append(status[x], next) ELSE status[x]
            BY <2>1, <2>2 DEF Types
          <6>2. Append(<<>>, next) = <<next>>
            OBVIOUS
          <6>3. QED
            BY <5>6, <6>1, <6>2
        <5>8. /\ Len(t) \in Nat /\ Len(trail'[x]) > 0 /\ Len(trail'[x]) - 1 = Len(t)
              /\ trail'[x][1] = "CREATED" /\ trail'[x][Len(trail'[x])] = next
          <6>1. Len(t) \in Nat /\ 1 \in 1..Len(t)
            BY <5>1
          <6>2. QED
            BY <5>1, <5>3, <6>1
        <5>9. transfers'[x].state = next /\ next # "none"
          BY <2>3, <2>5 DEF State
        <5>10. QED
          BY <4>2, <5>4, <5>7, <5>8, <5>9
      <4>3. QED
        BY <4>1, <4>2
    <3>2. QED
      BY <3>1 DEF HistoryIsLegal
  <2>10. /\ transfers' \in [Xfers -> Row \cup {Absent}]
         /\ keys' \in [Keys -> [xfer : Xfers, hash : Specs] \cup {NoKey}]
         /\ trail' \in [Xfers -> Seq(State)]
         /\ status' \in [Xfers -> Seq(State)]
    BY <2>1, <2>2, <2>3 DEF Types
  <2>11. QED
    BY <2>6, <2>7, <2>8, <2>9, <2>10
<1>3. QED
  BY <1>1, <1>2
-----------------------------------------------------------------------------
(* Steps of a process that makes no call *)

\* A process that does not wait for an answer has no call at the ledger.
LEMMA NoCalls ==
  ASSUME Types, SagaInv, NEW p \in Procs, pc[p] \notin Ops \/ reply[p] # "none"
  PROVE  \A c \in calls : c.by # p
BY SagaProcsAssumption DEF Types, SagaInv, CallInv

\* Process p moves, the ledger and its calls stay.
LEMMA MoveKeeps ==
  ASSUME IInv, NEW p \in Procs, OthersSame(p), RowsGrow,
         UNCHANGED <<ledger, calls>>, pc[p] \notin Ops \/ reply[p] # "none",
         \A x \in Xfers : RowInv(x)', ProcInv(p)',
         KeysInv', HistoryIsLegal', Types'
  PROVE  IInv'
<1>1. LedgerGrows
  BY DEF LedgerGrows, ledger
<1>2. \A c \in calls' : c \in calls /\ c.by # p
  BY NoCalls DEF IInv
<1>3. \A c, d \in calls' : c.by = d.by /\ c.by # Nobody => c = d
  BY DEF IInv, SagaInv
<1>4. SagaInv'
  BY <1>1, <1>2, <1>3, Keeps DEF IInv
<1>5. QED
  BY <1>4 DEF IInv

\* What a step of the transfer database alone has to show.
DbKeeps ==
  /\ RowsGrow /\ KeysInv' /\ HistoryIsLegal'
  /\ \A x \in Xfers : RowInv(x)'
  /\ transfers' \in [Xfers -> Row \cup {Absent}]
  /\ keys' \in [Keys -> [xfer : Xfers, hash : Specs] \cup {NoKey}]
  /\ trail' \in [Xfers -> Seq(State)]
  /\ status' \in [Xfers -> Seq(State)]

\* A step that touches neither the rows nor the ledger.
LEMMA DbSameKeeps ==
  ASSUME IInv, UNCHANGED db, UNCHANGED ledger
  PROVE  DbKeeps
<1>1. \A x \in Xfers : RowInv(x)'
  BY DEF IInv, SagaInv, RowInv, HoldFits, db, ledger
<1>2. QED
  BY <1>1, DbSame DEF IInv, DbKeeps

\* ... then Drive goes round its loop, or on to the budget check.
LEMMA GotoKeeps ==
  ASSUME IInv, NEW p \in Procs, pc[p] # "idle",
         pc[p] \notin Ops \/ reply[p] # "none", DbKeeps,
         NEW at \in {"load", "budget"},
         at = "budget" => copy[p] # Absent /\ Rank(copy[p].state) >= 3,
         Goto(p, at), UNCHANGED <<ledger, calls, faults, expiries>>
  PROVE  IInv'
<1>1. Types'
  BY DEF IInv, Types, DbKeeps, Goto, ledger
<1>2. OthersSame(p)
  BY DEF IInv, Types, Goto, OthersSame
<1>3. /\ pc'[p] = at /\ reply'[p] = "none" /\ cur'[p] = cur[p] /\ copy'[p] = copy[p]
      /\ claimed'[p] = claimed[p]
  BY DEF IInv, Types, Goto
<1>4. ProcInv(p)'
  <2>1. cur[p] \in Xfers /\ transfers[cur[p]] # Absent /\ transfers'[cur[p]] # Absent
    BY DEF IInv, SagaInv, ProcInv, DbKeeps, RowsGrow
  <2>2. ASSUME copy[p] # Absent
        PROVE  Behind(copy[p], transfers'[cur[p]]) /\ HoldFits(copy[p])
    <3>1. /\ Behind(copy[p], transfers[cur[p]]) /\ HoldFits(copy[p])
          /\ Behind(transfers[cur[p]], transfers'[cur[p]])
      BY <2>1, <2>2 DEF IInv, SagaInv, ProcInv, DbKeeps, RowsGrow
    <3>2. /\ copy[p] \in Row \cup {Absent} /\ transfers[cur[p]] \in Row \cup {Absent}
          /\ transfers'[cur[p]] \in Row \cup {Absent}
      BY <2>1, <1>1 DEF IInv, Types
    <3>3. QED
      BY <3>1, <3>2, BehindTrans
  <2>3. CopyFits(p)' /\ ReplyInv(p)'
    BY <1>3 DEF CopyFits, ReplyInv, Ops
  <2>4. \A x \in claimed[p] : Rank(transfers'[x].state) >= 3
    BY <1>1, ClaimedStay DEF IInv, SagaInv, ProcInv, DbKeeps
  <2>5. QED
    BY <1>3, <2>1, <2>2, <2>3, <2>4 DEF ProcInv
<1>5. QED
  BY <1>1, <1>2, <1>4, MoveKeeps DEF DbKeeps

\* ... or Drive returns.
LEMMA ReturnKeeps ==
  ASSUME IInv, NEW p \in Procs, pc[p] # "idle",
         pc[p] \notin Ops \/ reply[p] # "none", DbKeeps,
         Return(p), UNCHANGED <<ledger, calls, faults, expiries>>
  PROVE  IInv'
<1>1. Types'
  BY DEF IInv, Types, DbKeeps, Return, ledger
<1>2. OthersSame(p)
  BY DEF IInv, Types, Return, OthersSame
<1>3. pc'[p] = "idle" /\ reply'[p] = "none" /\ copy'[p] = Absent /\ claimed'[p] = claimed[p]
  BY DEF IInv, Types, Return
<1>4. ProcInv(p)'
  <2>1. CopyFits(p)' /\ ReplyInv(p)'
    BY <1>3 DEF CopyFits, ReplyInv, Ops
  <2>2. \A x \in claimed[p] : Rank(transfers'[x].state) >= 3
    BY <1>1, ClaimedStay DEF IInv, SagaInv, ProcInv, DbKeeps
  <2>3. QED
    BY <1>3, <2>1, <2>2 DEF ProcInv
<1>5. QED
  BY <1>1, <1>2, <1>4, MoveKeeps DEF DbKeeps

-----------------------------------------------------------------------------
(* The steps of Drive *)

\* The edges of the state machine, each with its event.
LEMMA DomainSteps ==
  /\ DomainNext("CREATED", "START") = "VALIDATING"
  /\ DomainNext("VALIDATING", "VALIDATED") = "HELD"
  /\ DomainNext("VALIDATING", "VALIDATION_FAILED") = "FAILED"
  /\ DomainNext("HELD", "POSTING_STARTED") = "POSTING"
  /\ DomainNext("HELD", "HOLD_FAILED") = "RELEASING"
  /\ DomainNext("HELD", "RECOVERY_EXHAUSTED") = "RELEASING"
  /\ DomainNext("POSTING", "RECOVERY_EXHAUSTED") = "RELEASING"
  /\ DomainNext("POSTING", "POSTED") = "COMPLETED"
  /\ DomainNext("POSTING", "POST_FAILED") = "RELEASING"
  /\ DomainNext("RELEASING", "RELEASED") = "FAILED"
BY DEF DomainNext

\* The ranks, one by one.
LEMMA Ranks ==
  /\ Rank("none") = 0 /\ Rank("CREATED") = 1 /\ Rank("VALIDATING") = 2
  /\ Rank("HELD") = 3 /\ Rank("POSTING") = 4 /\ Rank("RELEASING") = 5
  /\ Rank("COMPLETED") = 6 /\ Rank("FAILED") = 7
BY DEF Rank

\* What a process knows of its copy and of the row.
LEMMA CopyFacts ==
  ASSUME IInv, NEW p \in Procs, copy[p] # Absent
  PROVE  /\ pc[p] # "idle" /\ cur[p] \in Xfers
         /\ copy[p] \in Row /\ copy[p].state \in State /\ copy[p].hold \in BOOLEAN
         /\ copy[p].hold => holds[cur[p]] # "none"
         /\ copy[p].hold => transfers[cur[p]].hold
         /\ copy[p].state \in {"CREATED", "VALIDATING", "HELD"} => ~copy[p].hold
         /\ copy[p].state \in {"POSTING", "COMPLETED"} => copy[p].hold
<1>1. /\ pc[p] # "idle" /\ cur[p] \in Xfers /\ Behind(copy[p], transfers[cur[p]])
      /\ HoldFits(copy[p]) /\ RowInv(cur[p])
  BY DEF IInv, SagaInv, ProcInv
<1>2. copy[p] \in Row \cup {Absent}
  BY DEF IInv, Types
<1>3. copy[p] \in Row /\ copy[p].state \in State /\ copy[p].hold \in BOOLEAN
  BY <1>2, RowFields
<1>4. QED
  BY <1>1, <1>3 DEF Behind, HoldFits, RowInv

\* CREATED -> VALIDATING keeps the invariant.
LEMMA StartKeeps == ASSUME IInv, NEW p \in Procs, Start(p) PROVE IInv'
<1>1. /\ pc[p] = "start" /\ pc[p] \notin Ops /\ copy[p] # Absent
      /\ copy[p].state = "CREATED"
  BY DEF Start, Ops, IInv, SagaInv, ProcInv, CopyFits
<1>2. Transition(p, "START", copy[p].hold) /\ Goto(p, "load")
      /\ UNCHANGED <<ledger, calls, faults, expiries>>
  BY DEF Start, Advance
<1>3. DbKeeps
  <2>1. /\ Rank("CREATED") < Rank("VALIDATING") /\ "VALIDATING" \in State
        /\ <<"CREATED", "VALIDATING">> \in Edges
    BY Ranks DEF State, Edges
  <2>2. /\ copy[p].hold = FALSE /\ copy[p].hold \in BOOLEAN
        /\ "VALIDATING" = DomainNext(copy[p].state, "START")
    BY <1>1, CopyFacts, DomainSteps
  <2>3. QED
    BY <1>1, <1>2, <2>1, <2>2, TransitionKeeps DEF IInv, DbKeeps
<1>4. QED
  BY <1>1, <1>2, <1>3, GotoKeeps

\* So do both outcomes of the validation.
LEMMA ValidateKeeps == ASSUME IInv, NEW p \in Procs, Validate(p) PROVE IInv'
<1>1. /\ pc[p] = "validate" /\ pc[p] \notin Ops /\ copy[p] # Absent
      /\ copy[p].state = "VALIDATING"
  BY DEF Validate, Ops, IInv, SagaInv, ProcInv, CopyFits
<1>2. /\ copy[p].hold = FALSE /\ copy[p].hold \in BOOLEAN
      /\ "HELD" = DomainNext(copy[p].state, "VALIDATED")
      /\ "FAILED" = DomainNext(copy[p].state, "VALIDATION_FAILED")
  BY <1>1, CopyFacts, DomainSteps
<1>3. /\ Rank("VALIDATING") < Rank("HELD") /\ Rank("VALIDATING") < Rank("FAILED")
      /\ "HELD" \in State /\ "FAILED" \in State
      /\ <<"VALIDATING", "HELD">> \in Edges /\ <<"VALIDATING", "FAILED">> \in Edges
  BY Ranks DEF State, Edges
<1>4. CASE Advance(p, "VALIDATED", copy[p].hold)
  <2>1. DbKeeps
    BY <1>1, <1>2, <1>3, <1>4, TransitionKeeps DEF IInv, DbKeeps, Advance
  <2>2. QED
    BY <1>1, <1>4, <2>1, GotoKeeps DEF Advance
<1>5. CASE /\ Transition(p, "VALIDATION_FAILED", copy[p].hold)
           /\ IF Raced(p) THEN Return(p) ELSE Goto(p, "load")
           /\ UNCHANGED <<ledger, calls, faults, expiries>>
  <2>1. DbKeeps
    BY <1>1, <1>2, <1>3, <1>5, TransitionKeeps DEF IInv, DbKeeps
  <2>2. QED
    BY <1>1, <1>5, <2>1, GotoKeeps, ReturnKeeps
<1>6. QED
  BY <1>4, <1>5 DEF Validate

\* The hold id becomes known to the saga: PlaceHold was answered OK.
LEMMA HoldAnsweredKeeps == ASSUME IInv, NEW p \in Procs, HoldAnswered(p) PROVE IInv'
<1>1. /\ pc[p] = "hold" /\ pc[p] # "idle" /\ reply[p] # "none" /\ copy[p] # Absent
      /\ copy[p].state = "HELD"
      /\ reply[p] = "OK" => holds[cur[p]] # "none"
  BY DEF HoldAnswered, IInv, SagaInv, ProcInv, CopyFits, ReplyInv
<1>2. /\ copy[p].hold = FALSE /\ copy[p].hold \in BOOLEAN
      /\ "POSTING" = DomainNext(copy[p].state, "POSTING_STARTED")
      /\ "RELEASING" = DomainNext(copy[p].state, "HOLD_FAILED")
  BY <1>1, CopyFacts, DomainSteps
<1>3. /\ Rank("HELD") < Rank("POSTING") /\ Rank("HELD") < Rank("RELEASING")
      /\ "POSTING" \in State /\ "RELEASING" \in State
      /\ <<"HELD", "POSTING">> \in Edges /\ <<"HELD", "RELEASING">> \in Edges
  BY Ranks DEF State, Edges
<1>4. CASE reply[p] = "OK" /\ Advance(p, "POSTING_STARTED", TRUE)
  <2>1. DbKeeps
    BY <1>1, <1>2, <1>3, <1>4, TransitionKeeps DEF IInv, DbKeeps, Advance
  <2>2. QED
    BY <1>1, <1>4, <2>1, GotoKeeps DEF Advance
<1>5. CASE reply[p] # "OK" /\ Advance(p, "HOLD_FAILED", copy[p].hold)
  <2>1. DbKeeps
    BY <1>1, <1>2, <1>3, <1>5, TransitionKeeps DEF IInv, DbKeeps, Advance
  <2>2. QED
    BY <1>1, <1>5, <2>1, GotoKeeps DEF Advance
<1>6. QED
  BY <1>4, <1>5 DEF HoldAnswered

\* COMPLETED is written because the ledger has answered OK to the post.
LEMMA PostAnsweredKeeps == ASSUME IInv, NEW p \in Procs, PostAnswered(p) PROVE IInv'
<1>1. /\ pc[p] = "post" /\ pc[p] # "idle" /\ reply[p] # "none" /\ copy[p] # Absent
      /\ copy[p].state = "POSTING"
      /\ reply[p] = "OK" => cur[p] \in entries
  BY DEF PostAnswered, IInv, SagaInv, ProcInv, CopyFits, ReplyInv
<1>2. /\ copy[p].hold = TRUE /\ copy[p].hold \in BOOLEAN /\ holds[cur[p]] # "none"
      /\ "COMPLETED" = DomainNext(copy[p].state, "POSTED")
      /\ "RELEASING" = DomainNext(copy[p].state, "POST_FAILED")
  BY <1>1, CopyFacts, DomainSteps
<1>3. /\ Rank("POSTING") < Rank("COMPLETED") /\ Rank("POSTING") < Rank("RELEASING")
      /\ "COMPLETED" \in State /\ "RELEASING" \in State
      /\ <<"POSTING", "COMPLETED">> \in Edges /\ <<"POSTING", "RELEASING">> \in Edges
  BY Ranks DEF State, Edges
<1>4. CASE reply[p] = "OK" /\ Advance(p, "POSTED", copy[p].hold)
  <2>1. DbKeeps
    BY <1>1, <1>2, <1>3, <1>4, TransitionKeeps DEF IInv, DbKeeps, Advance
  <2>2. QED
    BY <1>1, <1>4, <2>1, GotoKeeps DEF Advance
<1>5. CASE reply[p] # "OK" /\ Advance(p, "POST_FAILED", copy[p].hold)
  <2>1. DbKeeps
    BY <1>1, <1>2, <1>3, <1>5, TransitionKeeps DEF IInv, DbKeeps, Advance
  <2>2. QED
    BY <1>1, <1>5, <2>1, GotoKeeps DEF Advance
<1>6. QED
  BY <1>4, <1>5 DEF PostAnswered

\* FAILED is written because the hold is released, or because no hold id was ever
\* written.
LEMMA ReleaseKeeps ==
  ASSUME IInv, NEW p \in Procs, ReleaseAnswered(p) \/ ReleaseNothing(p)
  PROVE  IInv'
<1>1. /\ pc[p] \in {"release", "released"} /\ pc[p] # "idle" /\ copy[p] # Absent
      /\ pc[p] \notin Ops \/ reply[p] # "none"
      /\ copy[p].state = "RELEASING"
      /\ pc[p] = "released" => ~copy[p].hold
      /\ pc[p] = "release" /\ reply[p] = "OK" => holds[cur[p]] = "released"
      /\ pc[p] = "release" => reply[p] # "NOT_FOUND"
  BY DEF ReleaseAnswered, ReleaseNothing, IInv, SagaInv, ProcInv, CopyFits, ReplyInv, Ops
<1>2. /\ copy[p].hold \in BOOLEAN
      /\ copy[p].hold => holds[cur[p]] # "none"
      /\ "FAILED" = DomainNext(copy[p].state, "RELEASED")
  BY <1>1, CopyFacts, DomainSteps
<1>3. /\ Rank("RELEASING") < Rank("FAILED") /\ "FAILED" \in State
      /\ <<"RELEASING", "FAILED">> \in Edges
  BY Ranks DEF State, Edges
<1>4. CASE /\ copy[p].hold => holds[cur[p]] = "released"
           /\ Advance(p, "RELEASED", copy[p].hold)
  <2>1. DbKeeps
    BY <1>1, <1>2, <1>3, <1>4, TransitionKeeps DEF IInv, DbKeeps, Advance
  <2>2. QED
    BY <1>1, <1>4, <2>1, GotoKeeps DEF Advance
<1>5. CASE Return(p) /\ UNCHANGED <<db, ledger, calls, faults, expiries>>
  BY <1>1, <1>5, DbSameKeeps, ReturnKeeps
<1>6. QED
  BY <1>1, <1>4, <1>5 DEF ReleaseAnswered, ReleaseNothing

-----------------------------------------------------------------------------
(* The recovery worker after its calls *)

\* The recovery worker records an entry it found, or goes on to the budget check.
LEMMA ExistsAnsweredKeeps == ASSUME IInv, NEW p \in Procs, ExistsAnswered(p) PROVE IInv'
<1>1. /\ pc[p] = "exists" /\ pc[p] # "idle" /\ reply[p] # "none" /\ copy[p] # Absent
      /\ copy[p].state = "POSTING"
      /\ reply[p] = "OK" => cur[p] \in entries
  BY DEF ExistsAnswered, IInv, SagaInv, ProcInv, CopyFits, ReplyInv
<1>2. /\ copy[p].hold = TRUE /\ copy[p].hold \in BOOLEAN /\ holds[cur[p]] # "none"
      /\ "COMPLETED" = DomainNext(copy[p].state, "POSTED")
  BY <1>1, CopyFacts, DomainSteps
<1>3. /\ Rank("POSTING") < Rank("COMPLETED") /\ Rank("POSTING") >= 3
      /\ "COMPLETED" \in State /\ <<"POSTING", "COMPLETED">> \in Edges
  BY Ranks DEF State, Edges
<1>4. UNCHANGED <<ledger, calls, faults, expiries>>
  BY DEF ExistsAnswered
<1>5. CASE reply[p] = "OK" /\ Transition(p, "POSTED", copy[p].hold) /\ Return(p)
  <2>1. DbKeeps
    BY <1>1, <1>2, <1>3, <1>4, <1>5, TransitionKeeps DEF IInv, DbKeeps
  <2>2. QED
    BY <1>1, <1>4, <1>5, <2>1, ReturnKeeps
<1>6. CASE Goto(p, "budget") /\ UNCHANGED db
  <2>1. DbKeeps
    BY <1>4, <1>6, DbSameKeeps
  <2>2. QED
    BY <1>1, <1>3, <1>4, <1>6, <2>1, GotoKeeps
<1>7. QED
  BY <1>5, <1>6 DEF ExistsAnswered

\* The budget check: given up only from HELD or POSTING.
LEMMA BudgetKeeps == ASSUME IInv, NEW p \in Procs, Budget(p) PROVE IInv'
<1>1. /\ pc[p] = "budget" /\ pc[p] # "idle" /\ pc[p] \notin Ops /\ copy[p] # Absent
      /\ Rank(copy[p].state) >= 3
  BY DEF Budget, Ops, IInv, SagaInv, ProcInv, CopyFits
<1>2. /\ copy[p].hold \in BOOLEAN
      /\ copy[p].hold => holds[cur[p]] # "none"
      /\ copy[p].state \in State
  BY <1>1, CopyFacts
<1>3. CASE /\ copy[p].state # "RELEASING" /\ ~IsTerminal(copy[p].state)
           /\ Advance(p, "RECOVERY_EXHAUSTED", copy[p].hold)
  <2>1. copy[p].state \in {"HELD", "POSTING"}
    BY <1>1, <1>2, <1>3, Ranks DEF State, IsTerminal
  <2>2. /\ "RELEASING" = DomainNext(copy[p].state, "RECOVERY_EXHAUSTED")
        /\ Rank(copy[p].state) < Rank("RELEASING") /\ "RELEASING" \in State
        /\ <<copy[p].state, "RELEASING">> \in Edges
    BY <2>1, DomainSteps, Ranks DEF State, Edges
  <2>3. DbKeeps
    BY <1>1, <1>2, <1>3, <2>2, TransitionKeeps DEF IInv, DbKeeps, Advance
  <2>4. QED
    BY <1>1, <1>3, <2>3, GotoKeeps DEF Advance
<1>4. CASE Return(p) /\ UNCHANGED <<db, ledger, calls, faults, expiries>>
  BY <1>1, <1>4, DbSameKeeps, ReturnKeeps
<1>5. CASE Goto(p, "load") /\ UNCHANGED <<db, ledger, calls, faults, expiries>>
  BY <1>1, <1>5, DbSameKeeps, GotoKeeps
<1>6. QED
  BY <1>3, <1>4, <1>5 DEF Budget

-----------------------------------------------------------------------------
(* Steps that send or abandon a call *)

\* Calls nobody waits for any more are calls of the same kind.
LEMMA OrphanedCalls ==
  ASSUME Types, NEW p \in Procs
  PROVE  /\ Orphaned(p) \subseteq [op : Ops, xfer : Xfers, at : {"read", "apply"},
                                   by : Procs \cup {Nobody}]
         /\ \A c \in Orphaned(p) :
              \/ c \in calls /\ c.by # p
              \/ /\ c.by = Nobody
                 /\ \E b \in calls : c.xfer = b.xfer /\ c.op = b.op
<1>1. ASSUME NEW b \in calls, b.by = p
      PROVE  /\ [b EXCEPT !.by = Nobody] \in [op : Ops, xfer : Xfers,
                               at : {"read", "apply"}, by : Procs \cup {Nobody}]
             /\ [b EXCEPT !.by = Nobody].by = Nobody
             /\ [b EXCEPT !.by = Nobody].xfer = b.xfer
             /\ [b EXCEPT !.by = Nobody].op = b.op
  BY DEF Types
<1>2. ASSUME NEW c \in Orphaned(p)
      PROVE  /\ c \in [op : Ops, xfer : Xfers, at : {"read", "apply"},
                       by : Procs \cup {Nobody}]
             /\ \/ c \in calls /\ c.by # p
                \/ /\ c.by = Nobody
                   /\ \E b \in calls : c.xfer = b.xfer /\ c.op = b.op
  <2>1. PICK b \in calls : c = IF b.by = p THEN [b EXCEPT !.by = Nobody] ELSE b
    BY DEF Orphaned
  <2>2. CASE b.by = p
    BY <1>1, <2>1, <2>2
  <2>3. CASE b.by # p
    BY <2>1, <2>3 DEF Types
  <2>4. QED
    BY <2>2, <2>3
<1>3. QED
  BY <1>2

\* A process without a call leaves none behind.
LEMMA NothingOrphaned ==
  ASSUME Types, SagaInv, NEW p \in Procs, pc[p] \notin Ops \/ reply[p] # "none"
  PROVE  Orphaned(p) = calls
BY NoCalls DEF Orphaned

\* Process p gives up its calls and may send a new one, about a transfer that has
\* its hold id when the call needs one.
LEMMA CallerKeeps ==
  ASSUME IInv, NEW p \in Procs, OthersSame(p), UNCHANGED <<db, ledger>>, ProcInv(p)',
         Types', NEW op \in Ops, NEW x \in Xfers,
         \/ calls' = Orphaned(p)
         \/ /\ calls' = Orphaned(p) \cup {Call(p, op, x)}
            /\ pc'[p] = op /\ cur'[p] = x /\ reply'[p] = "none"
            /\ transfers[x] # Absent
            /\ op \in {"post", "release"} => transfers[x].hold
  PROVE  IInv'
<1> DEFINE n == Call(p, op, x)
<1>1. DbKeeps
  BY DbSameKeeps
<1>2. LedgerGrows
  BY DEF LedgerGrows, ledger
<1>3. n.by = p /\ n.op = op /\ n.xfer = x /\ p # Nobody
  BY SagaProcsAssumption DEF Call
<1>4. ASSUME NEW c \in calls'
      PROVE  (c \in calls /\ (c.by = Nobody \/ c.by # p)) \/ CallInv(c)'
  <2>1. CASE c \in Orphaned(p)
    <3>1. CASE c.by = Nobody /\ \E b \in calls : c.xfer = b.xfer /\ c.op = b.op
      BY <3>1 DEF IInv, SagaInv, CallInv, db
    <3>2. QED
      BY <2>1, <3>1, OrphanedCalls DEF IInv
  <2>2. CASE c \notin Orphaned(p)
    <3>1. /\ c = n /\ pc'[p] = op /\ cur'[p] = x /\ reply'[p] = "none"
          /\ transfers[x] # Absent
          /\ op \in {"post", "release"} => transfers[x].hold
      BY <2>2
    <3>2. CallInv(n)'
      BY <1>3, <3>1 DEF CallInv, db
    <3>3. QED
      BY <3>1, <3>2
  <2>3. QED
    BY <2>1, <2>2
<1>5. ASSUME NEW c \in calls', NEW d \in calls', c.by = d.by, c.by # Nobody
      PROVE  c = d
  <2>1. /\ c = n \/ (c \in calls /\ c.by # p)
        /\ d = n \/ (d \in calls /\ d.by # p)
    BY <1>5, OrphanedCalls DEF IInv
  <2>2. QED
    BY <1>3, <1>5, <2>1 DEF IInv, SagaInv
<1>6. SagaInv'
  BY <1>1, <1>2, <1>4, <1>5, Keeps DEF IInv, DbKeeps
<1>7. QED
  BY <1>1, <1>6 DEF IInv, DbKeeps

\* The type of a new call.
LEMMA CallType ==
  ASSUME NEW p \in Procs, NEW op \in Ops, NEW x \in Xfers
  PROVE  Call(p, op, x) \in [op : Ops, xfer : Xfers, at : {"read", "apply"},
                             by : Procs \cup {Nobody}]
BY DEF Call

\* Drive reads the row: the copy is fresh, and a post or release is sent only with
\* the hold id on the row.
LEMMA LoadKeeps == ASSUME IInv, NEW p \in Procs, Load(p) PROVE IInv'
<1> DEFINE x == cur[p]
           at == Dispatch(transfers[x])
<1>1. /\ pc[p] = "load" /\ pc[p] # "idle" /\ pc[p] \notin Ops /\ reply[p] = "none"
      /\ x \in Xfers /\ transfers[x] # Absent /\ RowInv(x)
  BY DEF Load, Ops, IInv, SagaInv, ProcInv, ReplyInv
<1>2. transfers[x] \in Row /\ transfers[x].state \in State
  <2>1. transfers[x] \in Row \cup {Absent}
    BY <1>1 DEF IInv, Types
  <2>2. QED
    BY <1>1, <2>1, RowFields
<1>3. UNCHANGED <<db, ledger, faults, expiries>>
  BY DEF Load
<1>4. CASE at = "idle" /\ Return(p) /\ UNCHANGED calls
  BY <1>1, <1>3, <1>4, DbSameKeeps, ReturnKeeps
<1>5. CASE /\ at # "idle"
           /\ pc' = [pc EXCEPT ![p] = at]
           /\ copy' = [copy EXCEPT ![p] = transfers[x]]
           /\ calls' = IF at \in Ops THEN calls \cup {Call(p, at, x)} ELSE calls
           /\ UNCHANGED <<cur, spec, reply, claimed>>
  <2>1. /\ at \in {"start", "validate", "hold", "post", "release", "released"}
        /\ at = "start" => transfers[x].state = "CREATED"
        /\ at = "validate" => transfers[x].state = "VALIDATING"
        /\ at = "hold" => transfers[x].state = "HELD"
        /\ at = "post" => transfers[x].state = "POSTING"
        /\ at = "release" => transfers[x].state = "RELEASING" /\ transfers[x].hold
        /\ at = "released" => transfers[x].state = "RELEASING" /\ ~transfers[x].hold
    BY <1>2, <1>5 DEF Dispatch, State
  <2> HIDE DEF at
  <2>2. Types'
    <3>1. at \in {"idle", "load", "start", "validate", "released", "budget"} \cup Ops
      BY <2>1 DEF Ops
    <3>2. calls' \subseteq [op : Ops, xfer : Xfers, at : {"read", "apply"},
                            by : Procs \cup {Nobody}]
      BY <1>1, <1>5, CallType DEF IInv, Types
    <3>3. QED
      BY <1>2, <1>3, <1>5, <3>1, <3>2 DEF IInv, Types, db, ledger
  <2>3. /\ OthersSame(p)
        /\ pc'[p] = at /\ copy'[p] = transfers[x] /\ cur'[p] = x /\ reply'[p] = "none"
        /\ claimed'[p] = claimed[p] /\ transfers' = transfers
    BY <1>1, <1>3, <1>5 DEF IInv, Types, OthersSame, db
  <2>4. ProcInv(p)'
    <3>1. Behind(transfers[x], transfers[x]) /\ HoldFits(transfers[x])
      BY <1>1, <1>2, BehindSelf DEF RowInv
    <3>2. CopyFits(p)' /\ ReplyInv(p)'
      BY <2>1, <2>3 DEF CopyFits, ReplyInv, Ops
    <3>3. \A y \in claimed[p] : Rank(transfers[y].state) >= 3
      BY DEF IInv, SagaInv, ProcInv
    <3>4. QED
      BY <1>1, <2>1, <2>3, <3>1, <3>2, <3>3 DEF ProcInv
  <2>5. at = "post" => transfers[x].hold
    BY <1>1, <2>1 DEF RowInv, HoldFits
  <2>6. Orphaned(p) = calls
    BY <1>1, NothingOrphaned DEF IInv
  <2>7. CASE at \in Ops
    BY <1>1, <1>3, <1>5, <2>1, <2>2, <2>3, <2>4, <2>5, <2>6, <2>7, CallerKeeps
  <2>8. CASE at \notin Ops
    <3>1. "hold" \in Ops /\ calls' = Orphaned(p)
      BY <1>5, <2>6, <2>8 DEF Ops
    <3>2. QED
      BY <1>1, <1>3, <2>2, <2>3, <2>4, <3>1, CallerKeeps
  <2>9. QED
    BY <2>7, <2>8
<1>6. QED
  BY <1>4, <1>5 DEF Load

\* recoverOne reads the row of a claimed transfer.
LEMMA RecoverKeeps ==
  ASSUME IInv, NEW p \in Procs, NEW x \in Xfers, Recover(p, x) PROVE IInv'
<1> DEFINE at == IF transfers[x].state = "POSTING" THEN "exists" ELSE "budget"
<1>1. /\ pc[p] = "idle" /\ pc[p] \notin Ops /\ reply[p] = "none" /\ x \in claimed[p]
      /\ Rank(transfers[x].state) >= 3 /\ RowInv(x)
      /\ UNCHANGED <<db, ledger, spec, reply, faults, expiries>>
  BY DEF Recover, Ops, IInv, SagaInv, ProcInv, ReplyInv
<1>2. transfers[x] \in Row \cup {Absent}
  BY DEF IInv, Types
<1>3. transfers[x] # Absent /\ transfers[x] \in Row
  BY <1>1, <1>2, Ranks DEF Absent
<1>4. Types'
  <2>1. calls' \subseteq [op : Ops, xfer : Xfers, at : {"read", "apply"},
                          by : Procs \cup {Nobody}]
    BY CallType DEF IInv, Types, Recover, Ops
  <2>2. pc' \in [Procs -> {"idle", "load", "start", "validate", "released", "budget"}
                           \cup Ops]
    BY DEF IInv, Types, Recover, Ops
  <2>3. claimed' \in [Procs -> SUBSET Xfers] /\ cur' \in [Procs -> Xfers \cup {NoXfer}]
        /\ copy' \in [Procs -> Row \cup {Absent}]
    BY <1>2 DEF IInv, Types, Recover
  <2>4. QED
    BY <1>1, <2>1, <2>2, <2>3 DEF IInv, Types, db, ledger
<1>5. /\ OthersSame(p)
      /\ pc'[p] = at /\ copy'[p] = transfers[x] /\ cur'[p] = x /\ reply'[p] = "none"
      /\ claimed'[p] \subseteq claimed[p] /\ transfers' = transfers
  BY <1>1 DEF IInv, Types, Recover, OthersSame, db
<1>6. ProcInv(p)'
  <2>1. Behind(transfers[x], transfers[x]) /\ HoldFits(transfers[x])
    BY <1>1, <1>2, BehindSelf DEF RowInv
  <2>2. CopyFits(p)' /\ ReplyInv(p)'
    BY <1>1, <1>5 DEF CopyFits, ReplyInv, Ops
  <2>3. \A y \in claimed'[p] : Rank(transfers[y].state) >= 3
    BY <1>5 DEF IInv, SagaInv, ProcInv
  <2>4. QED
    BY <1>3, <1>5, <2>1, <2>2, <2>3 DEF ProcInv
<1>7. Orphaned(p) = calls
  BY <1>1, NothingOrphaned DEF IInv
<1>8. "exists" \in Ops
  BY DEF Ops
<1>9. CASE at = "exists"
  <2>1. calls' = Orphaned(p) \cup {Call(p, "exists", x)}
    BY <1>7, <1>9 DEF Recover
  <2>2. QED
    BY <1>1, <1>3, <1>4, <1>5, <1>6, <1>8, <1>9, <2>1, CallerKeeps
<1>10. CASE at # "exists"
  <2>1. calls' = Orphaned(p)
    BY <1>7, <1>10 DEF Recover
  <2>2. QED
    BY <1>1, <1>4, <1>5, <1>6, <1>8, <2>1, CallerKeeps
<1>11. QED
  BY <1>9, <1>10

\* A call is sent again, given up, or its caller dies.
LEMMA RetryKeeps == ASSUME IInv, NEW p \in Procs, Retry(p) PROVE IInv'
<1>1. /\ pc[p] \in Ops /\ pc[p] \notin {"idle", "load"} /\ copy[p] # Absent
      /\ cur[p] \in Xfers /\ transfers[cur[p]] # Absent
      /\ pc[p] \in {"post", "release"} => transfers[cur[p]].hold
  <2>1. pc[p] \in Ops /\ pc[p] \notin {"idle", "load"}
    BY DEF Retry, Ops
  <2>2. copy[p] # Absent /\ cur[p] \in Xfers /\ transfers[cur[p]] # Absent
    BY <2>1 DEF IInv, SagaInv, ProcInv
  <2>3. pc[p] \in {"post", "release"} => copy[p].hold
    BY <2>2, CopyFacts DEF IInv, SagaInv, ProcInv, CopyFits
  <2>4. QED
    BY <2>1, <2>2, <2>3, CopyFacts
<1>2. /\ UNCHANGED <<db, ledger, pc, cur, spec, copy, claimed, expiries>>
      /\ reply' = [reply EXCEPT ![p] = "none"]
      /\ calls' = Orphaned(p) \cup {Call(p, pc[p], cur[p])}
      /\ faults' \in 0..MaxFaults
  BY SagaBoundsAssumption DEF Retry, Fault, IInv, Types
<1>3. Types'
  <2>1. calls' \subseteq [op : Ops, xfer : Xfers, at : {"read", "apply"},
                          by : Procs \cup {Nobody}]
    BY <1>1, <1>2, CallType, OrphanedCalls DEF IInv
  <2>2. QED
    BY <1>2, <2>1 DEF IInv, Types, db, ledger
<1>4. OthersSame(p) /\ reply'[p] = "none" /\ pc'[p] = pc[p] /\ cur'[p] = cur[p]
  BY <1>2 DEF IInv, Types, OthersSame
<1>5. ProcInv(p)'
  BY <1>2, <1>4 DEF IInv, SagaInv, ProcInv, CopyFits, ReplyInv, Behind, HoldFits, db, ledger
<1>6. QED
  BY <1>1, <1>2, <1>3, <1>4, <1>5, CallerKeeps

\* Process p ends where it was, or a recovery worker goes on to the budget check.
LEMMA GiveUpKeeps ==
  ASSUME IInv, NEW p \in Procs, UNCHANGED <<db, ledger>>, Types', OthersSame(p),
         calls' = Orphaned(p), reply'[p] = "none", claimed'[p] \subseteq claimed[p],
         \/ pc'[p] = "idle" /\ copy'[p] = Absent
         \/ /\ pc[p] = "exists" /\ pc'[p] = "budget"
            /\ copy'[p] = copy[p] /\ cur'[p] = cur[p]
  PROVE  IInv'
<1>1. \A x \in claimed'[p] : Rank(transfers'[x].state) >= 3
  BY DEF IInv, SagaInv, ProcInv, db
<1>2. CASE pc'[p] = "idle" /\ copy'[p] = Absent
  <2>1. ProcInv(p)'
    BY <1>1, <1>2 DEF ProcInv, CopyFits, ReplyInv, Ops
  <2>2. CASE Xfers = {}
    <3>1. calls = {} /\ Orphaned(p) = {}
      BY <2>2 DEF IInv, Types, Orphaned
    <3>2. DbKeeps /\ LedgerGrows
      BY DbSameKeeps DEF LedgerGrows, ledger
    <3>3. SagaInv'
      BY <2>1, <3>1, <3>2, Keeps DEF IInv, DbKeeps
    <3>4. QED
      BY <3>2, <3>3 DEF IInv, DbKeeps
  <2>3. CASE Xfers # {}
    <3>1. PICK x \in Xfers : TRUE
      BY <2>3
    <3>2. "hold" \in Ops
      BY DEF Ops
    <3>3. QED
      BY <2>1, <3>1, <3>2, CallerKeeps
  <2>4. QED
    BY <2>2, <2>3
<1>3. CASE /\ pc[p] = "exists" /\ pc'[p] = "budget"
           /\ copy'[p] = copy[p] /\ cur'[p] = cur[p]
  <2>1. /\ cur[p] \in Xfers /\ transfers[cur[p]] # Absent /\ copy[p] # Absent
        /\ Behind(copy[p], transfers[cur[p]]) /\ HoldFits(copy[p])
        /\ copy[p].state = "POSTING"
    BY <1>3 DEF IInv, SagaInv, ProcInv, CopyFits
  <2>2. CopyFits(p)' /\ ReplyInv(p)'
    BY <1>3, <2>1, Ranks DEF CopyFits, ReplyInv, Ops
  <2>3. ProcInv(p)'
    BY <1>1, <1>3, <2>1, <2>2 DEF ProcInv, db
  <2>4. "exists" \in Ops
    BY DEF Ops
  <2>5. QED
    BY <2>1, <2>3, <2>4, CallerKeeps
<1>4. QED
  BY <1>2, <1>3

\* Drive parks the transfer; recoverOne goes on without the answer.
LEMMA ParkKeeps == ASSUME IInv, NEW p \in Procs, Park(p) PROVE IInv'
<1>1. /\ UNCHANGED <<db, ledger, expiries>> /\ calls' = Orphaned(p)
      /\ faults' \in 0..MaxFaults
      /\ IF pc[p] = "exists" THEN Goto(p, "budget") ELSE Return(p)
  BY SagaBoundsAssumption DEF Park, Fault, IInv, Types
<1>2. Types'
  <2>1. calls' \subseteq [op : Ops, xfer : Xfers, at : {"read", "apply"},
                          by : Procs \cup {Nobody}]
    BY <1>1, OrphanedCalls DEF IInv
  <2>2. QED
    BY <1>1, <2>1 DEF IInv, Types, db, ledger, Goto, Return
<1>3. /\ OthersSame(p) /\ reply'[p] = "none" /\ claimed'[p] \subseteq claimed[p]
      /\ \/ pc'[p] = "idle" /\ copy'[p] = Absent
         \/ /\ pc[p] = "exists" /\ pc'[p] = "budget"
            /\ copy'[p] = copy[p] /\ cur'[p] = cur[p]
  BY <1>1 DEF IInv, Types, OthersSame, Goto, Return
<1>4. QED
  BY <1>1, <1>2, <1>3, GiveUpKeeps

\* A process dies at any point of its work.
LEMMA DieKeeps == ASSUME IInv, NEW p \in Procs, Die(p) PROVE IInv'
<1>1. /\ UNCHANGED <<db, ledger, expiries>> /\ calls' = Orphaned(p)
      /\ faults' \in 0..MaxFaults
  BY SagaBoundsAssumption DEF Die, Fault, IInv, Types
<1>2. PICK rest \in {claimed[p], {}} : claimed' = [claimed EXCEPT ![p] = rest]
  BY DEF Die
<1>3. Types'
  <2>1. calls' \subseteq [op : Ops, xfer : Xfers, at : {"read", "apply"},
                          by : Procs \cup {Nobody}]
    BY <1>1, OrphanedCalls DEF IInv
  <2>2. claimed' \in [Procs -> SUBSET Xfers]
    BY <1>2 DEF IInv, Types
  <2>3. QED
    BY <1>1, <2>1, <2>2 DEF IInv, Types, db, ledger, Die
<1>4. /\ OthersSame(p) /\ reply'[p] = "none" /\ claimed'[p] \subseteq claimed[p]
      /\ pc'[p] = "idle" /\ copy'[p] = Absent
  BY <1>2 DEF IInv, Types, OthersSame, Die
<1>5. QED
  BY <1>1, <1>3, <1>4, GiveUpKeeps

-----------------------------------------------------------------------------
(* CreateTransfer, the clean-up job and the claim *)

\* A process that starts to drive a transfer that exists.
LEMMA BeginKeeps ==
  ASSUME IInv, NEW d \in Procs, NEW x \in Xfers, pc[d] = "idle", DbKeeps,
         transfers'[x] # Absent, Types', OthersSame(d), pc'[d] = "load", cur'[d] = x,
         UNCHANGED <<ledger, calls, copy, reply, claimed>>
  PROVE  IInv'
<1>1. copy[d] = Absent /\ reply[d] = "none" /\ pc[d] \notin Ops
  BY DEF IInv, SagaInv, ProcInv, ReplyInv, Ops
<1>2. \A y \in claimed[d] : Rank(transfers'[y].state) >= 3
  BY ClaimedStay DEF IInv, SagaInv, ProcInv, DbKeeps
<1>3. ProcInv(d)'
  BY <1>1, <1>2 DEF ProcInv, CopyFits, ReplyInv, Ops
<1>4. QED
  BY <1>1, <1>3, MoveKeeps DEF DbKeeps

\* A new key makes a new row, which nothing in the ledger refers to yet.
LEMMA CreateKeeps ==
  ASSUME IInv, NEW d \in Procs, NEW k \in Keys, NEW s \in Specs, NEW x \in Xfers,
         Create(d, k, s, x)
  PROVE  IInv'
<1> DEFINE new == [state |-> "CREATED", hold |-> FALSE, attempts |-> 0,
                   key |-> k, spec |-> s]
<1>1. /\ pc[d] = "idle" /\ transfers[x] = Absent
      /\ keys' = [keys EXCEPT ![k] = [xfer |-> x, hash |-> s]]
      /\ transfers' = [transfers EXCEPT ![x] = new]
      /\ trail' = [trail EXCEPT ![x] = Append(@, "CREATED")]
      /\ pc' = [pc EXCEPT ![d] = "load"] /\ cur' = [cur EXCEPT ![d] = x]
      /\ spec' = [spec EXCEPT ![d] = s]
      /\ UNCHANGED <<status, ledger, calls, copy, reply, claimed, faults, expiries>>
  BY DEF Create
<1>2. new \in Row /\ new.state = "CREATED" /\ new.hold = FALSE /\ new # Absent
  <2>1. new \in Row
    BY SagaBoundsAssumption DEF Row, State
  <2>2. new.state # Absent.state
    BY DEF Absent
  <2>3. QED
    BY <2>1, <2>2
<1>3. transfers'[x] = new /\ \A y \in Xfers \ {x} : transfers'[y] = transfers[y]
  BY <1>1 DEF IInv, Types
<1>4. RowsGrow
  <2>1. ASSUME NEW y \in Xfers \ {x} PROVE Behind(transfers[y], transfers[y])
    BY BehindSelf DEF IInv, Types
  <2>2. QED
    BY <1>1, <1>3, <2>1 DEF RowsGrow
<1>5. ASSUME NEW y \in Xfers PROVE RowInv(y)'
  <2>1. RowInv(y) /\ holds' = holds /\ entries' = entries
    BY <1>1 DEF IInv, SagaInv, ledger
  <2>2. CASE y = x
    <3>1. Absent.hold = FALSE
      BY DEF Absent
    <3>2. x \notin entries
      BY <1>1, <2>1, <2>2, <3>1 DEF RowInv
    <3>3. QED
      BY <1>2, <1>3, <2>1, <2>2, <3>2 DEF RowInv, HoldFits
  <2>3. CASE y # x
    BY <1>3, <2>1, <2>3 DEF RowInv
  <2>4. QED
    BY <2>2, <2>3
<1>6. KeysInv'
  <2>1. ASSUME NEW j \in Keys, keys'[j] # NoKey PROVE transfers'[keys'[j].xfer] # Absent
    <3>1. CASE j = k
      BY <1>1, <1>2, <1>3, <3>1 DEF IInv, Types
    <3>2. CASE j # k
      <4>1. /\ keys'[j] = keys[j] /\ keys[j].xfer \in Xfers
            /\ transfers[keys[j].xfer] # Absent
        BY <1>1, <2>1, <3>2 DEF IInv, Types, KeysInv
      <4>2. QED
        BY <1>4, <4>1 DEF RowsGrow
    <3>3. QED
      BY <3>1, <3>2
  <2>2. QED
    BY <2>1 DEF KeysInv
<1>7. HistoryIsLegal'
  <2>1. trail[x] = <<>> /\ status[x] = <<>>
    <3>1. transfers[x].state = "none" /\ ~IsTerminal("none")
      BY <1>1 DEF Absent, IsTerminal
    <3>2. Len(trail[x]) = 0 /\ status[x] = <<>>
      BY <3>1 DEF IInv, HistoryIsLegal
    <3>3. QED
      BY <3>2 DEF IInv, Types
  <2>2. trail'[x] = <<"CREATED">>
    <3>1. trail'[x] = Append(trail[x], "CREATED")
      BY <1>1 DEF IInv, Types
    <3>2. Append(<<>>, "CREATED") = <<"CREATED">>
      OBVIOUS
    <3>3. QED
      BY <2>1, <3>1, <3>2
  <2>3. /\ Len(trail'[x]) = 1 /\ trail'[x][1] = "CREATED" /\ status'[x] = <<>>
        /\ transfers'[x].state = "CREATED" /\ ~IsTerminal("CREATED")
    BY <1>1, <1>2, <1>3, <2>1, <2>2 DEF IsTerminal
  <2>4. \A y \in Xfers \ {x} : trail'[y] = trail[y] /\ status'[y] = status[y]
    BY <1>1 DEF IInv, Types
  <2>5. QED
    BY <1>3, <2>3, <2>4 DEF IInv, HistoryIsLegal
<1>8. /\ transfers' \in [Xfers -> Row \cup {Absent}]
      /\ keys' \in [Keys -> [xfer : Xfers, hash : Specs] \cup {NoKey}]
      /\ trail' \in [Xfers -> Seq(State)]
      /\ status' \in [Xfers -> Seq(State)]
  <2>1. "CREATED" \in State
    BY DEF State
  <2>2. QED
    BY <1>1, <1>2, <2>1 DEF IInv, Types
<1>9. DbKeeps
  BY <1>4, <1>5, <1>6, <1>7, <1>8 DEF DbKeeps
<1>10. Types'
  BY <1>1, <1>8 DEF IInv, Types, ledger
<1>11. OthersSame(d) /\ pc'[d] = "load" /\ cur'[d] = x
  BY <1>1 DEF IInv, Types, OthersSame
<1>12. QED
  BY <1>1, <1>2, <1>3, <1>9, <1>10, <1>11, BeginKeeps

\* A known key leads to a transfer that exists.
LEMMA RepeatKeeps ==
  ASSUME IInv, NEW d \in Procs, NEW k \in Keys, NEW s \in Specs, Repeat(d, k, s)
  PROVE  IInv'
<1>1. /\ pc[d] = "idle" /\ keys[k] # NoKey
      /\ pc' = [pc EXCEPT ![d] = "load"] /\ cur' = [cur EXCEPT ![d] = keys[k].xfer]
      /\ spec' = [spec EXCEPT ![d] = s]
      /\ UNCHANGED <<db, ledger, calls, copy, reply, claimed, faults, expiries>>
  BY DEF Repeat
<1>2. keys[k].xfer \in Xfers /\ transfers[keys[k].xfer] # Absent
  BY <1>1 DEF IInv, Types, KeysInv
<1>3. DbKeeps
  BY <1>1, DbSameKeeps
<1>4. Types'
  BY <1>1, <1>2 DEF IInv, Types, db, ledger
<1>5. OthersSame(d) /\ pc'[d] = "load" /\ cur'[d] = keys[k].xfer
  BY <1>1 DEF IInv, Types, OthersSame
<1>6. transfers'[keys[k].xfer] # Absent
  BY <1>1, <1>2 DEF db
<1>7. QED
  BY <1>1, <1>2, <1>3, <1>4, <1>5, <1>6, BeginKeeps

\* A step in which no process moves and the ledger and its calls stay.
LEMMA StillKeeps ==
  ASSUME IInv, DbKeeps, Types', OthersSame(Nobody), UNCHANGED <<ledger, calls>>
  PROVE  IInv'
<1>1. LedgerGrows
  BY DEF LedgerGrows, ledger
<1>2. Nobody \notin Procs
  BY SagaProcsAssumption
<1>3. \A c \in calls' : c \in calls /\ (c.by = Nobody \/ c.by # Nobody)
  OBVIOUS
<1>4. SagaInv'
  BY <1>1, <1>2, <1>3, Keeps DEF IInv, SagaInv, DbKeeps
<1>5. QED
  BY <1>4 DEF IInv, DbKeeps

\* The clean-up job deletes a key.
LEMMA ExpireKeyKeeps == ASSUME IInv, NEW k \in Keys, ExpireKey(k) PROVE IInv'
<1>1. /\ keys' = [keys EXCEPT ![k] = NoKey] /\ expiries' \in 0..MaxExpiries
      /\ UNCHANGED <<transfers, trail, status, ledger, calls, local, faults>>
  BY SagaBoundsAssumption DEF ExpireKey, IInv, Types
<1>2. Types'
  BY <1>1 DEF IInv, Types, ledger, local
<1>3. DbKeeps
  <2>1. RowsGrow
    <3>1. ASSUME NEW x \in Xfers PROVE Behind(transfers[x], transfers[x])
      BY BehindSelf DEF IInv, Types
    <3>2. QED
      BY <1>1, <3>1 DEF RowsGrow
  <2>2. KeysInv'
    BY <1>1 DEF IInv, Types, KeysInv
  <2>3. HistoryIsLegal' /\ \A x \in Xfers : RowInv(x)'
    BY <1>1 DEF IInv, HistoryIsLegal, SagaInv, RowInv, HoldFits, ledger
  <2>4. QED
    BY <1>2, <2>1, <2>2, <2>3 DEF DbKeeps, Types
<1>4. OthersSame(Nobody)
  BY <1>1 DEF OthersSame, local
<1>5. QED
  BY <1>1, <1>2, <1>3, <1>4, StillKeeps

\* ClaimStuck counts attempts and moves no transfer.
LEMMA ClaimKeeps ==
  ASSUME IInv, NEW r \in Procs, NEW batch \in SUBSET Xfers, Claim(r, batch) PROVE IInv'
<1>1. /\ pc[r] = "idle" /\ batch \subseteq Stuck
      /\ claimed' = [claimed EXCEPT ![r] = batch]
      /\ transfers' = [x \in Xfers |->
                         IF x \in batch THEN [transfers[x] EXCEPT !.attempts = Bump(@)]
                         ELSE transfers[x]]
      /\ UNCHANGED <<keys, trail, status, ledger, calls, pc, cur, spec, copy, reply,
                     faults, expiries>>
  BY DEF Claim
<1>2. ASSUME NEW x \in Xfers
      PROVE  /\ transfers'[x] \in Row \cup {Absent}
             /\ transfers'[x].state = transfers[x].state
             /\ transfers'[x].hold = transfers[x].hold
             /\ transfers[x] # Absent => transfers'[x] # Absent
  <2>1. transfers[x] \in Row \cup {Absent}
    BY DEF IInv, Types
  <2>2. CASE x \in batch
    <3>1. transfers[x].state \in {"HELD", "POSTING", "RELEASING"}
      BY <1>1, <2>2 DEF Stuck
    <3>2. transfers[x] # Absent
      BY <3>1 DEF Absent
    <3>3. transfers[x] \in Row /\ transfers[x].attempts \in 0..(MaxAttempts + 1)
      BY <2>1, <3>2, RowFields
    <3>4. Bump(transfers[x].attempts) \in 0..(MaxAttempts + 1)
      BY <3>3, SagaBoundsAssumption DEF Bump
    <3>5. transfers'[x] = [transfers[x] EXCEPT !.attempts = Bump(transfers[x].attempts)]
      BY <1>1, <2>2, <3>3 DEF Row
    <3>6. /\ transfers'[x] \in Row /\ transfers'[x].state = transfers[x].state
          /\ transfers'[x].hold = transfers[x].hold
      BY <3>3, <3>4, <3>5 DEF Row
    <3>7. transfers'[x] # Absent
      BY <3>1, <3>6 DEF Absent
    <3>8. QED
      BY <3>6, <3>7
  <2>3. CASE x \notin batch
    BY <1>1, <2>1, <2>3
  <2>4. QED
    BY <2>2, <2>3
<1>3. Types'
  <2>1. transfers' \in [Xfers -> Row \cup {Absent}]
    BY <1>1, <1>2
  <2>2. QED
    BY <1>1, <2>1 DEF IInv, Types, ledger
<1>4. RowsGrow
  <2>1. ASSUME NEW x \in Xfers PROVE Behind(transfers[x], transfers'[x])
    BY <1>2, BehindSelf DEF IInv, Types
  <2>2. QED
    BY <1>2, <2>1 DEF RowsGrow
<1>5. HistoryIsLegal' /\ \A x \in Xfers : RowInv(x)'
  BY <1>1, <1>2 DEF IInv, HistoryIsLegal, SagaInv, RowInv, HoldFits, ledger
<1>6. KeysInv'
  <2>1. ASSUME NEW k \in Keys, keys[k] # NoKey PROVE transfers'[keys[k].xfer] # Absent
    <3>1. keys[k].xfer \in Xfers /\ transfers[keys[k].xfer] # Absent
      BY <2>1 DEF IInv, KeysInv, Types
    <3>2. QED
      BY <1>2, <3>1
  <2>2. QED
    BY <1>1, <2>1 DEF KeysInv
<1>7. OthersSame(r) /\ pc'[r] = "idle" /\ claimed'[r] = batch
  BY <1>1 DEF IInv, Types, OthersSame
<1>8. ProcInv(r)'
  <2>1. copy'[r] = Absent /\ reply'[r] = "none"
    BY <1>1 DEF IInv, SagaInv, ProcInv, ReplyInv, Ops
  <2>2. CopyFits(r)' /\ ReplyInv(r)'
    BY <1>7, <2>1 DEF CopyFits, ReplyInv, Ops
  <2>3. \A x \in batch : Rank(transfers'[x].state) >= 3
    BY <1>1, <1>2, Ranks DEF Stuck
  <2>4. QED
    BY <1>7, <2>1, <2>2, <2>3 DEF ProcInv
<1>9. pc[r] \notin Ops
  BY <1>1 DEF Ops
<1>10. QED
  BY <1>1, <1>3, <1>4, <1>5, <1>6, <1>7, <1>8, <1>9, MoveKeeps

-----------------------------------------------------------------------------
(* The ledger's side of a call *)

\* What a step of the ledger has to show: it forgets nothing and stays in step with
\* the rows.
LedgerKeeps ==
  /\ LedgerGrows
  /\ \A x \in Xfers : RowInv(x)'
  /\ holds' \in [Xfers -> {"none", "active", "captured", "released"}]
  /\ entries' \subseteq Xfers
  /\ available' \in Nat

\* A step that leaves the ledger alone.
LEMMA LedgerSameKeeps ==
  ASSUME IInv, UNCHANGED db, UNCHANGED ledger
  PROVE  LedgerKeeps
<1>1. LedgerGrows
  BY DEF LedgerGrows, ledger
<1>2. QED
  BY <1>1, DbSameKeeps DEF IInv, Types, DbKeeps, LedgerKeeps, ledger

\* An answer that tells the truth goes to the process that waits for it.
LEMMA AnswerKeeps ==
  ASSUME IInv, NEW c \in calls, NEW code \in Codes, Answer(c, code), LedgerKeeps,
         UNCHANGED <<db, pc, cur, spec, copy, claimed, expiries>>,
         faults' \in 0..MaxFaults,
         c.op = "hold" /\ code = "OK" => holds'[c.xfer] # "none",
         c.op \in {"post", "exists"} /\ code = "OK" => c.xfer \in entries',
         c.op = "release" /\ code = "OK" => holds'[c.xfer] = "released",
         c.op = "release" => code # "NOT_FOUND"
  PROVE  IInv'
<1> DEFINE p == c.by
<1>1. /\ c.op \in Ops /\ c.xfer \in Xfers /\ p \in Procs \cup {Nobody}
      /\ calls' = calls \ {c}
  BY DEF IInv, Types, Answer
<1>2. CallInv(c) /\ \A d \in calls : d.by = p /\ p # Nobody => d = c
  BY DEF IInv, SagaInv
<1>3. reply' = IF p = Nobody THEN reply ELSE [reply EXCEPT ![p] = code]
  BY DEF Answer
<1>4. Types'
  <2>1. reply' \in [Procs -> Codes \cup {"none"}]
    BY <1>1, <1>3 DEF IInv, Types
  <2>2. calls' \subseteq [op : Ops, xfer : Xfers, at : {"read", "apply"},
                          by : Procs \cup {Nobody}]
    BY <1>1 DEF IInv, Types
  <2>3. QED
    BY <2>1, <2>2 DEF IInv, Types, LedgerKeeps, db
<1>5. OthersSame(p)
  BY <1>1, <1>3 DEF IInv, Types, OthersSame
<1>6. RowsGrow /\ KeysInv' /\ HistoryIsLegal'
  BY DbSame DEF IInv
<1>7. ASSUME p \in Procs PROVE ProcInv(p)'
  <2>1. p # Nobody /\ pc[p] = c.op /\ cur[p] = c.xfer /\ reply'[p] = code
    BY <1>2, <1>3, <1>7, SagaProcsAssumption DEF CallInv, IInv, Types
  <2>2. ProcInv(p) /\ pc'[p] = pc[p] /\ cur'[p] = cur[p] /\ copy'[p] = copy[p]
        /\ claimed'[p] = claimed[p] /\ transfers' = transfers
    BY <1>7 DEF IInv, SagaInv, db
  <2>3. ReplyInv(p)'
    BY <1>1, <2>1, <2>2 DEF ReplyInv
  <2>4. CopyFits(p)'
    BY <2>2 DEF ProcInv, CopyFits
  <2>5. QED
    BY <2>2, <2>3, <2>4 DEF ProcInv
<1>8. \A d \in calls' : d \in calls /\ (d.by = Nobody \/ d.by # p)
  BY <1>1, <1>2
<1>9. \A b, d \in calls' : b.by = d.by /\ b.by # Nobody => b = d
  BY <1>1 DEF IInv, SagaInv
<1>10. SagaInv'
  BY <1>1, <1>4, <1>5, <1>6, <1>7, <1>8, <1>9, Keeps DEF IInv, LedgerKeeps
<1>11. QED
  BY <1>4, <1>6, <1>10 DEF IInv

\* The call goes on at the server.
LEMMA ProceedKeeps ==
  ASSUME IInv, NEW c \in calls, NEW at \in {"read", "apply"}, Proceed(c, at),
         UNCHANGED <<ledger, faults>>,
         UNCHANGED <<db, pc, cur, spec, copy, claimed, expiries>>
  PROVE  IInv'
<1> DEFINE n == [c EXCEPT !.at = at]
<1>1. calls' = (calls \ {c}) \cup {n} /\ reply' = reply
  BY DEF Proceed
<1>2. /\ n \in [op : Ops, xfer : Xfers, at : {"read", "apply"}, by : Procs \cup {Nobody}]
      /\ n.op = c.op /\ n.xfer = c.xfer /\ n.by = c.by
  BY DEF IInv, Types
<1>3. Types'
  BY <1>1, <1>2 DEF IInv, Types, db, ledger
<1>4. OthersSame(Nobody)
  BY <1>1 DEF OthersSame
<1>5. DbKeeps /\ LedgerGrows
  BY DbSameKeeps DEF LedgerGrows, ledger
<1>6. CallInv(n)'
  <2>1. CallInv(c)
    BY DEF IInv, SagaInv
  <2>2. QED
    BY <1>1, <1>2, <2>1 DEF CallInv, db
<1>7. \A d \in calls' : (d \in calls /\ (d.by = Nobody \/ d.by # Nobody)) \/ CallInv(d)'
  BY <1>1, <1>6
<1>8. ASSUME NEW b \in calls', NEW d \in calls', b.by = d.by, b.by # Nobody
      PROVE  b = d
  <2>1. \A e \in calls : e.by = c.by /\ e.by # Nobody => e = c
    BY DEF IInv, SagaInv
  <2>2. QED
    BY <1>1, <1>2, <1>8, <2>1 DEF IInv, SagaInv
<1>9. Nobody \notin Procs
  BY SagaProcsAssumption
<1>10. SagaInv'
  BY <1>3, <1>4, <1>5, <1>7, <1>8, <1>9, Keeps DEF IInv, DbKeeps
<1>11. QED
  BY <1>3, <1>5, <1>10 DEF IInv, DbKeeps

\* The answers are codes, and a fault stays within its bound.
LEMMA AnswerTypes ==
  ASSUME IInv
  PROVE  /\ {"OK", "NOT_FOUND", "INSUFFICIENT_FUNDS", "INVALID_ARGUMENT", "INTERNAL"}
              \subseteq Codes
         /\ faults \in 0..MaxFaults
         /\ Fault => faults' \in 0..MaxFaults
BY SagaBoundsAssumption DEF Codes, Fault, IInv, Types

\* A hold changes its status, the money it takes or gives back with it.
LEMMA HoldMoves ==
  ASSUME IInv, UNCHANGED db, NEW x \in Xfers,
         NEW to \in {"active", "captured", "released"},
         holds' = [holds EXCEPT ![x] = to],
         entries' = IF to = "captured" THEN entries \cup {x} ELSE entries,
         available' \in Nat,
         holds[x] = IF to = "active" THEN "none" ELSE "active",
         to = "captured" => transfers[x].hold
  PROVE  LedgerKeeps /\ holds'[x] = to
<1>1. holds'[x] = to /\ \A y \in Xfers \ {x} : holds'[y] = holds[y]
  BY DEF IInv, Types
<1>2. LedgerGrows
  BY <1>1 DEF LedgerGrows
<1>3. ASSUME NEW y \in Xfers PROVE RowInv(y)'
  <2>1. RowInv(y) /\ transfers' = transfers
    BY DEF IInv, SagaInv, db
  <2>2. CASE y = x
    BY <1>1, <2>1, <2>2 DEF RowInv, HoldFits
  <2>3. CASE y # x
    BY <1>1, <2>1, <2>3 DEF RowInv, HoldFits
  <2>4. QED
    BY <2>2, <2>3
<1>4. QED
  BY <1>1, <1>2, <1>3 DEF LedgerKeeps, IInv, Types

\* Every answer of the ledger is true when it is given.
LEMMA ServeKeeps == ASSUME IInv, NEW c \in calls, Serve(c) PROVE IInv'
<1> DEFINE x == c.xfer
<1>1. /\ x \in Xfers /\ RowInv(x) /\ CallInv(c)
      /\ holds[x] \in {"none", "active", "captured", "released"} /\ available \in Nat
  BY DEF IInv, Types, SagaInv
<1>2. UNCHANGED <<db, pc, cur, spec, copy, claimed, expiries>>
  BY DEF Serve
<1>3. UNCHANGED ledger => LedgerKeeps
  BY <1>2, LedgerSameKeeps
<1>4. CASE ServeHoldRead(c)
  <2>1. c.op = "hold" /\ UNCHANGED <<ledger, faults>>
    BY <1>4 DEF ServeHoldRead
  <2>2. CASE holds[x] # "none" /\ Answer(c, "OK")
    BY <1>2, <1>3, <2>1, <2>2, AnswerTypes, AnswerKeeps DEF ledger
  <2>3. CASE Proceed(c, "apply")
    BY <1>2, <2>1, <2>3, ProceedKeeps
  <2>4. QED
    BY <1>4, <2>2, <2>3 DEF ServeHoldRead
<1>5. CASE ServeHold(c)
  <2>1. c.op = "hold"
    BY <1>5 DEF ServeHold
  <2>2. CASE Answer(c, "INSUFFICIENT_FUNDS") /\ UNCHANGED <<ledger, faults>>
    BY <1>2, <1>3, <2>1, <2>2, AnswerTypes, AnswerKeeps
  <2>3. CASE Proceed(c, "read") /\ UNCHANGED <<ledger, faults>>
    BY <1>2, <2>3, ProceedKeeps
  <2>4. CASE /\ available >= 1 /\ holds[x] = "none"
             /\ holds' = [holds EXCEPT ![x] = "active"]
             /\ available' = available - 1
             /\ Committed(c) /\ UNCHANGED entries
    <3>1. available' \in Nat
      BY <1>1, <2>4
    <3>2. LedgerKeeps /\ holds'[x] = "active"
      BY <1>1, <1>2, <2>4, <3>1, HoldMoves
    <3>3. QED
      BY <1>2, <2>1, <2>4, <3>2, AnswerTypes, AnswerKeeps DEF Committed
  <2>5. QED
    BY <1>5, <2>2, <2>3, <2>4 DEF ServeHold
<1>6. CASE ServePostRead(c)
  <2>1. c.op = "post" /\ UNCHANGED <<ledger, faults>>
    BY <1>6 DEF ServePostRead
  <2>2. CASE x \in entries /\ Answer(c, "OK")
    BY <1>2, <1>3, <2>1, <2>2, AnswerTypes, AnswerKeeps DEF ledger
  <2>3. CASE Proceed(c, "apply")
    BY <1>2, <2>1, <2>3, ProceedKeeps
  <2>4. QED
    BY <1>6, <2>2, <2>3 DEF ServePostRead
<1>7. CASE ServePost(c)
  <2>1. c.op = "post" /\ transfers[x].hold
    BY <1>1, <1>7 DEF ServePost, CallInv
  <2>2. CASE Answer(c, "INVALID_ARGUMENT") /\ UNCHANGED <<ledger, faults>>
    BY <1>2, <1>3, <2>1, <2>2, AnswerTypes, AnswerKeeps
  <2>3. CASE /\ holds[x] = "active"
             /\ holds' = [holds EXCEPT ![x] = "captured"]
             /\ entries' = entries \cup {x}
             /\ Committed(c) /\ UNCHANGED available
    <3>1. LedgerKeeps
      BY <1>1, <1>2, <2>1, <2>3, HoldMoves
    <3>2. QED
      BY <1>2, <2>1, <2>3, <3>1, AnswerTypes, AnswerKeeps DEF Committed
  <2>4. QED
    BY <1>7, <2>2, <2>3 DEF ServePost
<1>8. CASE ServeRelease(c)
  <2> DEFINE code == CASE holds[x] = "released" -> "OK"
                       [] holds[x] = "captured" -> "INVALID_ARGUMENT"
                       [] OTHER -> "NOT_FOUND"
  <2>1. c.op = "release" /\ holds[x] # "none"
    BY <1>1, <1>8 DEF ServeRelease, CallInv, RowInv
  <2>2. CASE holds[x] # "active" /\ Answer(c, code) /\ UNCHANGED <<ledger, faults>>
    <3>1. \/ holds[x] = "released" /\ code = "OK"
          \/ holds[x] = "captured" /\ code = "INVALID_ARGUMENT"
      BY <1>1, <2>1, <2>2
    <3>2. code \in Codes
      BY <3>1 DEF Codes
    <3>3. QED
      BY <1>2, <1>3, <2>1, <2>2, <3>1, <3>2, AnswerTypes, AnswerKeeps DEF ledger
  <2>3. CASE /\ holds[x] = "active"
             /\ holds' = [holds EXCEPT ![x] = "released"]
             /\ available' = available + 1
             /\ Committed(c) /\ UNCHANGED entries
    <3>1. available' \in Nat
      BY <1>1, <2>3
    <3>2. LedgerKeeps /\ holds'[x] = "released"
      BY <1>1, <1>2, <2>3, <3>1, HoldMoves
    <3>3. QED
      BY <1>2, <2>1, <2>3, <3>2, AnswerTypes, AnswerKeeps DEF Committed
  <2>4. QED
    BY <1>8, <2>2, <2>3 DEF ServeRelease
<1>9. CASE ServeExists(c)
  <2>1. /\ c.op = "exists" /\ UNCHANGED <<ledger, faults>>
        /\ Answer(c, IF x \in entries THEN "OK" ELSE "NOT_FOUND")
    BY <1>9 DEF ServeExists
  <2>2. CASE x \in entries
    BY <1>2, <1>3, <2>1, <2>2, AnswerTypes, AnswerKeeps DEF ledger
  <2>3. CASE x \notin entries
    BY <1>2, <1>3, <2>1, <2>3, AnswerTypes, AnswerKeeps
  <2>4. QED
    BY <2>2, <2>3
<1>10. CASE ServeFail(c)
  BY <1>2, <1>3, <1>10, AnswerTypes, AnswerKeeps DEF ServeFail
<1>11. QED
  BY <1>4, <1>5, <1>6, <1>7, <1>8, <1>9, <1>10 DEF Serve

\* The sweeper releases an active hold.
LEMMA SweepKeeps == ASSUME IInv, NEW x \in Xfers, Sweep(x) PROVE IInv'
<1>1. /\ holds[x] = "active" /\ holds' = [holds EXCEPT ![x] = "released"]
      /\ available' = available + 1 /\ available' \in Nat
      /\ UNCHANGED <<db, entries, calls, local, faults, expiries>>
  BY DEF Sweep, IInv, Types
<1>2. LedgerKeeps
  BY <1>1, HoldMoves
<1>3. Types'
  BY <1>1, <1>2 DEF IInv, Types, LedgerKeeps, db, local
<1>4. OthersSame(Nobody)
  BY <1>1 DEF OthersSame, local
<1>5. RowsGrow /\ KeysInv' /\ HistoryIsLegal'
  BY <1>1, DbSame DEF IInv
<1>6. Nobody \notin Procs
  BY SagaProcsAssumption
<1>7. /\ \A c \in calls' : c \in calls /\ (c.by = Nobody \/ c.by # Nobody)
      /\ \A c, d \in calls' : c.by = d.by /\ c.by # Nobody => c = d
  BY <1>1 DEF IInv, SagaInv
<1>8. SagaInv'
  BY <1>2, <1>3, <1>4, <1>5, <1>6, <1>7, Keeps DEF IInv, LedgerKeeps
<1>9. QED
  BY <1>3, <1>5, <1>8 DEF IInv

-----------------------------------------------------------------------------
(* The invariant holds *)

\* The invariant holds at first ...
LEMMA InitInv == Init => IInv
<1>1. SUFFICES ASSUME Init PROVE IInv
  OBVIOUS
<1>2. Types
  <2>1. 0 \in 0..MaxFaults /\ 0 \in 0..MaxExpiries /\ Funds \in Nat
    BY SagaBoundsAssumption
  <2>2. <<>> \in Seq(State)
    OBVIOUS
  <2>3. QED
    BY <1>1, <2>1, <2>2 DEF Init, Types
<1>3. Absent.state = "none" /\ Absent.hold = FALSE
  BY DEF Absent
<1>4. ASSUME NEW x \in Xfers PROVE RowInv(x)
  BY <1>1, <1>3 DEF Init, RowInv, HoldFits
<1>5. ASSUME NEW p \in Procs PROVE ProcInv(p)
  <2>1. /\ pc[p] = "idle" /\ copy[p] = Absent /\ reply[p] = "none" /\ claimed[p] = {}
    BY <1>1 DEF Init
  <2>2. QED
    BY <2>1 DEF ProcInv, CopyFits, ReplyInv, Ops
<1>6. SagaInv
  BY <1>1, <1>4, <1>5 DEF Init, SagaInv
<1>7. KeysInv
  BY <1>1 DEF Init, KeysInv
<1>8. HistoryIsLegal
  <2>1. ASSUME NEW x \in Xfers
        PROVE  /\ trail[x] = <<>> /\ status[x] = <<>> /\ transfers[x].state = "none"
               /\ Len(trail[x]) = 0
    BY <1>1, <1>3 DEF Init
  <2>2. QED
    BY <2>1 DEF HistoryIsLegal, IsTerminal
<1>9. QED
  BY <1>2, <1>6, <1>7, <1>8 DEF IInv

\* ... and every step keeps it.
LEMMA IStep == IInv /\ [Next]_vars => IInv'
<1>1. SUFFICES ASSUME IInv, [Next]_vars PROVE IInv'
  OBVIOUS
<1>2. Drivers \subseteq Procs /\ Recoverers \subseteq Procs
  BY DEF Procs
<1>3. CASE \E d \in Drivers, k \in Keys, s \in Specs :
             Repeat(d, k, s) \/ \E x \in Xfers : Create(d, k, s, x)
  BY <1>1, <1>2, <1>3, RepeatKeeps, CreateKeeps
<1>4. CASE \E k \in Keys : ExpireKey(k)
  BY <1>1, <1>4, ExpireKeyKeeps
<1>5. CASE \E r \in Recoverers :
             RecoverOne(r) \/ \E batch \in SUBSET Xfers : Claim(r, batch)
  BY <1>1, <1>2, <1>5, RecoverKeeps, ExistsAnsweredKeeps, BudgetKeeps, ClaimKeeps
     DEF RecoverOne
<1>6. CASE \E c \in calls : Serve(c)
  BY <1>1, <1>6, ServeKeeps
<1>7. CASE \E x \in Xfers : Sweep(x)
  BY <1>1, <1>7, SweepKeeps
<1>8. CASE \E p \in Procs : Drive(p) \/ Retry(p) \/ Park(p) \/ Die(p)
  BY <1>1, <1>8, LoadKeeps, StartKeeps, ValidateKeeps, HoldAnsweredKeeps, PostAnsweredKeeps,
     ReleaseKeeps, RetryKeeps, ParkKeeps, DieKeeps DEF Drive
<1>9. CASE UNCHANGED vars
  <2>1. UNCHANGED <<db, ledger, calls, local, faults, expiries>>
    BY <1>9 DEF vars
  <2>2. DbKeeps
    BY <1>1, <2>1, DbSameKeeps
  <2>3. Types' /\ OthersSame(Nobody)
    BY <1>1, <2>1 DEF IInv, Types, OthersSame, db, ledger, local
  <2>4. QED
    BY <1>1, <2>1, <2>2, <2>3, StillKeeps
<1>10. QED
  BY <1>1, <1>3, <1>4, <1>5, <1>6, <1>7, <1>8, <1>9 DEF Next

\* The invariant holds in every behaviour.
THEOREM SagaInvariant == Spec => []IInv
BY InitInv, IStep, PTL DEF Spec

\* Rows, ledger, calls under way, stale copies and answers fit together: no process
\* is ahead of the row, a post or release call has its hold id on the row, and an
\* answer stays true while its process acts on it.
THEOREM SagaFitsTogether == Spec => []SagaInv
BY SagaInvariant, PTL DEF IInv

\* A terminal state written by transition is true: COMPLETED means that the entry is
\* committed; FAILED means that it is not and no call under way can commit it.
THEOREM SagaOutcome == Spec => []OutcomeIsTrue
<1>1. IInv => OutcomeIsTrue
  <2>1. SUFFICES ASSUME IInv, NEW x \in Xfers
                 PROVE  /\ transfers[x].state = "COMPLETED" => x \in entries
                        /\ transfers[x].state = "FAILED" =>
                             /\ x \notin entries
                             /\ transfers[x].hold => holds[x] = "released"
                             /\ ~transfers[x].hold =>
                                  ~ \E c \in calls : c.op = "post" /\ c.xfer = x
    BY DEF OutcomeIsTrue
  <2>2. RowInv(x)
    BY <2>1 DEF IInv, SagaInv
  <2>3. \A c \in calls : c.op = "post" => transfers[c.xfer].hold
    BY <2>1 DEF IInv, SagaInv, CallInv
  <2>4. QED
    BY <2>2, <2>3 DEF RowInv
<1>2. QED
  BY <1>1, SagaInvariant, PTL

\* UpdateTransferGuarded, a full-row UPDATE guarded by the state alone, never loses a
\* hold id, and the id is on the row before an entry can be posted.
THEOREM SagaHoldId == Spec => []HoldIdIsKept
<1>1. IInv => HoldIdIsKept
  <2>1. SUFFICES ASSUME IInv PROVE HoldIdIsKept
    OBVIOUS
  <2>2. ASSUME NEW x \in Xfers
        PROVE  /\ transfers[x].state \in {"POSTING", "COMPLETED"} => transfers[x].hold
               /\ transfers[x].hold => holds[x] # "none"
               /\ x \in entries => transfers[x].hold
    BY <2>1 DEF IInv, SagaInv, RowInv, HoldFits
  <2>3. ASSUME NEW p \in Procs, copy[p] # Absent,
               copy[p].state = transfers[cur[p]].state
        PROVE  copy[p].hold = transfers[cur[p]].hold
    BY <2>1, <2>3 DEF IInv, SagaInv, ProcInv, Behind
  <2>4. QED
    BY <2>2, <2>3 DEF HoldIdIsKept
<1>2. QED
  BY <1>1, SagaInvariant, PTL

\* transfer_events is one walk along the documented edges up to the row's state, and
\* the outbox has exactly one status event for a transfer that has ended.
THEOREM SagaHistory == Spec => []HistoryIsLegal
BY SagaInvariant, PTL DEF IInv

-----------------------------------------------------------------------------
(* The money, and the type invariant *)

\* Every unit is available or under the hold of a transfer that has not given it
\* back.
Taken == {x \in Xfers : holds[x] \in {"active", "captured"}}
FundsInv == IsFiniteSet(Taken) /\ available + Cardinality(Taken) = Funds

\* A new hold takes a unit.
LEMMA FundsTaken ==
  ASSUME IInv, FundsInv, NEW x \in Xfers, holds[x] = "none", available' = available - 1,
         holds' = [holds EXCEPT ![x] = "active"]
  PROVE  FundsInv'
<1>1. x \notin Taken /\ Taken' = Taken \cup {x}
  BY DEF Taken, IInv, Types
<1>2. IsFiniteSet(Taken') /\ Cardinality(Taken') = Cardinality(Taken) + 1
  BY <1>1, FS_AddElement DEF FundsInv
<1>3. Cardinality(Taken) \in Nat /\ available \in Nat
  BY FS_CardinalityType DEF FundsInv, IInv, Types
<1>4. QED
  BY <1>2, <1>3 DEF FundsInv

\* A release gives it back.
LEMMA FundsReleased ==
  ASSUME IInv, FundsInv, NEW x \in Xfers, holds[x] = "active", available' = available + 1,
         holds' = [holds EXCEPT ![x] = "released"]
  PROVE  FundsInv'
<1>1. x \in Taken /\ Taken' = Taken \ {x}
  BY DEF Taken, IInv, Types
<1>2. IsFiniteSet(Taken') /\ Cardinality(Taken') = Cardinality(Taken) - 1
  BY <1>1, FS_RemoveElement DEF FundsInv
<1>3. Cardinality(Taken) \in Nat /\ available \in Nat
  BY FS_CardinalityType DEF FundsInv, IInv, Types
<1>4. QED
  BY <1>2, <1>3 DEF FundsInv

\* Nothing else changes what is taken.
LEMMA FundsSame ==
  ASSUME FundsInv, available' = available, Taken' = Taken
  PROVE  FundsInv'
BY DEF FundsInv

\* No step makes or loses a unit.
LEMMA FundsStep == IInv /\ FundsInv /\ [Next]_vars => FundsInv'
<1>1. SUFFICES ASSUME IInv, FundsInv, [Next]_vars PROVE FundsInv'
  OBVIOUS
<1>2. CASE UNCHANGED ledger
  BY <1>1, <1>2, FundsSame DEF ledger, Taken
<1>3. ASSUME NEW c \in calls, Serve(c) PROVE FundsInv'
  <2>1. c.xfer \in Xfers
    BY <1>1 DEF IInv, Types
  <2>2. CASE ServeHold(c)
    BY <1>1, <1>2, <2>1, <2>2, FundsTaken DEF ServeHold
  <2>3. CASE ServeRelease(c)
    BY <1>1, <1>2, <2>1, <2>3, FundsReleased DEF ServeRelease
  <2>4. CASE ServePost(c)
    <3>1. CASE /\ holds[c.xfer] = "active"
               /\ holds' = [holds EXCEPT ![c.xfer] = "captured"] /\ UNCHANGED available
      <4>1. Taken' = Taken
        BY <1>1, <2>1, <3>1 DEF Taken, IInv, Types
      <4>2. QED
        BY <1>1, <3>1, <4>1, FundsSame
    <3>2. QED
      BY <1>2, <2>4, <3>1 DEF ServePost
  <2>5. CASE ServeHoldRead(c) \/ ServePostRead(c) \/ ServeExists(c) \/ ServeFail(c)
    BY <1>2, <2>5 DEF ServeHoldRead, ServePostRead, ServeExists, ServeFail
  <2>6. QED
    BY <1>3, <2>2, <2>3, <2>4, <2>5 DEF Serve
<1>4. ASSUME NEW x \in Xfers, Sweep(x) PROVE FundsInv'
  BY <1>1, <1>4, FundsReleased DEF Sweep
<1>5. ASSUME NEW p \in Procs, Drive(p) \/ Retry(p) \/ Park(p) \/ Die(p)
      PROVE  UNCHANGED ledger
  <2>1. CASE Drive(p)
    BY <2>1 DEF Drive, Load, Start, Validate, HoldAnswered, PostAnswered,
                ReleaseAnswered, ReleaseNothing, Advance
  <2>2. QED
    BY <1>5, <2>1 DEF Retry, Park, Die
<1>6. ASSUME NEW r \in Recoverers,
             RecoverOne(r) \/ \E batch \in SUBSET Xfers : Claim(r, batch)
      PROVE  UNCHANGED ledger
  BY <1>6 DEF RecoverOne, Recover, ExistsAnswered, Budget, Advance, Claim
<1>7. ASSUME NEW d \in Drivers, NEW k \in Keys, NEW s \in Specs,
             Repeat(d, k, s) \/ \E x \in Xfers : Create(d, k, s, x)
      PROVE  UNCHANGED ledger
  BY <1>7 DEF Repeat, Create
<1>8. ASSUME NEW k \in Keys, ExpireKey(k) PROVE UNCHANGED ledger
  BY <1>8 DEF ExpireKey
<1>9. UNCHANGED vars => UNCHANGED ledger
  BY DEF vars
<1>10. QED
  BY <1>1, <1>2, <1>3, <1>4, <1>5, <1>6, <1>7, <1>8, <1>9 DEF Next

\* Every variable keeps its type; above all, the source account is never overdrawn
\* and never has more than it started with.
THEOREM SagaTypes == Spec => []TypeOK
<1>1. Init => FundsInv
  <2>1. SUFFICES ASSUME Init PROVE FundsInv
    OBVIOUS
  <2>2. Taken = {} /\ available = Funds
    BY <2>1 DEF Init, Taken
  <2>3. IsFiniteSet({}) /\ Cardinality({}) = 0
    BY FS_EmptySet
  <2>4. QED
    BY <2>2, <2>3, SagaBoundsAssumption DEF FundsInv
<1>2. IInv /\ FundsInv => TypeOK
  <2>1. SUFFICES ASSUME IInv, FundsInv PROVE TypeOK
    OBVIOUS
  <2>2. Cardinality(Taken) \in Nat
    BY <2>1, FS_CardinalityType DEF FundsInv
  <2>3. available \in 0..Funds
    BY <2>1, <2>2, SagaBoundsAssumption DEF IInv, Types, FundsInv
  <2>4. QED
    BY <2>1, <2>3 DEF IInv, Types, TypeOK
<1>3. QED
  BY <1>1, <1>2, FundsStep, SagaInvariant, PTL DEF Spec

-----------------------------------------------------------------------------
(* Idempotency keys *)

\* No row appears, disappears or changes its key or its payload.
SameRequests ==
  \A x \in Xfers :
    /\ transfers'[x] = Absent <=> transfers[x] = Absent
    /\ transfers[x] # Absent => /\ transfers'[x].key = transfers[x].key
                                /\ transfers'[x].spec = transfers[x].spec

\* A driver works on for the same request, or returns.
SameDrivers ==
  \A d \in Drivers :
    \/ pc'[d] = "idle"
    \/ pc[d] # "idle" /\ cur'[d] = cur[d] /\ spec'[d] = spec[d]

\* A step that is not about keys.
Quiet == SameRequests /\ SameDrivers /\ UNCHANGED <<keys, expiries>>

\* A guarded update leaves the key and the payload of the row alone.
LEMMA TransitionSame ==
  ASSUME IInv, NEW p \in Procs, copy[p] # Absent, NEW event, NEW hold,
         Transition(p, event, hold)
  PROVE  SameRequests /\ UNCHANGED keys
<1> DEFINE x == cur[p]
           next == DomainNext(copy[p].state, event)
<1>1. x \in Xfers /\ transfers[x] # Absent
  BY DEF IInv, SagaInv, ProcInv
<1>2. CASE UNCHANGED db
  BY <1>2 DEF db, SameRequests
<1>3. CASE /\ transfers' = [transfers EXCEPT ![x].state = next, ![x].hold = hold]
           /\ UNCHANGED keys
  <2>1. transfers[x] \in Row
    BY <1>1 DEF IInv, Types
  <2>2. next # "none"
    BY DEF DomainNext
  <2> HIDE DEF next
  <2>3. /\ transfers'[x].state = next
        /\ transfers'[x].key = transfers[x].key /\ transfers'[x].spec = transfers[x].spec
    BY <1>1, <1>3, <2>1 DEF IInv, Types, Row
  <2>4. transfers'[x] # Absent
    BY <2>2, <2>3 DEF Absent
  <2>5. \A y \in Xfers : y # x => transfers'[y] = transfers[y]
    BY <1>3 DEF IInv, Types
  <2>6. QED
    BY <1>1, <1>3, <2>3, <2>4, <2>5 DEF SameRequests
<1>4. QED
  BY <1>2, <1>3 DEF Transition

\* Drive, recovery, the ledger and faults are not about keys.
LEMMA QuietSteps ==
  ASSUME IInv,
         \/ \E r \in Recoverers : RecoverOne(r) \/ \E batch \in SUBSET Xfers : Claim(r, batch)
         \/ \E c \in calls : Serve(c)
         \/ \E x \in Xfers : Sweep(x)
         \/ \E p \in Procs : Drive(p) \/ Retry(p) \/ Park(p) \/ Die(p)
         \/ UNCHANGED vars
  PROVE  Quiet
<1>0. Types /\ \A p \in Procs : ProcInv(p)
  BY DEF IInv, SagaInv
<1>1. ASSUME UNCHANGED db, SameDrivers, UNCHANGED expiries PROVE Quiet
  BY <1>1 DEF db, Quiet, SameRequests
<1>2. ASSUME UNCHANGED <<pc, cur, spec>> PROVE SameDrivers
  BY <1>2 DEF SameDrivers
<1>3. ASSUME NEW p \in Procs, pc[p] # "idle", NEW at, Goto(p, at) PROVE SameDrivers
  BY <1>0, <1>3 DEF Goto, SameDrivers, Types, Procs
<1>4. ASSUME NEW p \in Procs, Return(p) PROVE SameDrivers
  BY <1>0, <1>4 DEF Return, SameDrivers, Types, Procs
<1>5. ASSUME NEW p \in Procs, NEW event, NEW hold, copy[p] # Absent,
             Transition(p, event, hold), SameDrivers, UNCHANGED expiries
      PROVE  Quiet
  BY <1>5, TransitionSame DEF Quiet
<1>6. ASSUME NEW p \in Procs, NEW event, NEW hold, pc[p] \notin {"idle", "load"},
             Advance(p, event, hold)
      PROVE  Quiet
  BY <1>0, <1>3, <1>5, <1>6 DEF Advance, ProcInv
<1>7. ASSUME NEW p \in Procs, Drive(p) PROVE Quiet
  <2>1. CASE Load(p)
    <3>1. SameDrivers
      <4>1. CASE Return(p)
        BY <1>4, <4>1
      <4>2. CASE \E at : pc' = [pc EXCEPT ![p] = at] /\ UNCHANGED <<cur, spec>>
        BY <1>0, <2>1, <4>2 DEF Load, SameDrivers, Types, Procs
      <4>3. QED
        BY <2>1, <4>1, <4>2 DEF Load
    <3>2. QED
      BY <1>1, <2>1, <3>1 DEF Load
  <2>2. CASE Validate(p)
    <3>1. copy[p] # Absent /\ pc[p] # "idle"
      BY <1>0, <2>2 DEF Validate, ProcInv
    <3>2. CASE Advance(p, "VALIDATED", copy[p].hold)
      BY <1>6, <2>2, <3>2 DEF Validate
    <3>3. CASE /\ Transition(p, "VALIDATION_FAILED", copy[p].hold)
               /\ Return(p) \/ Goto(p, "load")
               /\ UNCHANGED expiries
      BY <1>3, <1>4, <1>5, <3>1, <3>3
    <3>4. QED
      BY <2>2, <3>2, <3>3 DEF Validate
  <2>3. CASE ReleaseAnswered(p)
    <3>1. CASE Advance(p, "RELEASED", copy[p].hold)
      BY <1>6, <2>3, <3>1 DEF ReleaseAnswered
    <3>2. CASE Return(p) /\ UNCHANGED <<db, expiries>>
      BY <1>1, <1>4, <3>2
    <3>3. QED
      BY <2>3, <3>1, <3>2 DEF ReleaseAnswered
  <2>4. CASE Start(p) \/ HoldAnswered(p) \/ PostAnswered(p) \/ ReleaseNothing(p)
    BY <1>6, <2>4 DEF Start, HoldAnswered, PostAnswered, ReleaseNothing
  <2>5. QED
    BY <1>7, <2>1, <2>2, <2>3, <2>4 DEF Drive
<1>8. ASSUME NEW r \in Recoverers, RecoverOne(r) PROVE Quiet
  <2>0. r \in Procs /\ r \notin Drivers
    BY <1>8, SagaProcsAssumption DEF Procs
  <2>1. CASE \E x \in Xfers : Recover(r, x)
    <3>1. SameDrivers
      BY <1>0, <2>0, <2>1 DEF Recover, SameDrivers, Types, Procs
    <3>2. QED
      BY <1>1, <2>1, <3>1 DEF Recover
  <2>2. CASE ExistsAnswered(r)
    <3>1. copy[r] # Absent /\ pc[r] # "idle" /\ UNCHANGED expiries
      BY <1>0, <2>0, <2>2 DEF ExistsAnswered, ProcInv
    <3>2. CASE Transition(r, "POSTED", copy[r].hold) /\ Return(r)
      BY <1>4, <1>5, <2>0, <3>1, <3>2
    <3>3. CASE Goto(r, "budget") /\ UNCHANGED db
      BY <1>1, <1>3, <2>0, <3>1, <3>3
    <3>4. QED
      BY <2>2, <3>2, <3>3 DEF ExistsAnswered
  <2>3. CASE Budget(r)
    <3>1. CASE Advance(r, "RECOVERY_EXHAUSTED", copy[r].hold)
      BY <1>6, <2>0, <2>3, <3>1 DEF Budget
    <3>2. CASE Return(r) /\ UNCHANGED <<db, expiries>>
      BY <1>1, <1>4, <2>0, <3>2
    <3>3. CASE Goto(r, "load") /\ UNCHANGED <<db, expiries>>
      BY <1>1, <1>3, <2>0, <2>3, <3>3 DEF Budget
    <3>4. QED
      BY <2>3, <3>1, <3>2, <3>3 DEF Budget
  <2>4. QED
    BY <1>8, <2>1, <2>2, <2>3 DEF RecoverOne
<1>9. ASSUME NEW r \in Recoverers, NEW batch \in SUBSET Xfers, Claim(r, batch) PROVE Quiet
  <2>1. SameRequests
    <3>1. SUFFICES ASSUME NEW x \in Xfers
                   PROVE  /\ transfers'[x] = Absent <=> transfers[x] = Absent
                          /\ transfers[x] # Absent =>
                               /\ transfers'[x].key = transfers[x].key
                               /\ transfers'[x].spec = transfers[x].spec
      BY DEF SameRequests
    <3>2. CASE x \notin batch
      BY <1>9, <3>2 DEF Claim
    <3>3. CASE x \in batch
      <4>1. transfers[x].state \in {"HELD", "POSTING", "RELEASING"}
        BY <1>9, <3>3 DEF Claim, Stuck
      <4>2. transfers[x] \in Row
        BY <1>0, <4>1 DEF Types, Absent
      <4>3. transfers'[x] = [transfers[x] EXCEPT !.attempts = Bump(@)]
        BY <1>9, <3>3 DEF Claim
      <4>4. /\ transfers'[x].state = transfers[x].state
            /\ transfers'[x].key = transfers[x].key /\ transfers'[x].spec = transfers[x].spec
        BY <4>2, <4>3 DEF Row
      <4>5. QED
        BY <4>1, <4>4 DEF Absent
    <3>4. QED
      BY <3>2, <3>3
  <2>2. QED
    BY <1>2, <1>9, <2>1 DEF Claim, Quiet
<1>10. ASSUME NEW c \in calls, Serve(c) PROVE Quiet
  BY <1>1, <1>2, <1>10 DEF Serve
<1>11. ASSUME NEW x \in Xfers, Sweep(x) PROVE Quiet
  BY <1>1, <1>2, <1>11 DEF Sweep, local
<1>12. ASSUME NEW p \in Procs, Retry(p) \/ Park(p) \/ Die(p) PROVE Quiet
  <2>1. CASE Retry(p)
    BY <1>1, <1>2, <2>1 DEF Retry
  <2>2. CASE Park(p)
    <3>1. pc[p] # "idle"
      BY <2>2 DEF Park, Ops
    <3>2. QED
      BY <1>1, <1>3, <1>4, <2>2, <3>1 DEF Park
  <2>3. CASE Die(p)
    <3>1. SameDrivers
      BY <1>0, <2>3 DEF Die, SameDrivers, Types, Procs
    <3>2. QED
      BY <1>1, <2>3, <3>1 DEF Die
  <2>4. QED
    BY <1>12, <2>1, <2>2, <2>3
<1>13. ASSUME UNCHANGED vars PROVE Quiet
  BY <1>1, <1>2, <1>13 DEF vars, local
<1>14. QED
  BY <1>7, <1>8, <1>9, <1>10, <1>11, <1>12, <1>13

\* The transfers that were made for key k.
MadeFor(k) == {x \in Xfers : transfers[x] # Absent /\ transfers[x].key = k}

\* A key names a row of its payload, and the transfers made for a key are one for
\* each time it was deleted, and one if it is in the table.
KeyInv(k) ==
  /\ keys[k] # NoKey => transfers[keys[k].xfer].spec = keys[k].hash
  /\ IsFiniteSet(MadeFor(k))
  /\ Cardinality(MadeFor(k)) <= IF keys[k] = NoKey THEN expiries ELSE 1 + expiries

KeysFit == RightTransfer /\ \A k \in Keys : KeyInv(k)

\* Every step keeps keys, transfers and drivers together.
LEMMA KeysFitStep == IInv /\ KeysFit /\ [Next]_vars => KeysFit'
<1>1. SUFFICES ASSUME IInv, KeysFit, [Next]_vars PROVE KeysFit'
  OBVIOUS
<1>2. /\ Types /\ KeysInv /\ \A p \in Procs : ProcInv(p)
      /\ expiries \in Nat
  BY <1>1, SagaBoundsAssumption DEF IInv, SagaInv, Types
<1>3. CASE Quiet
  <2>1. RightTransfer'
    <3>1. SUFFICES ASSUME NEW d \in Drivers, pc'[d] # "idle"
                   PROVE  transfers'[cur'[d]].spec = spec'[d]
      BY DEF RightTransfer
    <3>2. pc[d] # "idle" /\ cur'[d] = cur[d] /\ spec'[d] = spec[d]
      BY <1>3, <3>1 DEF Quiet, SameDrivers
    <3>3. cur[d] \in Xfers /\ transfers[cur[d]] # Absent
      BY <1>2, <3>2 DEF ProcInv, Procs
    <3>4. QED
      BY <1>1, <1>3, <3>2, <3>3 DEF Quiet, SameRequests, KeysFit, RightTransfer
  <2>2. ASSUME NEW k \in Keys PROVE KeyInv(k)'
    <3>1. MadeFor(k)' = MadeFor(k)
      BY <1>3 DEF MadeFor, Quiet, SameRequests
    <3>2. keys[k] # NoKey => keys[k].xfer \in Xfers /\ transfers[keys[k].xfer] # Absent
      BY <1>2 DEF Types, KeysInv
    <3>3. keys'[k] # NoKey => transfers'[keys'[k].xfer].spec = keys'[k].hash
      BY <1>1, <1>3, <3>2 DEF Quiet, SameRequests, KeysFit, KeyInv
    <3>4. QED
      BY <1>1, <1>3, <3>1, <3>3 DEF Quiet, KeysFit, KeyInv
  <2>3. QED
    BY <2>1, <2>2 DEF KeysFit
<1>4. ASSUME NEW d \in Drivers, NEW k \in Keys, NEW s \in Specs, Repeat(d, k, s)
      PROVE  KeysFit'
  <2>1. UNCHANGED <<transfers, keys, expiries>>
    BY <1>4 DEF Repeat, db
  <2>2. \A j \in Keys : KeyInv(j)'
    BY <1>1, <2>1 DEF KeysFit, KeyInv, MadeFor
  <2>3. ASSUME NEW e \in Drivers, pc'[e] # "idle"
        PROVE  transfers'[cur'[e]].spec = spec'[e]
    <3>1. CASE e = d
      BY <1>1, <1>2, <1>4, <2>1, <3>1 DEF Repeat, KeysFit, KeyInv, Types, Procs
    <3>2. CASE e # d
      <4>1. pc'[e] = pc[e] /\ cur'[e] = cur[e] /\ spec'[e] = spec[e]
        BY <1>2, <1>4, <3>2 DEF Repeat, Types, Procs
      <4>2. QED
        BY <1>1, <2>1, <2>3, <4>1 DEF KeysFit, RightTransfer
    <3>3. QED
      BY <3>1, <3>2
  <2>4. QED
    BY <2>2, <2>3 DEF KeysFit, RightTransfer
<1>5. ASSUME NEW d \in Drivers, NEW k \in Keys, NEW s \in Specs, NEW x \in Xfers,
             Create(d, k, s, x)
      PROVE  KeysFit'
  <2> DEFINE row == [state |-> "CREATED", hold |-> FALSE, attempts |-> 0,
                     key |-> k, spec |-> s]
  <2>1. /\ transfers[x] = Absent /\ keys[k] = NoKey /\ UNCHANGED expiries
        /\ transfers'[x] = row
        /\ \A y \in Xfers : y # x => transfers'[y] = transfers[y]
        /\ keys'[k] = [xfer |-> x, hash |-> s]
        /\ \A j \in Keys : j # k => keys'[j] = keys[j]
    BY <1>2, <1>5 DEF Create, Types
  <2>2. row.state = "CREATED" /\ row.key = k /\ row.spec = s /\ row # Absent
    <3>1. row.state # Absent.state
      BY DEF Absent
    <3>2. QED
      BY <3>1
  <2> HIDE DEF row
  <2>3. ASSUME NEW j \in Keys PROVE KeyInv(j)'
    <3>1. CASE j # k
      <4>1. MadeFor(j)' = MadeFor(j)
        BY <2>1, <2>2, <3>1 DEF MadeFor
      <4>2. keys[j] # NoKey => keys[j].xfer \in Xfers /\ keys[j].xfer # x
        BY <1>2, <2>1 DEF Types, KeysInv
      <4>3. keys'[j] # NoKey => transfers'[keys'[j].xfer].spec = keys'[j].hash
        BY <1>1, <2>1, <3>1, <4>2 DEF KeysFit, KeyInv
      <4>4. QED
        BY <1>1, <2>1, <3>1, <4>1, <4>3 DEF KeysFit, KeyInv
    <3>2. CASE j = k
      <4>1. MadeFor(k)' = MadeFor(k) \cup {x} /\ x \notin MadeFor(k)
        BY <2>1, <2>2 DEF MadeFor
      <4>2. IsFiniteSet(MadeFor(k)) /\ Cardinality(MadeFor(k)) <= expiries
        BY <1>1, <2>1 DEF KeysFit, KeyInv
      <4>3. /\ IsFiniteSet(MadeFor(k)') /\ Cardinality(MadeFor(k)) \in Nat
            /\ Cardinality(MadeFor(k)') = Cardinality(MadeFor(k)) + 1
        BY <4>1, <4>2, FS_AddElement, FS_CardinalityType
      <4>4. keys'[k] # NoKey /\ transfers'[keys'[k].xfer].spec = keys'[k].hash
        <5>1. keys'[k].xfer = x /\ keys'[k].hash = s /\ NoKey.xfer = NoXfer
          BY <2>1 DEF NoKey
        <5>2. QED
          BY <2>1, <2>2, <5>1, SagaXfersAssumption
      <4>5. Cardinality(MadeFor(k)') <= 1 + expiries'
        BY <1>2, <2>1, <4>2, <4>3
      <4>6. QED
        BY <3>2, <4>3, <4>4, <4>5 DEF KeyInv
    <3>3. QED
      BY <3>1, <3>2
  <2>4. ASSUME NEW e \in Drivers, pc'[e] # "idle"
        PROVE  transfers'[cur'[e]].spec = spec'[e]
    <3>1. CASE e = d
      BY <1>2, <1>5, <2>1, <2>2, <3>1 DEF Create, Types, Procs
    <3>2. CASE e # d
      <4>1. pc'[e] = pc[e] /\ cur'[e] = cur[e] /\ spec'[e] = spec[e]
        BY <1>2, <1>5, <3>2 DEF Create, Types, Procs
      <4>2. cur[e] \in Xfers /\ transfers[cur[e]] # Absent
        BY <1>2, <2>4, <4>1 DEF ProcInv, Procs
      <4>3. QED
        BY <1>1, <2>1, <2>4, <4>1, <4>2 DEF KeysFit, RightTransfer
    <3>3. QED
      BY <3>1, <3>2
  <2>5. QED
    BY <2>3, <2>4 DEF KeysFit, RightTransfer
<1>6. ASSUME NEW k \in Keys, ExpireKey(k) PROVE KeysFit'
  <2>1. /\ UNCHANGED <<transfers, pc, cur, spec>> /\ expiries' = expiries + 1
        /\ keys[k] # NoKey /\ keys'[k] = NoKey
        /\ \A j \in Keys : j # k => keys'[j] = keys[j]
    BY <1>2, <1>6 DEF ExpireKey, local, Types
  <2>2. RightTransfer'
    BY <1>1, <2>1 DEF KeysFit, RightTransfer
  <2>3. ASSUME NEW j \in Keys PROVE KeyInv(j)'
    <3>1. MadeFor(j)' = MadeFor(j)
      BY <2>1 DEF MadeFor
    <3>2. KeyInv(j) /\ Cardinality(MadeFor(j)) \in Nat
      BY <1>1, FS_CardinalityType DEF KeysFit, KeyInv
    <3>3. Cardinality(MadeFor(j)) <= IF keys'[j] = NoKey THEN expiries' ELSE 1 + expiries'
      BY <1>2, <2>1, <3>2 DEF KeyInv
    <3>4. keys'[j] # NoKey => transfers'[keys'[j].xfer].spec = keys'[j].hash
      BY <2>1, <3>2 DEF KeyInv
    <3>5. QED
      BY <3>1, <3>2, <3>3, <3>4 DEF KeyInv
  <2>4. QED
    BY <2>2, <2>3 DEF KeysFit
<1>7. QED
  BY <1>1, <1>3, <1>4, <1>5, <1>6, QuietSteps DEF Next

\* The invariant about keys.
LEMMA KeysAlwaysFit == Spec => []KeysFit
<1>1. Init => KeysFit
  <2>1. SUFFICES ASSUME Init PROVE KeysFit
    OBVIOUS
  <2>2. RightTransfer
    BY <2>1 DEF Init, RightTransfer, Procs
  <2>3. ASSUME NEW k \in Keys PROVE KeyInv(k)
    <3>1. MadeFor(k) = {} /\ keys[k] = NoKey /\ expiries = 0
      BY <2>1 DEF Init, MadeFor
    <3>2. IsFiniteSet({}) /\ Cardinality({}) = 0
      BY FS_EmptySet
    <3>3. QED
      BY <3>1, <3>2 DEF KeyInv
  <2>4. QED
    BY <2>2, <2>3 DEF KeysFit
<1>2. QED
  BY <1>1, KeysFitStep, SagaInvariant, PTL DEF Spec

\* However often and however concurrently a request is repeated, its key makes one
\* transfer, and one more for each time the clean-up job deletes the key.
THEOREM SagaOneTransferPerKey == Spec => []OneTransferPerKey
<1>1. IInv /\ KeysFit => OneTransferPerKey
  <2>1. SUFFICES ASSUME IInv, KeysFit, NEW k \in Keys
                 PROVE  Cardinality(MadeFor(k)) <= 1 + expiries
    BY DEF OneTransferPerKey, MadeFor
  <2>2. expiries \in Nat /\ Cardinality(MadeFor(k)) \in Nat
    BY <2>1, FS_CardinalityType, SagaBoundsAssumption DEF IInv, Types, KeysFit, KeyInv
  <2>3. QED
    BY <2>1, <2>2 DEF KeysFit, KeyInv
<1>2. QED
  BY <1>1, KeysAlwaysFit, SagaInvariant, PTL

\* A request is only ever driven for, and answered with, a transfer of its payload.
THEOREM SagaRightTransfer == Spec => []RightTransfer
<1>1. KeysFit => RightTransfer
  BY DEF KeysFit
<1>2. QED
  BY <1>1, KeysAlwaysFit, PTL
=============================================================================
