------------------------------ MODULE Journal ------------------------------
(***************************************************************************)
(* The journal as it is stored and read back: the monthly partitions of    *)
(* the ledger (partitions.go), the entries that are written into them, and *)
(* the two lists that customers page through, ListPostings of the ledger   *)
(* and ListTransfers of the transfer service.                              *)
(*                                                                         *)
(* Time is the day; rows of one day are told apart by their ids, which are *)
(* drawn in any order.  Entry e has posting 2e on the debited account and  *)
(* 2e+1 on the credited one.  Every statement of EnsurePartitions is a     *)
(* step, because it runs outside a transaction; an entry's transaction is  *)
(* cut between time.Now and its commit.                                    *)
(***************************************************************************)
EXTENDS Naturals, Sequences, SequencesExt, FiniteSets

CONSTANTS
  Instances,     \* processes of the ledger service
  Entries,       \* journal entries, each of the transfer with the same id
  Debited, Credited,  \* the accounts of every entry
  DaysPerMonth,
  MaxDay,        \* bound on days
  MaxFaults,     \* bound on statements of EnsurePartitions that fail
  PageSizes,     \* page sizes that are asked for; 0 is "not given"
  DefaultSize, MaxSize,
  Ranges         \* time ranges [from, to) that are asked for

Month(day) == day \div DaysPerMonth

\* A month without a single successful run fills the default partition.  The timer of an
\* instance that starts over the turn of a month fires on its second day for the first
\* time, and the last run of a month may straddle its end.
ASSUME JournalAssumption ==
  /\ Entries \subseteq Nat /\ DaysPerMonth \in Nat \ {0} /\ MaxDay \in Nat
  /\ MaxFaults \in Nat /\ MaxFaults + 3 <= DaysPerMonth
  /\ DefaultSize \in Nat \ {0} /\ MaxSize \in Nat \ {0} /\ PageSizes \subseteq Nat
  /\ \A r \in Ranges : r.from \in Nat /\ r.to \in Nat

VARIABLES
  today,
  up,         \* each instance is down, starting or serving
  todo,       \* what EnsurePartitions has left to do there
  late,       \* the instances whose call or start-up began before midnight
  ticked,     \* the instances whose daily timer has fired today
  entryParts, \* monthly partitions of journal_entries
  postParts,  \* and of postings
  triggers,   \* months whose partition has its zero-sum trigger
  transfers,  \* table transfers of the customer: the day of each row
  writing,    \* entries whose transaction is open: instance and occurred_at
  postings,   \* table postings
  walk,       \* a client paging through a list
  faults

parts == <<entryParts, postParts, triggers>>
procs == <<up, todo, late, ticked>>
jvars == <<today, procs, parts, transfers, writing, postings, walk, faults>>

Closed == [at |-> "closed"]

JournalInit ==
  /\ today = 0
  /\ up = [i \in Instances |-> "down"]
  /\ todo = [i \in Instances |-> <<>>]
  /\ late = {}
  /\ ticked = {}
  /\ entryParts = {} /\ postParts = {} /\ triggers = {}
  /\ transfers = <<>> /\ writing = <<>> /\ postings = {}
  /\ walk = Closed
  /\ faults = 0

With(f, x, v) == [y \in DOMAIN f \cup {x} |-> IF y = x THEN v ELSE f[y]]
Without(f, xs) == [y \in DOMAIN f \ xs |-> f[y]]

-----------------------------------------------------------------------------
(* EnsurePartitions *)

Statements(m) == <<[do |-> "entries", month |-> m], [do |-> "postings", month |-> m],
                   [do |-> "probe", month |-> m]>>

\* Variant: only the current month.
CurrentMonth(now) == Statements(Month(now))

\* The current month and the next.
EnsurePartitions(now) == Statements(Month(now)) \o Statements(Month(now) + 1)

\* CREATE TABLE IF NOT EXISTS fails when the default partition holds rows of the month;
\* postings and their entries share occurred_at.
Attachable(m) == \A p \in postings : p.part = "default" => Month(p.at) # m

\* The trigger loses its race without a fault.  That the loser of two concurrent CREATE
\* TABLE IF NOT EXISTS may be refused as well counts as a fault (Fail).
Fails(i) ==
  LET s == Head(todo[i])
  IN  \/ s.do = "entries" /\ s.month \notin entryParts /\ ~Attachable(s.month)
      \/ s.do = "postings" /\ s.month \notin postParts /\ ~Attachable(s.month)
      \/ s.do = "trigger" /\ s.month \in triggers

\* pg_trigger is asked whether the trigger is there; if not it is created.
Probe(s) == IF s.month \in triggers THEN <<>> ELSE <<[s EXCEPT !.do = "trigger"]>>

Statement(i) ==
  LET s == Head(todo[i])
  IN  /\ todo[i] # <<>> /\ ~Fails(i)
      /\ entryParts' = entryParts \cup (IF s.do = "entries" THEN {s.month} ELSE {})
      /\ postParts' = postParts \cup (IF s.do = "postings" THEN {s.month} ELSE {})
      /\ triggers' = triggers \cup (IF s.do = "trigger" THEN {s.month} ELSE {})
      /\ todo' = [todo EXCEPT ![i] = (IF s.do = "probe" THEN Probe(s) ELSE <<>>) \o Tail(@)]
      /\ late' = {j \in late : todo'[j] # <<>> \/ up[j] = "starting"}
      /\ UNCHANGED <<today, up, ticked, transfers, writing, postings, walk, faults>>

\* The error ends EnsurePartitions: the process exits at start-up, else it is logged.
Fail(i) ==
  /\ todo[i] # <<>>
  /\ \/ Fails(i) /\ UNCHANGED faults
     \/ faults < MaxFaults /\ faults' = faults + 1
  /\ todo' = [todo EXCEPT ![i] = <<>>]
  /\ up' = [up EXCEPT ![i] = IF @ = "starting" THEN "down" ELSE @]
  /\ late' = late \ {i}
  /\ UNCHANGED <<today, ticked, parts, transfers, writing, postings, walk>>

Start(i) ==
  /\ up[i] = "down"
  /\ up' = [up EXCEPT ![i] = "starting"]
  /\ todo' = [todo EXCEPT ![i] = EnsurePartitions(today)]
  /\ UNCHANGED <<today, late, ticked, parts, transfers, writing, postings, walk, faults>>

Serve(i) ==
  /\ up[i] = "starting" /\ todo[i] = <<>>
  /\ up' = [up EXCEPT ![i] = "serving"]
  /\ ticked' = ticked \cup {i}
  /\ late' = late \ {i}
  /\ UNCHANGED <<today, todo, parts, transfers, writing, postings, walk, faults>>

\* RunPartitionMaintenance.
Tick(i) ==
  /\ up[i] = "serving" /\ todo[i] = <<>> /\ i \notin ticked
  /\ todo' = [todo EXCEPT ![i] = EnsurePartitions(today)]
  /\ ticked' = ticked \cup {i}
  /\ UNCHANGED <<today, up, late, parts, transfers, writing, postings, walk, faults>>

\* Open transactions of the instance are rolled back.
Crash(i) ==
  /\ up[i] # "down"
  /\ up' = [up EXCEPT ![i] = "down"]
  /\ todo' = [todo EXCEPT ![i] = <<>>]
  /\ ticked' = ticked \ {i}
  /\ writing' = Without(writing, {e \in DOMAIN writing : writing[e].by = i})
  /\ late' = late \ {i}
  /\ UNCHANGED <<today, parts, transfers, postings, walk, faults>>

\* Every serving instance's timer fires once a day; a call and a start-up take less than
\* a day.
NextDay ==
  /\ today < MaxDay
  /\ \A i \in Instances : up[i] = "serving" => i \in ticked
  /\ late = {}
  /\ today' = today + 1
  /\ ticked' = {}
  /\ late' = {i \in Instances : todo[i] # <<>> \/ up[i] = "starting"}
  /\ UNCHANGED <<up, todo, parts, transfers, writing, postings, walk, faults>>

-----------------------------------------------------------------------------
(* Writes *)

\* The transfer's row, with created_at.
InsertTransfer(e) ==
  /\ e \notin DOMAIN transfers
  /\ transfers' = With(transfers, e, today)
  /\ UNCHANGED <<today, procs, parts, writing, postings, walk, faults>>

\* PostTransaction up to occurredAt := time.Now().
BeginEntry(i, e) ==
  /\ up[i] = "serving"
  /\ e \in DOMAIN transfers \ DOMAIN writing
  /\ \A p \in postings : p.id # 2 * e
  /\ writing' = With(writing, e, [by |-> i, at |-> today])
  /\ UNCHANGED <<today, procs, parts, transfers, postings, walk, faults>>

\* A posting goes to the partition of its month, or else to the default one.
InsertPosting(id, acct, at) ==
  LET m == Month(at)
  IN  [id |-> id, acct |-> acct, at |-> at,
       part |-> IF m \in postParts THEN "month" ELSE "default",
       checked |-> m \in postParts => m \in triggers]

CommitEntry(e) ==
  /\ postings' = postings \cup {InsertPosting(2 * e, Debited, writing[e].at),
                                InsertPosting(2 * e + 1, Credited, writing[e].at)}
  /\ writing' = Without(writing, {e})
  /\ UNCHANGED <<today, procs, parts, transfers, walk, faults>>

-----------------------------------------------------------------------------
(* Lists, newest first *)

Below(k, cursor) == k.at < cursor.at \/ (k.at = cursor.at /\ k.id < cursor.id)

\* ORDER BY time and id, descending: row i comes after i - 1 newer ones.
NewestFirst(keys) ==
  [i \in 1..Cardinality(keys) |->
     CHOOSE k \in keys : Cardinality({j \in keys : Below(k, j)}) = i - 1]
Limit(s, n) == SubSeq(s, 1, IF Len(s) < n THEN Len(s) ELSE n)

\* Larger than every id, as uuidMax is.
MaxId == 2 * Cardinality(Entries) + 2

\* The account's rows in the range.
Posted(range) ==
  {[at |-> p.at, id |-> p.id] :
     p \in {q \in postings : q.acct = Debited /\ range.from <= q.at /\ q.at < range.to}}
Created == {[at |-> transfers[e], id |-> e] : e \in DOMAIN transfers}

\* Variant: the cursor is the time alone.
PageByTime(keys, cursor, n) == Limit(NewestFirst({k \in keys : k.at < cursor.at}), n)

\* The query of a page.
Page(keys, cursor, n) == Limit(NewestFirst({k \in keys : Below(k, cursor)}), n)

\* One row more than the page tells whether there is a next one.
List(keys, cursor, size) ==
  LET rows == Page(keys, cursor, size + 1)
  IN  [rows |-> Limit(rows, size), more |-> Len(rows) > size]

Size(asked) == IF asked = 0 THEN DefaultSize ELSE IF asked > MaxSize THEN MaxSize ELSE asked

ListPostings(range, cursor, asked) == List(Posted(range), cursor, Size(asked))
ListTransfers(cursor, asked) == List(Created, cursor, Size(asked))

\* The rows of the list as they are now, and the page after a cursor.
Listed(w) == IF w.of = "postings" THEN Posted(w.range) ELSE Created
Answer(w, cursor) ==
  IF w.of = "postings" THEN ListPostings(w.range, cursor, w.size)
  ELSE ListTransfers(cursor, w.size)

\* The client has a page; encodeCursor takes the key of its last row.
Take(w, page) ==
  walk' = [w EXCEPT !.at = IF page.more THEN "open" ELSE "ended",
                    !.cursor = IF page.more THEN Last(page.rows) ELSE w.cursor,
                    !.seen = w.seen \o page.rows]

FirstPage(of, range, size) ==
  LET first == [at |-> IF of = "postings" THEN range.to ELSE today + 1, id |-> MaxId]
      w == [at |-> "open", of |-> of, range |-> range, size |-> size,
            cursor |-> first, seen |-> <<>>, due |-> {}]
  IN  /\ walk.at # "open"
      /\ range.from < range.to
      /\ Take([w EXCEPT !.due = Listed(w)], Answer(w, first))
      /\ UNCHANGED <<today, procs, parts, transfers, writing, postings, faults>>

\* The range is that of the first page, as a client of the two services repeats it.
NextPage ==
  /\ walk.at = "open"
  /\ Take(walk, Answer(walk, walk.cursor))
  /\ UNCHANGED <<today, procs, parts, transfers, writing, postings, faults>>

-----------------------------------------------------------------------------

JournalNext ==
  \/ \E i \in Instances : \/ Start(i) \/ Serve(i) \/ Tick(i) \/ Crash(i)
                          \/ Statement(i) \/ Fail(i)
                          \/ \E e \in Entries : BeginEntry(i, e)
  \/ NextDay
  \/ \E e \in Entries : InsertTransfer(e)
  \/ \E e \in DOMAIN writing : CommitEntry(e)
  \/ \E of \in {"postings", "transfers"}, r \in Ranges, n \in PageSizes : FirstPage(of, r, n)
  \/ NextPage

JournalSpec == JournalInit /\ [][JournalNext]_jvars

-----------------------------------------------------------------------------
(* Properties *)

\* Every posting lies in its month's own partition and was inserted under the zero-sum
\* trigger, although partition, table and trigger are made by separate statements that may
\* fail, by several instances, and months end meanwhile.  A row in the default partition
\* would keep its month's partition from being created, and the ledger from starting.
PostingsAreFiled == \A p \in postings : p.part = "month" /\ p.checked

\* A walk shows every row that was committed when it began, none twice, newest first,
\* while others are committed with earlier times.
WalkIsComplete ==
  walk.at = "ended" =>
    /\ walk.due \subseteq ToSet(walk.seen)
    /\ \A i, j \in DOMAIN walk.seen : i < j => Below(walk.seen[j], walk.seen[i])
=============================================================================
