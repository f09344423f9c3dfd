--------------------------- MODULE JournalProofs ---------------------------
(***************************************************************************)
(* Proof that every posting is filed in its month's own partition, for any *)
(* number of ledger instances, days and entries, as long as a month has    *)
(* more days to retry EnsurePartitions than its statements have faults;    *)
(* and that a client who pages through a list misses no row and sees none  *)
(* twice, for any number of rows, pages and writers.                       *)
(***************************************************************************)
EXTENDS Journal, FiniteSetTheorems, TLAPS

-----------------------------------------------------------------------------
(* The invariant *)

\* The month can take postings: its partition and trigger are there.
Ready(m) == m \in postParts /\ m \in triggers

\* The place of a day in its month.
Day(d) == d % DaysPerMonth

\* The month of the EnsurePartitions, or the start-up, under way on i.
Base(i) == Month(IF i \in late THEN today - 1 ELSE today)

\* What todo may hold.
Step == [do : {"entries", "postings", "probe", "trigger"}, month : Nat]

JournalTypes ==
  /\ today \in Nat /\ faults \in 0..MaxFaults
  /\ up \in [Instances -> {"down", "starting", "serving"}]
  /\ todo \in [Instances -> Seq(Step)]
  /\ late \subseteq Instances /\ ticked \subseteq Instances

\* Who is down runs nothing, and only what began yesterday is late.
Running(i) ==
  /\ up[i] = "down" => todo[i] = <<>>
  /\ i \in late => today > 0 /\ (todo[i] # <<>> \/ up[i] = "starting")

\* The statements s of a run are for month b and the next, and a trigger is made after
\* its table, where P are the tables there are.
Backed(s, b, P) ==
  \A k \in 1..Len(s) :
    /\ s[k].month \in {b, b + 1}
    /\ s[k].do \in {"probe", "trigger"} =>
         \/ s[k].month \in P
         \/ \E j \in 1..(k - 1) : s[j].do = "postings" /\ s[j].month = s[k].month

\* With the tables P and the triggers T month m is ready, or will be when s is done.
Will(s, m, P, T) ==
  \/ m \in P /\ m \in T
  \/ \E k \in 1..Len(s) : s[k].do \in {"probe", "trigger"} /\ s[k].month = m

Ensures(i) ==
  /\ Backed(todo[i], Base(i), postParts)
  /\ todo[i] # <<>> \/ up[i] = "starting" =>
       /\ Will(todo[i], Base(i), postParts, triggers)
       /\ Will(todo[i], Base(i) + 1, postParts, triggers)

\* The number of runs of i in this month that are over and began on its second day or
\* later.
Over(i) ==
  IF Day(today) = 0 THEN 0
  ELSE Day(today) - 1 + (IF i \in ticked THEN 1 ELSE 0) - (IF todo[i] # <<>> THEN 1 ELSE 0)

\* A serving instance has its month, makes no trigger but that of the next one, and
\* every run that is over was in vain only because of a fault.
Serves(i) ==
  /\ Ready(Month(today)) /\ Ready(Base(i))
  /\ \A k \in 1..Len(todo[i]) : todo[i][k].do = "trigger" => todo[i][k].month = Base(i) + 1
  /\ Ready(Month(today) + 1) \/ Over(i) <= faults

Fits(i) == Running(i) /\ Ensures(i) /\ (up[i] = "serving" => Serves(i))

\* The months of postings, committed or not, are ready.
Filed ==
  /\ PostingsAreFiled
  /\ \A e \in DOMAIN writing : Ready(Month(writing[e].at))

JournalInv == JournalTypes /\ Filed /\ \A i \in Instances : Fits(i)

-----------------------------------------------------------------------------
(* The calendar *)

\* A day has a month and a place in it.
LEMMA Calendar ==
  ASSUME NEW d \in Nat
  PROVE  Month(d) \in Nat /\ Day(d) \in 0..(DaysPerMonth - 1)
<1>1. DaysPerMonth \in Nat \ {0} BY JournalAssumption
<1>2. ASSUME NEW D \in Nat \ {0} PROVE d \div D \in Nat /\ d % D \in 0..(D - 1) BY <1>2
<1> QED BY <1>1, <1>2 DEF Month, Day

\* The next day is in the same month, or it is the first of the next one.
LEMMA NextInCalendar ==
  ASSUME NEW d \in Nat
  PROVE  /\ Day(d) # DaysPerMonth - 1 => Month(d + 1) = Month(d) /\ Day(d + 1) = Day(d) + 1
         /\ Day(d) = DaysPerMonth - 1 => Month(d + 1) = Month(d) + 1 /\ Day(d + 1) = 0
<1>1. DaysPerMonth \in Nat \ {0} BY JournalAssumption
<1>2. ASSUME NEW D \in Nat \ {0}
      PROVE  /\ d % D # D - 1 => (d + 1) \div D = d \div D /\ (d + 1) % D = (d % D) + 1
             /\ d % D = D - 1 => (d + 1) \div D = (d \div D) + 1 /\ (d + 1) % D = 0
  <2> DEFINE q == d \div D
             r == d % D
             p == (d + 1) \div D
             t == (d + 1) % D
  <2>1. q \in Nat /\ r \in 0..(D - 1) /\ d = D * q + r BY <1>2
  <2>2. p \in Nat /\ t \in 0..(D - 1) /\ d + 1 = D * p + t BY <1>2
  <2> HIDE DEF q, r, p, t
  <2>3. D * (p - q) = r + 1 - t BY <2>1, <2>2
  <2>4. -D < r + 1 - t /\ r + 1 - t <= D BY <2>1, <2>2
  <2>5. p - q \in Int BY <2>1, <2>2
  <2>6. \A x \in Int : x >= 2 => D * x >= 2 * D BY <1>2
  <2>7. \A x \in Int : x <= -1 => D * x <= -D BY <1>2
  <2>8. p - q \in {0, 1} BY <2>3, <2>4, <2>5, <2>6, <2>7, <1>2
  <2>9. CASE p - q = 0
    <3>1. D * 0 = 0 BY <1>2
    <3> QED BY <2>1, <2>2, <2>3, <2>9, <3>1 DEF q, r, p, t
  <2>10. CASE p - q = 1
    <3>1. D * 1 = D BY <1>2
    <3>2. t = 0 /\ r = D - 1 BY <2>1, <2>2, <2>3, <2>10, <3>1
    <3>3. p = q + 1 BY <2>1, <2>2, <2>10
    <3> QED BY <3>2, <3>3 DEF q, r, p, t
  <2> QED BY <2>8, <2>9, <2>10
<1> QED BY <1>1, <1>2 DEF Month, Day

\* A run that began the day before is of this month or, on the first day, of the last.
LEMMA BaseIs ==
  ASSUME JournalTypes, NEW i \in Instances, Running(i)
  PROVE  /\ Base(i) \in Nat
         /\ i \notin late => Base(i) = Month(today)
         /\ Month(today) \in {Base(i), Base(i) + 1}
         /\ Day(today) # 0 => Base(i) = Month(today)
<1>1. today \in Nat BY DEF JournalTypes
<1>2. CASE i \notin late BY <1>1, <1>2, Calendar DEF Base
<1>3. CASE i \in late
  <2>1. today - 1 \in Nat /\ (today - 1) + 1 = today BY <1>1, <1>3 DEF Running
  <2>2. Base(i) = Month(today - 1) BY <1>3 DEF Base
  <2>3. Month(today - 1) \in Nat BY <2>1, Calendar
  <2>4. /\ Month(today) \in {Month(today - 1), Month(today - 1) + 1}
        /\ Day(today) # 0 => Month(today) = Month(today - 1)
    BY <2>1, NextInCalendar
  <2> QED BY <1>3, <2>2, <2>3, <2>4
<1> QED BY <1>2, <1>3

-----------------------------------------------------------------------------
(* Runs of EnsurePartitions *)

\* What a run has before it.
LEMMA PlanIs ==
  ASSUME NEW m \in Nat
  PROVE  LET s == Statements(m) \o Statements(m + 1)
         IN  /\ s \in Seq(Step) /\ Len(s) = 6
             /\ s[1] = [do |-> "entries", month |-> m] /\ s[2] = [do |-> "postings", month |-> m]
             /\ s[3] = [do |-> "probe", month |-> m]
             /\ s[4] = [do |-> "entries", month |-> m + 1]
             /\ s[5] = [do |-> "postings", month |-> m + 1]
             /\ s[6] = [do |-> "probe", month |-> m + 1]
<1>1. \A n \in Nat : Statements(n) \in Seq(Step) /\ Len(Statements(n)) = 3 BY DEF Statements, Step
<1>2. m + 1 \in Nat OBVIOUS
<1> QED BY <1>1, <1>2 DEF Statements

\* A run that begins is for today's month and the next.
LEMMA PlanFits ==
  ASSUME NEW d \in Nat, NEW P, NEW T
  PROVE  LET s == EnsurePartitions(d)
         IN  /\ s \in Seq(Step) /\ s # <<>> /\ Backed(s, Month(d), P)
             /\ Will(s, Month(d), P, T) /\ Will(s, Month(d) + 1, P, T)
             /\ \A k \in 1..Len(s) : s[k].do # "trigger"
<1> DEFINE m == Month(d)
           s == EnsurePartitions(d)
<1>1. m \in Nat BY Calendar
<1>2. s = Statements(m) \o Statements(m + 1) BY DEF EnsurePartitions
<1> HIDE DEF m, s
<1>3. /\ s \in Seq(Step) /\ Len(s) = 6
      /\ s[1] = [do |-> "entries", month |-> m] /\ s[2] = [do |-> "postings", month |-> m]
      /\ s[3] = [do |-> "probe", month |-> m]
      /\ s[4] = [do |-> "entries", month |-> m + 1]
      /\ s[5] = [do |-> "postings", month |-> m + 1]
      /\ s[6] = [do |-> "probe", month |-> m + 1]
  BY <1>1, <1>2, PlanIs
<1>4. \A k \in 1..Len(s) : k \in {1, 2, 3, 4, 5, 6} BY <1>3
<1>5. s # <<>>
  <2> SUFFICES ASSUME s = <<>> PROVE FALSE OBVIOUS
  <2>1. Len(<<>>) = 0 OBVIOUS
  <2>2. Len(s) = 0 BY <2>1, Zenon
  <2> QED BY <2>2, <1>3
<1>6. Backed(s, m, P)
  <2> SUFFICES ASSUME NEW k \in 1..Len(s)
               PROVE  /\ s[k].month \in {m, m + 1}
                      /\ s[k].do \in {"probe", "trigger"} =>
                           \E j \in 1..(k - 1) : s[j].do = "postings" /\ s[j].month = s[k].month
    BY DEF Backed
  <2>1. s[k].month \in {m, m + 1} BY <1>3, <1>4
  <2>2. s[k].do \in {"probe", "trigger"} => k = 3 \/ k = 6 BY <1>3, <1>4
  <2>3. CASE k = 3 BY <2>1, <2>3, <1>3
  <2>4. CASE k = 6 BY <2>1, <2>4, <1>3
  <2> QED BY <2>1, <2>2, <2>3, <2>4
<1>7. Will(s, m, P, T) /\ Will(s, m + 1, P, T)
  <2>1. 3 \in 1..Len(s) /\ 6 \in 1..Len(s) BY <1>3
  <2> QED BY <2>1, <1>3 DEF Will
<1>8. \A k \in 1..Len(s) : s[k].do # "trigger" BY <1>3, <1>4
<1> QED BY <1>3, <1>5, <1>6, <1>7, <1>8 DEF m, s

\* What an instance does not touch while tables and faults only grow.
LEMMA Stays ==
  ASSUME JournalTypes, JournalTypes', NEW i \in Instances, Fits(i),
         today' = today, todo'[i] = todo[i], up'[i] = up[i],
         i \in late' <=> i \in late, i \in ticked' <=> i \in ticked,
         postParts \subseteq postParts', triggers \subseteq triggers', faults <= faults'
  PROVE  Fits(i)'
<1>1. \A m : Ready(m) => Ready(m)' BY DEF Ready
<1>2. Base(i)' = Base(i) /\ Month(today)' = Month(today) /\ Over(i)' = Over(i)
  BY DEF Base, Over, Month, Day
<1>3. Running(i)' BY DEF Fits, Running
<1>4. \A b : Backed(todo[i], b, postParts) => Backed(todo[i], b, postParts') BY DEF Backed
<1>5. \A m : Will(todo[i], m, postParts, triggers) => Will(todo[i], m, postParts', triggers')
  BY DEF Will
<1>6. Ensures(i)' BY <1>2, <1>4, <1>5 DEF Fits, Ensures
<1>7. Over(i) \in Int
  <2>1. Day(today) \in Int BY Calendar DEF JournalTypes
  <2> QED BY <2>1 DEF Over
<1>8. Over(i) <= faults => Over(i) <= faults' BY <1>7 DEF JournalTypes
<1>9. up[i] = "serving" => Serves(i)' BY <1>1, <1>2, <1>8 DEF Fits, Serves
<1> QED BY <1>3, <1>6, <1>9 DEF Fits

\* A statement that is done leaves the rest of its run, with the creation of a trigger
\* in place of a probe that did not find one.
LEMMA StatementLeaves ==
  ASSUME JournalTypes, NEW i \in Instances, Statement(i)
  PROVE  LET s == todo[i]
             r == todo'[i]
         IN  /\ s \in Seq(Step) /\ Len(s) \in Nat \ {0} /\ r \in Seq(Step) /\ Head(s) = s[1]
             /\ s[1] \in Step
             /\ \/ /\ Len(r) = Len(s) - 1
                   /\ \A k \in 1..Len(r) : k + 1 \in 1..Len(s) /\ r[k] = s[k + 1]
                   /\ s[1].do = "probe" => s[1].month \in triggers
                \/ /\ s[1].do = "probe" /\ s[1].month \notin triggers
                   /\ Len(r) = Len(s)
                   /\ r[1].do = "trigger" /\ r[1].month = s[1].month
                   /\ \A k \in 2..Len(r) : k \in 1..Len(s) /\ r[k] = s[k]
<1> DEFINE s == todo[i]
           r == todo'[i]
           h == Head(s)
           t == Tail(s)
           new == [do |-> "trigger", month |-> h.month]
<1>1. todo \in [Instances -> Seq(Step)] BY DEF JournalTypes
<1>2. s \in Seq(Step) /\ s # <<>> BY <1>1 DEF Statement
<1>3. r = (IF h.do = "probe" THEN Probe(h) ELSE <<>>) \o t BY <1>1 DEF Statement
<1> HIDE DEF s, r
<1>4. /\ Len(s) \in Nat \ {0} /\ h = s[1] /\ h \in Step
      /\ t \in Seq(Step) /\ Len(t) = Len(s) - 1 /\ \A k \in 1..Len(t) : t[k] = s[k + 1]
  BY <1>2
<1> HIDE DEF h, t
<1>5. CASE h.do = "probe" /\ h.month \notin triggers
  <2>1. new \in Step /\ new.do = "trigger" /\ new.month = h.month BY <1>4 DEF Step
  <2>2. [h EXCEPT !.do = "trigger"] = new BY <1>4 DEF Step
  <2>3. r = <<new>> \o t BY <1>3, <1>5, <2>2 DEF Probe
  <2> HIDE DEF new
  <2>4. r \in Seq(Step) /\ Len(r) = Len(s) /\ r[1] = new BY <2>1, <2>3, <1>4
  <2>5. \A k \in 2..Len(r) : k \in 1..Len(s) /\ r[k] = s[k] BY <2>1, <2>3, <2>4, <1>4
  <2> QED BY <1>2, <1>4, <1>5, <2>1, <2>4, <2>5 DEF s, r, h
<1>6. CASE ~(h.do = "probe" /\ h.month \notin triggers)
  <2>1. r = <<>> \o t BY <1>3, <1>6 DEF Probe
  <2>2. r = t BY <2>1, <1>4
  <2> QED BY <1>2, <1>4, <1>6, <2>2 DEF s, r, h
<1> QED BY <1>5, <1>6

\* The rest of a run still makes what the run was to make.
LEMMA StatementKeepsRun ==
  ASSUME JournalTypes, NEW i \in Instances, Statement(i), NEW b \in Nat,
         Backed(todo[i], b, postParts)
  PROVE  /\ Backed(todo'[i], b, postParts')
         /\ \A m : Will(todo[i], m, postParts, triggers) => Will(todo'[i], m, postParts', triggers')
<1> DEFINE s == todo[i]
           r == todo'[i]
<1>1. /\ s \in Seq(Step) /\ Len(s) \in Nat \ {0} /\ r \in Seq(Step) /\ Head(s) = s[1] /\ s[1] \in Step
      /\ \/ /\ Len(r) = Len(s) - 1
            /\ \A k \in 1..Len(r) : k + 1 \in 1..Len(s) /\ r[k] = s[k + 1]
            /\ s[1].do = "probe" => s[1].month \in triggers
         \/ /\ s[1].do = "probe" /\ s[1].month \notin triggers
            /\ Len(r) = Len(s)
            /\ r[1].do = "trigger" /\ r[1].month = s[1].month
            /\ \A k \in 2..Len(r) : k \in 1..Len(s) /\ r[k] = s[k]
  BY StatementLeaves
<1>2. /\ postParts \subseteq postParts' /\ triggers \subseteq triggers'
      /\ s[1].do = "postings" => s[1].month \in postParts'
      /\ s[1].do = "trigger" => s[1].month \in triggers'
  BY <1>1 DEF Statement
<1>3. \A k \in 1..Len(s) :
        /\ s[k].month \in {b, b + 1}
        /\ s[k].do \in {"probe", "trigger"} =>
             \/ s[k].month \in postParts
             \/ \E j \in 1..(k - 1) : s[j].do = "postings" /\ s[j].month = s[k].month
  BY DEF Backed
<1>4. s[1].do \in {"probe", "trigger"} => s[1].month \in postParts BY <1>1, <1>3
<1> HIDE DEF s, r
<1>5. CASE /\ Len(r) = Len(s) - 1
           /\ \A k \in 1..Len(r) : k + 1 \in 1..Len(s) /\ r[k] = s[k + 1]
           /\ s[1].do = "probe" => s[1].month \in triggers
  <2>1. ASSUME NEW k \in 1..Len(r), r[k].do \in {"probe", "trigger"}, r[k].month \notin postParts'
        PROVE  \E j \in 1..(k - 1) : r[j].do = "postings" /\ r[j].month = r[k].month
    <3>1. k + 1 \in 1..Len(s) /\ r[k] = s[k + 1] BY <1>5, <2>1
    <3>2. PICK j \in 1..k : s[j].do = "postings" /\ s[j].month = s[k + 1].month
      BY <1>2, <1>3, <2>1, <3>1
    <3>3. j # 1 BY <1>2, <2>1, <3>1, <3>2
    <3>4. j - 1 \in 1..(k - 1) /\ j - 1 \in 1..Len(r) /\ (j - 1) + 1 = j BY <3>2, <3>3, <1>5, <2>1, <1>1
    <3>5. r[j - 1] = s[j] BY <3>4, <1>5
    <3> QED BY <3>1, <3>2, <3>4, <3>5
  <2>2. \A k \in 1..Len(r) : r[k].month \in {b, b + 1} BY <1>3, <1>5
  <2>3. Backed(r, b, postParts') BY <2>1, <2>2 DEF Backed
  <2>4. ASSUME NEW m, Will(s, m, postParts, triggers) PROVE Will(r, m, postParts', triggers')
    <3>1. CASE m \in postParts /\ m \in triggers BY <3>1, <1>2 DEF Will
    <3>2. CASE \E k \in 1..Len(s) : s[k].do \in {"probe", "trigger"} /\ s[k].month = m
      <4>1. PICK k \in 1..Len(s) : s[k].do \in {"probe", "trigger"} /\ s[k].month = m BY <3>2
      <4>2. CASE k = 1 BY <4>1, <4>2, <1>2, <1>4, <1>5 DEF Will
      <4>3. CASE k # 1
        <5>1. k - 1 \in 1..Len(r) /\ (k - 1) + 1 = k BY <4>1, <4>3, <1>1, <1>5
        <5> QED BY <4>1, <5>1, <1>5 DEF Will
      <4> QED BY <4>2, <4>3
    <3> QED BY <2>4, <3>1, <3>2 DEF Will
  <2> QED BY <2>3, <2>4 DEF s, r
<1>6. CASE /\ s[1].do = "probe" /\ s[1].month \notin triggers
           /\ Len(r) = Len(s)
           /\ r[1].do = "trigger" /\ r[1].month = s[1].month
           /\ \A k \in 2..Len(r) : k \in 1..Len(s) /\ r[k] = s[k]
  <2>1. ASSUME NEW k \in 1..Len(r), r[k].do \in {"probe", "trigger"}, r[k].month \notin postParts'
        PROVE  \E j \in 1..(k - 1) : r[j].do = "postings" /\ r[j].month = r[k].month
    <3>1. k # 1 BY <2>1, <1>2, <1>4, <1>6
    <3>2. k \in 2..Len(r) BY <3>1, <1>1
    <3>3. k \in 1..Len(s) /\ r[k] = s[k] BY <3>2, <1>6
    <3>4. PICK j \in 1..(k - 1) : s[j].do = "postings" /\ s[j].month = s[k].month
      BY <1>2, <1>3, <2>1, <3>3
    <3>5. j # 1 BY <3>4, <1>6
    <3>6. j \in 2..Len(r) BY <3>2, <3>4, <3>5, <1>1
    <3>7. r[j] = s[j] BY <3>6, <1>6
    <3> QED BY <3>3, <3>4, <3>7
  <2>2. \A k \in 1..Len(r) : r[k].month \in {b, b + 1}
    <3> TAKE k \in 1..Len(r)
    <3>1. CASE k = 1 BY <3>1, <1>1, <1>3, <1>6
    <3>2. CASE k # 1 BY <3>2, <1>1, <1>3, <1>6
    <3> QED BY <3>1, <3>2
  <2>3. Backed(r, b, postParts') BY <2>1, <2>2 DEF Backed
  <2>4. ASSUME NEW m, Will(s, m, postParts, triggers) PROVE Will(r, m, postParts', triggers')
    <3>1. CASE m \in postParts /\ m \in triggers BY <3>1, <1>2 DEF Will
    <3>2. CASE \E k \in 1..Len(s) : s[k].do \in {"probe", "trigger"} /\ s[k].month = m
      <4>1. PICK k \in 1..Len(s) : s[k].do \in {"probe", "trigger"} /\ s[k].month = m BY <3>2
      <4>2. k \in 1..Len(r) BY <1>6
      <4>3. CASE k = 1 BY <4>1, <4>2, <4>3, <1>6 DEF Will
      <4>4. CASE k # 1
        <5>1. k \in 2..Len(r) BY <4>2, <4>4, <1>1
        <5> QED BY <4>1, <4>2, <5>1, <1>6 DEF Will
      <4> QED BY <4>3, <4>4
    <3> QED BY <2>4, <3>1, <3>2 DEF Will
  <2> QED BY <2>3, <2>4 DEF s, r
<1> QED BY <1>1, <1>5, <1>6

-----------------------------------------------------------------------------
(* The steps *)

\* Postings stay filed while tables grow and at most writers disappear.
LEMMA FiledStays ==
  ASSUME Filed, postings' = postings, DOMAIN writing' \subseteq DOMAIN writing,
         \A e \in DOMAIN writing' : writing'[e] = writing[e],
         postParts \subseteq postParts', triggers \subseteq triggers'
  PROVE  Filed'
BY DEF Filed, PostingsAreFiled, Ready, Month

\* The invariant holds at the start.
LEMMA JournalStart == JournalInit => JournalInv
<1> SUFFICES ASSUME JournalInit PROVE JournalInv OBVIOUS
<1> USE DEF JournalInit
<1>1. MaxFaults \in Nat BY JournalAssumption
<1>2. <<>> \in Seq(Step) /\ Len(<<>>) = 0 /\ 1..0 = {} OBVIOUS
<1>3. JournalTypes BY <1>1, <1>2 DEF JournalTypes
<1>4. DOMAIN writing = {} BY <1>2
<1>5. Filed BY <1>4 DEF Filed, PostingsAreFiled
<1>6. \A i \in Instances : Backed(todo[i], Base(i), postParts) BY <1>2 DEF Backed
<1>7. \A i \in Instances : Fits(i) BY <1>6 DEF Fits, Running, Ensures
<1> QED BY <1>3, <1>5, <1>7 DEF JournalInv

\* The instance that takes a step of its own is the only one to change.
LEMMA OthersStay ==
  ASSUME JournalInv, JournalTypes', NEW i \in Instances, Fits(i)',
         today' = today, postParts \subseteq postParts', triggers \subseteq triggers',
         faults <= faults',
         \A j \in Instances \ {i} : /\ todo'[j] = todo[j] /\ up'[j] = up[j]
                                    /\ j \in late' <=> j \in late
                                    /\ j \in ticked' <=> j \in ticked
  PROVE  \A j \in Instances : Fits(j)'
BY Stays DEF JournalInv

\* Start: the run covers this month and the next.
LEMMA StartKeeps ==
  ASSUME JournalInv, NEW i \in Instances, Start(i)
  PROVE  JournalInv'
<1> USE DEF Start, procs, parts
<1>1. JournalTypes /\ Filed /\ Fits(i) BY DEF JournalInv
<1>2. today \in Nat /\ todo \in [Instances -> Seq(Step)]
      /\ up \in [Instances -> {"down", "starting", "serving"}] BY <1>1 DEF JournalTypes
<1>3. /\ EnsurePartitions(today) \in Seq(Step)
      /\ EnsurePartitions(today) # <<>>
      /\ Backed(EnsurePartitions(today), Month(today), postParts)
      /\ Will(EnsurePartitions(today), Month(today), postParts, triggers)
      /\ Will(EnsurePartitions(today), Month(today) + 1, postParts, triggers)
  BY <1>2, PlanFits
<1>4. JournalTypes' BY <1>1, <1>2, <1>3 DEF JournalTypes
<1>5. i \notin late BY <1>1 DEF Fits, Running
<1>6. todo'[i] = EnsurePartitions(today) /\ up'[i] = "starting" BY <1>2
<1>7. Base(i)' = Month(today) BY <1>5 DEF Base, Month
<1>8. Fits(i)' BY <1>3, <1>5, <1>6, <1>7 DEF Fits, Running, Ensures
<1>9. \A j \in Instances : Fits(j)' BY <1>2, <1>4, <1>8, OthersStay DEF JournalTypes
<1>10. Filed' BY <1>1, FiledStays
<1> QED BY <1>4, <1>9, <1>10 DEF JournalInv

\* Serve: the run that the start-up waited for is over.
LEMMA ServeKeeps ==
  ASSUME JournalInv, NEW i \in Instances, Serve(i)
  PROVE  JournalInv'
<1> USE DEF Serve, procs, parts
<1>1. JournalTypes /\ Filed /\ Fits(i) BY DEF JournalInv
<1>2. today \in Nat /\ todo \in [Instances -> Seq(Step)] /\ faults \in Nat
      /\ up \in [Instances -> {"down", "starting", "serving"}]
  BY <1>1, JournalAssumption DEF JournalTypes
<1>3. JournalTypes' BY <1>1, <1>2 DEF JournalTypes
<1>4. Len(<<>>) = 0 /\ 1..0 = {} OBVIOUS
<1>5. Ready(Base(i)) /\ Ready(Base(i) + 1) BY <1>1, <1>4 DEF Fits, Ensures, Will, Ready
<1>6. Ready(Month(today)) /\ (Day(today) # 0 => Ready(Month(today) + 1))
  BY <1>1, <1>5, BaseIs DEF Fits
<1>7. up'[i] = "serving" /\ todo'[i] = <<>> /\ i \notin late' BY <1>2
<1>8. Base(i)' = Month(today) /\ Month(today)' = Month(today) /\ Day(today)' = Day(today)
  BY <1>7 DEF Base, Month, Day
<1>9. \A m : Ready(m) => Ready(m)' BY DEF Ready
<1>10. Ready(Month(today) + 1)' \/ Over(i)' <= faults' BY <1>2, <1>6, <1>8, <1>9 DEF Over
<1>11. Serves(i)' BY <1>4, <1>6, <1>7, <1>8, <1>9, <1>10 DEF Serves
<1>12. Ensures(i)' BY <1>4, <1>7 DEF Ensures, Backed
<1>13. Fits(i)' BY <1>7, <1>11, <1>12 DEF Fits, Running
<1>14. \A j \in Instances : Fits(j)' BY <1>2, <1>3, <1>13, OthersStay
<1>15. Filed' BY <1>1, FiledStays
<1> QED BY <1>3, <1>14, <1>15 DEF JournalInv

\* Tick: a run more has begun and none is over.
LEMMA TickKeeps ==
  ASSUME JournalInv, NEW i \in Instances, Tick(i)
  PROVE  JournalInv'
<1> USE DEF Tick, procs, parts
<1>1. JournalTypes /\ Filed /\ Fits(i) /\ Serves(i) BY DEF JournalInv, Fits
<1>2. today \in Nat /\ todo \in [Instances -> Seq(Step)] /\ faults \in Nat
  BY <1>1, JournalAssumption DEF JournalTypes
<1>3. /\ EnsurePartitions(today) \in Seq(Step)
      /\ EnsurePartitions(today) # <<>>
      /\ Backed(EnsurePartitions(today), Month(today), postParts)
      /\ Will(EnsurePartitions(today), Month(today), postParts, triggers)
      /\ Will(EnsurePartitions(today), Month(today) + 1, postParts, triggers)
      /\ \A k \in 1..Len(EnsurePartitions(today)) : EnsurePartitions(today)[k].do # "trigger"
  BY <1>2, PlanFits
<1>4. JournalTypes' BY <1>1, <1>2, <1>3 DEF JournalTypes
<1>5. i \notin late BY <1>1 DEF Fits, Running
<1>6. todo'[i] = EnsurePartitions(today) BY <1>2
<1>7. Base(i)' = Month(today) /\ Month(today)' = Month(today) BY <1>5 DEF Base, Month
<1>8. Day(today) \in Int BY <1>2, Calendar
<1>9. Over(i)' = Over(i) BY <1>3, <1>6, <1>8 DEF Over, Day
<1>10. \A m : Ready(m)' = Ready(m) BY DEF Ready
<1>11. Serves(i)' BY <1>1, <1>3, <1>6, <1>7, <1>9, <1>10 DEF Serves
<1>12. Fits(i)' BY <1>3, <1>5, <1>6, <1>7, <1>11 DEF Fits, Running, Ensures
<1>13. \A j \in Instances : Fits(j)' BY <1>2, <1>4, <1>12, OthersStay
<1>14. Filed' BY <1>1, FiledStays
<1> QED BY <1>4, <1>13, <1>14 DEF JournalInv

\* Crash: nothing of the instance is left.
LEMMA CrashKeeps ==
  ASSUME JournalInv, NEW i \in Instances, Crash(i)
  PROVE  JournalInv'
<1> USE DEF Crash, procs, parts
<1>1. JournalTypes /\ Filed BY DEF JournalInv
<1>2. todo \in [Instances -> Seq(Step)] /\ up \in [Instances -> {"down", "starting", "serving"}]
      /\ faults \in Nat
  BY <1>1, JournalAssumption DEF JournalTypes
<1>3. <<>> \in Seq(Step) /\ Len(<<>>) = 0 /\ 1..0 = {} OBVIOUS
<1>4. JournalTypes' BY <1>1, <1>2, <1>3 DEF JournalTypes
<1>5. up'[i] = "down" /\ todo'[i] = <<>> /\ i \notin late' BY <1>2
<1>6. Fits(i)' BY <1>3, <1>5 DEF Fits, Running, Ensures, Backed
<1>7. \A j \in Instances : Fits(j)' BY <1>2, <1>4, <1>6, OthersStay
<1>8. Filed' BY <1>1, FiledStays DEF Without
<1> QED BY <1>4, <1>7, <1>8 DEF JournalInv

\* Statement: when the last one is done both months are ready.
LEMMA StatementKeeps ==
  ASSUME JournalInv, NEW i \in Instances, Statement(i)
  PROVE  JournalInv'
<1> DEFINE s == todo[i]
           r == todo'[i]
<1>1. JournalTypes /\ Filed /\ Fits(i) BY DEF JournalInv
<1>2. today \in Nat /\ todo \in [Instances -> Seq(Step)] /\ faults \in Nat
      /\ late \subseteq Instances
  BY <1>1, JournalAssumption DEF JournalTypes
<1>3. /\ s \in Seq(Step) /\ Len(s) \in Nat \ {0} /\ r \in Seq(Step) /\ Head(s) = s[1] /\ s[1] \in Step
      /\ \/ /\ Len(r) = Len(s) - 1
            /\ \A k \in 1..Len(r) : k + 1 \in 1..Len(s) /\ r[k] = s[k + 1]
            /\ s[1].do = "probe" => s[1].month \in triggers
         \/ /\ s[1].do = "probe" /\ s[1].month \notin triggers
            /\ Len(r) = Len(s)
            /\ r[1].do = "trigger" /\ r[1].month = s[1].month
            /\ \A k \in 2..Len(r) : k \in 1..Len(s) /\ r[k] = s[k]
  BY <1>1, StatementLeaves
<1>4. /\ s # <<>> /\ today' = today /\ up' = up /\ ticked' = ticked /\ faults' = faults
      /\ writing' = writing /\ postings' = postings
      /\ postParts \subseteq postParts' /\ triggers \subseteq triggers'
      /\ late' = {j \in late : todo'[j] # <<>> \/ up[j] = "starting"}
      /\ todo' \in [Instances -> Seq(Step)] /\ \A j \in Instances \ {i} : todo'[j] = todo[j]
  BY <1>2, <1>3 DEF Statement
<1>5. JournalTypes' BY <1>1, <1>4 DEF JournalTypes
<1>6. Filed' BY <1>1, <1>4, FiledStays
<1>7. Base(i) \in Nat /\ (Day(today) # 0 => Base(i) = Month(today)) BY <1>1, BaseIs DEF Fits
<1>8. Backed(r, Base(i), postParts')
      /\ Will(r, Base(i), postParts', triggers') /\ Will(r, Base(i) + 1, postParts', triggers')
  BY <1>1, <1>4, <1>7, StatementKeepsRun DEF Fits, Ensures
<1>9. \A m : Ready(m) => Ready(m)' BY <1>4 DEF Ready
<1>10. Month(today)' = Month(today) /\ Day(today)' = Day(today) BY <1>4 DEF Month, Day
<1>11. Len(<<>>) = 0 /\ 1..0 = {} OBVIOUS
<1>12. up[i] # "down" BY <1>1, <1>4 DEF Fits, Running
<1>13. ASSUME r # <<>> \/ up[i] = "starting" PROVE Fits(i)'
  <2>1. i \in late' <=> i \in late BY <1>4, <1>13
  <2>2. Base(i)' = Base(i) BY <1>4, <2>1 DEF Base, Month
  <2>3. Ensures(i)' BY <1>8, <2>2 DEF Ensures
  <2>4. Running(i)' BY <1>1, <1>4, <1>12, <1>13, <2>1 DEF Fits, Running
  <2>5. ASSUME up[i] = "serving" PROVE Serves(i)'
    <3>1. Serves(i) /\ r # <<>> BY <1>1, <1>13, <2>5 DEF Fits
    <3>2. Over(i)' = Over(i) BY <1>4, <1>10, <3>1 DEF Over
    <3>3. ASSUME NEW k \in 1..Len(r), r[k].do = "trigger" PROVE r[k].month = Base(i) + 1
      <4>1. \A n \in 1..Len(s) : s[n].do = "trigger" => s[n].month = Base(i) + 1 BY <3>1 DEF Serves
      <4>2. CASE Len(r) = Len(s) - 1 /\ \A n \in 1..Len(r) : n + 1 \in 1..Len(s) /\ r[n] = s[n + 1]
        BY <3>3, <4>1, <4>2
      <4>3. CASE /\ s[1].do = "probe" /\ s[1].month \notin triggers
                 /\ r[1].month = s[1].month
                 /\ \A n \in 2..Len(r) : n \in 1..Len(s) /\ r[n] = s[n]
        <5>1. CASE k = 1
          <6>1. s[1].month \in {Base(i), Base(i) + 1}
            BY <1>1, <1>3 DEF Fits, Ensures, Backed
          <6>2. Base(i) \in triggers BY <3>1 DEF Serves, Ready
          <6> QED BY <4>3, <5>1, <6>1, <6>2
        <5>2. CASE k # 1
          <6>1. k \in 2..Len(r) BY <5>2, <1>3
          <6> QED BY <3>3, <4>1, <4>3, <6>1
        <5> QED BY <5>1, <5>2
      <4> QED BY <1>3, <4>2, <4>3
    <3> QED BY <1>4, <1>9, <1>10, <2>2, <3>1, <3>2, <3>3 DEF Serves
  <2> QED BY <1>4, <2>3, <2>4, <2>5 DEF Fits
<1>14. ASSUME r = <<>>, up[i] # "starting" PROVE Fits(i)'
  <2>1. i \notin late' /\ up[i] = "serving" BY <1>1, <1>4, <1>12, <1>14 DEF JournalTypes
  <2>2. Base(i)' = Month(today) BY <1>4, <2>1 DEF Base, Month
  <2>3. Base(i) + 1 \in postParts' /\ Base(i) + 1 \in triggers' BY <1>8, <1>11, <1>14 DEF Will
  <2>4. Serves(i) BY <1>1, <2>1 DEF Fits
  <2>5. Ready(Month(today) + 1)' \/ Over(i)' <= faults'
    BY <1>2, <1>4, <1>7, <1>10, <2>3 DEF Over, Ready
  <2>6. Serves(i)' BY <1>9, <1>10, <1>11, <1>14, <2>2, <2>4, <2>5 DEF Serves
  <2>7. Ensures(i)' BY <1>4, <1>11, <1>14 DEF Ensures, Backed
  <2>8. Fits(i)' BY <1>4, <1>14, <2>1, <2>6, <2>7 DEF Fits, Running
  <2> QED BY <2>8
<1>15. Fits(i)' BY <1>13, <1>14
<1>16. \A j \in Instances \ {i} : j \in late' <=> j \in late BY <1>4 DEF JournalInv, Fits, Running
<1>17. faults <= faults' BY <1>2, <1>4
<1>18. \A j \in Instances \ {i} : /\ todo'[j] = todo[j] /\ up'[j] = up[j]
                                  /\ j \in late' <=> j \in late
                                  /\ j \in ticked' <=> j \in ticked
  BY <1>4, <1>16
<1>19. \A j \in Instances : Fits(j)' BY <1>4, <1>5, <1>15, <1>17, <1>18, OthersStay
<1> QED BY <1>5, <1>6, <1>19 DEF JournalInv

\* Fail: the run is over in vain because of a fault, or it lost a race for the trigger
\* of the next month, which is then ready.
LEMMA FailKeeps ==
  ASSUME JournalInv, NEW i \in Instances, Fail(i)
  PROVE  JournalInv'
<1> USE DEF procs, parts
<1>1. JournalTypes /\ Filed /\ Fits(i) BY DEF JournalInv
<1>2. today \in Nat /\ todo \in [Instances -> Seq(Step)] /\ faults \in 0..MaxFaults
      /\ up \in [Instances -> {"down", "starting", "serving"}] /\ MaxFaults \in Nat
  BY <1>1, JournalAssumption DEF JournalTypes
<1>3. <<>> \in Seq(Step) /\ Len(<<>>) = 0 /\ 1..0 = {} OBVIOUS
<1>4. /\ todo[i] # <<>> /\ todo'[i] = <<>> /\ i \notin late'
      /\ up'[i] = IF up[i] = "starting" THEN "down" ELSE up[i]
      /\ today' = today /\ ticked' = ticked /\ postParts' = postParts /\ triggers' = triggers
      /\ writing' = writing /\ postings' = postings
      /\ \A j \in Instances \ {i} : todo'[j] = todo[j] /\ up'[j] = up[j] /\ (j \in late' <=> j \in late)
  BY <1>2 DEF Fail
<1>5. (Fails(i) /\ faults' = faults) \/ (faults < MaxFaults /\ faults' = faults + 1) BY DEF Fail
<1>6. faults' \in 0..MaxFaults /\ faults <= faults' BY <1>2, <1>5
<1>7. JournalTypes' BY <1>1, <1>2, <1>3, <1>6 DEF JournalTypes, Fail
<1>8. Filed' BY <1>1, <1>4, FiledStays
<1>9. todo[i] \in Seq(Step) BY <1>2
<1>10. Len(todo[i]) \in Nat \ {0} /\ Head(todo[i]) = todo[i][1] BY <1>4, <1>9
<1>11. ASSUME Fails(i), up[i] = "serving", Day(today) # 0 PROVE Ready(Month(today) + 1)
  <2>1. \A m : Attachable(m) BY <1>1 DEF Attachable, Filed, PostingsAreFiled
  <2>2. todo[i][1].do = "trigger" /\ todo[i][1].month \in triggers BY <1>10, <1>11, <2>1 DEF Fails
  <2>3. todo[i][1].month = Base(i) + 1 BY <1>1, <1>10, <1>11, <2>2 DEF Fits, Serves
  <2>4. todo[i][1].month \in postParts BY <1>1, <1>10, <2>2 DEF Fits, Ensures, Backed
  <2>5. Base(i) = Month(today) BY <1>1, <1>11, BaseIs DEF Fits
  <2> QED BY <2>2, <2>3, <2>4, <2>5 DEF Ready
<1>12. ASSUME up'[i] = "serving" PROVE Serves(i)'
  <2>1. up[i] = "serving" /\ Serves(i) BY <1>1, <1>4, <1>12 DEF Fits
  <2>2. Base(i)' = Month(today) /\ Month(today)' = Month(today) /\ Day(today)' = Day(today)
    BY <1>4 DEF Base, Month, Day
  <2>3. \A m : Ready(m)' = Ready(m) BY <1>4 DEF Ready
  <2>4. Day(today) \in Int BY <1>2, Calendar
  <2>5. Over(i) \in Int /\ Over(i)' <= Over(i) + 1 /\ (Day(today) = 0 => Over(i)' = 0)
    BY <1>4, <2>2, <2>4 DEF Over
  <2>6. Ready(Month(today) + 1) \/ Over(i) <= faults BY <2>1 DEF Serves
  <2>7. Over(i)' \in Int BY <1>4, <2>2, <2>4 DEF Over
  <2>8. Ready(Month(today) + 1) \/ Over(i)' <= faults'
    BY <1>2, <1>5, <1>6, <1>11, <2>1, <2>5, <2>6, <2>7
  <2> QED BY <1>3, <1>4, <2>1, <2>2, <2>3, <2>8 DEF Serves
<1>13. up'[i] # "starting" BY <1>2, <1>4
<1>14. Fits(i)' BY <1>3, <1>4, <1>12, <1>13 DEF Fits, Running, Ensures, Backed
<1>15. \A j \in Instances : Fits(j)' BY <1>4, <1>6, <1>7, <1>14, OthersStay
<1> QED BY <1>7, <1>8, <1>15 DEF JournalInv

\* NextDay: at the end of a month some run of each serving instance was not in vain,
\* because more of them are over than there were faults.
LEMMA NextDayKeeps ==
  ASSUME JournalInv, NextDay
  PROVE  JournalInv'
<1> USE DEF procs, parts
<1>1. JournalTypes /\ Filed BY DEF JournalInv
<1>2. today \in Nat /\ faults \in 0..MaxFaults /\ MaxFaults \in Nat /\ DaysPerMonth \in Nat
      /\ MaxFaults + 3 <= DaysPerMonth
  BY <1>1, JournalAssumption DEF JournalTypes
<1>3. /\ today' = today + 1 /\ late = {} /\ ticked' = {} /\ up' = up /\ todo' = todo
      /\ postParts' = postParts /\ triggers' = triggers /\ faults' = faults
      /\ writing' = writing /\ postings' = postings
      /\ late' = {i \in Instances : todo[i] # <<>> \/ up[i] = "starting"}
      /\ \A i \in Instances : up[i] = "serving" => i \in ticked
  BY DEF NextDay
<1>4. JournalTypes' BY <1>1, <1>3 DEF JournalTypes
<1>5. Filed' BY <1>1, <1>3, FiledStays
<1>6. Month(today) \in Nat /\ Day(today) \in 0..(DaysPerMonth - 1) BY <1>2, Calendar
<1>7. Month(today)' = Month(today + 1) /\ Day(today)' = Day(today + 1) BY <1>3 DEF Month, Day
<1>8. /\ Day(today) # DaysPerMonth - 1 => Month(today + 1) = Month(today) /\ Day(today + 1) = Day(today) + 1
      /\ Day(today) = DaysPerMonth - 1 => Month(today + 1) = Month(today) + 1 /\ Day(today + 1) = 0
  BY <1>2, NextInCalendar
<1>9. \A m : Ready(m)' = Ready(m) BY <1>3 DEF Ready
<1>10. Len(<<>>) = 0 /\ 1..0 = {} OBVIOUS
<1>11. ASSUME NEW i \in Instances PROVE Fits(i)'
  <2>1. Fits(i) BY DEF JournalInv
  <2>2. Base(i) = Month(today) BY <1>3 DEF Base
  <2>3. Running(i)' BY <1>2, <1>3, <2>1 DEF Fits, Running
  <2>4. todo[i] = <<>> \/ Base(i)' = Base(i)
    <3>1. (today + 1) - 1 = today BY <1>2
    <3> QED BY <1>3, <2>2, <3>1 DEF Base, Month
  <2>5. up[i] = "starting" => Base(i)' = Base(i)
    <3>1. (today + 1) - 1 = today BY <1>2
    <3> QED BY <1>3, <2>2, <3>1 DEF Base, Month
  <2>6. Ensures(i)'
    <3>1. CASE Base(i)' = Base(i) BY <3>1, <1>3, <2>1 DEF Fits, Ensures
    <3>2. CASE Base(i)' # Base(i) BY <3>2, <1>3, <1>10, <2>4, <2>5 DEF Ensures, Backed
    <3> QED BY <3>1, <3>2
  <2>7. ASSUME up[i] = "serving" PROVE Serves(i)'
    <3>1. Serves(i) /\ i \in ticked BY <1>3, <2>1, <2>7 DEF Fits
    <3>2. Day(today) # 0 => Over(i) = Day(today) - (IF todo[i] # <<>> THEN 1 ELSE 0)
      BY <1>6, <3>1 DEF Over
    <3>3. ASSUME Day(today) = DaysPerMonth - 1 PROVE Ready(Month(today) + 1)
      <4>1. Day(today) # 0 BY <1>2, <3>3
      <4>2. Over(i) >= DaysPerMonth - 2 /\ Over(i) \in Int BY <1>2, <3>2, <3>3, <4>1
      <4>3. ~(Over(i) <= faults) BY <1>2, <4>2
      <4> QED BY <3>1, <4>3 DEF Serves
    <3>4. Ready(Month(today + 1)) BY <1>8, <3>1, <3>3 DEF Serves
    <3>5. Base(i)' \in {Month(today), Month(today + 1)}
      <4>1. (today + 1) - 1 = today BY <1>2
      <4> QED BY <1>3, <4>1 DEF Base, Month
    <3>6. Ready(Base(i)') BY <3>1, <3>4, <3>5 DEF Serves
    <3>7. \A k \in 1..Len(todo[i]) : todo[i][k].do = "trigger" => todo[i][k].month = Base(i)' + 1
      BY <1>10, <2>4, <3>1 DEF Serves
    <3>8. Ready(Month(today + 1) + 1) \/ Over(i)' <= faults
      <4>1. CASE Day(today) = DaysPerMonth - 1
        <5>1. Over(i)' = 0 BY <1>7, <1>8, <4>1 DEF Over
        <5> QED BY <5>1, <1>2
      <4>2. CASE Day(today) # DaysPerMonth - 1
        <5>1. Over(i)' = Day(today) - (IF todo[i] # <<>> THEN 1 ELSE 0)
          BY <1>3, <1>6, <1>7, <1>8, <4>2 DEF Over
        <5>2. CASE Day(today) = 0 BY <1>2, <5>1, <5>2
        <5>3. CASE Day(today) # 0
          <6>1. Ready(Month(today) + 1) \/ Over(i) <= faults BY <3>1 DEF Serves
          <6> QED BY <1>8, <3>2, <4>2, <5>1, <5>3, <6>1
        <5> QED BY <5>2, <5>3
      <4> QED BY <4>1, <4>2
    <3>9. Ready(Month(today))' /\ Ready(Base(i))' BY <1>7, <1>9, <3>4, <3>6
    <3>10. Ready(Month(today) + 1)' \/ Over(i)' <= faults' BY <1>3, <1>7, <1>9, <3>8
    <3> QED BY <1>3, <3>7, <3>9, <3>10 DEF Serves
  <2> QED BY <1>3, <2>3, <2>6, <2>7 DEF Fits
<1> QED BY <1>4, <1>5, <1>11 DEF JournalInv

\* What a step does that touches neither instances nor partitions.
LEMMA WritesKeep ==
  ASSUME JournalInv, UNCHANGED <<today, procs, parts, faults>>, Filed'
  PROVE  JournalInv'
<1> USE DEF procs, parts
<1>1. JournalTypes BY DEF JournalInv
<1>2. JournalTypes' BY <1>1 DEF JournalTypes
<1>3. faults <= faults' BY <1>1 DEF JournalTypes
<1>4. \A i \in Instances : Fits(i)' BY <1>1, <1>2, <1>3, Stays DEF JournalInv
<1> QED BY <1>2, <1>4 DEF JournalInv

\* BeginEntry: an instance that serves has its month.
LEMMA BeginKeeps ==
  ASSUME JournalInv, NEW i \in Instances, NEW e \in Entries, BeginEntry(i, e)
  PROVE  JournalInv'
<1>1. Filed /\ Ready(Month(today)) BY DEF JournalInv, Fits, Serves, BeginEntry
<1>2. /\ DOMAIN writing' = DOMAIN writing \cup {e}
      /\ \A x \in DOMAIN writing' : writing'[x] = IF x = e THEN [by |-> i, at |-> today] ELSE writing[x]
      /\ postings' = postings /\ postParts' = postParts /\ triggers' = triggers
  BY DEF BeginEntry, With, parts
<1>3. \A m : Ready(m)' = Ready(m) BY <1>2 DEF Ready
<1>4. \A x \in DOMAIN writing' : Ready(Month(writing'[x].at))
  <2> TAKE x \in DOMAIN writing'
  <2>1. CASE x = e BY <1>1, <1>2, <2>1
  <2>2. CASE x # e BY <1>1, <1>2, <2>2 DEF Filed
  <2> QED BY <2>1, <2>2
<1>5. Filed' BY <1>1, <1>2, <1>4 DEF Filed, PostingsAreFiled, Ready, Month
<1> QED BY <1>5, WritesKeep DEF BeginEntry

\* CommitEntry: the month of occurred_at is still ready.
LEMMA CommitKeeps ==
  ASSUME JournalInv, NEW e \in DOMAIN writing, CommitEntry(e)
  PROVE  JournalInv'
<1>1. Filed /\ Ready(Month(writing[e].at)) BY DEF JournalInv, Filed
<1>2. \A id, acct : LET p == InsertPosting(id, acct, writing[e].at)
                    IN  p.part = "month" /\ p.checked
  BY <1>1 DEF InsertPosting, Ready
<1>3. \A p \in postings' : p.part = "month" /\ p.checked
  BY <1>1, <1>2 DEF CommitEntry, Filed, PostingsAreFiled
<1>4. /\ DOMAIN writing' \subseteq DOMAIN writing
      /\ \A x \in DOMAIN writing' : writing'[x] = writing[x]
      /\ postParts' = postParts /\ triggers' = triggers
  BY DEF CommitEntry, Without, parts
<1>5. Filed' BY <1>1, <1>3, <1>4 DEF Filed, PostingsAreFiled, Ready, Month
<1> QED BY <1>5, WritesKeep DEF CommitEntry

\* Every step keeps the invariant.
LEMMA JournalKeeps == JournalInv /\ [JournalNext]_jvars => JournalInv'
<1> SUFFICES ASSUME JournalInv, [JournalNext]_jvars PROVE JournalInv' OBVIOUS
<1>1. ASSUME UNCHANGED <<today, procs, parts, faults>>, UNCHANGED <<writing, postings>>
      PROVE  JournalInv'
  <2>1. Filed' BY <1>1, FiledStays DEF JournalInv, parts
  <2> QED BY <1>1, <2>1, WritesKeep
<1>2. ASSUME NEW i \in Instances,
             Start(i) \/ Serve(i) \/ Tick(i) \/ Crash(i) \/ Statement(i) \/ Fail(i)
               \/ \E e \in Entries : BeginEntry(i, e)
      PROVE  JournalInv'
  BY <1>2, StartKeeps, ServeKeeps, TickKeeps, CrashKeeps, StatementKeeps, FailKeeps, BeginKeeps
<1>3. CASE NextDay BY <1>3, NextDayKeeps
<1>4. ASSUME NEW e \in Entries, InsertTransfer(e) PROVE JournalInv' BY <1>1, <1>4 DEF InsertTransfer
<1>5. ASSUME NEW e \in DOMAIN writing, CommitEntry(e) PROVE JournalInv' BY <1>5, CommitKeeps
<1>6. ASSUME NEW of, NEW r, NEW n, FirstPage(of, r, n) PROVE JournalInv' BY <1>1, <1>6 DEF FirstPage
<1>7. CASE NextPage BY <1>1, <1>7 DEF NextPage
<1>8. CASE UNCHANGED jvars BY <1>1, <1>8 DEF jvars
<1> QED BY <1>2, <1>3, <1>4, <1>5, <1>6, <1>7, <1>8 DEF JournalNext

\* Every posting lies in its month's own partition and was inserted under the zero-sum
\* trigger, for any number of instances, starts, crashes and months, if a month has three
\* days more than statements of EnsurePartitions fail (RunPartitionMaintenance).
THEOREM PostingsAreFiledHolds == JournalSpec => []PostingsAreFiled
<1>1. JournalInv => PostingsAreFiled BY DEF JournalInv, Filed
<1> QED BY <1>1, JournalStart, JournalKeeps, PTL DEF JournalSpec

-----------------------------------------------------------------------------
(* Pages *)

Key == [at : Nat, id : Nat]

\* The rows that come before k.
Newer(keys, k) == {j \in keys : Below(k, j)}

\* No row twice, newest first.
Descends(s) == \A i, j \in 1..Len(s) : i < j => Below(s[j], s[i])

\* The order of the lists is total.
LEMMA BelowIsTotal ==
  ASSUME NEW j \in Key, NEW k \in Key
  PROVE  /\ ~Below(k, k)
         /\ j = k \/ Below(j, k) \/ Below(k, j)
         /\ ~(Below(j, k) /\ Below(k, j))
         /\ \A l \in Key : Below(j, k) /\ Below(k, l) => Below(j, l)
<1>1. j = [at |-> j.at, id |-> j.id] /\ k = [at |-> k.at, id |-> k.id] BY DEF Key
<1>2. j.at = k.at /\ j.id = k.id => j = k BY <1>1, Zenon
<1>3. \A l \in Key : l.at \in Nat /\ l.id \in Nat BY DEF Key
<1> QED BY <1>2, <1>3 DEF Below

\* Rows with fewer rows before them come earlier.
LEMMA NewerIs ==
  ASSUME NEW keys \in SUBSET Key, IsFiniteSet(keys), NEW k \in keys
  PROVE  /\ Cardinality(Newer(keys, k)) \in 0..(Cardinality(keys) - 1)
         /\ \A l \in keys :
              Below(l, k) <=> Cardinality(Newer(keys, k)) < Cardinality(Newer(keys, l))
<1>1. ASSUME NEW l \in keys
      PROVE  /\ IsFiniteSet(Newer(keys, l)) /\ Cardinality(Newer(keys, l)) \in Nat
             /\ Cardinality(keys) \in Nat
             /\ Cardinality(Newer(keys, l)) <= Cardinality(keys)
             /\ Cardinality(Newer(keys, l)) # Cardinality(keys)
  <2>1. Newer(keys, l) \in SUBSET keys BY DEF Newer
  <2>2. l \notin Newer(keys, l) BY BelowIsTotal DEF Newer
  <2>3. Newer(keys, l) # keys BY <2>2
  <2>4. IsFiniteSet(Newer(keys, l)) /\ Cardinality(Newer(keys, l)) <= Cardinality(keys)
        /\ Cardinality(Newer(keys, l)) # Cardinality(keys)
    BY <2>1, <2>3, FS_Subset
  <2> QED BY <2>4, FS_CardinalityType
<1>2. Cardinality(Newer(keys, k)) \in 0..(Cardinality(keys) - 1) BY <1>1
<1>3. ASSUME NEW l \in keys, NEW m \in keys, Below(l, m)
      PROVE  Cardinality(Newer(keys, m)) < Cardinality(Newer(keys, l))
  <2>1. Newer(keys, m) \in SUBSET Newer(keys, l)
    <3> SUFFICES ASSUME NEW x \in keys, Below(m, x) PROVE Below(l, x) BY DEF Newer
    <3>1. l \in Key /\ m \in Key /\ x \in Key OBVIOUS
    <3> QED BY <1>3, <3>1, BelowIsTotal
  <2>2. m \in Newer(keys, l) BY <1>3 DEF Newer
  <2>3. m \notin Newer(keys, m) BY BelowIsTotal DEF Newer
  <2>4. Newer(keys, m) # Newer(keys, l) BY <2>2, <2>3
  <2>5. /\ Cardinality(Newer(keys, m)) <= Cardinality(Newer(keys, l))
        /\ Cardinality(Newer(keys, m)) # Cardinality(Newer(keys, l))
    BY <1>1, <2>1, <2>4, FS_Subset
  <2>6. Cardinality(Newer(keys, m)) \in Nat /\ Cardinality(Newer(keys, l)) \in Nat BY <1>1
  <2> QED BY <2>5, <2>6
<1>4. ASSUME NEW l \in keys, Cardinality(Newer(keys, k)) < Cardinality(Newer(keys, l))
      PROVE  Below(l, k)
  <2>1. Cardinality(Newer(keys, k)) \in Nat /\ Cardinality(Newer(keys, l)) \in Nat BY <1>1
  <2>2. l # k BY <1>4, <2>1
  <2>3. ~Below(k, l)
    <3> SUFFICES ASSUME Below(k, l) PROVE FALSE OBVIOUS
    <3>1. Cardinality(Newer(keys, l)) < Cardinality(Newer(keys, k)) BY <1>3
    <3> QED BY <1>4, <2>1, <3>1
  <2>4. l \in Key /\ k \in Key OBVIOUS
  <2> QED BY <2>2, <2>3, <2>4, BelowIsTotal
<1> QED BY <1>2, <1>3, <1>4

\* The rows before a row are counted without a gap: as many counts as there are rows.
LEMMA EveryPlaceIsTaken ==
  ASSUME NEW keys \in SUBSET Key, IsFiniteSet(keys), NEW i \in 1..Cardinality(keys)
  PROVE  \E k \in keys : Cardinality(Newer(keys, k)) = i - 1
<1> DEFINE n == Cardinality(keys)
           place == [k \in keys |-> Cardinality(Newer(keys, k))]
<1>1. n \in Nat BY FS_CardinalityType
<1>2. place \in [keys -> 0..(n - 1)] BY NewerIs
<1>3. ASSUME NEW k \in keys, NEW l \in keys, place[k] = place[l] PROVE k = l
  <2>1. Cardinality(Newer(keys, k)) \in 0..(n - 1) /\ Cardinality(Newer(keys, l)) \in 0..(n - 1)
    BY NewerIs
  <2>2. Cardinality(Newer(keys, k)) = Cardinality(Newer(keys, l)) BY <1>3
  <2>3. ~(Cardinality(Newer(keys, k)) < Cardinality(Newer(keys, l))) BY <1>1, <2>1, <2>2
  <2>4. ~(Cardinality(Newer(keys, l)) < Cardinality(Newer(keys, k))) BY <1>1, <2>1, <2>2
  <2>5. ~Below(k, l) /\ ~Below(l, k) BY <2>3, <2>4, NewerIs
  <2>6. k \in Key /\ l \in Key OBVIOUS
  <2> QED BY <2>5, <2>6, BelowIsTotal
<1>4. IsFiniteSet(0..(n - 1)) /\ Cardinality(0..(n - 1)) = n
  <2>1. 0 \in Int /\ n - 1 \in Int /\ (0 > n - 1 => n = 0) /\ (n - 1) - 0 + 1 = n BY <1>1
  <2> HIDE DEF n
  <2> QED BY <2>1, FS_Interval
<1> HIDE DEF n, place
<1>5. place \in Injection(keys, 0..(n - 1)) BY <1>2, <1>3 DEF Injection, IsInjective
<1>6. Cardinality(keys) = Cardinality(0..(n - 1)) BY <1>4 DEF n
<1>7. place \in Surjection(keys, 0..(n - 1)) BY <1>4, <1>5, <1>6, FS_Injection
<1>8. i - 1 \in 0..(n - 1) BY <1>1 DEF n
<1>9. PICK k \in keys : place[k] = i - 1 BY <1>7, <1>8 DEF Surjection
<1> QED BY <1>9 DEF place

\* The sorted rows: all of them, each once, newest first.
LEMMA NewestFirstSorts ==
  ASSUME NEW keys \in SUBSET Key, IsFiniteSet(keys)
  PROVE  /\ NewestFirst(keys) \in Seq(keys) /\ Len(NewestFirst(keys)) \in Nat
         /\ \A k \in keys : \E i \in 1..Len(NewestFirst(keys)) : NewestFirst(keys)[i] = k
         /\ Descends(NewestFirst(keys))
<1> DEFINE n == Cardinality(keys)
           s == NewestFirst(keys)
           c(k) == Cardinality(Newer(keys, k))
<1>1. n \in Nat BY FS_CardinalityType
<1>2. s = [i \in 1..n |-> CHOOSE k \in keys : c(k) = i - 1] BY DEF NewestFirst, Newer
<1>3. \A i \in 1..n : \E k \in keys : c(k) = i - 1 BY EveryPlaceIsTaken
<1>4. \A k \in keys : c(k) \in 0..(n - 1) BY NewerIs
<1>5. \A k, l \in keys : Below(l, k) <=> c(k) < c(l) BY NewerIs
<1> HIDE DEF n, s, c
<1>6. \A i \in 1..n : s[i] \in keys /\ c(s[i]) = i - 1
  <2> TAKE i \in 1..n
  <2>1. PICK k \in keys : c(k) = i - 1 BY <1>3
  <2>2. s[i] = CHOOSE m \in keys : c(m) = i - 1 BY <1>2
  <2> QED BY <2>1, <2>2
<1>7. s \in [1..n -> keys] BY <1>2, <1>6
<1>8. s \in Seq(keys) /\ Len(s) = n BY <1>1, <1>7
<1>9. Descends(s)
  <2> SUFFICES ASSUME NEW i \in 1..n, NEW j \in 1..n, i < j PROVE Below(s[j], s[i])
    BY <1>8 DEF Descends
  <2>1. c(s[i]) < c(s[j]) BY <1>1, <1>6
  <2> QED BY <1>5, <1>6, <2>1
<1>10. ASSUME NEW k \in keys PROVE \E i \in 1..n : s[i] = k
  <2>1. c(k) + 1 \in 1..n BY <1>1, <1>4
  <2>2. s[c(k) + 1] \in keys /\ c(s[c(k) + 1]) = c(k) BY <1>4, <1>6, <2>1
  <2>3. ~(c(k) < c(s[c(k) + 1])) /\ ~(c(s[c(k) + 1]) < c(k)) BY <1>4, <2>2
  <2>4. ~Below(k, s[c(k) + 1]) /\ ~Below(s[c(k) + 1], k) BY <1>5, <2>2, <2>3
  <2>5. k \in Key /\ s[c(k) + 1] \in Key BY <2>2
  <2>6. s[c(k) + 1] = k BY <2>4, <2>5, BelowIsTotal
  <2> QED BY <2>1, <2>6
<1> QED BY <1>1, <1>8, <1>9, <1>10 DEF s

\* LIMIT keeps the first rows.
LEMMA LimitIs ==
  ASSUME NEW K, NEW s \in Seq(K), NEW n \in Nat
  PROVE  /\ Limit(s, n) \in Seq(K)
         /\ Len(Limit(s, n)) = IF Len(s) < n THEN Len(s) ELSE n
         /\ \A i \in 1..Len(Limit(s, n)) : i \in 1..Len(s) /\ Limit(s, n)[i] = s[i]
<1> DEFINE m == IF Len(s) < n THEN Len(s) ELSE n
<1>1. Len(s) \in Nat /\ m \in Nat /\ m <= Len(s) OBVIOUS
<1>2. Limit(s, n) = SubSeq(s, 1, m) BY DEF Limit
<1> HIDE DEF m
<1>3. SubSeq(s, 1, m) \in Seq(K) /\ Len(SubSeq(s, 1, m)) = m BY <1>1
<1>4. \A i \in 1..m : i \in 1..Len(s) /\ SubSeq(s, 1, m)[i] = s[i] BY <1>1
<1> QED BY <1>2, <1>3, <1>4 DEF m

\* A page: rows of the list below the cursor, newest first; what is below the cursor and
\* not on the page is below its last row, and then there is a next page.
LEMMA ListIs ==
  ASSUME NEW keys \in SUBSET Key, IsFiniteSet(keys), NEW cursor, NEW size \in Nat \ {0}
  PROVE  LET page == List(keys, cursor, size)
         IN  /\ page.rows \in Seq(keys) /\ page.more \in BOOLEAN
             /\ \A i \in 1..Len(page.rows) : Below(page.rows[i], cursor)
             /\ Descends(page.rows)
             /\ page.more => Len(page.rows) > 0
             /\ \A k \in keys : Below(k, cursor) =>
                  \/ \E i \in 1..Len(page.rows) : page.rows[i] = k
                  \/ page.more /\ Below(k, page.rows[Len(page.rows)])
<1> DEFINE below == {k \in keys : Below(k, cursor)}
           all == NewestFirst(below)
           got == Limit(all, size + 1)
           rows == Limit(got, size)
<1>1. below \in SUBSET Key /\ IsFiniteSet(below) /\ below \subseteq keys BY FS_Subset
<1>2. List(keys, cursor, size) = [rows |-> rows, more |-> Len(got) > size] BY DEF List, Page
<1>3. \A k \in below : Below(k, cursor) OBVIOUS
<1>4. \A k \in keys : Below(k, cursor) => k \in below OBVIOUS
<1> HIDE DEF below
<1>5. /\ all \in Seq(below) /\ Len(all) \in Nat
      /\ \A k \in below : \E i \in 1..Len(all) : all[i] = k
      /\ Descends(all)
  BY <1>1, NewestFirstSorts
<1> HIDE DEF all
<1>6. size + 1 \in Nat /\ size \in Nat OBVIOUS
<1>7. /\ got \in Seq(below)
      /\ Len(got) = IF Len(all) < size + 1 THEN Len(all) ELSE size + 1
      /\ \A i \in 1..Len(got) : i \in 1..Len(all) /\ got[i] = all[i]
  BY <1>5, <1>6, LimitIs
<1> HIDE DEF got
<1>8. /\ rows \in Seq(below)
      /\ Len(rows) = IF Len(got) < size THEN Len(got) ELSE size
      /\ \A i \in 1..Len(rows) : i \in 1..Len(got) /\ rows[i] = got[i]
  BY <1>6, <1>7, LimitIs
<1> HIDE DEF rows
<1>9. /\ Len(rows) = IF Len(all) < size THEN Len(all) ELSE size
      /\ Len(got) > size => Len(all) > size
      /\ Len(all) > size => Len(got) > size
  <2>1. Len(all) \in Nat /\ size \in Nat BY <1>5
  <2>2. Len(got) = IF Len(all) < size + 1 THEN Len(all) ELSE size + 1 BY <1>7
  <2>3. Len(rows) = IF Len(got) < size THEN Len(got) ELSE size BY <1>8
  <2> QED BY <2>1, <2>2, <2>3
<1>10. \A i \in 1..Len(rows) : i \in 1..Len(all) /\ rows[i] = all[i] BY <1>7, <1>8
<1>11. Descends(rows) BY <1>5, <1>9, <1>10 DEF Descends
<1>12. \A i \in 1..Len(rows) : rows[i] \in below BY <1>8
<1>13. rows \in Seq(keys) BY <1>1, <1>8
<1>14. ASSUME NEW k \in below, ~\E i \in 1..Len(rows) : rows[i] = k
       PROVE  Len(all) > size /\ Below(k, rows[Len(rows)])
  <2>1. PICK i \in 1..Len(all) : all[i] = k BY <1>5
  <2>2. i \notin 1..Len(rows) BY <1>10, <1>14, <2>1
  <2>3. Len(all) > size /\ Len(rows) = size /\ size < i /\ size \in 1..Len(all)
    <3>1. Len(all) \in Nat /\ size \in Nat \ {0} BY <1>5
    <3>2. CASE Len(all) <= size
      <4>1. Len(rows) = Len(all) BY <1>9, <3>1, <3>2
      <4> QED BY <2>1, <2>2, <4>1
    <3>3. CASE Len(all) > size
      <4>1. Len(rows) = size BY <1>9, <3>1, <3>3
      <4> QED BY <2>1, <2>2, <3>1, <3>3, <4>1
    <3> QED BY <3>1, <3>2, <3>3
  <2>4. rows[size] = all[size] BY <1>10, <2>3
  <2>5. Below(all[i], all[size]) BY <1>5, <2>1, <2>3 DEF Descends
  <2> QED BY <2>1, <2>3, <2>4, <2>5
<1>15. Len(got) > size => Len(rows) > 0 BY <1>9
<1>16. ASSUME NEW k \in keys, Below(k, cursor)
       PROVE  (\E i \in 1..Len(rows) : rows[i] = k) \/ (Len(got) > size /\ Below(k, rows[Len(rows)]))
  BY <1>4, <1>9, <1>14, <1>16
<1>17. (Len(got) > size) \in BOOLEAN OBVIOUS
<1> DEFINE page == List(keys, cursor, size)
<1>18. page.rows = rows /\ page.more = (Len(got) > size) BY <1>2
<1> HIDE DEF page
<1> QED BY <1>3, <1>11, <1>12, <1>13, <1>15, <1>16, <1>17, <1>18 DEF page
-----------------------------------------------------------------------------
(* A walk through a list *)

\* What the tables hold.  Rows come and are not taken away.
Tables ==
  /\ today \in Nat
  /\ IsFiniteSet(postings) /\ \A p \in postings : p.at \in Nat /\ p.id \in Nat
  /\ DOMAIN writing \subseteq Nat /\ \A e \in DOMAIN writing : writing[e].at \in Nat
  /\ IsFiniteSet(DOMAIN transfers) /\ DOMAIN transfers \subseteq Nat
  /\ \A e \in DOMAIN transfers : transfers[e] \in 0..today

Shows(s, k) == \E i \in 1..Len(s) : s[i] = k

\* The pages so far descend, and a row that was there at the first one is on them or is
\* still to come: it is in the list below the last row shown.
Walking(w) ==
  /\ w = [at |-> w.at, of |-> w.of, range |-> w.range, size |-> w.size,
          cursor |-> w.cursor, seen |-> w.seen, due |-> w.due]
  /\ w.at \in {"open", "ended"} /\ w.size \in Nat
  /\ w.seen \in Seq(Key) /\ Descends(w.seen)
  /\ w.at = "open" =>
       /\ Len(w.seen) > 0 /\ w.cursor = w.seen[Len(w.seen)]
       /\ \A k \in w.due : Shows(w.seen, k) \/ (k \in Listed(w) /\ Below(k, w.cursor))
  /\ w.at = "ended" => \A k \in w.due : Shows(w.seen, k)

WalkInv == Tables /\ (walk = Closed \/ Walking(walk))

\* The lists are finite sets of rows.
LEMMA ListedIs ==
  ASSUME Tables, NEW w
  PROVE  Listed(w) \in SUBSET Key /\ IsFiniteSet(Listed(w))
<1>1. Posted(w.range) \in SUBSET Key /\ IsFiniteSet(Posted(w.range))
  <2> DEFINE S == {q \in postings : q.acct = Debited /\ w.range.from <= q.at /\ q.at < w.range.to}
             T == Posted(w.range)
             f == [p \in S |-> [at |-> p.at, id |-> p.id]]
  <2>1. IsFiniteSet(S) BY FS_Subset DEF Tables
  <2>2. T = {[at |-> p.at, id |-> p.id] : p \in S} BY DEF Posted
  <2>3. T \in SUBSET Key BY <2>2 DEF Tables, Key
  <2> HIDE DEF S, T
  <2>4. f \in Surjection(S, T) BY <2>2 DEF Surjection
  <2> HIDE DEF f
  <2>5. IsFiniteSet(T) BY <2>1, <2>4, FS_Surjection
  <2> QED BY <2>3, <2>5 DEF T
<1>2. Created \in SUBSET Key /\ IsFiniteSet(Created)
  <2> DEFINE S == DOMAIN transfers
             T == Created
             f == [e \in S |-> [at |-> transfers[e], id |-> e]]
  <2>1. IsFiniteSet(S) BY DEF Tables
  <2>2. T = {[at |-> transfers[e], id |-> e] : e \in S} BY DEF Created
  <2>3. T \in SUBSET Key BY <2>2 DEF Tables, Key
  <2> HIDE DEF S, T
  <2>4. f \in Surjection(S, T) BY <2>2 DEF Surjection
  <2> HIDE DEF f
  <2>5. IsFiniteSet(T) BY <2>1, <2>4, FS_Surjection
  <2> QED BY <2>3, <2>5 DEF T
<1> QED BY <1>1, <1>2 DEF Listed

\* Pages have at least one row.
LEMMA SizeIs ==
  ASSUME NEW asked \in Nat
  PROVE  Size(asked) \in Nat \ {0}
BY JournalAssumption DEF Size

\* A page is appended.
LEMMA TakeWalks ==
  ASSUME Tables, UNCHANGED <<postings, transfers>>, NEW w,
         w = [at |-> w.at, of |-> w.of, range |-> w.range, size |-> w.size,
              cursor |-> w.cursor, seen |-> w.seen, due |-> w.due],
         w.size \in Nat, w.seen \in Seq(Key), Descends(w.seen),
         \A i \in 1..Len(w.seen) : w.cursor = w.seen[Len(w.seen)],
         \A k \in w.due : Shows(w.seen, k) \/ (k \in Listed(w) /\ Below(k, w.cursor)),
         Take(w, List(Listed(w), w.cursor, Size(w.size)))
  PROVE  Walking(walk)'
<1> DEFINE page == List(Listed(w), w.cursor, Size(w.size))
           r == page.rows
           s == w.seen
           t == s \o r
           cur == w.cursor
<1>1. Listed(w) \in SUBSET Key /\ IsFiniteSet(Listed(w)) BY ListedIs
<1>2. Size(w.size) \in Nat \ {0} BY SizeIs
<1>3. /\ r \in Seq(Listed(w)) /\ page.more \in BOOLEAN
      /\ \A i \in 1..Len(r) : Below(r[i], cur)
      /\ Descends(r)
      /\ page.more => Len(r) > 0
      /\ \A k \in Listed(w) : Below(k, cur) => Shows(r, k) \/ (page.more /\ Below(k, r[Len(r)]))
  BY <1>1, <1>2, ListIs DEF Shows
<1>4. r \in Seq(Key) BY <1>1, <1>3
<1>5. walk' = [w EXCEPT !.at = IF page.more THEN "open" ELSE "ended",
                        !.cursor = IF page.more THEN r[Len(r)] ELSE w.cursor,
                        !.seen = t]
  BY DEF Take, Last
<1>6. s \in Seq(Key) OBVIOUS
<1> HIDE DEF page, r, s
<1>7. walk' = [at |-> IF page.more THEN "open" ELSE "ended", of |-> w.of, range |-> w.range,
               size |-> w.size, cursor |-> IF page.more THEN r[Len(r)] ELSE w.cursor,
               seen |-> t, due |-> w.due]
  BY <1>5
<1>8. /\ t \in Seq(Key) /\ Len(t) = Len(s) + Len(r) /\ Len(s) \in Nat /\ Len(r) \in Nat
      /\ \A i \in 1..Len(s) : t[i] = s[i]
      /\ \A i \in 1..Len(r) : t[Len(s) + i] = r[i]
  BY <1>4, <1>6
<1> HIDE DEF t
<1>9. \A i \in 1..Len(t) : i \in 1..Len(s) \/ (i - Len(s) \in 1..Len(r) /\ t[i] = r[i - Len(s)])
  <2> TAKE i \in 1..Len(t)
  <2>1. CASE i <= Len(s) BY <1>8, <2>1
  <2>2. CASE i > Len(s)
    <3>1. i - Len(s) \in 1..Len(r) /\ Len(s) + (i - Len(s)) = i BY <1>8, <2>2
    <3> QED BY <1>8, <3>1
  <2> QED BY <1>8, <2>1, <2>2
<1>10. Descends(t)
  <2> SUFFICES ASSUME NEW i \in 1..Len(t), NEW j \in 1..Len(t), i < j PROVE Below(t[j], t[i])
    BY DEF Descends
  <2>1. CASE j \in 1..Len(s)
    <3>1. i \in 1..Len(s) BY <1>8, <2>1
    <3>2. Below(s[j], s[i]) BY <2>1, <3>1 DEF Descends, s
    <3> QED BY <1>8, <2>1, <3>1, <3>2
  <2>2. CASE i \notin 1..Len(s)
    <3>1. i - Len(s) \in 1..Len(r) /\ t[i] = r[i - Len(s)] BY <1>9, <2>2
    <3>2. j \notin 1..Len(s) BY <1>8, <2>2
    <3>3. j - Len(s) \in 1..Len(r) /\ t[j] = r[j - Len(s)] BY <1>9, <3>2
    <3>4. i - Len(s) < j - Len(s) BY <1>8
    <3> QED BY <1>3, <3>1, <3>3, <3>4 DEF Descends
  <2>3. CASE i \in 1..Len(s) /\ j \notin 1..Len(s)
    <3>1. j - Len(s) \in 1..Len(r) /\ t[j] = r[j - Len(s)] BY <1>9, <2>3
    <3>2. Below(t[j], cur) BY <1>3, <3>1
    <3>3. cur = s[Len(s)] /\ Len(s) \in 1..Len(s) BY <1>8, <2>3 DEF s
    <3>4. cur = s[i] \/ Below(cur, s[i])
      <4>1. CASE i = Len(s) BY <3>3, <4>1
      <4>2. CASE i < Len(s) BY <2>3, <3>3, <4>2 DEF Descends, s
      <4> QED BY <1>8, <2>3, <4>1, <4>2
    <3>5. t[j] \in Key /\ cur \in Key /\ s[i] \in Key /\ t[i] = s[i] BY <1>6, <1>8, <2>3, <3>3
    <3> QED BY <3>2, <3>4, <3>5, BelowIsTotal
  <2> QED BY <2>1, <2>2, <2>3
<1>11. \A k : Shows(s, k) => Shows(t, k)
  <2> SUFFICES ASSUME NEW k, NEW i \in 1..Len(s), s[i] = k PROVE \E n \in 1..Len(t) : t[n] = k
    BY DEF Shows
  <2>1. i \in 1..Len(t) /\ t[i] = k BY <1>8
  <2> QED BY <2>1
<1>12. \A k : Shows(r, k) => Shows(t, k)
  <2> SUFFICES ASSUME NEW k, NEW i \in 1..Len(r), r[i] = k PROVE \E n \in 1..Len(t) : t[n] = k
    BY DEF Shows
  <2>1. Len(s) + i \in 1..Len(t) /\ t[Len(s) + i] = k BY <1>8
  <2> QED BY <2>1
<1>13. \A k \in w.due : Shows(t, k) \/ (page.more /\ k \in Listed(w) /\ Below(k, r[Len(r)]))
  BY <1>3, <1>11, <1>12 DEF s
<1>14. page.more => Len(t) > 0 /\ r[Len(r)] = t[Len(t)]
  <2> SUFFICES ASSUME page.more PROVE Len(t) > 0 /\ r[Len(r)] = t[Len(t)] OBVIOUS
  <2>1. Len(r) \in 1..Len(r) BY <1>3, <1>8
  <2>2. t[Len(s) + Len(r)] = r[Len(r)] BY <1>8, <2>1
  <2>3. Len(t) = Len(s) + Len(r) /\ Len(s) \in Nat BY <1>8
  <2>4. Len(t) > 0 BY <2>1, <2>3
  <2> QED BY <2>2, <2>3, <2>4
<1>15. walk'.of = w.of /\ walk'.range = w.range BY <1>7
<1>16. Listed(walk)' = Listed(w) BY <1>15 DEF Listed, Posted, Created
<1>17. /\ walk'.at = (IF page.more THEN "open" ELSE "ended") /\ walk'.seen = t /\ walk'.due = w.due
       /\ walk'.size = w.size /\ walk'.cursor = IF page.more THEN r[Len(r)] ELSE w.cursor
  BY <1>7
<1>18. walk' = [at |-> walk'.at, of |-> walk'.of, range |-> walk'.range, size |-> walk'.size,
                cursor |-> walk'.cursor, seen |-> walk'.seen, due |-> walk'.due]
  BY <1>7
<1>19. walk'.seen \in Seq(Key) /\ Descends(walk'.seen) /\ walk'.size \in Nat
       /\ walk'.at \in {"open", "ended"}
  BY <1>8, <1>10, <1>17
<1>20. walk'.at = "open" =>
         /\ Len(walk'.seen) > 0 /\ walk'.cursor = walk'.seen[Len(walk'.seen)]
         /\ \A k \in walk'.due :
              Shows(walk'.seen, k) \/ (k \in Listed(w) /\ Below(k, walk'.cursor))
  BY <1>13, <1>14, <1>17
<1>21. walk'.at = "ended" => \A k \in walk'.due : Shows(walk'.seen, k) BY <1>13, <1>17
<1> QED BY <1>16, <1>18, <1>19, <1>20, <1>21, Zenon DEF Walking, Descends, Shows, Below

\* A client that asks for the first page: every row of the list is below its cursor.
LEMMA FirstPageKeeps ==
  ASSUME WalkInv, NEW of, NEW range \in Ranges, NEW size \in PageSizes, FirstPage(of, range, size)
  PROVE  Walking(walk)'
<1> DEFINE first == [at |-> IF of = "postings" THEN range.to ELSE today + 1, id |-> MaxId]
           w == [at |-> "open", of |-> of, range |-> range, size |-> size,
                 cursor |-> first, seen |-> <<>>, due |-> {}]
           v == [at |-> "open", of |-> of, range |-> range, size |-> size,
                 cursor |-> first, seen |-> <<>>, due |-> Listed(w)]
<1>1. range.to \in Nat /\ size \in Nat BY JournalAssumption
<1>2. Tables /\ today \in Nat BY DEF WalkInv, Tables
<1>3. [w EXCEPT !.due = Listed(w)] = v OBVIOUS
<1>4. Take(v, Answer(w, first)) BY <1>3 DEF FirstPage
<1>5. Listed(v) = Listed(w) BY DEF Listed
<1>6. Answer(w, first) = List(Listed(v), first, Size(size))
  BY <1>5 DEF Answer, ListPostings, ListTransfers, Listed
<1>7. \A k \in Listed(w) : Below(k, first)
  <2>1. CASE of = "postings" BY <2>1, <1>1 DEF Listed, Posted, Below
  <2>2. CASE of # "postings"
    <3> SUFFICES ASSUME NEW e \in DOMAIN transfers
                 PROVE  Below([at |-> transfers[e], id |-> e], first)
      BY <2>2 DEF Listed, Created
    <3>1. transfers[e] < today + 1 BY <1>2 DEF Tables
    <3> QED BY <2>2, <3>1 DEF Below
  <2> QED BY <2>1, <2>2
<1>8. /\ v.cursor = first /\ v.size = size /\ v.seen = <<>> /\ v.due = Listed(w)
      /\ v = [at |-> v.at, of |-> v.of, range |-> v.range, size |-> v.size,
              cursor |-> v.cursor, seen |-> v.seen, due |-> v.due]
  OBVIOUS
<1>9. UNCHANGED <<postings, transfers>> BY DEF FirstPage
<1> HIDE DEF v, w, first
<1>10. <<>> \in Seq(Key) /\ Len(<<>>) = 0 /\ 1..0 = {} OBVIOUS
<1>11. v.seen \in Seq(Key) /\ Descends(v.seen) /\ \A i \in 1..Len(v.seen) : v.cursor = v.seen[Len(v.seen)]
  BY <1>8, <1>10 DEF Descends
<1>12. Take(v, List(Listed(v), v.cursor, Size(v.size))) BY <1>4, <1>6, <1>8
<1>13. \A k \in v.due : Shows(v.seen, k) \/ (k \in Listed(v) /\ Below(k, v.cursor))
  BY <1>5, <1>7, <1>8
<1>14. v.size \in Nat BY <1>1, <1>8
<1> QED BY <1>2, <1>8, <1>9, <1>11, <1>12, <1>13, <1>14, TakeWalks

\* A client that asks for the page after the last row it has seen.
LEMMA NextPageKeeps ==
  ASSUME WalkInv, NextPage
  PROVE  Walking(walk)'
<1>1. Tables /\ UNCHANGED <<postings, transfers>> /\ walk.at = "open" BY DEF NextPage, WalkInv
<1>2. walk # Closed BY <1>1 DEF Closed
<1>3. Walking(walk) BY <1>2 DEF WalkInv
<1>4. Answer(walk, walk.cursor) = List(Listed(walk), walk.cursor, Size(walk.size))
  BY DEF Answer, ListPostings, ListTransfers, Listed
<1>5. Take(walk, List(Listed(walk), walk.cursor, Size(walk.size))) BY <1>4 DEF NextPage
<1> QED BY <1>1, <1>3, <1>5, TakeWalks DEF Walking

\* While the client has a page before it, rows are only added.
LEMMA WalkGoesOn ==
  ASSUME Tables, walk = Closed \/ Walking(walk), walk' = walk, postings \subseteq postings',
         DOMAIN transfers \subseteq DOMAIN transfers',
         \A e \in DOMAIN transfers : transfers'[e] = transfers[e]
  PROVE  (walk = Closed \/ Walking(walk))'
<1>1. \A w : Posted(w.range) \subseteq Posted(w.range)' BY DEF Posted
<1>2. Created \subseteq Created' BY DEF Created
<1>3. Listed(walk) \subseteq Listed(walk)' BY <1>1, <1>2 DEF Listed
<1>4. CASE walk = Closed BY <1>4 DEF Closed
<1>5. CASE Walking(walk)
  <2>1. Walking(walk)' BY <1>3, <1>5 DEF Walking, Descends, Shows, Below
  <2> QED BY <2>1
<1> QED BY <1>4, <1>5

\* The tables keep what they hold and take the new rows.
LEMMA TablesKeep ==
  ASSUME Tables, [JournalNext]_jvars
  PROVE  /\ Tables' /\ postings \subseteq postings'
         /\ DOMAIN transfers \subseteq DOMAIN transfers'
         /\ \A e \in DOMAIN transfers : transfers'[e] = transfers[e]
<1> USE DEF procs, parts
<1>1. Entries \subseteq Nat BY JournalAssumption
<1>2. ASSUME UNCHANGED <<today, transfers, writing, postings>>
      PROVE  Tables' /\ postings \subseteq postings' /\ transfers' = transfers
  BY <1>2 DEF Tables
<1>3. ASSUME NEW i \in Instances, Start(i) \/ Serve(i) \/ Tick(i) \/ Statement(i) \/ Fail(i)
      PROVE  Tables' /\ postings \subseteq postings' /\ transfers' = transfers
  BY <1>2, <1>3 DEF Start, Serve, Tick, Statement, Fail
<1>4. ASSUME NEW i \in Instances, Crash(i)
      PROVE  Tables' /\ postings \subseteq postings' /\ transfers' = transfers
  BY <1>4 DEF Crash, Without, Tables
<1>5. ASSUME NEW i \in Instances, NEW e \in Entries, BeginEntry(i, e)
      PROVE  Tables' /\ postings \subseteq postings' /\ transfers' = transfers
  <2>1. /\ DOMAIN writing' = DOMAIN writing \cup {e} /\ writing'[e].at = today
        /\ \A x \in DOMAIN writing \ {e} : writing'[x] = writing[x]
    BY <1>5 DEF BeginEntry, With
  <2> QED BY <1>1, <1>5, <2>1 DEF BeginEntry, Tables
<1>6. CASE NextDay
  <2>1. \A x \in 0..today : x \in 0..(today + 1) BY DEF Tables
  <2> QED BY <1>6, <2>1 DEF NextDay, Tables
<1>7. ASSUME NEW e \in Entries, InsertTransfer(e)
      PROVE  /\ Tables' /\ postings \subseteq postings' /\ DOMAIN transfers \subseteq DOMAIN transfers'
             /\ \A x \in DOMAIN transfers : transfers'[x] = transfers[x]
  <2>1. /\ DOMAIN transfers' = DOMAIN transfers \cup {e} /\ transfers'[e] = today
        /\ \A x \in DOMAIN transfers : transfers'[x] = transfers[x]
    BY <1>7 DEF InsertTransfer, With
  <2>2. IsFiniteSet(DOMAIN transfers') BY <2>1, FS_AddElement DEF Tables
  <2>3. today \in 0..today BY DEF Tables
  <2> QED BY <1>1, <1>7, <2>1, <2>2, <2>3 DEF InsertTransfer, Tables
<1>8. ASSUME NEW e \in DOMAIN writing, CommitEntry(e)
      PROVE  Tables' /\ postings \subseteq postings' /\ transfers' = transfers
  <2> DEFINE p == InsertPosting(2 * e, Debited, writing[e].at)
             q == InsertPosting(2 * e + 1, Credited, writing[e].at)
  <2>1. e \in Nat /\ writing[e].at \in Nat BY DEF Tables
  <2>2. p.at \in Nat /\ p.id \in Nat /\ q.at \in Nat /\ q.id \in Nat BY <2>1 DEF InsertPosting
  <2>3. postings' = postings \cup {p, q} BY <1>8 DEF CommitEntry
  <2> HIDE DEF p, q
  <2>4. postings' = (postings \cup {p}) \cup {q} BY <2>3
  <2>5. IsFiniteSet(postings \cup {p}) BY FS_AddElement DEF Tables
  <2>6. IsFiniteSet(postings') BY <2>4, <2>5, FS_AddElement
  <2>7. DOMAIN writing' \subseteq DOMAIN writing /\ \A x \in DOMAIN writing' : writing'[x] = writing[x]
    BY <1>8 DEF CommitEntry, Without
  <2> QED BY <1>8, <2>2, <2>3, <2>6, <2>7 DEF CommitEntry, Tables
<1>9. ASSUME NEW of, NEW r, NEW n, FirstPage(of, r, n)
      PROVE  Tables' /\ postings \subseteq postings' /\ transfers' = transfers
  BY <1>2, <1>9 DEF FirstPage
<1>10. CASE NextPage BY <1>2, <1>10 DEF NextPage
<1>11. CASE UNCHANGED jvars BY <1>2, <1>11 DEF jvars
<1> QED BY <1>3, <1>4, <1>5, <1>6, <1>7, <1>8, <1>9, <1>10, <1>11 DEF JournalNext

\* Every step keeps the walk.
LEMMA WalkKeeps == WalkInv /\ [JournalNext]_jvars => WalkInv'
<1> SUFFICES ASSUME WalkInv, [JournalNext]_jvars PROVE WalkInv' OBVIOUS
<1>1. /\ Tables' /\ postings \subseteq postings' /\ DOMAIN transfers \subseteq DOMAIN transfers'
      /\ \A e \in DOMAIN transfers : transfers'[e] = transfers[e]
  BY TablesKeep DEF WalkInv
<1>2. CASE walk' = walk
  <2>1. (walk = Closed \/ Walking(walk))' BY <1>1, <1>2, WalkGoesOn DEF WalkInv
  <2> QED BY <1>1, <2>1 DEF WalkInv
<1>3. ASSUME NEW of, NEW r \in Ranges, NEW n \in PageSizes, FirstPage(of, r, n) PROVE WalkInv'
  <2>1. Walking(walk)' BY <1>3, FirstPageKeeps
  <2> QED BY <1>1, <2>1 DEF WalkInv
<1>4. CASE NextPage
  <2>1. Walking(walk)' BY <1>4, NextPageKeeps
  <2> QED BY <1>1, <2>1 DEF WalkInv
<1>5. \/ walk' = walk \/ NextPage
      \/ \E of \in {"postings", "transfers"}, r \in Ranges, n \in PageSizes : FirstPage(of, r, n)
  BY DEF JournalNext, jvars, Start, Serve, Tick, Crash, Statement, Fail, BeginEntry, NextDay,
         InsertTransfer, CommitEntry
<1> QED BY <1>2, <1>3, <1>4, <1>5

\* A walk that has ended has shown every row that was there when it began, none twice,
\* newest first (ListPostings, ListTransfers and their keyset cursors), for any number of
\* rows, page sizes and ranges, however many rows of the same or earlier times are
\* committed between two pages.
THEOREM WalkIsCompleteHolds == JournalSpec => []WalkIsComplete
<1>1. JournalInit => WalkInv
  <2> SUFFICES ASSUME JournalInit PROVE WalkInv OBVIOUS
  <2>1. IsFiniteSet({}) BY FS_EmptySet
  <2>2. DOMAIN <<>> = {} OBVIOUS
  <2>3. DOMAIN writing = {} /\ DOMAIN transfers = {} BY <2>2 DEF JournalInit
  <2> QED BY <2>1, <2>3 DEF JournalInit, WalkInv, Tables
<1>2. WalkInv => WalkIsComplete
  <2> SUFFICES ASSUME WalkInv, walk.at = "ended"
               PROVE  /\ walk.due \subseteq ToSet(walk.seen)
                      /\ \A i, j \in DOMAIN walk.seen : i < j => Below(walk.seen[j], walk.seen[i])
    BY DEF WalkIsComplete
  <2>1. walk # Closed BY DEF Closed
  <2>2. Walking(walk) BY <2>1 DEF WalkInv
  <2>3. walk.seen \in Seq(Key) BY <2>2 DEF Walking
  <2>4. DOMAIN walk.seen = 1..Len(walk.seen) BY <2>3
  <2>5. walk.due \subseteq ToSet(walk.seen) BY <2>2, <2>4 DEF Walking, Shows, ToSet
  <2> QED BY <2>2, <2>4, <2>5 DEF Walking, Descends
<1> QED BY <1>1, <1>2, WalkKeeps, PTL DEF JournalSpec
=============================================================================
