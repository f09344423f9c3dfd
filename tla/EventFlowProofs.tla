--------------------------- MODULE EventFlowProofs --------------------------
(***************************************************************************)
(* Proofs about the event bus, for any number of events, partitions,       *)
(* relays, members and faults.  The invariant has a half for each side of  *)
(* the log.  SenderInv: what a relay holds and what the log holds was      *)
(* committed, and while relays take turns both keep the order of           *)
(* created_at.  ReceiverInv: everything below an offset, and below the     *)
(* record a member works on, is settled, and an event has at most one      *)
(* dedup row, open or committed.  The sides meet in two places only: the   *)
(* log grows at its end, and the record in hand is one the sender          *)
(* committed.                                                              *)
(***************************************************************************)
EXTENDS EventFlow, SumTheorems, TLAPS

-----------------------------------------------------------------------------
(* The sequences that Only keeps.  Its recursion has a solution, and what  *)
(* is claimed of it holds of every prefix: the induction looks at the      *)
(* shortest prefix that would be a counterexample.                         *)

Keep(g, s, S, i) ==
  IF i = 0 THEN <<>> ELSE IF s[i] \in S THEN Append(g[i - 1], s[i]) ELSE g[i - 1]

\* x is an element of the first n of s.
InFirst(s, n, x) == \E i \in 1..n : s[i] = x

\* Every e in s comes after a d.
Precedes(s, d, e) == \A j \in 1..Len(s) : s[j] = e => \E i \in 1..(j - 1) : s[i] = d

\* Among naturals that are not all good, one is bad although the one before is not.
LEMMA LeastBad ==
  ASSUME NEW Bad, Bad \subseteq Nat, Bad # {}
  PROVE  \E m \in Bad : m # 0 => m - 1 \in Nat \ Bad
<1>1. PICK m \in Bad : \A k \in Bad : m <= k BY LeastNatural
<1>2. m \in Nat OBVIOUS
<1>3. m # 0 => m - 1 \in Nat /\ m - 1 \notin Bad BY <1>1, <1>2
<1> QED BY <1>3

\* The recursion behind Only has a solution up to any length.
LEMMA KeepUpTo ==
  ASSUME NEW s, NEW S, NEW n \in Nat
  PROVE  \E g : g = [i \in 0..n |-> Keep(g, s, S, i)]
<1> DEFINE Bad == {m \in Nat : ~\E g : g = [i \in 0..m |-> Keep(g, s, S, i)]}
<1>1. SUFFICES ASSUME Bad # {} PROVE FALSE OBVIOUS
<1>2. PICK m \in Bad : m # 0 => m - 1 \in Nat \ Bad
  <2>1. Bad \subseteq Nat OBVIOUS
  <2> HIDE DEF Bad
  <2> QED BY <1>1, <2>1, LeastBad
<1>3. m # 0
  <2> SUFFICES ASSUME m = 0 PROVE FALSE OBVIOUS
  <2> DEFINE g == [i \in 0..0 |-> <<>>]
  <2>1. \A i \in 0..0 : Keep(g, s, S, i) = <<>> BY DEF Keep
  <2>2. g = [i \in 0..0 |-> Keep(g, s, S, i)] BY <2>1
  <2>3. \E h : h = [i \in 0..0 |-> Keep(h, s, S, i)] BY <2>2
  <2> QED BY <2>3
<1>4. m \in Nat /\ m - 1 \in Nat BY <1>2, <1>3
<1>5. PICK h : h = [i \in 0..(m - 1) |-> Keep(h, s, S, i)] BY <1>2, <1>3
<1> DEFINE g == [i \in 0..m |-> IF i = m THEN Keep(h, s, S, i) ELSE h[i]]
<1>6. \A i \in 0..m : Keep(g, s, S, i) = g[i]
  <2> TAKE i \in 0..m
  <2>1. i # 0 => g[i - 1] = h[i - 1] BY <1>4
  <2>2. Keep(g, s, S, i) = Keep(h, s, S, i) BY <2>1 DEF Keep
  <2>3. i # m => h[i] = Keep(h, s, S, i)
    <3>1. i # m => i \in 0..(m - 1) BY <1>4
    <3> QED BY <1>5, <3>1
  <2> QED BY <2>2, <2>3
<1>7. g = [i \in 0..m |-> Keep(g, s, S, i)] BY <1>6
<1>8. \E f : f = [i \in 0..m |-> Keep(f, s, S, i)]
  <2> HIDE DEF g
  <2> QED BY <1>7
<1> QED BY <1>8

\* Only(s, S) is the last of the prefixes' images.
LEMMA OnlyUnfolds ==
  ASSUME NEW s, NEW S, Len(s) \in Nat
  PROVE  \E g : /\ Only(s, S) = g[Len(s)]
                /\ \A i \in 0..Len(s) : g[i] = Keep(g, s, S, i)
<1> DEFINE Sol(g) == g = [i \in 0..Len(s) |-> Keep(g, s, S, i)]
           g0 == CHOOSE g : Sol(g)
<1>1. \E g : Sol(g) BY KeepUpTo
<1>2. Sol(g0) BY <1>1
<1>3. Only(s, S) = g0[Len(s)] BY DEF Only, Keep
<1>4. \A i \in 0..Len(s) : g0[i] = Keep(g0, s, S, i)
  <2> HIDE DEF g0
  <2> QED BY <1>2
<1> HIDE DEF g0
<1> QED BY <1>3, <1>4

\* Only(s, S) holds the elements of s that are in S, and keeps their order.
LEMMA OnlyKeeps ==
  ASSUME NEW T, NEW s \in Seq(T), NEW S
  PROVE  /\ Only(s, S) \in Seq(T)
         /\ \A x : InFirst(Only(s, S), Len(Only(s, S)), x) <=> x \in S /\ InFirst(s, Len(s), x)
         /\ \A d, e : d \in S /\ Precedes(s, d, e) => Precedes(Only(s, S), d, e)
<1>1. Len(s) \in Nat /\ \A i \in 1..Len(s) : s[i] \in T OBVIOUS
<1>2. PICK g : /\ Only(s, S) = g[Len(s)]
               /\ \A i \in 0..Len(s) : g[i] = Keep(g, s, S, i)
  BY <1>1, OnlyUnfolds
<1> DEFINE Good(i) ==
      /\ g[i] \in Seq(T)
      /\ \A x : InFirst(g[i], Len(g[i]), x) <=> x \in S /\ InFirst(s, i, x)
      /\ \A d, e : d \in S /\ Precedes(s, d, e) => Precedes(g[i], d, e)
    Bad == {i \in 0..Len(s) : ~Good(i)}
<1>3. Bad = {}
  <2>1. SUFFICES ASSUME Bad # {} PROVE FALSE OBVIOUS
  <2>2. PICK m \in Bad : m # 0 => m - 1 \in Nat \ Bad
    <3>1. Bad \subseteq Nat BY <1>1
    <3> HIDE DEF Bad
    <3> QED BY <2>1, <3>1, LeastBad
  <2>3. m \in 0..Len(s) /\ m \in Nat /\ ~Good(m) BY <1>1
  <2>4. m # 0
    <3> SUFFICES ASSUME m = 0 PROVE FALSE OBVIOUS
    <3>1. g[0] = <<>> BY <1>1, <1>2 DEF Keep
    <3>2. g[0] \in Seq(T) /\ Len(g[0]) = 0 BY <3>1
    <3>3. 1..0 = {} OBVIOUS
    <3>4. Good(0) BY <3>2, <3>3 DEF InFirst, Precedes
    <3> QED BY <2>3, <3>4
  <2> DEFINE p == m - 1
  <2>5. p \in Nat /\ p \in 0..Len(s) /\ m = p + 1 /\ m \in 1..Len(s) BY <2>3, <2>4, <1>1
  <2>6. Good(p) BY <2>2, <2>4, <2>5
  <2>7. g[m] = IF s[m] \in S THEN Append(g[p], s[m]) ELSE g[p] BY <1>2, <2>3, <2>4 DEF Keep
  <2> HIDE DEF p
  <2>8. \A x : InFirst(s, m, x) <=> InFirst(s, p, x) \/ s[m] = x
    <3> TAKE x
    <3>1. \A i \in 1..m : i \in 1..p \/ i = m BY <2>5
    <3>2. \A i \in 1..p : i \in 1..m BY <2>5
    <3>3. m \in 1..m BY <2>5
    <3> QED BY <3>1, <3>2, <3>3 DEF InFirst
  <2>9. CASE s[m] \notin S
    <3>1. g[m] = g[p] BY <2>7, <2>9
    <3>2. \A x : x \in S /\ InFirst(s, m, x) <=> x \in S /\ InFirst(s, p, x) BY <2>8, <2>9
    <3>3. Good(m) BY <3>1, <3>2, <2>6
    <3> QED BY <3>3, <2>3
  <2>10. CASE s[m] \in S
    <3> DEFINE u == g[p]
               n == Len(u)
    <3>1. u \in Seq(T) /\ n \in Nat /\ s[m] \in T BY <2>5, <2>6, <1>1
    <3>2. g[m] = Append(u, s[m]) BY <2>7, <2>10
    <3>3. /\ g[m] \in Seq(T) /\ Len(g[m]) = n + 1
          /\ \A i \in 1..n : g[m][i] = u[i]
          /\ g[m][n + 1] = s[m]
      BY <3>1, <3>2
    <3>4. \A x : InFirst(u, n, x) <=> x \in S /\ InFirst(s, p, x) BY <2>6
    <3>5. \A d, e : d \in S /\ Precedes(s, d, e) => Precedes(u, d, e) BY <2>6
    <3> HIDE DEF u, n, Good
    <3>6. \A i \in 1..(n + 1) : i \in 1..n \/ i = n + 1 BY <3>1
    <3>7. \A i \in 1..n : i \in 1..(n + 1) BY <3>1
    <3>8. n + 1 \in 1..(n + 1) BY <3>1
    <3>9. \A x : InFirst(g[m], n + 1, x) <=> InFirst(u, n, x) \/ s[m] = x
      BY <3>3, <3>6, <3>7, <3>8 DEF InFirst
    <3>10. \A x : InFirst(g[m], n + 1, x) <=> x \in S /\ InFirst(s, m, x)
      BY <3>4, <3>9, <2>8, <2>10
    <3>11. ASSUME NEW d \in S, NEW e, Precedes(s, d, e), NEW j \in 1..(n + 1), g[m][j] = e
           PROVE  \E i \in 1..(j - 1) : g[m][i] = d
      <4>1. CASE j \in 1..n
        <5>1. u[j] = e /\ Precedes(u, d, e) BY <3>3, <3>5, <3>11, <4>1
        <5>2. PICK i \in 1..(j - 1) : u[i] = d BY <5>1, <4>1 DEF Precedes, n
        <5>3. i \in 1..n BY <5>2, <4>1, <3>1
        <5> QED BY <5>2, <5>3, <3>3
      <4>2. CASE j = n + 1
        <5>1. s[m] = e BY <4>2, <3>3, <3>11
        <5>2. PICK h \in 1..(m - 1) : s[h] = d BY <5>1, <3>11, <2>5 DEF Precedes
        <5>3. h \in 1..p BY <5>2, <2>5
        <5>4. InFirst(u, n, d) BY <5>2, <5>3, <3>4 DEF InFirst
        <5>5. PICK i \in 1..n : u[i] = d BY <5>4 DEF InFirst
        <5>6. j - 1 = n BY <4>2, <3>1
        <5> QED BY <5>5, <5>6, <3>3
      <4> QED BY <4>1, <4>2, <3>6, <3>11
    <3>12. \A d, e : d \in S /\ Precedes(s, d, e) => Precedes(g[m], d, e)
      BY <3>11, <3>3 DEF Precedes
    <3>13. Good(m) BY <3>3, <3>10, <3>12 DEF Good
    <3> QED BY <3>13, <2>3
  <2> QED BY <2>9, <2>10
<1>4. Good(Len(s))
  <2>1. Len(s) \in 0..Len(s) BY <1>1
  <2> QED BY <1>3, <2>1
<1> QED BY <1>2, <1>4

InSeq(s, x) == InFirst(s, Len(s), x)

\* ToSet names the elements that InSeq does.
LEMMA ToSetIsIn == ASSUME NEW T, NEW s \in Seq(T) PROVE \A x : x \in ToSet(s) <=> InSeq(s, x)
BY DEF ToSet, InSeq, InFirst

\* Elements and order of a concatenation.
LEMMA Concatenated ==
  ASSUME NEW T, NEW s \in Seq(T), NEW t \in Seq(T), NEW u, u = s \o t
  PROVE  /\ u \in Seq(T) /\ Len(s) <= Len(u)
         /\ \A i \in 1..Len(s) : i \in 1..Len(u) /\ u[i] = s[i]
         /\ \A x : InSeq(u, x) <=> InSeq(s, x) \/ InSeq(t, x)
         /\ \A d, e : Precedes(s, d, e) /\ (Precedes(t, d, e) \/ InSeq(s, d)) => Precedes(u, d, e)
<1> DEFINE m == Len(s)
           n == Len(t)
<1>1. /\ u \in Seq(T) /\ Len(u) = m + n /\ m \in Nat /\ n \in Nat
      /\ \A i \in 1..(m + n) : u[i] = IF i <= m THEN s[i] ELSE t[i - m]
  OBVIOUS
<1> HIDE DEF m, n
<1>2. \A i \in 1..m : i \in 1..(m + n) /\ u[i] = s[i] BY <1>1
<1>3. \A j \in 1..n : m + j \in 1..(m + n) /\ u[m + j] = t[j] BY <1>1
<1>4. \A i \in 1..(m + n) : i \in 1..m \/ \E j \in 1..n : i = m + j
  <2> TAKE i \in 1..(m + n)
  <2>1. i <= m => i \in 1..m BY <1>1
  <2>2. ~(i <= m) => i - m \in 1..n /\ i = m + (i - m) BY <1>1
  <2> QED BY <2>1, <2>2
<1>5. \A x : InSeq(u, x) <=> InSeq(s, x) \/ InSeq(t, x)
  <2> TAKE x
  <2>1. ASSUME InSeq(u, x) PROVE InSeq(s, x) \/ InSeq(t, x)
    <3>1. PICK i \in 1..(m + n) : u[i] = x BY <2>1, <1>1 DEF InSeq, InFirst
    <3>2. CASE i \in 1..m BY <3>1, <3>2, <1>2 DEF InSeq, InFirst, m
    <3>3. ASSUME NEW j \in 1..n, i = m + j PROVE InSeq(t, x)
      BY <3>1, <3>3, <1>3 DEF InSeq, InFirst, n
    <3> QED BY <3>2, <3>3, <1>4
  <2>2. ASSUME InSeq(s, x) PROVE InSeq(u, x)
    <3>1. PICK i \in 1..m : s[i] = x BY <2>2 DEF InSeq, InFirst, m
    <3> QED BY <3>1, <1>1, <1>2 DEF InSeq, InFirst
  <2>3. ASSUME InSeq(t, x) PROVE InSeq(u, x)
    <3>1. PICK j \in 1..n : t[j] = x BY <2>3 DEF InSeq, InFirst, n
    <3> QED BY <3>1, <1>1, <1>3 DEF InSeq, InFirst
  <2> QED BY <2>1, <2>2, <2>3
<1>6. ASSUME NEW d, NEW e, Precedes(s, d, e), Precedes(t, d, e) \/ InSeq(s, d),
             NEW i \in 1..(m + n), u[i] = e
      PROVE  \E h \in 1..(i - 1) : u[h] = d
  <2>1. CASE i \in 1..m
    <3>1. PICK h \in 1..(i - 1) : s[h] = d BY <1>2, <1>6, <2>1 DEF Precedes, m
    <3>2. h \in 1..m BY <2>1, <1>1
    <3> QED BY <3>1, <3>2, <1>2
  <2>2. ASSUME NEW j \in 1..n, i = m + j PROVE \E h \in 1..(i - 1) : u[h] = d
    <3>1. CASE InSeq(s, d)
      <4>1. PICK h \in 1..m : s[h] = d BY <3>1 DEF InSeq, InFirst, m
      <4>2. h \in 1..(i - 1) BY <2>2, <1>1
      <4> QED BY <4>1, <4>2, <1>2
    <3>2. CASE Precedes(t, d, e)
      <4>1. t[j] = e BY <1>3, <1>6, <2>2
      <4>2. PICK h \in 1..(j - 1) : t[h] = d BY <3>2, <4>1 DEF Precedes, n
      <4>3. h \in 1..n /\ m + h \in 1..(i - 1) BY <2>2, <1>1
      <4> QED BY <4>2, <4>3, <1>3
    <3> QED BY <3>1, <3>2, <1>6
  <2> QED BY <2>1, <2>2, <1>4
<1>7. \A d, e : Precedes(s, d, e) /\ (Precedes(t, d, e) \/ InSeq(s, d)) => Precedes(u, d, e)
  <2> TAKE d, e
  <2> HAVE Precedes(s, d, e) /\ (Precedes(t, d, e) \/ InSeq(s, d))
  <2>1. \A i \in 1..(m + n) : u[i] = e => \E h \in 1..(i - 1) : u[h] = d BY <1>6
  <2> QED BY <1>1, <2>1 DEF Precedes
<1>8. m <= Len(u) BY <1>1
<1> QED BY <1>1, <1>2, <1>5, <1>7, <1>8 DEF m

\* Elements and order of a prefix.
LEMMA Prefixed ==
  ASSUME NEW T, NEW s \in Seq(T), NEW n \in Nat, n <= Len(s), NEW t, t = SubSeq(s, 1, n)
  PROVE  /\ t \in Seq(T)
         /\ \A x : InSeq(t, x) => InSeq(s, x)
         /\ \A d, e : Precedes(s, d, e) => Precedes(t, d, e)
<1>1. /\ t \in Seq(T) /\ Len(t) = n /\ Len(s) \in Nat
      /\ \A i \in 1..n : t[i] = s[i]
  OBVIOUS
<1>2. \A i \in 1..n : i \in 1..Len(s) BY <1>1
<1>3. \A x : InSeq(t, x) => InSeq(s, x) BY <1>1, <1>2 DEF InSeq, InFirst
<1>4. ASSUME NEW d, NEW e, Precedes(s, d, e), NEW j \in 1..n, t[j] = e
      PROVE  \E i \in 1..(j - 1) : t[i] = d
  <2>1. PICK i \in 1..(j - 1) : s[i] = d BY <1>1, <1>2, <1>4 DEF Precedes
  <2>2. i \in 1..n BY <1>1
  <2> QED BY <2>1, <2>2, <1>1
<1>5. \A d, e : Precedes(s, d, e) => Precedes(t, d, e) BY <1>1, <1>4 DEF Precedes
<1> QED BY <1>1, <1>3, <1>5

\* Where e is not, d precedes it.
LEMMA AbsentPrecedes == \A s, d, e : ~InSeq(s, e) => Precedes(s, d, e)
BY DEF InSeq, InFirst, Precedes

-----------------------------------------------------------------------------
(* From the business transaction to the log *)

RowState == {"none", "open", "aborted", "unsent", "sent"}

SenderTypes ==
  /\ created \in Seq(Events)
  /\ outbox \in [Events -> RowState]
  /\ before \in [Events -> SUBSET Events]
  /\ claim \in [Relays -> Seq(Events)]
  /\ relay \in [Relays -> {"idle", "selected", "produced"}]
  /\ log \in [Keys -> Seq(Events)]
  /\ overlapped \in BOOLEAN

Logged(e) == InSeq(log[KeyOf[e]], e)

CreatedRows == \A e \in Events : InSeq(created, e) <=> outbox[e] # "none"

\* A relay holds committed rows, and none between its transactions.
ClaimedRows ==
  \A r \in Relays : /\ relay[r] = "idle" => claim[r] = <<>>
                    /\ \A x : InSeq(claim[r], x) => x \in Published
                    /\ relay[r] = "produced" => \A x : InSeq(claim[r], x) => Logged(x)

LoggedRows ==
  /\ \A k \in Keys : \A x : InSeq(log[k], x) => x \in Published /\ KeyOf[x] = k
  /\ \A e \in Events : outbox[e] = "sent" => Logged(e)

\* What was committed before e began was created before e.
BeforeIsOld ==
  \A e \in Events : \A d \in before[e] : d \in Published /\ Precedes(created, d, e)

\* While relays took turns: d comes before e in the log, and a batch that holds e
\* brings d before it, unless d is in the log already.
InOrder(d, e) ==
  /\ KeyOf[d] = KeyOf[e] => Precedes(log[KeyOf[e]], d, e)
  /\ \A r \in Relays : Precedes(claim[r], d, e) \/ Logged(d)

TakeTurns ==
  overlapped \/ /\ \A r, s \in Relays : relay[r] # "idle" /\ relay[s] # "idle" => r = s
                /\ \A e \in Events : \A d \in before[e] : InOrder(d, e)

SenderInv ==
  SenderTypes /\ CreatedRows /\ ClaimedRows /\ LoggedRows /\ BeforeIsOld /\ TakeTurns

LogGrows ==
  /\ log' \in [Keys -> Seq(Events)]
  /\ \A k \in Keys : /\ Len(log[k]) <= Len(log'[k])
                     /\ \A i \in 1..Len(log[k]) : i \in 1..Len(log'[k]) /\ log'[k][i] = log[k][i]

\* Nothing is committed, claimed or logged at the start.
LEMMA SenderStart == Init => SenderInv
<1> SUFFICES ASSUME Init PROVE SenderInv OBVIOUS
<1> USE DEF Init
<1>1. SenderTypes
  <2>1. <<>> \in Seq(Events) OBVIOUS
  <2>2. claim \in [Relays -> Seq(Events)] /\ log \in [Keys -> Seq(Events)] BY <2>1
  <2>3. relay \in [Relays -> {"idle", "selected", "produced"}] OBVIOUS
  <2>4. outbox \in [Events -> RowState] /\ before \in [Events -> SUBSET Events] BY DEF RowState
  <2>5. overlapped \in BOOLEAN OBVIOUS
  <2> QED BY <2>1, <2>2, <2>3, <2>4, <2>5 DEF SenderTypes
<1>2. Len(<<>>) = 0 /\ 1..0 = {} OBVIOUS
<1>3. \A x : ~InSeq(<<>>, x) BY <1>2 DEF InSeq, InFirst
<1>4. CreatedRows BY <1>3 DEF CreatedRows
<1>5. ClaimedRows BY <1>3 DEF ClaimedRows
<1>6. LoggedRows BY <1>3 DEF LoggedRows
<1>7. BeforeIsOld BY DEF BeforeIsOld
<1>8. TakeTurns BY DEF TakeTurns
<1> QED BY <1>1, <1>4, <1>5, <1>6, <1>7, <1>8 DEF SenderInv

\* A transaction begins: the event is new, so it is in no batch and in no log.
LEMMA BeginKeeps ==
  ASSUME SenderInv, NEW e \in Events, Begin(e)
  PROVE  SenderInv'
<1> USE DEF SenderInv
<1>1. /\ outbox[e] = "none" /\ outbox' = [outbox EXCEPT ![e] = "open"]
      /\ created' = Append(created, e) /\ before' = [before EXCEPT ![e] = Published]
      /\ claim' = claim /\ relay' = relay /\ log' = log /\ overlapped' = overlapped
  BY DEF Begin, rvars
<1>2. SenderTypes BY DEF SenderInv
<1>3. SenderTypes' BY <1>1, <1>2 DEF SenderTypes, RowState, Published
<1>4. Published' = Published BY <1>1, <1>2 DEF Published, SenderTypes
<1>5. /\ Len(created') = Len(created) + 1 /\ Len(created) \in Nat
      /\ \A i \in 1..Len(created) : created'[i] = created[i]
      /\ created'[Len(created) + 1] = e
  BY <1>1, <1>2 DEF SenderTypes
<1> DEFINE n == Len(created)
<1> HIDE DEF n
<1>6. \A i \in 1..(n + 1) : i \in 1..n \/ i = n + 1 BY <1>5 DEF n
<1>7. /\ \A i \in 1..n : i \in 1..(n + 1)
      /\ n + 1 \in 1..(n + 1)
  BY <1>5 DEF n
<1>8. \A x : InSeq(created', x) <=> InSeq(created, x) \/ x = e
  BY <1>5, <1>6, <1>7 DEF InSeq, InFirst, n
<1>9. CreatedRows' BY <1>1, <1>2, <1>8 DEF CreatedRows, SenderTypes
<1>10. ClaimedRows' BY <1>1, <1>4 DEF ClaimedRows, Logged
<1>11. LoggedRows' BY <1>1, <1>2, <1>4 DEF LoggedRows, Logged, SenderTypes
<1>12. ~InSeq(created, e) /\ e \notin Published BY <1>1 DEF CreatedRows, Published
<1>13. BeforeIsOld'
  <2> SUFFICES ASSUME NEW f \in Events, NEW d \in before'[f]
               PROVE  d \in Published /\ Precedes(created', d, f)
    BY <1>4 DEF BeforeIsOld
  <2>1. CASE f # e
    <3>1. d \in before[f] BY <1>1, <1>2, <2>1 DEF SenderTypes
    <3>2. d \in Published /\ Precedes(created, d, f) BY <3>1 DEF BeforeIsOld
    <3>3. ASSUME NEW j \in 1..(n + 1), created'[j] = f PROVE j \in 1..n /\ created[j] = f
      BY <1>5, <1>6, <2>1, <3>3 DEF n
    <3>4. ASSUME NEW j \in 1..(n + 1), created'[j] = f
          PROVE  \E i \in 1..(j - 1) : created'[i] = d
      <4>1. PICK i \in 1..(j - 1) : created[i] = d BY <3>2, <3>3, <3>4 DEF Precedes, n
      <4>2. i \in 1..n BY <3>3, <3>4, <4>1, <1>5 DEF n
      <4> QED BY <4>1, <4>2, <1>5 DEF n
    <3> QED BY <3>2, <3>4, <1>5 DEF Precedes, n
  <2>2. CASE f = e
    <3>1. d \in Published /\ d \in Events BY <1>1, <1>2, <2>2 DEF SenderTypes, Published
    <3>2. InSeq(created, d) BY <3>1 DEF CreatedRows, Published
    <3>3. PICK h \in 1..n : created[h] = d BY <3>2 DEF InSeq, InFirst, n
    <3>4. ASSUME NEW j \in 1..(n + 1), created'[j] = e
          PROVE  \E i \in 1..(j - 1) : created'[i] = d
      <4>1. j \notin 1..n BY <3>4, <1>5, <1>12 DEF InSeq, InFirst, n
      <4>2. h \in 1..(j - 1) BY <4>1, <1>5, <1>6 DEF n
      <4> QED BY <3>3, <4>2, <1>5 DEF n
    <3> QED BY <3>1, <3>4, <2>2, <1>5 DEF Precedes, n
  <2> QED BY <2>1, <2>2
<1>14. TakeTurns'
  <2>1. ASSUME ~overlapped, NEW f \in Events, NEW d \in before'[f] PROVE InOrder(d, f)'
    <3>1. CASE f # e
      <4>1. d \in before[f] BY <1>1, <1>2, <3>1 DEF SenderTypes
      <4> QED BY <4>1, <2>1, <1>1 DEF TakeTurns, InOrder, Logged
    <3>2. CASE f = e
      <4>1. \A r \in Relays : ~InSeq(claim[r], e) BY <1>12 DEF ClaimedRows
      <4>2. ~InSeq(log[KeyOf[e]], e) BY <1>12, EventsAssumption DEF LoggedRows
      <4> QED BY <4>1, <4>2, <3>2, <1>1, AbsentPrecedes DEF InOrder
    <3> QED BY <3>1, <3>2
  <2> QED BY <2>1, <1>1 DEF TakeTurns
<1> QED BY <1>3, <1>9, <1>10, <1>11, <1>13, <1>14 DEF SenderInv

\* The log and the batches stay as they are, and no committed row is lost.
LEMMA SenderFrame ==
  ASSUME SenderInv, outbox' \in [Events -> RowState], Published \subseteq Published',
         \A e \in Events : outbox'[e] # "none" <=> outbox[e] # "none",
         \A e \in Events : outbox'[e] = "sent" => Logged(e),
         created' = created, before' = before, claim' = claim, relay' = relay, log' = log,
         overlapped' = overlapped
  PROVE  SenderInv'
<1> USE DEF SenderInv
<1>1. SenderTypes' BY DEF SenderTypes
<1>2. CreatedRows' BY DEF CreatedRows
<1>3. ClaimedRows' BY DEF ClaimedRows, Logged
<1>4. LoggedRows' BY DEF LoggedRows, Logged
<1>5. BeforeIsOld' BY DEF BeforeIsOld
<1>6. TakeTurns' BY DEF TakeTurns, InOrder, Logged
<1> QED BY <1>1, <1>2, <1>3, <1>4, <1>5, <1>6

\* A business transaction commits or rolls back: its row was in nobody's batch.
LEMMA EndWriteKeeps ==
  ASSUME SenderInv, NEW e \in Events, EndWrite(e)
  PROVE  SenderInv'
<1>1. PICK status \in {"unsent", "aborted"} : outbox' = [outbox EXCEPT ![e] = status]
  BY DEF EndWrite
<1>2. /\ outbox[e] = "open" /\ created' = created /\ before' = before /\ claim' = claim
      /\ relay' = relay /\ log' = log /\ overlapped' = overlapped
  BY DEF EndWrite, rvars
<1>3. outbox \in [Events -> RowState] BY DEF SenderInv, SenderTypes
<1>4. /\ outbox' \in [Events -> RowState]
      /\ \A f \in Events : outbox'[f] # "none" <=> outbox[f] # "none"
      /\ \A f \in Events : outbox'[f] = "sent" => outbox[f] = "sent"
  BY <1>1, <1>2, <1>3 DEF RowState
<1>5. Published \subseteq Published' BY <1>1, <1>2, <1>3 DEF Published
<1>6. \A f \in Events : outbox'[f] = "sent" => Logged(f) BY <1>4 DEF SenderInv, LoggedRows
<1> QED BY <1>2, <1>4, <1>5, <1>6, SenderFrame

\* A relay's transaction ends, after the rows of its batch were logged if it marks them.
LEMMA ReleaseKeeps ==
  ASSUME SenderInv, NEW r \in Relays, Release(r), log' = log, created' = created,
         before' = before, outbox' \in [Events -> RowState], Published' = Published,
         \A e \in Events : outbox'[e] # "none" <=> outbox[e] # "none",
         \A e \in Events : outbox'[e] = "sent" => Logged(e)
  PROVE  SenderInv'
<1> USE DEF SenderInv
<1>1. /\ claim' = [claim EXCEPT ![r] = <<>>] /\ relay' = [relay EXCEPT ![r] = "idle"]
      /\ overlapped' = overlapped
  BY DEF Release
<1>2. SenderTypes BY DEF SenderInv
<1>3. <<>> \in Seq(Events) /\ \A x : ~InSeq(<<>>, x)
  <2>1. Len(<<>>) = 0 /\ 1..0 = {} OBVIOUS
  <2> QED BY <2>1 DEF InSeq, InFirst
<1>4. \A s \in Relays : /\ claim'[s] = IF s = r THEN <<>> ELSE claim[s]
                        /\ relay'[s] = IF s = r THEN "idle" ELSE relay[s]
  BY <1>1, <1>2 DEF SenderTypes
<1>5. SenderTypes' BY <1>1, <1>2, <1>3 DEF SenderTypes
<1>6. CreatedRows' BY DEF CreatedRows
<1>7. ClaimedRows' BY <1>3, <1>4 DEF ClaimedRows, Logged
<1>8. LoggedRows' BY DEF LoggedRows, Logged
<1>9. BeforeIsOld' BY DEF BeforeIsOld
<1>10. \A d, e : Precedes(<<>>, d, e) BY <1>3, AbsentPrecedes
<1>11. \A d, e : InOrder(d, e) => InOrder(d, e)'
  <2> TAKE d, e
  <2> HAVE InOrder(d, e)
  <2>1. \A s \in Relays : Precedes(claim'[s], d, e) \/ Logged(d) BY <1>4, <1>10 DEF InOrder
  <2> QED BY <2>1 DEF InOrder, Logged
<1>12. TakeTurns' BY <1>1, <1>4, <1>11 DEF TakeTurns
<1> QED BY <1>5, <1>6, <1>7, <1>8, <1>9, <1>12

\* The relay marks its batch sent: every record of it was acknowledged, so it is in the log.
LEMMA MarkSentKeeps ==
  ASSUME SenderInv, NEW r \in Relays, MarkSent(r)
  PROVE  SenderInv' /\ Published' = Published
<1>1. /\ relay[r] = "produced" /\ Release(r) /\ log' = log /\ created' = created /\ before' = before
      /\ outbox' = [e \in Events |-> IF e \in ToSet(claim[r]) THEN "sent" ELSE outbox[e]]
  BY DEF MarkSent
<1>2. SenderTypes BY DEF SenderInv
<1>3. claim[r] \in Seq(Events) /\ outbox \in [Events -> RowState] BY <1>2 DEF SenderTypes
<1>4. \A e \in Events : outbox'[e] = IF InSeq(claim[r], e) THEN "sent" ELSE outbox[e]
  BY <1>1, <1>3, ToSetIsIn
<1>5. \A e : InSeq(claim[r], e) => e \in Published /\ Logged(e)
  BY <1>1 DEF SenderInv, ClaimedRows
<1>6. outbox' \in [Events -> RowState] BY <1>1, <1>3 DEF RowState
<1>7. Published' = Published BY <1>4, <1>5 DEF Published
<1>8. \A e \in Events : outbox'[e] # "none" <=> outbox[e] # "none"
  BY <1>4, <1>5 DEF Published
<1>9. \A e \in Events : outbox'[e] = "sent" => Logged(e)
  BY <1>4, <1>5 DEF SenderInv, LoggedRows
<1> QED BY <1>1, <1>6, <1>7, <1>8, <1>9, ReleaseKeeps

\* The mark fails and the rows stay unsent, their records in the log: at worst a duplicate.
LEMMA MarkFailsKeeps ==
  ASSUME SenderInv, NEW r \in Relays, MarkFails(r)
  PROVE  SenderInv'
<1>1. Release(r) /\ log' = log /\ created' = created /\ before' = before /\ outbox' = outbox
  BY DEF MarkFails, ovars
<1>2. outbox' \in [Events -> RowState] BY <1>1 DEF SenderInv, SenderTypes
<1>3. Published' = Published BY <1>1 DEF Published
<1>4. \A e \in Events : outbox'[e] = "sent" => Logged(e) BY <1>1 DEF SenderInv, LoggedRows
<1> QED BY <1>1, <1>2, <1>3, <1>4, ReleaseKeeps

\* A relay takes the first pending rows.  With all relays idle no row is locked, so
\* what was committed before a row of the batch is in the batch too, or sent.
LEMMA SelectKeeps ==
  ASSUME SenderInv, NEW r \in Relays, SelectBatch(r)
  PROVE  SenderInv'
<1> USE DEF SenderInv
<1> DEFINE free == {e \in Events : outbox[e] = "unsent" /\ e \notin Locked}
           n == IF Len(Pending) < Batch THEN Len(Pending) ELSE Batch
           s == SubSeq(Pending, 1, n)
<1>1. /\ claim' = [claim EXCEPT ![r] = s] /\ relay' = [relay EXCEPT ![r] = "selected"]
      /\ relay[r] = "idle" /\ log' = log /\ outbox' = outbox /\ created' = created
      /\ before' = before
  BY DEF SelectBatch, ovars
<1>2. SenderTypes BY DEF SenderInv
<1>3. Pending = Only(created, free) /\ created \in Seq(Events) BY <1>2 DEF Pending, SenderTypes
<1> HIDE DEF free
<1>4. /\ Pending \in Seq(Events)
      /\ \A x : InSeq(Pending, x) <=> x \in free /\ InSeq(created, x)
      /\ \A d, e : d \in free /\ Precedes(created, d, e) => Precedes(Pending, d, e)
  BY <1>3, OnlyKeeps DEF InSeq
<1>5. n \in Nat /\ n <= Len(Pending) /\ Len(Pending) \in Nat BY <1>4, BoundsAssumption
<1> HIDE DEF n
<1>6. /\ s \in Seq(Events)
      /\ \A x : InSeq(s, x) => InSeq(Pending, x)
      /\ \A d, e : Precedes(Pending, d, e) => Precedes(s, d, e)
  BY <1>4, <1>5, Prefixed
<1> HIDE DEF s
<1>7. \A q \in Relays : /\ claim'[q] = IF q = r THEN s ELSE claim[q]
                        /\ relay'[q] = IF q = r THEN "selected" ELSE relay[q]
  BY <1>1, <1>2 DEF SenderTypes
<1>8. overlapped' \in BOOLEAN BY <1>2 DEF SelectBatch, SenderTypes
<1>9. SenderTypes' BY <1>1, <1>2, <1>6, <1>8 DEF SenderTypes
<1>10. Published' = Published BY <1>1 DEF Published
<1>11. CreatedRows' BY <1>1 DEF CreatedRows
<1>12. \A x : InSeq(s, x) => x \in Published BY <1>4, <1>6 DEF free, Published
<1>13. ClaimedRows' BY <1>1, <1>7, <1>10, <1>12 DEF ClaimedRows, Logged
<1>14. LoggedRows' BY <1>1, <1>10 DEF LoggedRows, Logged
<1>15. BeforeIsOld' BY <1>1, <1>10 DEF BeforeIsOld
<1>16. TakeTurns'
  <2>1. CASE overlapped' BY <2>1 DEF TakeTurns
  <2>2. CASE ~overlapped'
    <3>1. ~overlapped /\ \A q \in Relays : relay[q] = "idle" BY <2>2 DEF SelectBatch
    <3>2. \A q \in Relays : claim[q] = <<>> BY <3>1 DEF ClaimedRows
    <3>3. Locked = {}
      <4>1. \A q \in Relays : ToSet(claim[q]) = {} BY <3>2 DEF ToSet
      <4> QED BY <4>1 DEF Locked
    <3>4. \A p, q \in Relays : relay'[p] # "idle" /\ relay'[q] # "idle" => p = q
      BY <1>7, <3>1
    <3>5. ASSUME NEW e \in Events, NEW d \in before'[e] PROVE InOrder(d, e)'
      <4>1. /\ d \in before[e] /\ InOrder(d, e) /\ d \in Published /\ Precedes(created, d, e)
        BY <1>1, <3>1, <3>5 DEF TakeTurns, BeforeIsOld
      <4>2. d \in free \/ Logged(d)
        BY <3>3, <4>1 DEF free, Published, LoggedRows
      <4>3. Precedes(s, d, e) \/ Logged(d) BY <1>4, <1>6, <4>1, <4>2
      <4>4. \A q \in Relays : Precedes(claim'[q], d, e) \/ Logged(d)
        BY <1>7, <4>1, <4>3 DEF InOrder
      <4> QED BY <1>1, <4>1, <4>4 DEF InOrder, Logged
    <3> QED BY <3>4, <3>5 DEF TakeTurns
  <2> QED BY <2>1, <2>2
<1> QED BY <1>9, <1>11, <1>13, <1>14, <1>15, <1>16

\* The partitions get add, the batch of r or prefixes of it.
LEMMA LogExtends ==
  ASSUME SenderInv, NEW r \in Relays, NEW add,
         \A k \in Keys : /\ add[k] \in Seq(Events)
                         /\ \A x : InSeq(add[k], x) => InSeq(ForKey(claim[r], k), x)
                         /\ \A d, e : Precedes(ForKey(claim[r], k), d, e) => Precedes(add[k], d, e),
         log' = [k \in Keys |-> log[k] \o add[k]],
         outbox' = outbox, before' = before
  PROVE  /\ LogGrows /\ LoggedRows'
         /\ \A e \in Events : Logged(e) => Logged(e)'
         /\ \A k \in Keys : \A x : InSeq(log'[k], x) <=> InSeq(log[k], x) \/ InSeq(add[k], x)
         /\ ~overlapped => \A e \in Events : \A d \in before[e] :
              KeyOf[d] = KeyOf[e] => Precedes(log'[KeyOf[e]], d, e)
<1>1. SenderTypes BY DEF SenderInv
<1>2. \A k \in Keys : log[k] \in Seq(Events) /\ log'[k] = log[k] \o add[k] BY <1>1 DEF SenderTypes
<1>3. claim[r] \in Seq(Events) BY <1>1 DEF SenderTypes
<1>4. ASSUME NEW k \in Keys
      PROVE  /\ log'[k] \in Seq(Events) /\ Len(log[k]) <= Len(log'[k])
             /\ \A i \in 1..Len(log[k]) : i \in 1..Len(log'[k]) /\ log'[k][i] = log[k][i]
             /\ \A x : InSeq(log'[k], x) <=> InSeq(log[k], x) \/ InSeq(add[k], x)
             /\ \A d, e : Precedes(log[k], d, e) /\ (Precedes(add[k], d, e) \/ InSeq(log[k], d))
                            => Precedes(log'[k], d, e)
  BY <1>2, Concatenated
<1>5. LogGrows
  <2>1. log' \in [Keys -> Seq(Events)] BY <1>4
  <2> QED BY <2>1, <1>4 DEF LogGrows
<1>6. ASSUME NEW k \in Keys
      PROVE  LET S == {e \in Events : KeyOf[e] = k} IN
             /\ ForKey(claim[r], k) = Only(claim[r], S)
             /\ \A x : InSeq(ForKey(claim[r], k), x) <=> x \in S /\ InSeq(claim[r], x)
             /\ \A d, e : d \in S /\ Precedes(claim[r], d, e) => Precedes(ForKey(claim[r], k), d, e)
  BY <1>3, OnlyKeeps DEF ForKey, InSeq
<1>7. \A e \in Events : Logged(e) => Logged(e)' BY <1>4, EventsAssumption DEF Logged
<1>8. \A k \in Keys : \A x : InSeq(add[k], x) => x \in Published /\ KeyOf[x] = k
  BY <1>6 DEF SenderInv, ClaimedRows
<1>9. LoggedRows'
  <2>1. Published' = Published BY DEF Published
  <2>2. \A k \in Keys : \A x : InSeq(log'[k], x) => x \in Published /\ KeyOf[x] = k
    BY <1>4, <1>8 DEF SenderInv, LoggedRows
  <2>3. \A e \in Events : outbox'[e] = "sent" => Logged(e)' BY <1>7 DEF SenderInv, LoggedRows
  <2> QED BY <2>1, <2>2, <2>3 DEF LoggedRows
<1>10. ASSUME ~overlapped, NEW e \in Events, NEW d \in before[e], KeyOf[d] = KeyOf[e]
       PROVE  Precedes(log'[KeyOf[e]], d, e)
  <2>1. /\ Precedes(log[KeyOf[e]], d, e) /\ (Precedes(claim[r], d, e) \/ Logged(d))
        /\ d \in Events
    BY <1>1, <1>10 DEF SenderInv, TakeTurns, InOrder, SenderTypes
  <2>2. KeyOf[e] \in Keys BY EventsAssumption
  <2>3. Precedes(add[KeyOf[e]], d, e) \/ InSeq(log[KeyOf[e]], d)
    <3>1. Logged(d) => InSeq(log[KeyOf[e]], d) BY <1>10 DEF Logged
    <3>2. ASSUME Precedes(claim[r], d, e) PROVE Precedes(add[KeyOf[e]], d, e)
      <4>1. d \in {x \in Events : KeyOf[x] = KeyOf[e]} BY <2>1, <1>10
      <4>2. Precedes(ForKey(claim[r], KeyOf[e]), d, e) BY <1>6, <2>2, <3>2, <4>1
      <4> QED BY <2>2, <4>2
    <3> QED BY <3>1, <3>2, <2>1
  <2> QED BY <1>4, <2>1, <2>2, <2>3
<1> QED BY <1>4, <1>5, <1>7, <1>9, <1>10

\* A batch is appended: within a partition its records keep their order.
LEMMA ProduceKeeps ==
  ASSUME SenderInv, NEW r \in Relays, Produce(r)
  PROVE  SenderInv' /\ LogGrows
<1> USE DEF SenderInv
<1> DEFINE add == [k \in Keys |-> ForKey(claim[r], k)]
<1>1. /\ log' = [k \in Keys |-> log[k] \o ForKey(claim[r], k)]
      /\ relay' = [relay EXCEPT ![r] = "produced"] /\ relay[r] = "selected"
      /\ claim' = claim /\ overlapped' = overlapped
      /\ created' = created /\ outbox' = outbox /\ before' = before
  BY DEF Produce, ovars
<1>2. SenderTypes /\ claim[r] \in Seq(Events) BY DEF SenderTypes
<1>3. \A k \in Keys : /\ add[k] = ForKey(claim[r], k) /\ add[k] \in Seq(Events)
                      /\ \A x : InSeq(add[k], x) <=> x \in {e \in Events : KeyOf[e] = k} /\ InSeq(claim[r], x)
  BY <1>2, OnlyKeeps DEF ForKey, InSeq
<1>4. log' = [k \in Keys |-> log[k] \o add[k]] BY <1>1
<1> HIDE DEF add
<1>14. \A k \in Keys : /\ add[k] \in Seq(Events)
                       /\ \A x : InSeq(add[k], x) => InSeq(ForKey(claim[r], k), x)
                       /\ \A d, e : Precedes(ForKey(claim[r], k), d, e) => Precedes(add[k], d, e)
  BY <1>3
<1>5. /\ LogGrows /\ LoggedRows'
      /\ \A e \in Events : Logged(e) => Logged(e)'
      /\ \A k \in Keys : \A x : InSeq(log'[k], x) <=> InSeq(log[k], x) \/ InSeq(add[k], x)
      /\ ~overlapped => \A e \in Events : \A d \in before[e] :
           KeyOf[d] = KeyOf[e] => Precedes(log'[KeyOf[e]], d, e)
  BY <1>1, <1>4, <1>14, LogExtends
<1>6. Published' = Published BY <1>1 DEF Published
<1>7. SenderTypes' BY <1>1, <1>2, <1>5 DEF SenderTypes, LogGrows
<1>8. CreatedRows' BY <1>1 DEF CreatedRows
<1>9. \A q \in Relays : relay'[q] = IF q = r THEN "produced" ELSE relay[q]
  BY <1>1, <1>2 DEF SenderTypes
<1>10. \A x : InSeq(claim[r], x) => Logged(x)'
  <2> SUFFICES ASSUME NEW x, InSeq(claim[r], x) PROVE Logged(x)' OBVIOUS
  <2>1. x \in Events BY DEF ClaimedRows, Published
  <2>2. KeyOf[x] \in Keys BY <2>1, EventsAssumption
  <2> QED BY <1>3, <1>5, <2>1, <2>2 DEF Logged
<1>11. ClaimedRows'
  <2>1. \A q \in Relays : \A x : InSeq(claim[q], x) => x \in Events BY DEF ClaimedRows, Published
  <2> QED BY <1>1, <1>5, <1>6, <1>9, <1>10, <2>1 DEF ClaimedRows
<1>12. BeforeIsOld' BY <1>1, <1>6 DEF BeforeIsOld
<1>13. TakeTurns'
  <2>1. ASSUME ~overlapped, NEW e \in Events, NEW d \in before[e] PROVE InOrder(d, e)'
    <3>1. InOrder(d, e) /\ d \in Events BY <2>1, <1>2 DEF TakeTurns, SenderTypes
    <3>2. Logged(d) => Logged(d)' BY <3>1, <1>5
    <3> QED BY <3>1, <3>2, <2>1, <1>1, <1>5 DEF InOrder
  <2> QED BY <2>1, <1>1, <1>9 DEF TakeTurns
<1> QED BY <1>5, <1>7, <1>8, <1>11, <1>12, <1>13

\* A prefix of each partition's part of a batch is appended, and the batch is given back.
LEMMA ProduceFailsKeeps ==
  ASSUME SenderInv, NEW r \in Relays, ProduceFails(r)
  PROVE  SenderInv' /\ LogGrows
<1> USE DEF SenderInv
<1>1. PICK n \in [Keys -> 0..Len(claim[r])] :
        /\ \A k \in Keys : n[k] <= Len(ForKey(claim[r], k))
        /\ log' = [k \in Keys |-> log[k] \o SubSeq(ForKey(claim[r], k), 1, n[k])]
  BY DEF ProduceFails
<1>2. /\ claim' = [claim EXCEPT ![r] = <<>>] /\ relay' = [relay EXCEPT ![r] = "idle"]
      /\ overlapped' = overlapped /\ created' = created /\ outbox' = outbox /\ before' = before
  BY DEF ProduceFails, Release, ovars
<1> DEFINE add == [k \in Keys |-> SubSeq(ForKey(claim[r], k), 1, n[k])]
<1>3. SenderTypes /\ claim[r] \in Seq(Events) BY DEF SenderTypes
<1>4. \A k \in Keys : /\ add[k] \in Seq(Events)
                      /\ \A x : InSeq(add[k], x) => InSeq(ForKey(claim[r], k), x)
                      /\ \A d, e : Precedes(ForKey(claim[r], k), d, e) => Precedes(add[k], d, e)
  <2> TAKE k \in Keys
  <2>1. ForKey(claim[r], k) \in Seq(Events) BY <1>3, OnlyKeeps DEF ForKey
  <2>2. n[k] \in Nat /\ n[k] <= Len(ForKey(claim[r], k)) BY <1>1, <1>3
  <2>3. add[k] = SubSeq(ForKey(claim[r], k), 1, n[k]) OBVIOUS
  <2> HIDE DEF add
  <2> QED BY <2>1, <2>2, <2>3, Prefixed
<1>5. log' = [k \in Keys |-> log[k] \o add[k]] BY <1>1
<1> HIDE DEF add
<1>6. /\ LogGrows /\ LoggedRows'
      /\ \A e \in Events : Logged(e) => Logged(e)'
      /\ ~overlapped => \A e \in Events : \A d \in before[e] :
           KeyOf[d] = KeyOf[e] => Precedes(log'[KeyOf[e]], d, e)
  BY <1>2, <1>4, <1>5, LogExtends
<1>7. Published' = Published BY <1>2 DEF Published
<1>8. <<>> \in Seq(Events) /\ \A x : ~InSeq(<<>>, x)
  <2>1. Len(<<>>) = 0 /\ 1..0 = {} OBVIOUS
  <2> QED BY <2>1 DEF InSeq, InFirst
<1>9. SenderTypes' BY <1>2, <1>3, <1>6, <1>8 DEF SenderTypes, LogGrows
<1>10. CreatedRows' BY <1>2 DEF CreatedRows
<1>11. \A q \in Relays : /\ claim'[q] = IF q = r THEN <<>> ELSE claim[q]
                         /\ relay'[q] = IF q = r THEN "idle" ELSE relay[q]
  BY <1>2, <1>3 DEF SenderTypes
<1>12. ClaimedRows'
  <2>1. \A q \in Relays : \A x : InSeq(claim[q], x) => x \in Events BY DEF ClaimedRows, Published
  <2> QED BY <1>6, <1>7, <1>8, <1>11, <2>1 DEF ClaimedRows
<1>13. BeforeIsOld' BY <1>2, <1>7 DEF BeforeIsOld
<1>14. \A d, e : Precedes(<<>>, d, e) BY <1>8, AbsentPrecedes
<1>15. TakeTurns'
  <2>1. ASSUME ~overlapped, NEW e \in Events, NEW d \in before[e] PROVE InOrder(d, e)'
    <3>1. InOrder(d, e) /\ d \in Events BY <2>1, <1>3 DEF TakeTurns, SenderTypes
    <3>2. Logged(d) => Logged(d)' BY <3>1, <1>6
    <3>3. \A q \in Relays : Precedes(claim'[q], d, e) \/ Logged(d)'
      BY <1>11, <1>14, <3>1, <3>2 DEF InOrder
    <3> QED BY <3>3, <2>1, <1>6 DEF InOrder
  <2> QED BY <2>1, <1>2, <1>11 DEF TakeTurns
<1> QED BY <1>6, <1>9, <1>10, <1>12, <1>13, <1>15

-----------------------------------------------------------------------------
(* From the log to the effect *)

Task == [key : Keys, next : Nat, last : Nat, try : Nat, at : {"insert", "handle", "dlq", "mark"}]
Work == {NoWork} \cup Task

Odd == Poison \cup Garbled

ReceiverTypes ==
  /\ marked \in [Keys -> Nat] /\ committed \in [Keys -> Nat]
  /\ work \in [Consumers -> Work]
  /\ processed \subseteq Events /\ dlq \subseteq Events /\ lost \subseteq Events
  /\ effects \in [Events -> Nat]
  /\ faults \in Nat

\* A member's task w in the log lg: what comes before the record in hand is in done,
\* the record too once it is to be marked, and only faults, of which there were f, used
\* up the attempts on a record that is not odd.
Fine(w, lg, done, odd, f) ==
  w.at # "poll" =>
    /\ w.next \in 1..w.last /\ w.last <= Len(lg[w.key])
    /\ \A i \in 1..(w.next - 1) : lg[w.key][i] \in done
    /\ w.at = "mark" => lg[w.key][w.next] \in done
    /\ lg[w.key][w.next] \notin odd => w.try <= f + 1 /\ (w.at = "dlq" => MaxAttempts <= f)

\* The first n records of s are in done.
Below(n, s, done) == n <= Len(s) /\ \A i \in 1..n : s[i] \in done

\* Event e is in the log lg with nothing but done before it.
Reached(e, lg, done) ==
  \E i \in 1..Len(lg[KeyOf[e]]) :
    lg[KeyOf[e]][i] = e /\ \A j \in 1..i : lg[KeyOf[e]][j] \in done

Tasks == \A c \in Consumers : Fine(work[c], log, Settled, Odd, faults)

Offsets == \A k \in Keys : Below(marked[k], log[k], Settled) /\ Below(committed[k], log[k], Settled)

\* An open dedup row is of an event that has no committed one, and nobody else's.
Handling ==
  \A c \in Consumers : At(c, "handle") =>
    /\ Record(c) \notin processed
    /\ \A d \in Consumers : At(d, "handle") /\ Record(d) = Record(c) => d = c

Once == \A e \in Events : effects[e] = IF e \in processed THEN 1 ELSE 0

GivenUp == faults < MaxAttempts => dlq \cup lost \subseteq Odd

InTurn == \A e \in processed : Reached(e, log, Settled)

ReceiverInv == ReceiverTypes /\ Tasks /\ Offsets /\ Handling /\ Once /\ GivenUp /\ InTurn

\* A task, an offset and a reached event stay so while the log grows and more is done.
LEMMA MoreDone ==
  ASSUME NEW lg \in [Keys -> Seq(Events)], NEW lh \in [Keys -> Seq(Events)],
         \A k \in Keys : /\ Len(lg[k]) <= Len(lh[k])
                         /\ \A i \in 1..Len(lg[k]) : i \in 1..Len(lh[k]) /\ lh[k][i] = lg[k][i],
         NEW done, NEW more, done \subseteq more, NEW odd,
         NEW f \in Nat, NEW g \in Nat, f <= g
  PROVE  /\ \A w \in Work : Fine(w, lg, done, odd, f) => Fine(w, lh, more, odd, g)
         /\ \A k \in Keys, n \in Nat : Below(n, lg[k], done) => Below(n, lh[k], more)
         /\ \A e \in Events : Reached(e, lg, done) => Reached(e, lh, more)
<1>1. \A k \in Keys : Len(lg[k]) \in Nat /\ Len(lh[k]) \in Nat OBVIOUS
<1>2. ASSUME NEW w \in Work, Fine(w, lg, done, odd, f), w.at # "poll"
      PROVE  /\ w.next \in 1..w.last /\ w.last <= Len(lh[w.key])
             /\ \A i \in 1..(w.next - 1) : lh[w.key][i] \in more
             /\ w.at = "mark" => lh[w.key][w.next] \in more
             /\ lh[w.key][w.next] \notin odd =>
                  w.try <= g + 1 /\ (w.at = "dlq" => MaxAttempts <= g)
  <2>1. w \in Task BY <1>2 DEF Work, NoWork
  <2>2. w.key \in Keys /\ w.next \in Nat /\ w.last \in Nat /\ w.try \in Nat BY <2>1 DEF Task
  <2>3. w.next \in 1..w.last /\ w.last <= Len(lg[w.key]) BY <1>2 DEF Fine
  <2>4. w.last <= Len(lh[w.key]) BY <2>2, <2>3, <1>1
  <2>5. w.next \in 1..Len(lg[w.key]) /\ \A i \in 1..(w.next - 1) : i \in 1..Len(lg[w.key])
    BY <2>2, <2>3, <1>1
  <2>6. lh[w.key][w.next] = lg[w.key][w.next] BY <2>2, <2>5
  <2>7. \A i \in 1..(w.next - 1) : lh[w.key][i] = lg[w.key][i] /\ lg[w.key][i] \in done
    BY <1>2, <2>2, <2>5 DEF Fine
  <2>8. w.at = "mark" => lg[w.key][w.next] \in done BY <1>2 DEF Fine
  <2>9. lg[w.key][w.next] \notin odd => w.try <= f + 1 /\ (w.at = "dlq" => MaxAttempts <= f)
    BY <1>2 DEF Fine
  <2>10. /\ w.try <= f + 1 => w.try <= g + 1
         /\ MaxAttempts <= f => MaxAttempts <= g
    BY <2>2, BoundsAssumption
  <2> QED BY <2>3, <2>4, <2>6, <2>7, <2>8, <2>9, <2>10
<1>3. \A w \in Work : Fine(w, lg, done, odd, f) => Fine(w, lh, more, odd, g)
  BY <1>2 DEF Fine
<1>4. ASSUME NEW k \in Keys, NEW n \in Nat, Below(n, lg[k], done) PROVE Below(n, lh[k], more)
  <2>1. n <= Len(lg[k]) /\ \A i \in 1..n : lg[k][i] \in done BY <1>4 DEF Below
  <2>2. \A i \in 1..n : i \in 1..Len(lg[k]) BY <2>1, <1>1
  <2>3. n <= Len(lh[k]) BY <2>1, <1>1
  <2> QED BY <2>1, <2>2, <2>3 DEF Below
<1>5. ASSUME NEW e \in Events, Reached(e, lg, done) PROVE Reached(e, lh, more)
  <2>1. KeyOf[e] \in Keys BY EventsAssumption
  <2>2. PICK i \in 1..Len(lg[KeyOf[e]]) :
          lg[KeyOf[e]][i] = e /\ \A j \in 1..i : lg[KeyOf[e]][j] \in done
    BY <1>5 DEF Reached
  <2>3. \A j \in 1..i : j \in 1..Len(lg[KeyOf[e]]) BY <2>1, <2>2, <1>1
  <2>4. i \in 1..Len(lh[KeyOf[e]]) /\ lh[KeyOf[e]][i] = e BY <2>1, <2>2
  <2>5. \A j \in 1..i : lh[KeyOf[e]][j] \in more BY <2>1, <2>2, <2>3
  <2> QED BY <2>4, <2>5 DEF Reached
<1> QED BY <1>3, <1>4, <1>5

\* The log is an extension of itself, in the form MoreDone asks for.
LEMMA SameLog ==
  ASSUME NEW lg \in [Keys -> Seq(Events)]
  PROVE  \A k \in Keys : /\ Len(lg[k]) <= Len(lg[k])
                         /\ \A i \in 1..Len(lg[k]) : i \in 1..Len(lg[k]) /\ lg[k][i] = lg[k][i]
<1>1. \A k \in Keys : Len(lg[k]) \in Nat OBVIOUS
<1> QED BY <1>1

\* The log grows and faults happen: the receiving side keeps its invariant.
LEMMA GrowthKeeps ==
  ASSUME ReceiverInv, log \in [Keys -> Seq(Events)], LogGrows, UNCHANGED <<gvars, cvars, nature>>,
         faults' \in Nat, faults <= faults'
  PROVE  ReceiverInv'
<1> USE DEF ReceiverInv
<1>1. /\ marked' = marked /\ committed' = committed /\ work' = work /\ processed' = processed
      /\ effects' = effects /\ dlq' = dlq /\ lost' = lost /\ nature' = nature
  BY DEF gvars, cvars
<1>2. ReceiverTypes BY DEF ReceiverInv
<1>3. ReceiverTypes' BY <1>1, <1>2 DEF ReceiverTypes
<1>4. Settled' = Settled /\ Odd' = Odd BY <1>1 DEF Settled, Odd, Poison, Garbled
<1>5. faults \in Nat /\ \A c \in Consumers : work[c] \in Work BY <1>2 DEF ReceiverTypes
<1>6. /\ \A w \in Work : Fine(w, log, Settled, Odd, faults) => Fine(w, log', Settled, Odd, faults')
      /\ \A k \in Keys, n \in Nat : Below(n, log[k], Settled) => Below(n, log'[k], Settled)
      /\ \A e \in Events : Reached(e, log, Settled) => Reached(e, log', Settled)
  BY <1>5, MoreDone DEF LogGrows
<1>7. Tasks' BY <1>1, <1>4, <1>5, <1>6 DEF Tasks
<1>8. Offsets' BY <1>1, <1>2, <1>4, <1>6 DEF Offsets, ReceiverTypes
<1>9. InTurn' BY <1>1, <1>2, <1>4, <1>6 DEF InTurn, ReceiverTypes
<1>10. Once' BY <1>1 DEF Once
<1>11. GivenUp' BY <1>1, <1>2, <1>4, BoundsAssumption DEF GivenUp, ReceiverTypes
<1>12. \A c \in Consumers : At(c, "handle") => Record(c)' = Record(c)
  <2> SUFFICES ASSUME NEW c \in Consumers, At(c, "handle") PROVE Record(c)' = Record(c) OBVIOUS
  <2> DEFINE w == work[c]
  <2>1. w \in Task BY <1>5 DEF At, Work, NoWork
  <2>2. w.key \in Keys /\ w.next \in Nat /\ w.last \in Nat BY <2>1 DEF Task
  <2>3. w.next \in 1..w.last /\ w.last <= Len(log[w.key]) BY DEF Tasks, Fine, At
  <2>4. Len(log[w.key]) \in Nat BY <2>2
  <2> HIDE DEF w
  <2>5. w.next \in 1..Len(log[w.key]) BY <2>2, <2>3, <2>4
  <2>6. log'[w.key][w.next] = log[w.key][w.next] BY <2>2, <2>5 DEF LogGrows
  <2> QED BY <2>6, <1>1 DEF Record, w
<1>13. Handling' BY <1>1, <1>12 DEF Handling, At
<1> QED BY <1>3, <1>7, <1>8, <1>9, <1>10, <1>11, <1>13

\* A member's task changes to w: what is left to show is w and what it settles.
LEMMA WorkKeeps ==
  ASSUME ReceiverInv, log \in [Keys -> Seq(Events)], log' = log, nature' = nature,
         marked' = marked, committed' = committed,
         NEW c \in Consumers, NEW w \in Work, work' = [work EXCEPT ![c] = w],
         processed' \subseteq Events, dlq' \subseteq Events, lost' \subseteq Events,
         effects' \in [Events -> Nat], faults' \in Nat, faults <= faults',
         Settled \subseteq Settled', Fine(w, log, Settled', Odd, faults'),
         Handling', Once', GivenUp',
         \A e \in processed' : e \in processed \/ Reached(e, log, Settled')
  PROVE  ReceiverInv'
<1> USE DEF ReceiverInv
<1>1. ReceiverTypes BY DEF ReceiverInv
<1>2. ReceiverTypes' BY <1>1 DEF ReceiverTypes
<1>3. Odd' = Odd BY DEF Odd, Poison, Garbled
<1>4. faults \in Nat /\ \A d \in Consumers : work[d] \in Work BY <1>1 DEF ReceiverTypes
<1>5. /\ \A v \in Work : Fine(v, log, Settled, Odd, faults) => Fine(v, log, Settled', Odd, faults')
      /\ \A k \in Keys, n \in Nat : Below(n, log[k], Settled) => Below(n, log[k], Settled')
      /\ \A e \in Events : Reached(e, log, Settled) => Reached(e, log, Settled')
  BY <1>4, SameLog, MoreDone
<1>6. \A d \in Consumers : work'[d] = IF d = c THEN w ELSE work[d] BY <1>1 DEF ReceiverTypes
<1>7. Tasks' BY <1>3, <1>4, <1>5, <1>6 DEF Tasks
<1>8. Offsets' BY <1>1, <1>5 DEF Offsets, ReceiverTypes
<1>9. InTurn' BY <1>1, <1>5 DEF InTurn, ReceiverTypes
<1> QED BY <1>2, <1>7, <1>8, <1>9

\* The task of a member at work, and its record.
LEMMA AtWork ==
  ASSUME ReceiverInv, log \in [Keys -> Seq(Events)], NEW c \in Consumers, work[c].at # "poll"
  PROVE  /\ work[c] \in Task /\ work[c].key \in Keys /\ work[c].next \in Nat
         /\ work[c].last \in Nat /\ work[c].try \in Nat /\ Len(log[work[c].key]) \in Nat
         /\ work[c].next \in 1..work[c].last /\ work[c].next \in 1..Len(log[work[c].key])
         /\ work[c].last <= Len(log[work[c].key])
         /\ \A i \in 1..(work[c].next - 1) : log[work[c].key][i] \in Settled
         /\ Record(c) \in Events /\ Record(c) = log[work[c].key][work[c].next]
         /\ Record(c) \notin Odd => /\ work[c].try <= faults + 1
                                    /\ work[c].at = "dlq" => MaxAttempts <= faults
         /\ work[c].at = "mark" => Record(c) \in Settled
<1> DEFINE w == work[c]
<1>1. w \in Work BY DEF ReceiverInv, ReceiverTypes
<1>2. w \in Task BY <1>1 DEF Work, NoWork
<1>3. w.key \in Keys /\ w.next \in Nat /\ w.last \in Nat /\ w.try \in Nat BY <1>2 DEF Task
<1>4. Fine(w, log, Settled, Odd, faults) BY DEF ReceiverInv, Tasks
<1>5. log[w.key] \in Seq(Events) /\ Len(log[w.key]) \in Nat BY <1>3
<1>6. Record(c) = log[w.key][w.next] BY DEF Record
<1> HIDE DEF w
<1>7. w.at # "poll" BY DEF w
<1>8. w.next \in 1..w.last /\ w.last <= Len(log[w.key]) BY <1>4, <1>7 DEF Fine
<1>9. w.next \in 1..Len(log[w.key]) BY <1>3, <1>5, <1>8
<1>10. log[w.key][w.next] \in Events BY <1>5, <1>9
<1>11. /\ \A i \in 1..(w.next - 1) : log[w.key][i] \in Settled
       /\ log[w.key][w.next] \notin Odd => w.try <= faults + 1 /\ (w.at = "dlq" => MaxAttempts <= faults)
       /\ w.at = "mark" => log[w.key][w.next] \in Settled
  BY <1>4, <1>7 DEF Fine
<1> QED BY <1>2, <1>3, <1>5, <1>6, <1>8, <1>9, <1>10, <1>11 DEF w

\* The fields of a task that moves on.
LEMMA TaskMoves ==
  \A w \in Task :
    /\ w.at # "poll"
    /\ \A p \in {"insert", "handle", "dlq", "mark"} :
         LET v == [w EXCEPT !.at = p]
         IN  /\ v \in Task /\ v.at = p /\ v.key = w.key /\ v.next = w.next
             /\ v.last = w.last /\ v.try = w.try
    /\ LET v == [w EXCEPT !.try = w.try + 1, !.at = "insert"]
       IN  /\ v \in Task /\ v.at = "insert" /\ v.key = w.key /\ v.next = w.next
           /\ v.last = w.last /\ v.try = w.try + 1
    /\ LET v == [w EXCEPT !.next = w.next + 1, !.try = 1, !.at = "insert"]
       IN  /\ v \in Task /\ v.at = "insert" /\ v.key = w.key /\ v.next = w.next + 1
           /\ v.last = w.last /\ v.try = 1
<1> SUFFICES ASSUME NEW w \in Task
             PROVE  /\ w.at # "poll"
                    /\ \A p \in {"insert", "handle", "dlq", "mark"} :
                         LET v == [w EXCEPT !.at = p]
                         IN  /\ v \in Task /\ v.at = p /\ v.key = w.key /\ v.next = w.next
                             /\ v.last = w.last /\ v.try = w.try
                    /\ LET v == [w EXCEPT !.try = w.try + 1, !.at = "insert"]
                       IN  /\ v \in Task /\ v.at = "insert" /\ v.key = w.key /\ v.next = w.next
                           /\ v.last = w.last /\ v.try = w.try + 1
                    /\ LET v == [w EXCEPT !.next = w.next + 1, !.try = 1, !.at = "insert"]
                       IN  /\ v \in Task /\ v.at = "insert" /\ v.key = w.key /\ v.next = w.next + 1
                           /\ v.last = w.last /\ v.try = 1
  OBVIOUS
<1>1. /\ w.key \in Keys /\ w.next \in Nat /\ w.last \in Nat /\ w.try \in Nat
      /\ w.at \in {"insert", "handle", "dlq", "mark"}
  BY DEF Task
<1>2. w.next + 1 \in Nat /\ w.try + 1 \in Nat BY <1>1
<1>3. w.at # "poll" BY <1>1
<1>4. ASSUME NEW p \in {"insert", "handle", "dlq", "mark"}
      PROVE  LET v == [w EXCEPT !.at = p]
             IN  /\ v \in Task /\ v.at = p /\ v.key = w.key /\ v.next = w.next
                 /\ v.last = w.last /\ v.try = w.try
  BY DEF Task
<1>5. ASSUME NEW n \in Nat
      PROVE  LET v == [w EXCEPT !.try = n, !.at = "insert"]
             IN  /\ v \in Task /\ v.at = "insert" /\ v.key = w.key /\ v.next = w.next
                 /\ v.last = w.last /\ v.try = n
  BY DEF Task
<1>6. ASSUME NEW n \in Nat
      PROVE  LET v == [w EXCEPT !.next = n, !.try = 1, !.at = "insert"]
             IN  /\ v \in Task /\ v.at = "insert" /\ v.key = w.key /\ v.next = n
                 /\ v.last = w.last /\ v.try = 1
  BY DEF Task
<1> QED BY <1>2, <1>3, <1>4, <1>5, <1>6

\* A task that stays at its record.
LEMMA FineMove ==
  ASSUME ReceiverInv, log \in [Keys -> Seq(Events)], NEW c \in Consumers, work[c].at # "poll",
         NEW v \in Task, v.key = work[c].key, v.next = work[c].next, v.last = work[c].last,
         NEW done, Settled \subseteq done, NEW f,
         v.at = "mark" => Record(c) \in done,
         Record(c) \notin Odd => v.try <= f + 1 /\ (v.at = "dlq" => MaxAttempts <= f)
  PROVE  Fine(v, log, done, Odd, f)
<1>1. /\ work[c].next \in 1..work[c].last
      /\ work[c].last <= Len(log[work[c].key])
      /\ \A i \in 1..(work[c].next - 1) : log[work[c].key][i] \in Settled
      /\ Record(c) = log[work[c].key][work[c].next]
  BY AtWork
<1>2. v.next \in 1..v.last /\ v.last <= Len(log[v.key]) BY <1>1
<1>3. \A i \in 1..(v.next - 1) : log[v.key][i] \in done BY <1>1
<1>4. Record(c) = log[v.key][v.next] BY <1>1
<1> QED BY <1>2, <1>3, <1>4 DEF Fine

\* A member that is not at its handler any more; what it settles was nobody else's.
LEMMA HandlingLeaves ==
  ASSUME ReceiverInv, log' = log, NEW c \in Consumers, NEW v, work' = [work EXCEPT ![c] = v],
         v.at # "handle", processed' = processed \/
           (At(c, "handle") /\ processed' = processed \cup {Record(c)})
  PROVE  Handling'
<1>1. \A d \in Consumers : work'[d] = IF d = c THEN v ELSE work[d]
  BY DEF ReceiverInv, ReceiverTypes
<1>2. \A d \in Consumers : At(d, "handle")' => d # c /\ At(d, "handle") /\ Record(d)' = Record(d)
  BY <1>1 DEF At, Record
<1>3. \A d \in Consumers : At(d, "handle") /\ d # c => Record(d) \notin processed'
  BY DEF ReceiverInv, Handling
<1> QED BY <1>2, <1>3 DEF ReceiverInv, Handling

\* Goto and Retry as changes of the member's task.
LEMMA GotoIs ==
  ASSUME ReceiverInv, NEW c \in Consumers
  PROVE  /\ \A p : Goto(c, p) => work' = [work EXCEPT ![c] = [work[c] EXCEPT !.at = p]]
         /\ Retry(c) => work' = [work EXCEPT ![c] =
              IF work[c].try < MaxAttempts
              THEN [work[c] EXCEPT !.try = work[c].try + 1, !.at = "insert"]
              ELSE [work[c] EXCEPT !.at = "dlq"]]
<1>1. work \in [Consumers -> Work] BY DEF ReceiverInv, ReceiverTypes
<1>2. \A p : Goto(c, p) => work' = [work EXCEPT ![c] = [work[c] EXCEPT !.at = p]]
  BY <1>1 DEF Goto
<1>3. Retry(c) => work' = [work EXCEPT ![c] =
              IF work[c].try < MaxAttempts
              THEN [work[c] EXCEPT !.try = work[c].try + 1, !.at = "insert"]
              ELSE [work[c] EXCEPT !.at = "dlq"]]
  BY DEF Retry
<1> QED BY <1>2, <1>3

\* Nothing is fetched, settled or counted at the start.
LEMMA ReceiverStart == Init => ReceiverInv
<1> SUFFICES ASSUME Init PROVE ReceiverInv OBVIOUS
<1> USE DEF Init
<1>1. NoWork.at = "poll" /\ NoWork \in Work BY DEF NoWork, Work
<1>2. ReceiverTypes
  <2>1. marked \in [Keys -> Nat] /\ committed \in [Keys -> Nat] OBVIOUS
  <2>2. work \in [Consumers -> Work] BY <1>1
  <2>3. effects \in [Events -> Nat] /\ faults \in Nat OBVIOUS
  <2> QED BY <2>1, <2>2, <2>3 DEF ReceiverTypes
<1>3. \A c \in Consumers : work[c].at = "poll" BY <1>1
<1>4. Tasks BY <1>3 DEF Tasks, Fine
<1>5. Offsets
  <2>1. \A k \in Keys : marked[k] = 0 /\ committed[k] = 0 /\ Len(log[k]) = 0 OBVIOUS
  <2>2. 1..0 = {} /\ 0 <= 0 OBVIOUS
  <2> QED BY <2>1, <2>2 DEF Offsets, Below
<1>6. Handling BY <1>3 DEF Handling, At
<1>7. Once BY DEF Once
<1>8. GivenUp BY DEF GivenUp
<1>9. InTurn BY DEF InTurn
<1> QED BY <1>2, <1>4, <1>5, <1>6, <1>7, <1>8, <1>9 DEF ReceiverInv

\* A fetch starts right after the marked records, which are settled.
LEMMA FetchKeeps ==
  ASSUME ReceiverInv, log \in [Keys -> Seq(Events)], NEW c \in Consumers, NEW k \in Keys, Fetch(c, k)
  PROVE  ReceiverInv'
<1> DEFINE w == [key |-> k, next |-> marked[k] + 1, last |-> Len(log[k]), try |-> 1, at |-> "insert"]
<1>1. /\ work' = [work EXCEPT ![c] = w] /\ marked[k] < Len(log[k])
      /\ processed' = processed /\ effects' = effects /\ dlq' = dlq /\ lost' = lost
      /\ nature' = nature /\ log' = log /\ marked' = marked /\ committed' = committed
      /\ faults' = faults
  BY DEF Fetch, ovars, rvars, gvars
<1>2. ReceiverTypes BY DEF ReceiverInv
<1>3. marked[k] \in Nat /\ Len(log[k]) \in Nat /\ faults \in Nat BY <1>2 DEF ReceiverTypes
<1>4. w \in Task BY <1>3 DEF Task
<1>5. /\ w.key = k /\ w.next = marked[k] + 1 /\ w.last = Len(log[k]) /\ w.try = 1
      /\ w.at = "insert"
  OBVIOUS
<1> HIDE DEF w
<1>6. Settled' = Settled BY <1>1 DEF Settled
<1>7. Below(marked[k], log[k], Settled) BY DEF ReceiverInv, Offsets
<1>8. w.next \in 1..w.last /\ w.last <= Len(log[w.key]) BY <1>1, <1>3, <1>5
<1>9. \A i \in 1..(w.next - 1) : log[w.key][i] \in Settled
  <2>1. w.next - 1 = marked[k] BY <1>3, <1>5
  <2> QED BY <2>1, <1>5, <1>7 DEF Below
<1>10. w.try <= faults + 1 BY <1>3, <1>5
<1>11. Fine(w, log, Settled', Odd, faults')
  BY <1>1, <1>5, <1>6, <1>8, <1>9, <1>10 DEF Fine
<1>12. Handling' BY <1>1, <1>5, HandlingLeaves
<1>13. Once' BY <1>1 DEF ReceiverInv, Once
<1>14. GivenUp' BY <1>1 DEF ReceiverInv, GivenUp, Odd, Poison, Garbled
<1>15. w \in Work BY <1>4 DEF Work
<1>16. faults <= faults' BY <1>1, <1>3
<1> QED
  BY <1>1, <1>2, <1>6, <1>11, <1>12, <1>13, <1>14, <1>15, <1>16, WorkKeeps DEF ReceiverTypes

\* A step that settles nothing.
LEMMA QuietMove ==
  ASSUME ReceiverInv, log \in [Keys -> Seq(Events)], NEW c \in Consumers, work[c].at # "poll",
         NEW v \in Task, v.key = work[c].key, v.next = work[c].next, v.last = work[c].last,
         work' = [work EXCEPT ![c] = v],
         v.at = "mark" => Record(c) \in Settled,
         Record(c) \notin Odd => v.try <= faults' + 1 /\ (v.at = "dlq" => MaxAttempts <= faults'),
         processed' = processed, effects' = effects, dlq' = dlq, lost' = lost,
         nature' = nature, log' = log, marked' = marked, committed' = committed,
         faults' \in Nat, faults <= faults', Handling'
  PROVE  ReceiverInv'
<1>1. ReceiverTypes BY DEF ReceiverInv
<1>2. Settled' = Settled BY DEF Settled
<1>3. Fine(v, log, Settled', Odd, faults') BY <1>2, FineMove
<1>4. Once' BY DEF ReceiverInv, Once
<1>5. faults \in Nat /\ MaxAttempts \in Nat BY <1>1, BoundsAssumption DEF ReceiverTypes
<1>6. faults' < MaxAttempts => faults < MaxAttempts BY <1>5
<1>7. GivenUp' BY <1>6 DEF ReceiverInv, GivenUp, Odd, Poison, Garbled
<1>8. v \in Work BY DEF Work
<1> QED BY <1>1, <1>2, <1>3, <1>4, <1>7, <1>8, WorkKeeps DEF ReceiverTypes

\* The dedup row: a duplicate is done, and a new one is nobody else's.
LEMMA InsertKeeps ==
  ASSUME ReceiverInv, log \in [Keys -> Seq(Events)], NEW c \in Consumers, InsertMarker(c)
  PROVE  ReceiverInv'
<1> DEFINE p == IF Record(c) \in processed THEN "mark" ELSE "handle"
           v == [work[c] EXCEPT !.at = p]
<1>1. /\ work[c].at = "insert" /\ ~Twin(c) /\ Goto(c, p)
      /\ processed' = processed /\ effects' = effects /\ dlq' = dlq /\ lost' = lost
      /\ nature' = nature /\ log' = log /\ marked' = marked /\ committed' = committed
      /\ faults' = faults
  BY DEF InsertMarker, At, ovars, rvars, gvars
<1>2. work[c].at # "poll" BY <1>1
<1>3. /\ work[c] \in Task /\ Record(c) \in Events
      /\ Record(c) \notin Odd => work[c].try <= faults + 1
  BY <1>2, AtWork
<1>4. work' = [work EXCEPT ![c] = v] BY <1>1, GotoIs
<1>5. p \in {"insert", "handle", "dlq", "mark"} /\ (p = "mark" => Record(c) \in processed)
      /\ (p = "handle" => Record(c) \notin processed) /\ p # "dlq"
  OBVIOUS
<1> HIDE DEF p
<1>6. /\ v \in Task /\ v.at = p /\ v.key = work[c].key /\ v.next = work[c].next
      /\ v.last = work[c].last /\ v.try = work[c].try
  BY <1>3, <1>5, TaskMoves
<1> HIDE DEF v
<1>7. Handling'
  <2>1. CASE p # "handle" BY <1>1, <1>4, <1>6, <2>1, HandlingLeaves
  <2>2. CASE p = "handle"
    <3>1. \A d \in Consumers : work'[d] = IF d = c THEN v ELSE work[d]
      BY <1>4 DEF ReceiverInv, ReceiverTypes
    <3>2. \A d \in Consumers : Record(d)' = Record(d) BY <1>1, <1>6, <3>1 DEF Record
    <3>3. \A d \in Consumers : At(d, "handle")' => d = c \/ (d # c /\ At(d, "handle"))
      BY <3>1 DEF At
    <3>4. \A d \in Consumers : d # c /\ At(d, "handle") => Record(d) # Record(c)
      BY <1>1 DEF Twin
    <3>5. Record(c) \notin processed' BY <1>1, <1>5, <2>2
    <3> QED BY <3>2, <3>3, <3>4, <3>5, <1>1 DEF ReceiverInv, Handling
  <2> QED BY <2>1, <2>2
<1>8. faults \in Nat /\ faults <= faults' BY <1>1 DEF ReceiverInv, ReceiverTypes
<1>9. v.at = "mark" => Record(c) \in Settled BY <1>5, <1>6 DEF Settled
<1>10. Record(c) \notin Odd => v.try <= faults' + 1 /\ (v.at = "dlq" => MaxAttempts <= faults')
  BY <1>1, <1>3, <1>5, <1>6
<1> QED BY <1>1, <1>2, <1>4, <1>6, <1>7, <1>8, <1>9, <1>10, QuietMove

\* The task after a failed attempt: a fault was behind it, or the record is odd.
LEMMA RetryIs ==
  ASSUME ReceiverInv, log \in [Keys -> Seq(Events)], NEW c \in Consumers, work[c].at # "poll",
         Retry(c), faults' = faults + 1 \/ Record(c) \in Odd
  PROVE  \E v \in Task :
           /\ work' = [work EXCEPT ![c] = v]
           /\ v.key = work[c].key /\ v.next = work[c].next /\ v.last = work[c].last
           /\ v.at \in {"insert", "dlq"}
           /\ Record(c) \notin Odd => v.try <= faults' + 1 /\ (v.at = "dlq" => MaxAttempts <= faults')
<1>1. /\ work[c] \in Task /\ work[c].try \in Nat
      /\ Record(c) \notin Odd => work[c].try <= faults + 1
  BY AtWork
<1>2. faults \in Nat /\ MaxAttempts \in Nat BY BoundsAssumption DEF ReceiverInv, ReceiverTypes
<1>3. CASE work[c].try < MaxAttempts
  <2> DEFINE v == [work[c] EXCEPT !.try = work[c].try + 1, !.at = "insert"]
  <2>1. work' = [work EXCEPT ![c] = v] BY <1>3, GotoIs
  <2>2. /\ v \in Task /\ v.at = "insert" /\ v.key = work[c].key /\ v.next = work[c].next
        /\ v.last = work[c].last /\ v.try = work[c].try + 1
    BY <1>1, TaskMoves
  <2> HIDE DEF v
  <2>3. Record(c) \notin Odd => v.try <= faults' + 1 BY <1>1, <1>2, <2>2
  <2> QED BY <2>1, <2>2, <2>3
<1>4. CASE ~(work[c].try < MaxAttempts)
  <2> DEFINE v == [work[c] EXCEPT !.at = "dlq"]
  <2>1. work' = [work EXCEPT ![c] = v] BY <1>4, GotoIs
  <2>2. /\ v \in Task /\ v.at = "dlq" /\ v.key = work[c].key /\ v.next = work[c].next
        /\ v.last = work[c].last /\ v.try = work[c].try
    BY <1>1, TaskMoves
  <2> HIDE DEF v
  <2>3. Record(c) \notin Odd => v.try <= faults' + 1 /\ MaxAttempts <= faults'
    BY <1>1, <1>2, <1>4, <2>2
  <2> QED BY <2>1, <2>2, <2>3
<1> QED BY <1>3, <1>4

\* A failed attempt settles nothing, and counts a fault unless the record is odd.
LEMMA FailKeeps ==
  ASSUME ReceiverInv, log \in [Keys -> Seq(Events)], NEW c \in Consumers, Fail(c)
  PROVE  ReceiverInv'
<1>1. /\ Retry(c)
      /\ processed' = processed /\ effects' = effects /\ dlq' = dlq /\ lost' = lost
      /\ nature' = nature /\ log' = log /\ marked' = marked /\ committed' = committed
  BY DEF Fail, ovars, rvars, gvars
<1>2. work[c].at # "poll" BY DEF Fail, At
<1>3. faults \in Nat BY DEF ReceiverInv, ReceiverTypes
<1>4. /\ faults' = faults + 1 \/ (Record(c) \in Odd /\ faults' = faults)
  BY DEF Fail, Fault, Odd
<1>5. faults' \in Nat /\ faults <= faults' BY <1>3, <1>4
<1>6. PICK v \in Task :
        /\ work' = [work EXCEPT ![c] = v]
        /\ v.key = work[c].key /\ v.next = work[c].next /\ v.last = work[c].last
        /\ v.at \in {"insert", "dlq"}
        /\ Record(c) \notin Odd => v.try <= faults' + 1 /\ (v.at = "dlq" => MaxAttempts <= faults')
  BY <1>1, <1>2, <1>4, RetryIs
<1>7. Handling' BY <1>1, <1>6, HandlingLeaves
<1>8. v.at # "mark" BY <1>6
<1> QED BY <1>1, <1>2, <1>5, <1>6, <1>7, <1>8, QuietMove

\* The record in hand is of a committed event, in its own partition.
LEMMA RecordIsTrue ==
  ASSUME ReceiverInv, SenderInv, NEW c \in Consumers, work[c].at # "poll"
  PROVE  /\ log \in [Keys -> Seq(Events)]
         /\ Record(c) \in Published /\ KeyOf[Record(c)] = work[c].key
<1>1. log \in [Keys -> Seq(Events)] BY DEF SenderInv, SenderTypes
<1>2. /\ work[c].key \in Keys /\ work[c].next \in 1..Len(log[work[c].key])
      /\ Record(c) = log[work[c].key][work[c].next]
  BY <1>1, AtWork
<1>3. InSeq(log[work[c].key], Record(c)) BY <1>2 DEF InSeq, InFirst
<1> QED BY <1>1, <1>2, <1>3 DEF SenderInv, LoggedRows

\* The handler's effect commits, with its dedup row, for a record that had none.
LEMMA EffectKeeps ==
  ASSUME ReceiverInv, SenderInv, NEW c \in Consumers, Effect(c),
         NEW v \in Task, v.key = work[c].key, v.next = work[c].next, v.last = work[c].last,
         work' = [work EXCEPT ![c] = v], v.at # "handle",
         Record(c) \notin Odd => v.try <= faults' + 1 /\ (v.at = "dlq" => MaxAttempts <= faults'),
         faults' \in Nat, faults <= faults'
  PROVE  ReceiverInv'
<1> DEFINE e == Record(c)
<1>1. /\ work[c].at = "handle" /\ At(c, "handle") /\ processed' = processed \cup {e}
      /\ effects' = [effects EXCEPT ![e] = @ + 1]
      /\ dlq' = dlq /\ lost' = lost /\ nature' = nature /\ log' = log
      /\ marked' = marked /\ committed' = committed
  BY DEF Effect, At, ovars, rvars, gvars
<1>2. work[c].at # "poll" BY <1>1
<1>3. log \in [Keys -> Seq(Events)] /\ KeyOf[e] = work[c].key BY <1>2, RecordIsTrue
<1>4. /\ e \in Events /\ e = log[work[c].key][work[c].next]
      /\ work[c].next \in 1..Len(log[work[c].key]) /\ work[c].next \in Nat
      /\ \A i \in 1..(work[c].next - 1) : log[work[c].key][i] \in Settled
  BY <1>2, <1>3, AtWork
<1>5. ReceiverTypes BY DEF ReceiverInv
<1>6. e \notin processed BY <1>1 DEF ReceiverInv, Handling
<1> HIDE DEF e
<1>7. Settled \subseteq Settled' /\ e \in Settled' BY <1>1 DEF Settled
<1>8. effects' \in [Events -> Nat] /\ processed' \subseteq Events
  <2>1. effects[e] + 1 \in Nat BY <1>4, <1>5 DEF ReceiverTypes
  <2> QED BY <2>1, <1>1, <1>4, <1>5 DEF ReceiverTypes
<1>9. Once'
  <2>1. effects[e] = 0 BY <1>4, <1>6 DEF ReceiverInv, Once
  <2>2. \A f \in Events : effects'[f] = IF f = e THEN 1 ELSE effects[f]
    BY <2>1, <1>1, <1>4, <1>5 DEF ReceiverTypes
  <2>3. \A f \in Events : effects[f] = IF f \in processed THEN 1 ELSE 0 BY DEF ReceiverInv, Once
  <2> QED BY <2>2, <2>3, <1>1 DEF Once
<1>10. GivenUp'
  <2>1. faults' < MaxAttempts => faults < MaxAttempts
    BY <1>5, BoundsAssumption DEF ReceiverTypes
  <2> QED BY <2>1, <1>1 DEF ReceiverInv, GivenUp, Odd, Poison, Garbled
<1>11. Reached(e, log, Settled')
  <2>1. \A j \in 1..work[c].next : j \in 1..(work[c].next - 1) \/ j = work[c].next BY <1>4
  <2>2. \A j \in 1..work[c].next : log[KeyOf[e]][j] \in Settled' BY <2>1, <1>3, <1>4, <1>7
  <2> QED BY <2>2, <1>3, <1>4 DEF Reached
<1>12. Handling' BY <1>1, HandlingLeaves DEF e
<1>13. Record(c) \in Settled' BY <1>7 DEF e
<1>14. Fine(v, log, Settled', Odd, faults') BY <1>2, <1>3, <1>7, <1>13, FineMove
<1>15. v \in Work BY DEF Work
<1>16. dlq' \subseteq Events /\ lost' \subseteq Events BY <1>1, <1>5 DEF ReceiverTypes
<1>17. \A f \in processed' : f \in processed \/ Reached(f, log, Settled') BY <1>1, <1>11
<1> QED
  BY <1>1, <1>3, <1>7, <1>8, <1>9, <1>10, <1>12, <1>14, <1>15, <1>16, <1>17, WorkKeeps

\* The handler succeeds.
LEMMA HandleKeeps ==
  ASSUME ReceiverInv, SenderInv, NEW c \in Consumers, Handle(c)
  PROVE  ReceiverInv'
<1> DEFINE v == [work[c] EXCEPT !.at = "mark"]
<1>1. Effect(c) /\ Goto(c, "mark") /\ faults' = faults /\ work[c].at # "poll"
  BY DEF Handle, Effect, At
<1>2. log \in [Keys -> Seq(Events)] BY DEF SenderInv, SenderTypes
<1>3. work[c] \in Task /\ (Record(c) \notin Odd => work[c].try <= faults + 1)
  BY <1>1, <1>2, AtWork
<1>4. work' = [work EXCEPT ![c] = v] BY <1>1, GotoIs
<1>5. /\ v \in Task /\ v.at = "mark" /\ v.key = work[c].key /\ v.next = work[c].next
      /\ v.last = work[c].last /\ v.try = work[c].try
  BY <1>3, TaskMoves
<1> HIDE DEF v
<1>6. v.at # "handle" /\ v.at # "dlq" BY <1>5
<1>7. Record(c) \notin Odd => v.try <= faults' + 1 /\ (v.at = "dlq" => MaxAttempts <= faults')
  BY <1>1, <1>3, <1>5, <1>6
<1>8. faults' \in Nat /\ faults <= faults' BY <1>1 DEF ReceiverInv, ReceiverTypes
<1> QED BY <1>1, <1>4, <1>5, <1>6, <1>7, <1>8, EffectKeeps

\* The effect commits and the member does not learn of it.
LEMMA HandleUnknownKeeps ==
  ASSUME ReceiverInv, SenderInv, NEW c \in Consumers, HandleUnknown(c)
  PROVE  ReceiverInv'
<1>1. Effect(c) /\ Retry(c) /\ faults' = faults + 1 /\ work[c].at # "poll"
  BY DEF HandleUnknown, Fault, Effect, At
<1>2. log \in [Keys -> Seq(Events)] BY DEF SenderInv, SenderTypes
<1>3. PICK v \in Task :
        /\ work' = [work EXCEPT ![c] = v]
        /\ v.key = work[c].key /\ v.next = work[c].next /\ v.last = work[c].last
        /\ v.at \in {"insert", "dlq"}
        /\ Record(c) \notin Odd => v.try <= faults' + 1 /\ (v.at = "dlq" => MaxAttempts <= faults')
  BY <1>1, <1>2, RetryIs
<1>4. v.at # "handle" BY <1>3
<1>5. faults \in Nat BY DEF ReceiverInv, ReceiverTypes
<1>6. faults' \in Nat /\ faults <= faults' BY <1>1, <1>5
<1> QED BY <1>1, <1>3, <1>4, <1>6, EffectKeeps

\* A record is given up on, with or without a dead letter: it is odd, or its attempts
\* were used up by faults.
LEMMA GiveUpKeeps ==
  ASSUME ReceiverInv, SenderInv, NEW c \in Consumers, Hopeless(c), Goto(c, "mark"),
         (dlq' = dlq \cup {Record(c)} /\ lost' = lost) \/ (lost' = lost \cup {Record(c)} /\ dlq' = dlq),
         processed' = processed, effects' = effects, nature' = nature, log' = log,
         marked' = marked, committed' = committed, faults' \in Nat, faults <= faults'
  PROVE  ReceiverInv'
<1> DEFINE v == [work[c] EXCEPT !.at = "mark"]
<1>1. log \in [Keys -> Seq(Events)] BY DEF SenderInv, SenderTypes
<1>2. work[c].at # "poll" /\ (work[c].at = "dlq" \/ Record(c) \in Odd)
  BY DEF Hopeless, At, Odd
<1>3. /\ work[c] \in Task /\ Record(c) \in Events
      /\ Record(c) \notin Odd => work[c].try <= faults + 1 /\ (work[c].at = "dlq" => MaxAttempts <= faults)
      /\ work[c].try \in Nat
  BY <1>1, <1>2, AtWork
<1>4. work' = [work EXCEPT ![c] = v] BY GotoIs
<1>5. /\ v \in Task /\ v.at = "mark" /\ v.key = work[c].key /\ v.next = work[c].next
      /\ v.last = work[c].last /\ v.try = work[c].try
  BY <1>3, TaskMoves
<1> HIDE DEF v
<1>6. ReceiverTypes BY DEF ReceiverInv
<1>7. faults \in Nat /\ MaxAttempts \in Nat BY <1>6, BoundsAssumption DEF ReceiverTypes
<1>8. v.at # "handle" /\ v.at # "dlq" BY <1>5
<1>9. Record(c) \notin Odd => v.try <= faults' + 1 /\ (v.at = "dlq" => MaxAttempts <= faults')
  BY <1>3, <1>5, <1>7, <1>8
<1>10. Settled \subseteq Settled' /\ Record(c) \in Settled' BY DEF Settled
<1>11. Fine(v, log, Settled', Odd, faults') BY <1>1, <1>2, <1>5, <1>9, <1>10, FineMove
<1>12. Handling' BY <1>4, <1>8, HandlingLeaves
<1>13. Once' BY DEF ReceiverInv, Once
<1>14. GivenUp'
  <2>1. Odd' = Odd BY DEF Odd, Poison, Garbled
  <2>2. faults' < MaxAttempts => faults < MaxAttempts /\ Record(c) \in Odd BY <1>2, <1>3, <1>7
  <2> QED BY <2>1, <2>2 DEF ReceiverInv, GivenUp
<1>15. v \in Work BY <1>5 DEF Work
<1>16. dlq' \subseteq Events /\ lost' \subseteq Events /\ processed' \subseteq Events
       /\ effects' \in [Events -> Nat]
  BY <1>3, <1>6 DEF ReceiverTypes
<1> QED
  BY <1>1, <1>4, <1>10, <1>11, <1>12, <1>13, <1>14, <1>15, <1>16, WorkKeeps

\* A dead letter, produced or not, settles the record.
LEMMA DLQKeeps ==
  ASSUME ReceiverInv, SenderInv, NEW c \in Consumers, ToDLQ(c) \/ DLQFails(c)
  PROVE  ReceiverInv'
<1>1. /\ Hopeless(c) /\ Goto(c, "mark") /\ processed' = processed /\ effects' = effects
      /\ nature' = nature /\ log' = log /\ marked' = marked /\ committed' = committed
      /\ (dlq' = dlq \cup {Record(c)} /\ lost' = lost) \/ (lost' = lost \cup {Record(c)} /\ dlq' = dlq)
      /\ faults' = faults \/ faults' = faults + 1
  BY DEF ToDLQ, DLQFails, Fault, ovars, rvars, gvars
<1>2. faults \in Nat BY DEF ReceiverInv, ReceiverTypes
<1>3. faults' \in Nat /\ faults <= faults' BY <1>1, <1>2
<1> QED BY <1>1, <1>3, GiveUpKeeps

\* What stays when the positions in the partitions and the tasks change.
LEMMA PositionsKeep ==
  ASSUME ReceiverInv, log \in [Keys -> Seq(Events)], log' = log, nature' = nature,
         processed' = processed, effects' = effects, dlq' = dlq, lost' = lost,
         faults' \in Nat, faults <= faults',
         marked' \in [Keys -> Nat], committed' \in [Keys -> Nat],
         \A k \in Keys : Below(marked'[k], log[k], Settled) /\ Below(committed'[k], log[k], Settled),
         work' \in [Consumers -> Work],
         \A d \in Consumers : work'[d] = work[d] \/
           (work'[d].at # "handle" /\ Fine(work'[d], log, Settled, Odd, faults'))
  PROVE  ReceiverInv'
<1> USE DEF ReceiverInv
<1>1. ReceiverTypes BY DEF ReceiverInv
<1>2. ReceiverTypes' BY <1>1 DEF ReceiverTypes
<1>3. Settled' = Settled /\ Odd' = Odd BY DEF Settled, Odd, Poison, Garbled
<1>4. faults \in Nat /\ \A d \in Consumers : work[d] \in Work BY <1>1 DEF ReceiverTypes
<1>5. \A w \in Work : Fine(w, log, Settled, Odd, faults) => Fine(w, log, Settled, Odd, faults')
  BY <1>4, SameLog, MoreDone
<1>6. Tasks' BY <1>3, <1>4, <1>5 DEF Tasks
<1>7. Offsets' BY <1>3 DEF Offsets
<1>8. \A d \in Consumers : At(d, "handle")' => At(d, "handle") /\ Record(d)' = Record(d)
  BY DEF At, Record
<1>9. Handling' BY <1>8 DEF Handling
<1>10. Once' BY DEF Once
<1>11. faults' < MaxAttempts => faults < MaxAttempts BY <1>4, BoundsAssumption
<1>12. GivenUp' BY <1>3, <1>11 DEF GivenUp
<1>13. InTurn' BY <1>3 DEF InTurn
<1> QED BY <1>2, <1>6, <1>7, <1>9, <1>10, <1>12, <1>13

\* A record is marked only after it was settled, by the member that owns the partition.
LEMMA MarkKeeps ==
  ASSUME ReceiverInv, log \in [Keys -> Seq(Events)], NEW c \in Consumers, Mark(c)
  PROVE  ReceiverInv'
<1> DEFINE w == work[c]
           v == [w EXCEPT !.next = w.next + 1, !.try = 1, !.at = "insert"]
           u == IF w.next < w.last THEN v ELSE NoWork
<1>1. /\ w.at = "mark" /\ work' = [work EXCEPT ![c] = u]
      /\ marked' = [marked EXCEPT ![w.key] = IF owner[w.key] = c THEN w.next ELSE @]
      /\ processed' = processed /\ effects' = effects /\ dlq' = dlq /\ lost' = lost
      /\ committed' = committed /\ log' = log /\ nature' = nature /\ faults' = faults
  BY DEF Mark, At, ovars, rvars
<1>2. ReceiverTypes BY DEF ReceiverInv
<1>3. w.at # "poll" BY <1>1
<1>4. /\ w \in Task /\ w.key \in Keys /\ w.next \in Nat /\ w.last \in Nat
      /\ w.next \in 1..w.last /\ w.next \in 1..Len(log[w.key]) /\ w.last <= Len(log[w.key])
      /\ Len(log[w.key]) \in Nat
      /\ \A i \in 1..(w.next - 1) : log[w.key][i] \in Settled
      /\ log[w.key][w.next] \in Settled
  BY <1>1, <1>3, AtWork
<1>5. /\ v \in Task /\ v.at = "insert" /\ v.key = w.key /\ v.next = w.next + 1
      /\ v.last = w.last /\ v.try = 1
  BY <1>4, TaskMoves
<1>6. NoWork \in Work /\ NoWork.at = "poll" BY DEF Work, NoWork
<1>7. (w.next < w.last => u = v) /\ (~(w.next < w.last) => u = NoWork) OBVIOUS
<1>8. faults \in Nat BY <1>2 DEF ReceiverTypes
<1> HIDE DEF u, v, w
<1>9. \A i \in 1..w.next : log[w.key][i] \in Settled
  <2>1. \A i \in 1..w.next : i \in 1..(w.next - 1) \/ i = w.next BY <1>4
  <2> QED BY <2>1, <1>4
<1>10. Below(w.next, log[w.key], Settled)
  <2>1. w.next <= Len(log[w.key]) BY <1>4
  <2> QED BY <2>1, <1>9 DEF Below
<1>11. marked' \in [Keys -> Nat] BY <1>1, <1>2, <1>4 DEF ReceiverTypes
<1>12. \A k \in Keys : marked'[k] = marked[k] \/ (k = w.key /\ marked'[k] = w.next)
  BY <1>1, <1>2, <1>4 DEF ReceiverTypes
<1>13. \A k \in Keys : Below(marked'[k], log[k], Settled) /\ Below(committed'[k], log[k], Settled)
  BY <1>1, <1>10, <1>12 DEF ReceiverInv, Offsets
<1>14. u \in Work BY <1>5, <1>6, <1>7 DEF Work
<1>15. work' \in [Consumers -> Work] /\ \A d \in Consumers : work'[d] = IF d = c THEN u ELSE work[d]
  BY <1>1, <1>2, <1>14 DEF ReceiverTypes
<1>16. Fine(u, log, Settled, Odd, faults')
  <2>1. CASE ~(w.next < w.last) BY <2>1, <1>6, <1>7 DEF Fine
  <2>2. CASE w.next < w.last
    <3>1. v.next \in 1..v.last /\ v.last <= Len(log[v.key]) BY <2>2, <1>4, <1>5
    <3>2. v.next - 1 = w.next BY <1>4, <1>5
    <3>3. \A i \in 1..(v.next - 1) : log[v.key][i] \in Settled BY <3>2, <1>5, <1>9
    <3>4. v.try <= faults' + 1 BY <1>1, <1>5, <1>8
    <3>5. v.at # "mark" /\ v.at # "dlq" BY <1>5
    <3> QED BY <2>2, <3>1, <3>3, <3>4, <3>5, <1>7 DEF Fine
  <2> QED BY <2>1, <2>2
<1>17. u.at # "handle"
  <2>1. v.at # "handle" /\ NoWork.at # "handle" BY <1>5, <1>6
  <2> QED BY <2>1, <1>7
<1>18. committed' \in [Keys -> Nat] /\ faults' \in Nat /\ faults <= faults'
  BY <1>1, <1>2, <1>8 DEF ReceiverTypes
<1>19. \A d \in Consumers : work'[d] = work[d] \/
         (work'[d].at # "handle" /\ Fine(work'[d], log, Settled, Odd, faults'))
  BY <1>15, <1>16, <1>17
<1> QED BY <1>1, <1>11, <1>13, <1>15, <1>18, <1>19, PositionsKeep

\* A commit of offsets, a crash and a rebalance move positions to ones that were there.
LEMMA GroupKeeps ==
  ASSUME ReceiverInv, log \in [Keys -> Seq(Events)],
         \/ \E k \in Keys : CommitOffsets(k)
         \/ \E c \in Consumers : Crash(c)
         \/ \E k \in Keys, d \in Consumers : Rebalance(k, d)
  PROVE  ReceiverInv'
<1>1. /\ processed' = processed /\ effects' = effects /\ dlq' = dlq /\ lost' = lost
      /\ log' = log /\ nature' = nature /\ (faults' = faults \/ faults' = faults + 1)
  BY DEF CommitOffsets, Crash, Rebalance, Fault, ovars, rvars, cvars
<1>2. ReceiverTypes BY DEF ReceiverInv
<1>3. faults \in Nat /\ faults' \in Nat /\ faults <= faults' BY <1>1, <1>2 DEF ReceiverTypes
<1>4. /\ marked \in [Keys -> Nat] /\ committed \in [Keys -> Nat] /\ work \in [Consumers -> Work]
  BY <1>2 DEF ReceiverTypes
<1>5. NoWork \in Work /\ NoWork.at = "poll" BY DEF Work, NoWork
<1>6. /\ marked' \in [Keys -> Nat] /\ committed' \in [Keys -> Nat]
      /\ \A k \in Keys : /\ marked'[k] \in {marked[k], committed[k]}
                         /\ committed'[k] \in {marked[k], committed[k]}
  <2>1. ASSUME NEW k \in Keys, CommitOffsets(k)
        PROVE  /\ marked' \in [Keys -> Nat] /\ committed' \in [Keys -> Nat]
               /\ \A h \in Keys : /\ marked'[h] \in {marked[h], committed[h]}
                                  /\ committed'[h] \in {marked[h], committed[h]}
    BY <2>1, <1>4 DEF CommitOffsets
  <2>2. ASSUME NEW c \in Consumers, Crash(c)
        PROVE  /\ marked' \in [Keys -> Nat] /\ committed' \in [Keys -> Nat]
               /\ \A h \in Keys : /\ marked'[h] \in {marked[h], committed[h]}
                                  /\ committed'[h] \in {marked[h], committed[h]}
    BY <2>2, <1>4 DEF Crash
  <2>3. ASSUME NEW k \in Keys, NEW d \in Consumers, Rebalance(k, d)
        PROVE  /\ marked' \in [Keys -> Nat] /\ committed' \in [Keys -> Nat]
               /\ \A h \in Keys : /\ marked'[h] \in {marked[h], committed[h]}
                                  /\ committed'[h] \in {marked[h], committed[h]}
    BY <2>3, <1>4 DEF Rebalance
  <2> QED BY <2>1, <2>2, <2>3
<1>7. \A k \in Keys : Below(marked'[k], log[k], Settled) /\ Below(committed'[k], log[k], Settled)
  BY <1>6 DEF ReceiverInv, Offsets
<1>8. work' \in [Consumers -> Work] /\ \A d \in Consumers : work'[d] = work[d] \/ work'[d] = NoWork
  BY <1>4, <1>5 DEF CommitOffsets, Crash, Rebalance, cvars
<1>9. Fine(NoWork, log, Settled, Odd, faults') /\ NoWork.at # "handle" BY <1>5 DEF Fine
<1>10. \A d \in Consumers : work'[d] = work[d] \/
         (work'[d].at # "handle" /\ Fine(work'[d], log, Settled, Odd, faults'))
  BY <1>8, <1>9
<1> QED BY <1>1, <1>3, <1>6, <1>7, <1>8, <1>10, PositionsKeep

-----------------------------------------------------------------------------
(* The invariant *)

FlowInv == SenderInv /\ ReceiverInv

\* The invariant holds at the start.
LEMMA FlowStart == Init => FlowInv
BY SenderStart, ReceiverStart DEF FlowInv

\* The steps of business transactions and relays.
LEMMA SendingStep ==
  ASSUME FlowInv,
         \/ \E e \in Events : Begin(e) \/ EndWrite(e)
         \/ \E r \in Relays : SelectBatch(r) \/ Produce(r) \/ ProduceFails(r)
                              \/ MarkSent(r) \/ MarkFails(r)
  PROVE  FlowInv'
<1>1. SenderInv /\ ReceiverInv /\ log \in [Keys -> Seq(Events)] BY DEF FlowInv, SenderInv, SenderTypes
<1>2. SenderInv' BY <1>1, BeginKeeps, EndWriteKeeps, SelectKeeps, ProduceKeeps, ProduceFailsKeeps,
                    MarkSentKeeps, MarkFailsKeeps
<1>3. UNCHANGED <<gvars, cvars, nature>>
  BY DEF Begin, EndWrite, SelectBatch, Produce, ProduceFails, MarkSent, MarkFails, ovars
<1>4. faults' = faults \/ faults' = faults + 1
  BY DEF Begin, EndWrite, SelectBatch, Produce, ProduceFails, MarkSent, MarkFails, Fault
<1>5. faults \in Nat BY <1>1 DEF ReceiverInv, ReceiverTypes
<1>6. faults' \in Nat /\ faults <= faults' BY <1>4, <1>5
<1>7. LogGrows
  <2>1. ASSUME log' = log PROVE LogGrows
    BY <2>1, <1>1, SameLog DEF LogGrows
  <2>2. \/ log' = log
        \/ \E r \in Relays : Produce(r) \/ ProduceFails(r)
    BY DEF Begin, EndWrite, SelectBatch, MarkSent, MarkFails, rvars
  <2> QED BY <2>1, <2>2, <1>1, ProduceKeeps, ProduceFailsKeeps
<1>8. ReceiverInv' BY <1>1, <1>3, <1>6, <1>7, GrowthKeeps
<1> QED BY <1>2, <1>8 DEF FlowInv

\* The sending side does not see a consumer group's steps.
LEMMA SenderRests ==
  ASSUME SenderInv, UNCHANGED <<ovars, rvars>>
  PROVE  SenderInv'
BY DEF SenderInv, SenderTypes, CreatedRows, ClaimedRows, LoggedRows, BeforeIsOld, TakeTurns, InOrder,
       Logged, Published, ovars, rvars

\* The steps of the consumer group.
LEMMA ReceivingStep ==
  ASSUME FlowInv,
         \/ \E c \in Consumers, k \in Keys : Fetch(c, k)
         \/ \E c \in Consumers : InsertMarker(c) \/ Handle(c) \/ HandleUnknown(c) \/ Fail(c)
                                 \/ ToDLQ(c) \/ DLQFails(c) \/ Mark(c) \/ Crash(c)
         \/ \E k \in Keys : CommitOffsets(k)
         \/ \E k \in Keys, d \in Consumers : Rebalance(k, d)
  PROVE  FlowInv' /\ UNCHANGED <<ovars, rvars>>
<1>1. SenderInv /\ ReceiverInv /\ log \in [Keys -> Seq(Events)] BY DEF FlowInv, SenderInv, SenderTypes
<1>2. UNCHANGED <<ovars, rvars>>
  BY DEF Fetch, InsertMarker, Handle, HandleUnknown, Effect, Fail, ToDLQ, DLQFails, Mark, Crash,
         CommitOffsets, Rebalance
<1>3. SenderInv' BY <1>1, <1>2, SenderRests
<1>4. ReceiverInv'
  BY <1>1, FetchKeeps, InsertKeeps, HandleKeeps, HandleUnknownKeeps, FailKeeps, DLQKeeps, MarkKeeps,
     GroupKeeps
<1> QED BY <1>2, <1>3, <1>4 DEF FlowInv

\* A step that changes nothing keeps the invariant.
LEMMA FlowStutter ==
  ASSUME FlowInv, UNCHANGED vars PROVE FlowInv'
<1>1. SenderInv /\ ReceiverInv /\ log \in [Keys -> Seq(Events)] BY DEF FlowInv, SenderInv, SenderTypes
<1>2. SenderInv' BY <1>1, SenderRests DEF vars
<1>3. log' = log /\ faults' = faults /\ UNCHANGED <<gvars, cvars, nature>> BY DEF vars, ovars, rvars
<1>4. LogGrows BY <1>1, <1>3, SameLog DEF LogGrows
<1>5. faults' \in Nat /\ faults <= faults' BY <1>1, <1>3 DEF ReceiverInv, ReceiverTypes
<1>6. ReceiverInv' BY <1>1, <1>3, <1>4, <1>5, GrowthKeeps
<1> QED BY <1>2, <1>6 DEF FlowInv

\* Every step keeps the invariant.
LEMMA FlowStep == FlowInv /\ [Next]_vars => FlowInv'
BY SendingStep, ReceivingStep, FlowStutter DEF Next

\* The invariant of the bus.
LEMMA FlowInvariant == Spec => []FlowInv
BY FlowStart, FlowStep, PTL DEF Spec

-----------------------------------------------------------------------------
(* What follows *)

\* First is the least index of an event that is in its partition.
LEMMA FirstIs ==
  ASSUME FlowInv, NEW e \in Events, Logged(e)
  PROVE  /\ First(e) \in 1..Len(log[KeyOf[e]])
         /\ log[KeyOf[e]][First(e)] = e
         /\ \A i \in 1..Len(log[KeyOf[e]]) : log[KeyOf[e]][i] = e => First(e) <= i
<1> DEFINE s == log[KeyOf[e]]
           I == {i \in 1..Len(s) : s[i] = e}
           Least(i) == s[i] = e /\ \A j \in 1..(i - 1) : s[j] # e
<1>1. s \in Seq(Events) /\ Len(s) \in Nat
  BY EventsAssumption DEF FlowInv, SenderInv, SenderTypes
<1>2. I # {} BY DEF Logged, InSeq, InFirst
<1>3. First(e) = CHOOSE i \in 1..Len(s) : Least(i) BY DEF First
<1> HIDE DEF s
<1>4. PICK m \in I : \A k \in I : m <= k
  <2>1. I \subseteq Nat BY <1>1
  <2> HIDE DEF I
  <2> QED BY <2>1, <1>2, LeastNatural
<1>5. Least(m)
  <2>1. \A j \in 1..(m - 1) : j \in 1..Len(s) /\ ~(m <= j) BY <1>1
  <2> QED BY <2>1, <1>4
<1>6. First(e) \in 1..Len(s) /\ Least(First(e)) BY <1>3, <1>4, <1>5
<1>7. ASSUME NEW i \in 1..Len(s), s[i] = e PROVE First(e) <= i
  <2>1. i \notin 1..(First(e) - 1) BY <1>6, <1>7
  <2> QED BY <2>1, <1>1, <1>6
<1> QED BY <1>6, <1>7 DEF s

\* Logged is InLog, without ToSet.
LEMMA LoggedIsInLog == ASSUME FlowInv, NEW e \in Events PROVE Logged(e) <=> InLog(e)
<1>1. log[KeyOf[e]] \in Seq(Events) BY EventsAssumption DEF FlowInv, SenderInv, SenderTypes
<1> QED BY <1>1, ToSetIsIn DEF Logged, InLog

\* Nothing is passed over, however many relays, members and faults there are: the outbox
\* marks a row sent only with its record in the log (relayOnce), offsets pass only
\* records that were settled (Run), and without MaxAttempts faults only events that
\* the handler cannot process are given up on (processWithRetry).
THEOREM NothingSkippedHolds == Spec => []NothingSkipped
<1>1. FlowInv => NothingSkipped
  <2> SUFFICES ASSUME FlowInv PROVE NothingSkipped OBVIOUS
  <2>1. \A e \in Events : outbox[e] = "sent" => InLog(e)
    BY LoggedIsInLog DEF FlowInv, SenderInv, LoggedRows
  <2>2. \A k \in Keys : \A i \in 1..committed[k] : log[k][i] \in Settled
    BY DEF FlowInv, ReceiverInv, Offsets, Below
  <2>3. faults < MaxAttempts => dlq \cup lost \subseteq Poison \cup Garbled
    BY DEF FlowInv, ReceiverInv, GivenUp, Odd
  <2> QED BY <2>1, <2>2, <2>3 DEF NothingSkipped
<1> QED BY <1>1, FlowInvariant, PTL

\* No event takes effect before an earlier one of its partition is settled, whatever is
\* delivered again and whoever still works on a partition it has lost (Consumer.Run).
THEOREM NoOvertakingHolds == Spec => []NoOvertaking
<1>1. FlowInv => NoOvertaking
  <2> SUFFICES ASSUME FlowInv, NEW e \in processed, NEW i \in 1..First(e)
               PROVE  log[KeyOf[e]][i] \in Settled
    BY DEF NoOvertaking
  <2>1. e \in Events /\ KeyOf[e] \in Keys
    BY EventsAssumption DEF FlowInv, ReceiverInv, ReceiverTypes
  <2>2. log[KeyOf[e]] \in Seq(Events) /\ Len(log[KeyOf[e]]) \in Nat
    BY <2>1 DEF FlowInv, SenderInv, SenderTypes
  <2>3. PICK m \in 1..Len(log[KeyOf[e]]) :
          log[KeyOf[e]][m] = e /\ \A j \in 1..m : log[KeyOf[e]][j] \in Settled
    BY DEF FlowInv, ReceiverInv, InTurn, Reached
  <2>4. Logged(e) BY <2>3 DEF Logged, InSeq, InFirst
  <2>5. First(e) \in 1..Len(log[KeyOf[e]]) /\ First(e) <= m BY <2>1, <2>3, <2>4, FirstIs
  <2>6. i \in 1..m BY <2>2, <2>5
  <2> QED BY <2>3, <2>6
<1> QED BY <1>1, FlowInvariant, PTL

\* While relays take turns, the log keeps the order of business transactions that did not
\* run concurrently (relayOnce, SELECT ... ORDER BY created_at).
THEOREM LogFollowsCommitsHolds == Spec => []LogFollowsCommits
<1>1. FlowInv => LogFollowsCommits
  <2> SUFFICES ASSUME FlowInv, ~overlapped, NEW e \in Events, InLog(e), NEW d \in before[e],
                      KeyOf[d] = KeyOf[e]
               PROVE  InLog(d) /\ First(d) < First(e)
    BY DEF LogFollowsCommits
  <2>1. d \in Events BY DEF FlowInv, SenderInv, SenderTypes
  <2>2. Precedes(log[KeyOf[e]], d, e) BY DEF FlowInv, SenderInv, TakeTurns, InOrder
  <2>3. Logged(e) BY LoggedIsInLog
  <2>4. First(e) \in 1..Len(log[KeyOf[e]]) /\ log[KeyOf[e]][First(e)] = e BY <2>3, FirstIs
  <2>5. PICK i \in 1..(First(e) - 1) : log[KeyOf[e]][i] = d BY <2>2, <2>4 DEF Precedes
  <2>6. Len(log[KeyOf[e]]) \in Nat BY EventsAssumption DEF FlowInv, SenderInv, SenderTypes
  <2>7. i \in 1..Len(log[KeyOf[e]]) /\ i < First(e) BY <2>4, <2>5, <2>6
  <2>8. Logged(d) BY <2>5, <2>7 DEF Logged, InSeq, InFirst
  <2>9. First(d) \in 1..Len(log[KeyOf[e]]) /\ First(d) <= i BY <2>1, <2>5, <2>7, <2>8, FirstIs
  <2>10. First(d) < First(e) BY <2>4, <2>6, <2>7, <2>9
  <2> QED BY <2>1, <2>8, <2>10, LoggedIsInLog
<1> QED BY <1>1, FlowInvariant, PTL

-----------------------------------------------------------------------------
(* The refinement *)

\* An effect is the abstract application of an event that was committed and not yet applied.
LEMMA EffectApplies ==
  ASSUME FlowInv, NEW c \in Consumers, Effect(c)
  PROVE  D!Apply(Record(c)) /\ Record(c) \in Events
<1>1. /\ work[c].at # "poll" /\ At(c, "handle")
      /\ effects' = [effects EXCEPT ![Record(c)] = @ + 1]
      /\ dlq' = dlq /\ lost' = lost /\ outbox' = outbox
  BY DEF Effect, At, ovars
<1>2. Record(c) \in Published BY <1>1, RecordIsTrue DEF FlowInv
<1>3. Record(c) \in Events BY <1>2 DEF Published
<1>4. effects[Record(c)] = 0 BY <1>1, <1>3 DEF FlowInv, ReceiverInv, Handling, Once
<1>5. effects' = [effects EXCEPT ![Record(c)] = 1] BY <1>1, <1>4
<1>6. Published' = Published BY <1>1 DEF Published
<1> QED BY <1>1, <1>2, <1>3, <1>4, <1>5, <1>6 DEF D!Apply

\* A dead letter, or the loss of one, abandons an event that was committed.
LEMMA DLQAbandons ==
  ASSUME FlowInv, NEW c \in Consumers, ToDLQ(c) \/ DLQFails(c)
  PROVE  D!Abandon(Record(c)) /\ Record(c) \in Events
<1>1. /\ work[c].at # "poll" /\ effects' = effects /\ outbox' = outbox
      /\ (dlq \cup lost)' = (dlq \cup lost) \cup {Record(c)}
  BY DEF ToDLQ, DLQFails, Hopeless, At, ovars
<1>2. Record(c) \in Published BY <1>1, RecordIsTrue DEF FlowInv
<1>3. Record(c) \in Events BY <1>2 DEF Published
<1>4. Published' = Published BY <1>1 DEF Published
<1> QED BY <1>1, <1>2, <1>3, <1>4 DEF D!Abandon

\* A business transaction that ends publishes its event, or nothing.
LEMMA EndPublishes ==
  ASSUME FlowInv, NEW e \in Events, EndWrite(e)
  PROVE  D!Publish(e) \/ UNCHANGED D!dvars
<1>1. PICK status \in {"unsent", "aborted"} : outbox' = [outbox EXCEPT ![e] = status]
  BY DEF EndWrite
<1>2. outbox[e] = "open" /\ effects' = effects /\ dlq' = dlq /\ lost' = lost BY DEF EndWrite, cvars
<1>3. outbox \in [Events -> RowState] BY DEF FlowInv, SenderInv, SenderTypes
<1>4. CASE status = "unsent"
  <2>1. Published' = Published \cup {e} BY <1>1, <1>3, <1>4 DEF Published
  <2> QED BY <2>1, <1>2 DEF D!Publish
<1>5. CASE status = "aborted"
  <2>1. Published' = Published BY <1>1, <1>2, <1>3, <1>5 DEF Published
  <2> QED BY <2>1, <1>2 DEF D!dvars
<1> QED BY <1>4, <1>5

\* The other steps are not seen.
LEMMA RestIsUnseen ==
  ASSUME FlowInv,
         \/ UNCHANGED vars
         \/ \E e \in Events : Begin(e)
         \/ \E r \in Relays : SelectBatch(r) \/ Produce(r) \/ ProduceFails(r)
                              \/ MarkSent(r) \/ MarkFails(r)
         \/ \E c \in Consumers, k \in Keys : Fetch(c, k)
         \/ \E c \in Consumers : InsertMarker(c) \/ Fail(c) \/ Mark(c) \/ Crash(c)
         \/ \E k \in Keys : CommitOffsets(k)
         \/ \E k \in Keys, d \in Consumers : Rebalance(k, d)
  PROVE  UNCHANGED D!dvars
<1>1. effects' = effects /\ dlq' = dlq /\ lost' = lost
  BY DEF vars, cvars, Begin, SelectBatch, Produce, ProduceFails, MarkSent, MarkFails, Fetch,
         InsertMarker, Fail, Mark, Crash, CommitOffsets, Rebalance
<1>2. \/ outbox' = outbox
      \/ \E e \in Events : Begin(e)
      \/ \E r \in Relays : MarkSent(r)
  BY DEF vars, ovars, SelectBatch, Produce, ProduceFails, MarkFails, Fetch,
         InsertMarker, Fail, Mark, Crash, CommitOffsets, Rebalance
<1>3. ASSUME NEW e \in Events, Begin(e) PROVE Published' = Published
  <2>1. outbox[e] = "none" /\ outbox' = [outbox EXCEPT ![e] = "open"] BY <1>3 DEF Begin
  <2> QED BY <2>1 DEF Published, FlowInv, SenderInv, SenderTypes
<1>4. Published' = Published BY <1>2, <1>3, MarkSentKeeps DEF FlowInv, Published
<1> QED BY <1>1, <1>4 DEF D!dvars

\* The bus keeps its promise (ADR-0009) whatever is sent, delivered or processed twice: an
\* event takes effect at most once, and only if its transaction committed.
THEOREM EffectOnceHolds == Spec => ExactlyOnceEffect
<1>1. Init => D!DInit
  BY DEF Init, D!DInit, Published
<1>2. FlowInv /\ [Next]_vars => [D!DNext]_(D!dvars)
  <2> SUFFICES ASSUME FlowInv, [Next]_vars PROVE D!DNext \/ UNCHANGED D!dvars OBVIOUS
  <2>1. ASSUME NEW e \in Events, EndWrite(e) PROVE D!DNext \/ UNCHANGED D!dvars
    BY <2>1, EndPublishes DEF D!DNext
  <2>2. ASSUME NEW c \in Consumers, Handle(c) \/ HandleUnknown(c) PROVE D!DNext
    <3>1. Effect(c) BY <2>2 DEF Handle, HandleUnknown
    <3> QED BY <3>1, EffectApplies DEF D!DNext
  <2>3. ASSUME NEW c \in Consumers, ToDLQ(c) \/ DLQFails(c) PROVE D!DNext
    BY <2>3, DLQAbandons DEF D!DNext
  <2> QED BY <2>1, <2>2, <2>3, RestIsUnseen DEF Next
<1> QED BY <1>1, <1>2, FlowInvariant, PTL DEF Spec, ExactlyOnceEffect, D!DSpec
=============================================================================
