---------------------------- MODULE SumTheorems -----------------------------
(***************************************************************************)
(* Facts about SumFunctionOnSet, which the books of the ledger and the     *)
(* statistics of the scorer are stated with.                               *)
(*                                                                         *)
(* The library's induction principles take a predicate as parameter, which *)
(* the provers cannot instantiate.  Its theorems on well-founded orders do *)
(* not: every induction here is the choice of a smallest counterexample.   *)
(***************************************************************************)
EXTENDS Integers, FiniteSets, Functions, FiniteSetTheorems, WellFoundedInduction, TLAPS

-----------------------------------------------------------------------------
(* Smallest counterexamples *)

\* A set of naturals has a least element.
LEMMA LeastNatural ==
  ASSUME NEW T, T \subseteq Nat, T # {}
  PROVE  \E x \in T : \A y \in T : x <= y
  <1> DEFINE R == OpToRel(<, Nat)
  <1>1. IsWellFoundedOn(R, Nat)
    BY NatLessThanWellFounded
  <1>2. \A x, y \in Nat : <<x, y>> \in R <=> x < y
    BY DEF OpToRel
  <1> HIDE DEF R
  <1>3. PICK x \in T : \A y \in T : ~(<<y, x>> \in R)
    BY <1>1, WFMin
  <1>4. \A y \in T : x <= y
    <2> TAKE y \in T
    <2>1. x \in Nat /\ y \in Nat /\ ~(y < x)
      BY <1>2, <1>3
    <2>2. QED
      BY <2>1
  <1>5. QED
    BY <1>4

\* A set of subsets of a finite set has one with the fewest elements.
LEMMA SmallestSubset ==
  ASSUME NEW S, IsFiniteSet(S), NEW Bad, Bad \subseteq SUBSET S, Bad # {}
  PROVE  \E s \in Bad : \A t \in Bad : Cardinality(s) <= Cardinality(t)
  <1> DEFINE Sizes == {Cardinality(s) : s \in Bad}
  <1>1. \A s \in Bad : Cardinality(s) \in Nat
    BY FS_Subset, FS_CardinalityType
  <1>2. Sizes \subseteq Nat /\ Sizes # {}
    BY <1>1
  <1>3. PICK n \in Sizes : \A m \in Sizes : n <= m
    <2> HIDE DEF Sizes
    <2>1. QED
      BY <1>2, LeastNatural
  <1>4. QED
    BY <1>3

-----------------------------------------------------------------------------
(* The recursion behind the sum *)

Pick(s) == CHOOSE x \in s : TRUE

\* The element that the sum takes off a set next is one of the set.
LEMMA PickIn == \A s : s # {} => Pick(s) \in s
  BY DEF Pick

\* The value of the sum on s, if g has those of smaller sets.
Unfold(f, g, s) == IF s = {} THEN 0 ELSE f[Pick(s)] + g[s \ {Pick(s)}]

Iterates(g, f, S) == g = [s \in SUBSET S |-> Unfold(f, g, s)]

SizeUpTo(S, n) == {s \in SUBSET S : Cardinality(s) <= n}

\* Without that element the set has one element less.
LEMMA Smaller ==
  ASSUME NEW S, IsFiniteSet(S), NEW s \in SUBSET S, s # {}
  PROVE  /\ s \ {Pick(s)} \in SUBSET S
         /\ IsFiniteSet(s) /\ Cardinality(s) \in Nat
         /\ Cardinality(s \ {Pick(s)}) = Cardinality(s) - 1
         /\ Cardinality(s \ {Pick(s)}) \in Nat
  <1>1. IsFiniteSet(s) /\ Pick(s) \in s
    BY FS_Subset, PickIn
  <1>2. /\ IsFiniteSet(s \ {Pick(s)})
        /\ Cardinality(s \ {Pick(s)}) = Cardinality(s) - 1
    BY <1>1, FS_RemoveElement
  <1>3. Cardinality(s) \in Nat /\ Cardinality(s \ {Pick(s)}) \in Nat
    BY <1>1, <1>2, FS_CardinalityType
  <1>4. QED
    BY <1>1, <1>2, <1>3

\* Induction over the subsets of a finite set: among the counterexamples there is one
\* that stops to be one when an element is taken away.
LEMMA SmallestCounterexample ==
  ASSUME NEW S, IsFiniteSet(S), NEW Bad, Bad \subseteq SUBSET S, Bad # {}, {} \notin Bad
  PROVE  \E s \in Bad : /\ s # {} /\ Pick(s) \in s
                        /\ IsFiniteSet(s) /\ IsFiniteSet(s \ {Pick(s)})
                        /\ s \ {Pick(s)} \in (SUBSET S) \ Bad
  <1>1. PICK s \in Bad : \A t \in Bad : Cardinality(s) <= Cardinality(t)
    BY SmallestSubset
  <1>2. s # {} /\ s \in SUBSET S
    OBVIOUS
  <1> DEFINE t == s \ {Pick(s)}
  <1>3. /\ t \in SUBSET S /\ IsFiniteSet(s)
        /\ Cardinality(s) \in Nat /\ Cardinality(t) \in Nat
        /\ Cardinality(t) = Cardinality(s) - 1
    BY <1>2, Smaller
  <1>4. t \notin Bad
    <2> HIDE DEF t
    <2>1. ~(Cardinality(s) <= Cardinality(t))
      BY <1>3
    <2>2. QED
      BY <1>1, <2>1
  <1>5. IsFiniteSet(t) /\ Pick(s) \in s
    BY <1>2, <1>3, FS_Subset, PickIn
  <1>6. QED
    BY <1>2, <1>3, <1>4, <1>5

\* The recursion has a solution on the sets of any size.
LEMMA IterationUpTo ==
  ASSUME NEW f, NEW S, IsFiniteSet(S), NEW n \in Nat
  PROVE  \E g : g = [s \in SizeUpTo(S, n) |-> Unfold(f, g, s)]
  <1> DEFINE Bad == {m \in Nat : ~\E g : g = [s \in SizeUpTo(S, m) |-> Unfold(f, g, s)]}
  <1>1. SUFFICES ASSUME Bad # {} PROVE FALSE
    OBVIOUS
  <1>2. PICK m \in Bad : \A k \in Bad : m <= k
    <2>1. Bad \subseteq Nat
      OBVIOUS
    <2> HIDE DEF Bad
    <2>2. QED
      BY <1>1, <2>1, LeastNatural
  <1>3. m # 0
    <2> SUFFICES ASSUME m = 0 PROVE FALSE
      OBVIOUS
    <2> DEFINE g == [s \in SizeUpTo(S, 0) |-> 0]
    <2>1. \A s \in SizeUpTo(S, 0) : s = {}
      <3> TAKE s \in SizeUpTo(S, 0)
      <3>1. s \in SUBSET S /\ Cardinality(s) <= 0
        BY DEF SizeUpTo
      <3>2. IsFiniteSet(s) /\ Cardinality(s) \in Nat
        BY <3>1, FS_Subset, FS_CardinalityType
      <3>3. QED
        BY <3>1, <3>2, FS_EmptySet
    <2>2. \A s \in SizeUpTo(S, 0) : Unfold(f, g, s) = 0
      BY <2>1 DEF Unfold
    <2>3. g = [s \in SizeUpTo(S, 0) |-> Unfold(f, g, s)]
      BY <2>2
    <2>4. QED
      BY <2>3
  <1>4. m \in Nat /\ m - 1 \in Nat /\ m - 1 \notin Bad
    BY <1>2, <1>3
  <1>5. PICK g : g = [s \in SizeUpTo(S, m - 1) |-> Unfold(f, g, s)]
    BY <1>4
  <1> DEFINE h == [s \in SizeUpTo(S, m) |-> Unfold(f, g, s)]
  <1>6. ASSUME NEW s \in SizeUpTo(S, m)
        PROVE  Unfold(f, h, s) = Unfold(f, g, s)
    <2>1. CASE s = {}
      BY <2>1 DEF Unfold
    <2>2. CASE s # {}
      <3> DEFINE t == s \ {Pick(s)}
      <3>1. t \in SUBSET S /\ Cardinality(t) = Cardinality(s) - 1 /\ Cardinality(t) \in Nat
            /\ Cardinality(s) \in Nat
        BY <2>2, Smaller DEF SizeUpTo
      <3>2. Cardinality(s) <= m
        BY DEF SizeUpTo
      <3>3. t \in SizeUpTo(S, m - 1) /\ t \in SizeUpTo(S, m)
        BY <1>4, <3>1, <3>2 DEF SizeUpTo
      <3>4. h[t] = Unfold(f, g, t) /\ g[t] = Unfold(f, g, t)
        BY <1>5, <3>3
      <3> HIDE DEF h
      <3>5. QED
        BY <2>2, <3>4 DEF Unfold
    <2>3. QED
      BY <2>1, <2>2
  <1>7. h = [s \in SizeUpTo(S, m) |-> Unfold(f, h, s)]
    BY <1>6
  <1>8. QED
    BY <1>2, <1>7

\* The recursion in the definition of the sum has a solution.
LEMMA IterationExists ==
  ASSUME NEW f, NEW S, IsFiniteSet(S)
  PROVE  \E g : Iterates(g, f, S)
  <1>1. Cardinality(S) \in Nat
    BY FS_CardinalityType
  <1>2. SizeUpTo(S, Cardinality(S)) = SUBSET S
    BY FS_Subset DEF SizeUpTo
  <1>3. PICK g : g = [s \in SizeUpTo(S, Cardinality(S)) |-> Unfold(f, g, s)]
    BY <1>1, IterationUpTo
  <1>4. QED
    BY <1>2, <1>3 DEF Iterates

\* and the sum is the value of one.
LEMMA SumIterates ==
  ASSUME NEW f, NEW S, IsFiniteSet(S)
  PROVE  \E g : Iterates(g, f, S) /\ SumFunctionOnSet(f, S) = g[S]
  <1>1. PICK h : Iterates(h, f, S)
    BY IterationExists
  <1>2. QED
    BY <1>1 DEF SumFunctionOnSet, FoldFunctionOnSet, MapThenFoldSet, Iterates, Unfold, Pick

Agree(f, g, S) == \A x \in S : f[x] = g[x]

\* Two solutions for functions that agree on a set agree on its subsets.
LEMMA IterationUnique ==
  ASSUME NEW f, NEW g, NEW S, NEW T, NEW i, NEW j, NEW U,
         IsFiniteSet(U), U \subseteq S, U \subseteq T,
         Iterates(i, f, S), Iterates(j, g, T), Agree(f, g, U)
  PROVE  i[U] = j[U]
  <1> DEFINE Bad == {s \in SUBSET U : i[s] # j[s]}
  <1>1. SUFFICES ASSUME Bad # {} PROVE FALSE
    OBVIOUS
  <1>2. PICK s \in Bad : \A t \in Bad : Cardinality(s) <= Cardinality(t)
    <2>1. Bad \subseteq SUBSET U
      OBVIOUS
    <2> HIDE DEF Bad
    <2>2. QED
      BY <1>1, <2>1, SmallestSubset
  <1>3. i[s] = Unfold(f, i, s) /\ j[s] = Unfold(g, j, s)
    BY DEF Iterates
  <1>4. s # {}
    BY <1>2, <1>3 DEF Unfold
  <1> DEFINE t == s \ {Pick(s)}
  <1>5. t \in SUBSET U /\ t \notin Bad /\ Pick(s) \in s
    <2>1. t \in SUBSET U /\ Cardinality(t) < Cardinality(s)
      BY <1>4, Smaller
    <2>2. Cardinality(s) \in Nat /\ Cardinality(t) \in Nat
      BY <1>4, Smaller
    <2>3. QED
      BY <1>2, <1>4, <2>1, <2>2, PickIn
  <1>6. QED
    BY <1>2, <1>3, <1>4, <1>5 DEF Unfold, Agree

-----------------------------------------------------------------------------
(* Sums *)

Summable(f, S) == IsFiniteSet(S) /\ \A x \in S : f[x] \in Int

\* The sum over no element.
LEMMA SumEmpty ==
  ASSUME NEW f
  PROVE  SumFunctionOnSet(f, {}) = 0
  <1>1. IsFiniteSet({})
    BY FS_EmptySet
  <1>2. PICK g : Iterates(g, f, {}) /\ SumFunctionOnSet(f, {}) = g[{}]
    BY <1>1, SumIterates
  <1>3. QED
    BY <1>2 DEF Iterates, Unfold

\* The sum depends only on the values on the set.
LEMMA SumAgree ==
  ASSUME NEW f, NEW g, NEW S, IsFiniteSet(S), \A x \in S : f[x] = g[x]
  PROVE  SumFunctionOnSet(f, S) = SumFunctionOnSet(g, S)
  <1>1. PICK i : Iterates(i, f, S) /\ SumFunctionOnSet(f, S) = i[S]
    BY SumIterates
  <1>2. PICK j : Iterates(j, g, S) /\ SumFunctionOnSet(g, S) = j[S]
    BY SumIterates
  <1>3. i[S] = j[S]
    <2>1. S \subseteq S /\ Agree(f, g, S)
      BY DEF Agree
    <2>2. QED
      BY <1>1, <1>2, <2>1, IterationUnique
  <1>4. QED
    BY <1>1, <1>2, <1>3

\* A sum is one element's value and the sum over the others.
LEMMA SumPick ==
  ASSUME NEW f, NEW S, IsFiniteSet(S), S # {}
  PROVE  SumFunctionOnSet(f, S) = f[Pick(S)] + SumFunctionOnSet(f, S \ {Pick(S)})
  <1> DEFINE T == S \ {Pick(S)}
  <1>1. IsFiniteSet(T) /\ T \subseteq S
    BY FS_Subset
  <1>2. PICK i : Iterates(i, f, S) /\ SumFunctionOnSet(f, S) = i[S]
    BY SumIterates
  <1>3. PICK j : Iterates(j, f, T) /\ SumFunctionOnSet(f, T) = j[T]
    BY <1>1, SumIterates
  <1>4. i[T] = j[T]
    <2>1. T \subseteq T /\ Agree(f, f, T)
      BY DEF Agree
    <2> HIDE DEF T
    <2>2. QED
      BY <1>1, <1>2, <1>3, <2>1, IterationUnique
  <1>5. i[S] = f[Pick(S)] + i[T]
    BY <1>2 DEF Iterates, Unfold
  <1>6. QED
    BY <1>2, <1>3, <1>4, <1>5

\* A sum of integers is an integer.
LEMMA SumType ==
  ASSUME NEW f, NEW S, Summable(f, S)
  PROVE  SumFunctionOnSet(f, S) \in Int
  <1> DEFINE Bad == {s \in SUBSET S : SumFunctionOnSet(f, s) \notin Int}
  <1> USE DEF Summable
  <1>1. SUFFICES ASSUME Bad # {} PROVE FALSE
    OBVIOUS
  <1>2. Bad \subseteq SUBSET S /\ {} \notin Bad
    BY SumEmpty
  <1>3. PICK s \in Bad : /\ s # {} /\ Pick(s) \in s
                         /\ IsFiniteSet(s) /\ IsFiniteSet(s \ {Pick(s)})
                         /\ s \ {Pick(s)} \in (SUBSET S) \ Bad
    <2> HIDE DEF Bad
    <2>1. QED
      BY <1>1, <1>2, SmallestCounterexample
  <1>4. SumFunctionOnSet(f, s) = f[Pick(s)] + SumFunctionOnSet(f, s \ {Pick(s)})
    BY <1>3, SumPick
  <1>5. SumFunctionOnSet(f, s \ {Pick(s)}) \in Int /\ f[Pick(s)] \in Int
    BY <1>3
  <1>6. QED
    BY <1>4, <1>5

\* Any element can be taken off the sum: the order of the summands does not matter.
LEMMA SumRemove ==
  ASSUME NEW f, NEW S, Summable(f, S), NEW x \in S
  PROVE  SumFunctionOnSet(f, S) = f[x] + SumFunctionOnSet(f, S \ {x})
  <1> DEFINE Off(s, y) == SumFunctionOnSet(f, s) = f[y] + SumFunctionOnSet(f, s \ {y})
             Bad == {s \in SUBSET S : \E y \in s : ~Off(s, y)}
  <1> USE DEF Summable
  <1>1. SUFFICES ASSUME Bad # {} PROVE FALSE
    OBVIOUS
  <1>2. PICK s \in Bad : \A t \in Bad : Cardinality(s) <= Cardinality(t)
    <2>1. Bad \subseteq SUBSET S
      OBVIOUS
    <2> HIDE DEF Bad
    <2>2. QED
      BY <1>1, <2>1, SmallestSubset
  <1>3. PICK y \in s : ~Off(s, y)
    OBVIOUS
  <1> DEFINE c == Pick(s)
             sc == s \ {c}
             sy == s \ {y}
             scy == s \ {c, y}
  <1>4. s \in SUBSET S /\ IsFiniteSet(s) /\ c \in s
    BY <1>3, FS_Subset, PickIn
  <1>5. Off(s, c)
    BY <1>3, <1>4, SumPick
  <1>6. c # y
    BY <1>3, <1>5
  <1>7. \A z \in s : s \ {z} \in SUBSET S /\ s \ {z} \notin Bad
    <2> TAKE z \in s
    <2>1. Cardinality(s \ {z}) = Cardinality(s) - 1 /\ IsFiniteSet(s \ {z})
      BY <1>4, FS_RemoveElement
    <2>2. Cardinality(s \ {z}) \in Nat /\ Cardinality(s) \in Nat
      BY <1>4, <2>1, FS_CardinalityType
    <2>3. ~(Cardinality(s) <= Cardinality(s \ {z}))
      BY <2>1, <2>2
    <2>4. QED
      BY <1>2, <1>4, <2>3
  <1>8. Off(sc, y) /\ Off(sy, c)
    BY <1>3, <1>4, <1>6, <1>7
  <1>9. sc \ {y} = scy /\ sy \ {c} = scy
    OBVIOUS
  <1>10. SumFunctionOnSet(f, scy) \in Int /\ f[c] \in Int /\ f[y] \in Int
    <2>1. Summable(f, scy)
      BY <1>4, FS_Subset
    <2>2. QED
      BY <1>3, <1>4, <2>1, SumType
  <1> HIDE DEF sc, sy, scy, c
  <1>11. QED
    <2>1. SumFunctionOnSet(f, s) = f[c] + (f[y] + SumFunctionOnSet(f, scy))
      BY <1>5, <1>8, <1>9 DEF sc
    <2>2. f[y] + SumFunctionOnSet(f, sy) = f[y] + (f[c] + SumFunctionOnSet(f, scy))
      BY <1>8, <1>9
    <2>3. SumFunctionOnSet(f, s) = f[y] + SumFunctionOnSet(f, sy)
      BY <1>10, <2>1, <2>2
    <2>4. QED
      BY <1>3, <2>3 DEF sy

\* A sum grows by the value of an element that comes in.
LEMMA SumAdd ==
  ASSUME NEW f, NEW S, NEW x, x \notin S, Summable(f, S \cup {x})
  PROVE  SumFunctionOnSet(f, S \cup {x}) = f[x] + SumFunctionOnSet(f, S)
  <1>1. (S \cup {x}) \ {x} = S
    OBVIOUS
  <1>2. x \in S \cup {x}
    OBVIOUS
  <1>3. QED
    BY <1>1, <1>2, SumRemove

\* The sum over one element.
LEMMA SumOne ==
  ASSUME NEW f, NEW j, f[j] \in Int
  PROVE  SumFunctionOnSet(f, {j}) = f[j]
<1>1. Summable(f, {} \cup {j}) BY FS_Singleton DEF Summable
<1>2. SumFunctionOnSet(f, {} \cup {j}) = f[j] + SumFunctionOnSet(f, {}) BY <1>1, SumAdd
<1>3. SumFunctionOnSet(f, {}) = 0 BY SumEmpty
<1>4. {} \cup {j} = {j} OBVIOUS
<1> QED BY <1>2, <1>3, <1>4

\* and over two.
LEMMA SumTwo ==
  ASSUME NEW f, NEW i, NEW j, i # j, f[i] \in Int, f[j] \in Int
  PROVE  SumFunctionOnSet(f, {i, j}) = f[i] + f[j]
<1>9. IsFiniteSet({i} \cup {j}) BY FS_Singleton, FS_AddElement
<1>1. Summable(f, {i} \cup {j}) BY <1>9 DEF Summable
<1>2. SumFunctionOnSet(f, {i} \cup {j}) = f[j] + SumFunctionOnSet(f, {i}) BY <1>1, SumAdd
<1>3. SumFunctionOnSet(f, {i}) = f[i] BY SumOne
<1>4. SumFunctionOnSet(f, {i} \cup {j}) = f[i] + f[j] BY <1>2, <1>3
<1>5. {i} \cup {j} = {i, j} OBVIOUS
<1> QED BY <1>4, <1>5

\* One summand changes.
LEMMA SumChange ==
  ASSUME NEW f, NEW g, NEW S, Summable(f, S), Summable(g, S), NEW x \in S,
         \A y \in S \ {x} : f[y] = g[y]
  PROVE  SumFunctionOnSet(g, S) = SumFunctionOnSet(f, S) + g[x] - f[x]
  <1> DEFINE T == S \ {x}
  <1>1. Summable(f, T) /\ Summable(g, T)
    BY FS_Subset DEF Summable
  <1>2. SumFunctionOnSet(f, T) = SumFunctionOnSet(g, T)
    BY <1>1, SumAgree DEF Summable
  <1>3. /\ SumFunctionOnSet(f, S) = f[x] + SumFunctionOnSet(f, T)
        /\ SumFunctionOnSet(g, S) = g[x] + SumFunctionOnSet(g, T)
    BY SumRemove
  <1>4. SumFunctionOnSet(f, T) \in Int /\ f[x] \in Int /\ g[x] \in Int
    BY <1>1, SumType DEF Summable
  <1> HIDE DEF T
  <1>5. QED
    BY <1>2, <1>3, <1>4

\* A sum of zeroes.
LEMMA SumZero ==
  ASSUME NEW f, NEW S, IsFiniteSet(S), \A x \in S : f[x] = 0
  PROVE  SumFunctionOnSet(f, S) = 0
  <1> DEFINE Bad == {s \in SUBSET S : SumFunctionOnSet(f, s) # 0}
  <1>1. SUFFICES ASSUME Bad # {} PROVE FALSE
    OBVIOUS
  <1>2. Bad \subseteq SUBSET S /\ {} \notin Bad
    BY SumEmpty
  <1>3. PICK s \in Bad : /\ s # {} /\ Pick(s) \in s
                         /\ IsFiniteSet(s) /\ IsFiniteSet(s \ {Pick(s)})
                         /\ s \ {Pick(s)} \in (SUBSET S) \ Bad
    <2> HIDE DEF Bad
    <2>1. QED
      BY <1>1, <1>2, SmallestCounterexample
  <1>4. SumFunctionOnSet(f, s) = f[Pick(s)] + SumFunctionOnSet(f, s \ {Pick(s)})
    BY <1>3, SumPick
  <1>5. SumFunctionOnSet(f, s \ {Pick(s)}) = 0 /\ f[Pick(s)] = 0
    BY <1>3
  <1>6. QED
    BY <1>4, <1>5

\* The sum of sums.
LEMMA SumPlus ==
  ASSUME NEW f, NEW g, NEW h, NEW S, Summable(f, S), Summable(g, S),
         \A x \in S : h[x] = f[x] + g[x]
  PROVE  SumFunctionOnSet(h, S) = SumFunctionOnSet(f, S) + SumFunctionOnSet(g, S)
  <1> DEFINE Bad == {s \in SUBSET S : SumFunctionOnSet(h, s) #
                                        SumFunctionOnSet(f, s) + SumFunctionOnSet(g, s)}
  <1> USE DEF Summable
  <1>1. SUFFICES ASSUME Bad # {} PROVE FALSE
    OBVIOUS
  <1>2. Bad \subseteq SUBSET S /\ {} \notin Bad
    BY SumEmpty
  <1>3. PICK s \in Bad : /\ s # {} /\ Pick(s) \in s
                         /\ IsFiniteSet(s) /\ IsFiniteSet(s \ {Pick(s)})
                         /\ s \ {Pick(s)} \in (SUBSET S) \ Bad
    <2> HIDE DEF Bad
    <2>1. QED
      BY <1>1, <1>2, SmallestCounterexample
  <1> DEFINE c == Pick(s)
             t == s \ {c}
  <1>4. /\ SumFunctionOnSet(f, s) = f[c] + SumFunctionOnSet(f, t)
        /\ SumFunctionOnSet(g, s) = g[c] + SumFunctionOnSet(g, t)
        /\ SumFunctionOnSet(h, s) = h[c] + SumFunctionOnSet(h, t)
    BY <1>3, SumPick
  <1>5. SumFunctionOnSet(h, t) = SumFunctionOnSet(f, t) + SumFunctionOnSet(g, t)
    BY <1>3
  <1>6. /\ SumFunctionOnSet(f, t) \in Int /\ SumFunctionOnSet(g, t) \in Int
        /\ f[c] \in Int /\ g[c] \in Int /\ h[c] = f[c] + g[c]
    BY <1>3, SumType
  <1>7. SumFunctionOnSet(h, s) # SumFunctionOnSet(f, s) + SumFunctionOnSet(g, s)
    BY <1>3
  <1> HIDE DEF c, t
  <1>8. QED
    BY <1>4, <1>5, <1>6, <1>7

\* The sum over two sets that have nothing in common.
LEMMA SumUnion ==
  ASSUME NEW f, NEW S, NEW T, S \cap T = {}, Summable(f, S), Summable(f, T)
  PROVE  SumFunctionOnSet(f, S \cup T) = SumFunctionOnSet(f, S) + SumFunctionOnSet(f, T)
  <1> DEFINE Bad == {s \in SUBSET S : SumFunctionOnSet(f, s \cup T) #
                                        SumFunctionOnSet(f, s) + SumFunctionOnSet(f, T)}
  <1> USE DEF Summable
  <1>0. SumFunctionOnSet(f, T) \in Int
    BY SumType
  <1>1. SUFFICES ASSUME Bad # {} PROVE FALSE
    OBVIOUS
  <1>2. Bad \subseteq SUBSET S /\ {} \notin Bad
    <2>1. {} \cup T = T /\ SumFunctionOnSet(f, {}) = 0
      BY SumEmpty
    <2>2. QED
      BY <1>0, <2>1
  <1>3. PICK s \in Bad : /\ s # {} /\ Pick(s) \in s
                         /\ IsFiniteSet(s) /\ IsFiniteSet(s \ {Pick(s)})
                         /\ s \ {Pick(s)} \in (SUBSET S) \ Bad
    <2> HIDE DEF Bad
    <2>1. QED
      BY <1>1, <1>2, SmallestCounterexample
  <1> DEFINE c == Pick(s)
             t == s \ {c}
  <1>4. SumFunctionOnSet(f, s) = f[c] + SumFunctionOnSet(f, t)
    BY <1>3, SumPick
  <1>5. SumFunctionOnSet(f, s \cup T) = f[c] + SumFunctionOnSet(f, t \cup T)
    <2>1. s \cup T = (t \cup T) \cup {c} /\ c \notin t \cup T
      BY <1>3
    <2>2. Summable(f, s \cup T)
      BY <1>3, FS_Union
    <2> HIDE DEF c, t, Summable
    <2>3. QED
      BY <2>1, <2>2, SumAdd
  <1>6. SumFunctionOnSet(f, t \cup T) = SumFunctionOnSet(f, t) + SumFunctionOnSet(f, T)
    BY <1>3
  <1>7. SumFunctionOnSet(f, t) \in Int /\ f[c] \in Int
    BY <1>3, SumType
  <1>8. SumFunctionOnSet(f, s \cup T) # SumFunctionOnSet(f, s) + SumFunctionOnSet(f, T)
    BY <1>3
  <1> HIDE DEF c, t
  <1>9. QED
    BY <1>0, <1>4, <1>5, <1>6, <1>7, <1>8

\* A sum of numbers that are not negative grows with the set.
LEMMA SumMonotone ==
  ASSUME NEW f, NEW S, NEW T, S \subseteq T, Summable(f, T), \A x \in T : f[x] >= 0
  PROVE  0 <= SumFunctionOnSet(f, S) /\ SumFunctionOnSet(f, S) <= SumFunctionOnSet(f, T)
  <1> USE DEF Summable
  <1>1. ASSUME NEW U \in SUBSET T
        PROVE  SumFunctionOnSet(f, U) >= 0
    <2> DEFINE Bad == {s \in SUBSET U : ~(SumFunctionOnSet(f, s) >= 0)}
    <2>1. IsFiniteSet(U)
      BY FS_Subset
    <2>2. SUFFICES ASSUME Bad # {} PROVE FALSE
      OBVIOUS
    <2>3. Bad \subseteq SUBSET U /\ {} \notin Bad
      BY SumEmpty
    <2>4. PICK s \in Bad : /\ s # {} /\ Pick(s) \in s
                           /\ IsFiniteSet(s) /\ IsFiniteSet(s \ {Pick(s)})
                           /\ s \ {Pick(s)} \in (SUBSET U) \ Bad
      <3> HIDE DEF Bad
      <3>1. QED
        BY <2>1, <2>2, <2>3, SmallestCounterexample
    <2> DEFINE c == Pick(s)
               t == s \ {c}
    <2>5. SumFunctionOnSet(f, s) = f[c] + SumFunctionOnSet(f, t)
      BY <2>4, SumPick
    <2>6. SumFunctionOnSet(f, t) >= 0 /\ SumFunctionOnSet(f, t) \in Int
      BY <2>4, SumType
    <2>7. f[c] \in Int /\ f[c] >= 0 /\ ~(SumFunctionOnSet(f, s) >= 0)
      BY <2>4
    <2> HIDE DEF c, t
    <2>8. QED
      BY <2>5, <2>6, <2>7
  <1> DEFINE R == T \ S
  <1>2. S \cup R = T /\ S \cap R = {} /\ IsFiniteSet(S) /\ IsFiniteSet(R)
    BY FS_Subset
  <1>3. SumFunctionOnSet(f, T) = SumFunctionOnSet(f, S) + SumFunctionOnSet(f, R)
    BY <1>2, SumUnion
  <1>4. /\ SumFunctionOnSet(f, S) >= 0 /\ SumFunctionOnSet(f, R) >= 0
        /\ SumFunctionOnSet(f, S) \in Int /\ SumFunctionOnSet(f, R) \in Int
    BY <1>1, <1>2, SumType
  <1> HIDE DEF R
  <1>5. QED
    BY <1>3, <1>4

\* Each x of S is in the class k[x].
InClasses(S, k, C) == {x \in S : k[x] \in C}

\* sums holds the sum of f over each class of C.
AddsUpClasses(sums, f, S, k, C) ==
  \A c \in C : sums[c] = SumFunctionOnSet(f, {x \in S : k[x] = c})

\* Adding up by classes is adding up.
LEMMA SumByClasses ==
  ASSUME NEW f, NEW S, Summable(f, S), NEW k, NEW C, IsFiniteSet(C), NEW sums,
         AddsUpClasses(sums, f, S, k, C)
  PROVE  SumFunctionOnSet(sums, C) = SumFunctionOnSet(f, InClasses(S, k, C))
  <1> DEFINE In(D) == InClasses(S, k, D)
             Bad == {D \in SUBSET C : SumFunctionOnSet(sums, D) # SumFunctionOnSet(f, In(D))}
  <1> USE DEF Summable, InClasses, AddsUpClasses
  <1>1. SUFFICES ASSUME Bad # {} PROVE FALSE
    OBVIOUS
  <1>2. Bad \subseteq SUBSET C /\ {} \notin Bad
    <2>1. In({}) = {}
      OBVIOUS
    <2> HIDE DEF In
    <2>2. QED
      BY <2>1, SumEmpty
  <1>3. PICK D \in Bad : /\ D # {} /\ Pick(D) \in D
                         /\ IsFiniteSet(D) /\ IsFiniteSet(D \ {Pick(D)})
                         /\ D \ {Pick(D)} \in (SUBSET C) \ Bad
    <2> HIDE DEF Bad
    <2>1. QED
      BY <1>1, <1>2, SmallestCounterexample
  <1> DEFINE c == Pick(D)
             E == D \ {c}
             class == {x \in S : k[x] = c}
  <1>4. SumFunctionOnSet(sums, D) = sums[c] + SumFunctionOnSet(sums, E)
    BY <1>3, SumPick
  <1>5. /\ In(D) = class \cup In(E) /\ class \cap In(E) = {}
        /\ Summable(f, class) /\ Summable(f, In(E))
    <2>1. class \subseteq S /\ In(E) \subseteq S
      OBVIOUS
    <2>2. IsFiniteSet(class) /\ IsFiniteSet(In(E))
      BY <2>1, FS_Subset
    <2>3. In(D) = class \cup In(E) /\ class \cap In(E) = {}
      BY <1>3
    <2>4. QED
      BY <2>2, <2>3
  <1>6. SumFunctionOnSet(f, In(D)) = SumFunctionOnSet(f, class) + SumFunctionOnSet(f, In(E))
    <2> HIDE DEF class, In, Summable
    <2>1. QED
      BY <1>5, SumUnion
  <1>7. SumFunctionOnSet(sums, E) = SumFunctionOnSet(f, In(E))
    BY <1>3
  <1>8. sums[c] = SumFunctionOnSet(f, class)
    BY <1>3
  <1>9. SumFunctionOnSet(sums, D) # SumFunctionOnSet(f, In(D))
    BY <1>3
  <1> HIDE DEF c, E, class, In
  <1>10. QED
    BY <1>4, <1>6, <1>7, <1>8, <1>9
=============================================================================
