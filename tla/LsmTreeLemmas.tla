--------------------------- MODULE LsmTreeLemmas ----------------------------
(***************************************************************************)
(* Lemmas about the operators of LsmTree: the order of entries and files,  *)
(* the merge of DoCompactionWork, the inputs of a compaction, the bisection *)
(* and the search of a read.                                               *)
(***************************************************************************)
EXTENDS LsmTree, FiniteSetTheorems, WellFoundedInduction, TLAPS

\* A set of naturals that is not empty has a least element.
LEMMA LeastNatural ==
    ASSUME NEW S, S \subseteq Nat, S # {}
    PROVE  \E x \in S : \A y \in S : x <= y
<1> DEFINE R == OpToRel(<, Nat)
<1>1. PICK x \in S : \A y \in S : ~(<<y, x>> \in R)
  <2>1. IsWellFoundedOn(R, Nat)
    BY NatLessThanWellFounded
  <2> QED
    BY <2>1, WFMin
<1>2. ASSUME NEW y \in S PROVE x <= y
  <2>1. x \in Nat /\ y \in Nat
    OBVIOUS
  <2>2. ~(y < x)
    BY <1>1, <2>1 DEF OpToRel
  <2> QED
    BY <2>1, <2>2
<1> QED
  BY <1>2

\* So Min of FiniteSetsExt returns the least.
LEMMA MinProp ==
    ASSUME NEW S, S \subseteq Nat, S # {}
    PROVE  Min(S) \in S /\ \A y \in S : Min(S) <= y
  BY LeastNatural DEF Min

\* The position of each element in a finite set with a strict total order, all positions taken.
Rank(S, R, x) == Cardinality({y \in S : <<y, x>> \in R})

StrictTotalOrder(S, R) ==
    /\ \A x \in S : <<x, x>> \notin R
    /\ \A x, y, z \in S : <<x, y>> \in R /\ <<y, z>> \in R => <<x, z>> \in R
    /\ \A x, y \in S : x # y => <<x, y>> \in R \/ <<y, x>> \in R

\* Who comes earlier has the smaller rank.
LEMMA RankMonotone ==
    ASSUME NEW S, IsFiniteSet(S), NEW R, StrictTotalOrder(S, R),
           NEW x \in S, NEW y \in S, <<x, y>> \in R
    PROVE  Rank(S, R, x) < Rank(S, R, y)
<1> DEFINE A == {z \in S : <<z, x>> \in R}
           B == {z \in S : <<z, y>> \in R}
<1>1. A \subseteq B /\ x \in B /\ x \notin A
  BY DEF StrictTotalOrder
<1>2. IsFiniteSet(B) /\ B \subseteq S
  BY FS_Subset
<1>3. IsFiniteSet(A) /\ Cardinality(A) <= Cardinality(B) /\ (Cardinality(B) = Cardinality(A) => B = A)
  BY <1>1, <1>2, FS_Subset
<1>4. Cardinality(A) \in Nat /\ Cardinality(B) \in Nat
  BY <1>2, <1>3, FS_CardinalityType
<1>5. Cardinality(A) # Cardinality(B)
  BY <1>1, <1>3
<1> HIDE DEF A, B
<1>6. Cardinality(A) < Cardinality(B)
  BY <1>3, <1>4, <1>5
<1> QED
  BY <1>6 DEF Rank, A, B

\* Ranks count from 0.
LEMMA RankRange ==
    ASSUME NEW S, IsFiniteSet(S), NEW R, StrictTotalOrder(S, R), NEW x \in S
    PROVE  Rank(S, R, x) \in 0 .. Cardinality(S) - 1
<1> DEFINE A == {z \in S : <<z, x>> \in R}
<1>1. A \subseteq S /\ x \notin A
  BY DEF StrictTotalOrder
<1>3. IsFiniteSet(A) /\ Cardinality(A) <= Cardinality(S) /\ (Cardinality(S) = Cardinality(A) => S = A)
  BY <1>1, FS_Subset
<1>4. Cardinality(A) \in Nat /\ Cardinality(S) \in Nat
  BY <1>3, FS_CardinalityType
<1>5. Cardinality(A) # Cardinality(S)
  BY <1>1, <1>3
<1> HIDE DEF A
<1>6. Cardinality(A) < Cardinality(S)
  BY <1>3, <1>4, <1>5
<1>7. Cardinality(A) \in 0 .. Cardinality(S) - 1
  BY <1>4, <1>6
<1> QED
  BY <1>7 DEF Rank, A

\* Every rank is taken: ranks are an injection between finite sets of one size.
LEMMA EveryRank ==
    ASSUME NEW S, IsFiniteSet(S), NEW R, StrictTotalOrder(S, R), NEW i \in 0 .. Cardinality(S) - 1
    PROVE  \E x \in S : Rank(S, R, x) = i
<1> DEFINE T == 0 .. Cardinality(S) - 1
           f == [x \in S |-> Rank(S, R, x)]
<1>0. Cardinality(S) \in Nat
  BY FS_CardinalityType
<1>1. f \in [S -> T]
  BY RankRange
<1>2. \A x, y \in S : f[x] = f[y] => x = y
  <2> SUFFICES ASSUME NEW x \in S, NEW y \in S, x # y PROVE f[x] # f[y]
    OBVIOUS
  <2>1. <<x, y>> \in R \/ <<y, x>> \in R
    BY DEF StrictTotalOrder
  <2>2. f[x] \in T /\ f[y] \in T
    BY <1>1
  <2>3. f[x] < f[y] \/ f[y] < f[x]
    BY <2>1, RankMonotone
  <2> QED
    BY <2>2, <2>3, <1>0
<1>3. f \in Injection(S, T)
  BY <1>1, <1>2 DEF Injection, IsInjective
<1>4. IsFiniteSet(T) /\ Cardinality(T) = Cardinality(S)
  <2>1. Cardinality(S) - 1 \in Int
    BY <1>0
  <2> QED
    BY <1>0, <2>1, FS_Interval
<1>5. f \in Surjection(S, T)
  BY <1>3, <1>4, FS_Injection
<1> QED
  BY <1>5 DEF Surjection

\* A loop of n turns that stays in X has a run.
IsRun(g, n, X, b, step) ==
    g \in [0 .. n -> X] /\ g[0] = b /\ \A i \in 1 .. n : g[i] = step[<<i, g[i - 1]>>]

LEMMA Iteration ==
    ASSUME NEW X, NEW b \in X, NEW n \in Nat, NEW step \in [(1 .. n) \X X -> X]
    PROVE  \E g : IsRun(g, n, X, b, step)
<1> DEFINE Runs(m, g) == g \in [0 .. m -> X] /\ g[0] = b /\ \A i \in 1 .. m : g[i] = step[<<i, g[i - 1]>>]
           Bad == {m \in 0 .. n : ~ \E g : Runs(m, g)}
<1> SUFFICES ASSUME Bad # {} PROVE FALSE
  <2>1. n \notin Bad /\ n \in 0 .. n
    OBVIOUS
  <2> QED
    BY <2>1 DEF IsRun
<1>1. PICK m \in Bad : \A k \in Bad : m <= k
  <2>1. Bad \subseteq Nat
    OBVIOUS
  <2> HIDE DEF Bad
  <2> QED
    BY <2>1, LeastNatural
<1>2. m \in 0 .. n /\ m \in Nat
  OBVIOUS
<1>3. CASE m = 0
  <2> DEFINE g == [i \in 0 .. 0 |-> b]
  <2>1. Runs(0, g)
    OBVIOUS
  <2> QED
    BY <1>3, <2>1
<1>4. CASE m # 0
  <2>1. m - 1 \in 0 .. n /\ m - 1 \notin Bad /\ m - 1 \in Nat
    <3>1. m - 1 \in 0 .. n /\ m - 1 \in Nat /\ ~(m <= m - 1)
      BY <1>2, <1>4
    <3> HIDE DEF Bad
    <3> QED
      BY <1>1, <3>1
  <2>2. PICK h : Runs(m - 1, h)
    BY <2>1
  <2> DEFINE g == [i \in 0 .. m |-> IF i = m THEN step[<<m, h[m - 1]>>] ELSE h[i]]
  <2>3. h[m - 1] \in X
    BY <2>1, <2>2
  <2>4. step[<<m, h[m - 1]>>] \in X
    BY <2>3, <1>2, <1>4
  <2>5. g \in [0 .. m -> X]
    BY <2>2, <2>4, <1>2
  <2>6. g[0] = b
    BY <2>2, <1>2, <1>4
  <2>7. ASSUME NEW i \in 1 .. m PROVE g[i] = step[<<i, g[i - 1]>>]
    <3>0. i \in 0 .. m /\ i - 1 \in 0 .. m /\ i - 1 # m
      BY <1>2
    <3>1. CASE i = m
      BY <3>1, <3>0
    <3>2. CASE i # m
      <4>1. i \in 1 .. m - 1
        BY <3>2, <1>2
      <4>2. h[i] = step[<<i, h[i - 1]>>]
        BY <4>1, <2>2
      <4> QED
        BY <4>2, <3>0, <3>2
    <3> QED
      BY <3>1, <3>2
  <2> HIDE DEF g
  <2>8. Runs(m, g)
    BY <2>5, <2>6, <2>7
  <2> QED
    BY <2>8
<1> QED
  BY <1>3, <1>4

-----------------------------------------------------------------------------
(***************************************************************************)
(* Entries, tables and their order.                                        *)
(***************************************************************************)
\* Sequence numbers tell the entries apart.
IsEntries(W) ==
    /\ W \subseteq Entry /\ IsFiniteSet(W)
    /\ \A e, d \in W : e.seq = d.seq => e = d

\* A table file: its entries, and the first and the last of them.
IsTable(f, W) ==
    /\ f \in [number : Nat, data : SUBSET W, smallest : W, largest : W]
    /\ f.smallest \in f.data /\ f.largest \in f.data
    /\ \A e \in f.data : AtOrAfter(e, f.smallest) /\ AtOrAfter(f.largest, e)

AreTables(fs, W) == \A f \in fs : IsTable(f, W)

IsTables(fs, W) ==
    /\ IsFiniteSet(fs)
    /\ \A f \in fs : IsTable(f, W)
    /\ \A f, g \in fs : f.number = g.number => f = g

\* Key and number of an entry are integers.
LEMMA EntryType ==
    ASSUME NEW e \in Entry
    PROVE  /\ e.key \in Keys /\ e.key \in Nat /\ e.key \in Int
           /\ e.seq \in 1 .. MaxSeq /\ e.seq \in Nat /\ e.seq \in Int /\ e.del \in BOOLEAN
<1>1. Keys \subseteq Nat /\ MaxSeq \in Nat
  BY LsmAssumption
<1>2. e.key \in Keys /\ e.seq \in 1 .. MaxSeq /\ e.del \in BOOLEAN
  BY DEF Entry
<1>3. e.key \in Nat /\ e.key \in Int
  <2>1. e.key \in Keys
    BY <1>2
  <2>2. \A k \in Keys : k \in Nat
    BY <1>1
  <2>3. \A k \in Nat : k \in Int
    OBVIOUS
  <2> QED
    BY <2>1, <2>2, <2>3, Zenon
<1>4. e.seq \in Nat /\ e.seq \in Int
  BY <1>1, <1>2
<1> QED
  BY <1>2, <1>3, <1>4

\* InternalKeyComparator orders the entries written: a strict total order, as sequence numbers are unique.
LEMMA BeforeOrder ==
    ASSUME NEW W, IsEntries(W)
    PROVE  /\ \A a \in W : ~Before(a, a)
           /\ \A a, b \in W : Before(a, b) => ~Before(b, a)
           /\ \A a, b, c \in W : Before(a, b) /\ Before(b, c) => Before(a, c)
           /\ \A a, b, c \in W : Before(a, b) /\ ~Before(c, b) => Before(a, c)
           /\ \A a, b, c \in W : ~Before(b, a) /\ Before(b, c) => Before(a, c)
           /\ \A a, b \in W : a # b => Before(a, b) \/ Before(b, a)
<1>1. ASSUME NEW a \in W PROVE a.key \in Int /\ a.seq \in Int
  BY EntryType DEF IsEntries
<1>2. \A a, b \in W : a.seq = b.seq => a = b
  BY DEF IsEntries
<1> QED
  BY <1>1, <1>2 DEF Before

BeforeIn(D) == {p \in D \X D : Before(p[1], p[2])}

\* The same as a relation, for the lemmas on ranks.
LEMMA BeforeIsTotal ==
    ASSUME NEW W, IsEntries(W), NEW D, D \subseteq W
    PROVE  StrictTotalOrder(D, BeforeIn(D)) /\ IsFiniteSet(D)
<1>1. IsFiniteSet(D)
  BY FS_Subset DEF IsEntries
<1>2. \A a, b \in D : <<a, b>> \in BeforeIn(D) <=> Before(a, b)
  BY DEF BeforeIn
<1>3. \A a \in D : a \in W
  OBVIOUS
<1> QED
  BY <1>1, <1>2, <1>3, BeforeOrder DEF StrictTotalOrder

\* An order of a set that is not empty has a first and a last element.
HasEnds(S, R) ==
    /\ \E x \in S : \A y \in S \ {x} : <<x, y>> \in R
    /\ \E x \in S : \A y \in S \ {x} : <<y, x>> \in R

LEMMA FirstAndLast ==
    ASSUME NEW S, IsFiniteSet(S), NEW R, StrictTotalOrder(S, R), S # {}
    PROVE  HasEnds(S, R)
<1> DEFINE n == Cardinality(S)
<1>1. n \in Nat /\ n # 0
  BY FS_CardinalityType, FS_EmptySet
<1> HIDE DEF n
<1>2. 0 \in 0 .. n - 1 /\ n - 1 \in 0 .. n - 1
  BY <1>1
<1>3. PICK x \in S : Rank(S, R, x) = 0
  BY <1>2, EveryRank DEF n
<1>4. PICK z \in S : Rank(S, R, z) = n - 1
  BY <1>2, EveryRank DEF n
<1>5. ASSUME NEW y \in S PROVE Rank(S, R, y) \in 0 .. n - 1
  BY RankRange DEF n
<1>6. ASSUME NEW y \in S \ {x} PROVE <<x, y>> \in R
  <2>1. <<y, x>> \in R => Rank(S, R, y) < 0
    BY <1>3, RankMonotone
  <2> QED
    BY <2>1, <1>1, <1>5 DEF StrictTotalOrder
<1>7. ASSUME NEW y \in S \ {z} PROVE <<y, z>> \in R
  <2>1. <<z, y>> \in R => n - 1 < Rank(S, R, y)
    BY <1>4, RankMonotone
  <2> QED
    BY <2>1, <1>1, <1>5 DEF StrictTotalOrder
<1> QED
  BY <1>6, <1>7 DEF HasEnds

\* The smallest and the largest key of a table that is not empty.
LEMMA LeastGreatest ==
    ASSUME NEW W, IsEntries(W), NEW D, D \subseteq W, D # {}
    PROVE  /\ Least(D) \in D /\ \A d \in D : AtOrAfter(d, Least(D))
           /\ Greatest(D) \in D /\ \A d \in D : AtOrAfter(Greatest(D), d)
<1>1. StrictTotalOrder(D, BeforeIn(D)) /\ IsFiniteSet(D)
  BY BeforeIsTotal
<1>2. \A a, b \in D : <<a, b>> \in BeforeIn(D) => Before(a, b)
  BY DEF BeforeIn
<1>0. HasEnds(D, BeforeIn(D))
  BY <1>1, FirstAndLast
<1>3. \E x \in D : \A d \in D : ~Before(d, x)
  <2>1. PICK x \in D : \A y \in D \ {x} : <<x, y>> \in BeforeIn(D)
    BY <1>0 DEF HasEnds
  <2>2. \A y \in D \ {x} : Before(x, y)
    BY <1>2, <2>1
  <2>3. ~Before(x, x) /\ \A y \in D \ {x} : ~Before(y, x)
    BY <2>2, BeforeOrder
  <2> QED
    BY <2>3
<1>4. \E x \in D : \A d \in D : ~Before(x, d)
  <2>1. PICK x \in D : \A y \in D \ {x} : <<y, x>> \in BeforeIn(D)
    BY <1>0 DEF HasEnds
  <2>2. \A y \in D \ {x} : Before(y, x)
    BY <1>2, <2>1
  <2>3. ~Before(x, x) /\ \A y \in D \ {x} : ~Before(x, y)
    BY <2>2, BeforeOrder
  <2> QED
    BY <2>3
<1>5. Least(D) \in D /\ \A d \in D : ~Before(d, Least(D))
  BY <1>3 DEF Least, AtOrAfter
<1>6. Greatest(D) \in D /\ \A d \in D : ~Before(Greatest(D), d)
  BY <1>4 DEF Greatest, AtOrAfter
<1> QED
  BY <1>5, <1>6 DEF AtOrAfter

\* A sequence of all elements of a finite set, in an order.
Enumerates(q, S, R) ==
    /\ Cardinality(S) \in Nat
    /\ q \in [1 .. Cardinality(S) -> S] /\ Len(q) = Cardinality(S)
    /\ \A i, j \in 1 .. Cardinality(S) : i < j => <<q[i], q[j]>> \in R
    /\ \A x \in S : \E i \in 1 .. Cardinality(S) : q[i] = x

\* Choosing the element of each rank lists the whole set in order.
LEMMA Enumeration ==
    ASSUME NEW S, IsFiniteSet(S), NEW R, StrictTotalOrder(S, R),
           NEW T, NEW q \in [1 .. Cardinality(S) -> T],
           \A i \in 1 .. Cardinality(S) :
               (\E x \in S : Rank(S, R, x) = i - 1) => q[i] \in S /\ Rank(S, R, q[i]) = i - 1
    PROVE  Enumerates(q, S, R)
<1> DEFINE n == Cardinality(S)
<1>1. n \in Nat
  BY FS_CardinalityType
<1>2. ASSUME NEW i \in 1 .. n PROVE q[i] \in S /\ Rank(S, R, q[i]) = i - 1
  <2>1. i - 1 \in 0 .. n - 1
    BY <1>1
  <2>2. \E x \in S : Rank(S, R, x) = i - 1
    BY <2>1, EveryRank
  <2> QED
    BY <2>2
<1>3. \A x, y \in S : Rank(S, R, x) = Rank(S, R, y) => x = y
  <2> SUFFICES ASSUME NEW x \in S, NEW y \in S, x # y PROVE Rank(S, R, x) # Rank(S, R, y)
    OBVIOUS
  <2>1. Rank(S, R, x) \in Int /\ Rank(S, R, y) \in Int
    BY RankRange
  <2>2. Rank(S, R, x) < Rank(S, R, y) \/ Rank(S, R, y) < Rank(S, R, x)
    BY RankMonotone DEF StrictTotalOrder
  <2> QED
    BY <2>1, <2>2
<1> HIDE DEF n
<1>4. ASSUME NEW i \in 1 .. n, NEW j \in 1 .. n, i < j PROVE <<q[i], q[j]>> \in R
  <2>1. q[i] \in S /\ q[j] \in S /\ Rank(S, R, q[i]) = i - 1 /\ Rank(S, R, q[j]) = j - 1
    BY <1>2
  <2>2. i - 1 # j - 1 /\ ~(j - 1 < i - 1)
    BY <1>1, <1>4
  <2>3. q[i] # q[j]
    BY <2>1, <2>2
  <2>4. ~(<<q[j], q[i]>> \in R)
    BY <2>1, <2>2, RankMonotone
  <2> QED
    BY <2>1, <2>3, <2>4 DEF StrictTotalOrder
<1>5. ASSUME NEW x \in S PROVE \E i \in 1 .. n : q[i] = x
  <2>1. Rank(S, R, x) \in 0 .. n - 1
    BY RankRange DEF n
  <2> DEFINE i == Rank(S, R, x) + 1
  <2>2. i \in 1 .. n /\ i - 1 = Rank(S, R, x)
    BY <2>1, <1>1
  <2> HIDE DEF i
  <2>3. q[i] \in S /\ Rank(S, R, q[i]) = Rank(S, R, x)
    BY <1>2, <2>2
  <2>4. q[i] = x
    BY <1>3, <2>3
  <2> QED
    BY <2>2, <2>4
<1>6. q \in [1 .. n -> S] /\ Len(q) = n
  <2>1. q \in [1 .. n -> T]
    BY DEF n
  <2>0. \A i \in 1 .. n : q[i] \in S
    BY <1>2
  <2>2. q \in [1 .. n -> S]
    BY <2>0, <2>1
  <2>3. Len(q) = n
    BY <2>2, <1>1
  <2> QED
    BY <2>2, <2>3
<1> QED
  BY <1>1, <1>4, <1>5, <1>6 DEF n, Enumerates

\* The merging iterator returns all entries, each once, in the order of the comparator.
LEMMA InOrderProp ==
    ASSUME NEW W, IsEntries(W), NEW D, D \subseteq W
    PROVE  /\ Cardinality(D) \in Nat
           /\ InOrder(D) \in [1 .. Cardinality(D) -> D] /\ Len(InOrder(D)) = Cardinality(D)
           /\ \A i, j \in 1 .. Cardinality(D) : i < j => Before(InOrder(D)[i], InOrder(D)[j])
           /\ \A e \in D : \E i \in 1 .. Cardinality(D) : InOrder(D)[i] = e
<1> DEFINE R == BeforeIn(D)
           q == InOrder(D)
<1>1. StrictTotalOrder(D, R) /\ IsFiniteSet(D)
  BY BeforeIsTotal
<1>2. ASSUME NEW x \in D PROVE Rank(D, R, x) = Cardinality({d \in D : Before(d, x)})
  <2>1. {y \in D : <<y, x>> \in R} = {d \in D : Before(d, x)}
    BY DEF BeforeIn
  <2> QED
    BY <2>1 DEF Rank
<1> DEFINE c(i) == CHOOSE e \in D : Cardinality({d \in D : Before(d, e)}) = i - 1
           T == {c(i) : i \in 1 .. Cardinality(D)}
<1>3. q \in [1 .. Cardinality(D) -> T]
  <2>1. q = [i \in 1 .. Cardinality(D) |-> c(i)]
    BY DEF InOrder
  <2> HIDE DEF q, c
  <2> QED
    BY <2>1
<1>7. ASSUME NEW i \in 1 .. Cardinality(D), NEW x \in D, Rank(D, R, x) = i - 1
      PROVE  q[i] \in D /\ Rank(D, R, q[i]) = i - 1
  <2>1. q[i] = CHOOSE e \in D : Cardinality({d \in D : Before(d, e)}) = i - 1
    BY DEF InOrder
  <2>2. Cardinality({d \in D : Before(d, x)}) = i - 1
    BY <1>2, <1>7
  <2>3. q[i] \in D /\ Cardinality({d \in D : Before(d, q[i])}) = i - 1
    BY <2>1, <2>2
  <2> QED
    BY <2>3, <1>2
<1>4. \A a, b \in D : <<a, b>> \in R => Before(a, b)
  BY DEF BeforeIn
<1> HIDE DEF R, q, T
<1>5. Enumerates(q, D, R)
  <2>1. \A i \in 1 .. Cardinality(D) :
            (\E x \in D : Rank(D, R, x) = i - 1) => q[i] \in D /\ Rank(D, R, q[i]) = i - 1
    BY <1>7
  <2> QED
    BY <1>1, <1>3, <2>1, Enumeration
<1>6. \A i, j \in 1 .. Cardinality(D) : i < j => Before(q[i], q[j])
  BY <1>4, <1>5 DEF Enumerates
<1> QED
  BY <1>5, <1>6 DEF q, Enumerates

-----------------------------------------------------------------------------
\* The entries of a table lie between its smallest and its largest key.
LEMMA TableProp ==
    ASSUME NEW W, IsEntries(W), NEW f, IsTable(f, W)
    PROVE  /\ f.number \in Nat /\ f.data \subseteq W /\ f.data # {}
           /\ f.smallest \in f.data /\ f.largest \in f.data
           /\ f.smallest \in W /\ f.largest \in W
           /\ f.smallest.key \in Int /\ f.largest.key \in Int
           /\ f.smallest.key <= f.largest.key
           /\ ~Before(f.largest, f.smallest)
           /\ \A e \in f.data : /\ e \in W /\ ~Before(e, f.smallest) /\ ~Before(f.largest, e)
                                /\ e.key \in Int /\ e.seq \in Int
                                /\ f.smallest.key <= e.key /\ e.key <= f.largest.key
<1>1. /\ f.number \in Nat /\ f.data \subseteq W /\ f.smallest \in f.data /\ f.largest \in f.data
      /\ \A e \in f.data : ~Before(e, f.smallest) /\ ~Before(f.largest, e)
  BY DEF IsTable, AtOrAfter
<1>2. ASSUME NEW e \in f.data PROVE e \in W /\ e.key \in Int /\ e.seq \in Int
  BY <1>1, EntryType DEF IsEntries
<1>3. ASSUME NEW e \in f.data PROVE f.smallest.key <= e.key /\ e.key <= f.largest.key
  BY <1>1, <1>2 DEF Before
<1> QED
  BY <1>1, <1>2, <1>3

\* What FinishCompactionOutputFile and BuildTable record is a table.
LEMMA TableOf ==
    ASSUME NEW W, IsEntries(W), NEW n \in Nat, NEW D, D \subseteq W, D # {}
    PROVE  /\ IsTable(FileMetaData(n, D), W)
           /\ FileMetaData(n, D).number = n /\ FileMetaData(n, D).data = D
  BY LeastGreatest DEF FileMetaData, IsTable

\* Tables stay tables when more is written,
LEMMA TableGrows ==
    ASSUME NEW W, NEW f, IsTable(f, W), NEW V, W \subseteq V
    PROVE  IsTable(f, V)
  BY DEF IsTable

\* and so do some of them.
LEMMA TablesSubset ==
    ASSUME NEW W, NEW fs, IsTables(fs, W), NEW gs, gs \subseteq fs
    PROVE  IsTables(gs, W)
  BY FS_Subset DEF IsTables

FileOrder(fs) == {p \in fs \X fs : BySmallestKey(p[1], p[2])}

\* BySmallestKey orders the files of a level: file numbers tell them apart.
LEMMA FileOrderIsTotal ==
    ASSUME NEW W, IsEntries(W), NEW fs, IsTables(fs, W)
    PROVE  /\ StrictTotalOrder(fs, FileOrder(fs)) /\ IsFiniteSet(fs)
           /\ \A f, g \in fs : <<f, g>> \in FileOrder(fs) <=> BySmallestKey(f, g)
<1>1. \A f, g \in fs : <<f, g>> \in FileOrder(fs) <=> BySmallestKey(f, g)
  BY DEF FileOrder
<1>2. \A f \in fs : f.smallest \in W /\ f.number \in Int
  BY TableProp DEF IsTables
<1>3. \A f, g \in fs : f # g => f.number # g.number
  BY DEF IsTables
<1>4. \A f \in fs : ~BySmallestKey(f, f)
  BY <1>2, BeforeOrder DEF BySmallestKey
<1>5. ASSUME NEW f \in fs, NEW g \in fs, NEW h \in fs, BySmallestKey(f, g), BySmallestKey(g, h)
      PROVE  BySmallestKey(f, h)
  <2>1. CASE f.smallest = g.smallest
    BY <2>1, <1>5, <1>2, BeforeOrder DEF BySmallestKey
  <2>2. CASE Before(f.smallest, g.smallest)
    BY <2>2, <1>5, <1>2, BeforeOrder DEF BySmallestKey
  <2> QED
    BY <2>1, <2>2, <1>5 DEF BySmallestKey
<1>6. ASSUME NEW f \in fs, NEW g \in fs, f # g PROVE BySmallestKey(f, g) \/ BySmallestKey(g, f)
  BY <1>2, <1>3, <1>6, BeforeOrder DEF BySmallestKey
<1> QED
  BY <1>1, <1>4, <1>5, <1>6 DEF StrictTotalOrder, IsTables

\* SaveTo lists every file of a level once, ordered by BySmallestKey.
LEMMA SortedProp ==
    ASSUME NEW W, IsEntries(W), NEW fs, IsTables(fs, W)
    PROVE  /\ Cardinality(fs) \in Nat
           /\ Sorted(fs) \in [1 .. Cardinality(fs) -> fs] /\ Len(Sorted(fs)) = Cardinality(fs)
           /\ \A i, j \in 1 .. Cardinality(fs) : i < j => BySmallestKey(Sorted(fs)[i], Sorted(fs)[j])
           /\ \A f \in fs : \E i \in 1 .. Cardinality(fs) : Sorted(fs)[i] = f
<1> DEFINE R == FileOrder(fs)
           q == Sorted(fs)
<1>1. StrictTotalOrder(fs, R) /\ IsFiniteSet(fs)
  BY FileOrderIsTotal
<1>2. ASSUME NEW x \in fs PROVE Rank(fs, R, x) = Cardinality({g \in fs : BySmallestKey(g, x)})
  <2>1. {y \in fs : <<y, x>> \in R} = {g \in fs : BySmallestKey(g, x)}
    BY DEF FileOrder
  <2> QED
    BY <2>1 DEF Rank
<1> DEFINE c(i) == CHOOSE f \in fs : Cardinality({g \in fs : BySmallestKey(g, f)}) = i - 1
           T == {c(i) : i \in 1 .. Cardinality(fs)}
<1>3. q \in [1 .. Cardinality(fs) -> T]
  <2>1. q = [i \in 1 .. Cardinality(fs) |-> c(i)]
    BY DEF Sorted
  <2> HIDE DEF q, c
  <2> QED
    BY <2>1
<1>7. ASSUME NEW i \in 1 .. Cardinality(fs), NEW x \in fs, Rank(fs, R, x) = i - 1
      PROVE  q[i] \in fs /\ Rank(fs, R, q[i]) = i - 1
  <2>1. q[i] = CHOOSE f \in fs : Cardinality({g \in fs : BySmallestKey(g, f)}) = i - 1
    BY DEF Sorted
  <2>2. Cardinality({g \in fs : BySmallestKey(g, x)}) = i - 1
    BY <1>2, <1>7
  <2>3. q[i] \in fs /\ Cardinality({g \in fs : BySmallestKey(g, q[i])}) = i - 1
    BY <2>1, <2>2
  <2> QED
    BY <2>3, <1>2
<1>4. \A f, g \in fs : <<f, g>> \in R => BySmallestKey(f, g)
  BY FileOrderIsTotal
<1> HIDE DEF R, q, T
<1>5. Enumerates(q, fs, R)
  <2>1. \A i \in 1 .. Cardinality(fs) :
            (\E x \in fs : Rank(fs, R, x) = i - 1) => q[i] \in fs /\ Rank(fs, R, q[i]) = i - 1
    BY <1>7
  <2> QED
    BY <1>1, <1>3, <2>1, Enumeration
<1>6. \A i, j \in 1 .. Cardinality(fs) : i < j => BySmallestKey(q[i], q[j])
  BY <1>4, <1>5 DEF Enumerates
<1> QED
  BY <1>5, <1>6 DEF q, Enumerates

\* A level that is not empty has a first and a last file.
LEMMA FirstLastFile ==
    ASSUME NEW W, IsEntries(W), NEW fs, IsTables(fs, W), fs # {}
    PROVE  FirstFile(fs) \in fs /\ LastFile(fs) \in fs
<1>1. /\ StrictTotalOrder(fs, FileOrder(fs)) /\ IsFiniteSet(fs)
      /\ \A f, g \in fs : <<f, g>> \in FileOrder(fs) <=> BySmallestKey(f, g)
  BY FileOrderIsTotal
<1>2. HasEnds(fs, FileOrder(fs))
  BY <1>1, FirstAndLast
<1>3. /\ \E x \in fs : \A y \in fs \ {x} : BySmallestKey(x, y)
      /\ \E x \in fs : \A y \in fs \ {x} : BySmallestKey(y, x)
  BY <1>1, <1>2 DEF HasEnds
<1> QED
  BY <1>3 DEF FirstFile, LastFile

-----------------------------------------------------------------------------
(***************************************************************************)
(* The range of some tables, and their size.                               *)
(***************************************************************************)
\* A finite set of naturals that is not empty has a greatest element.
LEMMA MaxProp ==
    ASSUME NEW S, S \subseteq Nat, IsFiniteSet(S), S # {}
    PROVE  Max(S) \in S /\ \A y \in S : y <= Max(S)
<1> DEFINE R == {p \in S \X S : p[1] < p[2]}
<1>1. \A x, y \in S : <<x, y>> \in R <=> x < y
  OBVIOUS
<1>2. \A x \in S : x \in Nat
  OBVIOUS
<1> HIDE DEF R
<1>3. StrictTotalOrder(S, R)
  BY <1>1, <1>2 DEF StrictTotalOrder
<1>0. HasEnds(S, R)
  BY <1>3, FirstAndLast
<1>4. PICK x \in S : \A y \in S \ {x} : <<y, x>> \in R
  BY <1>0 DEF HasEnds
<1>5. ASSUME NEW y \in S PROVE x >= y
  <2>1. x \in Nat /\ y \in Nat
    BY <1>2
  <2>2. y = x \/ y < x
    BY <1>1, <1>4
  <2> QED
    BY <2>1, <2>2
<1>6. Max(S) \in S /\ \A y \in S : Max(S) >= y
  BY <1>5 DEF Max
<1> QED
  BY <1>6, <1>2

\* Sets of user keys have a least and a greatest one.
LEMMA KeysProp ==
    ASSUME NEW S, S \subseteq Keys, S # {}
    PROVE  /\ Min(S) \in S /\ \A y \in S : Min(S) <= y
           /\ Max(S) \in S /\ \A y \in S : y <= Max(S)
<1>1. Keys \subseteq Nat /\ IsFiniteSet(Keys)
  BY LsmAssumption
<1>2. S \subseteq Nat /\ IsFiniteSet(S)
  BY <1>1, FS_Subset
<1> QED
  BY <1>2, MinProp, MaxProp

\* User keys are integers.
LEMMA KeyIsInt ==
    ASSUME NEW k \in Keys
    PROVE  k \in Int /\ k \in Nat
<1>1. \A x \in Keys : x \in Nat
  BY LsmAssumption
<1>2. \A x \in Nat : x \in Int
  OBVIOUS
<1> QED
  BY <1>1, <1>2, Zenon

\* A table ends at user keys.
LEMMA TableKeys ==
    ASSUME NEW W, IsEntries(W), NEW f, IsTable(f, W)
    PROVE  f.smallest.key \in Keys /\ f.largest.key \in Keys
  BY TableProp, EntryType DEF IsEntries

\* Files with numbers that differ are tables.
LEMMA TablesAre ==
    ASSUME NEW W, NEW fs, IsTables(fs, W)
    PROVE  AreTables(fs, W)
  BY DEF IsTables, AreTables

\* GetRange: the range of some files contains theirs and ends where one of them does.
LEMMA RangeProp ==
    ASSUME NEW W, IsEntries(W), NEW fs, AreTables(fs, W), fs # {}
    PROVE  /\ LowOf(fs) \in Keys /\ HighOf(fs) \in Keys
           /\ \E f \in fs : f.smallest.key = LowOf(fs)
           /\ \E f \in fs : f.largest.key = HighOf(fs)
           /\ \A f \in fs : LowOf(fs) <= f.smallest.key /\ f.largest.key <= HighOf(fs)
<1> DEFINE A == {f.smallest.key : f \in fs}
           B == {f.largest.key : f \in fs}
<1>1. A \subseteq Keys /\ B \subseteq Keys /\ A # {} /\ B # {}
  BY TableKeys DEF AreTables
<1>2. \A f \in fs : f.smallest.key \in A /\ f.largest.key \in B
  OBVIOUS
<1>3. (\A k \in A : \E f \in fs : f.smallest.key = k) /\ (\A k \in B : \E f \in fs : f.largest.key = k)
  OBVIOUS
<1> HIDE DEF A, B
<1>4. /\ Min(A) \in A /\ \A y \in A : Min(A) <= y
      /\ Max(B) \in B /\ \A y \in B : y <= Max(B)
  BY <1>1, KeysProp
<1>5. LowOf(fs) = Min(A) /\ HighOf(fs) = Max(B)
  BY DEF LowOf, HighOf, A, B
<1> QED
  BY <1>1, <1>2, <1>3, <1>4, <1>5

\* FindLargestKey returns the largest key of one of the files, and no file ends behind it.
LEMMA LargestOfProp ==
    ASSUME NEW W, IsEntries(W), NEW fs, AreTables(fs, W), fs # {}
    PROVE  /\ LargestOf(fs) \in W
           /\ \E f \in fs : f.largest = LargestOf(fs)
           /\ \A f \in fs : ~Before(LargestOf(fs), f.largest)
<1> DEFINE A == {f.largest : f \in fs}
<1>1. A \subseteq W /\ A # {}
  BY TableProp DEF AreTables
<1>2. \A f \in fs : f.largest \in A
  OBVIOUS
<1>3. \A k \in A : \E f \in fs : f.largest = k
  OBVIOUS
<1> HIDE DEF A
<1>4. Greatest(A) \in A /\ \A d \in A : ~Before(Greatest(A), d)
  BY <1>1, LeastGreatest DEF AtOrAfter
<1>5. LargestOf(fs) = Greatest(A)
  BY DEF LargestOf, A
<1> QED
  BY <1>1, <1>2, <1>3, <1>4, <1>5

\* Sizes are natural numbers.
LEMMA SizeProp ==
    ASSUME NEW W, IsEntries(W), NEW fs, IsTables(fs, W)
    PROVE  TotalFileSize(fs) \in Nat /\ (fs = {} => TotalFileSize(fs) = 0)
<1> DEFINE P == UNION {{f} \X f.data : f \in fs}
<1>1. P \subseteq fs \X W
  BY TableProp DEF IsTables
<1>2. IsFiniteSet(fs \X W)
  BY FS_Product DEF IsTables, IsEntries
<1>3. IsFiniteSet(P)
  BY <1>1, <1>2, FS_Subset
<1>4. Cardinality(P) \in Nat
  BY <1>3, FS_CardinalityType
<1>5. fs = {} => P = {}
  OBVIOUS
<1>6. fs = {} => Cardinality(P) = 0
  BY <1>5, FS_EmptySet
<1> QED
  BY <1>4, <1>6 DEF TotalFileSize
-----------------------------------------------------------------------------
(***************************************************************************)
(* What the loop of DoCompactionWork writes.                               *)
(***************************************************************************)
AllBefore(A, B) == \A a \in A, b \in B : Before(a, b)

\* The files written so far and the one being written.
Writing(data, W) ==
    [closed : Seq((SUBSET data) \ {{}}), current : SUBSET data, last : W \cup {Nil}, overlapped : Nat]

Contents(out) == (UNION ToSet(out.closed)) \cup out.current

InSequence(out) ==
    /\ \A i, j \in 1 .. Len(out.closed) : i < j => AllBefore(out.closed[i], out.closed[j])
    /\ \A i \in 1 .. Len(out.closed) : AllBefore(out.closed[i], out.current)

\* The elements of a sequence.
LEMMA ToSetProp ==
    ASSUME NEW T, NEW s \in Seq(T)
    PROVE  ToSet(s) = {s[i] : i \in 1 .. Len(s)}
  BY DEF ToSet

\* FinishCompactionOutputFile closes the current output; no entry is lost and the order stays.
LEMMA CloseProp ==
    ASSUME NEW W, NEW data, NEW out \in Writing(data, W)
    PROVE  /\ Close(out) \in Writing(data, W)
           /\ Contents(Close(out)) = Contents(out)
           /\ InSequence(out) => InSequence(Close(out))
           /\ Close(out).current = {} /\ Close(out).last = out.last
<1> DEFINE T == (SUBSET data) \ {{}}
<1>1. CASE out.current = {}
  BY <1>1 DEF Close
<1>2. CASE out.current # {}
  <2> DEFINE s == out.closed
             e == out.current
  <2>1. s \in Seq(T) /\ e \in T
    BY <1>2 DEF Writing
  <2>2. Append(s, e) \in Seq(T) /\ Len(Append(s, e)) = Len(s) + 1 /\ Len(s) \in Nat
        /\ (\A i \in 1 .. Len(s) : Append(s, e)[i] = s[i]) /\ Append(s, e)[Len(s) + 1] = e
    BY <2>1
  <2>3. Close(out) = [out EXCEPT !.closed = Append(s, e), !.current = {}]
    BY <1>2 DEF Close
  <2>4. Close(out) \in Writing(data, W)
    BY <2>2, <2>3 DEF Writing
  <2>5. Close(out).closed = Append(s, e) /\ Close(out).current = {} /\ Close(out).last = out.last
    BY <2>3 DEF Writing
  <2> HIDE DEF T
  <2>6. UNION ToSet(Append(s, e)) = (UNION ToSet(s)) \cup e
    <3>1. ToSet(s) = {s[i] : i \in 1 .. Len(s)}
      BY <2>1, ToSetProp
    <3>2. ToSet(Append(s, e)) = {Append(s, e)[i] : i \in 1 .. Len(s) + 1}
      BY <2>2, ToSetProp
    <3>3. ToSet(Append(s, e)) = ToSet(s) \cup {e}
      <4>1. \A i \in 1 .. Len(s) : i \in 1 .. Len(s) + 1
        BY <2>2
      <4>2. Len(s) + 1 \in 1 .. Len(s) + 1
        BY <2>2
      <4>3. \A i \in 1 .. Len(s) + 1 : i \in 1 .. Len(s) \/ i = Len(s) + 1
        BY <2>2
      <4> HIDE DEF s, e
      <4> QED
        BY <2>2, <3>1, <3>2, <4>1, <4>2, <4>3
    <3> QED
      BY <3>3
  <2>7. ASSUME InSequence(out) PROVE InSequence(Close(out))
    <3>1. /\ \A i, j \in 1 .. Len(s) : i < j => AllBefore(s[i], s[j])
          /\ \A i \in 1 .. Len(s) : AllBefore(s[i], e)
      BY <2>7 DEF InSequence
    <3> HIDE DEF s, e
    <3>2. ASSUME NEW i \in 1 .. Len(s) + 1, NEW j \in 1 .. Len(s) + 1, i < j
          PROVE  AllBefore(Append(s, e)[i], Append(s, e)[j])
      <4>1. i \in 1 .. Len(s) /\ (j \in 1 .. Len(s) \/ j = Len(s) + 1)
        BY <2>2, <3>2
      <4> QED
        BY <2>2, <3>1, <3>2, <4>1
    <3>3. \A i \in 1 .. Len(s) + 1 : AllBefore(Append(s, e)[i], {})
      BY DEF AllBefore
    <3> QED
      BY <2>2, <2>5, <3>2, <3>3 DEF InSequence
  <2>8. Contents(Close(out)) = Contents(out)
    BY <2>5, <2>6 DEF Contents
  <2> QED
    BY <2>4, <2>5, <2>7, <2>8
<1> QED
  BY <1>1, <1>2

\* The overlap with grandparents is a natural number.
LEMMA PassedType ==
    ASSUME NEW W, IsEntries(W), NEW c, IsTables(c.grandparents, W), NEW from, NEW to
    PROVE  Passed(c, from, to) \in Nat
<1> DEFINE gs == {g \in c.grandparents : Before(g.largest, to) /\ ~Before(g.largest, from)}
<1>1. IsTables(gs, W)
  BY TablesSubset
<1>2. TotalFileSize(gs) \in Nat
  BY <1>1, SizeProp
<1> QED
  BY <1>2 DEF Passed

\* One turn of the loop: the entry, which comes after all that were written, is added or dropped.
LEMMA AddEntryProp ==
    ASSUME NEW W, IsEntries(W), NEW data, data \subseteq W, NEW c, IsTables(c.grandparents, W),
           NEW out \in Writing(data, W), NEW e \in data
    PROVE  /\ AddEntry(c, data, out, e) \in Writing(data, W)
           /\ Contents(AddEntry(c, data, out, e)) =
                  IF Drop(c, data, e) THEN Contents(out) ELSE Contents(out) \cup {e}
           /\ InSequence(out) /\ AllBefore(Contents(out), {e}) => InSequence(AddEntry(c, data, out, e))
<1> DEFINE out1 == [out EXCEPT !.overlapped = @ + Passed(c, out.last, e)]
           out2 == IF out1.overlapped > GrandParentLimit THEN [Close(out1) EXCEPT !.overlapped = 0] ELSE out1
           out3 == [out2 EXCEPT !.last = e]
           out4 == [out3 EXCEPT !.current = @ \cup {e}]
           out5 == CloseFull(out4)
<1>1. AddEntry(c, data, out, e) = IF Drop(c, data, e) THEN out3 ELSE out5
  BY DEF AddEntry, ShouldStopBefore, Keep
<1>2. /\ out1 \in Writing(data, W) /\ Contents(out1) = Contents(out)
      /\ InSequence(out) => InSequence(out1)
  <2>1. out.overlapped + Passed(c, out.last, e) \in Nat
    BY PassedType DEF Writing
  <2>2. out1 \in Writing(data, W) /\ out1.closed = out.closed /\ out1.current = out.current
    BY <2>1 DEF Writing
  <2> QED
    BY <2>2 DEF Contents, InSequence
<1> HIDE DEF out1
<1>3. /\ out2 \in Writing(data, W) /\ Contents(out2) = Contents(out)
      /\ InSequence(out) => InSequence(out2)
  <2> DEFINE o == Close(out1)
             p == [o EXCEPT !.overlapped = 0]
  <2>1. o \in Writing(data, W) /\ Contents(o) = Contents(out1) /\ (InSequence(out1) => InSequence(o))
    BY <1>2, CloseProp
  <2> HIDE DEF o
  <2>2. p \in Writing(data, W) /\ p.closed = o.closed /\ p.current = o.current
    BY <2>1 DEF Writing
  <2>3. Contents(p) = Contents(o) /\ (InSequence(o) => InSequence(p))
    BY <2>2 DEF Contents, InSequence
  <2>4. out2 = p \/ out2 = out1
    BY DEF o
  <2> HIDE DEF p, out2
  <2> QED
    BY <1>2, <2>1, <2>2, <2>3, <2>4
<1> HIDE DEF out2
<1>4. /\ out3 \in Writing(data, W) /\ Contents(out3) = Contents(out)
      /\ InSequence(out) => InSequence(out3)
  <2>1. out3 \in Writing(data, W) /\ out3.closed = out2.closed /\ out3.current = out2.current
    BY <1>3 DEF Writing
  <2> QED
    BY <2>1, <1>3 DEF Contents, InSequence
<1> HIDE DEF out3
<1>5. /\ out4 \in Writing(data, W) /\ Contents(out4) = Contents(out) \cup {e}
      /\ InSequence(out) /\ AllBefore(Contents(out), {e}) => InSequence(out4)
  <2>1. out4 \in Writing(data, W) /\ out4.closed = out3.closed /\ out4.current = out3.current \cup {e}
    BY <1>4 DEF Writing
  <2>2. Contents(out4) = Contents(out) \cup {e}
    BY <2>1, <1>4 DEF Contents
  <2>3. ASSUME InSequence(out), AllBefore(Contents(out), {e}) PROVE InSequence(out4)
    <3>1. InSequence(out3)
      BY <1>4, <2>3
    <3>2. ASSUME NEW i \in 1 .. Len(out3.closed) PROVE AllBefore(out3.closed[i], {e})
      <4>1. out3.closed \in Seq((SUBSET data) \ {{}})
        BY <1>4 DEF Writing
      <4>2. out3.closed[i] \in ToSet(out3.closed)
        BY <4>1, ToSetProp
      <4>3. out3.closed[i] \subseteq Contents(out)
        BY <1>4, <4>2 DEF Contents
      <4> QED
        BY <2>3, <4>3 DEF AllBefore
    <3> QED
      BY <2>1, <3>1, <3>2 DEF InSequence, AllBefore
  <2> QED
    BY <2>1, <2>2, <2>3
<1> HIDE DEF out4
<1>6. /\ out5 \in Writing(data, W) /\ Contents(out5) = Contents(out) \cup {e}
      /\ InSequence(out) /\ AllBefore(Contents(out), {e}) => InSequence(out5)
  BY <1>5, CloseProp DEF CloseFull
<1> HIDE DEF out5
<1> QED
  BY <1>1, <1>4, <1>6

\* All entries that are not dropped are written, in order.
IsMerge(outputs, c, data) ==
    /\ outputs \in Seq((SUBSET data) \ {{}})
    /\ UNION ToSet(outputs) = {e \in data : ~Drop(c, data, e)}
    /\ \A i, j \in 1 .. Len(outputs) : i < j => AllBefore(outputs[i], outputs[j])

\* DoCompactionWork writes every entry it does not drop, once and in order, and no empty output.
LEMMA MergeProp ==
    ASSUME NEW W, IsEntries(W), NEW data, data \subseteq W, NEW c, IsTables(c.grandparents, W)
    PROVE  IsMerge(Merge(c, data), c, data)
<1> DEFINE n == Cardinality(data)
           q == InOrder(data)
           X == Writing(data, W)
           b == [closed |-> << >>, current |-> {}, last |-> Nil, overlapped |-> 0]
           Loop(g) == [i \in 0 .. n |-> IF i = 0 THEN b ELSE AddEntry(c, data, g[i - 1], q[i])]
           turn == CHOOSE g : g = Loop(g)
           step == [p \in (1 .. n) \X X |-> AddEntry(c, data, p[2], q[p[1]])]
           Kept(i) == {d \in data : ~Drop(c, data, d) /\ \E j \in 1 .. i : q[j] = d}
<1>1. Merge(c, data) = Close(turn[n]).closed
  BY DEF Merge
<1>2. /\ n \in Nat /\ q \in [1 .. n -> data]
      /\ \A i, j \in 1 .. n : i < j => Before(q[i], q[j])
      /\ \A e \in data : \E i \in 1 .. n : q[i] = e
  BY InOrderProp
<1>3. b \in X
  BY DEF Writing
<1> HIDE DEF n, q, X, b
<1>4. step \in [(1 .. n) \X X -> X]
  <2>1. ASSUME NEW i \in 1 .. n, NEW out \in X PROVE AddEntry(c, data, out, q[i]) \in X
    <3>1. q[i] \in data
      BY <1>2
    <3> QED
      BY <3>1, AddEntryProp DEF X
  <2> QED
    BY <2>1
<1>0. PICK h : IsRun(h, n, X, b, step)
  <2> HIDE DEF step
  <2> QED
    BY <1>2, <1>3, <1>4, Iteration
<1>5. h \in [0 .. n -> X] /\ h[0] = b /\ \A i \in 1 .. n : h[i] = step[<<i, h[i - 1]>>]
  <2> HIDE DEF step
  <2> QED
    BY <1>0 DEF IsRun
<1>6. h = Loop(h)
  <2>1. ASSUME NEW i \in 0 .. n PROVE h[i] = Loop(h)[i]
    <3>1. CASE i = 0
      BY <3>1, <1>5
    <3>2. CASE i # 0
      <4>1. i \in 1 .. n /\ i - 1 \in 0 .. n
        BY <3>2, <1>2
      <4>2. h[i - 1] \in X
        BY <4>1, <1>5
      <4>3. h[i] = AddEntry(c, data, h[i - 1], q[i])
        BY <1>5, <4>1, <4>2
      <4> QED
        BY <3>2, <4>3
    <3> QED
      BY <3>1, <3>2
  <2>2. h \in [0 .. n -> X]
    BY <1>5
  <2> HIDE DEF step
  <2> QED
    BY <2>1, <2>2
<1>7. turn = Loop(turn)
  <2> HIDE DEF Loop
  <2> QED
    BY <1>6
<1> HIDE DEF turn, step
<1>8. turn[0] = b /\ \A i \in 1 .. n : turn[i] = AddEntry(c, data, turn[i - 1], q[i])
  <2>1. 0 \in 0 .. n /\ \A i \in 1 .. n : i \in 0 .. n /\ i # 0
    BY <1>2
  <2> QED
    BY <1>7, <2>1
<1> HIDE DEF Loop
<1> DEFINE Good(i) == turn[i] \in X /\ Contents(turn[i]) = Kept(i) /\ InSequence(turn[i])
           Bad == {i \in 0 .. n : ~Good(i)}
<1>9. Bad = {}
  <2> SUFFICES ASSUME Bad # {} PROVE FALSE
    OBVIOUS
  <2>1. PICK i \in Bad : \A k \in Bad : i <= k
    <3>1. Bad \subseteq Nat
      OBVIOUS
    <3> HIDE DEF Bad
    <3> QED
      BY <3>1, LeastNatural
  <2>2. i \in 0 .. n /\ ~Good(i)
    OBVIOUS
  <2>3. CASE i = 0
    <3>1. Kept(0) = {}
      OBVIOUS
    <3>2. b.closed = << >> /\ b.current = {}
      BY DEF b
    <3>3. Contents(b) = {} /\ InSequence(b)
      BY <3>2 DEF Contents, InSequence, ToSet
    <3> QED
      BY <2>2, <2>3, <3>1, <3>3, <1>3, <1>8
  <2>4. CASE i # 0
    <3>1. i \in 1 .. n /\ i - 1 \in 0 .. n /\ ~(i <= i - 1) /\ i \in Nat
      BY <2>2, <2>4, <1>2
    <3>2. Good(i - 1)
      <4>1. i - 1 \notin Bad
        <5> HIDE DEF Bad
        <5> QED
          BY <2>1, <3>1
      <4> QED
        BY <3>1, <4>1
    <3>3. q[i] \in data /\ turn[i] = AddEntry(c, data, turn[i - 1], q[i])
      BY <3>1, <1>2, <1>8
    <3> DEFINE e == q[i]
               out == turn[i - 1]
    <3>4. AllBefore(Contents(out), {e})
      <4>1. ASSUME NEW d \in Kept(i - 1) PROVE Before(d, e)
        <5>1. PICK j \in 1 .. i - 1 : q[j] = d
          OBVIOUS
        <5>2. j \in 1 .. n /\ j < i
          BY <3>1, <5>1, <1>2
        <5> QED
          BY <5>1, <5>2, <3>1, <1>2
      <4> HIDE DEF Kept
      <4> QED
        BY <3>2, <4>1 DEF AllBefore
    <3>5. Kept(i) = IF Drop(c, data, e) THEN Kept(i - 1) ELSE Kept(i - 1) \cup {e}
      <4>1. \A j : j \in 1 .. i <=> (j \in 1 .. i - 1 \/ j = i)
        BY <3>1
      <4> QED
        BY <3>3, <4>1
    <3> HIDE DEF Kept, e, out
    <3>6. /\ turn[i] \in X
          /\ Contents(turn[i]) = IF Drop(c, data, e) THEN Contents(out) ELSE Contents(out) \cup {e}
          /\ InSequence(out) /\ AllBefore(Contents(out), {e}) => InSequence(turn[i])
      <4>1. out \in Writing(data, W) /\ e \in data /\ turn[i] = AddEntry(c, data, out, e)
        BY <3>2, <3>3 DEF X, e, out
      <4> QED
        BY <4>1, AddEntryProp DEF X
    <3>7. Good(i)
      BY <3>2, <3>4, <3>5, <3>6 DEF out
    <3> QED
      BY <3>7, <2>2
  <2> QED
    BY <2>3, <2>4
<1>10. Good(n)
  <2>1. n \in 0 .. n
    BY <1>2
  <2> QED
    BY <1>9, <2>1
<1>11. Kept(n) = {e \in data : ~Drop(c, data, e)}
  BY <1>2
<1> DEFINE o == Close(turn[n])
<1>12. o \in Writing(data, W) /\ Contents(o) = Kept(n) /\ InSequence(o) /\ o.current = {}
  <2> HIDE DEF Kept
  <2> QED
    BY <1>10, CloseProp DEF X
<1> HIDE DEF o, Kept
<1>13. /\ o.closed \in Seq((SUBSET data) \ {{}})
       /\ UNION ToSet(o.closed) = Kept(n)
       /\ \A i, j \in 1 .. Len(o.closed) : i < j => AllBefore(o.closed[i], o.closed[j])
  BY <1>12 DEF Writing, Contents, InSequence
<1> QED
  BY <1>1, <1>11, <1>13 DEF IsMerge, o
-----------------------------------------------------------------------------
(***************************************************************************)
(* The inputs of a compaction.                                             *)
(***************************************************************************)
\* The files of a level that do not overlap, each before or behind the others.
Disjoint(fs) ==
    \A f, g \in fs : f # g => Before(f.largest, g.smallest) \/ Before(g.largest, f.smallest)

\* Files without a gap in a level.
Convex(P, fs) ==
    \A f, h \in P, g \in fs : Before(f.largest, g.smallest) /\ Before(g.largest, h.smallest) => g \in P

\* What the other files of the level have of a key is newer.
Separate(P, fs) == \A f \in P, g \in fs \ P : Older(f.data, g.data)

\* Every key from the first to the last is in the range of one of the files.
Covered(P, x) == \E h \in P : h.smallest.key <= x /\ x <= h.largest.key
Solid(P) ==
    \A f, g \in P, x \in Keys : f.smallest.key <= x /\ x <= g.largest.key => Covered(P, x)

BoundaryClosed(fs, P, got) ==
    /\ P \subseteq got
    /\ FindSmallestBoundaryFile(fs, LargestOf(P)) \subseteq got
    /\ \A f \in got \ P : FindSmallestBoundaryFile(fs, f.largest) \subseteq got

\* AddBoundaryInputs: the least closed set, which is closed itself.
LEMMA BoundaryLeast ==
    ASSUME NEW fs, NEW P, P \subseteq fs
    PROVE  /\ P \subseteq AddBoundaryInputs(fs, P)
           /\ AddBoundaryInputs(fs, P) \subseteq fs
           /\ BoundaryClosed(fs, P, AddBoundaryInputs(fs, P))
           /\ \A got \in SUBSET fs : BoundaryClosed(fs, P, got) => AddBoundaryInputs(fs, P) \subseteq got
<1> DEFINE R == {f \in fs : \A got \in SUBSET fs : BoundaryClosed(fs, P, got) => f \in got}
<1>1. AddBoundaryInputs(fs, P) = R
  BY DEF AddBoundaryInputs, BoundaryClosed
<1>2. P \subseteq R
  BY DEF BoundaryClosed
<1>3. \A got \in SUBSET fs : BoundaryClosed(fs, P, got) => R \subseteq got
  OBVIOUS
<1>4. ASSUME NEW k PROVE FindSmallestBoundaryFile(fs, k) \subseteq fs
  BY DEF FindSmallestBoundaryFile
<1>5. FindSmallestBoundaryFile(fs, LargestOf(P)) \subseteq R
  BY <1>4 DEF BoundaryClosed
<1>6. ASSUME NEW f \in R \ P PROVE FindSmallestBoundaryFile(fs, f.largest) \subseteq R
  <2>1. ASSUME NEW got \in SUBSET fs, BoundaryClosed(fs, P, got)
        PROVE  FindSmallestBoundaryFile(fs, f.largest) \subseteq got
    BY <2>1 DEF BoundaryClosed
  <2> QED
    BY <1>4, <2>1
<1>7. BoundaryClosed(fs, P, R)
  BY <1>2, <1>5, <1>6 DEF BoundaryClosed
<1>8. R \subseteq fs
  OBVIOUS
<1> HIDE DEF R
<1> QED
  BY <1>1, <1>2, <1>3, <1>7, <1>8

\* FindSmallestBoundaryFile: a file that goes on with the user key, and none of them starts earlier.
LEMMA BoundaryProp ==
    ASSUME NEW fs, NEW k, NEW n \in FindSmallestBoundaryFile(fs, k)
    PROVE  /\ n \in fs /\ Before(k, n.smallest) /\ n.smallest.key = k.key
           /\ \A g \in fs : Before(k, g.smallest) /\ g.smallest.key = k.key => ~Before(g.smallest, n.smallest)
  BY DEF FindSmallestBoundaryFile, Continues

\* When a file goes on with a key there is a first one that does.
LEMMA BoundaryExists ==
    ASSUME NEW W, IsEntries(W), NEW fs, AreTables(fs, W), NEW k \in W, NEW g \in fs,
           Before(k, g.smallest), g.smallest.key = k.key
    PROVE  \E n \in FindSmallestBoundaryFile(fs, k) : TRUE
<1> DEFINE A == {f.smallest : f \in {h \in fs : Continues(k, h.smallest)}}
<1>1. A \subseteq W /\ A # {}
  <2>1. \A f \in fs : f.smallest \in W
    BY TableProp DEF AreTables
  <2>2. g.smallest \in A
    BY DEF Continues
  <2> QED
    BY <2>1, <2>2
<1>2. Least(A) \in A /\ \A d \in A : ~Before(d, Least(A))
  <2> HIDE DEF A
  <2> QED
    BY <1>1, LeastGreatest DEF AtOrAfter
<1>3. PICK f \in fs : Continues(k, f.smallest) /\ f.smallest = Least(A)
  BY <1>2
<1>4. \A h \in fs : Continues(k, h.smallest) => ~Before(h.smallest, f.smallest)
  BY <1>2, <1>3
<1> QED
  BY <1>3, <1>4 DEF FindSmallestBoundaryFile

\* The entries of two files with disjoint ranges have the order of the files.
LEMMA DisjointOrder ==
    ASSUME NEW W, IsEntries(W), NEW f, IsTable(f, W), NEW g, IsTable(g, W),
           Before(f.largest, g.smallest), NEW e \in f.data, NEW d \in g.data
    PROVE  Before(e, d)
<1>1. /\ f.largest \in W /\ g.smallest \in W /\ e \in W /\ d \in W
      /\ ~Before(f.largest, e) /\ ~Before(d, g.smallest)
  BY TableProp
<1>2. Before(e, g.smallest)
  BY <1>1, BeforeOrder
<1> QED
  BY <1>1, <1>2, BeforeOrder

\* The files that are added lie behind the others.
LEMMA BoundaryBehind ==
    ASSUME NEW W, IsEntries(W), NEW fs, AreTables(fs, W), NEW P, P \subseteq fs, P # {}
    PROVE  \A f \in AddBoundaryInputs(fs, P) \ P : Before(LargestOf(P), f.smallest)
<1> DEFINE R == AddBoundaryInputs(fs, P)
           k == LargestOf(P)
           T == {f \in R : f \in P \/ Before(k, f.smallest)}
<1>1. /\ P \subseteq R /\ R \subseteq fs /\ BoundaryClosed(fs, P, R)
      /\ \A got \in SUBSET fs : BoundaryClosed(fs, P, got) => R \subseteq got
  BY BoundaryLeast
<1>2. k \in W
  BY LargestOfProp DEF AreTables
<1>3. \A f \in fs : f.smallest \in W /\ f.largest \in W /\ ~Before(f.largest, f.smallest)
  BY TableProp DEF AreTables
<1> HIDE DEF R, k
<1>4. FindSmallestBoundaryFile(fs, k) \subseteq T
  BY <1>1, BoundaryProp DEF BoundaryClosed, k
<1>5. ASSUME NEW f \in T \ P PROVE FindSmallestBoundaryFile(fs, f.largest) \subseteq T
  <2> SUFFICES ASSUME NEW n \in FindSmallestBoundaryFile(fs, f.largest) PROVE n \in T
    OBVIOUS
  <2>1. n \in fs /\ Before(f.largest, n.smallest)
    BY BoundaryProp
  <2>2. f \in fs /\ f \in R /\ Before(k, f.smallest) /\ n \in R
    BY <1>1 DEF BoundaryClosed
  <2>3. Before(k, f.largest)
    BY <1>2, <1>3, <2>2, BeforeOrder
  <2>4. Before(k, n.smallest)
    BY <1>2, <1>3, <2>1, <2>2, <2>3, BeforeOrder
  <2> QED
    BY <2>2, <2>4
<1>6. BoundaryClosed(fs, P, T) /\ T \in SUBSET fs
  BY <1>1, <1>4, <1>5 DEF BoundaryClosed, k
<1>7. R \subseteq T
  <2> HIDE DEF T
  <2> QED
    BY <1>1, <1>6
<1> QED
  BY <1>7 DEF R, k

\* Boundary files leave no gap in the level.
LEMMA BoundaryConvex ==
    ASSUME NEW W, IsEntries(W), NEW fs, AreTables(fs, W), Disjoint(fs),
           NEW P, P \subseteq fs, P # {}, Convex(P, fs)
    PROVE  Convex(AddBoundaryInputs(fs, P), fs)
<1> DEFINE R == AddBoundaryInputs(fs, P)
           Behind(g) == \E f \in R : Before(f.largest, g.smallest)
           T == {h \in R : \A g \in fs : Behind(g) /\ Before(g.largest, h.smallest) => g \in R}
<1>1. /\ P \subseteq R /\ R \subseteq fs /\ BoundaryClosed(fs, P, R)
      /\ \A got \in SUBSET fs : BoundaryClosed(fs, P, got) => R \subseteq got
  BY BoundaryLeast
<1>2. \A f \in fs : f.smallest \in W /\ f.largest \in W /\ ~Before(f.largest, f.smallest)
  BY TableProp DEF AreTables
<1>3. /\ LargestOf(P) \in W /\ \E p \in P : p.largest = LargestOf(P)
      /\ \A p \in P : ~Before(LargestOf(P), p.largest)
  BY LargestOfProp DEF AreTables
<1>4. \A f \in R \ P : Before(LargestOf(P), f.smallest)
  BY BoundaryBehind
<1> HIDE DEF R
<1>5. P \subseteq T
  <2> SUFFICES ASSUME NEW h \in P, NEW g \in fs, NEW f \in R,
                      Before(f.largest, g.smallest), Before(g.largest, h.smallest)
               PROVE  g \in R
    BY <1>1
  <2>1. CASE f \in P
    BY <2>1, <1>1 DEF Convex
  <2>2. CASE f \notin P
    <3>1. Before(LargestOf(P), f.smallest)
      BY <2>2, <1>4
    <3>2. f \in fs /\ h \in fs
      BY <1>1
    <3>3. Before(LargestOf(P), f.largest)
      BY <1>2, <1>3, <3>1, <3>2, BeforeOrder
    <3>4. Before(LargestOf(P), g.smallest)
      BY <1>2, <1>3, <3>2, <3>3, BeforeOrder
    <3>5. Before(LargestOf(P), g.largest)
      BY <1>2, <1>3, <3>2, <3>4, BeforeOrder
    <3>6. Before(LargestOf(P), h.smallest)
      BY <1>2, <1>3, <3>2, <3>5, BeforeOrder
    <3>7. Before(LargestOf(P), h.largest)
      BY <1>2, <1>3, <3>2, <3>6, BeforeOrder
    <3> QED
      BY <1>3, <3>7
  <2> QED
    BY <2>1, <2>2
<1>6. ASSUME NEW u \in T, NEW n \in FindSmallestBoundaryFile(fs, u.largest), n \in R PROVE n \in T
  <2> SUFFICES ASSUME NEW g \in fs, Behind(g), Before(g.largest, n.smallest) PROVE g \in R
    BY <1>6
  <2>1. /\ n \in fs /\ Before(u.largest, n.smallest) /\ n.smallest.key = u.largest.key
        /\ \A x \in fs : Before(u.largest, x.smallest) /\ x.smallest.key = u.largest.key
                             => ~Before(x.smallest, n.smallest)
    BY BoundaryProp
  <2>2. u \in fs /\ u \in R
    BY <1>1
  <2>3. CASE g = u
    BY <2>2, <2>3
  <2>4. CASE Before(g.largest, u.smallest)
    BY <2>4
  <2>5. CASE Before(u.largest, g.smallest)
    <3>1. Before(g.smallest, n.smallest)
      BY <1>2, <2>1, BeforeOrder
    <3>2. /\ u.largest.key \in Int /\ g.smallest.key \in Int /\ n.smallest.key \in Int
      BY <2>1, <2>2, TableProp DEF AreTables
    <3>3. g.smallest.key = u.largest.key
      BY <2>1, <2>5, <3>1, <3>2 DEF Before
    <3> QED
      BY <2>1, <2>5, <3>1, <3>3
  <2> QED
    BY <2>2, <2>3, <2>4, <2>5 DEF Disjoint
<1>7. FindSmallestBoundaryFile(fs, LargestOf(P)) \subseteq T
  <2>1. PICK p \in P : p.largest = LargestOf(P)
    BY <1>3
  <2>2. p \in T
    BY <1>5
  <2>3. FindSmallestBoundaryFile(fs, p.largest) \subseteq R
    BY <1>1, <2>1 DEF BoundaryClosed
  <2> HIDE DEF T
  <2>4. FindSmallestBoundaryFile(fs, p.largest) \subseteq T
    BY <1>6, <2>2, <2>3
  <2> QED
    BY <2>1, <2>4
<1>8. ASSUME NEW f \in T \ P PROVE FindSmallestBoundaryFile(fs, f.largest) \subseteq T
  <2>1. f \in R \ P
    OBVIOUS
  <2>2. FindSmallestBoundaryFile(fs, f.largest) \subseteq R
    BY <1>1, <2>1 DEF BoundaryClosed
  <2> HIDE DEF T
  <2> QED
    BY <1>6, <2>2
<1>9. T \subseteq fs
  BY <1>1
<1>10. R \subseteq T
  <2> HIDE DEF T
  <2>1. BoundaryClosed(fs, P, T)
    BY <1>5, <1>7, <1>8 DEF BoundaryClosed
  <2> QED
    BY <1>1, <1>9, <2>1
<1>11. Convex(R, fs)
  BY <1>10 DEF Convex
<1> QED
  BY <1>11 DEF R

\* "If we compact b1 but not b2 then a subsequent get operation will yield an incorrect result"
\* (AddBoundaryInputs): so no older entry of a key stays behind in the level.
LEMMA BoundarySeparates ==
    ASSUME NEW W, IsEntries(W), NEW fs, AreTables(fs, W), Disjoint(fs),
           NEW P, P \subseteq fs, P # {}, Convex(P, fs)
    PROVE  Separate(AddBoundaryInputs(fs, P), fs)
<1> DEFINE R == AddBoundaryInputs(fs, P)
<1>1. P \subseteq R /\ R \subseteq fs /\ BoundaryClosed(fs, P, R)
  BY BoundaryLeast
<1>2. Convex(R, fs)
  BY BoundaryConvex
<1> HIDE DEF R
<1>0. AreTables(R, W) /\ R # {} /\ AreTables(P, W)
  BY <1>1 DEF AreTables
<1>3. /\ LargestOf(R) \in W /\ \E m \in R : m.largest = LargestOf(R)
      /\ \A f \in R : ~Before(LargestOf(R), f.largest)
  BY <1>0, LargestOfProp
<1>4. /\ LargestOf(P) \in W /\ \E m \in P : m.largest = LargestOf(P)
      /\ \A f \in P : ~Before(LargestOf(P), f.largest)
  BY <1>0, LargestOfProp
<1>5. PICK m \in R : m.largest = LargestOf(R)
  BY <1>3
<1>6. FindSmallestBoundaryFile(fs, m.largest) = {}
  <2> SUFFICES ASSUME NEW n \in FindSmallestBoundaryFile(fs, m.largest) PROVE FALSE
    OBVIOUS
  <2>1. n \in fs /\ Before(m.largest, n.smallest)
    BY BoundaryProp
  <2>2. n \in R
    <3>1. CASE m \notin P
      BY <3>1, <1>1 DEF BoundaryClosed
    <3>2. CASE m \in P
      <4>1. PICK p \in P : p.largest = LargestOf(P)
        BY <1>4
      <4>2. ~Before(p.largest, m.largest) /\ ~Before(m.largest, p.largest)
        BY <1>1, <1>3, <1>4, <1>5, <3>2, <4>1
      <4>3. p.largest = m.largest
        BY <4>2, <1>3, <1>4, <1>5, <4>1, BeforeOrder
      <4> QED
        BY <1>1, <4>1, <4>3 DEF BoundaryClosed
    <3> QED
      BY <3>1, <3>2
  <2>3. n.smallest \in W /\ n.largest \in W /\ m.largest \in W /\ ~Before(n.largest, n.smallest)
    BY <1>3, <1>5, <2>1, TableProp DEF AreTables
  <2>4. Before(m.largest, n.largest)
    BY <2>1, <2>3, BeforeOrder
  <2> QED
    BY <1>3, <1>5, <2>2, <2>4
<1>7. ASSUME NEW f \in R, NEW g \in fs \ R, NEW e \in f.data, NEW d \in g.data, e.key = d.key
      PROVE  e.seq < d.seq
  <2>1. IsTable(f, W) /\ IsTable(g, W) /\ IsTable(m, W) /\ f # g /\ m # g /\ f \in fs /\ m \in fs
    BY <1>1, <1>5 DEF AreTables
  <2>2. /\ e.key \in Int /\ d.key \in Int /\ e.seq \in Int /\ d.seq \in Int /\ e \in W /\ d \in W
    BY <2>1, TableProp
  <2>3. CASE Before(g.largest, f.smallest)
    <3>1. Before(d, e)
      BY <2>1, <2>3, DisjointOrder
    <3> QED
      BY <1>7, <2>2, <3>1 DEF Before
  <2>4. CASE Before(f.largest, g.smallest)
    <3>1. ~Before(g.largest, m.smallest)
      BY <1>2, <1>7, <2>4 DEF Convex
    <3>2. Before(m.largest, g.smallest)
      BY <2>1, <3>1 DEF Disjoint
    <3>3. /\ f.largest \in W /\ m.largest \in W /\ g.smallest \in W
          /\ ~Before(f.largest, e) /\ ~Before(d, g.smallest)
          /\ f.largest.key \in Int /\ m.largest.key \in Int /\ g.smallest.key \in Int
          /\ e.key <= f.largest.key /\ g.smallest.key <= d.key
      BY <2>1, TableProp
    <3>4. ~Before(m.largest, f.largest)
      BY <1>3, <1>5
    <3>5. f.largest.key <= m.largest.key
      BY <3>3, <3>4 DEF Before
    <3>6. m.largest.key <= g.smallest.key
      BY <3>2, <3>3 DEF Before
    <3>7. g.smallest.key = m.largest.key
      BY <1>7, <2>2, <3>3, <3>5, <3>6
    <3> QED
      BY <1>6, <2>1, <3>2, <3>3, <3>7, BoundaryExists
  <2> QED
    BY <2>1, <2>3, <2>4 DEF Disjoint
<1>8. Separate(R, fs)
  BY <1>7 DEF Separate, Older
<1> QED
  BY <1>8 DEF R

-----------------------------------------------------------------------------
\* The range that Widen searches.
IsHull(lo, hi, fs, b, e) ==
    /\ lo \in Keys /\ hi \in Keys /\ lo <= b /\ e <= hi
    /\ \A f \in fs : lo <= f.smallest.key /\ f.largest.key <= hi
    /\ lo = b \/ \E f \in fs : f.smallest.key = lo
    /\ hi = e \/ \E f \in fs : f.largest.key = hi

\* The range of one turn at level 0: the hull of the range asked for and of the files found so far.
LEMMA WidenProp ==
    ASSUME NEW W, IsEntries(W), NEW b \in Keys, NEW e \in Keys, NEW fs, AreTables(fs, W)
    PROVE  \E lo, hi : IsHull(lo, hi, fs, b, e) /\ Widen(fs, b, e) = Overlapping(files[0], lo, hi)
<1>0. b \in Int /\ e \in Int
  BY KeyIsInt
<1>1. CASE fs = {}
  <2>1. IsHull(b, e, fs, b, e)
    BY <1>0, <1>1 DEF IsHull
  <2>2. Widen(fs, b, e) = Overlapping(files[0], b, e)
    BY <1>1 DEF Widen
  <2> QED
    BY <2>1, <2>2
<1>2. CASE fs # {}
  <2> DEFINE A == {b, LowOf(fs)}
             B == {e, HighOf(fs)}
             lo == Min(A)
             hi == Max(B)
  <2>1. /\ LowOf(fs) \in Keys /\ HighOf(fs) \in Keys
        /\ \E f \in fs : f.smallest.key = LowOf(fs)
        /\ \E f \in fs : f.largest.key = HighOf(fs)
        /\ \A f \in fs : LowOf(fs) <= f.smallest.key /\ f.largest.key <= HighOf(fs)
    BY <1>2, RangeProp
  <2>2. A \subseteq Keys /\ A # {} /\ B \subseteq Keys /\ B # {}
    BY <2>1
  <2>3. lo \in A /\ lo <= b /\ lo <= LowOf(fs)
    <3>1. lo \in A /\ \A y \in A : lo <= y
      BY <2>2, KeysProp
    <3> QED
      BY <3>1
  <2>4. hi \in B /\ e <= hi /\ HighOf(fs) <= hi
    <3>1. hi \in B /\ \A y \in B : y <= hi
      BY <2>2, KeysProp
    <3> QED
      BY <3>1
  <2>5. lo = b \/ lo = LowOf(fs)
    BY <2>3
  <2>6. hi = e \/ hi = HighOf(fs)
    BY <2>4
  <2>7. lo \in Keys /\ hi \in Keys
    BY <2>1, <2>5, <2>6
  <2>8. Widen(fs, b, e) = Overlapping(files[0], lo, hi)
    BY <1>2 DEF Widen
  <2> HIDE DEF lo, hi
  <2>9. ASSUME NEW f \in fs PROVE lo <= f.smallest.key /\ f.largest.key <= hi
    <3>1. f.smallest.key \in Int /\ f.largest.key \in Int
      BY TableProp DEF AreTables
    <3>2. lo \in Int /\ hi \in Int /\ LowOf(fs) \in Int /\ HighOf(fs) \in Int
      BY <2>1, <2>7, KeyIsInt
    <3>3. LowOf(fs) <= f.smallest.key /\ f.largest.key <= HighOf(fs)
      BY <2>1
    <3> QED
      BY <2>3, <2>4, <3>1, <3>2, <3>3
  <2>10. IsHull(lo, hi, fs, b, e)
    BY <2>1, <2>3, <2>4, <2>5, <2>6, <2>7, <2>9 DEF IsHull
  <2> QED
    BY <2>8, <2>10
<1> QED
  BY <1>1, <1>2

\* The wider the range, the more files overlap it.
LEMMA OverlapMonotone ==
    ASSUME NEW W, IsEntries(W), NEW fs, AreTables(fs, W),
           NEW b \in Keys, NEW e \in Keys, NEW lo \in Keys, NEW hi \in Keys, lo <= b, e <= hi
    PROVE  Overlapping(fs, b, e) \subseteq Overlapping(fs, lo, hi)
<1> SUFFICES ASSUME NEW f \in fs, f.largest.key >= b, f.smallest.key <= e
             PROVE  f.largest.key >= lo /\ f.smallest.key <= hi
  BY DEF Overlapping
<1>1. f.smallest.key \in Int /\ f.largest.key \in Int
  BY TableProp DEF AreTables
<1>2. b \in Int /\ e \in Int /\ lo \in Int /\ hi \in Int
  BY KeyIsInt
<1> QED
  BY <1>1, <1>2

\* More files, a wider range, more files that overlap it.
LEMMA WidenMonotone ==
    ASSUME NEW W, IsEntries(W), AreTables(files[0], W), NEW b \in Keys, NEW e \in Keys,
           NEW fs, fs \subseteq files[0], NEW gs, gs \subseteq fs
    PROVE  /\ Widen(gs, b, e) \subseteq Widen(fs, b, e)
           /\ Overlapping(files[0], b, e) \subseteq Widen(fs, b, e)
           /\ Widen(fs, b, e) \subseteq files[0]
<1>0. AreTables(fs, W) /\ AreTables(gs, W)
  BY DEF AreTables
<1>1. PICK lo, hi : IsHull(lo, hi, fs, b, e) /\ Widen(fs, b, e) = Overlapping(files[0], lo, hi)
  BY <1>0, WidenProp
<1>2. PICK lo1, hi1 : IsHull(lo1, hi1, gs, b, e) /\ Widen(gs, b, e) = Overlapping(files[0], lo1, hi1)
  BY <1>0, WidenProp
<1>3. lo \in Keys /\ hi \in Keys /\ lo1 \in Keys /\ hi1 \in Keys
  BY <1>1, <1>2 DEF IsHull
<1>4. lo <= lo1
  BY <1>1, <1>2 DEF IsHull
<1>5. hi1 <= hi
  BY <1>1, <1>2 DEF IsHull
<1>6. lo <= b /\ e <= hi
  BY <1>1 DEF IsHull
<1>7. Overlapping(files[0], lo1, hi1) \subseteq Overlapping(files[0], lo, hi)
  BY <1>3, <1>4, <1>5, OverlapMonotone
<1>8. Overlapping(files[0], b, e) \subseteq Overlapping(files[0], lo, hi)
  BY <1>3, <1>6, OverlapMonotone
<1>9. Overlapping(files[0], lo, hi) \subseteq files[0]
  BY DEF Overlapping
<1> QED
  BY <1>1, <1>2, <1>7, <1>8, <1>9

\* At level 0 GetOverlappingInputs: the least set that has all files overlapping its own range.
LEMMA LevelZeroLeast ==
    ASSUME NEW W, IsEntries(W), AreTables(files[0], W), NEW b \in Keys, NEW e \in Keys
    PROVE  /\ GetOverlappingInputs(0, b, e) \subseteq files[0]
           /\ Overlapping(files[0], b, e) \subseteq GetOverlappingInputs(0, b, e)
           /\ Widen(GetOverlappingInputs(0, b, e), b, e) \subseteq GetOverlappingInputs(0, b, e)
           /\ \A fs \in SUBSET files[0] :
                  Widen(fs, b, e) \subseteq fs => GetOverlappingInputs(0, b, e) \subseteq fs
<1> DEFINE R == {f \in files[0] : \A fs \in SUBSET files[0] : Widen(fs, b, e) \subseteq fs => f \in fs}
<1>1. GetOverlappingInputs(0, b, e) = R
  BY DEF GetOverlappingInputs
<1>2. R \subseteq files[0] /\ \A fs \in SUBSET files[0] : Widen(fs, b, e) \subseteq fs => R \subseteq fs
  OBVIOUS
<1>3. ASSUME NEW fs \in SUBSET files[0], Widen(fs, b, e) \subseteq fs
      PROVE  Widen(R, b, e) \subseteq fs /\ Overlapping(files[0], b, e) \subseteq fs
  <2>1. R \subseteq fs
    BY <1>3
  <2> HIDE DEF R
  <2>2. Widen(R, b, e) \subseteq Widen(fs, b, e) /\ Overlapping(files[0], b, e) \subseteq Widen(fs, b, e)
    BY <2>1, WidenMonotone
  <2> QED
    BY <1>3, <2>2
<1>4. Widen(R, b, e) \subseteq files[0] /\ Overlapping(files[0], b, e) \subseteq files[0]
  <2> HIDE DEF R
  <2> QED
    BY <1>2, WidenMonotone DEF Overlapping
<1>5. Widen(R, b, e) \subseteq R
  <2> DEFINE V == Widen(R, b, e)
  <2>1. \A x \in V : x \in files[0] /\ \A fs \in SUBSET files[0] : Widen(fs, b, e) \subseteq fs => x \in fs
    BY <1>3, <1>4
  <2> HIDE DEF V
  <2>2. V \subseteq R
    BY <2>1
  <2> QED
    BY <2>2 DEF V
<1>6. Overlapping(files[0], b, e) \subseteq R
  <2> DEFINE V == Overlapping(files[0], b, e)
  <2>1. \A x \in V : x \in files[0] /\ \A fs \in SUBSET files[0] : Widen(fs, b, e) \subseteq fs => x \in fs
    BY <1>3, <1>4
  <2> HIDE DEF V
  <2>2. V \subseteq R
    BY <2>1
  <2> QED
    BY <2>2 DEF V
<1> HIDE DEF R
<1> QED
  BY <1>1, <1>2, <1>5, <1>6

\* At every level GetOverlappingInputs returns the files that overlap the range.
LEMMA OverlapInputs ==
    ASSUME NEW W, IsEntries(W), NEW l \in Level, AreTables(files[l], W), NEW b \in Keys, NEW e \in Keys
    PROVE  /\ GetOverlappingInputs(l, b, e) \subseteq files[l]
           /\ Overlapping(files[l], b, e) \subseteq GetOverlappingInputs(l, b, e)
<1>1. CASE l = 0
  BY <1>1, LevelZeroLeast
<1>2. CASE l # 0
  <2>1. l > 0
    BY <1>2, LsmAssumption DEF Level
  <2> QED
    BY <2>1 DEF GetOverlappingInputs, Overlapping
<1> QED
  BY <1>1, <1>2

\* At level 0 no other file has a key in the range of those chosen.
LEMMA LevelZeroSeparates ==
    ASSUME NEW W, IsEntries(W), AreTables(files[0], W), NEW b \in Keys, NEW e \in Keys,
           GetOverlappingInputs(0, b, e) # {}
    PROVE  LET R == GetOverlappingInputs(0, b, e)
           IN  Separate(R, files[0]) /\ AddBoundaryInputs(files[0], R) = R
<1> DEFINE R == GetOverlappingInputs(0, b, e)
<1>1. R \subseteq files[0] /\ Widen(R, b, e) \subseteq R
  BY LevelZeroLeast
<1> HIDE DEF R
<1>2. AreTables(R, W) /\ R # {}
  BY <1>1 DEF AreTables, R
<1>3. PICK lo, hi : IsHull(lo, hi, R, b, e) /\ Widen(R, b, e) = Overlapping(files[0], lo, hi)
  BY <1>2, WidenProp
<1>4. lo \in Int /\ hi \in Int
  BY <1>3, KeyIsInt DEF IsHull
<1>5. ASSUME NEW f \in R, NEW g \in files[0] \ R, NEW x \in f.data, NEW y \in g.data
      PROVE  x.key # y.key
  <2>1. IsTable(f, W) /\ IsTable(g, W)
    BY <1>1 DEF AreTables
  <2>2. ~(g.largest.key >= lo /\ g.smallest.key <= hi)
    BY <1>1, <1>3 DEF Overlapping
  <2>3. lo <= f.smallest.key /\ f.largest.key <= hi
    BY <1>3 DEF IsHull
  <2>4. /\ f.smallest.key <= x.key /\ x.key <= f.largest.key /\ f.smallest.key \in Int /\ f.largest.key \in Int
        /\ g.smallest.key <= y.key /\ y.key <= g.largest.key /\ g.smallest.key \in Int /\ g.largest.key \in Int
        /\ x.key \in Int /\ y.key \in Int
    BY <2>1, TableProp
  <2> QED
    BY <1>4, <2>2, <2>3, <2>4
<1>6. Separate(R, files[0])
  BY <1>5 DEF Separate, Older
<1>7. PICK m \in R : m.largest = LargestOf(R)
  BY <1>2, LargestOfProp
<1>8. FindSmallestBoundaryFile(files[0], LargestOf(R)) \subseteq R
  <2> SUFFICES ASSUME NEW n \in FindSmallestBoundaryFile(files[0], LargestOf(R)), n \notin R PROVE FALSE
    OBVIOUS
  <2>1. n \in files[0] /\ n.smallest.key = m.largest.key
    BY <1>7, BoundaryProp
  <2>2. n.smallest \in n.data /\ m.largest \in m.data
    BY <1>2, <2>1, TableProp DEF AreTables
  <2> QED
    BY <1>5, <2>1, <2>2
<1>9. BoundaryClosed(files[0], R, R)
  BY <1>8 DEF BoundaryClosed
<1>10. AddBoundaryInputs(files[0], R) = R
  <2> DEFINE F == files[0]
  <2>1. R \subseteq F /\ BoundaryClosed(F, R, R)
    BY <1>1, <1>9
  <2> HIDE DEF F
  <2>2. R \subseteq AddBoundaryInputs(F, R) /\ AddBoundaryInputs(F, R) \subseteq R
    BY <2>1, BoundaryLeast
  <2> QED
    BY <2>2 DEF F
<1> QED
  BY <1>6, <1>10 DEF R

-----------------------------------------------------------------------------
\* More files cover no less.
LEMMA CoveredGrows ==
    ASSUME NEW P, NEW Q, P \subseteq Q, NEW x, Covered(P, x)
    PROVE  Covered(Q, x)
  BY DEF Covered

\* Files that overlap the range of files without a gap leave none.
LEMMA SolidOverlap ==
    ASSUME NEW W, IsEntries(W), NEW B, AreTables(B, W), B # {}, Solid(B),
           NEW l \in Level, AreTables(files[l], W)
    PROVE  Solid(B \cup GetOverlappingInputs(l, LowOf(B), HighOf(B)))
<1> DEFINE lo == LowOf(B)
           hi == HighOf(B)
           R == GetOverlappingInputs(l, lo, hi)
           Q == B \cup R
           Right(g) == \A x \in Keys : lo <= x /\ x <= g.largest.key => Covered(Q, x)
           Left(g) == \A x \in Keys : g.smallest.key <= x /\ x <= hi => Covered(Q, x)
<1>1. /\ lo \in Keys /\ hi \in Keys
      /\ \E f \in B : f.smallest.key = lo
      /\ \E f \in B : f.largest.key = hi
      /\ \A f \in B : lo <= f.smallest.key /\ f.largest.key <= hi
  BY RangeProp
<1>2. R \subseteq files[l]
  BY <1>1, OverlapInputs
<1> HIDE DEF lo, hi
<1>0. lo \in Int /\ hi \in Int
  BY <1>1, KeyIsInt
<1>3. ASSUME NEW x \in Keys, lo <= x, x <= hi PROVE Covered(Q, x)
  <2>1. Covered(B, x)
    BY <1>1, <1>3 DEF Solid
  <2> QED
    BY <2>1, CoveredGrows
<1>4. \A f \in files[l] : IsTable(f, W) /\ f.smallest.key \in Int /\ f.largest.key \in Int
                          /\ f.smallest.key <= f.largest.key
  BY TableProp DEF AreTables
<1>5. ASSUME NEW g \in R PROVE Right(g) /\ Left(g)
  <2>1. CASE l # 0
    <3>1. l > 0
      BY <2>1, LsmAssumption DEF Level
    <3>2. g.largest.key >= lo /\ g.smallest.key <= hi /\ g \in files[l]
      BY <3>1, <1>5 DEF GetOverlappingInputs, Overlapping
    <3> HIDE DEF R
    <3>3. ASSUME NEW x \in Keys, lo <= x, x <= g.largest.key PROVE Covered(Q, x)
      <4>0. x \in Int
        BY KeyIsInt
      <4>1. CASE x <= hi
        BY <4>1, <3>3, <1>3
      <4>2. CASE ~(x <= hi)
        <5>1. g.smallest.key <= x
          BY <4>0, <4>2, <3>2, <1>0, <1>4
        <5> QED
          BY <5>1, <3>3, <1>5 DEF Covered
      <4> QED
        BY <4>1, <4>2
    <3>4. ASSUME NEW x \in Keys, g.smallest.key <= x, x <= hi PROVE Covered(Q, x)
      <4>0. x \in Int
        BY KeyIsInt
      <4>1. CASE lo <= x
        BY <4>1, <3>4, <1>3
      <4>2. CASE ~(lo <= x)
        <5>1. x <= g.largest.key
          BY <4>0, <4>2, <3>2, <1>0, <1>4
        <5> QED
          BY <5>1, <3>4, <1>5 DEF Covered
      <4> QED
        BY <4>1, <4>2
    <3> QED
      BY <3>3, <3>4
  <2>2. CASE l = 0
    <3> DEFINE T == {h \in R : Right(h) /\ Left(h)}
    <3>1. /\ Widen(R, lo, hi) \subseteq R /\ R \subseteq files[0]
          /\ \A fs \in SUBSET files[0] : Widen(fs, lo, hi) \subseteq fs => R \subseteq fs
      BY <2>2, <1>1, LevelZeroLeast
    <3>2. T \subseteq R /\ T \subseteq files[0] /\ AreTables(T, W)
      BY <2>2, <3>1 DEF AreTables
    <3> HIDE DEF R
    <3>3. Widen(T, lo, hi) \subseteq R
      <4> HIDE DEF T
      <4>1. Widen(T, lo, hi) \subseteq Widen(R, lo, hi)
        BY <2>2, <1>1, <3>1, <3>2, WidenMonotone
      <4> QED
        BY <3>1, <4>1
    <3>4. PICK lo1, hi1 : IsHull(lo1, hi1, T, lo, hi) /\ Widen(T, lo, hi) = Overlapping(files[0], lo1, hi1)
      <4> HIDE DEF T
      <4> QED
        BY <1>1, <3>2, WidenProp
    <3>5. lo1 \in Int /\ hi1 \in Int
      BY <3>4, KeyIsInt DEF IsHull
    <3>6. ASSUME NEW n \in Widen(T, lo, hi) PROVE n \in T
      <4>1. n \in R /\ n \in files[0] /\ n.largest.key >= lo1 /\ n.smallest.key <= hi1
        BY <3>3, <3>4 DEF Overlapping
      <4>2. n.smallest.key \in Int /\ n.largest.key \in Int
        BY <4>1, <1>4, <2>2
      <4>3. ASSUME NEW x \in Keys, lo <= x, x <= n.largest.key PROVE Covered(Q, x)
        <5>0. x \in Int
          BY KeyIsInt
        <5>1. CASE x <= hi
          BY <5>1, <4>3, <1>3
        <5>2. CASE ~(x <= hi) /\ x <= hi1
          <6>1. hi1 # hi
            BY <5>2
          <6>2. PICK h \in T : h.largest.key = hi1
            BY <6>1, <3>4 DEF IsHull
          <6> QED
            BY <6>2, <5>2, <4>3
        <5>3. CASE ~(x <= hi1)
          <6>1. n.smallest.key <= x
            BY <5>0, <5>3, <4>1, <4>2, <3>5
          <6> QED
            BY <6>1, <4>1, <4>3 DEF Covered
        <5> QED
          BY <5>1, <5>2, <5>3
      <4>4. ASSUME NEW x \in Keys, n.smallest.key <= x, x <= hi PROVE Covered(Q, x)
        <5>0. x \in Int
          BY KeyIsInt
        <5>1. CASE lo <= x
          BY <5>1, <4>4, <1>3
        <5>2. CASE ~(lo <= x) /\ lo1 <= x
          <6>1. lo1 # lo
            BY <5>2
          <6>2. PICK h \in T : h.smallest.key = lo1
            BY <6>1, <3>4 DEF IsHull
          <6> QED
            BY <6>2, <5>2, <4>4
        <5>3. CASE ~(lo1 <= x)
          <6>1. x <= n.largest.key
            BY <5>0, <5>3, <4>1, <4>2, <3>5
          <6> QED
            BY <6>1, <4>1, <4>4 DEF Covered
        <5> QED
          BY <5>1, <5>2, <5>3
      <4> QED
        BY <4>1, <4>3, <4>4
    <3>7. R \subseteq T
      <4> HIDE DEF T
      <4> QED
        BY <3>1, <3>2, <3>6
    <3> QED
      BY <3>7, <1>5
  <2> QED
    BY <2>1, <2>2
<1>6. ASSUME NEW f \in Q, NEW g \in Q, NEW x \in Keys, f.smallest.key <= x, x <= g.largest.key
      PROVE  Covered(Q, x)
  <2>0. x \in Int
    BY KeyIsInt
  <2>1. f.smallest.key \in Int /\ g.largest.key \in Int
    BY <1>2, <1>4, TableProp DEF AreTables
  <2> HIDE DEF R
  <2>2. CASE x <= hi
    <3>1. CASE f \in R
      BY <3>1, <2>2, <1>5, <1>6
    <3>2. CASE f \in B
      <4>1. lo <= x
        BY <3>2, <1>0, <1>1, <1>6, <2>0, <2>1
      <4> QED
        BY <4>1, <2>2, <1>3
    <3> QED
      BY <3>1, <3>2
  <2>3. CASE ~(x <= hi)
    <3>1. g \notin B
      BY <2>3, <1>0, <1>1, <1>6, <2>0, <2>1
    <3>2. lo <= hi
      <4>1. PICK h \in B : h.smallest.key = lo
        BY <1>1
      <4>2. h.smallest.key <= h.largest.key /\ h.largest.key <= hi /\ h.largest.key \in Int
        BY <4>1, <1>1, TableProp DEF AreTables
      <4> QED
        BY <4>1, <4>2, <1>0
    <3>3. lo <= x
      BY <2>0, <2>3, <3>2, <1>0
    <3> QED
      BY <3>1, <3>3, <1>5, <1>6
  <2> QED
    BY <2>2, <2>3
<1>7. Solid(Q)
  <2> HIDE DEF Q
  <2> QED
    BY <1>6 DEF Solid
<1> QED
  BY <1>7 DEF lo, hi

\* Nor do files that go on with the last key.
LEMMA SolidBoundary ==
    ASSUME NEW W, IsEntries(W), NEW fs, AreTables(fs, W), NEW P, P \subseteq fs, P # {},
           NEW B, AreTables(B, W), Solid(P \cup B)
    PROVE  Solid(AddBoundaryInputs(fs, P) \cup B)
<1> DEFINE R == AddBoundaryInputs(fs, P)
           Q == R \cup B
           lo == LowOf(P \cup B)
           Right(g) == \A x \in Keys : lo <= x /\ x <= g.largest.key => Covered(Q, x)
           T == {g \in R : lo <= g.smallest.key /\ Right(g)}
<1>1. /\ P \subseteq R /\ R \subseteq fs /\ BoundaryClosed(fs, P, R)
      /\ \A got \in SUBSET fs : BoundaryClosed(fs, P, got) => R \subseteq got
  BY BoundaryLeast
<1>2. AreTables(P \cup B, W) /\ P \cup B # {}
  BY DEF AreTables
<1>3. /\ lo \in Keys /\ \E f \in P \cup B : f.smallest.key = lo
      /\ \A f \in P \cup B : lo <= f.smallest.key
  BY <1>2, RangeProp
<1>4. \A f \in fs : f.smallest.key \in Int /\ f.largest.key \in Int /\ f.smallest.key <= f.largest.key
  BY TableProp DEF AreTables
<1> HIDE DEF R, lo
<1>5. lo \in Int
  BY <1>3, KeyIsInt
<1>6. ASSUME NEW g \in P \cup B PROVE Right(g)
  <2> SUFFICES ASSUME NEW x \in Keys, lo <= x, x <= g.largest.key PROVE Covered(Q, x)
    OBVIOUS
  <2>1. Covered(P \cup B, x)
    BY <1>3 DEF Solid
  <2>2. P \cup B \subseteq Q
    BY <1>1
  <2> QED
    BY <2>1, <2>2, CoveredGrows
<1>7. P \subseteq T
  BY <1>1, <1>3, <1>6
<1>8. ASSUME NEW u \in T, NEW n \in FindSmallestBoundaryFile(fs, u.largest), n \in R PROVE n \in T
  <2>1. n.smallest.key = u.largest.key /\ n \in fs /\ u \in fs /\ n \in Q
    BY <1>1, <1>8, BoundaryProp
  <2>2. lo <= n.smallest.key
    BY <1>4, <1>5, <2>1
  <2>3. ASSUME NEW x \in Keys, lo <= x, x <= n.largest.key PROVE Covered(Q, x)
    <3>0. x \in Int
      BY KeyIsInt
    <3>1. CASE x <= u.largest.key
      BY <3>1, <2>3
    <3>2. CASE ~(x <= u.largest.key)
      <4>1. n.smallest.key <= x
        BY <3>0, <3>2, <2>1, <1>4
      <4> QED
        BY <4>1, <2>1, <2>3 DEF Covered
    <3> QED
      BY <3>1, <3>2
  <2> QED
    BY <1>8, <2>2, <2>3
<1>9. FindSmallestBoundaryFile(fs, LargestOf(P)) \subseteq T
  <2>1. PICK p \in P : p.largest = LargestOf(P)
    BY LargestOfProp DEF AreTables
  <2>2. p \in T /\ FindSmallestBoundaryFile(fs, p.largest) \subseteq R
    BY <1>1, <1>7, <2>1 DEF BoundaryClosed
  <2> HIDE DEF T
  <2> QED
    BY <1>8, <2>1, <2>2
<1>10. ASSUME NEW f \in T \ P PROVE FindSmallestBoundaryFile(fs, f.largest) \subseteq T
  <2>1. FindSmallestBoundaryFile(fs, f.largest) \subseteq R
    BY <1>1 DEF BoundaryClosed
  <2> HIDE DEF T
  <2> QED
    BY <1>8, <2>1
<1>11. T \subseteq fs
  BY <1>1
<1>12. R \subseteq T
  <2> HIDE DEF T
  <2>1. BoundaryClosed(fs, P, T)
    BY <1>7, <1>9, <1>10 DEF BoundaryClosed
  <2> QED
    BY <1>1, <1>11, <2>1
<1>13. ASSUME NEW f \in Q, NEW g \in Q, NEW x \in Keys, f.smallest.key <= x, x <= g.largest.key
       PROVE  Covered(Q, x)
  <2>1. lo <= f.smallest.key /\ f.smallest.key \in Int
    BY <1>1, <1>3, <1>4, <1>12, TableProp DEF AreTables
  <2>2. lo <= x
    <3>1. x \in Int
      BY KeyIsInt
    <3> QED
      BY <1>5, <1>13, <2>1, <3>1
  <2>3. Right(g)
    BY <1>6, <1>12
  <2> QED
    BY <1>13, <2>2, <2>3
<1>14. Solid(Q)
  <2> HIDE DEF Q
  <2> QED
    BY <1>13 DEF Solid
<1> QED
  BY <1>14 DEF R

-----------------------------------------------------------------------------
\* The tables of all levels.
LevelTables(W) == \A l \in Level : IsTables(files[l], W)

\* Files that overlap one range leave no gap in the level,
LEMMA ConvexOverlap ==
    ASSUME NEW W, IsEntries(W), NEW fs, AreTables(fs, W), NEW b \in Keys, NEW e \in Keys
    PROVE  Convex(Overlapping(fs, b, e), fs)
<1> SUFFICES ASSUME NEW f \in Overlapping(fs, b, e), NEW h \in Overlapping(fs, b, e), NEW g \in fs,
                    Before(f.largest, g.smallest), Before(g.largest, h.smallest)
             PROVE  g.largest.key >= b /\ g.smallest.key <= e
  BY DEF Convex, Overlapping
<1>1. f \in fs /\ h \in fs /\ f.largest.key >= b /\ h.smallest.key <= e
  BY DEF Overlapping
<1>2. /\ f.largest.key \in Int /\ h.smallest.key \in Int /\ g.smallest.key \in Int /\ g.largest.key \in Int
      /\ g.smallest.key <= g.largest.key
  BY <1>1, TableProp DEF AreTables
<1>3. f.largest.key <= g.smallest.key /\ g.largest.key <= h.smallest.key
  BY <1>2 DEF Before
<1>4. b \in Int /\ e \in Int
  BY KeyIsInt
<1> QED
  BY <1>1, <1>2, <1>3, <1>4

\* and neither does a single file.
LEMMA ConvexSingle ==
    ASSUME NEW W, IsEntries(W), NEW fs, AreTables(fs, W), NEW f \in fs
    PROVE  Convex({f}, fs)
<1> SUFFICES ASSUME NEW g \in fs, Before(f.largest, g.smallest), Before(g.largest, f.smallest)
             PROVE  FALSE
  BY DEF Convex
<1>1. /\ f.smallest \in W /\ f.largest \in W /\ g.smallest \in W /\ g.largest \in W
      /\ ~Before(f.largest, f.smallest) /\ ~Before(g.largest, g.smallest)
  BY TableProp DEF AreTables
<1>2. Before(g.smallest, f.smallest)
  BY <1>1, BeforeOrder
<1>3. Before(f.largest, f.smallest)
  BY <1>1, <1>2, BeforeOrder
<1> QED
  BY <1>1, <1>3

\* What a manual compaction takes of a level is a part of it without a gap.
LEMMA ConvexPortion ==
    ASSUME NEW W, IsEntries(W), NEW fs, IsTables(fs, W), NEW P, P \subseteq fs, Convex(P, fs)
    PROVE  Portion(Sorted(P)) \subseteq P /\ Convex(Portion(Sorted(P)), fs)
<1> DEFINE s == Sorted(P)
           n == Cardinality(P)
           enough == {i \in 1 .. Len(s) : TotalFileSize({s[j] : j \in 1 .. i}) >= MaxFileSize}
           E == enough \cup {Len(s)}
           m == Min(E)
<1>1. IsTables(P, W)
  BY TablesSubset
<1>2. /\ n \in Nat /\ s \in [1 .. n -> P] /\ Len(s) = n
      /\ \A i, j \in 1 .. n : i < j => BySmallestKey(s[i], s[j])
      /\ \A f \in P : \E i \in 1 .. n : s[i] = f
  BY <1>1, SortedProp
<1>3. Portion(s) = {s[i] : i \in 1 .. m}
  BY DEF Portion
<1>4. m \in 0 .. n
  <2>1. E \subseteq 0 .. n /\ E # {}
    BY <1>2
  <2>2. E \subseteq Nat
    BY <2>1
  <2> HIDE DEF E
  <2>3. m \in E
    BY <2>1, <2>2, MinProp
  <2> QED
    BY <2>1, <2>3
<1> HIDE DEF s, n, m
<1>5. Portion(s) \subseteq P
  BY <1>2, <1>3, <1>4
<1>6. ASSUME NEW f \in Portion(s), NEW h \in Portion(s), NEW g \in fs,
             Before(f.largest, g.smallest), Before(g.largest, h.smallest)
      PROVE  g \in Portion(s)
  <2>1. g \in P /\ h \in P
    BY <1>5, <1>6 DEF Convex
  <2>2. PICK i \in 1 .. n : s[i] = g
    BY <1>2, <2>1
  <2>3. PICK j \in 1 .. m : s[j] = h
    BY <1>3
  <2>4. /\ g.smallest \in W /\ g.largest \in W /\ h.smallest \in W /\ ~Before(g.largest, g.smallest)
    BY <1>1, <2>1, TableProp DEF IsTables
  <2>5. Before(g.smallest, h.smallest)
    BY <1>6, <2>4, BeforeOrder
  <2>6. ~Before(h.smallest, g.smallest) /\ h.smallest # g.smallest
    BY <2>4, <2>5, BeforeOrder
  <2>7. ~BySmallestKey(h, g)
    BY <2>6 DEF BySmallestKey
  <2>8. ~(j < i)
    BY <1>2, <1>4, <2>2, <2>3, <2>7
  <2>9. i \in 1 .. m
    BY <1>2, <1>4, <2>2, <2>3, <2>8
  <2> QED
    BY <1>3, <2>2, <2>9
<1>7. Convex(Portion(s), fs)
  BY <1>6 DEF Convex
<1> QED
  BY <1>5, <1>7 DEF s

\* The other files of the level below lie before all of the inputs or behind them.
Apart(A, B) == AllBefore(A, B) \/ AllBefore(B, A)

\* Files with different user keys are apart.
LEMMA AllBeforeTables ==
    ASSUME NEW W, IsEntries(W), NEW f, IsTable(f, W), NEW g, IsTable(g, W), f.largest.key < g.smallest.key
    PROVE  AllBefore(f.data, g.data) /\ Before(f.largest, g.smallest)
<1>1. Before(f.largest, g.smallest)
  BY DEF Before
<1> QED
  BY <1>1, DisjointOrder DEF AllBefore

\* A file of the level below that does not overlap the range of the inputs is apart from all of them.
LEMMA OverlapApart ==
    ASSUME NEW W, IsEntries(W), NEW fs, AreTables(fs, W), Disjoint(fs), NEW A, AreTables(A, W), A # {},
           NEW g \in fs \ Overlapping(fs, LowOf(A), HighOf(A))
    PROVE  Apart(g.data, DataOf(A \cup Overlapping(fs, LowOf(A), HighOf(A))))
<1> DEFINE lo == LowOf(A)
           hi == HighOf(A)
           B == Overlapping(fs, lo, hi)
<1>1. /\ lo \in Keys /\ hi \in Keys
      /\ \A f \in A : lo <= f.smallest.key /\ f.largest.key <= hi
  BY RangeProp
<1> HIDE DEF lo, hi
<1>2. lo \in Int /\ hi \in Int
  BY <1>1, KeyIsInt
<1>3. IsTable(g, W) /\ g.smallest.key \in Int /\ g.largest.key \in Int
  BY TableProp DEF AreTables
<1>4. g.largest.key < lo \/ g.smallest.key > hi
  BY <1>2, <1>3 DEF Overlapping, lo, hi
<1>5. ASSUME NEW h \in A \cup B
      PROVE  /\ IsTable(h, W) /\ h.smallest.key \in Int /\ h.largest.key \in Int
             /\ h.smallest.key <= h.largest.key
  <2>1. IsTable(h, W)
    BY DEF AreTables, Overlapping
  <2> QED
    BY <2>1, TableProp
<1>6. CASE g.largest.key < lo
  <2>1. ASSUME NEW h \in A \cup B PROVE AllBefore(g.data, h.data)
    <3>1. CASE h \in A
      <4>1. g.largest.key < h.smallest.key
        BY <3>1, <1>1, <1>2, <1>3, <1>5, <1>6
      <4> QED
        BY <4>1, <1>3, <1>5, AllBeforeTables
    <3>2. CASE h \in B
      <4>1. h \in fs /\ h # g /\ h.largest.key >= lo
        BY <3>2 DEF Overlapping, lo, hi
      <4>2. ~Before(h.largest, g.smallest)
        <5>1. g.smallest.key <= g.largest.key
          BY <1>3, TableProp
        <5>2. h.largest.key > g.smallest.key
          BY <4>1, <5>1, <1>2, <1>3, <1>5, <1>6
        <5> QED
          BY <5>2, <1>3, <1>5 DEF Before
      <4>3. Before(g.largest, h.smallest)
        BY <4>1, <4>2 DEF Disjoint
      <4> QED
        BY <4>3, <1>3, <1>5, DisjointOrder DEF AllBefore
    <3> QED
      BY <3>1, <3>2
  <2> QED
    BY <2>1 DEF Apart, AllBefore, DataOf, lo, hi
<1>7. CASE g.smallest.key > hi
  <2>1. ASSUME NEW h \in A \cup B PROVE AllBefore(h.data, g.data)
    <3>1. CASE h \in A
      <4>1. h.largest.key < g.smallest.key
        BY <3>1, <1>1, <1>2, <1>3, <1>5, <1>7
      <4> QED
        BY <4>1, <1>3, <1>5, AllBeforeTables
    <3>2. CASE h \in B
      <4>1. h \in fs /\ h # g /\ h.smallest.key <= hi
        BY <3>2 DEF Overlapping, lo, hi
      <4>2. ~Before(g.largest, h.smallest)
        <5>1. g.smallest.key <= g.largest.key
          BY <1>3, TableProp
        <5>2. g.largest.key > h.smallest.key
          BY <4>1, <5>1, <1>2, <1>3, <1>5, <1>7
        <5> QED
          BY <5>2, <1>3, <1>5 DEF Before
      <4>3. Before(h.largest, g.smallest)
        BY <4>1, <4>2 DEF Disjoint
      <4> QED
        BY <4>3, <1>3, <1>5, DisjointOrder DEF AllBefore
    <3> QED
      BY <3>1, <3>2
  <2> QED
    BY <2>1 DEF Apart, AllBefore, DataOf, lo, hi
<1> QED
  BY <1>4, <1>6, <1>7

-----------------------------------------------------------------------------
\* The inputs of the level below: the files that overlap the range of those above.
LEMMA ParentsProp ==
    ASSUME NEW W, IsEntries(W), LevelTables(W), NEW L \in 0 .. NumLevels - 2,
           NEW A, A \subseteq files[L], A # {}
    PROVE  /\ Parents(L, A) = Overlapping(files[L + 1], LowOf(A), HighOf(A))
           /\ Parents(L, A) = GetOverlappingInputs(L + 1, LowOf(A), HighOf(A))
           /\ Parents(L, A) \subseteq files[L + 1]
           /\ AreTables(A, W) /\ AreTables(Parents(L, A), W) /\ IsFiniteSet(Parents(L, A))
<1>1. L + 1 > 0 /\ L \in Level /\ L + 1 \in Level
  BY LsmAssumption DEF Level
<1>2. IsTables(files[L], W) /\ IsTables(files[L + 1], W)
  BY <1>1 DEF LevelTables
<1>3. Parents(L, A) = Overlapping(files[L + 1], LowOf(A), HighOf(A))
  BY <1>1 DEF Parents, GetOverlappingInputs
<1>4. Parents(L, A) \subseteq files[L + 1]
  BY <1>3 DEF Overlapping
<1>5. IsTables(A, W) /\ IsTables(Parents(L, A), W)
  BY <1>2, <1>4, TablesSubset
<1>6. AreTables(A, W) /\ AreTables(Parents(L, A), W)
  BY <1>5, TablesAre
<1> QED
  BY <1>3, <1>4, <1>5, <1>6 DEF Parents, IsTables

\* What SetupOtherInputs tries to grow the inputs to.
Grown(L, a) == GetOverlappingInputs(L, LowOf(a \cup Parents(L, a)), HighOf(a \cup Parents(L, a)))

\* The expansion of SetupOtherInputs keeps the inputs it had.
LEMMA GrownProp ==
    ASSUME NEW W, IsEntries(W), LevelTables(W), NEW L \in 0 .. NumLevels - 2,
           NEW a, a \subseteq files[L], a # {}
    PROVE  /\ a \subseteq Grown(L, a) /\ Grown(L, a) \subseteq files[L]
           /\ LowOf(a \cup Parents(L, a)) \in Keys /\ HighOf(a \cup Parents(L, a)) \in Keys
<1> DEFINE B == a \cup Parents(L, a)
           lo == LowOf(B)
           hi == HighOf(B)
<1>1. AreTables(a, W) /\ AreTables(Parents(L, a), W)
  BY ParentsProp
<1>2. AreTables(B, W) /\ B # {}
  BY <1>1 DEF AreTables
<1>3. /\ lo \in Keys /\ hi \in Keys
      /\ \A f \in B : lo <= f.smallest.key /\ f.largest.key <= hi
  BY <1>2, RangeProp
<1>4. L \in Level
  BY LsmAssumption DEF Level
<1>5. IsTables(files[L], W) /\ AreTables(files[L], W)
  BY <1>4, TablesAre DEF LevelTables
<1> HIDE DEF lo, hi
<1>6. /\ GetOverlappingInputs(L, lo, hi) \subseteq files[L]
      /\ Overlapping(files[L], lo, hi) \subseteq GetOverlappingInputs(L, lo, hi)
  BY <1>3, <1>4, <1>5, OverlapInputs
<1>7. a \subseteq Overlapping(files[L], lo, hi)
  <2> SUFFICES ASSUME NEW f \in a PROVE f.largest.key >= lo /\ f.smallest.key <= hi
    BY DEF Overlapping
  <2>1. f.smallest.key \in Int /\ f.largest.key \in Int /\ f.smallest.key <= f.largest.key
    BY <1>1, TableProp DEF AreTables
  <2>2. lo \in Int /\ hi \in Int
    BY <1>3, KeyIsInt
  <2>3. lo <= f.smallest.key /\ f.largest.key <= hi
    BY <1>3
  <2> QED
    BY <2>1, <2>2, <2>3
<1> QED
  BY <1>3, <1>6, <1>7 DEF Grown, lo, hi

\* More files have more parents; as many are the same ones.
LEMMA ParentsGrow ==
    ASSUME NEW W, IsEntries(W), LevelTables(W), NEW L \in 0 .. NumLevels - 2,
           NEW a, NEW x, a \subseteq x, x \subseteq files[L], a # {},
           Cardinality(Parents(L, x)) = Cardinality(Parents(L, a))
    PROVE  Parents(L, x) = Parents(L, a)
<1>1. /\ Parents(L, a) = Overlapping(files[L + 1], LowOf(a), HighOf(a))
      /\ Parents(L, x) = Overlapping(files[L + 1], LowOf(x), HighOf(x))
      /\ AreTables(a, W) /\ AreTables(x, W) /\ IsFiniteSet(Parents(L, x)) /\ x # {}
  BY ParentsProp
<1>2. L + 1 \in Level
  BY LsmAssumption DEF Level
<1>3. AreTables(files[L + 1], W)
  BY <1>2, TablesAre DEF LevelTables
<1>4. /\ LowOf(a) \in Keys /\ HighOf(a) \in Keys /\ LowOf(x) \in Keys /\ HighOf(x) \in Keys
      /\ LowOf(x) <= LowOf(a) /\ HighOf(a) <= HighOf(x)
  <2>1. /\ LowOf(a) \in Keys /\ HighOf(a) \in Keys
        /\ \E f \in a : f.smallest.key = LowOf(a)
        /\ \E f \in a : f.largest.key = HighOf(a)
    BY <1>1, RangeProp
  <2>2. /\ LowOf(x) \in Keys /\ HighOf(x) \in Keys
        /\ \A f \in x : LowOf(x) <= f.smallest.key /\ f.largest.key <= HighOf(x)
    BY <1>1, RangeProp
  <2> QED
    BY <2>1, <2>2
<1>5. Parents(L, a) \subseteq Parents(L, x)
  BY <1>1, <1>3, <1>4, OverlapMonotone
<1> QED
  BY <1>1, <1>5, FS_Subset

\* SetupOtherInputs takes the boundary inputs of what was picked, or the expanded ones, with the same parents.
LEMMA SetupCases ==
    ASSUME NEW W, IsEntries(W), LevelTables(W), NEW L \in 0 .. NumLevels - 2,
           NEW picked, picked \subseteq files[L], picked # {}
    PROVE  LET a == AddBoundaryInputs(files[L], picked)
               x == AddBoundaryInputs(files[L], Grown(L, a))
           IN  \/ SetupOtherInputs(L, picked) = Inputs(L, a, Parents(L, a))
               \/ /\ SetupOtherInputs(L, picked) = Inputs(L, x, Parents(L, x))
                  /\ Parents(L, x) = Parents(L, a)
<1> DEFINE a == AddBoundaryInputs(files[L], picked)
           p == Parents(L, a)
           x == AddBoundaryInputs(files[L], Grown(L, a))
<1>1. SetupOtherInputs(L, picked) = Grow(L, a, p, x)
  BY DEF SetupOtherInputs, WithParents, Expand, Grown
<1>2. a \subseteq files[L] /\ a # {}
  BY BoundaryLeast
<1> HIDE DEF a
<1>3. a \subseteq Grown(L, a) /\ Grown(L, a) \subseteq files[L]
  BY <1>2, GrownProp
<1>4. a \subseteq x /\ x \subseteq files[L]
  BY <1>3, BoundaryLeast
<1> HIDE DEF x
<1>5. Cardinality(Parents(L, x)) = Cardinality(p) => Parents(L, x) = p
  BY <1>2, <1>4, ParentsGrow
<1>6. \/ SetupOtherInputs(L, picked) = Inputs(L, a, p)
      \/ /\ SetupOtherInputs(L, picked) = Inputs(L, x, Parents(L, x))
         /\ Cardinality(Parents(L, x)) = Cardinality(p)
  BY <1>1 DEF Grow
<1> QED
  BY <1>5, <1>6 DEF a, x

\* The inputs SetupOtherInputs ends with.
IsSetup(c, L, W) ==
    /\ c.level = L /\ c.in0 \subseteq files[L] /\ c.in0 # {}
    /\ c.in1 = Overlapping(files[L + 1], LowOf(c.in0), HighOf(c.in0))
    /\ IsTables(c.grandparents, W)

\* What SetupOtherInputs returns: files of two levels and grandparents,
LEMMA InputsProp ==
    ASSUME NEW W, IsEntries(W), LevelTables(W), NEW L \in 0 .. NumLevels - 2,
           NEW a, a \subseteq files[L], a # {}
    PROVE  IsSetup(Inputs(L, a, Parents(L, a)), L, W)
<1> DEFINE c == Inputs(L, a, Parents(L, a))
           B == a \cup Parents(L, a)
<1>1. /\ Parents(L, a) = Overlapping(files[L + 1], LowOf(a), HighOf(a))
      /\ AreTables(a, W) /\ AreTables(Parents(L, a), W)
  BY ParentsProp
<1>2. AreTables(B, W) /\ B # {}
  BY <1>1 DEF AreTables
<1>3. LowOf(B) \in Keys /\ HighOf(B) \in Keys
  BY <1>2, RangeProp
<1>4. c.level = L /\ c.in0 = a /\ c.in1 = Parents(L, a)
  BY DEF Inputs
<1>5. CASE L + 2 < NumLevels
  <2>1. c.grandparents = GetOverlappingInputs(L + 2, LowOf(B), HighOf(B))
    BY <1>5 DEF Inputs
  <2>2. L + 2 \in Level
    BY <1>5, LsmAssumption DEF Level
  <2>3. IsTables(files[L + 2], W) /\ AreTables(files[L + 2], W)
    BY <2>2, TablesAre DEF LevelTables
  <2>4. c.grandparents \subseteq files[L + 2]
    BY <1>3, <2>1, <2>2, <2>3, OverlapInputs
  <2>5. IsTables(c.grandparents, W)
    BY <2>3, <2>4, TablesSubset
  <2> QED
    BY <1>1, <1>4, <2>5 DEF IsSetup
<1>6. CASE ~(L + 2 < NumLevels)
  <2>1. c.grandparents = {}
    BY <1>6 DEF Inputs
  <2>2. IsTables(c.grandparents, W)
    BY <2>1, FS_EmptySet DEF IsTables
  <2> QED
    BY <1>1, <1>4, <2>2 DEF IsSetup
<1> QED
  BY <1>5, <1>6

\* whichever of the two it takes.
LEMMA SetupProp ==
    ASSUME NEW W, IsEntries(W), LevelTables(W), NEW L \in 0 .. NumLevels - 2,
           NEW picked, picked \subseteq files[L], picked # {}
    PROVE  IsSetup(SetupOtherInputs(L, picked), L, W)
<1> DEFINE a == AddBoundaryInputs(files[L], picked)
           x == AddBoundaryInputs(files[L], Grown(L, a))
<1>1. a \subseteq files[L] /\ a # {}
  BY BoundaryLeast
<1>2. \/ SetupOtherInputs(L, picked) = Inputs(L, a, Parents(L, a))
      \/ SetupOtherInputs(L, picked) = Inputs(L, x, Parents(L, x))
  BY SetupCases
<1> HIDE DEF a
<1>3. a \subseteq Grown(L, a) /\ Grown(L, a) \subseteq files[L]
  BY <1>1, GrownProp
<1>4. x \subseteq files[L] /\ x # {}
  BY <1>1, <1>3, BoundaryLeast
<1> HIDE DEF x
<1> QED
  BY <1>1, <1>2, <1>4, InputsProp

\* What a compaction may be asked for at a level.
IsPick(P, L) ==
    /\ P \subseteq files[L] /\ P # {}
    /\ IF L = 0 THEN \E b, e \in Keys : P = GetOverlappingInputs(0, b, e) ELSE Convex(P, files[L])

\* The picked files with their boundary inputs hold the oldest entries their level has of their keys,
LEMMA PickSeparates ==
    ASSUME NEW W, IsEntries(W), LevelTables(W), NEW L \in 0 .. NumLevels - 2,
           L # 0 => Disjoint(files[L]), NEW P, IsPick(P, L)
    PROVE  Separate(AddBoundaryInputs(files[L], P), files[L])
<1>1. L \in Level
  BY LsmAssumption DEF Level
<1>2. AreTables(files[L], W)
  BY <1>1, TablesAre DEF LevelTables
<1>3. CASE L = 0
  <2>1. PICK b, e \in Keys : P = GetOverlappingInputs(0, b, e)
    BY <1>3 DEF IsPick
  <2>2. P # {}
    BY DEF IsPick
  <2> QED
    BY <1>2, <1>3, <2>1, <2>2, LevelZeroSeparates
<1>4. CASE L # 0
  BY <1>2, <1>4, BoundarySeparates DEF IsPick
<1> QED
  BY <1>3, <1>4

\* No entry that is older than one compacted stays in its level.
LEMMA SetupSeparates ==
    ASSUME NEW W, IsEntries(W), LevelTables(W), NEW L \in 0 .. NumLevels - 2,
           L # 0 => Disjoint(files[L]), NEW P, IsPick(P, L)
    PROVE  Separate(SetupOtherInputs(L, P).in0, files[L])
<1> DEFINE a == AddBoundaryInputs(files[L], P)
           G == Grown(L, a)
           x == AddBoundaryInputs(files[L], G)
<1>0. P \subseteq files[L] /\ P # {}
  BY DEF IsPick
<1>1. a \subseteq files[L] /\ a # {}
  BY <1>0, BoundaryLeast
<1>2. Separate(a, files[L])
  BY PickSeparates
<1>3. SetupOtherInputs(L, P).in0 = a \/ SetupOtherInputs(L, P).in0 = x
  <2>1. \/ SetupOtherInputs(L, P) = Inputs(L, a, Parents(L, a))
        \/ SetupOtherInputs(L, P) = Inputs(L, x, Parents(L, x))
    BY <1>0, SetupCases
  <2> QED
    BY <2>1 DEF Inputs
<1> HIDE DEF a
<1>4. /\ a \subseteq G /\ G \subseteq files[L]
      /\ LowOf(a \cup Parents(L, a)) \in Keys /\ HighOf(a \cup Parents(L, a)) \in Keys
  BY <1>1, GrownProp
<1>5. IsPick(G, L)
  <2>1. CASE L = 0
    BY <1>1, <1>4, <2>1 DEF IsPick, Grown
  <2>2. CASE L # 0
    <3>1. G = Overlapping(files[L], LowOf(a \cup Parents(L, a)), HighOf(a \cup Parents(L, a)))
      BY <2>2 DEF Grown, GetOverlappingInputs
    <3>2. L \in Level
      BY LsmAssumption DEF Level
    <3>3. AreTables(files[L], W)
      BY <3>2, TablesAre DEF LevelTables
    <3>4. Convex(G, files[L])
      BY <1>4, <3>1, <3>3, ConvexOverlap
    <3> QED
      BY <1>1, <1>4, <2>2, <3>4 DEF IsPick
  <2> QED
    BY <2>1, <2>2
<1> HIDE DEF G
<1>6. Separate(x, files[L])
  BY <1>5, PickSeparates
<1> QED
  BY <1>2, <1>3, <1>6

\* Inputs without a gap stay so.
LEMMA SetupSolid ==
    ASSUME NEW W, IsEntries(W), LevelTables(W), NEW L \in 0 .. NumLevels - 2,
           NEW P, P \subseteq files[L], P # {}, Solid(P)
    PROVE  Solid(SetupOtherInputs(L, P).in0 \cup SetupOtherInputs(L, P).in1)
<1> DEFINE a == AddBoundaryInputs(files[L], P)
           p == Parents(L, a)
           G == Grown(L, a)
           x == AddBoundaryInputs(files[L], G)
<1>0. L \in Level /\ L + 1 \in Level
  BY LsmAssumption DEF Level
<1>00. AreTables(files[L], W) /\ AreTables(files[L + 1], W)
  BY <1>0, TablesAre DEF LevelTables
<1>1. a \subseteq files[L] /\ a # {}
  BY BoundaryLeast
<1>2. \/ SetupOtherInputs(L, P).in0 = a /\ SetupOtherInputs(L, P).in1 = p
      \/ SetupOtherInputs(L, P).in0 = x /\ SetupOtherInputs(L, P).in1 = p
  <2>1. \/ SetupOtherInputs(L, P) = Inputs(L, a, Parents(L, a))
        \/ SetupOtherInputs(L, P) = Inputs(L, x, Parents(L, x)) /\ Parents(L, x) = Parents(L, a)
    BY SetupCases
  <2> QED
    BY <2>1 DEF Inputs
<1>3. Solid(a)
  <2>1. AreTables({}, W) /\ P \cup {} = P /\ a \cup {} = a
    BY DEF AreTables
  <2> QED
    BY <1>00, <2>1, SolidBoundary
<1> HIDE DEF a
<1>4. /\ p = GetOverlappingInputs(L + 1, LowOf(a), HighOf(a))
      /\ AreTables(a, W) /\ AreTables(p, W)
  BY <1>1, ParentsProp
<1>5. Solid(a \cup p)
  BY <1>0, <1>00, <1>1, <1>3, <1>4, SolidOverlap
<1>6. a \subseteq G /\ G \subseteq files[L]
  BY <1>1, GrownProp
<1>7. Solid((a \cup p) \cup G)
  <2>1. AreTables(a \cup p, W) /\ a \cup p # {}
    BY <1>1, <1>4 DEF AreTables
  <2>2. G = GetOverlappingInputs(L, LowOf(a \cup p), HighOf(a \cup p))
    BY DEF Grown
  <2> HIDE DEF G, p
  <2> QED
    BY <1>0, <1>00, <1>5, <2>1, <2>2, SolidOverlap
<1> HIDE DEF G, p
<1>8. (a \cup p) \cup G = G \cup p /\ G # {}
  BY <1>1, <1>6
<1>9. Solid(G \cup p)
  BY <1>7, <1>8
<1>10. Solid(x \cup p)
  BY <1>00, <1>4, <1>6, <1>8, <1>9, SolidBoundary
<1> QED
  BY <1>2, <1>5, <1>10

-----------------------------------------------------------------------------
(***************************************************************************)
(* What is picked.                                                         *)
(***************************************************************************)
LEMMA SolidSingle ==
    ASSUME NEW f PROVE Solid({f})
  BY DEF Solid, Covered

IsAutomaticPick(P, L) == IsPick(P, L) /\ Solid(P)

\* PickCompaction picks one file, at level 0 with those that overlap it: such inputs have no gap.
LEMMA PickedInputsProp ==
    ASSUME NEW W, IsEntries(W), LevelTables(W), NEW pick, pick.level \in 0 .. NumLevels - 2,
           pick.file \in files[pick.level]
    PROVE  IsAutomaticPick(PickedInputs(pick), pick.level)
<1> DEFINE L == pick.level
           f == pick.file
           P == PickedInputs(pick)
<1>1. L \in Level
  BY LsmAssumption DEF Level
<1>2. AreTables(files[L], W)
  BY <1>1, TablesAre DEF LevelTables
<1>3. IsTable(f, W)
  BY <1>2 DEF AreTables
<1>4. CASE L # 0
  <2>1. P = {f}
    BY <1>4 DEF PickedInputs
  <2>2. Convex({f}, files[L])
    BY <1>2, ConvexSingle
  <2>3. Solid({f})
    BY SolidSingle
  <2> QED
    BY <1>4, <2>1, <2>2, <2>3 DEF IsAutomaticPick, IsPick
<1>5. CASE L = 0
  <2> DEFINE b == f.smallest.key
             e == f.largest.key
  <2>1. P = GetOverlappingInputs(0, b, e)
    BY <1>5 DEF PickedInputs
  <2>2. b \in Keys /\ e \in Keys
    BY <1>3, TableKeys
  <2>3. P \subseteq files[0] /\ Overlapping(files[0], b, e) \subseteq P
    BY <1>2, <1>5, <2>1, <2>2, LevelZeroLeast
  <2>4. f \in P
    <3>1. b \in Int /\ e \in Int /\ b <= e
      BY <1>3, TableProp
    <3>2. f \in Overlapping(files[0], b, e)
      BY <1>5, <3>1 DEF Overlapping
    <3> QED
      BY <2>3, <3>2
  <2>5. AreTables({f}, W)
    BY <1>3 DEF AreTables
  <2>6. LowOf({f}) = b /\ HighOf({f}) = e
    BY <2>5, RangeProp
  <2>7. Solid({f} \cup GetOverlappingInputs(0, LowOf({f}), HighOf({f})))
    BY <1>1, <1>2, <1>5, <2>5, SolidSingle, SolidOverlap
  <2>8. {f} \cup P = P
    BY <2>4
  <2>9. Solid(P)
    BY <2>1, <2>6, <2>7, <2>8
  <2> QED
    BY <1>5, <2>1, <2>2, <2>3, <2>4, <2>9 DEF IsAutomaticPick, IsPick
<1> QED
  BY <1>4, <1>5

\* CompactRange picks neighbours.
LEMMA CompactRangeProp ==
    ASSUME NEW W, IsEntries(W), LevelTables(W), NEW L \in 0 .. NumLevels - 2,
           NEW b \in Keys, NEW e \in Keys, CompactRange(L, b, e) # {}
    PROVE  IsPick(CompactRange(L, b, e), L)
<1> DEFINE P == CompactRange(L, b, e)
           O == Overlapping(files[L], b, e)
<1>1. L \in Level
  BY LsmAssumption DEF Level
<1>2. IsTables(files[L], W) /\ AreTables(files[L], W)
  BY <1>1, TablesAre DEF LevelTables
<1>3. CASE L = 0
  <2>1. P = GetOverlappingInputs(0, b, e)
    BY <1>3 DEF CompactRange
  <2>2. P \subseteq files[0]
    BY <1>2, <1>3, <2>1, LevelZeroLeast
  <2> QED
    BY <1>3, <2>1, <2>2 DEF IsPick
<1>4. CASE L # 0
  <2>1. P = Portion(Sorted(O))
    BY <1>4 DEF CompactRange, GetOverlappingInputs
  <2>2. O \subseteq files[L]
    BY DEF Overlapping
  <2>3. Convex(O, files[L])
    BY <1>2, ConvexOverlap
  <2> HIDE DEF O
  <2>4. P \subseteq O /\ Convex(P, files[L])
    BY <1>2, <2>1, <2>2, <2>3, ConvexPortion
  <2> QED
    BY <1>4, <2>2, <2>4 DEF IsPick
<1> QED
  BY <1>3, <1>4

\* The file after compact_pointer_ is one of the level.
LEMMA SizePickProp ==
    ASSUME NEW W, IsEntries(W), LevelTables(W), NEW L \in 0 .. NumLevels - 2, files[L] # {}
    PROVE  SizePick(L).level = L /\ SizePick(L).file \in files[L]
<1> DEFINE A == AfterPointer(L, files[L])
           B == IF A = {} THEN files[L] ELSE A
<1>1. L \in Level
  BY LsmAssumption DEF Level
<1>2. A \subseteq files[L]
  BY DEF AfterPointer
<1> HIDE DEF A
<1>3. B \subseteq files[L] /\ B # {}
  BY <1>2
<1>4. SizePick(L).level = L /\ SizePick(L).file = FirstFile(B)
  BY DEF SizePick, Following, A
<1> HIDE DEF B
<1>5. IsTables(B, W)
  BY <1>1, <1>3, TablesSubset DEF LevelTables
<1>6. FirstFile(B) \in B
  BY <1>3, <1>5, FirstLastFile
<1> QED
  BY <1>3, <1>4, <1>6

\* The limits grow by a factor from level to level and are never 0.
LEMMA LimitProp ==
    ASSUME NEW l \in 0 .. NumLevels - 2
    PROVE  Limit(l) \in Nat \ {0}
<1> DEFINE X == Nat \ {0}
           n == NumLevels - 1
           step == [p \in (1 .. n) \X X |-> IF p[1] <= 1 THEN BaseBytes ELSE Multiplier * p[2]]
           Def(g) == [i \in Level |-> IF i <= 1 THEN BaseBytes ELSE Multiplier * g[i - 1]]
<1>1. /\ BaseBytes \in X /\ Multiplier \in X /\ L0Trigger \in X /\ NumLevels \in Nat /\ 3 <= NumLevels
      /\ n \in Nat /\ Level = 0 .. n
  BY LsmAssumption DEF Level
<1> HIDE DEF n
<1>2. step \in [(1 .. n) \X X -> X]
  <2>1. ASSUME NEW p \in (1 .. n) \X X
        PROVE  (IF p[1] <= 1 THEN BaseBytes ELSE Multiplier * p[2]) \in X
    <3>1. p[2] \in X
      OBVIOUS
    <3> DEFINE y == p[2]
    <3>2. y \in X
      BY <3>1
    <3> HIDE DEF y
    <3>3. Multiplier * y \in X
      BY <1>1, <3>2
    <3> QED
      BY <1>1, <3>3 DEF y
  <2> QED
    BY <2>1
<1> HIDE DEF X
<1>3. PICK g : IsRun(g, n, X, BaseBytes, step)
  BY <1>1, <1>2, Iteration
<1>4. g \in [0 .. n -> X] /\ g[0] = BaseBytes /\ \A i \in 1 .. n : g[i] = step[<<i, g[i - 1]>>]
  BY <1>3 DEF IsRun
<1>5. ASSUME NEW i \in 0 .. n
      PROVE  g[i] = IF i <= 1 THEN BaseBytes ELSE Multiplier * g[i - 1]
  <2>1. CASE i = 0
    BY <1>4, <2>1
  <2>2. CASE i \in 1 .. n
    <3>1. i - 1 \in 0 .. n
      BY <1>1, <2>2
    <3>2. <<i, g[i - 1]>> \in (1 .. n) \X X
      BY <1>4, <2>2, <3>1
    <3>3. g[i] = step[<<i, g[i - 1]>>]
      BY <1>4, <2>2
    <3>4. step[<<i, g[i - 1]>>] = IF i <= 1 THEN BaseBytes ELSE Multiplier * g[i - 1]
      BY <3>2
    <3> QED
      BY <3>3, <3>4
  <2> QED
    BY <1>1, <2>1, <2>2
<1>6. g = Def(g)
  BY <1>1, <1>4, <1>5
<1>7. MaxBytesForLevel = CHOOSE f : f = Def(f)
  BY DEF MaxBytesForLevel
<1>8. MaxBytesForLevel = Def(MaxBytesForLevel)
  <2> HIDE DEF Def
  <2> QED
    BY <1>6, <1>7
<1>9. \A f, h : f = Def(f) /\ h = Def(h) => \A i \in 0 .. n : f[i] = h[i]
  <2> SUFFICES ASSUME NEW f, NEW h, f = Def(f), h = Def(h), NEW k \in 0 .. n, f[k] # h[k] PROVE FALSE
    OBVIOUS
  <2> DEFINE Bad == {i \in 0 .. n : f[i] # h[i]}
  <2>1. Bad \subseteq Nat /\ Bad # {}
    <3>1. 0 .. n \subseteq Nat
      BY <1>1
    <3> QED
      BY <3>1, Zenon
  <2>2. PICK i \in Bad : \A j \in Bad : i <= j
    <3> HIDE DEF Bad
    <3> QED
      BY <2>1, LeastNatural
  <2>3. /\ f[i] = (IF i <= 1 THEN BaseBytes ELSE Multiplier * f[i - 1])
        /\ h[i] = (IF i <= 1 THEN BaseBytes ELSE Multiplier * h[i - 1])
    BY <1>1
  <2>4. i > 1 => f[i - 1] = h[i - 1]
    <3> SUFFICES ASSUME i > 1 PROVE f[i - 1] = h[i - 1]
      OBVIOUS
    <3>1. i \in 0 .. n /\ i \in Int /\ i - 1 \in 0 .. n /\ ~(i <= i - 1)
      BY <1>1
    <3>2. i - 1 \notin Bad
      <4> HIDE DEF Bad
      <4> QED
        BY <2>2, <3>1
    <3> QED
      BY <3>1, <3>2
  <2>5. f[i] # h[i]
    OBVIOUS
  <2> QED
    BY <1>1, <2>3, <2>4, <2>5
<1>10. l \in 0 .. n
  BY <1>1 DEF n
<1>11. MaxBytesForLevel[l] \in X
  <2> HIDE DEF Def
  <2>1. MaxBytesForLevel[l] = g[l]
    BY <1>6, <1>8, <1>9, <1>10
  <2> QED
    BY <1>4, <1>10, <2>1
<1> QED
  BY <1>1, <1>11 DEF Limit, X

\* Amounts are natural numbers, and nothing is in an empty level.
LEMMA AmountProp ==
    ASSUME NEW W, IsEntries(W), LevelTables(W), NEW l \in 0 .. NumLevels - 2
    PROVE  Amount(files, l) \in Nat /\ (files[l] = {} => Amount(files, l) = 0)
<1>1. l \in Level
  BY LsmAssumption DEF Level
<1>2. IsTables(files[l], W)
  BY <1>1 DEF LevelTables
<1>3. TotalFileSize(files[l]) \in Nat /\ (files[l] = {} => TotalFileSize(files[l]) = 0)
  BY <1>2, SizeProp
<1>4. Cardinality(files[l]) \in Nat /\ (files[l] = {} => Cardinality(files[l]) = 0)
  BY <1>2, FS_CardinalityType, FS_EmptySet DEF IsTables
<1> QED
  BY <1>3, <1>4 DEF Amount

\* Multiplication by a positive number keeps and reflects the order.
LEMMA ProductOrder ==
    ASSUME NEW x \in Nat, NEW y \in Nat, NEW z \in Nat \ {0}
    PROVE  /\ x * z \in Nat /\ y * z \in Nat
           /\ x < y => x * z < y * z
           /\ x <= y => x * z <= y * z
           /\ x * z < y * z => x < y
           /\ x * z <= y * z => x <= y
  OBVIOUS

\* Scores are fractions, compared without dividing; better scores are transitive.
LEMMA ScoreTransitive ==
    ASSUME NEW a \in Nat, NEW b \in Nat, NEW c \in Nat,
           NEW p \in Nat \ {0}, NEW q \in Nat \ {0}, NEW r \in Nat \ {0},
           b * p <= a * q, c * q <= b * r
    PROVE  /\ c * p <= a * r
           /\ b * p < a * q \/ c * q < b * r => c * p < a * r
<1> DEFINE ap == a * q
           bp == b * p
           br == b * r
           cq == c * q
           ar == a * r
           cp == c * p
<1>1. ap \in Nat /\ bp \in Nat /\ br \in Nat /\ cq \in Nat /\ ar \in Nat /\ cp \in Nat
  OBVIOUS
<1>2. ap * r = ar * q /\ bp * r = br * p /\ cq * p = cp * q
  OBVIOUS
<1> HIDE DEF ap, bp, br, cq, ar, cp
<1>3. bp <= ap /\ cq <= br
  BY DEF ap, bp, br, cq
<1>4. /\ bp * r \in Nat /\ ap * r \in Nat /\ cq * p \in Nat /\ br * p \in Nat
      /\ bp * r <= ap * r /\ cq * p <= br * p
  BY <1>1, <1>3, ProductOrder
<1>5. cp * q <= ar * q
  BY <1>2, <1>4
<1>6. cp <= ar
  BY <1>1, <1>5, ProductOrder
<1>7. ASSUME bp < ap \/ cq < br PROVE cp < ar
  <2>1. bp * r < ap * r \/ cq * p < br * p
    BY <1>1, <1>7, ProductOrder
  <2>2. cp * q < ar * q
    BY <1>2, <1>4, <2>1
  <2> QED
    BY <1>1, <2>2, ProductOrder
<1> QED
  BY <1>6, <1>7 DEF ap, bp, br, cq, ar, cp

\* Finalize finds a best level: scores are ordered, and the levels are finitely many.
LEMMA CompactionLevelExists ==
    ASSUME NEW W, IsEntries(W), LevelTables(W)
    PROVE  \E l \in 0 .. NumLevels - 2 : \A m \in 0 .. NumLevels - 2 : Better(files, l, m)
<1> DEFINE S == 0 .. NumLevels - 2
           R == {p \in S \X S : p[1] # p[2] /\ Better(files, p[1], p[2])}
<1>1. /\ NumLevels - 2 \in Nat /\ 0 \in S
  BY LsmAssumption
<1>2. IsFiniteSet(S) /\ S # {}
  BY <1>1, FS_Interval
<1>3. \A l \in S : l \in Int /\ Amount(files, l) \in Nat /\ Limit(l) \in Nat \ {0}
  BY AmountProp, LimitProp
<1> HIDE DEF S
<1>4. \A x, y \in S : <<x, y>> \in R <=> x # y /\ Better(files, x, y)
  OBVIOUS
<1> HIDE DEF R
<1>5. ASSUME NEW x \in S, NEW y \in S, NEW z \in S, x # y, y # z, Better(files, x, y), Better(files, y, z)
      PROVE  x # z /\ Better(files, x, z)
  <2> DEFINE a == Amount(files, x)
             b == Amount(files, y)
             c == Amount(files, z)
             p == Limit(x)
             q == Limit(y)
             r == Limit(z)
  <2>1. /\ a \in Nat /\ b \in Nat /\ c \in Nat /\ p \in Nat \ {0} /\ q \in Nat \ {0} /\ r \in Nat \ {0}
        /\ x \in Int /\ y \in Int /\ z \in Int
    BY <1>3
  <2>2. IF y < x THEN a * q > b * p ELSE a * q >= b * p
    BY <1>5 DEF Better
  <2>3. IF z < y THEN b * r > c * q ELSE b * r >= c * q
    BY <1>5 DEF Better
  <2> HIDE DEF a, b, c, p, q, r
  <2>4. a * q \in Nat /\ b * p \in Nat /\ b * r \in Nat /\ c * q \in Nat /\ a * r \in Nat /\ c * p \in Nat
    BY <2>1
  <2>5. b * p <= a * q /\ c * q <= b * r
    BY <2>2, <2>3, <2>4
  <2>6. /\ c * p <= a * r
        /\ b * p < a * q \/ c * q < b * r => c * p < a * r
    BY <2>1, <2>5, ScoreTransitive
  <2>7. z < x => b * p < a * q \/ c * q < b * r
    BY <1>5, <2>1, <2>2, <2>3, <2>4
  <2>8. IF z < x THEN a * r > c * p ELSE a * r >= c * p
    BY <2>4, <2>6, <2>7
  <2>9. Better(files, x, z)
    BY <2>8 DEF Better, a, c, p, r
  <2>10. x # z
    <3> SUFFICES ASSUME x = z PROVE FALSE
      OBVIOUS
    <3>1. c = a /\ r = p
      BY DEF a, c, p, r
    <3>2. b * p < a * q \/ c * q < b * r
      BY <1>5, <2>1, <2>2, <2>3, <2>4
    <3> QED
      BY <2>4, <2>5, <3>1, <3>2
  <2> QED
    BY <2>9, <2>10
<1>6. ASSUME NEW x \in S, NEW y \in S, x # y PROVE Better(files, x, y) \/ Better(files, y, x)
  <2> DEFINE u == Amount(files, x) * Limit(y)
             v == Amount(files, y) * Limit(x)
  <2>1. u \in Nat /\ v \in Nat /\ x \in Int /\ y \in Int
    BY <1>3
  <2>2. /\ Better(files, x, y) <=> (IF y < x THEN u > v ELSE u >= v)
        /\ Better(files, y, x) <=> (IF x < y THEN v > u ELSE v >= u)
    BY DEF Better
  <2> HIDE DEF u, v
  <2> QED
    BY <1>6, <2>1, <2>2
<1>7. StrictTotalOrder(S, R)
  BY <1>4, <1>5, <1>6 DEF StrictTotalOrder
<1>8. PICK l \in S : \A m \in S \ {l} : <<l, m>> \in R
  BY <1>2, <1>7, FirstAndLast DEF HasEnds
<1>9. Better(files, l, l)
  <2> DEFINE u == Amount(files, l) * Limit(l)
  <2>1. u \in Nat /\ l \in Int
    BY <1>3
  <2>2. Better(files, l, l) <=> (IF l < l THEN u > u ELSE u >= u)
    BY DEF Better
  <2> HIDE DEF u
  <2> QED
    BY <2>1, <2>2
<1>10. \A m \in S : Better(files, l, m)
  BY <1>4, <1>8, <1>9
<1> QED
  BY <1>10 DEF S

\* A level is compacted for its size only when it has files.
LEMMA CompactionLevelProp ==
    ASSUME NEW W, IsEntries(W), LevelTables(W), ScoreReached
    PROVE  CompactionLevel(files) \in 0 .. NumLevels - 2 /\ files[CompactionLevel(files)] # {}
<1> DEFINE l == CompactionLevel(files)
<1>1. l \in 0 .. NumLevels - 2 /\ \A m \in 0 .. NumLevels - 2 : Better(files, l, m)
  BY CompactionLevelExists DEF CompactionLevel
<1> HIDE DEF l
<1>2. PICK m \in 0 .. NumLevels - 2 : Amount(files, m) >= Limit(m)
  BY DEF ScoreReached
<1>3. /\ Amount(files, l) \in Nat /\ Amount(files, m) \in Nat /\ Limit(l) \in Nat \ {0} /\ Limit(m) \in Nat \ {0}
      /\ files[l] = {} => Amount(files, l) = 0
  BY <1>1, AmountProp, LimitProp
<1>4. Amount(files, l) * Limit(m) >= Amount(files, m) * Limit(l)
  <2> DEFINE u == Amount(files, l) * Limit(m)
             v == Amount(files, m) * Limit(l)
  <2>1. u \in Nat /\ v \in Nat
    BY <1>3
  <2>2. Better(files, l, m) <=> (IF m < l THEN u > v ELSE u >= v)
    BY DEF Better
  <2>3. Better(files, l, m)
    BY <1>1
  <2> HIDE DEF u, v
  <2>4. u >= v
    BY <2>1, <2>2, <2>3
  <2> QED
    BY <2>4 DEF u, v
<1>5. Amount(files, l) # 0
  <2> DEFINE u == Amount(files, l)
             v == Amount(files, m)
             w == Limit(m)
             x == Limit(l)
  <2>1. u \in Nat /\ v \in Nat \ {0} /\ x \in Nat \ {0} /\ w \in Nat \ {0} /\ u * w >= v * x
    BY <1>2, <1>3, <1>4
  <2> HIDE DEF u, v, w, x
  <2>2. v * x > 0
    BY <2>1
  <2>3. u # 0
    BY <2>1, <2>2
  <2> QED
    BY <2>3 DEF u
<1> QED
  BY <1>1, <1>3, <1>5 DEF l

\* PickCompaction returns a file of a level that has one below it.
LEMMA PickCompactionProp ==
    ASSUME NEW W, IsEntries(W), LevelTables(W), NeedsCompaction,
           file_to_compact # Nil => /\ file_to_compact.level \in 0 .. NumLevels - 2
                                    /\ file_to_compact.file \in files[file_to_compact.level]
    PROVE  PickCompaction.level \in 0 .. NumLevels - 2 /\ PickCompaction.file \in files[PickCompaction.level]
<1>1. CASE ScoreReached
  <2>1. PickCompaction = SizePick(CompactionLevel(files))
    BY <1>1 DEF PickCompaction
  <2>2. CompactionLevel(files) \in 0 .. NumLevels - 2 /\ files[CompactionLevel(files)] # {}
    BY <1>1, CompactionLevelProp
  <2> QED
    BY <2>1, <2>2, SizePickProp
<1>2. CASE ~ScoreReached
  BY <1>2 DEF PickCompaction, NeedsCompaction
<1> QED
  BY <1>1, <1>2
-----------------------------------------------------------------------------
(***************************************************************************)
(* Reading.                                                                *)
(***************************************************************************)
LEMMA Turns ==
    ASSUME NEW n \in Nat, NEW Good, 0 \in Good, \A i \in 1 .. n : i - 1 \in Good => i \in Good
    PROVE  0 .. n \subseteq Good
<1> SUFFICES ASSUME NEW k \in 0 .. n, k \notin Good PROVE FALSE
  OBVIOUS
<1> DEFINE Bad == {i \in 0 .. n : i \notin Good}
<1>1. Bad \subseteq Nat /\ Bad # {}
  OBVIOUS
<1>2. PICK i \in Bad : \A j \in Bad : i <= j
  <2> HIDE DEF Bad
  <2> QED
    BY <1>1, LeastNatural
<1>3. i \in 1 .. n /\ i - 1 \in 0 .. n
  OBVIOUS
<1>4. i - 1 \in Good
  BY <1>2, <1>3
<1> QED
  BY <1>3, <1>4

\* Bisection halves what is left and keeps the place looked for.
Bounds(n) == {b \in [left : 0 .. n, right : 0 .. n] : b.left <= b.right}

\* A turn of the loop leaves less and still has the place looked for between left and right.
LEMMA BisectProp ==
    ASSUME NEW n \in Nat, NEW s, NEW key, NEW b \in Bounds(n)
    PROVE  /\ Bisect(s, key, b) \in Bounds(n)
           /\ b.right - b.left \in Nat /\ Bisect(s, key, b).right - Bisect(s, key, b).left \in Nat
           /\ \/ Bisect(s, key, b).right - Bisect(s, key, b).left < b.right - b.left
              \/ Bisect(s, key, b).right = Bisect(s, key, b).left
           /\ \A t \in 1 .. n :
                  /\ \A i \in 1 .. n : Before(s[i].largest, key) <=> i < t
                  /\ b.left < t /\ t <= b.right + 1
                  => Bisect(s, key, b).left < t /\ t <= Bisect(s, key, b).right + 1
<1> DEFINE l == b.left
           r == b.right
           mid == (l + r) \div 2
           c == Bisect(s, key, b)
<1>1. b \in [left : 0 .. n, right : 0 .. n] /\ l \in 0 .. n /\ r \in 0 .. n /\ l <= r
  BY DEF Bounds
<1>2. CASE l >= r
  <2>1. c = b
    BY <1>2 DEF Bisect
  <2> QED
    BY <1>1, <1>2, <2>1
<1>3. CASE ~(l >= r)
  <2>1. mid \in Int /\ l <= mid /\ mid < r
    BY <1>1, <1>3
  <2>2. CASE Before(s[mid + 1].largest, key)
    <3>1. c = [b EXCEPT !.left = mid + 1]
      BY <1>3, <2>2 DEF Bisect
    <3> HIDE DEF mid, c
    <3>2. c \in [left : 0 .. n, right : 0 .. n] /\ c.left = mid + 1 /\ c.right = r
      BY <1>1, <2>1, <3>1
    <3>3. c \in Bounds(n)
      BY <1>1, <2>1, <3>2 DEF Bounds
    <3>4. ASSUME NEW t \in 1 .. n, \A i \in 1 .. n : Before(s[i].largest, key) <=> i < t, l < t, t <= r + 1
          PROVE  c.left < t /\ t <= c.right + 1
      <4>1. mid + 1 \in 1 .. n
        BY <1>1, <2>1
      <4>2. mid + 1 < t
        BY <2>2, <3>4, <4>1
      <4> QED
        BY <3>2, <3>4, <4>2
    <3> QED
      BY <1>1, <2>1, <3>2, <3>3, <3>4 DEF c
  <2>3. CASE ~Before(s[mid + 1].largest, key)
    <3>1. c = [b EXCEPT !.right = mid]
      BY <1>3, <2>3 DEF Bisect
    <3> HIDE DEF mid, c
    <3>2. c \in [left : 0 .. n, right : 0 .. n] /\ c.left = l /\ c.right = mid
      BY <1>1, <2>1, <3>1
    <3>3. c \in Bounds(n)
      BY <1>1, <2>1, <3>2 DEF Bounds
    <3>4. ASSUME NEW t \in 1 .. n, \A i \in 1 .. n : Before(s[i].largest, key) <=> i < t, l < t, t <= r + 1
          PROVE  c.left < t /\ t <= c.right + 1
      <4>1. mid + 1 \in 1 .. n
        BY <1>1, <2>1
      <4>2. ~(mid + 1 < t)
        BY <2>3, <3>4, <4>1
      <4> QED
        BY <2>1, <3>2, <3>4, <4>2
    <3> QED
      BY <1>1, <2>1, <3>2, <3>3, <3>4 DEF c
  <2> QED
    BY <2>2, <2>3
<1> QED
  BY <1>1, <1>2, <1>3

\* FindFile finds the file whose keys begin before the place and end at or after it.
LEMMA FindFileProp ==
    ASSUME NEW n \in Nat, NEW T, NEW s \in [1 .. n -> T], Len(s) = n, NEW key
    PROVE  /\ FindFile(s, key) \in 1 .. n + 1
           /\ \A t \in 1 .. n :
                  (\A i \in 1 .. n : Before(s[i].largest, key) <=> i < t) => FindFile(s, key) = t
<1> DEFINE X == Bounds(n)
           b == [left |-> 0, right |-> n]
           step == [p \in (1 .. n) \X X |-> Bisect(s, key, p[2])]
           Loop(g) == [i \in 0 .. n |-> IF i = 0 THEN b ELSE Bisect(s, key, g[i - 1])]
           turn == CHOOSE g : g = Loop(g)
<1>1. FindFile(s, key) = turn[n].right + 1
  BY DEF FindFile
<1>2. b \in X
  BY DEF Bounds
<1>3. step \in [(1 .. n) \X X -> X]
  <2>1. \A p \in (1 .. n) \X X : Bisect(s, key, p[2]) \in X
    <3>1. ASSUME NEW p \in (1 .. n) \X X PROVE Bisect(s, key, p[2]) \in X
      <4> DEFINE y == p[2]
      <4>1. y \in X
        OBVIOUS
      <4> HIDE DEF y, X
      <4>2. Bisect(s, key, y) \in X
        BY <4>1, BisectProp DEF X
      <4> QED
        BY <4>2 DEF y
    <3> QED
      BY <3>1
  <2> HIDE DEF X
  <2> QED
    BY <2>1
<1> HIDE DEF X, b
<1>4. PICK h : IsRun(h, n, X, b, step)
  BY <1>2, <1>3, Iteration
<1>5. h \in [0 .. n -> X] /\ h[0] = b /\ \A i \in 1 .. n : h[i] = Bisect(s, key, h[i - 1])
  <2>1. h \in [0 .. n -> X] /\ h[0] = b /\ \A i \in 1 .. n : h[i] = step[<<i, h[i - 1]>>]
    BY <1>4 DEF IsRun
  <2>2. ASSUME NEW i \in 1 .. n PROVE step[<<i, h[i - 1]>>] = Bisect(s, key, h[i - 1])
    <3>1. i - 1 \in 0 .. n
      OBVIOUS
    <3>2. <<i, h[i - 1]>> \in (1 .. n) \X X
      BY <2>1, <3>1
    <3> QED
      BY <3>2
  <2> HIDE DEF step
  <2> QED
    BY <2>1, <2>2
<1>6. h = Loop(h)
  <2>1. \A i \in 0 .. n : h[i] = IF i = 0 THEN b ELSE Bisect(s, key, h[i - 1])
    <3>1. ASSUME NEW i \in 0 .. n, i # 0 PROVE i \in 1 .. n
      BY <3>1
    <3> QED
      BY <1>5, <3>1
  <2> QED
    BY <1>5, <2>1
<1>7. turn = Loop(turn)
  <2> HIDE DEF Loop
  <2> QED
    BY <1>6
<1> HIDE DEF turn
<1>8. turn[0] = b /\ \A i \in 1 .. n : turn[i] = Bisect(s, key, turn[i - 1])
  BY <1>7
<1> DEFINE Left(i) == turn[i].right - turn[i].left
           Good == {i \in 0 .. n : turn[i] \in X /\ (Left(i) <= n - i \/ turn[i].right = turn[i].left)}
<1>9. 0 .. n \subseteq Good
  <2>1. 0 \in Good
    <3>1. b.left = 0 /\ b.right = n
      BY DEF b
    <3> QED
      BY <1>2, <1>8, <3>1
  <2>2. ASSUME NEW i \in 1 .. n, i - 1 \in Good PROVE i \in Good
    <3> DEFINE y == turn[i - 1]
               z == Bisect(s, key, y)
    <3>1. y \in X /\ (y.right - y.left <= n - (i - 1) \/ y.right = y.left) /\ turn[i] = z
      BY <1>8, <2>2
    <3> HIDE DEF y
    <3>2. /\ z \in X /\ y.right - y.left \in Nat /\ z.right - z.left \in Nat
          /\ z.right - z.left < y.right - y.left \/ z.right = z.left
      BY <3>1, BisectProp DEF X
    <3> HIDE DEF z
    <3>3. y.right \in Int /\ y.left \in Int /\ z.right \in Int /\ z.left \in Int
      BY <3>1, <3>2 DEF X, Bounds
    <3>4. z.right - z.left <= n - i \/ z.right = z.left
      BY <3>1, <3>2, <3>3
    <3> QED
      BY <3>1, <3>2, <3>4
  <2> HIDE DEF Good
  <2> QED
    BY <2>1, <2>2, Turns
<1>10. turn[n] \in X /\ turn[n].right = turn[n].left /\ turn[n].right \in 0 .. n
  <2>1. turn[n] \in X /\ (turn[n].right - turn[n].left <= n - n \/ turn[n].right = turn[n].left)
    <3>1. n \in Good
      BY <1>9
    <3> QED
      BY <3>1
  <2>2. turn[n].right \in 0 .. n /\ turn[n].left \in 0 .. n /\ turn[n].left <= turn[n].right
    BY <2>1 DEF X, Bounds
  <2> QED
    BY <2>1, <2>2
<1>11. ASSUME NEW t \in 1 .. n, \A i \in 1 .. n : Before(s[i].largest, key) <=> i < t
       PROVE  turn[n].right + 1 = t
  <2> DEFINE Fine == {i \in 0 .. n : turn[i].left < t /\ t <= turn[i].right + 1}
  <2>1. 0 \in Fine
    <3>1. b.left = 0 /\ b.right = n
      BY DEF b
    <3> QED
      BY <1>8, <3>1
  <2>2. ASSUME NEW i \in 1 .. n, i - 1 \in Fine PROVE i \in Fine
    <3> DEFINE y == turn[i - 1]
    <3>1. i - 1 \in Good
      <4> HIDE DEF Good
      <4>1. i - 1 \in 0 .. n
        OBVIOUS
      <4> QED
        BY <1>9, <4>1
    <3>2. y \in X /\ turn[i] = Bisect(s, key, y) /\ y.left < t /\ t <= y.right + 1
      BY <1>8, <2>2, <3>1
    <3> HIDE DEF y
    <3>3. Bisect(s, key, y).left < t /\ t <= Bisect(s, key, y).right + 1
      BY <1>11, <3>2, BisectProp DEF X
    <3> QED
      BY <3>2, <3>3
  <2>3. 0 .. n \subseteq Fine
    <3> HIDE DEF Fine
    <3> QED
      BY <2>1, <2>2, Turns
  <2>4. turn[n].left < t /\ t <= turn[n].right + 1
    BY <2>3
  <2> QED
    BY <1>10, <2>4
<1> QED
  BY <1>1, <1>10, <1>11

-----------------------------------------------------------------------------
\* A table or a memtable answers with the newest entry of the key that is not newer than the
\* sequence number.
IsSeen(e, data, key, seq) == e \in data /\ e.key = key /\ e.seq <= seq

\* Nothing is seen and nothing found, or the newest of what is seen is found.
LEMMA SaveValueProp ==
    ASSUME NEW W, IsEntries(W), NEW data, data \subseteq W, NEW key, NEW seq
    PROVE  \/ SaveValue(data, key, seq) = Nil /\ \A e : ~IsSeen(e, data, key, seq)
           \/ /\ SaveValue(data, key, seq) # Nil /\ IsSeen(SaveValue(data, key, seq), data, key, seq)
              /\ \A d : IsSeen(d, data, key, seq) => d.seq <= SaveValue(data, key, seq).seq
<1> DEFINE seen == {e \in data : e.key = key /\ e.seq <= seq}
           S == {e.seq : e \in seen}
<1>1. CASE seen = {}
  <2>1. SaveValue(data, key, seq) = Nil
    BY <1>1 DEF SaveValue
  <2> QED
    BY <1>1, <2>1 DEF IsSeen
<1>2. CASE seen # {}
  <2>1. SaveValue(data, key, seq) = CHOOSE e \in seen : \A d \in seen : d.seq <= e.seq
    BY <1>2 DEF SaveValue
  <2>2. S \subseteq 1 .. MaxSeq
    BY EntryType DEF IsEntries
  <2>3. S # {}
    BY <1>2
  <2> HIDE DEF S
  <2>4. MaxSeq \in Nat
    BY LsmAssumption
  <2>5. IsFiniteSet(S) /\ S \subseteq Nat
    <3>1. IsFiniteSet(1 .. MaxSeq)
      BY <2>4, FS_Interval
    <3>2. IsFiniteSet(S)
      BY <2>2, <3>1, FS_Subset
    <3>3. 1 .. MaxSeq \subseteq Nat
      BY <2>4
    <3> QED
      BY <2>2, <3>2, <3>3
  <2>6. Max(S) \in S /\ \A y \in S : y <= Max(S)
    BY <2>3, <2>5, MaxProp
  <2>7. \E e \in seen : \A d \in seen : d.seq <= e.seq
    BY <2>6 DEF S
  <2>8. SaveValue(data, key, seq) \in seen /\ \A d \in seen : d.seq <= SaveValue(data, key, seq).seq
    <3> HIDE DEF seen
    <3> QED
      BY <2>1, <2>7
  <2>9. SaveValue(data, key, seq) # Nil
    BY <2>8, LsmAssumption DEF IsEntries
  <2> QED
    BY <2>8, <2>9 DEF IsSeen
<1> QED
  BY <1>1, <1>2

-----------------------------------------------------------------------------
\* The files looked into at a level are files of it; below level 0 it is one at most.
LEMMA CandidatesProp ==
    ASSUME NEW W, IsEntries(W), LevelTables(W), NEW l \in Level, NEW key, NEW seq
    PROVE  /\ Candidates(l, key, seq) \subseteq files[l]
           /\ l # 0 => \A f, g \in Candidates(l, key, seq) : f = g
<1>1. CASE l = 0
  BY <1>1 DEF Candidates
<1>2. CASE l # 0
  <2> DEFINE s == Sorted(files[l])
             n == Cardinality(files[l])
             i == FindFile(s, [key |-> key, seq |-> seq])
  <2>1. n \in Nat /\ s \in [1 .. n -> files[l]] /\ Len(s) = n
    BY SortedProp DEF LevelTables
  <2>2. i \in 1 .. n + 1
    <3> HIDE DEF s, n
    <3> QED
      BY <2>1, FindFileProp
  <2>3. Candidates(l, key, seq) = IF i <= Len(s) /\ s[i].smallest.key <= key THEN {s[i]} ELSE {}
    BY <1>2 DEF Candidates, Searched, At
  <2> HIDE DEF s, n, i
  <2> QED
    BY <2>1, <2>2, <2>3
<1> QED
  BY <1>1, <1>2

\* Files of the version, each with its level.
IsSearch(S) ==
    \A a \in S : a.level \in Level /\ a.file \in files[a.level] /\ a = [level |-> a.level, file |-> a.file]

\* ForEachOverlapping looks into the candidates of every level and nothing else.
LEMMA SearchProp ==
    ASSUME NEW W, IsEntries(W), LevelTables(W), NEW key, NEW seq
    PROVE  /\ IsSearch(ForEachOverlapping(key, seq))
           /\ \A a \in ForEachOverlapping(key, seq) : a.file \in Candidates(a.level, key, seq)
           /\ \A l \in Level : \A f \in Candidates(l, key, seq) :
                  [level |-> l, file |-> f] \in ForEachOverlapping(key, seq)
<1>1. \A a \in ForEachOverlapping(key, seq) :
          \E l \in Level : \E f \in Candidates(l, key, seq) : a = [level |-> l, file |-> f]
  BY DEF ForEachOverlapping
<1>2. \A l \in Level : \A f \in Candidates(l, key, seq) :
          [level |-> l, file |-> f] \in ForEachOverlapping(key, seq)
  BY DEF ForEachOverlapping
<1>3. \A l \in Level : Candidates(l, key, seq) \subseteq files[l]
  BY CandidatesProp
<1> QED
  BY <1>1, <1>2, <1>3 DEF IsSearch

\* A search that is not empty has a first file.
LEMMA FirstProp ==
    ASSUME NEW W, IsEntries(W), LevelTables(W), NEW S, IsSearch(S), S # {}
    PROVE  First(S) \in S /\ \A b \in S \ {First(S)} : NewestFirst(First(S), b)
<1> DEFINE Ls == {a.level : a \in S}
<1>1. Ls \subseteq Nat /\ Ls # {}
  BY LsmAssumption DEF IsSearch, Level
<1>2. PICK l \in Ls : \A m \in Ls : l <= m
  <2> HIDE DEF Ls
  <2> QED
    BY <1>1, LeastNatural
<1>3. l \in Level /\ l \in Int
  BY <1>1 DEF IsSearch
<1> DEFINE Ns == {a.file.number : a \in {c \in S : c.level = l}}
           All == {f.number : f \in files[l]}
<1>4. IsTables(files[l], W)
  BY <1>3 DEF LevelTables
<1>5. \A f \in files[l] : f.number \in Nat
  BY <1>4, TableProp DEF IsTables
<1>6. IsFiniteSet(All)
  <2> DEFINE fn == [f \in files[l] |-> f.number]
  <2>1. fn \in Surjection(files[l], All)
    BY DEF Surjection
  <2> HIDE DEF fn, All
  <2> QED
    BY <1>4, <2>1, FS_Surjection DEF IsTables
<1>7. Ns \subseteq All /\ Ns # {}
  BY DEF IsSearch
<1>8. Ns \subseteq Nat /\ IsFiniteSet(Ns)
  <2>1. All \subseteq Nat
    BY <1>5
  <2> HIDE DEF Ns, All
  <2> QED
    BY <1>6, <1>7, <2>1, FS_Subset
<1>9. PICK n \in Ns : \A m \in Ns : m <= n
  <2> HIDE DEF Ns
  <2> QED
    BY <1>7, <1>8, MaxProp
<1>10. PICK a \in S : a.level = l /\ a.file.number = n
  BY <1>9
<1>11. ASSUME NEW b \in S \ {a} PROVE NewestFirst(a, b)
  <2>1. b.level \in Ls /\ b.level \in Int /\ l <= b.level
    BY <1>1, <1>2
  <2>2. CASE b.level = l
    <3>1. b.file.number \in Ns
      BY <2>2
    <3>2. b.file.number <= n /\ b.file.number \in Int /\ n \in Int
      <4>1. b.file.number \in Nat /\ n \in Nat
        BY <1>8, <1>9, <3>1
      <4> QED
        BY <1>9, <3>1, <4>1
    <3>3. b.file.number # n
      <4> SUFFICES ASSUME b.file.number = n PROVE FALSE
        OBVIOUS
      <4>1. a.file \in files[l] /\ b.file \in files[l]
        BY <1>10, <2>2 DEF IsSearch
      <4>2. a.file = b.file
        BY <1>4, <1>10, <4>1 DEF IsTables
      <4>3. a = [level |-> a.level, file |-> a.file] /\ b = [level |-> b.level, file |-> b.file]
        BY DEF IsSearch
      <4> QED
        BY <1>10, <1>11, <2>2, <4>2, <4>3
    <3> QED
      BY <1>10, <2>2, <3>2, <3>3 DEF NewestFirst
  <2>3. CASE b.level # l
    BY <1>3, <1>10, <2>1, <2>3 DEF NewestFirst
  <2> QED
    BY <2>2, <2>3
<1>12. \E x \in S : \A y \in S \ {x} : NewestFirst(x, y)
  BY <1>11
<1> QED
  BY <1>12 DEF First

\* A file whose seeks ran out is not at the last level: there a read looks into no other.
LEMMA ChargeProp ==
    ASSUME NEW W, IsEntries(W), LevelTables(W), NEW key, NEW seq, NEW hits,
           Charge(ForEachOverlapping(key, seq), hits) # Nil
    PROVE  LET a == Charge(ForEachOverlapping(key, seq), hits)
           IN  a.level \in 0 .. NumLevels - 2 /\ a.file \in files[a.level]
<1> DEFINE S == ForEachOverlapping(key, seq)
           a == First(S)
<1>1. Charge(S, hits) = a /\ Cardinality(S) > 1
  BY DEF Charge
<1>2. /\ IsSearch(S) /\ \A b \in S : b.file \in Candidates(b.level, key, seq)
  BY SearchProp
<1> HIDE DEF S
<1>3. S # {}
  BY <1>1, FS_EmptySet
<1>4. a \in S /\ \A b \in S \ {a} : NewestFirst(a, b)
  BY <1>2, <1>3, FirstProp
<1> HIDE DEF a
<1>5. a.level \in Level /\ a.file \in files[a.level]
  BY <1>2, <1>4 DEF IsSearch
<1>6. a.level # NumLevels - 1
  <2> SUFFICES ASSUME a.level = NumLevels - 1 PROVE FALSE
    OBVIOUS
  <2>1. ASSUME NEW b \in S, b # a PROVE FALSE
    <3>1. b.level \in Level /\ a.level # 0
      BY <1>2, LsmAssumption DEF IsSearch
    <3>2. b.level = a.level
      BY <1>4, <2>1, <3>1, LsmAssumption DEF NewestFirst, Level
    <3>3. b.file = a.file
      BY <1>2, <1>4, <1>5, <3>1, <3>2, CandidatesProp
    <3>4. a = [level |-> a.level, file |-> a.file] /\ b = [level |-> b.level, file |-> b.file]
      BY <1>2, <1>4 DEF IsSearch
    <3> QED
      BY <2>1, <3>2, <3>3, <3>4
  <2>2. S = {a}
    BY <1>4, <2>1
  <2> QED
    BY <1>1, <2>2, FS_Singleton
<1>7. a.level \in 0 .. NumLevels - 2
  BY <1>5, <1>6, LsmAssumption DEF Level
<1> QED
  BY <1>1, <1>5, <1>7 DEF S
=============================================================================
