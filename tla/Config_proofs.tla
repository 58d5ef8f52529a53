--------------------------- MODULE Config_proofs ---------------------------
(***************************************************************************)
(* Proofs about the configuration for any target, any canned               *)
(* configurations and any symbols: the classes are those of the symbols    *)
(* whatever their order, each starts where its parent ends, success is     *)
(* complete, and a configuration in use stays.                             *)
(***************************************************************************)
EXTENDS Config, SequenceTheorems, FiniteSetTheorems, TLAPS

-----------------------------------------------------------------------------
(* Least elements, and what is inserted in a sequence                      *)

\* a set of natural numbers has a smallest element
LEMMA Least ==
    ASSUME NEW T, T \subseteq Nat, T # {}
    PROVE  \E x \in T : \A y \in T : x <= y
  <1> DEFINE R == OpToRel(<, Nat)
  <1>1. IsWellFoundedOn(R, Nat)
    BY NatLessThanWellFounded
  <1>2. \A x, y \in Nat : y < x => <<y, x>> \in R
    BY DEF OpToRel
  <1> HIDE DEF R
  <1>3. PICK x \in T : \A y \in T : ~ (<<y, x>> \in R)
    BY <1>1, WFMin
  <1>4. \A y \in T : ~ (y < x)
    BY <1>2, <1>3, Zenon
  <1> QED
    BY <1>4

LEMMA SmallestExists ==
    ASSUME NEW T, T \subseteq Nat, T # {}
    PROVE  SmallestOf(T) \in T /\ \A y \in T : SmallestOf(T) <= y
  BY Least, Zenon DEF SmallestOf

\* a finite set of numbers, none above a bound, has a largest element
LEMMA Greatest ==
    ASSUME NEW n \in Nat, NEW T, T \subseteq 0..n, T # {}
    PROVE  \E x \in T : \A y \in T : y <= x
  <1> DEFINE D == {n - x : x \in T}
  <1>1. D \subseteq Nat /\ D # {}
    <2>1. \A x \in T : n - x \in Nat
      OBVIOUS
    <2> QED
      BY <2>1
  <1>2. PICK d \in D : \A e \in D : d <= e
    BY <1>1, Least
  <1>3. PICK x \in T : d = n - x
    OBVIOUS
  <1>4. ASSUME NEW y \in T PROVE y <= x
    <2>1. n - y \in D
      OBVIOUS
    <2>2. d <= n - y
      BY <1>2, <2>1
    <2> QED
      BY <1>3, <2>2
  <1> QED
    BY <1>4

LEMMA InsertAtFacts ==
    ASSUME NEW S, NEW s \in Seq(S), NEW e \in S, NEW p \in 1..(Len(s) + 1)
    PROVE  /\ InsertAt(s, p, e) \in Seq(S)
           /\ Len(InsertAt(s, p, e)) = Len(s) + 1
           /\ \A i \in 1..(Len(s) + 1) :
                 InsertAt(s, p, e)[i] = IF i < p THEN s[i] ELSE IF i = p THEN e ELSE s[i - 1]
  <1> DEFINE a == SubSeq(s, 1, p - 1)
             b == SubSeq(s, p, Len(s))
  <1>1. Len(s) \in Nat /\ \A i \in 1..Len(s) : s[i] \in S
    BY LenProperties
  <1>2. a \in Seq(S) /\ Len(a) = p - 1 /\ \A i \in 1..(p - 1) : a[i] = s[i]
    <2>1. \A i \in 1..(p - 1) : s[i] \in S
      BY <1>1
    <2>2. p - 1 \in Int /\ 1 \in Int
      OBVIOUS
    <2> QED
      BY <2>1, <2>2, SubSeqProperties
  <1>3. b \in Seq(S) /\ Len(b) = Len(s) - p + 1 /\ \A i \in 1..(Len(s) - p + 1) : b[i] = s[p + i - 1]
    <2>1. \A i \in p..Len(s) : s[i] \in S
      BY <1>1
    <2>2. p \in Int /\ Len(s) \in Int
      BY <1>1
    <2> QED
      BY <2>1, <2>2, SubSeqProperties
  <1>4. <<e>> \in Seq(S) /\ Len(<<e>>) = 1 /\ <<e>>[1] = e
    OBVIOUS
  <1>5. InsertAt(s, p, e) = (a \o <<e>>) \o b
    BY DEF InsertAt
  <1> HIDE DEF a, b
  <1> DEFINE c == a \o <<e>>
  <1>6. /\ c \in Seq(S) /\ Len(c) = p
        /\ \A i \in 1..p : c[i] = IF i <= p - 1 THEN a[i] ELSE <<e>>[i - (p - 1)]
    BY <1>2, <1>4, ConcatProperties
  <1>7. \A i \in 1..p : c[i] = IF i < p THEN s[i] ELSE e
    BY <1>2, <1>4, <1>6
  <1> HIDE DEF c
  <1>8. /\ c \o b \in Seq(S) /\ Len(c \o b) = Len(c) + Len(b)
        /\ \A i \in 1..(Len(c) + Len(b)) : (c \o b)[i] = IF i <= Len(c) THEN c[i] ELSE b[i - Len(c)]
    BY <1>3, <1>6, ConcatProperties
  <1>9. InsertAt(s, p, e) = c \o b
    BY <1>5 DEF c
  <1>10. Len(c) + Len(b) = Len(s) + 1
    BY <1>1, <1>3, <1>6
  <1> DEFINE d == c \o b
  <1> HIDE DEF d
  <1>11. ASSUME NEW i \in 1..(Len(s) + 1)
         PROVE  d[i] = IF i < p THEN s[i] ELSE IF i = p THEN e ELSE s[i - 1]
    <2>1. CASE i <= p
      <3>1. i \in 1..p /\ i <= Len(c) /\ i \in 1..(Len(c) + Len(b)) /\ (i < p \/ i = p)
        BY <1>1, <1>6, <1>10, <2>1
      <3>2. d[i] = c[i]
        BY <1>8, <3>1 DEF d
      <3> QED
        BY <1>7, <3>1, <3>2
    <2>2. CASE i > p
      <3>1. i - p \in 1..(Len(s) - p + 1) /\ p + (i - p) - 1 = i - 1 /\ ~(i <= p)
        BY <1>1, <2>2
      <3>2. d[i] = b[i - p]
        BY <1>6, <1>8, <1>10, <3>1 DEF d
      <3> QED
        BY <1>3, <2>2, <3>1, <3>2
    <2> QED
      BY <2>1, <2>2
  <1> QED
    BY <1>8, <1>9, <1>10, <1>11 DEF d

\* what has been inserted in a sequence is in it, and all that was there
LEMMA InsertAtElements ==
    ASSUME NEW S, NEW s \in Seq(S), NEW e \in S, NEW p \in 1..(Len(s) + 1)
    PROVE  Elements(InsertAt(s, p, e)) = Elements(s) \cup {e}
  <1> DEFINE t == InsertAt(s, p, e)
  <1>1. DOMAIN s = 1..Len(s) /\ DOMAIN t = 1..(Len(s) + 1) /\ Len(s) \in Nat
    BY InsertAtFacts, LenProperties
  <1>2. \A i \in 1..(Len(s) + 1) :
           t[i] = IF i < p THEN s[i] ELSE IF i = p THEN e ELSE s[i - 1]
    BY InsertAtFacts
  <1> HIDE DEF t
  <1>3. ASSUME NEW i \in DOMAIN t PROVE t[i] \in Elements(s) \cup {e}
    <2>1. i \in 1..(Len(s) + 1) /\ (i < p => i \in 1..Len(s))
          /\ (i > p => i - 1 \in 1..Len(s))
      BY <1>1
    <2> QED
      BY <1>1, <1>2, <2>1 DEF Elements
  <1>4. ASSUME NEW i \in DOMAIN s PROVE \E j \in DOMAIN t : t[j] = s[i]
    <2>1. i \in 1..Len(s) /\ i \in 1..(Len(s) + 1) /\ i + 1 \in 1..(Len(s) + 1)
          /\ (i + 1) - 1 = i
      BY <1>1
    <2>2. CASE i < p
      BY <1>1, <1>2, <2>1, <2>2
    <2>3. CASE ~(i < p)
      <3>1. t[i + 1] = s[(i + 1) - 1]
        BY <1>2, <2>1, <2>3
      <3> QED
        BY <1>1, <2>1, <3>1
    <2> QED
      BY <2>2, <2>3
  <1>5. p \in DOMAIN t /\ t[p] = e
    BY <1>1, <1>2
  <1>6. Elements(t) \subseteq Elements(s) \cup {e}
    BY <1>3 DEF Elements
  <1>7. Elements(s) \subseteq Elements(t)
    BY <1>4, Zenon DEF Elements
  <1>8. e \in Elements(t)
    BY <1>5 DEF Elements
  <1> QED
    BY <1>6, <1>7, <1>8 DEF t
-----------------------------------------------------------------------------
(* Ancestry(S, c) is the smallest set that has c and the superclasses of   *)
(* all that it has.                                                        *)

Parents(S, X) == UNION {Superclasses(S, p) : p \in X}
Closed(S, X) == \A p \in X : Superclasses(S, p) \subseteq X

\* what a path of n steps leads to, each to a superclass or nowhere
Step(S, a, b) == a = b \/ b \in Superclasses(S, a)
Path(S, c, n, f) ==
    /\ f \in [0..n -> NameSet]
    /\ f[0] = c
    /\ \A i \in 0..n : i < n => Step(S, f[i], f[i + 1])
Within(S, c, n) == {d \in NameSet : \E f : Path(S, c, n, f) /\ f[n] = d}

LEMMA SuperclassNames ==
    ASSUME NEW S, WellFormed(S), NEW p
    PROVE  Superclasses(S, p) \subseteq NameSet
  BY DEF WellFormed, Superclasses

LEMMA WithinNone ==
    ASSUME NEW S, NEW c \in NameSet
    PROVE  Within(S, c, 0) = {c}
  <1>1. Path(S, c, 0, [i \in 0..0 |-> c])
    BY DEF Path
  <1>2. [i \in 0..0 |-> c][0] = c
    OBVIOUS
  <1>3. c \in Within(S, c, 0)
    BY <1>1, <1>2 DEF Within
  <1>4. \A d \in Within(S, c, 0) : d = c
    BY DEF Within, Path
  <1> QED
    BY <1>3, <1>4

LEMMA WithinMore ==
    ASSUME NEW S, WellFormed(S), NEW c \in NameSet, NEW n \in Nat \ {0}
    PROVE  Within(S, c, n) = Within(S, c, n - 1) \cup Parents(S, Within(S, c, n - 1))
  <1>1. n - 1 \in 0..n /\ n \in 0..n /\ 0 \in 0..n /\ n - 1 < n /\ (n - 1) + 1 = n
        /\ 0 \in 0..(n - 1) /\ n - 1 \in 0..(n - 1)
    OBVIOUS
  <1>2. ASSUME NEW d \in Within(S, c, n)
        PROVE  d \in Within(S, c, n - 1) \cup Parents(S, Within(S, c, n - 1))
    <2>1. PICK f : Path(S, c, n, f) /\ f[n] = d
      BY DEF Within
    <2> DEFINE g == [i \in 0..(n - 1) |-> f[i]]
    <2>2. Path(S, c, n - 1, g)
      <3>1. \A i \in 0..(n - 1) : i \in 0..n /\ (i < n - 1 => i + 1 \in 0..(n - 1) /\ i < n)
        OBVIOUS
      <3>2. g \in [0..(n - 1) -> NameSet] /\ g[0] = c
        BY <1>1, <2>1, <3>1 DEF Path
      <3>3. \A i \in 0..(n - 1) : i < n - 1 => Step(S, g[i], g[i + 1])
        BY <2>1, <3>1 DEF Path
      <3> QED
        BY <3>2, <3>3 DEF Path
    <2>3. g[n - 1] = f[n - 1] /\ f[n - 1] \in NameSet /\ Step(S, f[n - 1], d)
      BY <1>1, <2>1 DEF Path
    <2>4. f[n - 1] \in Within(S, c, n - 1)
      BY <2>2, <2>3 DEF Within
    <2> QED
      BY <2>3, <2>4 DEF Step, Parents
  <1>3. ASSUME NEW b \in Within(S, c, n - 1), NEW d \in NameSet, Step(S, b, d)
        PROVE  d \in Within(S, c, n)
    <2>1. PICK f : Path(S, c, n - 1, f) /\ f[n - 1] = b
      BY DEF Within
    <2> DEFINE g == [i \in 0..n |-> IF i = n THEN d ELSE f[i]]
    <2>2. \A i \in 0..n : i # n => i \in 0..(n - 1) /\ i < n
      OBVIOUS
    <2>3. g \in [0..n -> NameSet] /\ g[0] = c /\ g[n] = d
      BY <1>1, <2>1, <2>2 DEF Path
    <2>4. ASSUME NEW i \in 0..n, i < n PROVE Step(S, g[i], g[i + 1])
      <3>1. CASE i = n - 1
        BY <1>1, <1>3, <2>1, <2>2, <3>1
      <3>2. CASE i # n - 1
        <4>1. i \in 0..(n - 1) /\ i < n - 1 /\ i + 1 \in 0..n /\ i + 1 # n /\ i # n
          BY <2>4, <3>2
        <4> QED
          BY <2>1, <4>1 DEF Path
      <3> QED
        BY <3>1, <3>2
    <2>5. Path(S, c, n, g)
      BY <2>3, <2>4 DEF Path
    <2> QED
      BY <2>3, <2>5 DEF Within
  <1>4. Within(S, c, n - 1) \subseteq NameSet
    BY DEF Within
  <1>5. ASSUME NEW d \in Parents(S, Within(S, c, n - 1)) PROVE d \in Within(S, c, n)
    <2>1. PICK b \in Within(S, c, n - 1) : d \in Superclasses(S, b)
      BY DEF Parents
    <2> QED
      BY <1>3, <2>1, SuperclassNames DEF Step
  <1>6. \A d \in Within(S, c, n - 1) : d \in Within(S, c, n)
    BY <1>3, <1>4 DEF Step
  <1> QED
    BY <1>2, <1>5, <1>6

LEMMA NamesCounted ==
    /\ Len(Names) \in Nat
    /\ IsFiniteSet(NameSet)
    /\ Cardinality(NameSet) <= Len(Names)
  <1>1. Len(Names) \in Nat /\ DOMAIN Names = 1..Len(Names) /\ Names \in [1..Len(Names) -> NameSet]
    BY ConfigAssumption, LenProperties
  <1>2. IsFiniteSet(1..Len(Names)) /\ Cardinality(1..Len(Names)) = Len(Names)
    BY <1>1, FS_Interval
  <1>3. Names \in Surjection(1..Len(Names), NameSet)
    <2>1. \A n \in NameSet : \E i \in 1..Len(Names) : Names[i] = n
      BY <1>1 DEF NameSet
    <2> QED
      BY <1>1, <2>1 DEF Surjection
  <1> QED
    BY <1>1, <1>2, <1>3, FS_Surjection

(* LET Up ... of Ancestry is a function that gives what is within n steps. *)
LEMMA AncestryWithin ==
    ASSUME NEW S, WellFormed(S), NEW c \in NameSet
    PROVE  Ancestry(S, c) = Within(S, c, Len(Names))
  <1> DEFINE N == Len(Names)
             Up(f) == [n \in 0..N |-> IF n = 0 THEN {c} ELSE f[n - 1] \cup Parents(S, f[n - 1])]
             w == [n \in 0..N |-> Within(S, c, n)]
  <1>1. N \in Nat
    BY NamesCounted
  <1>2. w = Up(w)
    <2>1. ASSUME NEW n \in 0..N
          PROVE  w[n] = IF n = 0 THEN {c} ELSE w[n - 1] \cup Parents(S, w[n - 1])
      <3>1. CASE n = 0
        BY <3>1, WithinNone
      <3>2. CASE n # 0
        <4>1. n \in Nat \ {0} /\ n - 1 \in 0..N
          BY <1>1, <3>2
        <4> QED
          BY <3>2, <4>1, WithinMore
      <3> QED
        BY <3>1, <3>2
    <2> QED
      BY <2>1
  <1> DEFINE u == CHOOSE f : f = Up(f)
  <1>3. u = Up(u)
    BY <1>2, Zenon
  <1>4. Ancestry(S, c) = u[N]
    BY DEF Ancestry, Parents
  <1> HIDE DEF u, w
  <1>5. \A n \in 0..N : u[n] = IF n = 0 THEN {c} ELSE u[n - 1] \cup Parents(S, u[n - 1])
    BY <1>3
  <1> DEFINE T == {n \in 0..N : u[n] # Within(S, c, n)}
  <1>6. T = {}
    <2> SUFFICES ASSUME T # {} PROVE FALSE
      OBVIOUS
    <2>1. T \subseteq Nat
      OBVIOUS
    <2>2. PICK n \in T : \A m \in T : n <= m
      BY <2>1, Least
    <2>3. CASE n = 0
      BY <1>5, <2>3, WithinNone
    <2>4. CASE n # 0
      <3>1. n \in Nat \ {0} /\ n - 1 \in 0..N /\ ~(n <= n - 1)
        BY <2>4
      <3>2. u[n - 1] = Within(S, c, n - 1)
        BY <2>2, <3>1
      <3>3. u[n] = u[n - 1] \cup Parents(S, u[n - 1])
        BY <1>5, <2>4
      <3>4. u[n] = Within(S, c, n)
        BY <3>1, <3>2, <3>3, WithinMore
      <3> QED
        BY <3>4
    <2> QED
      BY <2>3, <2>4
  <1> QED
    BY <1>1, <1>4, <1>6

\* a path that comes through a class twice can do without what is between
LEMMA Shortcut ==
    ASSUME NEW S, NEW c, NEW n \in Nat, NEW f, Path(S, c, n, f),
           NEW x \in 0..n, NEW y \in 0..n, x < y, f[x] = f[y]
    PROVE  f[n] \in Within(S, c, n - (y - x))
  <1> DEFINE m == n - (y - x)
             g == [i \in 0..m |-> IF i <= x THEN f[i] ELSE f[i + (y - x)]]
  <1>1. m \in Nat /\ x \in 0..m /\ 0 \in 0..m /\ m \in 0..m /\ 0 <= x
    OBVIOUS
  <1>2. \A i \in 0..m : i \in 0..n /\ i + (y - x) \in 0..n
    OBVIOUS
  <1>3. g \in [0..m -> NameSet] /\ g[0] = c
    BY <1>1, <1>2 DEF Path
  <1>4. g[m] = f[n]
    <2>1. CASE m = x
      BY <1>1, <2>1
    <2>2. CASE m # x
      BY <1>1, <2>2
    <2> QED
      BY <2>1, <2>2
  <1>5. ASSUME NEW i \in 0..m, i < m PROVE Step(S, g[i], g[i + 1])
    <2>1. i + 1 \in 0..m
      BY <1>1, <1>5
    <2>2. CASE i < x
      <3>1. i <= x /\ i + 1 <= x /\ i \in 0..n /\ i < n
        BY <1>5, <2>2
      <3> QED
        BY <2>1, <3>1 DEF Path
    <2>3. CASE i = x
      <3>1. g[i] = f[y] /\ g[i + 1] = f[y + 1] /\ y < n
        <4>1. ~(i + 1 <= x) /\ (i + 1) + (y - x) = y + 1 /\ i <= x
          BY <2>3
        <4>2. y < n
          BY <1>5, <2>3
        <4> QED
          BY <2>1, <2>3, <4>1, <4>2
      <3> QED
        BY <3>1 DEF Path
    <2>4. CASE i > x
      <3> DEFINE j == i + (y - x)
      <3>1. ~(i <= x) /\ ~(i + 1 <= x) /\ (i + 1) + (y - x) = j + 1 /\ j \in 0..n /\ j < n
        BY <1>5, <2>4
      <3>2. g[i] = f[j] /\ g[i + 1] = f[j + 1]
        BY <2>1, <3>1
      <3> QED
        BY <3>1, <3>2 DEF Path
    <2> QED
      BY <2>2, <2>3, <2>4
  <1>6. Path(S, c, m, g)
    BY <1>3, <1>5 DEF Path
  <1>7. f[n] \in NameSet
    BY DEF Path
  <1> QED
    BY <1>4, <1>6, <1>7 DEF Within

\* there are not so many names that a shortest path could be longer
LEMMA WithinNames ==
    ASSUME NEW S, NEW c, NEW n \in Nat, NEW d \in Within(S, c, n)
    PROVE  \E m \in 0..Len(Names) : d \in Within(S, c, m)
  <1> DEFINE T == {m \in Nat : d \in Within(S, c, m)}
  <1>1. PICK m \in T : \A k \in T : m <= k
    <2>1. n \in T /\ T \subseteq Nat
      OBVIOUS
    <2> QED
      BY <2>1, Least
  <1>2. ASSUME m > Len(Names) PROVE FALSE
    <2>1. PICK f : Path(S, c, m, f) /\ f[m] = d
      BY DEF Within
    <2>2. IsFiniteSet(0..m) /\ Cardinality(0..m) = m + 1
      BY FS_Interval
    <2>3. Cardinality(NameSet) \in Nat
      BY NamesCounted, FS_CardinalityType
    <2>4. Cardinality(NameSet) < Cardinality(0..m)
      BY <1>2, <2>2, <2>3, NamesCounted
    <2>5. f \in [0..m -> NameSet]
      BY <2>1 DEF Path
    <2>6. PICK x, y \in 0..m : x # y /\ f[x] = f[y]
      BY <2>2, <2>4, <2>5, NamesCounted, FS_PigeonHole
    <2>7. ASSUME NEW a \in 0..m, NEW b \in 0..m, a < b, f[a] = f[b] PROVE FALSE
      <3>1. d \in Within(S, c, m - (b - a))
        BY <2>1, <2>7, Shortcut
      <3>2. m - (b - a) \in Nat /\ ~(m <= m - (b - a))
        BY <2>7
      <3> QED
        BY <1>1, <3>1, <3>2
    <2>8. x < y \/ y < x
      BY <2>6
    <2> QED
      BY <2>6, <2>7, <2>8
  <1>3. m \in 0..Len(Names)
    BY <1>2, NamesCounted
  <1> QED
    BY <1>1, <1>3

LEMMA WithinGrows ==
    ASSUME NEW S, WellFormed(S), NEW c \in NameSet, NEW n \in Nat, NEW m \in 0..n
    PROVE  Within(S, c, m) \subseteq Within(S, c, n)
  <1> DEFINE T == {k \in 0..n : k >= m /\ ~(Within(S, c, m) \subseteq Within(S, c, k))}
  <1>1. T = {}
    <2> SUFFICES ASSUME T # {} PROVE FALSE
      OBVIOUS
    <2>1. T \subseteq Nat
      OBVIOUS
    <2>2. PICK k \in T : \A j \in T : k <= j
      BY <2>1, Least
    <2>3. k # m /\ k > m /\ k \in Nat \ {0} /\ k - 1 \in 0..n /\ k - 1 >= m /\ ~(k <= k - 1)
      BY <2>2
    <2>4. Within(S, c, m) \subseteq Within(S, c, k - 1)
      BY <2>2, <2>3
    <2>5. Within(S, c, k - 1) \subseteq Within(S, c, k)
      BY <2>3, WithinMore
    <2> QED
      BY <2>4, <2>5
  <1> QED
    BY <1>1

\* a class is in its ancestry, and so is the parent of every class in it
LEMMA AncestryClosed ==
    ASSUME NEW S, WellFormed(S), NEW c \in NameSet
    PROVE  /\ c \in Ancestry(S, c)
           /\ Ancestry(S, c) \subseteq NameSet
           /\ Closed(S, Ancestry(S, c))
  <1> DEFINE N == Len(Names)
             A == Within(S, c, N)
  <1>1. N \in Nat /\ Ancestry(S, c) = A
    BY NamesCounted, AncestryWithin
  <1>2. c \in A
    <2>1. 0 \in 0..N
      BY <1>1
    <2> QED
      BY <1>1, <2>1, WithinNone, WithinGrows
  <1>3. A \subseteq NameSet
    BY DEF Within
  <1>4. ASSUME NEW p \in A, NEW d \in Superclasses(S, p) PROVE d \in A
    <2>1. N + 1 \in Nat \ {0} /\ (N + 1) - 1 = N
      BY <1>1
    <2>2. d \in Within(S, c, N + 1)
      BY <1>4, <2>1, WithinMore DEF Parents
    <2>3. PICK m \in 0..N : d \in Within(S, c, m)
      BY <2>1, <2>2, WithinNames
    <2> QED
      BY <1>1, <2>3, WithinGrows
  <1> QED
    BY <1>1, <1>2, <1>3, <1>4 DEF Closed

\* and it has nothing else
LEMMA AncestryLeast ==
    ASSUME NEW S, WellFormed(S), NEW c \in NameSet, NEW X, c \in X, Closed(S, X)
    PROVE  Ancestry(S, c) \subseteq X
  <1> DEFINE T == {n \in Nat : ~(Within(S, c, n) \subseteq X)}
  <1>1. T = {}
    <2> SUFFICES ASSUME T # {} PROVE FALSE
      OBVIOUS
    <2>1. T \subseteq Nat
      OBVIOUS
    <2>2. PICK n \in T : \A m \in T : n <= m
      BY <2>1, Least
    <2>3. n # 0
      BY <2>2, WithinNone
    <2>4. n \in Nat \ {0} /\ n - 1 \in Nat /\ ~(n <= n - 1)
      BY <2>3
    <2>5. Within(S, c, n - 1) \subseteq X
      BY <2>2, <2>4
    <2>6. Parents(S, Within(S, c, n - 1)) \subseteq X
      BY <2>5 DEF Parents, Closed
    <2> QED
      BY <2>2, <2>4, <2>5, <2>6, WithinMore
  <1> QED
    BY <1>1, AncestryWithin, NamesCounted

LEMMA AncestryOfParent ==
    ASSUME NEW S, WellFormed(S), NEW c \in NameSet, NEW p, Superclasses(S, c) = {p}
    PROVE  Ancestry(S, c) = {c} \cup Ancestry(S, p)
  <1>1. p \in NameSet
    BY SuperclassNames
  <1>2. c \in Ancestry(S, c) /\ p \in Ancestry(S, c) /\ Closed(S, Ancestry(S, c))
    BY AncestryClosed DEF Closed
  <1>3. Ancestry(S, p) \subseteq Ancestry(S, c)
    BY <1>1, <1>2, AncestryLeast
  <1>4. p \in Ancestry(S, p) /\ Closed(S, Ancestry(S, p))
    BY <1>1, AncestryClosed
  <1> DEFINE X == {c} \cup Ancestry(S, p)
  <1>5. Closed(S, X)
    BY <1>4 DEF Closed
  <1>6. Ancestry(S, c) \subseteq X
    BY <1>5, AncestryLeast
  <1> QED
    BY <1>2, <1>3, <1>6

LEMMA AncestryOfRoot ==
    ASSUME NEW S, WellFormed(S), NEW c \in NameSet, Superclasses(S, c) = {}
    PROVE  Ancestry(S, c) = {c}
  <1>1. Closed(S, {c})
    BY DEF Closed
  <1> QED
    BY <1>1, AncestryClosed, AncestryLeast

LEMMA AncestryOfFewer ==
    ASSUME NEW S, WellFormed(S), NEW T, T \subseteq S, NEW c \in NameSet
    PROVE  Ancestry(T, c) \subseteq Ancestry(S, c)
  <1>1. WellFormed(T) /\ \A p : Superclasses(T, p) \subseteq Superclasses(S, p)
    BY DEF WellFormed, OfKind, Superclasses
  <1>2. c \in Ancestry(S, c) /\ Closed(S, Ancestry(S, c))
    BY AncestryClosed
  <1>3. Closed(T, Ancestry(S, c))
    BY <1>1, <1>2 DEF Closed
  <1> QED
    BY <1>1, <1>2, <1>3, AncestryLeast

SymbolsOK(S, constants) == WellFormed(S) /\ Consistent(S) /\ Definite(S, constants)

\* what is taken for granted of the symbols holds when some are missing
LEMMA FewerSymbols ==
    ASSUME NEW S, NEW constants, SymbolsOK(S, constants), NEW T, T \subseteq S
    PROVE  SymbolsOK(T, constants)
  <1>1. \A k : OfKind(T, k) \subseteq OfKind(S, k)
    BY DEF OfKind
  <1>2. WellFormed(S) /\ Consistent(S) /\ Definite(S, constants)
    BY DEF SymbolsOK
  <1>3. WellFormed(T)
    BY <1>1, <1>2 DEF WellFormed
  <1>4. Definite(T, constants)
    BY <1>1, <1>2, Zenon DEF Definite
  <1>5. \A c \in NameSet : Ancestry(T, c) \subseteq Ancestry(S, c)
    BY <1>2, AncestryOfFewer
  <1>6. ASSUME NEW s \in OfKind(T, "parent") PROVE s.class \notin Ancestry(T, s.name)
    <2>1. s \in OfKind(S, "parent") /\ s.name \in NameSet
      BY <1>1, <1>2 DEF WellFormed
    <2> QED
      BY <1>2, <1>5, <2>1 DEF Consistent
  <1>7. ASSUME NEW s \in OfKind(T, "class"), NEW t \in OfKind(T, "class"),
               t.class \in Ancestry(T, s.class) \ {s.class}
        PROVE  t.value < s.value
    <2>1. s \in OfKind(S, "class") /\ t \in OfKind(S, "class") /\ s.class \in NameSet
      BY <1>1, <1>2 DEF WellFormed
    <2>2. t.class \in Ancestry(S, s.class) \ {s.class}
      BY <1>5, <1>7, <2>1
    <2> QED
      BY <1>2, <2>1, <2>2 DEF Consistent
  <1>8. \A s, t \in OfKind(T, "parent") : s.class = t.class => s = t
    BY <1>1, <1>2 DEF Consistent
  <1>9. \A s, t \in OfKind(T, "class") : s.class = t.class /\ s.name = t.name => s = t
    BY <1>1, <1>2 DEF Consistent
  <1>10. Consistent(T)
    BY <1>6, <1>7, <1>8, <1>9 DEF Consistent
  <1> QED
    BY <1>3, <1>4, <1>10 DEF SymbolsOK
-----------------------------------------------------------------------------
(* What conf_class_findcreate and conf_field_create keep sorted            *)

IsSeq(s) == s \in Seq(Elements(s))

LEMMA SeqElements ==
    ASSUME NEW S, NEW s \in Seq(S)
    PROVE  IsSeq(s) /\ Len(s) \in Nat /\ DOMAIN s = 1..Len(s) /\ Elements(s) \subseteq S
  <1>1. Len(s) \in Nat /\ DOMAIN s = 1..Len(s) /\ s \in [1..Len(s) -> S]
    BY LenProperties
  <1>2. s \in [1..Len(s) -> Elements(s)]
    BY <1>1 DEF Elements
  <1>3. s \in Seq(Elements(s))
    BY <1>1, <1>2
  <1>4. Elements(s) \subseteq S
    BY <1>1 DEF Elements
  <1> QED
    BY <1>1, <1>3, <1>4 DEF IsSeq

LEMMA InsertAtSeq ==
    ASSUME NEW s, IsSeq(s), NEW p \in 1..(Len(s) + 1), NEW e
    PROVE  /\ IsSeq(InsertAt(s, p, e))
           /\ Elements(InsertAt(s, p, e)) = Elements(s) \cup {e}
           /\ Len(s) \in Nat
           /\ DOMAIN InsertAt(s, p, e) = 1..(Len(s) + 1)
           /\ \A i \in 1..(Len(s) + 1) :
                 InsertAt(s, p, e)[i] = IF i < p THEN s[i] ELSE IF i = p THEN e ELSE s[i - 1]
  <1> DEFINE S == Elements(s) \cup {e}
  <1>1. s \in Seq(S)
    BY SeqMonotonic DEF IsSeq
  <1>2. e \in S
    OBVIOUS
  <1> HIDE DEF S
  <1>3. /\ InsertAt(s, p, e) \in Seq(S) /\ Len(InsertAt(s, p, e)) = Len(s) + 1
        /\ \A i \in 1..(Len(s) + 1) :
              InsertAt(s, p, e)[i] = IF i < p THEN s[i] ELSE IF i = p THEN e ELSE s[i - 1]
    <2>1. ASSUME NEW T, s \in Seq(T), e \in T
          PROVE  /\ InsertAt(s, p, e) \in Seq(T) /\ Len(InsertAt(s, p, e)) = Len(s) + 1
                 /\ \A i \in 1..(Len(s) + 1) :
                       InsertAt(s, p, e)[i] = IF i < p THEN s[i] ELSE IF i = p THEN e ELSE s[i - 1]
      <3>1. InsertAt(s, p, e) \in Seq(T)
        BY <2>1, InsertAtFacts, Zenon
      <3>2. Len(InsertAt(s, p, e)) = Len(s) + 1
        BY <2>1, InsertAtFacts, Zenon
      <3>3. ASSUME NEW i \in 1..(Len(s) + 1)
            PROVE  InsertAt(s, p, e)[i] = IF i < p THEN s[i] ELSE IF i = p THEN e ELSE s[i - 1]
        BY <2>1, InsertAtFacts
      <3> QED
        BY <3>1, <3>2, <3>3
    <2> QED
      BY <1>1, <1>2, <2>1, Zenon
  <1>4. Elements(InsertAt(s, p, e)) = Elements(s) \cup {e}
    BY <1>1, <1>2, InsertAtElements
  <1>5. Len(s) \in Nat
    BY <1>1, LenProperties
  <1>6. /\ IsSeq(InsertAt(s, p, e))
        /\ DOMAIN InsertAt(s, p, e) = 1..Len(InsertAt(s, p, e))
    BY <1>3, SeqElements
  <1> QED
    BY <1>3, <1>4, <1>5, <1>6

LEMMA RankOf ==
    ASSUME NEW n \in NameSet
    PROVE  Rank(n) \in Nat /\ Names[Rank(n)] = n
  <1>1. DOMAIN Names = 1..Len(Names) /\ Len(Names) \in Nat
    BY ConfigAssumption, LenProperties
  <1>2. \E i \in DOMAIN Names : Names[i] = n
    BY DEF NameSet
  <1>3. Rank(n) \in DOMAIN Names /\ Names[Rank(n)] = n
    BY <1>2, Zenon DEF Rank
  <1> QED
    BY <1>1, <1>3

InOrder(list) == \A i, j \in DOMAIN list : i < j => Rank(list[i]) < Rank(list[j])

\* the list of classes stays sorted, and has each class once
LEMMA FindCreate ==
    ASSUME NEW list, IsSeq(list), Elements(list) \subseteq NameSet, InOrder(list),
           NEW n \in NameSet
    PROVE  /\ IsSeq(conf_class_findcreate(list, n))
           /\ Elements(conf_class_findcreate(list, n)) = Elements(list) \cup {n}
           /\ InOrder(conf_class_findcreate(list, n))
  <1> DEFINE p == Place(list, n)
             T == {i \in DOMAIN list : Rank(list[i]) >= Rank(n)} \cup {Len(list) + 1}
             r == InsertAt(list, p, n)
  <1>1. Len(list) \in Nat /\ DOMAIN list = 1..Len(list)
    BY SeqElements DEF IsSeq
  <1>2. T \subseteq 1..(Len(list) + 1) /\ T # {}
    BY <1>1
  <1>3. p \in T /\ \A y \in T : p <= y
    <2>1. T \subseteq Nat
      BY <1>2
    <2>2. p = SmallestOf(T)
      BY DEF Place
    <2> QED
      BY <1>2, <2>1, <2>2, SmallestExists
  <1>4. p \in 1..(Len(list) + 1)
    BY <1>2, <1>3
  <1>5. \A i \in DOMAIN list : list[i] \in NameSet /\ Rank(list[i]) \in Nat
    BY RankOf DEF Elements
  <1>6. Rank(n) \in Nat
    BY RankOf
  <1>7. CASE p \in DOMAIN list /\ list[p] = n
    BY <1>7 DEF conf_class_findcreate, Elements
  <1>8. CASE ~(p \in DOMAIN list /\ list[p] = n)
    <2>1. conf_class_findcreate(list, n) = r
      BY <1>8 DEF conf_class_findcreate
    <2>2. \A i \in DOMAIN list : i < p => Rank(list[i]) < Rank(n)
      <3>1. \A i \in DOMAIN list : i < p => i \notin T
        BY <1>1, <1>3, <1>4
      <3> QED
        BY <1>5, <1>6, <3>1
    <2>3. \A i \in DOMAIN list : i >= p => Rank(n) < Rank(list[i])
      <3>1. p \in DOMAIN list => Rank(n) < Rank(list[p])
        <4>1. p \in DOMAIN list => Rank(list[p]) >= Rank(n)
          BY <1>1, <1>3
        <4>2. p \in DOMAIN list => Rank(list[p]) # Rank(n)
          BY <1>5, <1>8, RankOf
        <4> QED
          BY <1>5, <1>6, <4>1, <4>2
      <3>2. \A i \in DOMAIN list : i > p => p \in DOMAIN list /\ Rank(list[p]) < Rank(list[i])
        BY <1>1, <1>4 DEF InOrder
      <3> QED
        BY <1>1, <1>4, <1>5, <1>6, <3>1, <3>2
    <2> HIDE DEF p, r, T
    <2>4. /\ IsSeq(r) /\ Elements(r) = Elements(list) \cup {n} /\ DOMAIN r = 1..(Len(list) + 1)
          /\ \A i \in 1..(Len(list) + 1) :
                r[i] = IF i < p THEN list[i] ELSE IF i = p THEN n ELSE list[i - 1]
      BY <1>4, InsertAtSeq DEF r
    <2>5. ASSUME NEW i \in DOMAIN r, NEW j \in DOMAIN r, i < j PROVE Rank(r[i]) < Rank(r[j])
      <3>1. i \in 1..(Len(list) + 1) /\ j \in 1..(Len(list) + 1) /\ p \in Nat
        BY <1>4, <2>4
      <3>2. CASE j < p
        <4>1. i < p /\ i \in DOMAIN list /\ j \in DOMAIN list
          BY <1>1, <1>4, <2>5, <3>1, <3>2
        <4>2. r[i] = list[i] /\ r[j] = list[j]
          BY <2>4, <3>1, <3>2, <4>1
        <4> QED
          BY <2>5, <4>1, <4>2 DEF InOrder
      <3>3. CASE j = p
        <4>1. i < p /\ i \in DOMAIN list /\ r[i] = list[i] /\ r[j] = n
          BY <1>1, <1>4, <2>4, <2>5, <3>1, <3>3
        <4> QED
          BY <2>2, <4>1
      <3>4. CASE j > p
        <4>1. j - 1 \in DOMAIN list /\ r[j] = list[j - 1] /\ j - 1 >= p
          BY <1>1, <1>4, <2>4, <3>1, <3>4
        <4>2. CASE i < p
          <5>1. i \in DOMAIN list /\ r[i] = list[i] /\ i < j - 1
            BY <1>1, <1>4, <2>4, <3>1, <3>4, <4>2
          <5> QED
            BY <4>1, <5>1 DEF InOrder
        <4>3. CASE i = p
          BY <2>3, <2>4, <3>1, <4>1, <4>3
        <4>4. CASE i > p
          <5>1. i - 1 \in DOMAIN list /\ r[i] = list[i - 1] /\ i - 1 < j - 1
            BY <1>1, <1>4, <2>4, <2>5, <3>1, <4>4
          <5> QED
            BY <4>1, <5>1 DEF InOrder
        <4> QED
          BY <3>1, <4>2, <4>3, <4>4
      <3> QED
        BY <3>1, <3>2, <3>3, <3>4
    <2> QED
      BY <2>1, <2>4, <2>5 DEF InOrder
  <1> QED
    BY <1>7, <1>8

FieldsInOrder(fields) ==
    \A i, j \in DOMAIN fields :
       i < j => fields[i].off <= fields[j].off /\ fields[i].name # fields[j].name

\* and so do the fields of a class
LEMMA FieldCreate ==
    ASSUME NEW fields, IsSeq(fields), FieldsInOrder(fields), NEW f, NEW o \in Nat,
           \A x \in Elements(fields) : x.off \in Nat /\ x.name # f
    PROVE  LET new == conf_field_create(fields, f, o)
           IN /\ IsSeq(new) /\ FieldsInOrder(new)
              /\ Elements(new) = Elements(fields) \cup {[name |-> f, off |-> o]}
  <1> DEFINE T == {i \in DOMAIN fields : fields[i].off > o} \cup {Len(fields) + 1}
             p == SmallestOf(T)
             e == [name |-> f, off |-> o]
             r == InsertAt(fields, p, e)
  <1>1. Len(fields) \in Nat /\ DOMAIN fields = 1..Len(fields)
    BY SeqElements DEF IsSeq
  <1>2. T \subseteq 1..(Len(fields) + 1) /\ T # {}
    BY <1>1
  <1>3. p \in T /\ \A y \in T : p <= y
    <2>1. T \subseteq Nat
      BY <1>2
    <2> QED
      BY <1>2, <2>1, SmallestExists
  <1>4. p \in 1..(Len(fields) + 1)
    BY <1>2, <1>3
  <1>5. \A i \in DOMAIN fields : fields[i].off \in Nat /\ fields[i].name # f
    BY DEF Elements
  <1>6. conf_field_create(fields, f, o) = r
    BY DEF conf_field_create
  <1> HIDE DEF p, r
  <1>7. \A i \in DOMAIN fields : i < p => fields[i].off <= o
    <2>1. \A i \in DOMAIN fields : i < p => i \notin T
      BY <1>1, <1>3, <1>4
    <2> QED
      BY <1>5, <2>1
  <1>8. \A i \in DOMAIN fields : i >= p => o <= fields[i].off
    <2>1. p \in DOMAIN fields => o < fields[p].off
      BY <1>1, <1>3
    <2>2. \A i \in DOMAIN fields : i > p => p \in DOMAIN fields /\ fields[p].off <= fields[i].off
      BY <1>1, <1>4 DEF FieldsInOrder
    <2> QED
      BY <1>1, <1>4, <1>5, <2>1, <2>2
  <1> HIDE DEF T
  <1>9. /\ IsSeq(r) /\ Elements(r) = Elements(fields) \cup {e} /\ DOMAIN r = 1..(Len(fields) + 1)
        /\ \A i \in 1..(Len(fields) + 1) :
              r[i] = IF i < p THEN fields[i] ELSE IF i = p THEN e ELSE fields[i - 1]
    BY <1>4, InsertAtSeq DEF r
  <1>10. e.off = o /\ e.name = f
    OBVIOUS
  <1> HIDE DEF e
  <1>11. ASSUME NEW i \in DOMAIN r, NEW j \in DOMAIN r, i < j
         PROVE  r[i].off <= r[j].off /\ r[i].name # r[j].name
    <2>1. i \in 1..(Len(fields) + 1) /\ j \in 1..(Len(fields) + 1) /\ p \in Nat
      BY <1>4, <1>9
    <2>2. CASE j < p
      <3>1. i < p /\ i \in DOMAIN fields /\ j \in DOMAIN fields
        BY <1>1, <1>4, <1>11, <2>1, <2>2
      <3>2. r[i] = fields[i] /\ r[j] = fields[j]
        BY <1>9, <2>1, <2>2, <3>1
      <3> QED
        BY <1>11, <3>1, <3>2 DEF FieldsInOrder
    <2>3. CASE j = p
      <3>1. i < p /\ i \in DOMAIN fields /\ r[i] = fields[i] /\ r[j] = e
        BY <1>1, <1>4, <1>9, <1>11, <2>1, <2>3
      <3> QED
        BY <1>5, <1>7, <1>10, <3>1
    <2>4. CASE j > p
      <3>1. j - 1 \in DOMAIN fields /\ r[j] = fields[j - 1] /\ j - 1 >= p
        BY <1>1, <1>4, <1>9, <2>1, <2>4
      <3>2. CASE i < p
        <4>1. i \in DOMAIN fields /\ r[i] = fields[i] /\ i < j - 1
          BY <1>1, <1>4, <1>9, <2>1, <2>4, <3>2
        <4> QED
          BY <3>1, <4>1 DEF FieldsInOrder
      <3>3. CASE i = p
        <4>1. r[i] = e
          BY <1>9, <2>1, <3>3
        <4> QED
          BY <1>5, <1>8, <1>10, <3>1, <4>1
      <3>4. CASE i > p
        <4>1. i - 1 \in DOMAIN fields /\ r[i] = fields[i - 1] /\ i - 1 < j - 1
          BY <1>1, <1>4, <1>9, <1>11, <2>1, <3>4
        <4> QED
          BY <3>1, <4>1 DEF FieldsInOrder
      <3> QED
        BY <2>1, <3>2, <3>3, <3>4
    <2> QED
      BY <2>1, <2>2, <2>3, <2>4
  <1>12. FieldsInOrder(r)
    BY <1>11 DEF FieldsInOrder
  <1> QED
    BY <1>6, <1>9, <1>12 DEF e
-----------------------------------------------------------------------------
(* Where autoconfigure is, and what it has read so far                     *)

Loaded == status \in {"ends", "constants", "types", "offsets", "ready"}
Reads == status = "symbols" \/ Loaded

StateOK ==
    /\ SymbolsOK(binary.symbols, binary.constants)
    /\ cfg \in {NoCfg, TargetCfg} \cup DOMAIN Canned
    /\ status \in {"loading", "unconfigured", "symbols", "ends", "constants", "types",
                   "offsets", "ready", "failed"}
    /\ cfg = NoCfg <=> status \in {"loading", "unconfigured"}
    /\ cfg = NoCfg => classes = <<>>
    /\ cfg # NoCfg => unread \subseteq Symbols
    /\ Loaded => unread = {}
    /\ Reads => \A s \in OfKind(Seen, "class") : s \notin lost
    /\ edits \in Seq(FieldArgs)
    /\ edits # <<>> => status \in {"failed", "ready"} /\ classes # <<>>
    /\ todo # <<>> => status = "ends"

LEMMA CannedIndexes == DOMAIN Canned = 1..Len(Canned) /\ Len(Canned) \in Nat
  BY ConfigAssumption, LenProperties

\* the symbols of the configuration in use are as they should be
LEMMA SymbolsInUse ==
    ASSUME StateOK, cfg # NoCfg
    PROVE  SymbolsOK(Symbols, Readable)
  <1>1. CASE cfg = TargetCfg
    BY <1>1 DEF StateOK, Symbols, Readable
  <1>2. CASE cfg # TargetCfg
    <2>1. cfg \in DOMAIN Canned
      BY <1>2 DEF StateOK
    <2>2. Canned[cfg] \in Elements(Canned)
      BY <2>1 DEF Elements
    <2> QED
      BY <1>2, <2>2, ConfigAssumption, DefiniteAssumption DEF SymbolsOK, Symbols, Readable
  <1> QED
    BY <1>1, <1>2

\* autoconfigure starts, which it does as long as there are no classes
Begins ==
    /\ status \in {"loading", "unconfigured", "failed", "ready"}
    /\ classes = <<>>
    /\ \E c \in {TargetCfg} \cup DOMAIN Canned : Autoconfigure(c)

LEMMA ConfigureBegins ==
    ASSUME StateOK, Configure
    PROVE  NotConfigured \/ Begins
  <1>1. status = "loading" => classes = <<>>
    BY DEF StateOK
  <1>2. CASE ConfigureTarget
    BY <1>1, <1>2 DEF ConfigureTarget, Begins
  <1>3. CASE \E i \in DOMAIN Canned : ConfigureCanned(i)
    BY <1>1, <1>3 DEF ConfigureCanned, Begins
  <1> QED
    BY <1>2, <1>3 DEF Configure

LEMMA LoadBegins ==
    ASSUME StateOK, NEW n, V8Load(n)
    PROVE  Begins
  <1>1. Named(n) \in {TargetCfg} \cup DOMAIN Canned
    <2>1. Len(Canned) \in {TargetCfg} \cup DOMAIN Canned
      BY CannedIndexes DEF TargetCfg
    <2>2. CASE \E i \in DOMAIN Canned : Canned[i].name = n
      BY <2>2, Zenon DEF Named
    <2>3. CASE ~ \E i \in DOMAIN Canned : Canned[i].name = n
      BY <2>1, <2>3, Zenon DEF Named
    <2> QED
      BY <2>2, <2>3
  <1>2. PICK c : c = Named(n)
    OBVIOUS
  <1>3. Autoconfigure(c)
    BY <1>2 DEF V8Load
  <1> QED
    BY <1>1, <1>2, <1>3 DEF V8Load, NotYetConfigured, Begins

LEMMA BeginsReading ==
    ASSUME StateOK, Begins
    PROVE  /\ status' = "symbols" /\ cfg' # NoCfg /\ cfg' \in {TargetCfg} \cup DOMAIN Canned
           /\ unread' = Symbols' /\ Seen' = {} /\ edits = <<>> /\ todo = <<>>
           /\ UNCHANGED <<target, tables, todo, edits>>
           /\ again' = (cfg # NoCfg)
  <1>1. PICK c \in {TargetCfg} \cup DOMAIN Canned : Autoconfigure(c)
    BY DEF Begins
  <1>2. cfg' = c /\ c # NoCfg
    BY <1>1, CannedIndexes DEF Autoconfigure, TargetCfg, NoCfg
  <1>3. binary' = binary
    BY <1>1 DEF Autoconfigure, target
  <1>4. unread' = Symbols'
    BY <1>1, <1>2, <1>3 DEF Autoconfigure, Symbols
  <1>5. Seen' = {}
    BY <1>4 DEF Seen
  <1>6. edits = <<>> /\ todo = <<>>
    BY DEF StateOK, Begins
  <1> QED
    BY <1>1, <1>2, <1>4, <1>5, <1>6 DEF Autoconfigure

\* what a symbol adds to the symbols that have been seen
LEMMA TakeSees ==
    ASSUME StateOK, NEW s, Take(s), UNCHANGED settled
    PROVE  /\ cfg # NoCfg /\ status = "symbols"
           /\ s \in Symbols /\ s \notin Seen /\ Seen \subseteq Symbols
           /\ Symbols' = Symbols /\ Seen' = Seen \cup {s} /\ unread' \subseteq Symbols'
           /\ \A k : OfKind(Seen', k) = IF s.kind = k /\ s.ok THEN OfKind(Seen, k) \cup {s}
                                        ELSE OfKind(Seen, k)
  <1>1. status = "symbols" /\ s \in unread /\ unread' = unread \ {s}
    BY DEF Take
  <1>2. cfg # NoCfg /\ unread \subseteq Symbols
    BY <1>1 DEF StateOK
  <1>3. cfg' = cfg /\ Symbols' = Symbols
    BY DEF settled, target, Symbols
  <1>4. Seen = Symbols \ unread /\ Seen' = Symbols \ unread'
    BY <1>2, <1>3 DEF Seen
  <1>5. Seen' = Seen \cup {s}
    BY <1>1, <1>2, <1>4
  <1> QED
    BY <1>1, <1>2, <1>3, <1>4, <1>5 DEF OfKind

LEMMA ReadingTakes ==
    ASSUME NEW s, Reading(s)
    PROVE  /\ Take(s) /\ UNCHANGED settled /\ UNCHANGED todo /\ UNCHANGED <<val, v8_type>>
           /\ status' \in {status, "failed"}
           /\ status' # "failed" =>
                 conf_update_parent(s) \/ conf_update_field(s) \/ conf_update_type(s) \/ OtherSymbol(s)
           /\ s \in lost /\ s.kind = "class" /\ s.ok => status' = "failed"
  BY DEF Reading, conf_update_parent, conf_update_field, conf_update_type, conf_update_enum,
         BadSymbol, OtherSymbol, IterationFails, tables, IsEnum

LEMMA InitStateOK == Init => StateOK
  <1> SUFFICES ASSUME Init PROVE StateOK
    OBVIOUS
  <1>1. PICK b \in Binaries :
          /\ \E a \in b.absent : binary = [b EXCEPT !.symbols = @ \ a]
          /\ lost \in b.lost
    BY DEF Init
  <1>2. PICK a \in b.absent : binary = [b EXCEPT !.symbols = @ \ a]
    BY <1>1
  <1>3. {"symbols", "constants"} \subseteq DOMAIN b
    BY ConfigAssumption
  <1>4. binary.symbols = b.symbols \ a /\ binary.constants = b.constants
    BY <1>2, <1>3
  <1>5. SymbolsOK(b.symbols, b.constants)
    BY ConfigAssumption, DefiniteAssumption DEF SymbolsOK
  <1>6. SymbolsOK(binary.symbols, binary.constants)
    BY <1>4, <1>5, FewerSymbols
  <1> QED
    BY <1>6 DEF Init, StateOK, Loaded, Reads, NoCfg

LEMMA ComputingSteps ==
    ASSUME StateOK, Computing
    PROVE  /\ UNCHANGED settled /\ UNCHANGED <<unread, classes>> /\ unread = {}
           /\ Loaded \/ (status = "symbols" /\ EndSymbols)
           /\ status' \in {"ends", "constants", "types", "offsets", "ready", "failed"}
           /\ todo' # <<>> => status' = "ends"
           /\ cfg # NoCfg
  <1>1. CASE EndSymbols \/ EndClasses
    BY <1>1 DEF EndSymbols, EndClasses, StateOK, Loaded, tables
  <1>2. CASE (\E i \in DOMAIN classes : StartClass(i)) \/ ComputeParent
    BY <1>2 DEF StartClass, ComputeParent, StateOK, Loaded, tables
  <1>3. CASE ComputeClass
    BY <1>3 DEF ComputeClass, StateOK, Loaded
  <1>4. CASE LoadConstants \/ LoadTypes
    BY <1>4 DEF LoadConstants, LoadTypes, StateOK, Loaded
  <1>5. CASE LoadOffsets
    BY <1>5 DEF LoadOffsets, StateOK, Loaded
  <1> QED
    BY <1>1, <1>2, <1>3, <1>4, <1>5 DEF Computing

LEMMA SeenStays ==
    ASSUME UNCHANGED <<target, cfg, unread>>
    PROVE  Symbols' = Symbols /\ Seen' = Seen
  BY DEF target, Symbols, Seen

\* ::v8field needs a class, so that no configuration starts after it
LEMMA FieldSteps ==
    ASSUME StateOK, NEW a \in FieldArgs, V8Field(a)
    PROVE  /\ UNCHANGED <<target, cfg, unread, status, classes, todo, enums, v8_type, val, again>>
           /\ status \in {"failed", "ready"} /\ classes # <<>>
           /\ edits' \in Seq(FieldArgs) /\ edits' # <<>>
  <1>1. classes # <<>>
    BY DEF V8Field, Elements
  <1>2. status \in {"failed", "ready"}
    BY <1>1 DEF V8Field, Idle, StateOK
  <1>3. edits' \in Seq(FieldArgs) /\ edits' # <<>>
    BY AppendProperties DEF V8Field, StateOK
  <1> QED
    BY <1>1, <1>2, <1>3 DEF V8Field

\* every step is one of these
Moves ==
    \/ NotConfigured \/ Begins
    \/ \E s \in unread : Reading(s)
    \/ Computing
    \/ \E a \in FieldArgs : V8Field(a)

LEMMA NextMoves ==
    ASSUME StateOK, Next
    PROVE  Moves
  <1>1. CASE Configure
    BY <1>1, ConfigureBegins DEF Moves
  <1>2. CASE \E n \in LoadArgs : V8Load(n)
    BY <1>2, LoadBegins DEF Moves
  <1> QED
    BY <1>1, <1>2 DEF Next, Command, Moves

LEMMA StateOKStep ==
    ASSUME StateOK, [Next]_cfgvars
    PROVE  StateOK'
  <1>1. CASE UNCHANGED cfgvars
    <2>1. UNCHANGED <<binary, lost, cfg, status, classes, unread, edits, todo>> /\ Symbols' = Symbols
          /\ Seen' = Seen
      BY <1>1, SeenStays DEF cfgvars, settled, target, tables
    <2> QED
      BY <2>1 DEF StateOK, Loaded, Reads
  <1>2. CASE NotConfigured
    <2>1. UNCHANGED <<binary, lost, cfg, classes, unread, edits, todo>> /\ status = "loading"
          /\ status' = "unconfigured"
      BY <1>2 DEF NotConfigured, target, tables
    <2>2. cfg = NoCfg
      BY <2>1 DEF StateOK
    <2> QED
      BY <2>1, <2>2 DEF StateOK, Loaded, Reads
  <1>3. CASE Begins
    <2>1. /\ status' = "symbols" /\ cfg' # NoCfg /\ cfg' \in {TargetCfg} \cup DOMAIN Canned
          /\ unread' = Symbols' /\ Seen' = {} /\ edits = <<>> /\ todo = <<>>
          /\ UNCHANGED <<binary, lost, todo, edits, classes>>
      BY <1>3, BeginsReading DEF target, tables
    <2>2. \A k : OfKind(Seen', k) = {}
      BY <2>1 DEF OfKind
    <2> QED
      BY <2>1, <2>2 DEF StateOK, Loaded, Reads
  <1>4. CASE \E s \in unread : Reading(s)
    <2>1. PICK s \in unread : Reading(s)
      BY <1>4
    <2>2. Take(s) /\ UNCHANGED settled /\ UNCHANGED todo /\ status' \in {status, "failed"}
      BY <2>1, ReadingTakes
    <2>3. status = "symbols" /\ cfg # NoCfg /\ unread' \subseteq Symbols'
      BY <2>2, TakeSees
    <2>4. UNCHANGED <<binary, lost, cfg, edits, todo>>
      BY <2>2 DEF settled, target
    <2>5. edits = <<>> /\ todo = <<>>
      BY <2>3 DEF StateOK
    <2>6. ASSUME status' = "symbols", NEW x \in OfKind(Seen', "class") PROVE x \notin lost
      <3>1. CASE x = s
        BY <2>1, <2>6, <3>1, ReadingTakes DEF OfKind
      <3>2. CASE x # s
        <4>1. x \in OfKind(Seen, "class")
          BY <2>2, <2>6, <3>2, TakeSees
        <4> QED
          BY <2>3, <4>1 DEF StateOK, Reads
      <3> QED
        BY <3>1, <3>2
    <2> QED
      BY <2>2, <2>3, <2>4, <2>5, <2>6 DEF StateOK, Loaded, Reads
  <1>5. CASE Computing
    <2>1. /\ UNCHANGED settled /\ UNCHANGED <<unread, classes>> /\ unread = {} /\ Reads
          /\ status' \in {"ends", "constants", "types", "offsets", "ready", "failed"}
          /\ todo' # <<>> => status' = "ends"
          /\ cfg # NoCfg
      BY <1>5, ComputingSteps DEF Reads
    <2>2. UNCHANGED <<binary, lost, cfg, edits>> /\ Symbols' = Symbols /\ Seen' = Seen
      BY <2>1, SeenStays DEF settled, target
    <2>3. edits # <<>> => status' \in {"failed", "ready"}
      <3>1. edits # <<>> => status = "ready"
        BY <2>1 DEF Reads, Loaded, StateOK
      <3>2. status # "ready"
        BY <1>5 DEF Computing, EndSymbols, StartClass, ComputeParent, ComputeClass, EndClasses,
                    LoadConstants, LoadTypes, LoadOffsets
      <3> QED
        BY <3>1, <3>2
    <2> QED
      BY <2>1, <2>2, <2>3 DEF StateOK, Loaded, Reads
  <1>6. CASE \E a \in FieldArgs : V8Field(a)
    <2>1. PICK a \in FieldArgs : V8Field(a)
      BY <1>6
    <2>2. /\ UNCHANGED <<target, cfg, unread, status, classes, todo, again>>
          /\ status \in {"failed", "ready"} /\ classes # <<>>
          /\ edits' \in Seq(FieldArgs) /\ edits' # <<>>
      BY <2>1, FieldSteps
    <2>3. UNCHANGED <<binary, lost>> /\ Symbols' = Symbols /\ Seen' = Seen
      BY <2>2, SeenStays DEF target
    <2> QED
      BY <2>2, <2>3 DEF StateOK, Loaded, Reads
  <1> QED
    BY <1>1, <1>2, <1>3, <1>4, <1>5, <1>6, NextMoves DEF Moves
-----------------------------------------------------------------------------
(* The classes are those of the symbols that have been read                *)

IsClass(r) == r = [parent |-> r.parent, fields |-> r.fields, start |-> r.start, end |-> r.end]

ClassesOK ==
    /\ IsSeq(classes) /\ Elements(classes) \subseteq NameSet
    /\ class = [n \in NameSet |-> class[n]]
    /\ \A n \in NameSet : IsClass(class[n])
    /\ \A n \in NameSet : n \notin Elements(classes) => class[n] = NoClass
    /\ \A n \in NameSet : class[n].end = -1 => class[n].start = 0
    /\ status = "symbols" => \A n \in NameSet : class[n].end = -1
    /\ edits = <<>> => \A n \in NameSet : IsSeq(class[n].fields)

\* ClassesAsRead, of what has been seen: fields C with a value and parents P
NamesIn(C, P) == {s.class : s \in C} \cup UNION {{s.class, s.name} : s \in P}
FieldsIn(C, n) == {[name |-> s.name, off |-> s.value] : s \in {t \in C : t.class = n}}
ParentsIn(P, n) == {s.name : s \in {t \in P : t.class = n}}

AsRead(C, P) ==
    /\ Elements(classes) = NamesIn(C, P)
    /\ InOrder(classes)
    /\ \A n \in NameSet : ParentsIn(P, n) = {class[n].parent} \ {NULL}
    /\ edits = <<>> => \A n \in NameSet : /\ FieldsInOrder(class[n].fields)
                                        /\ Elements(class[n].fields) = FieldsIn(C, n)

LEMMA AsReadIsClassesAsRead ==
    /\ ClassesAsRead <=> AsRead(SeenOf("class"), OfKind(Seen, "parent"))
    /\ ClassesAsRead' <=> AsRead(SeenOf("class"), OfKind(Seen, "parent"))'
  BY DEF ClassesAsRead, AsRead, NamesIn, FieldsIn, ParentsIn, InOrder, FieldsInOrder, Superclasses

LEMMA EmptySeqs ==
    /\ IsSeq(<<>>) /\ Elements(<<>>) = {} /\ InOrder(<<>>) /\ FieldsInOrder(<<>>)
  <1>1. <<>> \in Seq({}) /\ DOMAIN <<>> = {}
    OBVIOUS
  <1>2. Elements(<<>>) = {}
    BY <1>1 DEF Elements
  <1> QED
    BY <1>1, <1>2 DEF IsSeq, InOrder, FieldsInOrder

\* before a symbol has been read there is nothing
LEMMA NothingRead ==
    ASSUME classes = <<>>, class = [n \in NameSet |-> NoClass]
    PROVE  AsRead({}, {})
  <1>1. \A n \in NameSet : class[n].parent = NULL /\ class[n].fields = <<>>
    BY DEF NoClass
  <1>2. NamesIn({}, {}) = {} /\ \A n : FieldsIn({}, n) = {} /\ ParentsIn({}, n) = {}
    BY DEF NamesIn, FieldsIn, ParentsIn
  <1> QED
    BY <1>1, <1>2, EmptySeqs DEF AsRead

\* without a class there is nothing in any
LEMMA NoClasses ==
    ASSUME ClassesOK, classes = <<>>
    PROVE  class = [n \in NameSet |-> NoClass]
  <1>1. Elements(classes) = {}
    BY EmptySeqs
  <1>2. \A n \in NameSet : class[n] = NoClass
    BY <1>1 DEF ClassesOK
  <1>3. class = [n \in NameSet |-> class[n]]
    BY DEF ClassesOK
  <1> QED
    BY <1>2, <1>3

LEMMA InitClasses == Init => ClassesOK /\ ClassesAsRead
  <1> SUFFICES ASSUME Init PROVE ClassesOK /\ ClassesAsRead
    OBVIOUS
  <1>1. classes = <<>> /\ class = [n \in NameSet |-> NoClass] /\ cfg = NoCfg
    BY DEF Init
  <1>2. Seen = {} /\ SeenOf("class") = {} /\ OfKind(Seen, "parent") = {}
    BY <1>1 DEF Seen, SeenOf, OfKind
  <1>3. ClassesAsRead
    BY <1>1, <1>2, NothingRead, AsReadIsClassesAsRead
  <1>4. \A n \in NameSet : IsClass(class[n]) /\ IsSeq(class[n].fields)
                          /\ class[n].start = 0 /\ class[n].end = -1
    BY <1>1, EmptySeqs DEF NoClass, IsClass
  <1>5. ClassesOK
    BY <1>1, <1>4, EmptySeqs DEF ClassesOK
  <1> QED
    BY <1>3, <1>5

\* a step that neither reads a class nor changes one
LEMMA ClassesStay ==
    ASSUME ClassesOK, ClassesAsRead, UNCHANGED <<classes, class, edits>>,
           SeenOf("class")' = SeenOf("class"), OfKind(Seen, "parent")' = OfKind(Seen, "parent"),
           status' = "symbols" => status = "symbols"
    PROVE  ClassesOK' /\ ClassesAsRead'
  <1>1. AsRead(SeenOf("class"), OfKind(Seen, "parent"))
    BY AsReadIsClassesAsRead
  <1>2. AsRead(SeenOf("class"), OfKind(Seen, "parent"))'
    BY <1>1 DEF AsRead
  <1>3. ClassesAsRead'
    BY <1>2, AsReadIsClassesAsRead
  <1>4. ClassesOK'
    BY DEF ClassesOK
  <1> QED
    BY <1>3, <1>4

LEMMA ParentRead ==
    ASSUME StateOK, ClassesOK, ClassesAsRead, NEW s \in unread, conf_update_parent(s)
    PROVE  ClassesOK' /\ ClassesAsRead'
  <1> DEFINE C == SeenOf("class")
             P == OfKind(Seen, "parent")
             l == conf_class_findcreate(classes, s.class)
  <1>1. AsRead(C, P)
    BY AsReadIsClassesAsRead
  <1>2. /\ Take(s) /\ UNCHANGED settled /\ s.kind = "parent" /\ s.ok /\ status' = status
        /\ classes' = conf_class_findcreate(l, s.name)
        /\ class' = [class EXCEPT ![s.class].parent = s.name]
    BY DEF conf_update_parent
  <1>3. /\ cfg # NoCfg /\ status = "symbols" /\ s \in Symbols /\ Seen \subseteq Symbols
        /\ OfKind(Seen', "parent") = P \cup {s} /\ OfKind(Seen', "class") = OfKind(Seen, "class")
    BY <1>2, TakeSees
  <1>4. s \in OfKind(Symbols, "parent") /\ P \subseteq OfKind(Symbols, "parent")
    BY <1>2, <1>3 DEF OfKind
  <1>5. WellFormed(Symbols) /\ Consistent(Symbols)
    BY <1>3, SymbolsInUse DEF SymbolsOK
  <1>6. s.class \in NameSet /\ s.name \in NameSet
    BY <1>4, <1>5 DEF WellFormed
  <1>7. UNCHANGED <<edits, lost, cfg>> /\ edits = <<>>
    BY <1>2, <1>3 DEF settled, target, StateOK
  <1>8. SeenOf("class")' = C
    BY <1>3, <1>7 DEF SeenOf
  <1>9. IsSeq(classes) /\ Elements(classes) \subseteq NameSet /\ InOrder(classes)
    BY <1>1 DEF ClassesOK, AsRead
  <1>10. IsSeq(l) /\ Elements(l) = Elements(classes) \cup {s.class} /\ InOrder(l)
    BY <1>6, <1>9, FindCreate
  <1>11. /\ IsSeq(classes') /\ InOrder(classes')
         /\ Elements(classes') = Elements(classes) \cup {s.class, s.name}
    <2>1. Elements(l) \subseteq NameSet
      BY <1>6, <1>9, <1>10
    <2> HIDE DEF l
    <2> QED
      BY <1>2, <1>6, <1>10, <2>1, FindCreate
  <1>12. class = [n \in NameSet |-> class[n]] /\ \A n \in NameSet : IsClass(class[n])
    BY DEF ClassesOK
  <1>13. /\ class' = [n \in NameSet |-> class'[n]]
         /\ \A n \in NameSet :
               /\ IsClass(class'[n]) /\ class'[n].fields = class[n].fields
               /\ class'[n].start = class[n].start /\ class'[n].end = class[n].end
               /\ class'[n].parent = IF n = s.class THEN s.name ELSE class[n].parent
               /\ n # s.class => class'[n] = class[n]
    BY <1>2, <1>6, <1>12 DEF IsClass
  <1>14. ClassesOK'
    <2>1. \A n \in NameSet : n \notin Elements(classes') => class'[n] = NoClass
      BY <1>11, <1>13 DEF ClassesOK
    <2> QED
      BY <1>2, <1>6, <1>7, <1>9, <1>11, <1>13, <2>1 DEF ClassesOK
  <1>15. ASSUME NEW n \in NameSet PROVE ParentsIn(P \cup {s}, n) = {class'[n].parent} \ {NULL}
    <2>1. ParentsIn(P, n) = {class[n].parent} \ {NULL}
      BY <1>1 DEF AsRead
    <2>2. CASE n # s.class
      <3>1. ParentsIn(P \cup {s}, n) = ParentsIn(P, n)
        BY <2>2 DEF ParentsIn
      <3> QED
        BY <1>13, <2>1, <2>2, <3>1
    <2>3. CASE n = s.class
      <3>1. \A t \in P : t.class = n => t = s
        BY <1>4, <1>5, <2>3 DEF Consistent
      <3>2. ParentsIn(P \cup {s}, n) = {s.name}
        BY <2>3, <3>1 DEF ParentsIn
      <3>3. s.name # NULL
        BY <1>6, ConfigAssumption
      <3> QED
        BY <1>13, <2>3, <3>2, <3>3
    <2> QED
      BY <2>2, <2>3
  <1>16. Elements(classes') = NamesIn(C, P \cup {s})
    <2>1. NamesIn(C, P \cup {s}) = NamesIn(C, P) \cup {s.class, s.name}
      BY DEF NamesIn
    <2> QED
      BY <1>1, <1>11, <2>1 DEF AsRead
  <1>17. OfKind(Seen, "parent")' = P \cup {s}
    BY <1>3
  <1> HIDE DEF C, P
  <1>18. \A n \in NameSet : /\ FieldsInOrder(class'[n].fields)
                           /\ Elements(class'[n].fields) = FieldsIn(C, n)
    BY <1>1, <1>7, <1>13 DEF AsRead
  <1>19. AsRead(SeenOf("class"), OfKind(Seen, "parent"))'
    BY <1>8, <1>11, <1>15, <1>16, <1>17, <1>18 DEF AsRead
  <1> QED
    BY <1>14, <1>19, AsReadIsClassesAsRead

LEMMA FieldRead ==
    ASSUME StateOK, ClassesOK, ClassesAsRead, NEW s \in unread, conf_update_field(s)
    PROVE  ClassesOK' /\ ClassesAsRead'
  <1> DEFINE C == SeenOf("class")
             P == OfKind(Seen, "parent")
             c == s.class
             new == conf_field_create(class[c].fields, s.name, s.value)
             e == [name |-> s.name, off |-> s.value]
  <1>1. AsRead(C, P)
    BY AsReadIsClassesAsRead
  <1>2. /\ Take(s) /\ UNCHANGED settled /\ s.kind = "class" /\ s.ok /\ s \notin lost
        /\ status' = status
        /\ classes' = conf_class_findcreate(classes, c)
        /\ class' = [class EXCEPT ![c].fields = new]
    BY DEF conf_update_field
  <1>3. /\ cfg # NoCfg /\ status = "symbols" /\ s \in Symbols /\ Seen \subseteq Symbols
        /\ s \notin Seen /\ OfKind(Seen', "parent") = P
        /\ OfKind(Seen', "class") = OfKind(Seen, "class") \cup {s}
    BY <1>2, TakeSees
  <1>4. s \in OfKind(Symbols, "class") /\ C \subseteq OfKind(Symbols, "class") /\ s \notin C
    BY <1>2, <1>3 DEF OfKind, SeenOf
  <1>5. WellFormed(Symbols) /\ Consistent(Symbols)
    BY <1>3, SymbolsInUse DEF SymbolsOK
  <1>6. c \in NameSet /\ s.value \in Nat /\ \A t \in C : t.value \in Nat
    BY <1>4, <1>5 DEF WellFormed
  <1>7. UNCHANGED <<edits, lost, cfg>> /\ edits = <<>>
    BY <1>2, <1>3 DEF settled, target, StateOK
  <1>8. SeenOf("class")' = C \cup {s}
    BY <1>2, <1>3, <1>7 DEF SeenOf
  <1>9. IsSeq(classes) /\ Elements(classes) \subseteq NameSet /\ InOrder(classes)
    BY <1>1 DEF ClassesOK, AsRead
  <1>10. IsSeq(classes') /\ Elements(classes') = Elements(classes) \cup {c} /\ InOrder(classes')
    BY <1>2, <1>6, <1>9, FindCreate
  <1>11. /\ IsSeq(class[c].fields) /\ FieldsInOrder(class[c].fields)
         /\ Elements(class[c].fields) = FieldsIn(C, c)
    BY <1>1, <1>6, <1>7 DEF AsRead, ClassesOK
  <1>12. \A x \in FieldsIn(C, c) : x.off \in Nat /\ x.name # s.name
    <2>1. ASSUME NEW t \in C, t.class = c PROVE t.value \in Nat /\ t.name # s.name
      BY <1>4, <1>5, <1>6, <2>1 DEF Consistent
    <2>2. ASSUME NEW x \in FieldsIn(C, c)
          PROVE  \E t \in C : t.class = c /\ x.name = t.name /\ x.off = t.value
      BY DEF FieldsIn
    <2> QED
      BY <2>1, <2>2
  <1>13. IsSeq(new) /\ FieldsInOrder(new) /\ Elements(new) = FieldsIn(C, c) \cup {e}
    BY <1>6, <1>11, <1>12, FieldCreate
  <1>14. class = [n \in NameSet |-> class[n]] /\ \A n \in NameSet : IsClass(class[n])
    BY DEF ClassesOK
  <1> HIDE DEF new
  <1>15. /\ class' = [n \in NameSet |-> class'[n]]
         /\ \A n \in NameSet :
               /\ IsClass(class'[n]) /\ class'[n].parent = class[n].parent
               /\ class'[n].start = class[n].start /\ class'[n].end = class[n].end
               /\ class'[n].fields = IF n = c THEN new ELSE class[n].fields
               /\ n # c => class'[n] = class[n]
    BY <1>2, <1>6, <1>14 DEF IsClass
  <1>16. ClassesOK'
    <2>1. \A n \in NameSet : n \notin Elements(classes') => class'[n] = NoClass
      BY <1>10, <1>15 DEF ClassesOK
    <2>2. \A n \in NameSet : IsSeq(class'[n].fields)
      BY <1>7, <1>13, <1>15 DEF ClassesOK
    <2> QED
      BY <1>2, <1>6, <1>7, <1>9, <1>10, <1>15, <2>1, <2>2 DEF ClassesOK
  <1>17. ASSUME NEW n \in NameSet
         PROVE  /\ FieldsInOrder(class'[n].fields)
                /\ Elements(class'[n].fields) = FieldsIn(C \cup {s}, n)
    <2>1. CASE n = c
      <3>1. FieldsIn(C \cup {s}, c) = FieldsIn(C, c) \cup {e}
        BY DEF FieldsIn
      <3> QED
        BY <1>13, <1>15, <2>1, <3>1
    <2>2. CASE n # c
      <3>1. FieldsIn(C \cup {s}, n) = FieldsIn(C, n)
        BY <2>2 DEF FieldsIn
      <3> QED
        BY <1>1, <1>7, <1>15, <2>2, <3>1 DEF AsRead
    <2> QED
      BY <2>1, <2>2
  <1>18. Elements(classes') = NamesIn(C \cup {s}, P)
    <2>1. NamesIn(C \cup {s}, P) = NamesIn(C, P) \cup {c}
      BY DEF NamesIn
    <2> QED
      BY <1>1, <1>10, <2>1 DEF AsRead
  <1>19. OfKind(Seen, "parent")' = P
    BY <1>3
  <1> HIDE DEF C, P
  <1>20. \A n \in NameSet : ParentsIn(P, n) = {class'[n].parent} \ {NULL}
    BY <1>1, <1>15 DEF AsRead
  <1>21. AsRead(SeenOf("class"), OfKind(Seen, "parent"))'
    BY <1>8, <1>10, <1>17, <1>18, <1>19, <1>20 DEF AsRead
  <1> QED
    BY <1>16, <1>21, AsReadIsClassesAsRead

\* a symbol that is neither a parent nor a field with a value
LEMMA OtherRead ==
    ASSUME StateOK, ClassesOK, ClassesAsRead, NEW s \in unread,
           conf_update_type(s) \/ conf_update_enum(s) \/ BadSymbol(s) \/ OtherSymbol(s)
    PROVE  ClassesOK' /\ ClassesAsRead'
  <1>1. /\ Take(s) /\ UNCHANGED settled /\ UNCHANGED <<classes, class>>
        /\ ~(s.kind = "parent" /\ s.ok) /\ ~(s.kind = "class" /\ s.ok /\ s \notin lost)
    BY DEF conf_update_type, conf_update_enum, BadSymbol, OtherSymbol, IsEnum, tables
  <1>2. /\ status = "symbols"
        /\ OfKind(Seen', "parent") = OfKind(Seen, "parent")
        /\ OfKind(Seen', "class") = IF s.kind = "class" /\ s.ok THEN OfKind(Seen, "class") \cup {s}
                                    ELSE OfKind(Seen, "class")
    BY <1>1, TakeSees
  <1>3. UNCHANGED <<edits, lost>>
    BY <1>1 DEF settled, target
  <1>4. SeenOf("class")' = SeenOf("class")
    BY <1>1, <1>2, <1>3 DEF SeenOf
  <1> QED
    BY <1>1, <1>2, <1>3, <1>4, ClassesStay
-----------------------------------------------------------------------------
(* conf_class_compute_offsets ends each class once, and right              *)

EndsOK ==
    /\ todo \in Seq(NameSet)
    /\ \A i \in DOMAIN todo : todo[i] \in Elements(classes) /\ class[todo[i]].end = -1
    /\ \A i, j \in DOMAIN todo :
          i < j => /\ class[todo[j]].parent # NULL
                   /\ todo[i] \in Ancestry(Symbols, class[todo[j]].parent)
    /\ Loaded => \A n \in NameSet :
          class[n].end # -1 => /\ class[n].start = After(Inherited(n))
                              /\ class[n].end = After(Offsets(n))
    /\ status \in {"constants", "types", "offsets", "ready"} =>
          \A n \in Elements(classes) : class[n].end # -1

LEMMA AfterGreatest ==
    ASSUME NEW S, S \subseteq Int, NEW x \in S, \A y \in S : y <= x
    PROVE  After(S) = x + Ptr
  <1> DEFINE m == CHOOSE z \in S : \A y \in S : y <= z
  <1>1. m \in S /\ \A y \in S : y <= m
    BY Zenon
  <1> HIDE DEF m
  <1>2. m = x
    BY <1>1
  <1> QED
    BY <1>2 DEF After, m

OffsetsIn(X) == {s.value : s \in {t \in OfKind(Symbols, "class") : t.class \in X}}

\* when all symbols have been read
LEMMA AllLoaded ==
    ASSUME StateOK, ClassesAsRead, Loaded, edits = <<>>
    PROVE  /\ WellFormed(Symbols) /\ Consistent(Symbols) /\ Definite(Symbols, Readable)
           /\ AsRead(OfKind(Symbols, "class"), OfKind(Symbols, "parent"))
           /\ \A n \in NameSet : Superclasses(Symbols, n) = {class[n].parent} \ {NULL}
  <1>1. cfg # NoCfg
    BY DEF StateOK, Loaded
  <1>2. Seen = Symbols
    BY <1>1 DEF StateOK, Seen
  <1>3. SeenOf("class") = OfKind(Symbols, "class")
    BY <1>2 DEF StateOK, Reads, SeenOf
  <1>4. AsRead(OfKind(Symbols, "class"), OfKind(Symbols, "parent"))
    BY <1>2, <1>3, AsReadIsClassesAsRead
  <1>5. \A n : Superclasses(Symbols, n) = ParentsIn(OfKind(Symbols, "parent"), n)
    BY DEF Superclasses, ParentsIn
  <1> QED
    BY <1>1, <1>4, <1>5, SymbolsInUse DEF SymbolsOK, AsRead

LEMMA AllRead ==
    ASSUME StateOK, ClassesAsRead, status = "ends"
    PROVE  /\ WellFormed(Symbols) /\ Consistent(Symbols) /\ Definite(Symbols, Readable)
           /\ edits = <<>>
           /\ AsRead(OfKind(Symbols, "class"), OfKind(Symbols, "parent"))
           /\ \A n \in NameSet : Superclasses(Symbols, n) = {class[n].parent} \ {NULL}
  <1>1. Loaded /\ edits = <<>>
    BY DEF StateOK, Loaded
  <1> QED
    BY <1>1, AllLoaded

\* a class that has a parent inherits what that has
LEMMA InheritedFrom ==
    ASSUME WellFormed(Symbols), Consistent(Symbols), NEW c \in NameSet, NEW p,
           Superclasses(Symbols, c) = {p}
    PROVE  /\ p \in NameSet /\ c \notin Ancestry(Symbols, p)
           /\ Ancestry(Symbols, c) = {c} \cup Ancestry(Symbols, p)
           /\ Inherited(c) = Offsets(p)
  <1>1. Ancestry(Symbols, c) = {c} \cup Ancestry(Symbols, p)
    BY AncestryOfParent
  <1>2. PICK s \in OfKind(Symbols, "parent") : s.class = c /\ s.name = p
    BY DEF Superclasses
  <1>3. p \in NameSet /\ c \notin Ancestry(Symbols, p)
    BY <1>2 DEF WellFormed, Consistent
  <1>4. Ancestry(Symbols, c) \ {c} = Ancestry(Symbols, p)
    BY <1>1, <1>3
  <1> QED
    BY <1>1, <1>3, <1>4 DEF Inherited, Offsets

LEMMA InheritsNothing ==
    ASSUME WellFormed(Symbols), NEW c \in NameSet, Superclasses(Symbols, c) = {}
    PROVE  Inherited(c) = {}
  <1>1. Ancestry(Symbols, c) \ {c} = {}
    BY AncestryOfRoot
  <1> QED
    BY <1>1 DEF Inherited

\* a class ends after its last field, or where what it inherits does
LEMMA EndsAfterAll ==
    ASSUME WellFormed(Symbols), Consistent(Symbols), NEW c \in NameSet, NEW fields,
           IsSeq(fields), FieldsInOrder(fields),
           Elements(fields) = FieldsIn(OfKind(Symbols, "class"), c)
    PROVE  After(Offsets(c)) = IF fields = <<>> THEN After(Inherited(c))
                               ELSE Last(fields).off + Ptr
  <1> DEFINE K == OfKind(Symbols, "class")
             own == {s.value : s \in {t \in K : t.class = c}}
  <1>1. Len(fields) \in Nat /\ DOMAIN fields = 1..Len(fields)
    BY SeqElements DEF IsSeq
  <1>2. c \in Ancestry(Symbols, c)
    BY AncestryClosed
  <1>3. Offsets(c) = own \cup Inherited(c)
    <2>1. \A t \in K : t.class \in Ancestry(Symbols, c)
                      <=> t.class = c \/ t.class \in Ancestry(Symbols, c) \ {c}
      BY <1>2
    <2> HIDE DEF K
    <2> QED
      BY <2>1 DEF Offsets, Inherited, K
  <1>4. \A x \in own : \E i \in DOMAIN fields : fields[i].off = x
    <2>1. ASSUME NEW s \in K, s.class = c PROVE \E i \in DOMAIN fields : fields[i].off = s.value
      <3>1. [name |-> s.name, off |-> s.value] \in FieldsIn(K, c)
        BY <2>1 DEF FieldsIn
      <3>2. PICK i \in DOMAIN fields : fields[i] = [name |-> s.name, off |-> s.value]
        BY <3>1 DEF Elements
      <3> QED
        BY <3>2
    <2> QED
      BY <2>1
  <1>5. \A i \in DOMAIN fields : fields[i].off \in own
    <2>1. ASSUME NEW i \in DOMAIN fields PROVE fields[i].off \in own
      <3>1. fields[i] \in FieldsIn(K, c)
        BY DEF Elements
      <3>2. PICK s \in K : s.class = c /\ fields[i] = [name |-> s.name, off |-> s.value]
        BY <3>1 DEF FieldsIn
      <3> QED
        BY <3>2
    <2> QED
      BY <2>1
  <1>6. own \subseteq Nat /\ Inherited(c) \subseteq Nat
    BY DEF WellFormed, Inherited
  <1>7. \A x \in own, y \in Inherited(c) : y < x
    BY DEF Consistent, Inherited
  <1>8. CASE fields = <<>>
    <2>1. own = {}
      BY <1>4, <1>8
    <2> QED
      BY <1>3, <1>8, <2>1
  <1>9. CASE fields # <<>>
    <2>1. Len(fields) \in DOMAIN fields
      BY <1>1, <1>9 DEF IsSeq
    <2> DEFINE x == Last(fields).off
    <2>2. x \in own /\ x = fields[Len(fields)].off
      BY <1>5, <2>1 DEF Last
    <2> HIDE DEF own, x
    <2>3. \A i \in DOMAIN fields : fields[i].off <= x
      <3>1. \A i \in DOMAIN fields : i < Len(fields) \/ i = Len(fields)
        BY <1>1
      <3>2. fields[Len(fields)].off <= x
        <4>1. x \in Nat
          BY <1>6, <2>2
        <4>2. x <= x
          BY <4>1
        <4> QED
          BY <2>2, <4>2
      <3> QED
        BY <2>1, <2>2, <3>1, <3>2 DEF FieldsInOrder
    <2>4. \A y \in own : y <= x
      BY <1>4, <2>3
    <2>5. \A y \in Inherited(c) : y <= x
      BY <1>6, <1>7, <2>2
    <2>6. Offsets(c) \subseteq Int /\ x \in Offsets(c) /\ \A y \in Offsets(c) : y <= x
      <3>1. own \subseteq Int /\ Inherited(c) \subseteq Int
        BY <1>6
      <3> QED
        BY <1>3, <2>2, <2>4, <2>5, <3>1
    <2> QED
      BY <1>9, <2>6, AfterGreatest DEF x
  <1> QED
    BY <1>8, <1>9

\* the innermost call computes an end, of a class that had none, and it is right
LEMMA ClassComputed ==
    ASSUME StateOK, ClassesOK, ClassesAsRead, EndsOK, ComputeClass
    PROVE  LET c == Head(todo)
           IN /\ c \in NameSet /\ c \in Elements(classes) /\ status = "ends" /\ status' = "ends"
              /\ UNCHANGED <<classes, settled, unread>>
              /\ todo # <<>> /\ todo' = Tail(todo)
              /\ class' = [n \in NameSet |-> class'[n]]
              /\ \A n \in NameSet : n # c => class'[n] = class[n]
              /\ class'[c] = [parent |-> class[c].parent, fields |-> class[c].fields,
                             start |-> After(Inherited(c)), end |-> After(Offsets(c))]
              /\ After(Offsets(c)) # -1
  <1> DEFINE c == Head(todo)
             p == class[c].parent
             start == IF p = NULL THEN 0 ELSE class[p].end
  <1>1. /\ status = "ends" /\ todo # <<>> /\ ~ParentPending(c) /\ status' = "ends"
        /\ todo' = Tail(todo) /\ UNCHANGED <<classes, settled, unread>>
        /\ class' = [class EXCEPT ![c].start = start, ![c].end = EndOf(c, start)]
    BY DEF ComputeClass
  <1>2. c = todo[1] /\ 1 \in DOMAIN todo
    BY <1>1 DEF EndsOK
  <1>3. c \in Elements(classes) /\ c \in NameSet
    BY <1>2 DEF EndsOK, ClassesOK
  <1>4. /\ WellFormed(Symbols) /\ Consistent(Symbols)
        /\ AsRead(OfKind(Symbols, "class"), OfKind(Symbols, "parent"))
        /\ edits = <<>>
        /\ Superclasses(Symbols, c) = {p} \ {NULL}
    BY <1>1, <1>3, AllRead
  <1>5. /\ IsSeq(class[c].fields) /\ FieldsInOrder(class[c].fields)
        /\ Elements(class[c].fields) = FieldsIn(OfKind(Symbols, "class"), c)
    BY <1>3, <1>4 DEF AsRead, ClassesOK
  <1>6. class = [n \in NameSet |-> class[n]] /\ IsClass(class[c])
    BY <1>3 DEF ClassesOK
  <1> HIDE DEF c, p, start
  <1>7. start = After(Inherited(c)) /\ start # -1
    <2>1. CASE p = NULL
      <3>1. Inherited(c) = {}
        BY <1>3, <1>4, <2>1, InheritsNothing
      <3> QED
        BY <2>1, <3>1 DEF After, start
    <2>2. CASE p # NULL
      <3>1. p \in NameSet /\ Inherited(c) = Offsets(p)
        BY <1>3, <1>4, <2>2, InheritedFrom
      <3>2. start = class[p].end /\ start # -1
        BY <1>1, <2>2 DEF ParentPending, p, start
      <3>3. class[p].end = After(Offsets(p))
        BY <1>1, <3>1, <3>2 DEF EndsOK, Loaded
      <3> QED
        BY <3>1, <3>2, <3>3
    <2> QED
      BY <2>1, <2>2
  <1>8. EndOf(c, start) = After(Offsets(c))
    <2>1. After(Offsets(c)) = IF class[c].fields = <<>> THEN After(Inherited(c))
                              ELSE Last(class[c].fields).off + Ptr
      BY <1>3, <1>4, <1>5, EndsAfterAll
    <2> QED
      BY <1>7, <2>1 DEF EndOf
  <1>9. EndOf(c, start) # -1
    <2>1. CASE class[c].fields = <<>>
      BY <1>7, <2>1 DEF EndOf
    <2>2. CASE class[c].fields # <<>>
      <3>1. Len(class[c].fields) \in DOMAIN class[c].fields
        BY <1>5, <2>2, SeqElements DEF IsSeq
      <3>2. Last(class[c].fields) \in FieldsIn(OfKind(Symbols, "class"), c)
        BY <1>5, <3>1 DEF Elements, Last
      <3>3. PICK s \in OfKind(Symbols, "class") : Last(class[c].fields) = [name |-> s.name, off |-> s.value]
        BY <3>2 DEF FieldsIn
      <3>4. Last(class[c].fields).off \in Nat
        BY <1>4, <3>3 DEF WellFormed
      <3> QED
        BY <2>2, <3>4 DEF EndOf, Ptr
    <2> QED
      BY <2>1, <2>2
  <1>10. class'[c] = [parent |-> class[c].parent, fields |-> class[c].fields,
                      start |-> start, end |-> EndOf(c, start)]
    BY <1>1, <1>3, <1>6 DEF IsClass
  <1>11. class' = [n \in NameSet |-> class'[n]] /\ \A n \in NameSet : n # c => class'[n] = class[n]
    BY <1>1, <1>6
  <1> QED
    BY <1>1, <1>3, <1>7, <1>8, <1>9, <1>10, <1>11 DEF c

\* nothing but that changes the classes
LEMMA ClassesComputed ==
    ASSUME StateOK, ClassesOK, ClassesAsRead, EndsOK, Computing
    PROVE  ClassesOK' /\ ClassesAsRead'
  <1>1. /\ UNCHANGED settled /\ UNCHANGED <<unread, classes>> /\ cfg # NoCfg
        /\ status' \in {"ends", "constants", "types", "offsets", "ready", "failed"}
    BY ComputingSteps
  <1>2. UNCHANGED <<edits, lost>> /\ Seen' = Seen /\ SeenOf("class")' = SeenOf("class")
    BY <1>1, SeenStays DEF settled, target, SeenOf
  <1>3. CASE UNCHANGED class
    BY <1>1, <1>2, <1>3, ClassesStay
  <1>4. CASE ~UNCHANGED class
    <2>1. ComputeClass
      BY <1>4 DEF Computing, EndSymbols, StartClass, ComputeParent, EndClasses, LoadConstants,
                  LoadTypes, LoadOffsets, tables
    <2>2. PICK c, s, e :
            /\ c \in NameSet /\ c \in Elements(classes)
            /\ class' = [n \in NameSet |-> class'[n]]
            /\ \A n \in NameSet : n # c => class'[n] = class[n]
            /\ class'[c] = [parent |-> class[c].parent, fields |-> class[c].fields,
                           start |-> s, end |-> e]
            /\ e # -1
      BY <2>1, ClassComputed
    <2>3. \A n \in NameSet : class'[n].parent = class[n].parent /\ class'[n].fields = class[n].fields
      BY <2>2
    <2>4. AsRead(SeenOf("class"), OfKind(Seen, "parent"))
      BY AsReadIsClassesAsRead
    <2>5. AsRead(SeenOf("class"), OfKind(Seen, "parent"))'
      BY <1>1, <1>2, <2>3, <2>4 DEF AsRead
    <2>6. \A n \in NameSet : IsClass(class'[n])
      <3>1. IsClass(class'[c])
        BY <2>2 DEF IsClass
      <3> QED
        BY <2>2, <3>1 DEF ClassesOK
    <2>7. ClassesOK'
      BY <1>1, <1>2, <2>2, <2>3, <2>6 DEF ClassesOK
    <2> QED
      BY <2>5, <2>7, AsReadIsClassesAsRead
  <1> QED
    BY <1>3, <1>4

\* where a class starts and ends is of the symbols, which stay
LEMMA SameEnds ==
    ASSUME UNCHANGED <<target, cfg>>
    PROVE  /\ \A n : Inherited(n)' = Inherited(n) /\ Offsets(n)' = Offsets(n)
           /\ Symbols' = Symbols
  <1>1. Symbols' = Symbols
    BY DEF target, Symbols
  <1> QED
    BY <1>1 DEF Inherited, Offsets

LEMMA EndsStay ==
    ASSUME EndsOK, UNCHANGED <<target, cfg, todo, classes, class>>,
           Loaded' => Loaded,
           status' \in {"constants", "types", "offsets", "ready"} =>
              status \in {"constants", "types", "offsets", "ready"}
              \/ \A n \in Elements(classes) : class[n].end # -1
    PROVE  EndsOK'
  BY SameEnds DEF EndsOK

\* conf_class_compute_offsets calls itself for a parent that has no end yet
LEMMA ParentCalled ==
    ASSUME StateOK, ClassesOK, ClassesAsRead, EndsOK, ComputeParent
    PROVE  EndsOK'
  <1> DEFINE c == Head(todo)
             p == class[c].parent
  <1>1. /\ status = "ends" /\ todo # <<>> /\ ParentPending(c) /\ status' = "ends"
        /\ todo' = <<p>> \o todo
        /\ UNCHANGED <<settled, classes, class>>
    BY DEF ComputeParent, tables
  <1>2. c = todo[1] /\ 1 \in DOMAIN todo /\ todo \in Seq(NameSet)
    BY <1>1 DEF EndsOK
  <1>3. c \in Elements(classes) /\ c \in NameSet
    BY <1>2 DEF EndsOK, ClassesOK
  <1>4. /\ WellFormed(Symbols) /\ Superclasses(Symbols, c) = {p} \ {NULL}
        /\ Elements(classes) = NamesIn(OfKind(Symbols, "class"), OfKind(Symbols, "parent"))
    BY <1>1, <1>3, AllRead DEF AsRead
  <1>5. p # NULL /\ class[p].end = -1
    BY <1>1 DEF ParentPending
  <1>6. PICK s \in OfKind(Symbols, "parent") : s.class = c /\ s.name = p
    <2>1. p \in Superclasses(Symbols, c)
      BY <1>4, <1>5
    <2> QED
      BY <2>1 DEF Superclasses
  <1>7. p \in NameSet /\ p \in Elements(classes)
    BY <1>4, <1>6 DEF WellFormed, NamesIn
  <1>8. UNCHANGED <<target, cfg>> /\ Symbols' = Symbols
    BY <1>1, SameEnds DEF settled
  <1> HIDE DEF c, p
  <1>9. Len(todo) \in Nat /\ DOMAIN todo = 1..Len(todo)
    BY <1>2, LenProperties
  <1>10. /\ todo' \in Seq(NameSet) /\ DOMAIN todo' = 1..(Len(todo) + 1)
         /\ todo'[1] = p /\ \A i \in 2..(Len(todo) + 1) : todo'[i] = todo[i - 1]
    <2>1. <<p>> \in Seq(NameSet) /\ Len(<<p>>) = 1 /\ <<p>>[1] = p
      BY <1>7
    <2>2. /\ <<p>> \o todo \in Seq(NameSet) /\ Len(<<p>> \o todo) = 1 + Len(todo)
          /\ \A i \in 1..(1 + Len(todo)) :
                (<<p>> \o todo)[i] = IF i <= 1 THEN <<p>>[i] ELSE todo[i - 1]
      BY <1>2, <2>1, ConcatProperties
    <2> DEFINE r == <<p>> \o todo
    <2>3. /\ r \in Seq(NameSet) /\ Len(r) = 1 + Len(todo)
          /\ \A i \in 1..(1 + Len(todo)) : r[i] = IF i <= 1 THEN p ELSE todo[i - 1]
      BY <2>1, <2>2
    <2> HIDE DEF r
    <2>4. DOMAIN r = 1..(Len(todo) + 1)
      BY <1>9, <2>3, LenProperties
    <2>5. r[1] = p /\ \A i \in 2..(Len(todo) + 1) : r[i] = todo[i - 1]
      BY <1>9, <2>3
    <2> QED
      BY <1>1, <2>3, <2>4, <2>5 DEF r
  <1>11. ASSUME NEW i \in DOMAIN todo'
         PROVE  todo'[i] \in Elements(classes) /\ class[todo'[i]].end = -1
    <2>1. CASE i = 1
      BY <1>5, <1>7, <1>10, <2>1
    <2>2. CASE i # 1
      <3>1. i \in 2..(Len(todo) + 1) /\ i - 1 \in DOMAIN todo
        BY <1>9, <1>10, <2>2
      <3> QED
        BY <1>10, <3>1 DEF EndsOK
    <2> QED
      BY <2>1, <2>2
  <1>12. ASSUME NEW i \in DOMAIN todo', NEW j \in DOMAIN todo', i < j
         PROVE  /\ class[todo'[j]].parent # NULL
                /\ todo'[i] \in Ancestry(Symbols, class[todo'[j]].parent)
    <2>1. j \in 2..(Len(todo) + 1) /\ j - 1 \in DOMAIN todo /\ todo'[j] = todo[j - 1]
      BY <1>9, <1>10, <1>12
    <2>2. CASE i # 1
      <3>1. i \in 2..(Len(todo) + 1) /\ i - 1 \in DOMAIN todo /\ i - 1 < j - 1
        BY <1>9, <1>10, <1>12, <2>2
      <3> QED
        BY <1>10, <2>1, <3>1 DEF EndsOK
    <2>3. CASE i = 1 /\ j = 2
      <3>1. todo'[j] = c /\ todo'[i] = p /\ class[c].parent = p
        BY <1>2, <1>10, <2>1, <2>3 DEF p
      <3> QED
        BY <1>4, <1>5, <1>7, <3>1, AncestryClosed
    <2>4. CASE i = 1 /\ j # 2
      <3>1. 1 < j - 1
        BY <2>1, <2>4
      <3> DEFINE q == class[todo[j - 1]].parent
      <3>2. q # NULL /\ c \in Ancestry(Symbols, q)
        BY <1>2, <2>1, <3>1 DEF EndsOK
      <3>3. q \in NameSet
        <4>1. todo[j - 1] \in NameSet
          BY <1>2, <2>1
        <4>2. Superclasses(Symbols, todo[j - 1]) = {q} \ {NULL}
          BY <1>1, <4>1, AllRead
        <4> QED
          BY <1>4, <3>2, <4>2, SuperclassNames
      <3>4. p \in Ancestry(Symbols, q)
        <4>1. p \in Superclasses(Symbols, c)
          BY <1>4, <1>5
        <4> QED
          BY <1>4, <3>2, <3>3, <4>1, AncestryClosed DEF Closed
      <3> QED
        BY <1>10, <2>1, <2>4, <3>2, <3>4
    <2> QED
      BY <2>1, <2>2, <2>3, <2>4
  <1>13. \A n : Inherited(n)' = Inherited(n) /\ Offsets(n)' = Offsets(n)
    BY <1>8, SameEnds
  <1> QED
    BY <1>1, <1>8, <1>10, <1>11, <1>12, <1>13 DEF EndsOK, Loaded

\* the class that ends is none of those that wait for it: inheritance has no cycle
LEMMA ClassEnded ==
    ASSUME StateOK, ClassesOK, ClassesAsRead, EndsOK, ComputeClass
    PROVE  EndsOK'
  <1>1. PICK c : c = Head(todo)
    OBVIOUS
  <1>2. /\ c \in NameSet /\ c \in Elements(classes) /\ status = "ends" /\ status' = "ends"
        /\ UNCHANGED <<classes, settled, unread>>
        /\ todo # <<>> /\ todo' = Tail(todo)
        /\ \A n \in NameSet : n # c => class'[n] = class[n]
        /\ class'[c] = [parent |-> class[c].parent, fields |-> class[c].fields,
                       start |-> After(Inherited(c)), end |-> After(Offsets(c))]
    BY <1>1, ClassComputed
  <1>3. UNCHANGED <<target, cfg>> /\ Symbols' = Symbols
        /\ \A n : Inherited(n)' = Inherited(n) /\ Offsets(n)' = Offsets(n)
    BY <1>2, SameEnds DEF settled
  <1>4. todo \in Seq(NameSet) /\ c = todo[1]
    BY <1>1, <1>2 DEF EndsOK
  <1>5. /\ Len(todo) \in Nat \ {0} /\ DOMAIN todo = 1..Len(todo)
        /\ todo' \in Seq(NameSet) /\ Len(todo') = Len(todo) - 1
        /\ \A i \in 1..Len(todo') : todo'[i] = todo[i + 1]
    BY <1>2, <1>4, LenProperties, HeadTailProperties
  <1>6. DOMAIN todo' = 1..(Len(todo) - 1)
    BY <1>5, LenProperties
  <1>7. \A i \in DOMAIN todo' : i + 1 \in DOMAIN todo /\ 1 < i + 1 /\ todo'[i] = todo[i + 1]
    BY <1>5, <1>6
  <1>8. 1 \in DOMAIN todo
    BY <1>5
  <1>9. \A n \in NameSet : class'[n].parent = class[n].parent
    BY <1>2
  <1>10. ASSUME NEW i \in DOMAIN todo'
         PROVE  todo'[i] \in Elements(classes) /\ class'[todo'[i]].end = -1
    <2> DEFINE d == todo[i + 1]
    <2>1. d \in Elements(classes) /\ class[d].end = -1 /\ d \in NameSet
      BY <1>4, <1>7 DEF EndsOK, ClassesOK
    <2>2. class[d].parent # NULL /\ c \in Ancestry(Symbols, class[d].parent)
      BY <1>4, <1>7, <1>8 DEF EndsOK
    <2>3. Superclasses(Symbols, d) = {class[d].parent} \ {NULL}
          /\ WellFormed(Symbols) /\ Consistent(Symbols)
      BY <1>2, <2>1, AllRead
    <2>4. Superclasses(Symbols, d) = {class[d].parent}
      BY <2>2, <2>3
    <2>5. d \notin Ancestry(Symbols, class[d].parent)
      BY <2>1, <2>3, <2>4, InheritedFrom
    <2>6. d # c
      BY <2>2, <2>5
    <2> QED
      BY <1>2, <1>7, <2>1, <2>6
  <1>11. ASSUME NEW i \in DOMAIN todo', NEW k \in DOMAIN todo', i < k
         PROVE  /\ class'[todo'[k]].parent # NULL
                /\ todo'[i] \in Ancestry(Symbols, class'[todo'[k]].parent)
    <2>1. i + 1 \in DOMAIN todo /\ k + 1 \in DOMAIN todo /\ i + 1 < k + 1
      BY <1>6, <1>7, <1>11
    <2>2. todo[k + 1] \in NameSet
      BY <1>4, <2>1
    <2>3. class'[todo'[k]].parent = class[todo[k + 1]].parent
      BY <1>7, <1>9, <2>2
    <2> QED
      BY <1>7, <2>1, <2>3 DEF EndsOK
  <1>12. \A n \in NameSet :
            class'[n].end # -1 => /\ class'[n].start = After(Inherited(n))
                                 /\ class'[n].end = After(Offsets(n))
    <2>1. \A n \in NameSet :
             class[n].end # -1 => /\ class[n].start = After(Inherited(n))
                                 /\ class[n].end = After(Offsets(n))
      BY <1>2 DEF EndsOK, Loaded
    <2> QED
      BY <1>2, <2>1
  <1> QED
    BY <1>2, <1>3, <1>5, <1>10, <1>11, <1>12 DEF EndsOK, Loaded

LEMMA ClassStarted ==
    ASSUME StateOK, ClassesOK, EndsOK, NEW i \in DOMAIN classes, StartClass(i)
    PROVE  EndsOK'
  <1>1. /\ status = "ends" /\ status' = "ends" /\ class[classes[i]].end = -1
        /\ todo' = <<classes[i]>> /\ UNCHANGED <<settled, classes, class>>
    BY DEF StartClass, tables
  <1>2. UNCHANGED <<target, cfg>> /\ Symbols' = Symbols
        /\ \A n : Inherited(n)' = Inherited(n) /\ Offsets(n)' = Offsets(n)
    BY <1>1, SameEnds DEF settled
  <1>3. classes[i] \in Elements(classes) /\ classes[i] \in NameSet
    BY DEF Elements, ClassesOK
  <1>4. /\ todo' \in Seq(NameSet) /\ DOMAIN todo' = {1} /\ todo'[1] = classes[i]
    BY <1>1, <1>3
  <1>5. \A j, k \in DOMAIN todo' : ~(j < k)
    BY <1>4
  <1> QED
    BY <1>1, <1>2, <1>3, <1>4, <1>5 DEF EndsOK, Loaded

LEMMA EndsComputed ==
    ASSUME StateOK, ClassesOK, ClassesAsRead, EndsOK, Computing
    PROVE  EndsOK'
  <1>1. UNCHANGED settled /\ UNCHANGED <<target, cfg>>
    BY ComputingSteps DEF settled
  <1>2. CASE EndSymbols
    <2>1. /\ status = "symbols" /\ status' = "ends" /\ UNCHANGED <<todo, classes, class>>
      BY <1>2 DEF EndSymbols, tables
    <2>2. todo = <<>> /\ \A n \in NameSet : class[n].end = -1
      BY <2>1 DEF StateOK, ClassesOK
    <2> QED
      BY <1>1, <2>1, <2>2, SameEnds DEF EndsOK
  <1>3. CASE \E i \in DOMAIN classes : StartClass(i)
    BY <1>3, ClassStarted
  <1>4. CASE ComputeParent
    BY <1>4, ParentCalled
  <1>5. CASE ComputeClass
    BY <1>5, ClassEnded
  <1>6. CASE EndClasses
    <2>1. /\ status = "ends" /\ \A n \in Elements(classes) : class[n].end # -1
          /\ UNCHANGED <<todo, classes, class>>
      BY <1>6 DEF EndClasses, tables
    <2> QED
      BY <1>1, <2>1, EndsStay DEF Loaded
  <1>7. CASE LoadConstants \/ LoadTypes \/ LoadOffsets
    <2>1. /\ status \in {"constants", "types", "offsets"} /\ UNCHANGED <<todo, classes, class>>
      BY <1>7 DEF LoadConstants, LoadTypes, LoadOffsets
    <2> QED
      BY <1>1, <2>1, EndsStay DEF Loaded
  <1> QED
    BY <1>2, <1>3, <1>4, <1>5, <1>6, <1>7 DEF Computing

\* ::v8field moves or adds a field, and leaves where its class starts and ends
LEMMA FieldEdited ==
    ASSUME StateOK, ClassesOK, ClassesAsRead, EndsOK, NEW a \in FieldArgs, V8Field(a)
    PROVE  ClassesOK' /\ ClassesAsRead' /\ EndsOK'
  <1>1. /\ UNCHANGED <<target, cfg, unread, status, classes, todo>>
        /\ edits' # <<>> /\ status \in {"failed", "ready"}
    BY FieldSteps
  <1>2. a.class \in Elements(classes) /\ a.class \in NameSet
    BY DEF V8Field, ClassesOK
  <1>3. class = [n \in NameSet |-> class[n]] /\ \A n \in NameSet : IsClass(class[n])
    BY DEF ClassesOK
  <1>4. PICK new : class' = [class EXCEPT ![a.class].fields = new]
    <2>1. CASE Fields(a.class, a.name) = {}
      BY <2>1 DEF V8Field
    <2>2. CASE Fields(a.class, a.name) # {}
      <3>1. class' = [class EXCEPT ![a.class].fields[SmallestOf(Fields(a.class, a.name))].off = a.off]
        BY <2>2 DEF V8Field
      <3> DEFINE k == SmallestOf(Fields(a.class, a.name))
                 fs == class[a.class].fields
      <3>2. class' = [class EXCEPT ![a.class].fields = [fs EXCEPT ![k].off = a.off]]
        BY <3>1, Zenon
      <3> QED
        BY <3>2
    <2> QED
      BY <2>1, <2>2
  <1>5. /\ class' = [n \in NameSet |-> class'[n]]
        /\ \A n \in NameSet :
              /\ IsClass(class'[n]) /\ class'[n].parent = class[n].parent
              /\ class'[n].start = class[n].start /\ class'[n].end = class[n].end
              /\ n # a.class => class'[n] = class[n]
    BY <1>2, <1>3, <1>4 DEF IsClass
  <1>6. Seen' = Seen /\ SeenOf("class")' = SeenOf("class") /\ Symbols' = Symbols
    BY <1>1, SeenStays DEF target, SeenOf
  <1>7. AsRead(SeenOf("class"), OfKind(Seen, "parent"))
    BY AsReadIsClassesAsRead
  <1>8. AsRead(SeenOf("class"), OfKind(Seen, "parent"))'
    BY <1>1, <1>5, <1>6, <1>7 DEF AsRead
  <1>9. ClassesOK'
    BY <1>1, <1>2, <1>5 DEF ClassesOK
  <1>10. todo = <<>>
    BY <1>1 DEF StateOK
  <1>11. \A n : Inherited(n)' = Inherited(n) /\ Offsets(n)' = Offsets(n)
    BY <1>1, SameEnds
  <1>12. todo' = <<>> /\ DOMAIN todo' = {}
    BY <1>1, <1>10
  <1>13. EndsOK'
    <2>1. Elements(classes) \subseteq NameSet /\ Loaded' <=> Loaded
      BY <1>1 DEF ClassesOK, Loaded
    <2>2. \A n \in NameSet : class'[n].start = class[n].start /\ class'[n].end = class[n].end
      BY <1>5
    <2>3. todo' \in Seq(NameSet)
      BY <1>12
    <2>4. Loaded' => \A n \in NameSet :
             class'[n].end # -1 => /\ class'[n].start = After(Inherited(n))
                                  /\ class'[n].end = After(Offsets(n))
      BY <1>1, <2>2 DEF EndsOK, Loaded
    <2>5. status' \in {"constants", "types", "offsets", "ready"} =>
             \A n \in Elements(classes) : class'[n].end # -1
      <3>1. \A n \in Elements(classes) : class'[n].end = class[n].end
        BY <2>2 DEF ClassesOK
      <3> QED
        BY <1>1, <3>1 DEF EndsOK
    <2> QED
      BY <1>1, <1>11, <1>12, <2>3, <2>4, <2>5 DEF EndsOK
  <1> QED
    BY <1>8, <1>9, <1>13, AsReadIsClassesAsRead

ClassesInv == StateOK /\ ClassesOK /\ ClassesAsRead /\ EndsOK

LEMMA InitClassesInv == Init => ClassesInv
  <1>1. Init => EndsOK
    BY EmptySeqs DEF Init, EndsOK, Loaded
  <1> QED
    BY <1>1, InitStateOK, InitClasses DEF ClassesInv

LEMMA ClassesInvStep ==
    ASSUME ClassesInv, [Next]_cfgvars
    PROVE  ClassesInv'
  <1>1. StateOK /\ ClassesOK /\ ClassesAsRead /\ EndsOK /\ StateOK'
    BY StateOKStep DEF ClassesInv
  <1>2. ASSUME UNCHANGED <<target, cfg, unread, classes, class, edits, todo>>,
               status' = status \/ status' = "unconfigured"
        PROVE  ClassesOK' /\ ClassesAsRead' /\ EndsOK'
    <2>1. Seen' = Seen /\ SeenOf("class")' = SeenOf("class")
      BY <1>2, SeenStays DEF SeenOf, target
    <2>2. ClassesOK' /\ ClassesAsRead'
      BY <1>1, <1>2, <2>1, ClassesStay
    <2>3. EndsOK'
      BY <1>1, <1>2, EndsStay DEF Loaded
    <2> QED
      BY <2>2, <2>3
  <1>3. CASE UNCHANGED cfgvars
    BY <1>1, <1>2, <1>3 DEF cfgvars, settled, tables, ClassesInv
  <1>4. CASE NotConfigured
    BY <1>1, <1>2, <1>4 DEF NotConfigured, tables, ClassesInv
  <1>5. CASE Begins
    <2>1. /\ status' = "symbols" /\ Seen' = {} /\ edits = <<>> /\ todo = <<>> /\ classes = <<>>
          /\ UNCHANGED <<edits, todo, classes, class>>
      BY <1>1, <1>5, BeginsReading DEF tables, Begins
    <2>2. class = [n \in NameSet |-> NoClass]
      BY <1>1, <2>1, NoClasses
    <2>3. SeenOf("class")' = {} /\ OfKind(Seen, "parent")' = {}
      BY <2>1 DEF SeenOf, OfKind
    <2>4. AsRead({}, {})
      BY <2>1, <2>2, NothingRead
    <2>5. AsRead(SeenOf("class"), OfKind(Seen, "parent"))'
      BY <2>1, <2>3, <2>4 DEF AsRead
    <2>6. \A n \in NameSet : class[n].end = -1
      BY <2>2 DEF NoClass
    <2>7. ClassesOK'
      BY <1>1, <2>1, <2>6 DEF ClassesOK
    <2>8. EndsOK'
      BY <2>1, EmptySeqs DEF EndsOK, Loaded
    <2> QED
      BY <2>5, <2>7, <2>8, <1>1, AsReadIsClassesAsRead DEF ClassesInv
  <1>6. CASE \E s \in unread : Reading(s)
    <2>1. PICK s \in unread : Reading(s)
      BY <1>6
    <2>2. ClassesOK' /\ ClassesAsRead'
      BY <1>1, <2>1, ParentRead, FieldRead, OtherRead DEF Reading
    <2>3. Take(s) /\ status' \in {status, "failed"} /\ todo' = todo
      BY <2>1, ReadingTakes
    <2>4. todo = <<>>
      BY <1>1, <2>3 DEF Take, StateOK
    <2>5. EndsOK'
      BY <2>3, <2>4, EmptySeqs DEF EndsOK, Loaded, Take
    <2> QED
      BY <1>1, <2>2, <2>5 DEF ClassesInv
  <1>7. CASE Computing
    BY <1>1, <1>7, ClassesComputed, EndsComputed DEF ClassesInv
  <1>8. CASE \E a \in FieldArgs : V8Field(a)
    BY <1>1, <1>8, FieldEdited DEF ClassesInv
  <1> QED
    BY <1>1, <1>2, <1>3, <1>4, <1>5, <1>6, <1>7, <1>8, NextMoves DEF Moves, ClassesInv

LEMMA ClassesInvHolds == Spec => []ClassesInv
  BY InitClassesInv, ClassesInvStep, PTL DEF Spec

(* The classes and their fields are those of the symbols that have been    *)
(* read, once each and in order, whatever order the symbols came in,       *)
(* however many could be read, and whatever was tried before.              *)
THEOREM ClassesRead == Spec => []ClassesAsRead
  <1>1. ClassesInv => ClassesAsRead
    BY DEF ClassesInv
  <1> QED
    BY <1>1, ClassesInvHolds, PTL

(* Every class starts where its parent ends, and ends after its last       *)
(* field, for any inheritance without cycles; no class is computed twice,  *)
(* as conf_class_compute_offsets asserts.                                  *)
THEOREM EndsRight == Spec => []EndsFollowParents
  <1>1. ASSUME ClassesInv PROVE EndsFollowParents
    <2> USE <1>1 DEF ClassesInv
    <2>1. ASSUME NEW i \in DOMAIN todo PROVE class[todo[i]].start = 0 /\ class[todo[i]].end = -1
      <3>1. todo[i] \in Elements(classes) /\ class[todo[i]].end = -1
        BY DEF EndsOK
      <3> QED
        BY <3>1 DEF ClassesOK
    <2>2. ASSUME status \in {"constants", "types", "offsets", "ready"}, NEW n \in Elements(classes)
          PROVE  class[n].start = After(Inherited(n)) /\ class[n].end = After(Offsets(n))
      <3>1. n \in NameSet
        BY DEF ClassesOK
      <3>2. class[n].end # -1 /\ Loaded
        BY <2>2 DEF EndsOK, Loaded
      <3> QED
        BY <3>1, <3>2 DEF EndsOK
    <2> QED
      BY <2>1, <2>2 DEF EndsFollowParents
  <1> QED
    BY <1>1, ClassesInvHolds, PTL
-----------------------------------------------------------------------------
(* The constants and offsets that autoconfigure succeeds with              *)

LEMMA VariableNames ==
    {"FIXEDARRAY_LENGTH", "JSOBJECT_PROPERTIES", "JSRECEIVER_PROPERTIES", "SEQASCIISTR_CHARS",
     "SEQONEBYTESTR_CHARS", "SEQTWOBYTESTR_CHARS", "fp_context_or_frame_type", "fp_marker",
     "scopeinfo_idx_first_vars", "HeapObjectTag", "SHAREDFUNCTIONINFO_IDENTIFIER",
     "SHAREDFUNCTIONINFO_INFERRED_NAME", "BoundFunction"} \subseteq Variables
  <1>1. {"HeapObjectTag", "fp_context_or_frame_type", "fp_marker", "scopeinfo_idx_first_vars"}
           \subseteq {c.sym : c \in v8_constants}
    BY DEF v8_constants
  <1>2. {"FIXEDARRAY_LENGTH", "JSOBJECT_PROPERTIES", "JSRECEIVER_PROPERTIES", "SEQASCIISTR_CHARS",
         "SEQONEBYTESTR_CHARS", "SEQTWOBYTESTR_CHARS", "SHAREDFUNCTIONINFO_IDENTIFIER",
         "SHAREDFUNCTIONINFO_INFERRED_NAME"} \subseteq {o.var : o \in v8_offsets}
    <2>1. \E o \in v8_offsets : o.var = "FIXEDARRAY_LENGTH"
      BY DEF v8_offsets
    <2>2. \E o \in v8_offsets : o.var = "JSOBJECT_PROPERTIES"
      BY DEF v8_offsets
    <2>3. \E o \in v8_offsets : o.var = "JSRECEIVER_PROPERTIES"
      BY DEF v8_offsets
    <2>4. \E o \in v8_offsets : o.var = "SEQASCIISTR_CHARS"
      BY DEF v8_offsets
    <2>5. \E o \in v8_offsets : o.var = "SEQONEBYTESTR_CHARS"
      BY DEF v8_offsets
    <2>6. \E o \in v8_offsets : o.var = "SEQTWOBYTESTR_CHARS"
      BY DEF v8_offsets
    <2>7. \E o \in v8_offsets : o.var = "SHAREDFUNCTIONINFO_IDENTIFIER"
      BY DEF v8_offsets
    <2>8. \E o \in v8_offsets : o.var = "SHAREDFUNCTIONINFO_INFERRED_NAME"
      BY DEF v8_offsets
    <2> QED
      BY <2>1, <2>2, <2>3, <2>4, <2>5, <2>6, <2>7, <2>8
  <1> QED
    BY <1>1, <1>2 DEF Variables

(* The entries of the tables, one for each variable                        *)

OneConstant(n, must, none) ==
    \E c \in v8_constants : c.sym = n /\ (Needed(c) <=> must) /\ (~must => Otherwise(c) = none)
OneOffset(n, must, none) ==
    \E o \in v8_offsets :
       /\ \A p \in v8_offsets : p.var = n <=> p = o
       /\ ~o.optional /\ Needed(o) <=> must
       /\ ~must => (IF o.optional THEN -1 ELSE Otherwise(o)) = none

\* no version is before the first
IsVersion(v) == v \in Nat \X Nat \X Nat \X Nat
VersionOK == IsVersion(v8_version) /\ (binary.version = NULL \/ IsVersion(binary.version))

LEMMA ConstantEntries ==
    ASSUME VersionOK
    PROVE  /\ OneConstant("HeapObjectTag", TRUE, -1)
           /\ OneConstant("AsciiStringTag", ~Since(3, 29), -1)
           /\ OneConstant("OneByteStringTag", Since(3, 29), -1)
           /\ OneConstant("fp_context_or_frame_type", FALSE, IF Since(5, 1) THEN -8 ELSE -1)
           /\ OneConstant("fp_marker", ~Since(5, 1), -1)
           /\ OneConstant("context_ncommon", FALSE, 4)
           /\ OneConstant("scopeinfo_idx_first_vars", FALSE, IF Since(4, 5) THEN 6 ELSE -1)
  <1> USE DEF OneConstant, Since, Needed, Otherwise, Fallback, RemovedSince, AddedSince
  <1>1. ~Older(v8_version, <<0, 0>>)
    BY DEF VersionOK, IsVersion, Older
  <1>2. OneConstant("HeapObjectTag", TRUE, -1)
    <2> DEFINE c == [sym |-> "HeapObjectTag", flags |-> {}, since |-> <<0, 0>>,
                     fallback |-> 0]
    <2>1. c \in v8_constants
      BY DEF v8_constants
    <2>2. c.sym = "HeapObjectTag" /\ c.flags = {} /\ c.since = <<0, 0>> /\ c.fallback = 0
      OBVIOUS
    <2> HIDE DEF c
    <2> QED
      BY <1>1, <2>1, <2>2
  <1>3. OneConstant("AsciiStringTag", ~Since(3, 29), -1)
    <2> DEFINE c == [sym |-> "AsciiStringTag", flags |-> RemovedSince, since |-> <<3, 29>>,
                     fallback |-> 0]
    <2>1. c \in v8_constants
      BY DEF v8_constants
    <2>2. c.sym = "AsciiStringTag" /\ c.flags = RemovedSince /\ c.since = <<3, 29>> /\ c.fallback = 0
      OBVIOUS
    <2> HIDE DEF c
    <2> QED
      BY <1>1, <2>1, <2>2
  <1>4. OneConstant("OneByteStringTag", Since(3, 29), -1)
    <2> DEFINE c == [sym |-> "OneByteStringTag", flags |-> AddedSince, since |-> <<3, 29>>,
                     fallback |-> 0]
    <2>1. c \in v8_constants
      BY DEF v8_constants
    <2>2. c.sym = "OneByteStringTag" /\ c.flags = AddedSince /\ c.since = <<3, 29>> /\ c.fallback = 0
      OBVIOUS
    <2> HIDE DEF c
    <2> QED
      BY <1>1, <2>1, <2>2
  <1>5. OneConstant("fp_context_or_frame_type", FALSE, IF Since(5, 1) THEN -8 ELSE -1)
    <2> DEFINE c == [sym |-> "fp_context_or_frame_type", flags |-> Fallback, since |-> <<5, 1>>,
                     fallback |-> -8]
    <2>1. c \in v8_constants
      BY DEF v8_constants
    <2>2. c.sym = "fp_context_or_frame_type" /\ c.flags = Fallback /\ c.since = <<5, 1>> /\ c.fallback = -8
      OBVIOUS
    <2> HIDE DEF c
    <2> QED
      BY <1>1, <2>1, <2>2
  <1>6. OneConstant("fp_marker", ~Since(5, 1), -1)
    <2> DEFINE c == [sym |-> "fp_marker", flags |-> RemovedSince, since |-> <<5, 1>>,
                     fallback |-> 0]
    <2>1. c \in v8_constants
      BY DEF v8_constants
    <2>2. c.sym = "fp_marker" /\ c.flags = RemovedSince /\ c.since = <<5, 1>> /\ c.fallback = 0
      OBVIOUS
    <2> HIDE DEF c
    <2> QED
      BY <1>1, <2>1, <2>2
  <1>7. OneConstant("context_ncommon", FALSE, 4)
    <2> DEFINE c == [sym |-> "context_ncommon", flags |-> Fallback, since |-> <<0, 0>>,
                     fallback |-> 4]
    <2>1. c \in v8_constants
      BY DEF v8_constants
    <2>2. c.sym = "context_ncommon" /\ c.flags = Fallback /\ c.since = <<0, 0>> /\ c.fallback = 4
      OBVIOUS
    <2> HIDE DEF c
    <2> QED
      BY <1>1, <2>1, <2>2
  <1>8. OneConstant("scopeinfo_idx_first_vars", FALSE, IF Since(4, 5) THEN 6 ELSE -1)
    <2> DEFINE c == [sym |-> "scopeinfo_idx_first_vars", flags |-> Fallback, since |-> <<4, 5>>,
                     fallback |-> 6]
    <2>1. c \in v8_constants
      BY DEF v8_constants
    <2>2. c.sym = "scopeinfo_idx_first_vars" /\ c.flags = Fallback /\ c.since = <<4, 5>> /\ c.fallback = 6
      OBVIOUS
    <2> HIDE DEF c
    <2> QED
      BY <1>1, <2>1, <2>2
  <1> QED
    BY <1>2, <1>3, <1>4, <1>5, <1>6, <1>7, <1>8

LEMMA OffsetEntries ==
    /\ OneOffset("FIXEDARRAY_LENGTH", TRUE, -1)
    /\ OneOffset("JSOBJECT_PROPERTIES", ~Since(4, 9), -1)
    /\ OneOffset("JSRECEIVER_PROPERTIES", Since(4, 9), -1)
    /\ OneOffset("JSTYPEDARRAY_LENGTH", FALSE, IF Since(4, 5) THEN 55 ELSE -1)
    /\ OneOffset("SEQASCIISTR_CHARS", FALSE, -1)
    /\ OneOffset("SEQONEBYTESTR_CHARS", FALSE, -1)
    /\ OneOffset("SEQTWOBYTESTR_CHARS", FALSE, -1)
    /\ OneOffset("SHAREDFUNCTIONINFO_INFERRED_NAME", FALSE, -1)
    /\ OneOffset("SHAREDFUNCTIONINFO_IDENTIFIER", FALSE, -1)
  <1> USE DEF OneOffset, Since, Needed, Otherwise, Fallback, RemovedSince, AddedSince
  <1>1. OneOffset("FIXEDARRAY_LENGTH", TRUE, -1)
    <2> DEFINE o == [var |-> "FIXEDARRAY_LENGTH", class |-> "FixedArray",
                     member |-> "length",
                     optional |-> FALSE, flags |-> {},
                     since |-> <<0, 0>>, fallback |-> 0]
    <2>1. o \in v8_offsets
      BY DEF v8_offsets
    <2>2. /\ o.var = "FIXEDARRAY_LENGTH" /\ o.optional = FALSE
          /\ o.flags = {}
          /\ o.since = <<0, 0>> /\ o.fallback = 0
      OBVIOUS
    <2>3. \A p \in v8_offsets : p.var = o.var <=> p = o
      BY DEF v8_offsets
    <2> HIDE DEF o
    <2> QED
      BY <2>1, <2>2, <2>3
  <1>2. OneOffset("JSOBJECT_PROPERTIES", ~Since(4, 9), -1)
    <2> DEFINE o == [var |-> "JSOBJECT_PROPERTIES", class |-> "JSObject",
                     member |-> "properties",
                     optional |-> FALSE, flags |-> RemovedSince,
                     since |-> <<4, 9>>, fallback |-> 0]
    <2>1. o \in v8_offsets
      BY DEF v8_offsets
    <2>2. /\ o.var = "JSOBJECT_PROPERTIES" /\ o.optional = FALSE
          /\ o.flags = RemovedSince
          /\ o.since = <<4, 9>> /\ o.fallback = 0
      OBVIOUS
    <2>3. \A p \in v8_offsets : p.var = o.var <=> p = o
      BY DEF v8_offsets
    <2> HIDE DEF o
    <2> QED
      BY <2>1, <2>2, <2>3
  <1>3. OneOffset("JSRECEIVER_PROPERTIES", Since(4, 9), -1)
    <2> DEFINE o == [var |-> "JSRECEIVER_PROPERTIES", class |-> "JSReceiver",
                     member |-> "properties",
                     optional |-> FALSE, flags |-> AddedSince,
                     since |-> <<4, 9>>, fallback |-> 0]
    <2>1. o \in v8_offsets
      BY DEF v8_offsets
    <2>2. /\ o.var = "JSRECEIVER_PROPERTIES" /\ o.optional = FALSE
          /\ o.flags = AddedSince
          /\ o.since = <<4, 9>> /\ o.fallback = 0
      OBVIOUS
    <2>3. \A p \in v8_offsets : p.var = o.var <=> p = o
      BY DEF v8_offsets
    <2> HIDE DEF o
    <2> QED
      BY <2>1, <2>2, <2>3
  <1>4. OneOffset("JSTYPEDARRAY_LENGTH", FALSE, IF Since(4, 5) THEN 55 ELSE -1)
    <2> DEFINE o == [var |-> "JSTYPEDARRAY_LENGTH", class |-> "JSTypedArray",
                     member |-> "length",
                     optional |-> FALSE, flags |-> Fallback,
                     since |-> <<4, 5>>, fallback |-> 55]
    <2>1. o \in v8_offsets
      BY DEF v8_offsets
    <2>2. /\ o.var = "JSTYPEDARRAY_LENGTH" /\ o.optional = FALSE
          /\ o.flags = Fallback
          /\ o.since = <<4, 5>> /\ o.fallback = 55
      OBVIOUS
    <2>3. \A p \in v8_offsets : p.var = o.var <=> p = o
      BY DEF v8_offsets
    <2> HIDE DEF o
    <2> QED
      BY <2>1, <2>2, <2>3
  <1>5. OneOffset("SEQASCIISTR_CHARS", FALSE, -1)
    <2> DEFINE o == [var |-> "SEQASCIISTR_CHARS", class |-> "SeqAsciiString",
                     member |-> "chars",
                     optional |-> TRUE, flags |-> {},
                     since |-> <<0, 0>>, fallback |-> 0]
    <2>1. o \in v8_offsets
      BY DEF v8_offsets
    <2>2. /\ o.var = "SEQASCIISTR_CHARS" /\ o.optional = TRUE
          /\ o.flags = {}
          /\ o.since = <<0, 0>> /\ o.fallback = 0
      OBVIOUS
    <2>3. \A p \in v8_offsets : p.var = o.var <=> p = o
      BY DEF v8_offsets
    <2> HIDE DEF o
    <2> QED
      BY <2>1, <2>2, <2>3
  <1>6. OneOffset("SEQONEBYTESTR_CHARS", FALSE, -1)
    <2> DEFINE o == [var |-> "SEQONEBYTESTR_CHARS", class |-> "SeqOneByteString",
                     member |-> "chars",
                     optional |-> TRUE, flags |-> {},
                     since |-> <<0, 0>>, fallback |-> 0]
    <2>1. o \in v8_offsets
      BY DEF v8_offsets
    <2>2. /\ o.var = "SEQONEBYTESTR_CHARS" /\ o.optional = TRUE
          /\ o.flags = {}
          /\ o.since = <<0, 0>> /\ o.fallback = 0
      OBVIOUS
    <2>3. \A p \in v8_offsets : p.var = o.var <=> p = o
      BY DEF v8_offsets
    <2> HIDE DEF o
    <2> QED
      BY <2>1, <2>2, <2>3
  <1>7. OneOffset("SEQTWOBYTESTR_CHARS", FALSE, -1)
    <2> DEFINE o == [var |-> "SEQTWOBYTESTR_CHARS", class |-> "SeqTwoByteString",
                     member |-> "chars",
                     optional |-> TRUE, flags |-> {},
                     since |-> <<0, 0>>, fallback |-> 0]
    <2>1. o \in v8_offsets
      BY DEF v8_offsets
    <2>2. /\ o.var = "SEQTWOBYTESTR_CHARS" /\ o.optional = TRUE
          /\ o.flags = {}
          /\ o.since = <<0, 0>> /\ o.fallback = 0
      OBVIOUS
    <2>3. \A p \in v8_offsets : p.var = o.var <=> p = o
      BY DEF v8_offsets
    <2> HIDE DEF o
    <2> QED
      BY <2>1, <2>2, <2>3
  <1>8. OneOffset("SHAREDFUNCTIONINFO_INFERRED_NAME", FALSE, -1)
    <2> DEFINE o == [var |-> "SHAREDFUNCTIONINFO_INFERRED_NAME", class |-> "SharedFunctionInfo",
                     member |-> "inferred_name",
                     optional |-> TRUE, flags |-> {},
                     since |-> <<0, 0>>, fallback |-> 0]
    <2>1. o \in v8_offsets
      BY DEF v8_offsets
    <2>2. /\ o.var = "SHAREDFUNCTIONINFO_INFERRED_NAME" /\ o.optional = TRUE
          /\ o.flags = {}
          /\ o.since = <<0, 0>> /\ o.fallback = 0
      OBVIOUS
    <2>3. \A p \in v8_offsets : p.var = o.var <=> p = o
      BY DEF v8_offsets
    <2> HIDE DEF o
    <2> QED
      BY <2>1, <2>2, <2>3
  <1>9. OneOffset("SHAREDFUNCTIONINFO_IDENTIFIER", FALSE, -1)
    <2> DEFINE o == [var |-> "SHAREDFUNCTIONINFO_IDENTIFIER", class |-> "SharedFunctionInfo",
                     member |-> "function_identifier",
                     optional |-> TRUE, flags |-> {"OPTIONAL", "HASFALLBACK", "REMOVED", "ADDED"},
                     since |-> <<4, 0>>, fallback |-> 0]
    <2>1. o \in v8_offsets
      BY DEF v8_offsets
    <2>2. /\ o.var = "SHAREDFUNCTIONINFO_IDENTIFIER" /\ o.optional = TRUE
          /\ o.flags = {"OPTIONAL", "HASFALLBACK", "REMOVED", "ADDED"}
          /\ o.since = <<4, 0>> /\ o.fallback = 0
      OBVIOUS
    <2>3. \A p \in v8_offsets : p.var = o.var <=> p = o
      BY DEF v8_offsets
    <2> HIDE DEF o
    <2> QED
      BY <2>1, <2>2, <2>3
  <1> QED
    BY <1>1, <1>2, <1>3, <1>4, <1>5, <1>6, <1>7, <1>8, <1>9

LEMMA OneEntryEach ==
    /\ \A c, d \in v8_constants : c.sym = d.sym => c = d
    /\ \A o, p \in v8_offsets : o.var = p.var => o = p
    /\ \A c \in v8_constants, o \in v8_offsets : c.sym # o.var
    /\ \A v \in Variables \ {"BoundFunction"} :
          (\E c \in v8_constants : c.sym = v) \/ (\E o \in v8_offsets : o.var = v)
    /\ \A c \in v8_constants : c.sym \in Variables \ {"BoundFunction"}
    /\ \A o \in v8_offsets : o.var \in Variables \ {"BoundFunction"}
  <1>1. \A c, d \in v8_constants : c.sym = d.sym => c = d
    BY DEF v8_constants
  <1>2. ASSUME NEW o \in v8_offsets, NEW p \in v8_offsets, o.var = p.var PROVE o = p
    <2>1. o.var \in {"FIXEDARRAY_LENGTH", "JSOBJECT_PROPERTIES", "JSRECEIVER_PROPERTIES",
                     "JSTYPEDARRAY_LENGTH", "SEQASCIISTR_CHARS", "SEQONEBYTESTR_CHARS",
                     "SEQTWOBYTESTR_CHARS", "SHAREDFUNCTIONINFO_IDENTIFIER",
                     "SHAREDFUNCTIONINFO_INFERRED_NAME"}
      BY DEF v8_offsets
    <2>2. \E q \in v8_offsets : \A r \in v8_offsets : r.var = o.var <=> r = q
      BY <2>1, OffsetEntries DEF OneOffset
    <2> QED
      BY <1>2, <2>2
  <1>3. \A c \in v8_constants : c.sym # "BoundFunction"
    BY DEF v8_constants
  <1>4. \A o \in v8_offsets : o.var # "BoundFunction"
    BY DEF v8_offsets
  <1>5. ASSUME NEW c \in v8_constants, NEW o \in v8_offsets PROVE c.sym # o.var
    BY DEF v8_constants, v8_offsets
  <1>6. \A v \in Variables \ {"BoundFunction"} :
           (\E c \in v8_constants : c.sym = v) \/ (\E o \in v8_offsets : o.var = v)
    BY DEF Variables
  <1>7. \A c \in v8_constants : c.sym \in Variables \ {"BoundFunction"}
    BY <1>3 DEF Variables
  <1>8. \A o \in v8_offsets : o.var \in Variables \ {"BoundFunction"}
    BY <1>4 DEF Variables
  <1>9. \A o, p \in v8_offsets : o.var = p.var => o = p
    BY <1>2
  <1>10. \A c \in v8_constants, o \in v8_offsets : c.sym # o.var
    BY <1>5
  <1> QED
    BY <1>1, <1>6, <1>7, <1>8, <1>9, <1>10, Zenon

LEMMA DerivedValues ==
    ASSUME NEW v, v = [n \in Variables |-> v[n]]
    PROVE  LET d == Derived(v)
           IN /\ \A n \in Variables \ {"BoundFunction", "scopeinfo_idx_first_vars"} :
                    OtherNames(n) = {} => d[n] = v[n]
              /\ d["SEQASCIISTR_CHARS"] = IF v["SEQONEBYTESTR_CHARS"] = -1 THEN v["SEQASCIISTR_CHARS"]
                                          ELSE v["SEQONEBYTESTR_CHARS"]
              /\ d["SEQTWOBYTESTR_CHARS"] = IF v["SEQTWOBYTESTR_CHARS"] = -1 THEN d["SEQASCIISTR_CHARS"]
                                            ELSE v["SEQTWOBYTESTR_CHARS"]
              /\ d["JSOBJECT_PROPERTIES"] = IF v["JSOBJECT_PROPERTIES"] = -1 THEN v["JSRECEIVER_PROPERTIES"]
                                            ELSE v["JSOBJECT_PROPERTIES"]
              /\ d["fp_context_or_frame_type"] = IF v["fp_context_or_frame_type"] = -1 THEN v["fp_marker"]
                                                 ELSE v["fp_context_or_frame_type"]
              /\ d["SHAREDFUNCTIONINFO_IDENTIFIER"] =
                    IF v["SHAREDFUNCTIONINFO_IDENTIFIER"] = -1 THEN v["SHAREDFUNCTIONINFO_INFERRED_NAME"]
                    ELSE v["SHAREDFUNCTIONINFO_IDENTIFIER"]
              /\ d["scopeinfo_idx_first_vars"] =
                    IF v["scopeinfo_idx_first_vars"] # -1 THEN v["scopeinfo_idx_first_vars"]
                    ELSE IF Since(4, 3) THEN 5 ELSE IF Since(3, 7) THEN 4 ELSE -1
  <1> DEFINE chars == IF v["SEQONEBYTESTR_CHARS"] = -1 THEN v
                      ELSE [v EXCEPT !["SEQASCIISTR_CHARS"] = v["SEQONEBYTESTR_CHARS"]]
             twobyte == Derive(chars, "SEQTWOBYTESTR_CHARS", "SEQASCIISTR_CHARS")
             props == Derive(twobyte, "JSOBJECT_PROPERTIES", "JSRECEIVER_PROPERTIES")
             frame == Derive(props, "fp_context_or_frame_type", "fp_marker")
             name == Derive(frame, "SHAREDFUNCTIONINFO_IDENTIFIER", "SHAREDFUNCTIONINFO_INFERRED_NAME")
             idx == name["scopeinfo_idx_first_vars"]
             first == CASE idx # -1 -> idx
                        [] idx = -1 /\ ~Older(v8_version, <<4, 3>>) -> 5
                        [] idx = -1 /\ Older(v8_version, <<4, 3>>) /\ ~Older(v8_version, <<3, 7>>) -> 4
                        [] OTHER -> -1
             d == Derived(v)
  <1>1. /\ chars = [n \in Variables |-> chars[n]]
        /\ chars["SEQASCIISTR_CHARS"] = IF v["SEQONEBYTESTR_CHARS"] = -1 THEN v["SEQASCIISTR_CHARS"]
                                        ELSE v["SEQONEBYTESTR_CHARS"]
        /\ \A n \in Variables : n # "SEQASCIISTR_CHARS" => chars[n] = v[n]
    BY VariableNames
  <1> HIDE DEF chars
  <1>2. /\ twobyte = [n \in Variables |-> twobyte[n]]
        /\ twobyte["SEQTWOBYTESTR_CHARS"] = IF chars["SEQTWOBYTESTR_CHARS"] = -1 THEN chars["SEQASCIISTR_CHARS"]
                                            ELSE chars["SEQTWOBYTESTR_CHARS"]
        /\ \A n \in Variables : n # "SEQTWOBYTESTR_CHARS" => twobyte[n] = chars[n]
    BY <1>1, VariableNames DEF Derive
  <1> HIDE DEF twobyte
  <1>3. /\ props = [n \in Variables |-> props[n]]
        /\ props["JSOBJECT_PROPERTIES"] = IF twobyte["JSOBJECT_PROPERTIES"] = -1 THEN twobyte["JSRECEIVER_PROPERTIES"]
                                          ELSE twobyte["JSOBJECT_PROPERTIES"]
        /\ \A n \in Variables : n # "JSOBJECT_PROPERTIES" => props[n] = twobyte[n]
    BY <1>2, VariableNames DEF Derive
  <1> HIDE DEF props
  <1>4. /\ frame = [n \in Variables |-> frame[n]]
        /\ frame["fp_context_or_frame_type"] = IF props["fp_context_or_frame_type"] = -1 THEN props["fp_marker"]
                                               ELSE props["fp_context_or_frame_type"]
        /\ \A n \in Variables : n # "fp_context_or_frame_type" => frame[n] = props[n]
    BY <1>3, VariableNames DEF Derive
  <1> HIDE DEF frame
  <1>5. /\ name = [n \in Variables |-> name[n]]
        /\ name["SHAREDFUNCTIONINFO_IDENTIFIER"] =
              IF frame["SHAREDFUNCTIONINFO_IDENTIFIER"] = -1 THEN frame["SHAREDFUNCTIONINFO_INFERRED_NAME"]
              ELSE frame["SHAREDFUNCTIONINFO_IDENTIFIER"]
        /\ \A n \in Variables : n # "SHAREDFUNCTIONINFO_IDENTIFIER" => name[n] = frame[n]
    BY <1>4, VariableNames DEF Derive
  <1> HIDE DEF name
  <1>6. /\ d["scopeinfo_idx_first_vars"] = first
        /\ \A n \in Variables : n \notin {"scopeinfo_idx_first_vars", "BoundFunction"} => d[n] = name[n]
    <2> DEFINE new(bound) == [name EXCEPT !["scopeinfo_idx_first_vars"] = first, !["BoundFunction"] = bound]
    <2>1. \E bound : d = new(bound)
      <3> DEFINE b == IF v8_type["JSBoundFunction"] # -1 THEN name["BoundFunction"]
                      ELSE IF Older(v8_version, <<3, 28, 71, 19>>) THEN 13
                      ELSE IF Older(v8_version, <<4, 5, 103, 30>>) THEN 8
                      ELSE 10
      <3>1. d = new(b)
        BY Zenon DEF Derived, chars, twobyte, props, frame, name
      <3> QED
        BY <3>1
    <2>2. PICK bound : d = new(bound)
      BY <2>1
    <2> HIDE DEF d, first
    <2> QED
      BY <1>5, <2>2, VariableNames
  <1>7. first = IF idx # -1 THEN idx ELSE IF Since(4, 3) THEN 5 ELSE IF Since(3, 7) THEN 4 ELSE -1
    BY DEF Since
  <1> HIDE DEF d, first
  <1>8. /\ d["SEQASCIISTR_CHARS"] = chars["SEQASCIISTR_CHARS"]
        /\ d["SEQTWOBYTESTR_CHARS"] = twobyte["SEQTWOBYTESTR_CHARS"]
        /\ chars["SEQTWOBYTESTR_CHARS"] = v["SEQTWOBYTESTR_CHARS"]
        /\ d["JSOBJECT_PROPERTIES"] = props["JSOBJECT_PROPERTIES"]
        /\ twobyte["JSOBJECT_PROPERTIES"] = v["JSOBJECT_PROPERTIES"]
        /\ twobyte["JSRECEIVER_PROPERTIES"] = v["JSRECEIVER_PROPERTIES"]
        /\ d["fp_context_or_frame_type"] = frame["fp_context_or_frame_type"]
        /\ props["fp_context_or_frame_type"] = v["fp_context_or_frame_type"]
        /\ props["fp_marker"] = v["fp_marker"]
    BY <1>1, <1>2, <1>3, <1>4, <1>5, <1>6, VariableNames
  <1>9. /\ d["SHAREDFUNCTIONINFO_IDENTIFIER"] = name["SHAREDFUNCTIONINFO_IDENTIFIER"]
        /\ frame["SHAREDFUNCTIONINFO_IDENTIFIER"] = v["SHAREDFUNCTIONINFO_IDENTIFIER"]
        /\ frame["SHAREDFUNCTIONINFO_INFERRED_NAME"] = v["SHAREDFUNCTIONINFO_INFERRED_NAME"]
        /\ idx = v["scopeinfo_idx_first_vars"]
    BY <1>1, <1>2, <1>3, <1>4, <1>5, <1>6, VariableNames
  <1>10. ASSUME NEW n \in Variables \ {"BoundFunction", "scopeinfo_idx_first_vars"}, OtherNames(n) = {}
         PROVE  d[n] = v[n]
    <2>1. n \notin {"SEQASCIISTR_CHARS", "SEQTWOBYTESTR_CHARS", "JSOBJECT_PROPERTIES",
                    "fp_context_or_frame_type", "SHAREDFUNCTIONINFO_IDENTIFIER"}
      BY <1>10 DEF OtherNames
    <2> QED
      BY <1>1, <1>2, <1>3, <1>4, <1>5, <1>6, <2>1
  <1> HIDE DEF idx
  <1> QED
    BY <1>1, <1>2, <1>3, <1>4, <1>5, <1>6, <1>7, <1>8, <1>9, <1>10 DEF d

(* What the configuration in use says of a variable                        *)

LEMMA SaidOfEntries ==
    /\ \A c \in v8_constants :
          Said(c.sym) = IF c.sym \in DOMAIN Readable THEN {Readable[c.sym]} ELSE {}
    /\ \A o \in v8_offsets : Said(o.var) = OffsetSaid(o)
  <1>1. ASSUME NEW c \in v8_constants
        PROVE  Said(c.sym) = IF c.sym \in DOMAIN Readable THEN {Readable[c.sym]} ELSE {}
    <2>1. {p \in v8_offsets : p.var = c.sym} = {}
      BY OneEntryEach
    <2>2. c.sym \in {k.sym : k \in v8_constants}
      OBVIOUS
    <2> QED
      BY <2>1, <2>2 DEF Said
  <1>2. ASSUME NEW o \in v8_offsets PROVE Said(o.var) = OffsetSaid(o)
    <2>1. {p \in v8_offsets : p.var = o.var} = {o}
      BY OneEntryEach
    <2>2. o.var \notin {k.sym : k \in v8_constants}
      BY OneEntryEach
    <2> QED
      BY <2>1, <2>2 DEF Said
  <1> QED
    BY <1>1, <1>2

LEMMA SaidStays ==
    ASSUME UNCHANGED <<target, cfg>>
    PROVE  /\ Readable' = Readable /\ Symbols' = Symbols
           /\ \A v : Said(v)' = Said(v)
  <1>1. Readable' = Readable /\ Symbols' = Symbols
    BY DEF Readable, Symbols, target
  <1>2. \A c, f : FieldSaid(c, f)' = FieldSaid(c, f)
    BY <1>1 DEF FieldSaid
  <1>3. \A o : OffsetSaid(o)' = OffsetSaid(o)
    BY <1>2 DEF OffsetSaid
  <1>4. \A v : Said(v)' = Said(v)
    BY <1>1, <1>3 DEF Said
  <1> QED
    BY <1>1, <1>4

LEMMA ValuesStay ==
    ASSUME UNCHANGED <<target, cfg, v8_version, val>>
    PROVE  ValuesRight' = ValuesRight
  <1>1. \A v : Said(v)' = Said(v)
    BY SaidStays
  <1>2. \A major, minor : Since(major, minor)' = Since(major, minor)
    BY DEF Since, Older
  <1>3. MayLack' = MayLack
    BY <1>2 DEF MayLack
  <1>4. \A v : Granted(v)' = Granted(v)
    BY <1>2 DEF Granted
  <1>5. \A v : OtherNames(v)' = OtherNames(v)
    BY DEF OtherNames
  <1>6. \A v : ValuesOf(v)' = ValuesOf(v)
    BY <1>1, <1>4, <1>5 DEF ValuesOf
  <1>7. Variables' = Variables
    BY DEF Variables
  <1>8. val' = val
    OBVIOUS
  <1> QED
    BY <1>3, <1>6, <1>7, <1>8 DEF ValuesRight

\* constants are read from the target, or this version need not have them
ConstantsOK ==
    /\ "HeapObjectTag" \in DOMAIN Readable
    /\ val["HeapObjectTag"] = Readable["HeapObjectTag"]
    /\ \A c \in v8_constants :
          IF Said(c.sym) # {} THEN val[c.sym] \in Said(c.sym) /\ val[c.sym] # -1
          ELSE ~Needed(c) /\ val[c.sym] = Otherwise(c)

LEMMA ConstantsStay ==
    ASSUME ConstantsOK, UNCHANGED <<target, cfg, v8_version, val>>
    PROVE  ConstantsOK'
  <1>1. Readable' = Readable /\ \A v : Said(v)' = Said(v)
    BY SaidStays
  <1>2. v8_version' = v8_version /\ val' = val
    OBVIOUS
  <1>3. \A e : Needed(e)' = Needed(e) /\ Otherwise(e)' = Otherwise(e)
    BY <1>2 DEF Needed, Otherwise, Older
  <1>4. v8_constants' = v8_constants
    BY DEF v8_constants, Fallback, RemovedSince, AddedSince
  <1> QED
    BY <1>1, <1>2, <1>3, <1>4 DEF ConstantsOK

LEMMA ConstantsFound ==
    ASSUME StateOK, VersionOK, LoadConstants, ~failed'
    PROVE  ConstantsOK'
  <1> DEFINE V(v) == LET c == CHOOSE k \in v8_constants : k.sym = v
                     IN IF v \in DOMAIN Readable THEN Readable[v]
                        ELSE IF Needed(c) THEN val[v]
                        ELSE Otherwise(c)
  <1>1. ASSUME NEW c \in v8_constants
        PROVE  val'[c.sym] = IF c.sym \in DOMAIN Readable THEN Readable[c.sym]
                             ELSE IF Needed(c) THEN val[c.sym]
                             ELSE Otherwise(c)
    <2>1. (CHOOSE k \in v8_constants : k.sym = c.sym) = c
      BY OneEntryEach
    <2>2. val'[c.sym] = V(c.sym)
      BY OneEntryEach DEF LoadConstants
    <2> QED
      BY <2>1, <2>2
  <1>2. \A c \in v8_constants : c.sym \in DOMAIN Readable \/ ~Needed(c)
    BY DEF LoadConstants
  <1>3. UNCHANGED <<target, cfg, v8_version>> /\ cfg # NoCfg
    BY DEF LoadConstants, settled, StateOK
  <1>4. /\ Readable' = Readable /\ \A v : Said(v)' = Said(v)
    BY <1>3, SaidStays
  <1>5. \A e : Needed(e)' = Needed(e) /\ Otherwise(e)' = Otherwise(e)
    BY <1>3 DEF Needed, Otherwise, Older
  <1>6. v8_constants' = v8_constants
    BY DEF v8_constants, Fallback, RemovedSince, AddedSince
  <1>7. \A v \in DOMAIN Readable : Readable[v] # -1
    BY <1>3, SymbolsInUse DEF SymbolsOK, Definite
  <1>8. PICK tag \in v8_constants : tag.sym = "HeapObjectTag" /\ Needed(tag)
    BY ConstantEntries DEF OneConstant
  <1>9. "HeapObjectTag" \in DOMAIN Readable /\ val'["HeapObjectTag"] = Readable["HeapObjectTag"]
    BY <1>1, <1>2, <1>8
  <1>10. ASSUME NEW c \in v8_constants
         PROVE  IF Said(c.sym) # {} THEN val'[c.sym] \in Said(c.sym) /\ val'[c.sym] # -1
                ELSE ~Needed(c) /\ val'[c.sym] = Otherwise(c)
    BY <1>1, <1>2, <1>7, SaidOfEntries
  <1> QED
    BY <1>4, <1>5, <1>6, <1>9, <1>10 DEF ConstantsOK

\* conf_field_lookup finds the fields that the symbols have, where they have them
LEMMA FieldGiven ==
    ASSUME StateOK, ClassesOK, ClassesAsRead, Loaded, edits = <<>>, ConstantsOK, NEW c, NEW f
    PROVE  /\ HasField(c, f) <=> FieldSaid(c, f) # {}
           /\ HasField(c, f) => heap_offset(c, f) \in FieldSaid(c, f)
  <1> DEFINE i == SmallestOf(Fields(c, f))
  <1>1. /\ WellFormed(Symbols)
        /\ AsRead(OfKind(Symbols, "class"), OfKind(Symbols, "parent"))
    BY AllLoaded
  <1>2. ASSUME FieldSaid(c, f) # {} PROVE HasField(c, f)
    <2>1. PICK s \in OfKind(Symbols, "class") : s.class = c /\ s.name = f
      BY <1>2 DEF FieldSaid
    <2>2. c \in NameSet
      BY <1>1, <2>1 DEF WellFormed
    <2>3. c \in Elements(classes)
      BY <1>1, <2>1 DEF AsRead, NamesIn
    <2>4. [name |-> s.name, off |-> s.value] \in FieldsIn(OfKind(Symbols, "class"), c)
      BY <2>1 DEF FieldsIn
    <2>5. [name |-> s.name, off |-> s.value] \in Elements(class[c].fields)
      BY <1>1, <2>2, <2>4 DEF AsRead
    <2>6. PICK j \in DOMAIN class[c].fields : class[c].fields[j] = [name |-> s.name, off |-> s.value]
      BY <2>5 DEF Elements
    <2>7. j \in Fields(c, f)
      BY <2>1, <2>3, <2>6 DEF Fields
    <2> QED
      BY <2>2, <2>7 DEF HasField
  <1>3. ASSUME HasField(c, f) PROVE heap_offset(c, f) \in FieldSaid(c, f)
    <2>1. c \in NameSet /\ Fields(c, f) # {}
      BY <1>3 DEF HasField
    <2>2. IsSeq(class[c].fields) /\ Elements(class[c].fields) = FieldsIn(OfKind(Symbols, "class"), c)
      BY <1>1, <2>1 DEF AsRead, ClassesOK
    <2>3. Fields(c, f) \subseteq Nat
      BY <2>2, SeqElements DEF Fields, IsSeq
    <2>4. i \in Fields(c, f)
      BY <2>1, <2>3, SmallestExists
    <2>5. heap_offset(c, f) = class[c].fields[i].off - val["HeapObjectTag"]
      BY DEF heap_offset
    <2> HIDE DEF i
    <2>6. i \in DOMAIN class[c].fields /\ class[c].fields[i].name = f
      BY <2>4 DEF Fields
    <2>7. class[c].fields[i] \in FieldsIn(OfKind(Symbols, "class"), c)
      BY <2>2, <2>6 DEF Elements
    <2>8. PICK s \in OfKind(Symbols, "class") :
             s.class = c /\ class[c].fields[i] = [name |-> s.name, off |-> s.value]
      BY <2>7 DEF FieldsIn
    <2>9. s.name = f /\ class[c].fields[i].off = s.value
      BY <2>6, <2>8
    <2> QED
      BY <2>5, <2>8, <2>9 DEF FieldSaid, ConstantsOK
  <1> QED
    BY <1>2, <1>3

LEMMA OffsetFound ==
    ASSUME StateOK, ClassesOK, ClassesAsRead, Loaded, edits = <<>>, ConstantsOK,
           NEW o \in v8_offsets
    PROVE  /\ Found(o) <=> OffsetSaid(o) # {}
           /\ Found(o) => OffsetValue(o) \in OffsetSaid(o) /\ OffsetValue(o) # -1
           /\ ~Found(o) => OffsetValue(o) = IF o.optional THEN -1 ELSE Otherwise(o)
  <1>1. \A c, f : /\ HasField(c, f) <=> FieldSaid(c, f) # {}
                  /\ HasField(c, f) => heap_offset(c, f) \in FieldSaid(c, f)
    BY FieldGiven
  <1>2. OffsetSaid(o) = FieldSaid(Holder(o), o.member)
    BY <1>1 DEF OffsetSaid, Holder
  <1>3. Found(o) <=> OffsetSaid(o) # {}
    BY <1>1, <1>2 DEF Found
  <1>4. Found(o) => OffsetValue(o) \in OffsetSaid(o)
    BY <1>1, <1>2 DEF Found, OffsetValue
  <1>5. Definite(Symbols, Readable)
    BY AllLoaded
  <1>6. \A x \in OffsetSaid(o) : x # -1
    BY <1>2, <1>5 DEF FieldSaid, Definite, ConstantsOK
  <1>7. ~Found(o) => OffsetValue(o) = IF o.optional THEN -1 ELSE Otherwise(o)
    BY DEF OffsetValue
  <1> QED
    BY <1>3, <1>4, <1>6, <1>7

\* what a variable has got before its other names are looked at
Unsaid(v) ==
    CASE v = "fp_context_or_frame_type" -> IF Since(5, 1) THEN -8 ELSE -1
      [] v = "context_ncommon" -> 4
      [] v = "scopeinfo_idx_first_vars" -> IF Since(4, 5) THEN 6 ELSE -1
      [] v = "JSTYPEDARRAY_LENGTH" -> IF Since(4, 5) THEN 55 ELSE -1
      [] OTHER -> -1

\* those that may have been left without a value of their own
MaySay(v) ==
    CASE v = "HeapObjectTag" -> FALSE
      [] v = "FIXEDARRAY_LENGTH" -> FALSE
      [] v = "AsciiStringTag" -> Since(3, 29)
      [] v = "OneByteStringTag" -> ~Since(3, 29)
      [] v = "fp_marker" -> Since(5, 1)
      [] v = "JSOBJECT_PROPERTIES" -> Since(4, 9)
      [] v = "JSRECEIVER_PROPERTIES" -> ~Since(4, 9)
      [] OTHER -> TRUE

LEMMA ValuesLoaded ==
    ASSUME VersionOK, NEW f,
           \A c \in v8_constants :
              IF Said(c.sym) # {} THEN f[c.sym] \in Said(c.sym) /\ f[c.sym] # -1
              ELSE ~Needed(c) /\ f[c.sym] = Otherwise(c),
           \A o \in v8_offsets :
              IF Said(o.var) # {} THEN f[o.var] \in Said(o.var) /\ f[o.var] # -1
              ELSE /\ o.optional \/ ~Needed(o)
                   /\ f[o.var] = IF o.optional THEN -1 ELSE Otherwise(o),
           NEW v \in Variables \ {"BoundFunction"}
    PROVE  IF Said(v) # {} THEN f[v] \in Said(v) /\ f[v] # -1
           ELSE MaySay(v) /\ f[v] = Unsaid(v)
  <1>1. Said(v) # {} => f[v] \in Said(v) /\ f[v] # -1
    BY OneEntryEach
  <1>2. ASSUME Said(v) = {} PROVE MaySay(v) /\ f[v] = Unsaid(v)
    <2>1. ASSUME NEW must, NEW none, OneConstant(v, must, none)
          PROVE  ~must /\ f[v] = none
      BY <1>2, <2>1 DEF OneConstant
    <2>2. ASSUME NEW must, NEW none, OneOffset(v, must, none)
          PROVE  ~must /\ f[v] = none
      BY <1>2, <2>2 DEF OneOffset
    <2>3. CASE \E c \in v8_constants : c.sym = v
      <3>1. v \in {"HeapObjectTag", "AsciiStringTag", "OneByteStringTag", "fp_context_or_frame_type",
                   "fp_marker", "context_ncommon", "scopeinfo_idx_first_vars"}
        BY <2>3 DEF v8_constants
      <3> QED
        BY <2>1, <3>1, ConstantEntries DEF MaySay, Unsaid
    <2>4. CASE \E o \in v8_offsets : o.var = v
      <3>1. v \in {"FIXEDARRAY_LENGTH", "JSOBJECT_PROPERTIES", "JSRECEIVER_PROPERTIES",
                   "JSTYPEDARRAY_LENGTH", "SEQASCIISTR_CHARS", "SEQONEBYTESTR_CHARS",
                   "SEQTWOBYTESTR_CHARS", "SHAREDFUNCTIONINFO_IDENTIFIER",
                   "SHAREDFUNCTIONINFO_INFERRED_NAME"}
        BY <2>4 DEF v8_offsets
      <3>2. CASE v = "FIXEDARRAY_LENGTH"
        BY <2>2, <3>2, OffsetEntries
      <3>3. CASE v = "JSOBJECT_PROPERTIES"
        <4>1. ~(~Since(4, 9)) /\ f[v] = -1
          BY <2>2, <3>3, OffsetEntries
        <4> QED
          BY <3>3, <4>1 DEF MaySay, Unsaid
      <3>4. CASE v = "JSRECEIVER_PROPERTIES"
        <4>1. ~Since(4, 9) /\ f[v] = -1
          BY <2>2, <3>4, OffsetEntries
        <4> QED
          BY <3>4, <4>1 DEF MaySay, Unsaid
      <3>5. CASE v = "JSTYPEDARRAY_LENGTH"
        <4>1. f[v] = IF Since(4, 5) THEN 55 ELSE -1
          BY <2>2, <3>5, OffsetEntries
        <4> QED
          BY <3>5, <4>1 DEF MaySay, Unsaid
      <3>6. CASE v \in {"SEQASCIISTR_CHARS", "SEQONEBYTESTR_CHARS", "SEQTWOBYTESTR_CHARS",
                       "SHAREDFUNCTIONINFO_IDENTIFIER", "SHAREDFUNCTIONINFO_INFERRED_NAME"}
        <4>1. f[v] = -1
          BY <2>2, <3>6, OffsetEntries
        <4> QED
          BY <3>6, <4>1 DEF MaySay, Unsaid
      <3> QED
        BY <3>1, <3>2, <3>3, <3>4, <3>5, <3>6
    <2> QED
      BY <2>3, <2>4, OneEntryEach
  <1> QED
    BY <1>1, <1>2

\* all values are there, or autoconfigure fails
LEMMA OffsetsComplete ==
    ASSUME StateOK, VersionOK, ClassesOK, ClassesAsRead, ConstantsOK, LoadOffsets, ~failed',
           \A n \in RequiredTypes : v8_type[n] # -1
    PROVE  NothingMissing'
  <1> DEFINE V(v) == IF \A o \in v8_offsets : o.var # v THEN val[v]
                     ELSE OffsetValue(CHOOSE o \in v8_offsets : o.var = v)
             loaded == [v \in Variables |-> V(v)]
  <1>1. /\ status = "offsets" /\ val' = Derived(loaded) /\ UNCHANGED <<v8_version, v8_type>>
        /\ \A o \in v8_offsets : Found(o) \/ o.optional \/ ~Needed(o)
        /\ OneKindOfString(loaded)
        /\ UNCHANGED <<target, cfg>>
    BY DEF LoadOffsets, settled
  <1>2. Loaded /\ edits = <<>>
    BY <1>1 DEF Loaded, StateOK
  <1>3. ASSUME NEW o \in v8_offsets PROVE loaded[o.var] = OffsetValue(o)
    <2>1. (CHOOSE p \in v8_offsets : p.var = o.var) = o
      BY OneEntryEach
    <2>2. V(o.var) = OffsetValue(o)
      BY <2>1
    <2> QED
      BY <2>2, OneEntryEach
  <1>4. ASSUME NEW c \in v8_constants PROVE loaded[c.sym] = val[c.sym]
    BY OneEntryEach
  <1>5. loaded = [v \in Variables |-> loaded[v]]
    OBVIOUS
  <1> HIDE DEF loaded
  <1>6. \A c \in v8_constants :
           IF Said(c.sym) # {} THEN loaded[c.sym] \in Said(c.sym) /\ loaded[c.sym] # -1
           ELSE ~Needed(c) /\ loaded[c.sym] = Otherwise(c)
    BY <1>4 DEF ConstantsOK
  <1>7. ASSUME NEW o \in v8_offsets
        PROVE  IF Said(o.var) # {} THEN loaded[o.var] \in Said(o.var) /\ loaded[o.var] # -1
               ELSE /\ o.optional \/ ~Needed(o)
                    /\ loaded[o.var] = IF o.optional THEN -1 ELSE Otherwise(o)
    BY <1>1, <1>2, <1>3, OffsetFound, SaidOfEntries
  <1>8. ASSUME NEW v \in Variables \ {"BoundFunction"}
        PROVE  IF Said(v) # {} THEN loaded[v] \in Said(v) /\ loaded[v] # -1
               ELSE MaySay(v) /\ loaded[v] = Unsaid(v)
    BY <1>6, <1>7, ValuesLoaded
  <1> DEFINE d == Derived(loaded)
  <1>9. /\ \A n \in Variables \ {"BoundFunction", "scopeinfo_idx_first_vars"} :
              OtherNames(n) = {} => d[n] = loaded[n]
        /\ d["SEQASCIISTR_CHARS"] = IF loaded["SEQONEBYTESTR_CHARS"] = -1 THEN loaded["SEQASCIISTR_CHARS"]
                                    ELSE loaded["SEQONEBYTESTR_CHARS"]
        /\ d["SEQTWOBYTESTR_CHARS"] = IF loaded["SEQTWOBYTESTR_CHARS"] = -1 THEN d["SEQASCIISTR_CHARS"]
                                      ELSE loaded["SEQTWOBYTESTR_CHARS"]
        /\ d["JSOBJECT_PROPERTIES"] = IF loaded["JSOBJECT_PROPERTIES"] = -1 THEN loaded["JSRECEIVER_PROPERTIES"]
                                      ELSE loaded["JSOBJECT_PROPERTIES"]
        /\ d["fp_context_or_frame_type"] = IF loaded["fp_context_or_frame_type"] = -1 THEN loaded["fp_marker"]
                                           ELSE loaded["fp_context_or_frame_type"]
        /\ d["SHAREDFUNCTIONINFO_IDENTIFIER"] =
              IF loaded["SHAREDFUNCTIONINFO_IDENTIFIER"] = -1 THEN loaded["SHAREDFUNCTIONINFO_INFERRED_NAME"]
              ELSE loaded["SHAREDFUNCTIONINFO_IDENTIFIER"]
        /\ d["scopeinfo_idx_first_vars"] =
              IF loaded["scopeinfo_idx_first_vars"] # -1 THEN loaded["scopeinfo_idx_first_vars"]
              ELSE IF Since(4, 3) THEN 5 ELSE IF Since(3, 7) THEN 4 ELSE -1
    BY <1>5, DerivedValues
  <1> HIDE DEF d
  <1> DEFINE Right(v) == IF ValuesOf(v) = {} THEN v \in MayLack /\ d[v] = -1 ELSE d[v] \in ValuesOf(v)
             X(v) == IF Said(v) # {} THEN loaded[v] \in Said(v) /\ loaded[v] # -1
                     ELSE MaySay(v) /\ loaded[v] = Unsaid(v)
  <1>10. \A v \in Variables \ {"BoundFunction"} : X(v)
    BY <1>8
  <1>11. \A v : MaySay(v) <=>
            /\ v \notin {"HeapObjectTag", "FIXEDARRAY_LENGTH"}
            /\ v = "AsciiStringTag" => Since(3, 29)
            /\ v = "OneByteStringTag" => ~Since(3, 29)
            /\ v = "fp_marker" => Since(5, 1)
            /\ v = "JSOBJECT_PROPERTIES" => Since(4, 9)
            /\ v = "JSRECEIVER_PROPERTIES" => ~Since(4, 9)
    BY DEF MaySay
  <1>12. Right("SEQASCIISTR_CHARS") /\ Right("SEQTWOBYTESTR_CHARS")
    <2>1. X("SEQASCIISTR_CHARS") /\ X("SEQTWOBYTESTR_CHARS") /\ X("SEQONEBYTESTR_CHARS")
      BY <1>10, VariableNames
    <2>2. /\ ValuesOf("SEQASCIISTR_CHARS") = IF Said("SEQASCIISTR_CHARS") # {} THEN Said("SEQASCIISTR_CHARS")
                                             ELSE Said("SEQONEBYTESTR_CHARS")
          /\ Unsaid("SEQASCIISTR_CHARS") = -1
      BY DEF ValuesOf, Granted, OtherNames, Unsaid
    <2>3. /\ ValuesOf("SEQTWOBYTESTR_CHARS") =
                IF Said("SEQTWOBYTESTR_CHARS") # {} THEN Said("SEQTWOBYTESTR_CHARS")
                ELSE Said("SEQONEBYTESTR_CHARS") \cup Said("SEQASCIISTR_CHARS")
          /\ Unsaid("SEQTWOBYTESTR_CHARS") = -1
      BY DEF ValuesOf, Granted, OtherNames, Unsaid
    <2>4. Unsaid("SEQONEBYTESTR_CHARS") = -1
      BY DEF Unsaid
    <2>5. (loaded["SEQASCIISTR_CHARS"] # -1) # (loaded["SEQONEBYTESTR_CHARS"] # -1)
      BY <1>1 DEF OneKindOfString
    <2>6. CASE loaded["SEQASCIISTR_CHARS"] # -1 /\ loaded["SEQONEBYTESTR_CHARS"] = -1
      BY <1>9, <2>1, <2>2, <2>3, <2>4, <2>6
    <2>7. CASE loaded["SEQASCIISTR_CHARS"] = -1 /\ loaded["SEQONEBYTESTR_CHARS"] # -1
      BY <1>9, <2>1, <2>2, <2>3, <2>4, <2>7
    <2> QED
      BY <2>5, <2>6, <2>7
  <1>13. Right("JSOBJECT_PROPERTIES")
    <2>1. X("JSOBJECT_PROPERTIES") /\ X("JSRECEIVER_PROPERTIES")
      BY <1>10, VariableNames
    <2>2. /\ ValuesOf("JSOBJECT_PROPERTIES") = IF Said("JSOBJECT_PROPERTIES") # {} THEN Said("JSOBJECT_PROPERTIES")
                                               ELSE Said("JSRECEIVER_PROPERTIES")
          /\ Unsaid("JSOBJECT_PROPERTIES") = -1
      BY DEF ValuesOf, Granted, OtherNames, Unsaid
    <2> QED
      BY <1>9, <1>11, <2>1, <2>2
  <1>14. Right("fp_context_or_frame_type")
    <2>1. X("fp_context_or_frame_type") /\ X("fp_marker")
      BY <1>10, VariableNames
    <2>2. /\ ValuesOf("fp_context_or_frame_type") =
                IF Said("fp_context_or_frame_type") # {} THEN Said("fp_context_or_frame_type")
                ELSE IF Since(5, 1) THEN {-8} ELSE Said("fp_marker")
          /\ Unsaid("fp_context_or_frame_type") = IF Since(5, 1) THEN -8 ELSE -1
      BY DEF ValuesOf, Granted, OtherNames, Unsaid
    <2> QED
      BY <1>9, <1>11, <2>1, <2>2
  <1>15. Right("SHAREDFUNCTIONINFO_IDENTIFIER")
    <2> DEFINE a == "SHAREDFUNCTIONINFO_IDENTIFIER"
               b == "SHAREDFUNCTIONINFO_INFERRED_NAME"
    <2>1. X(a) /\ X(b)
      BY <1>10, VariableNames
    <2>2. /\ ValuesOf(a) = IF Said(a) # {} THEN Said(a) ELSE Said(b)
          /\ Unsaid(a) = -1 /\ Unsaid(b) = -1 /\ a \in MayLack
      BY DEF ValuesOf, Granted, OtherNames, Unsaid, MayLack
    <2> QED
      BY <1>9, <2>1, <2>2
  <1>16. Right("scopeinfo_idx_first_vars")
    <2> DEFINE a == "scopeinfo_idx_first_vars"
    <2>1. X(a)
      BY <1>10, ConstantEntries, OneEntryEach DEF OneConstant
    <2>2. /\ ValuesOf(a) = IF Said(a) # {} THEN Said(a)
                           ELSE IF Since(4, 5) THEN {6} ELSE IF Since(4, 3) THEN {5}
                           ELSE IF Since(3, 7) THEN {4} ELSE {}
          /\ Unsaid(a) = IF Since(4, 5) THEN 6 ELSE -1
          /\ ~Since(3, 7) => a \in MayLack
      BY DEF ValuesOf, Granted, OtherNames, Unsaid, MayLack
    <2> QED
      BY <1>9, <2>1, <2>2
  <1>17. ASSUME NEW v \in Variables \ {"BoundFunction", "scopeinfo_idx_first_vars"}, OtherNames(v) = {}
         PROVE  Right(v)
    <2>1. d[v] = loaded[v] /\ X(v)
      BY <1>9, <1>10, <1>17
    <2>2. Said(v) # {} => ValuesOf(v) = Said(v)
      BY DEF ValuesOf
    <2>3. Said(v) = {} => ValuesOf(v) = Granted(v)
      BY <1>17 DEF ValuesOf
    <2>4. v \notin {"SEQASCIISTR_CHARS", "SEQTWOBYTESTR_CHARS", "JSOBJECT_PROPERTIES",
                    "fp_context_or_frame_type", "SHAREDFUNCTIONINFO_IDENTIFIER",
                    "scopeinfo_idx_first_vars"}
      BY <1>17 DEF OtherNames
    <2>5. \/ Granted(v) = {Unsaid(v)}
          \/ Granted(v) = {} /\ Unsaid(v) = -1 /\ (v = "JSTYPEDARRAY_LENGTH" => ~Since(4, 5))
             /\ v # "context_ncommon"
      BY <2>4 DEF Granted, Unsaid
    <2>6. v \in {"HeapObjectTag", "AsciiStringTag", "OneByteStringTag", "fp_marker",
                 "context_ncommon", "FIXEDARRAY_LENGTH", "JSRECEIVER_PROPERTIES",
                 "JSTYPEDARRAY_LENGTH", "SEQONEBYTESTR_CHARS", "SHAREDFUNCTIONINFO_INFERRED_NAME"}
      <3>1. CASE \E c \in v8_constants : c.sym = v
        BY <2>4, <3>1 DEF v8_constants
      <3>2. CASE \E o \in v8_offsets : o.var = v
        BY <2>4, <3>2 DEF v8_offsets
      <3> QED
        BY <3>1, <3>2, OneEntryEach
    <2>7. Said(v) = {} => v \in MayLack \/ Granted(v) # {}
      BY <1>11, <2>1, <2>5, <2>6 DEF MayLack
    <2> QED
      BY <2>1, <2>2, <2>3, <2>5, <2>7
  <1>18. ASSUME NEW v \in Variables \ {"BoundFunction"} PROVE Right(v)
    <2>1. \/ OtherNames(v) = {}
          \/ v \in {"SEQASCIISTR_CHARS", "SEQTWOBYTESTR_CHARS", "JSOBJECT_PROPERTIES",
                    "fp_context_or_frame_type", "SHAREDFUNCTIONINFO_IDENTIFIER"}
      BY DEF OtherNames
    <2> QED
      BY <1>12, <1>13, <1>14, <1>15, <1>16, <1>17, <2>1
  <1>19. val' = d /\ v8_version' = v8_version /\ v8_type' = v8_type
    BY <1>1 DEF d
  <1>20. ValuesRight'
    <2>1. \A v : Said(v)' = Said(v)
      BY <1>1, SaidStays
    <2>2. \A major, minor : Since(major, minor)' = Since(major, minor)
      BY <1>19 DEF Since, Older
    <2>3. \A v : ValuesOf(v)' = ValuesOf(v)
      BY <2>1, <2>2 DEF ValuesOf, Granted, OtherNames
    <2>4. MayLack' = MayLack /\ Variables' = Variables
      BY <2>2 DEF MayLack, Variables
    <2> QED
      BY <1>18, <1>19, <2>3, <2>4 DEF ValuesRight
  <1> QED
    BY <1>19, <1>20 DEF NothingMissing
-----------------------------------------------------------------------------
(* What autoconfigure calls a success is complete                          *)

\* what has been found so far, unless something needed was missing
FoundOK ==
    /\ VersionOK
    /\ status \in {"types", "offsets"} /\ ~failed => ConstantsOK
    /\ status = "offsets" /\ ~failed => \A n \in RequiredTypes : v8_type[n] # -1
    /\ NothingMissing

TypeEntries(S) == {[name |-> s.class, value |-> s.value] : s \in OfKind(S, "type")}
TypeValues(n) == {s.value : s \in {t \in OfKind(Symbols, "type") : t.class = n}}

\* v8_types holds the types that have been seen of the first configuration
EnumsOK ==
    /\ enums = [type |-> enums.type, frametype |-> enums.frametype]
    /\ IsSeq(enums.type)
    /\ cfg = NoCfg => enums.type = <<>> /\ \A n \in KnownTypes : v8_type[n] = -1
    /\ ~again /\ status \in {"symbols", "ends", "constants", "types"} =>
          /\ Elements(enums.type) = TypeEntries(Seen)
          /\ \A n \in KnownTypes : v8_type[n] = -1
    /\ ~again /\ status \in {"offsets", "ready"} =>
          \A n \in KnownTypes \ {"MutableHeapNumber"} :
             v8_type[n] \in IF TypeValues(n) = {} THEN {-1} ELSE TypeValues(n)

LEMMA EntryAppended ==
    ASSUME NEW t, IsSeq(t), NEW e
    PROVE  IsSeq(Append(t, e)) /\ Elements(Append(t, e)) = Elements(t) \cup {e}
  <1> DEFINE S == Elements(t) \cup {e}
  <1>1. t \in Seq(S)
    BY SeqMonotonic DEF IsSeq
  <1>2. e \in S
    OBVIOUS
  <1> HIDE DEF S
  <1>3. /\ Append(t, e) \in Seq(S) /\ Len(Append(t, e)) = Len(t) + 1 /\ Len(t) \in Nat
        /\ \A i \in 1..Len(t) : Append(t, e)[i] = t[i]
        /\ Append(t, e)[Len(t) + 1] = e
    BY <1>1, <1>2, AppendProperties, LenProperties
  <1>4. DOMAIN t = 1..Len(t) /\ DOMAIN Append(t, e) = 1..(Len(t) + 1)
    BY <1>1, <1>3, LenProperties
  <1>5. IsSeq(Append(t, e))
    BY <1>3, SeqElements
  <1> DEFINE a == Append(t, e)
             n == Len(t)
  <1>6. DOMAIN a = 1..(n + 1) /\ DOMAIN t = 1..n /\ n \in Nat /\ a[n + 1] = e
        /\ \A i \in 1..n : a[i] = t[i]
    BY <1>3, <1>4
  <1> HIDE DEF a, n
  <1>7. Elements(a) = Elements(t) \cup {e}
    <2>1. \A i \in 1..(n + 1) : i \in 1..n \/ i = n + 1
      BY <1>6
    <2>2. 1..n \subseteq 1..(n + 1) /\ n + 1 \in 1..(n + 1)
      BY <1>6
    <2> QED
      BY <1>6, <2>1, <2>2 DEF Elements
  <1> QED
    BY <1>5, <1>7 DEF a

\* a table without an empty entry is listed to its end
LEMMA ListedToTheEnd ==
    ASSUME IsSeq(enums.type), \A e \in Elements(enums.type) : e.name # NULL
    PROVE  Listed("type") = enums.type
  <1> DEFINE t == enums.type
  <1>1. t \in Seq(Elements(t)) /\ Len(t) \in Nat
    BY LenProperties DEF IsSeq
  <1>2. {i \in DOMAIN t : t[i].name = NULL} \cup {Len(t) + 1} = {Len(t) + 1}
    BY DEF Elements
  <1>3. SmallestOf({Len(t) + 1}) = Len(t) + 1
    BY <1>1 DEF SmallestOf
  <1>4. Listed("type") = SubSeq(t, 1, (Len(t) + 1) - 1)
    BY <1>2, <1>3, Zenon DEF Listed
  <1>5. (Len(t) + 1) - 1 = Len(t)
    BY <1>1
  <1> QED
    BY <1>1, <1>4, <1>5, SubSeqFull

\* a type is given the value of one of the symbols of that name
LEMMA TypeFound ==
    ASSUME IsSeq(enums.type), WellFormed(Symbols), Elements(enums.type) = TypeEntries(Symbols),
           NEW n
    PROVE  TypeValue(n, -1) \in IF TypeValues(n) = {} THEN {-1} ELSE TypeValues(n)
  <1> DEFINE t == enums.type
             S == {i \in DOMAIN t : t[i].name = n}
             last == CHOOSE i \in S : \A j \in S : j <= i
  <1>1. \A e \in Elements(t) : e.name # NULL
    BY DEF TypeEntries, OfKind, WellFormed
  <1>2. Listed("type") = t
    BY <1>1, ListedToTheEnd
  <1>3. TypeValue(n, -1) = IF S = {} THEN -1 ELSE t[last].value
    <2> DEFINE At(u) == {i \in DOMAIN u : u[i].name = n}
               Of(u) == IF At(u) = {} THEN -1 ELSE u[CHOOSE i \in At(u) : \A j \in At(u) : j <= i].value
    <2>1. TypeValue(n, -1) = Of(Listed("type"))
      BY DEF TypeValue
    <2>2. Of(t) = IF S = {} THEN -1 ELSE t[last].value
      OBVIOUS
    <2> HIDE DEF Of
    <2> QED
      BY <1>2, <2>1, <2>2
  <1>4. ASSUME NEW v \in TypeValues(n) PROVE S # {}
    <2>1. PICK s \in OfKind(Symbols, "type") : s.class = n
      BY <1>4 DEF TypeValues
    <2>2. [name |-> s.class, value |-> s.value] \in Elements(t)
      BY <2>1 DEF TypeEntries
    <2> QED
      BY <2>1, <2>2 DEF Elements
  <1>5. ASSUME S # {} PROVE t[last].value \in TypeValues(n)
    <2>1. Len(t) \in Nat /\ DOMAIN t = 1..Len(t)
      BY SeqElements DEF IsSeq
    <2>2. S \subseteq 0..Len(t)
      BY <2>1
    <2>3. \E i \in S : \A j \in S : j <= i
      BY <1>5, <2>1, <2>2, Greatest
    <2>4. last \in S
      BY <2>3, Zenon
    <2> HIDE DEF last
    <2>5. t[last] \in TypeEntries(Symbols) /\ t[last].name = n
      BY <2>4 DEF Elements
    <2> QED
      BY <2>5 DEF TypeEntries, TypeValues
  <1> QED
    BY <1>3, <1>4, <1>5

LEMMA TypesLoaded ==
    ASSUME StateOK, FoundOK, EnumsOK, LoadTypes
    PROVE  FoundOK' /\ EnumsOK'
  <1> DEFINE types == [n \in KnownTypes |-> TypeValue(n, v8_type[n])]
             mutable == MutableHeapNumber(types)
  <1>1. /\ status = "types" /\ status' = "offsets"
        /\ v8_type' = [types EXCEPT !["MutableHeapNumber"] = mutable]
        /\ failed' = (failed \/ \E n \in RequiredTypes : types[n] = -1)
        /\ UNCHANGED <<target, cfg, again, unread, val, enums>>
        /\ UNCHANGED v8_version
    BY DEF LoadTypes, settled
  <1>2. DOMAIN types = KnownTypes /\ \A n \in KnownTypes : types[n] = TypeValue(n, v8_type[n])
    OBVIOUS
  <1>3. types["MutableHeapNumber"] # -1 => mutable = types["MutableHeapNumber"]
    BY DEF MutableHeapNumber
  <1> HIDE DEF types, mutable
  <1>4. Symbols' = Symbols /\ Readable' = Readable
    BY <1>1 DEF target, Symbols, Readable
  <1>5. \A n \in KnownTypes : n # "MutableHeapNumber" => v8_type'[n] = types[n]
    BY <1>1, <1>2
  <1>6. "MutableHeapNumber" \in KnownTypes => v8_type'["MutableHeapNumber"] = mutable
    BY <1>1, <1>2
  <1>7. FoundOK'
    <2>1. ~failed' => ConstantsOK'
      BY <1>1, ConstantsStay DEF FoundOK
    <2>2. ASSUME ~failed', NEW n \in RequiredTypes PROVE v8_type'[n] # -1
      <3>1. n \in KnownTypes /\ types[n] # -1
        BY <1>1, <2>2, ConfigAssumption
      <3> QED
        BY <1>3, <1>5, <1>6, <3>1
    <2>3. VersionOK'
      BY <1>1 DEF FoundOK, VersionOK, target
    <2> QED
      BY <1>1, <2>1, <2>2, <2>3 DEF FoundOK, NothingMissing
  <1>8. cfg # NoCfg /\ unread = {}
    BY <1>1 DEF StateOK, Loaded
  <1>9. ASSUME ~again, NEW n \in KnownTypes \ {"MutableHeapNumber"}
        PROVE  v8_type'[n] \in IF TypeValues(n) = {} THEN {-1} ELSE TypeValues(n)
    <2>1. Seen = Symbols /\ WellFormed(Symbols)
      BY <1>8, SymbolsInUse DEF Seen, SymbolsOK
    <2>2. Elements(enums.type) = TypeEntries(Symbols) /\ v8_type[n] = -1 /\ IsSeq(enums.type)
      BY <1>1, <1>9, <2>1 DEF EnumsOK
    <2>3. TypeValue(n, -1) \in IF TypeValues(n) = {} THEN {-1} ELSE TypeValues(n)
      BY <2>1, <2>2, TypeFound
    <2> QED
      BY <1>2, <1>5, <2>2, <2>3
  <1>10. \A n : TypeValues(n)' = TypeValues(n)
    BY <1>4 DEF TypeValues
  <1>11. EnumsOK'
    BY <1>1, <1>8, <1>9, <1>10 DEF EnumsOK
  <1> QED
    BY <1>7, <1>11

\* a step after which v8_types and the symbols that have been seen are the same
LEMMA EnumsStay ==
    ASSUME EnumsOK, UNCHANGED <<target, cfg, again, unread, enums, v8_type>>,
           \/ status' = status
           \/ status' \in {"unconfigured", "failed"}
           \/ {status, status'} \subseteq {"symbols", "ends", "constants", "types"}
           \/ {status, status'} \subseteq {"offsets", "ready"}
    PROVE  EnumsOK'
  <1>1. Symbols' = Symbols /\ Seen' = Seen
    BY SeenStays
  <1>2. \A n : TypeValues(n)' = TypeValues(n)
    BY <1>1 DEF TypeValues
  <1>3. TypeEntries(Seen)' = TypeEntries(Seen)
    BY <1>1 DEF TypeEntries
  <1>4. UNCHANGED <<cfg, again, enums, v8_type>>
    OBVIOUS
  <1> QED
    BY <1>2, <1>3, <1>4 DEF EnumsOK

\* a type that is read has an entry; an entry without a value ends it all
LEMMA TypeRead ==
    ASSUME StateOK, EnumsOK, NEW s \in unread, Reading(s)
    PROVE  EnumsOK'
  <1>1. /\ Take(s) /\ UNCHANGED settled /\ UNCHANGED v8_type /\ status' \in {status, "failed"}
        /\ status = "symbols" /\ cfg # NoCfg
        /\ OfKind(Seen', "type") = IF s.kind = "type" /\ s.ok THEN OfKind(Seen, "type") \cup {s}
                                   ELSE OfKind(Seen, "type")
    BY ReadingTakes, TakeSees
  <1>2. UNCHANGED <<cfg, again>>
    BY <1>1 DEF settled
  <1> DEFINE e == [name |-> s.class, value |-> s.value]
             none == [name |-> NULL, value |-> 0]
  <1>3. \/ UNCHANGED enums /\ (status' = "failed" \/ ~(s.kind = "type" /\ s.ok))
        \/ /\ IsEnum(s)
           /\ enums' = [enums EXCEPT ![s.kind] = Append(@, e)]
        \/ /\ IsEnum(s)
           /\ enums' = [enums EXCEPT ![s.kind] = Append(@, none)]
           /\ status' = "failed"
    BY DEF Reading, conf_update_parent, conf_update_field, conf_update_type, conf_update_enum,
           BadSymbol, OtherSymbol, IterationFails, tables
  <1> HIDE DEF e, none
  <1>4. enums = [type |-> enums.type, frametype |-> enums.frametype] /\ IsSeq(enums.type)
    BY DEF EnumsOK
  <1>5. \/ /\ enums'.type = enums.type
           /\ status' = "failed" \/ ~(s.kind = "type" /\ s.ok)
        \/ enums'.type = Append(enums.type, e) /\ s.kind = "type" /\ s.ok
        \/ enums'.type = Append(enums.type, none) /\ status' = "failed"
    BY <1>3, <1>4 DEF IsEnum
  <1>6. enums' = [type |-> enums'.type, frametype |-> enums'.frametype]
    BY <1>3, <1>4 DEF IsEnum
  <1>7. IsSeq(enums'.type)
    BY <1>4, <1>5, EntryAppended
  <1>8. ASSUME status' # "failed", ~again
        PROVE  Elements(enums'.type) = TypeEntries(Seen') /\ \A n \in KnownTypes : v8_type'[n] = -1
    <2>1. Elements(enums.type) = TypeEntries(Seen) /\ \A n \in KnownTypes : v8_type[n] = -1
      BY <1>1, <1>8 DEF EnumsOK
    <2>2. CASE s.kind = "type" /\ s.ok
      <3>1. enums'.type = Append(enums.type, e)
        BY <1>5, <1>8, <2>2
      <3>2. Elements(enums'.type) = Elements(enums.type) \cup {e}
        BY <1>4, <3>1, EntryAppended
      <3>3. TypeEntries(Seen') = TypeEntries(Seen) \cup {e}
        BY <1>1, <2>2 DEF TypeEntries, e
      <3> QED
        BY <1>1, <2>1, <3>2, <3>3
    <2>3. CASE ~(s.kind = "type" /\ s.ok)
      <3>1. enums'.type = enums.type /\ TypeEntries(Seen') = TypeEntries(Seen)
        BY <1>1, <1>5, <1>8, <2>3 DEF TypeEntries
      <3> QED
        BY <1>1, <2>1, <3>1
    <2> QED
      BY <2>2, <2>3
  <1> QED
    BY <1>1, <1>2, <1>6, <1>7, <1>8 DEF EnumsOK

SuccessInv == ClassesInv /\ FoundOK /\ EnumsOK

LEMMA VersionSteps ==
    ASSUME VersionOK, [Next]_cfgvars
    PROVE  VersionOK'
  <1>1. CASE Configure
    <2>1. /\ binary' = binary
          /\ \/ v8_version' = v8_version
             \/ v8_version' = binary.version /\ binary.version # NULL
      BY <1>1 DEF Configure, NotConfigured, ConfigureTarget, ConfigureCanned, Autoconfigure, target
    <2> QED
      BY <2>1 DEF VersionOK
  <1>2. ~Configure => UNCHANGED target /\ UNCHANGED v8_version
    <2>1. ASSUME NEW s \in unread, Reading(s) PROVE UNCHANGED target /\ UNCHANGED v8_version
      BY <2>1, ReadingTakes DEF settled
    <2>2. Computing => UNCHANGED target /\ UNCHANGED v8_version
      BY DEF Computing, EndSymbols, StartClass, ComputeParent, ComputeClass, EndClasses,
             LoadConstants, LoadTypes, LoadOffsets, settled
    <2>3. Command => UNCHANGED target /\ UNCHANGED v8_version
      BY DEF Command, V8Load, V8Field, Autoconfigure
    <2>4. UNCHANGED cfgvars => UNCHANGED target /\ UNCHANGED v8_version
      BY DEF cfgvars, settled
    <2> QED
      BY <2>1, <2>2, <2>3, <2>4 DEF Next
  <1> QED
    BY <1>1, <1>2 DEF VersionOK, target

LEMMA InitVersion == Init => VersionOK
  <1> SUFFICES ASSUME Init PROVE VersionOK
    OBVIOUS
  <1>1. PICK b \in Binaries : \E a \in b.absent : binary = [b EXCEPT !.symbols = @ \ a]
    BY DEF Init
  <1>2. "version" \in DOMAIN b /\ (b.version = NULL \/ b.version \in Nat \X Nat \X Nat \X Nat)
    BY ConfigAssumption
  <1>3. binary.version = b.version
    BY <1>1, <1>2
  <1> QED
    BY <1>2, <1>3 DEF Init, VersionOK, IsVersion

LEMMA InitSuccessInv == Init => SuccessInv
  <1> SUFFICES ASSUME Init PROVE FoundOK /\ EnumsOK
    BY InitClassesInv DEF SuccessInv
  <1>1. status = "loading" /\ enums = [type |-> <<>>, frametype |-> <<>>]
        /\ v8_type = [t \in KnownTypes |-> -1]
    BY DEF Init
  <1> QED
    BY <1>1, InitVersion, EmptySeqs DEF FoundOK, NothingMissing, EnumsOK

LEMMA SuccessInvStep ==
    ASSUME SuccessInv, [Next]_cfgvars
    PROVE  SuccessInv'
  <1>1. /\ ClassesInv /\ StateOK /\ ClassesOK /\ ClassesAsRead /\ FoundOK /\ EnumsOK
        /\ VersionOK /\ VersionOK'
    BY VersionSteps DEF SuccessInv, ClassesInv, FoundOK
  <1>2. ASSUME UNCHANGED <<target, cfg, v8_version, val, v8_type>>, UNCHANGED <<status, failed>>
        PROVE  FoundOK'
    <2>1. NothingMissing'
      BY <1>1, <1>2, ValuesStay DEF FoundOK, NothingMissing
    <2>2. ConstantsOK => ConstantsOK'
      BY <1>2, ConstantsStay
    <2> QED
      BY <1>1, <1>2, <2>1, <2>2 DEF FoundOK
  <1>3. status' \notin {"types", "offsets", "ready"} => FoundOK'
    BY <1>1 DEF FoundOK, NothingMissing
  <1>4. CASE UNCHANGED cfgvars
    BY <1>1, <1>2, <1>4, EnumsStay, ClassesInvStep DEF cfgvars, settled, tables, SuccessInv
  <1>5. CASE NotConfigured
    <2>1. EnumsOK'
      BY <1>1, <1>5, EnumsStay DEF NotConfigured, tables
    <2> QED
      BY <1>1, <1>3, <1>5, <2>1, ClassesInvStep DEF NotConfigured, SuccessInv
  <1>6. CASE Begins
    <2>1. /\ status' = "symbols" /\ cfg' # NoCfg /\ Seen' = {} /\ UNCHANGED <<enums, v8_type>>
          /\ again' = (cfg # NoCfg)
      BY <1>1, <1>6, BeginsReading DEF tables
    <2>2. TypeEntries(Seen') = {}
      BY <2>1 DEF TypeEntries, OfKind
    <2>3. EnumsOK'
      BY <1>1, <2>1, <2>2, EmptySeqs DEF EnumsOK
    <2> QED
      BY <1>1, <1>3, <2>1, <2>3, ClassesInvStep DEF SuccessInv
  <1>7. CASE \E s \in unread : Reading(s)
    <2>1. PICK s \in unread : Reading(s)
      BY <1>7
    <2>2. status' \in {"symbols", "failed"}
      BY <2>1, ReadingTakes DEF Take
    <2>3. EnumsOK'
      BY <1>1, <2>1, TypeRead
    <2> QED
      BY <1>1, <1>3, <2>2, <2>3, ClassesInvStep DEF SuccessInv
  <1>8. CASE Computing
    <2>1. UNCHANGED <<target, cfg, again, v8_version>> /\ UNCHANGED unread
      BY <1>1, <1>8, ComputingSteps DEF settled
    <2>2. CASE EndSymbols \/ EndClasses \/ (\E i \in DOMAIN classes : StartClass(i))
               \/ ComputeParent \/ ComputeClass
      <3>1. /\ {status, status'} \subseteq {"symbols", "ends", "constants", "types"}
            /\ status' # "types" /\ UNCHANGED <<enums, v8_type>>
        BY <2>2 DEF EndSymbols, EndClasses, StartClass, ComputeParent, ComputeClass, tables
      <3>2. EnumsOK'
        BY <1>1, <2>1, <3>1, EnumsStay
      <3> QED
        BY <1>1, <1>3, <3>1, <3>2, ClassesInvStep DEF SuccessInv
    <2>3. CASE LoadConstants
      <3>1. status = "constants" /\ status' = "types" /\ UNCHANGED <<enums, v8_type>>
        BY <2>3 DEF LoadConstants
      <3>2. EnumsOK'
        BY <1>1, <2>1, <3>1, EnumsStay
      <3>3. FoundOK'
        BY <1>1, <2>3, <3>1, ConstantsFound DEF FoundOK, NothingMissing
      <3> QED
        BY <1>1, <3>2, <3>3, ClassesInvStep DEF SuccessInv
    <2>4. CASE LoadTypes
      BY <1>1, <2>4, TypesLoaded, ClassesInvStep DEF SuccessInv
    <2>5. CASE LoadOffsets
      <3>1. /\ status = "offsets" /\ status' \in {"failed", "ready"} /\ UNCHANGED <<enums, v8_type>>
            /\ status' = "ready" => ~failed'
            /\ failed => failed'
        BY <2>5 DEF LoadOffsets
      <3>2. EnumsOK'
        BY <1>1, <2>1, <3>1, EnumsStay
      <3>3. status' = "ready" => NothingMissing'
        BY <1>1, <2>5, <3>1, OffsetsComplete DEF FoundOK
      <3>4. FoundOK'
        BY <1>1, <3>1, <3>3 DEF FoundOK, NothingMissing
      <3> QED
        BY <1>1, <3>2, <3>4, ClassesInvStep DEF SuccessInv
    <2> QED
      BY <1>8, <2>2, <2>3, <2>4, <2>5 DEF Computing
  <1>9. CASE \E a \in FieldArgs : V8Field(a)
    <2>1. PICK a \in FieldArgs : V8Field(a)
      BY <1>9
    <2>2. UNCHANGED <<target, cfg, unread, status, enums, v8_type, val, again>>
          /\ UNCHANGED <<v8_version, failed>>
      BY <1>1, <2>1, FieldSteps DEF V8Field
    <2> QED
      BY <1>1, <1>2, <2>2, EnumsStay, ClassesInvStep DEF SuccessInv
  <1> QED
    BY <1>1, <1>4, <1>5, <1>6, <1>7, <1>8, <1>9, NextMoves DEF Moves

(* When autoconfigure reports success, every entry of the modelled tables  *)
(* has the value that the configuration in use says, under its own or its  *)
(* other name, or that this version's fallback is; those that V8 of this   *)
(* version must have are known, but for the two entries without the        *)
(* initializer of v8o_optional; so are the needed types.                   *)
THEOREM SuccessComplete == Spec => []SuccessIsComplete
  <1>1. SuccessInv => NothingMissing
    BY DEF SuccessInv, FoundOK
  <1>2. ASSUME SuccessInv PROVE TypesFound
    BY <1>2 DEF SuccessInv, EnumsOK, TypesFound, TypeValues
  <1>3. SuccessInv => SuccessIsComplete
    BY <1>1, <1>2 DEF SuccessIsComplete
  <1> QED
    BY <1>3, InitSuccessInv, SuccessInvStep, PTL DEF Spec
-----------------------------------------------------------------------------
(* ::v8print prints what a class has and all that it inherits              *)

Linked ==
    /\ WellFormed(Symbols) /\ Consistent(Symbols)
    /\ \A n \in NameSet : Superclasses(Symbols, n) = {class[n].parent} \ {NULL}

Depth(n) == Cardinality(Ancestry(Symbols, n))

\* a parent inherits less
LEMMA Depths ==
    ASSUME Linked, NEW n \in NameSet
    PROVE  /\ Depth(n) \in 1..Len(Names)
           /\ class[n].parent = NULL => Ancestry(Symbols, n) = {n}
           /\ class[n].parent # NULL =>
                 /\ class[n].parent \in NameSet
                 /\ Depth(class[n].parent) < Depth(n)
                 /\ n \notin Ancestry(Symbols, class[n].parent)
                 /\ Ancestry(Symbols, n) = {n} \cup Ancestry(Symbols, class[n].parent)
  <1> USE DEF Linked
  <1>1. \A c \in NameSet : c \in Ancestry(Symbols, c) /\ Ancestry(Symbols, c) \subseteq NameSet
    BY AncestryClosed
  <1>2. \A c \in NameSet : /\ IsFiniteSet(Ancestry(Symbols, c)) /\ Depth(c) \in Nat
                           /\ Depth(c) <= Cardinality(NameSet)
    BY <1>1, NamesCounted, FS_Subset, FS_CardinalityType DEF Depth
  <1>3. Depth(n) # 0
    BY <1>1, <1>2, FS_EmptySet DEF Depth
  <1>4. Cardinality(NameSet) \in Nat /\ Len(Names) \in Nat /\ Cardinality(NameSet) <= Len(Names)
    BY NamesCounted, FS_CardinalityType
  <1>5. Depth(n) \in 1..Len(Names)
    BY <1>2, <1>3, <1>4
  <1>6. CASE class[n].parent = NULL
    BY <1>5, <1>6, AncestryOfRoot
  <1>7. CASE class[n].parent # NULL
    <2> DEFINE p == class[n].parent
    <2>1. Superclasses(Symbols, n) = {p}
      BY <1>7
    <2> HIDE DEF p
    <2>2. /\ p \in NameSet /\ n \notin Ancestry(Symbols, p)
          /\ Ancestry(Symbols, n) = {n} \cup Ancestry(Symbols, p)
      BY <2>1, InheritedFrom
    <2>3. Ancestry(Symbols, p) \in SUBSET Ancestry(Symbols, n)
      BY <2>2
    <2>4. Depth(p) <= Depth(n) /\ Depth(p) # Depth(n)
      BY <1>2, <2>2, <2>3, FS_Subset DEF Depth
    <2>5. Depth(p) < Depth(n)
      BY <1>2, <2>2, <2>4
    <2> QED
      BY <1>5, <1>7, <2>2, <2>5 DEF p
  <1> QED
    BY <1>6, <1>7

\* obj_print_class calls itself for the parent
Own(c) == [i \in DOMAIN class[c].fields |-> <<c, class[c].fields[i].name>>]
PrintedWith(f, c) ==
    LET inherited == IF class[c].parent = NULL THEN <<>> ELSE f[class[c].parent]
    IN IF class[c].end = 0 THEN inherited ELSE inherited \o Own(c)

\* it comes to an end, so that the equation that defines it has a solution
LEMMA PrintingEnds ==
    ASSUME Linked
    PROVE  \A c \in NameSet : obj_print_class[c] = PrintedWith(obj_print_class, c)
  <1> DEFINE N == Len(Names)
             Solves(f, n) == /\ f = [c \in NameSet |-> f[c]]
                             /\ \A c \in NameSet : Depth(c) <= n => f[c] = PrintedWith(f, c)
             T == {n \in Nat : ~ \E f : Solves(f, n)}
  <1>1. N \in Nat
    BY NamesCounted
  <1>2. \E f : Solves(f, 0)
    <2>1. \A c \in NameSet : ~(Depth(c) <= 0)
      BY <1>1, Depths
    <2>2. Solves([c \in NameSet |-> 0], 0)
      BY <2>1
    <2> QED
      BY <2>2
  <1>3. ASSUME NEW n \in Nat, \E f : Solves(f, n) PROVE \E f : Solves(f, n + 1)
    <2>1. PICK f : Solves(f, n)
      BY <1>3
    <2> DEFINE g == [c \in NameSet |-> PrintedWith(f, c)]
    <2>2. \A c \in NameSet : g[c] = PrintedWith(f, c)
      OBVIOUS
    <2>3. g = [c \in NameSet |-> g[c]]
      OBVIOUS
    <2> HIDE DEF g
    <2>4. ASSUME NEW c \in NameSet, Depth(c) <= n + 1 PROVE g[c] = PrintedWith(g, c)
      <3>1. CASE class[c].parent = NULL
        <4>1. PrintedWith(f, c) = PrintedWith(g, c)
          BY <3>1, Zenon DEF PrintedWith
        <4> QED
          BY <2>2, <4>1
      <3>2. CASE class[c].parent # NULL
        <4> DEFINE p == class[c].parent
        <4>1. p \in NameSet /\ Depth(p) < Depth(c) /\ Depth(p) \in Nat /\ Depth(c) \in Nat
          BY <1>1, <3>2, Depths
        <4>2. Depth(p) <= n
          BY <2>4, <4>1
        <4>3. f[p] = PrintedWith(f, p) /\ g[p] = PrintedWith(f, p)
          BY <2>1, <2>2, <4>1, <4>2
        <4>4. PrintedWith(f, c) = PrintedWith(g, c)
          BY <3>2, <4>3, Zenon DEF PrintedWith
        <4> QED
          BY <2>2, <4>4
      <3> QED
        BY <3>1, <3>2
    <2>5. Solves(g, n + 1)
      BY <2>3, <2>4
    <2> QED
      BY <2>5
  <1> HIDE DEF Solves
  <1>4. T = {}
    <2> SUFFICES ASSUME T # {} PROVE FALSE
      OBVIOUS
    <2>1. T \subseteq Nat
      OBVIOUS
    <2>2. PICK n \in T : \A m \in T : n <= m
      BY <2>1, Least
    <2>3. n # 0
      BY <1>2, <2>2
    <2>4. n - 1 \in Nat /\ ~(n <= n - 1) /\ (n - 1) + 1 = n
      BY <2>3
    <2>5. \E f : Solves(f, n - 1)
      BY <2>2, <2>4
    <2>6. \E f : Solves(f, n)
      BY <1>3, <2>4, <2>5
    <2> QED
      BY <2>2, <2>6
  <1>5. PICK f : Solves(f, N)
    BY <1>1, <1>4
  <1>6. \A c \in NameSet : Depth(c) <= N
    BY <1>1, Depths
  <1>7. f = [c \in NameSet |-> f[c]] /\ \A c \in NameSet : f[c] = PrintedWith(f, c)
    BY <1>5, <1>6 DEF Solves
  <1>8. f = [c \in NameSet |-> PrintedWith(f, c)]
    BY <1>7
  <1> DEFINE u == CHOOSE h : h = [c \in NameSet |-> PrintedWith(h, c)]
  <1>9. u = [c \in NameSet |-> PrintedWith(u, c)]
    BY <1>8, Zenon
  <1>10. obj_print_class = u
    BY DEF obj_print_class, PrintedWith, Own
  <1> HIDE DEF u
  <1> QED
    BY <1>9, <1>10

\* the fields of the symbols of a class and all that it inherits from
FieldsOf(n) == {<<s.class, s.name>> :
                   s \in {t \in OfKind(Symbols, "class") : t.class \in Ancestry(Symbols, n)}}

PrintedRight(printed, n) ==
    /\ IsSeq(printed)
    /\ Elements(printed) = FieldsOf(n)
    /\ \A i, j \in DOMAIN printed :
          i < j => /\ printed[i] # printed[j]
                   /\ printed[i][1] \in Ancestry(Symbols, printed[j][1])

LEMMA OwnRight ==
    ASSUME NEW c \in NameSet, IsSeq(class[c].fields), FieldsInOrder(class[c].fields),
           Elements(class[c].fields) = FieldsIn(OfKind(Symbols, "class"), c)
    PROVE  /\ IsSeq(Own(c))
           /\ Elements(Own(c)) = {<<s.class, s.name>> : s \in {t \in OfKind(Symbols, "class") : t.class = c}}
           /\ \A i, j \in DOMAIN Own(c) : i < j => Own(c)[i] # Own(c)[j]
           /\ \A i \in DOMAIN Own(c) : Own(c)[i][1] = c
  <1> DEFINE fields == class[c].fields
             N == Len(fields)
             K == {t \in OfKind(Symbols, "class") : t.class = c}
  <1>1. N \in Nat /\ DOMAIN fields = 1..N
    BY SeqElements DEF IsSeq
  <1>2. /\ DOMAIN Own(c) = 1..N
        /\ \A i \in 1..N : Own(c)[i] = <<c, fields[i].name>>
        /\ Own(c) = [i \in 1..N |-> Own(c)[i]]
    BY <1>1 DEF Own
  <1> DEFINE F == {<<s.class, s.name>> : s \in K}
  <1>3. \A i \in 1..N : \E s \in K : s.class = c /\ s.name = fields[i].name
    <2>1. ASSUME NEW i \in 1..N PROVE \E s \in K : s.class = c /\ s.name = fields[i].name
      <3>1. fields[i] \in FieldsIn(OfKind(Symbols, "class"), c)
        BY <1>1 DEF Elements
      <3>2. PICK s \in K : fields[i] = [name |-> s.name, off |-> s.value]
        BY <3>1 DEF FieldsIn
      <3> QED
        BY <3>2
    <2> QED
      BY <2>1
  <1>4. \A s \in K : s.class = c /\ \E i \in 1..N : fields[i].name = s.name
    <2>1. ASSUME NEW s \in K PROVE \E i \in 1..N : fields[i].name = s.name
      <3>1. [name |-> s.name, off |-> s.value] \in Elements(fields)
        BY DEF FieldsIn
      <3> QED
        BY <1>1, <3>1 DEF Elements
    <2> QED
      BY <2>1
  <1>5. Own(c) \in Seq(Elements(Own(c)))
    <2>1. Own(c) \in [1..N -> Elements(Own(c))]
      BY <1>2 DEF Elements
    <2> QED
      BY <1>1, <2>1, SeqDef
  <1>6. Elements(Own(c)) = F
    <2>1. Elements(Own(c)) = {<<c, fields[i].name>> : i \in 1..N}
      BY <1>2 DEF Elements
    <2> HIDE DEF fields, K, N
    <2>2. F = {<<c, s.name>> : s \in K}
      BY <1>4
    <2> QED
      BY <1>3, <1>4, <2>1, <2>2
  <1>7. ASSUME NEW i \in 1..N, NEW j \in 1..N, i < j PROVE Own(c)[i] # Own(c)[j]
    <2>1. fields[i].name # fields[j].name
      BY <1>1, <1>7 DEF FieldsInOrder
    <2> HIDE DEF fields, N
    <2> QED
      BY <1>2, <2>1
  <1>8. \A i \in 1..N : Own(c)[i][1] = c
    <2> HIDE DEF fields, N
    <2> QED
      BY <1>2
  <1> QED
    BY <1>2, <1>5, <1>6, <1>7, <1>8 DEF IsSeq

LEMMA ConcatSeq ==
    ASSUME NEW a, NEW b, IsSeq(a), IsSeq(b)
    PROVE  /\ IsSeq(a \o b)
           /\ Elements(a \o b) = Elements(a) \cup Elements(b)
           /\ Len(a) \in Nat /\ Len(b) \in Nat /\ DOMAIN a = 1..Len(a) /\ DOMAIN b = 1..Len(b)
           /\ DOMAIN (a \o b) = 1..(Len(a) + Len(b))
           /\ \A i \in 1..Len(a) : (a \o b)[i] = a[i]
           /\ \A i \in 1..Len(b) : (a \o b)[Len(a) + i] = b[i]
  <1> DEFINE S == Elements(a) \cup Elements(b)
             c == a \o b
             m == Len(a)
             n == Len(b)
  <1>1. a \in Seq(S) /\ b \in Seq(S)
    BY SeqMonotonic DEF IsSeq
  <1>2. m \in Nat /\ n \in Nat /\ DOMAIN a = 1..m /\ DOMAIN b = 1..n
    BY <1>1, LenProperties
  <1> HIDE DEF S
  <1>3. /\ c \in Seq(S) /\ Len(c) = m + n
        /\ \A i \in 1..(m + n) : c[i] = IF i <= m THEN a[i] ELSE b[i - m]
    BY <1>1, ConcatProperties
  <1>4. IsSeq(c) /\ DOMAIN c = 1..(m + n)
    BY <1>3, SeqElements
  <1> HIDE DEF c, m, n
  <1>5. ASSUME NEW i \in 1..m PROVE i \in 1..(m + n) /\ c[i] = a[i]
    BY <1>2, <1>3
  <1>6. ASSUME NEW i \in 1..n PROVE m + i \in 1..(m + n) /\ c[m + i] = b[i]
    <2>1. m + i \in 1..(m + n) /\ ~(m + i <= m) /\ (m + i) - m = i
      BY <1>2
    <2> QED
      BY <1>3, <2>1
  <1>7. ASSUME NEW i \in 1..(m + n) PROVE i \in 1..m \/ \E k \in 1..n : i = m + k
    <2>1. CASE i <= m
      BY <1>2, <2>1
    <2>2. CASE i > m
      <3>1. i - m \in 1..n /\ i = m + (i - m)
        BY <1>2, <2>2
      <3> QED
        BY <3>1
    <2> QED
      BY <1>2, <2>1, <2>2
  <1>8. Elements(c) = Elements(a) \cup Elements(b)
    <2>1. Elements(c) = {c[i] : i \in 1..(m + n)} /\ Elements(a) = {a[i] : i \in 1..m}
          /\ Elements(b) = {b[i] : i \in 1..n}
      BY <1>2, <1>4 DEF Elements
    <2>2. \A i \in 1..(m + n) : c[i] \in Elements(a) \cup Elements(b)
      BY <1>5, <1>6, <1>7, <2>1
    <2>3. (\A i \in 1..m : a[i] \in Elements(c)) /\ (\A i \in 1..n : b[i] \in Elements(c))
      BY <1>5, <1>6, <2>1
    <2> QED
      BY <2>1, <2>2, <2>3
  <1> QED
    BY <1>2, <1>4, <1>5, <1>6, <1>8 DEF c, m, n

\* the fields that a class inherits are printed before its own
LEMMA InheritedThenOwn ==
    ASSUME Linked, NEW n \in NameSet, IsSeq(class[n].fields), FieldsInOrder(class[n].fields),
           Elements(class[n].fields) = FieldsIn(OfKind(Symbols, "class"), n),
           class[n].end = 0 => Offsets(n) = {},
           NEW inherited,
           IF class[n].parent = NULL THEN inherited = <<>>
           ELSE PrintedRight(inherited, class[n].parent)
    PROVE  PrintedRight(IF class[n].end = 0 THEN inherited ELSE inherited \o Own(n), n)
  <1> DEFINE p == class[n].parent
             K == OfKind(Symbols, "class")
             From == IF p = NULL THEN {} ELSE Ancestry(Symbols, p)
             F(X) == {<<s.class, s.name>> : s \in {t \in K : t.class \in X}}
  <1>1. /\ IsSeq(inherited) /\ Elements(inherited) = F(From)
        /\ \A i, j \in DOMAIN inherited :
              i < j => /\ inherited[i] # inherited[j]
                       /\ inherited[i][1] \in Ancestry(Symbols, inherited[j][1])
    <2>1. CASE p = NULL
      <3>1. inherited = <<>> /\ DOMAIN inherited = {} /\ F(From) = {}
        BY <2>1
      <3> QED
        BY <3>1, EmptySeqs
    <2>2. CASE p # NULL
      BY <2>2 DEF PrintedRight, FieldsOf
    <2> QED
      BY <2>1, <2>2
  <1>2. n \notin From /\ Ancestry(Symbols, n) = {n} \cup From
    BY Depths
  <1> HIDE DEF From
  <1>3. CASE class[n].end = 0
    <2>1. ~ \E s \in K : s.class \in Ancestry(Symbols, n)
      BY <1>3 DEF Offsets
    <2>2. F(From) = {} /\ FieldsOf(n) = {}
      BY <1>2, <2>1 DEF FieldsOf
    <2> QED
      BY <1>1, <1>3, <2>2 DEF PrintedRight
  <1>4. CASE class[n].end # 0
    <2> DEFINE own == Own(n)
               c == inherited \o own
               k == Len(inherited)
               l == Len(own)
    <2>1. /\ IsSeq(own)
          /\ Elements(own) = F({n})
          /\ \A i, j \in DOMAIN own : i < j => own[i] # own[j]
          /\ \A i \in DOMAIN own : own[i][1] = n
      BY OwnRight
    <2> HIDE DEF own
    <2>2. /\ IsSeq(c) /\ Elements(c) = Elements(inherited) \cup Elements(own)
          /\ k \in Nat /\ l \in Nat /\ DOMAIN inherited = 1..k /\ DOMAIN own = 1..l
          /\ DOMAIN c = 1..(k + l)
          /\ \A i \in 1..k : c[i] = inherited[i]
          /\ \A i \in 1..l : c[k + i] = own[i]
      BY <1>1, <2>1, ConcatSeq
    <2> HIDE DEF c, k, l
    <2>3. Elements(c) = FieldsOf(n)
      BY <1>1, <1>2, <2>1, <2>2 DEF FieldsOf
    <2>4. \A i \in 1..k : inherited[i][1] \in From
      <3>1. \A i \in 1..k : inherited[i] \in F(From)
        BY <1>1, <2>2 DEF Elements
      <3> QED
        BY <3>1
    <2>5. ASSUME NEW i \in 1..(k + l), NEW j \in 1..(k + l), i < j
          PROVE  c[i] # c[j] /\ c[i][1] \in Ancestry(Symbols, c[j][1])
      <3>1. CASE j <= k
        <4>1. i \in 1..k /\ j \in 1..k
          BY <2>2, <2>5, <3>1
        <4> QED
          BY <1>1, <2>2, <2>5, <4>1
      <3>2. CASE i <= k /\ j > k
        <4>1. i \in 1..k /\ j - k \in 1..l /\ k + (j - k) = j
          BY <2>2, <3>2
        <4>2. c[i] = inherited[i] /\ c[j] = own[j - k] /\ c[j][1] = n /\ c[i][1] \in From
          <5>1. c[i] = inherited[i] /\ c[k + (j - k)] = own[j - k] /\ own[j - k][1] = n
            BY <2>1, <2>2, <4>1
          <5> QED
            BY <2>4, <4>1, <5>1
        <4> QED
          BY <1>2, <4>2
      <3>3. CASE i > k
        <4>1. i - k \in 1..l /\ j - k \in 1..l /\ k + (i - k) = i /\ k + (j - k) = j /\ i - k < j - k
          BY <2>2, <2>5, <3>3
        <4>2. c[i] = own[i - k] /\ c[j] = own[j - k]
          BY <2>2, <4>1
        <4>3. own[i - k] # own[j - k] /\ own[i - k][1] = n /\ own[j - k][1] = n
          BY <2>1, <2>2, <4>1
        <4> QED
          BY <1>2, <4>2, <4>3
      <3> QED
        BY <2>2, <3>1, <3>2, <3>3
    <2> QED
      BY <1>4, <2>2, <2>3, <2>5 DEF PrintedRight, c, own
  <1> QED
    BY <1>3, <1>4

\* a class ends at 0 only if it has no field and inherits none
LEMMA EndsAtZero ==
    ASSUME Linked, NEW n \in NameSet, IsSeq(class[n].fields), FieldsInOrder(class[n].fields),
           Elements(class[n].fields) = FieldsIn(OfKind(Symbols, "class"), n),
           class[n].end = After(Offsets(n)), class[n].end = 0,
           class[n].parent # NULL =>
              /\ class[class[n].parent].end = After(Offsets(class[n].parent))
              /\ class[class[n].parent].end = 0 => Offsets(class[n].parent) = {}
    PROVE  Offsets(n) = {}
  <1> DEFINE fields == class[n].fields
             p == class[n].parent
  <1>1. WellFormed(Symbols) /\ Consistent(Symbols) /\ Superclasses(Symbols, n) = {p} \ {NULL}
    BY DEF Linked
  <1>2. After(Offsets(n)) = IF fields = <<>> THEN After(Inherited(n)) ELSE Last(fields).off + Ptr
    BY <1>1, EndsAfterAll
  <1>3. fields = <<>>
    <2> SUFFICES ASSUME fields # <<>> PROVE FALSE
      OBVIOUS
    <2>1. Len(fields) \in Nat /\ DOMAIN fields = 1..Len(fields)
      BY SeqElements DEF IsSeq
    <2>2. Len(fields) # 0
      BY EmptySeq DEF IsSeq
    <2>3. Last(fields) \in FieldsIn(OfKind(Symbols, "class"), n)
      BY <2>1, <2>2 DEF Last, Elements
    <2>4. PICK s \in OfKind(Symbols, "class") : Last(fields) = [name |-> s.name, off |-> s.value]
      BY <2>3 DEF FieldsIn
    <2>5. Last(fields).off \in Nat
      BY <1>1, <2>4 DEF WellFormed
    <2>6. Last(fields).off + Ptr = 0
      BY <1>2
    <2> QED
      BY <2>5, <2>6 DEF Ptr
  <1>4. ~ \E s \in OfKind(Symbols, "class") : s.class = n
    BY <1>3, EmptySeqs DEF FieldsIn
  <1>5. Offsets(n) = Inherited(n)
    BY <1>4 DEF Offsets, Inherited
  <1>6. CASE p = NULL
    <2>1. Superclasses(Symbols, n) = {}
      BY <1>1, <1>6
    <2> QED
      BY <1>1, <1>5, <2>1, InheritsNothing
  <1>7. CASE p # NULL
    <2>1. Superclasses(Symbols, n) = {p}
      BY <1>1, <1>7
    <2>2. Inherited(n) = Offsets(p)
      BY <1>1, <2>1, InheritedFrom
    <2> QED
      BY <1>2, <1>3, <1>5, <1>7, <2>2
  <1> QED
    BY <1>6, <1>7

(* Once configured, ::v8print prints the fields of a class and of all that *)
(* it inherits from, those first and each once, for any inheritance        *)
(* without cycles.                                                         *)
THEOREM HierarchyPrinted == Spec => []PrintsHierarchy
  <1>1. ASSUME ClassesInv, status = "ready", edits = <<>>
        PROVE  \A n \in Elements(classes) : PrintedRight(obj_print_class[n], n)
    <2>1. StateOK /\ ClassesOK /\ ClassesAsRead /\ EndsOK /\ Loaded
      BY <1>1 DEF ClassesInv, Loaded
    <2>2. /\ Linked
          /\ AsRead(OfKind(Symbols, "class"), OfKind(Symbols, "parent"))
      BY <1>1, <2>1, AllLoaded DEF Linked
    <2>3. /\ Elements(classes) \subseteq NameSet
          /\ \A n \in NameSet : /\ IsSeq(class[n].fields) /\ FieldsInOrder(class[n].fields)
                                /\ Elements(class[n].fields) = FieldsIn(OfKind(Symbols, "class"), n)
      BY <1>1, <2>1, <2>2 DEF ClassesOK, AsRead
    <2>4. \A n \in Elements(classes) : class[n].end = After(Offsets(n))
      BY <1>1, <2>1, <2>3 DEF EndsOK
    <2>5. ASSUME NEW n \in Elements(classes), class[n].parent # NULL
          PROVE  class[n].parent \in Elements(classes)
      <3>1. class[n].parent \in ParentsIn(OfKind(Symbols, "parent"), n)
        BY <2>2, <2>3, <2>5 DEF AsRead
      <3>2. PICK s \in OfKind(Symbols, "parent") : s.name = class[n].parent
        BY <3>1 DEF ParentsIn
      <3>3. s.name \in NamesIn(OfKind(Symbols, "class"), OfKind(Symbols, "parent"))
        BY DEF NamesIn
      <3> QED
        BY <2>2, <3>2, <3>3 DEF AsRead
    <2> DEFINE Right(n) == /\ class[n].end = 0 => Offsets(n) = {}
                           /\ PrintedRight(obj_print_class[n], n)
               T == {Depth(n) : n \in {c \in Elements(classes) : ~Right(c)}}
    <2>6. T = {}
      <3> SUFFICES ASSUME T # {} PROVE FALSE
        OBVIOUS
      <3>1. T \subseteq Nat
        BY <2>2, <2>3, Depths
      <3>2. PICK d \in T : \A e \in T : d <= e
        BY <3>1, Least
      <3>3. PICK n \in Elements(classes) : ~Right(n) /\ Depth(n) = d
        BY <3>2
      <3>4. \A m \in Elements(classes) : Right(m) \/ Depth(n) <= Depth(m)
        BY <3>2, <3>3
      <3> HIDE DEF Right, T
      <3> DEFINE p == class[n].parent
                 inherited == IF p = NULL THEN <<>> ELSE obj_print_class[p]
      <3>5. n \in NameSet
        BY <2>3
      <3>6. p # NULL => p \in Elements(classes) /\ Right(p)
        <4> SUFFICES ASSUME p # NULL PROVE p \in Elements(classes) /\ Right(p)
          OBVIOUS
        <4>1. p \in Elements(classes) /\ p \in NameSet
          BY <2>3, <2>5
        <4>2. Depth(p) < Depth(n) /\ Depth(p) \in Nat /\ Depth(n) \in Nat
          BY <2>2, <3>5, <4>1, Depths
        <4> QED
          BY <3>4, <4>1, <4>2
      <3>7. class[n].end = 0 => Offsets(n) = {}
        <4> SUFFICES ASSUME class[n].end = 0 PROVE Offsets(n) = {}
          OBVIOUS
        <4>1. p # NULL => class[p].end = After(Offsets(p)) /\ (class[p].end = 0 => Offsets(p) = {})
          BY <2>4, <3>6 DEF Right
        <4> QED
          BY <2>2, <2>3, <2>4, <3>5, <4>1, EndsAtZero
      <3>8. IF p = NULL THEN inherited = <<>> ELSE PrintedRight(inherited, p)
        BY <3>6 DEF Right
      <3>9. obj_print_class[n] = IF class[n].end = 0 THEN inherited ELSE inherited \o Own(n)
        BY <2>2, <3>5, PrintingEnds, Zenon DEF PrintedWith
      <3> HIDE DEF inherited
      <3>10. PrintedRight(obj_print_class[n], n)
        BY <2>2, <2>3, <3>5, <3>7, <3>8, <3>9, InheritedThenOwn
      <3> QED
        BY <3>3, <3>7, <3>10 DEF Right
    <2> QED
      BY <2>6
  <1>2. ASSUME ClassesInv PROVE PrintsHierarchy
    BY <1>1, <1>2 DEF PrintsHierarchy, PrintedRight, FieldsOf
  <1> QED
    BY <1>2, ClassesInvHolds, PTL
-----------------------------------------------------------------------------
\* success needs a class
ReadyHasClasses == status = "ready" => classes # <<>>

\* The length of a FixedArray is an offset that every version has to have.
FixedArrayLength ==
    [var |-> "FIXEDARRAY_LENGTH", class |-> "FixedArray", member |-> "length",
     optional |-> FALSE, flags |-> {}, since |-> <<0, 0>>, fallback |-> 0]
LEMMA LengthNeeded ==
    FixedArrayLength \in v8_offsets /\ ~FixedArrayLength.optional /\ Needed(FixedArrayLength)
  BY DEF FixedArrayLength, v8_offsets, Needed

\* A field is looked up in a class of the list.
LEMMA FoundInClass ==
    ASSUME NEW o, Found(o)
    PROVE  classes # <<>>
  <1>1. HasField(Holder(o), o.member)
    BY DEF Found
  <1>2. PICK i : i \in Fields(Holder(o), o.member)
    BY <1>1 DEF HasField
  <1>3. Holder(o) \in Elements(classes)
    BY <1>2 DEF Fields
  <1> QED
    BY <1>3 DEF Elements

LEMMA SuccessHasClasses ==
    ASSUME LoadOffsets, status' = "ready"
    PROVE  classes # <<>> /\ UNCHANGED classes
  <1>1. ~failed'
    BY DEF LoadOffsets
  <1>2. ~ \E o \in v8_offsets : ~Found(o) /\ ~o.optional /\ Needed(o)
    BY <1>1 DEF LoadOffsets
  <1>3. Found(FixedArrayLength)
    BY <1>2, LengthNeeded
  <1> QED
    BY <1>3, FoundInClass DEF LoadOffsets

(* A step of any other action does not succeed, and one from "ready" is a  *)
(* dcmd: ::v8load, which needs that there are no classes, or ::v8field.    *)
LEMMA ReadySteps ==
    ASSUME Next, ReadyHasClasses
    PROVE  /\ status' = "ready" => LoadOffsets \/ (status = "ready" /\ UNCHANGED classes)
           /\ status = "ready" => \E a \in FieldArgs : V8Field(a)
  <1>1. CASE Configure
    BY <1>1 DEF Configure, NotConfigured, ConfigureTarget, ConfigureCanned, Autoconfigure
  <1>2. CASE \E s \in unread : Reading(s)
    <2>1. PICK s \in unread : Reading(s)
      BY <1>2
    <2>2. status = "symbols"
      BY <2>1 DEF Reading, conf_update_parent, conf_update_field, conf_update_type,
                  conf_update_enum, BadSymbol, OtherSymbol, Take
    <2>3. status' \in {status, "failed"}
      BY <2>1 DEF Reading, conf_update_parent, conf_update_field, conf_update_type,
                  conf_update_enum, BadSymbol, OtherSymbol, IterationFails
    <2> QED
      BY <2>2, <2>3
  <1>3. CASE Computing
    <2>1. CASE EndSymbols \/ ComputeParent \/ ComputeClass \/ EndClasses
      BY <2>1 DEF EndSymbols, ComputeParent, ComputeClass, EndClasses
    <2>2. CASE \E i \in DOMAIN classes : StartClass(i)
      BY <2>2 DEF StartClass
    <2>3. CASE LoadConstants \/ LoadTypes
      BY <2>3 DEF LoadConstants, LoadTypes
    <2>4. CASE LoadOffsets
      BY <2>4 DEF LoadOffsets
    <2> QED
      BY <1>3, <2>1, <2>2, <2>3, <2>4 DEF Computing
  <1>4. CASE \E n \in LoadArgs : V8Load(n)
    BY <1>4 DEF V8Load, NotYetConfigured, Autoconfigure, ReadyHasClasses
  <1>5. CASE \E a \in FieldArgs : V8Field(a)
    BY <1>5 DEF V8Field
  <1> QED
    BY <1>1, <1>2, <1>3, <1>4, <1>5 DEF Next, Command

(* autoconfigure does not succeed without classes.  This is what the guard *)
(* of ::v8load, which looks at v8_classes only, relies on.                 *)
THEOREM ReadyClasses == Spec => []ReadyHasClasses
  <1>1. Init => ReadyHasClasses
    BY DEF Init, ReadyHasClasses
  <1>2. ReadyHasClasses /\ [Next]_cfgvars => ReadyHasClasses'
    <2> SUFFICES ASSUME ReadyHasClasses, [Next]_cfgvars, status' = "ready"
                 PROVE  classes' # <<>>
      BY DEF ReadyHasClasses
    <2>1. CASE UNCHANGED cfgvars
      BY <2>1 DEF cfgvars, tables, ReadyHasClasses
    <2>2. CASE Next
      BY <2>2, ReadySteps, SuccessHasClasses DEF ReadyHasClasses
    <2> QED
      BY <2>1, <2>2
  <1> QED
    BY <1>1, <1>2, PTL DEF Spec

(* Once the dmod is configured, no dcmd replaces or disturbs what it has   *)
(* read: the classes, the types and the offsets stay, until it is unloaded.*)
THEOREM ConfigurationStays == Spec => StaysConfigured
  <1> DEFINE Kept == status = "ready" => UNCHANGED <<status, cfg, classes, enums, v8_type, val>>
  <1>1. ReadyHasClasses /\ [Next]_cfgvars => [Kept]_cfgvars
    <2> SUFFICES ASSUME ReadyHasClasses, Next, status = "ready"
                 PROVE  UNCHANGED <<status, cfg, classes, enums, v8_type, val>>
      OBVIOUS
    <2>1. PICK a \in FieldArgs : V8Field(a)
      BY ReadySteps
    <2> QED
      BY <2>1 DEF V8Field
  <1> QED
    BY <1>1, ReadyClasses, PTL DEF Spec, StaysConfigured
=============================================================================
