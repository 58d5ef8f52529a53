------------------------- MODULE ObjectTrees_proofs -------------------------
(***************************************************************************)
(* Proofs that the comparison functions of ::findjsobjects are total       *)
(* orders, in which only equal items compare as equal, and that a tree     *)
(* therefore has one node for each signature, whatever its shape.  For     *)
(* function definitions that takes addresses near enough to each other     *)
(* that their difference is not cut when it is assigned to an int.         *)
(***************************************************************************)
EXTENDS ObjectTrees, SequenceTheorems, WellFoundedInduction, TLAPS

\* the heap has no definitions as far apart as the range of an int
NearInfos == \A l, r \in Infos : l - r < IntHalf /\ r - l < IntHalf

-----------------------------------------------------------------------------
(* The comparison functions                                                *)

LEMMA SignFacts ==
    ASSUME NEW m \in Int, NEW n \in Int
    PROVE  /\ Sign(m - n) \in {-1, 0, 1}
           /\ Sign(m - n) < 0 <=> m < n
           /\ Sign(m - n) = 0 <=> m = n
           /\ Sign(n - m) = -Sign(m - n)
  BY DEF Sign

\* a set of natural numbers has a smallest element
LEMMA Least ==
    ASSUME NEW T, T \subseteq Nat, T # {}
    PROVE  \E x \in T : \A y \in T : x <= y
  <1> DEFINE R == OpToRel(<, Nat)
  <1>1. IsWellFoundedOn(R, Nat)
    BY NatLessThanWellFounded
  <1>2. \A x, y \in Nat : y < x => <<y, x>> \in R
    BY DEF OpToRel
  <1> HIDE DEF R
  <1>3. PICK x \in T : \A y \in T : ~ (<<y, x>> \in R)
    BY <1>1, WFMin
  <1>4. \A y \in T : ~ (y < x)
    BY <1>2, <1>3, Zenon
  <1> QED
    BY <1>4

LEMMA DifferenceFirst ==
    ASSUME NEW p \in Seq(Int), NEW q \in Seq(Int), Differences(p, q) # {}
    PROVE  LET i == FirstDifference(p, q)
           IN /\ i \in 1..Len(p) /\ i \in 1..Len(q) /\ p[i] # q[i]
              /\ p[i] \in Int /\ q[i] \in Int
              /\ \A j \in 1..(i - 1) : p[j] = q[j]
              /\ FirstDifference(q, p) = i
  <1> DEFINE D == Differences(p, q)
             i == FirstDifference(p, q)
  <1>1. /\ Len(p) \in Nat /\ DOMAIN p = 1..Len(p) /\ \A j \in 1..Len(p) : p[j] \in Int
        /\ Len(q) \in Nat /\ DOMAIN q = 1..Len(q) /\ \A j \in 1..Len(q) : q[j] \in Int
    BY LenProperties
  <1>2. D \subseteq Nat
    BY <1>1 DEF Differences
  <1>3. i \in D /\ \A j \in D : i <= j
    BY <1>2, Least, Zenon DEF FirstDifference
  <1>4. Differences(q, p) = D
    BY DEF Differences
  <1>5. FirstDifference(q, p) = i
    BY <1>4 DEF FirstDifference
  <1> HIDE DEF i
  <1>6. i \in 1..Len(p) /\ i \in 1..Len(q) /\ p[i] # q[i]
    BY <1>1, <1>3 DEF Differences
  <1>7. ASSUME NEW j \in 1..(i - 1) PROVE p[j] = q[j]
    <2>1. j \in 1..Len(p) /\ j \in 1..Len(q) /\ ~(i <= j)
      BY <1>1, <1>6
    <2>2. j \notin D
      BY <1>3, <2>1
    <2> QED
      BY <1>1, <2>1, <2>2 DEF Differences
  <1> QED
    BY <1>1, <1>5, <1>6, <1>7 DEF i

LEMMA ByPropsFacts ==
    ASSUME NEW p \in Seq(Int), NEW q \in Seq(Int)
    PROVE  /\ ByProps(p, q) \in {-1, 0, 1}
           /\ ByProps(q, p) = -ByProps(p, q)
           /\ ByProps(p, q) = 0 <=> p = q
  <1>1. /\ Len(p) \in Nat /\ DOMAIN p = 1..Len(p) /\ Len(q) \in Nat /\ DOMAIN q = 1..Len(q)
    BY LenProperties
  <1>2. Differences(q, p) = Differences(p, q)
    BY DEF Differences
  <1>3. CASE Differences(p, q) # {}
    <2> DEFINE i == FirstDifference(p, q)
    <2>1. /\ i \in 1..Len(p) /\ i \in 1..Len(q) /\ p[i] # q[i]
          /\ p[i] \in Int /\ q[i] \in Int
          /\ FirstDifference(q, p) = i
      BY <1>3, DifferenceFirst
    <2>2. ByProps(p, q) = Sign(p[i] - q[i])
      BY <1>3 DEF ByProps
    <2>3. ByProps(q, p) = Sign(q[i] - p[i])
      BY <1>2, <1>3, <2>1 DEF ByProps
    <2> HIDE DEF i
    <2> QED
      BY <2>1, <2>2, <2>3 DEF Sign
  <1>4. CASE Differences(p, q) = {}
    <2>1. ByProps(p, q) = Sign(Len(p) - Len(q)) /\ ByProps(q, p) = Sign(Len(q) - Len(p))
      BY <1>2, <1>4 DEF ByProps
    <2>2. \A i \in 1..Len(p) : i \in 1..Len(q) => p[i] = q[i]
      BY <1>1, <1>4 DEF Differences
    <2>3. Len(p) = Len(q) => p = q
      BY <1>1, <2>2, SeqEqual
    <2> DEFINE m == Len(p)
               n == Len(q)
    <2>4. m \in Nat /\ n \in Nat
      BY <1>1
    <2> HIDE DEF m, n
    <2>5. Sign(m - n) \in {-1, 0, 1} /\ Sign(n - m) = -Sign(m - n) /\ (Sign(m - n) = 0 <=> m = n)
      BY <2>4 DEF Sign
    <2> QED
      BY <2>1, <2>3, <2>5 DEF m, n
  <1> QED
    BY <1>3, <1>4

(* Which of two lists of properties comes first: the one that has less     *)
(* where they first differ, or that the other goes on after.               *)
Below(p, q) == \E i \in 1..Len(p) : /\ i <= Len(q) /\ p[i] < q[i]
                                    /\ \A j \in 1..(i - 1) : p[j] = q[j]
Begins(p, q) == Len(p) < Len(q) /\ \A j \in 1..Len(p) : p[j] = q[j]

LEMMA PropsBefore ==
    ASSUME NEW p \in Seq(Int), NEW q \in Seq(Int)
    PROVE  ByProps(p, q) < 0 <=> Below(p, q) \/ Begins(p, q)
  <1>1. /\ Len(p) \in Nat /\ DOMAIN p = 1..Len(p) /\ \A j \in 1..Len(p) : p[j] \in Int
        /\ Len(q) \in Nat /\ DOMAIN q = 1..Len(q) /\ \A j \in 1..Len(q) : q[j] \in Int
    BY LenProperties
  <1>2. CASE Differences(p, q) # {}
    <2> DEFINE i == FirstDifference(p, q)
    <2>1. /\ i \in 1..Len(p) /\ i \in 1..Len(q) /\ p[i] # q[i]
          /\ p[i] \in Int /\ q[i] \in Int
          /\ \A j \in 1..(i - 1) : p[j] = q[j]
      BY <1>2, DifferenceFirst
    <2>2. ByProps(p, q) = Sign(p[i] - q[i])
      BY <1>2 DEF ByProps
    <2> HIDE DEF i
    <2>3. ByProps(p, q) < 0 <=> p[i] < q[i]
      BY <2>1, <2>2 DEF Sign
    <2>4. p[i] < q[i] => Below(p, q)
      BY <1>1, <2>1 DEF Below
    <2>5. Below(p, q) => p[i] < q[i]
      <3> SUFFICES ASSUME NEW k \in 1..Len(p), k <= Len(q), p[k] < q[k],
                          \A j \in 1..(k - 1) : p[j] = q[j]
                   PROVE  k = i
        BY DEF Below
      <3>1. ~(k < i)
        <4> SUFFICES ASSUME k < i PROVE FALSE
          OBVIOUS
        <4>1. k \in 1..(i - 1)
          BY <1>1, <2>1
        <4>2. p[k] = q[k]
          BY <2>1, <4>1
        <4> QED
          BY <1>1, <4>2
      <3>2. ~(i < k)
        <4> SUFFICES ASSUME i < k PROVE FALSE
          OBVIOUS
        <4>1. i \in 1..(k - 1)
          BY <1>1, <2>1
        <4> QED
          BY <2>1, <4>1
      <3> QED
        BY <1>1, <2>1, <3>1, <3>2
    <2>6. ~Begins(p, q)
      BY <2>1 DEF Begins
    <2> QED
      BY <2>3, <2>4, <2>5, <2>6
  <1>3. CASE Differences(p, q) = {}
    <2>1. ByProps(p, q) = Sign(Len(p) - Len(q))
      BY <1>3 DEF ByProps
    <2>2. ByProps(p, q) < 0 <=> Len(p) < Len(q)
      BY <1>1, <2>1 DEF Sign
    <2>3. \A i \in 1..Len(p) : i \in 1..Len(q) => p[i] = q[i]
      BY <1>1, <1>3 DEF Differences
    <2>4. ~Below(p, q)
      BY <1>1, <2>3 DEF Below
    <2>5. Begins(p, q) <=> Len(p) < Len(q)
      BY <1>1, <2>3 DEF Begins
    <2> QED
      BY <2>2, <2>4, <2>5
  <1> QED
    BY <1>2, <1>3

LEMMA PropsTransitive ==
    ASSUME NEW p \in Seq(Int), NEW q \in Seq(Int), NEW r \in Seq(Int),
           ByProps(p, q) < 0, ByProps(q, r) < 0
    PROVE  ByProps(p, r) < 0
  <1>1. /\ Len(p) \in Nat /\ \A j \in 1..Len(p) : p[j] \in Int
        /\ Len(q) \in Nat /\ \A j \in 1..Len(q) : q[j] \in Int
        /\ Len(r) \in Nat /\ \A j \in 1..Len(r) : r[j] \in Int
    BY LenProperties
  <1>2. SUFFICES Below(p, r) \/ Begins(p, r)
    BY PropsBefore
  <1>3. CASE Below(p, q) /\ Below(q, r)
    <2>1. PICK i \in 1..Len(p) : i <= Len(q) /\ p[i] < q[i] /\ \A j \in 1..(i - 1) : p[j] = q[j]
      BY <1>3 DEF Below
    <2>2. PICK k \in 1..Len(q) : k <= Len(r) /\ q[k] < r[k] /\ \A j \in 1..(k - 1) : q[j] = r[j]
      BY <1>3 DEF Below
    <2> DEFINE m == IF i < k THEN i ELSE k
    <2>3. m \in 1..Len(p) /\ m <= Len(q) /\ m <= Len(r)
      <3>1. /\ i \in Nat /\ 1 <= i /\ i <= Len(p) /\ i <= Len(q)
            /\ k \in Nat /\ 1 <= k /\ k <= Len(q) /\ k <= Len(r)
        BY <1>1, <2>1, <2>2
      <3>2. CASE i < k
        BY <1>1, <3>1, <3>2
      <3>3. CASE ~(i < k)
        BY <1>1, <3>1, <3>3
      <3> QED
        BY <3>2, <3>3
    <2>4. p[m] < r[m]
      <3>1. CASE i < k
        <4>1. i \in 1..(k - 1) /\ i \in 1..Len(q) /\ i \in 1..Len(r)
          BY <1>1, <2>1, <2>2, <3>1
        <4>2. q[i] = r[i]
          BY <2>2, <4>1
        <4> QED
          BY <1>1, <2>1, <3>1, <4>2
      <3>2. CASE i = k
        <4>1. i \in 1..Len(q) /\ i \in 1..Len(r)
          BY <1>1, <2>1, <2>2, <3>2
        <4> QED
          BY <1>1, <2>1, <2>2, <3>2, <4>1
      <3>3. CASE k < i
        <4>1. k \in 1..(i - 1) /\ k \in 1..Len(p) /\ ~(i < k)
          BY <1>1, <2>1, <2>2, <3>3
        <4>2. p[k] = q[k]
          BY <2>1, <4>1
        <4> QED
          BY <2>2, <4>1, <4>2
      <3> QED
        BY <2>1, <2>2, <3>1, <3>2, <3>3
    <2>5. ASSUME NEW j \in 1..(m - 1) PROVE p[j] = r[j]
      <3>1. j \in 1..(i - 1) /\ j \in 1..(k - 1)
        <4>1. i \in Int /\ k \in Int
          BY <1>1, <2>1, <2>2
        <4>2. m \in Int /\ m <= i /\ m <= k
          BY <4>1
        <4> HIDE DEF m
        <4>3. j \in Int /\ 1 <= j /\ j <= m - 1
          BY <4>2
        <4> QED
          BY <4>1, <4>2, <4>3
      <3> QED
        BY <2>1, <2>2, <3>1
    <2> HIDE DEF m
    <2> QED
      BY <2>3, <2>4, <2>5 DEF Below
  <1>4. CASE Below(p, q) /\ Begins(q, r)
    <2>1. PICK i \in 1..Len(p) : i <= Len(q) /\ p[i] < q[i] /\ \A j \in 1..(i - 1) : p[j] = q[j]
      BY <1>4 DEF Below
    <2>2. Len(q) < Len(r) /\ \A j \in 1..Len(q) : q[j] = r[j]
      BY <1>4 DEF Begins
    <2>3. i \in 1..Len(q) /\ i <= Len(r)
      BY <1>1, <2>1, <2>2
    <2>4. ASSUME NEW j \in 1..(i - 1) PROVE p[j] = r[j]
      <3>1. j \in 1..Len(q)
        BY <1>1, <2>3
      <3> QED
        BY <2>1, <2>2, <3>1
    <2> QED
      BY <2>1, <2>2, <2>3, <2>4 DEF Below
  <1>5. CASE Begins(p, q) /\ Below(q, r)
    <2>1. Len(p) < Len(q) /\ \A j \in 1..Len(p) : p[j] = q[j]
      BY <1>5 DEF Begins
    <2>2. PICK k \in 1..Len(q) : k <= Len(r) /\ q[k] < r[k] /\ \A j \in 1..(k - 1) : q[j] = r[j]
      BY <1>5 DEF Below
    <2>3. CASE k <= Len(p)
      <3>1. k \in 1..Len(p)
        BY <1>1, <2>2, <2>3
      <3>2. ASSUME NEW j \in 1..(k - 1) PROVE p[j] = r[j]
        <4>1. j \in 1..Len(p)
          BY <1>1, <3>1
        <4> QED
          BY <2>1, <2>2, <4>1
      <3> QED
        BY <2>1, <2>2, <3>1, <3>2 DEF Below
    <2>4. CASE k > Len(p)
      <3>1. Len(p) < Len(r)
        BY <1>1, <2>2, <2>4
      <3>2. ASSUME NEW j \in 1..Len(p) PROVE p[j] = r[j]
        <4>1. j \in 1..(k - 1)
          BY <1>1, <2>2, <2>4
        <4> QED
          BY <2>1, <2>2, <4>1
      <3> QED
        BY <3>1, <3>2 DEF Begins
    <2> QED
      BY <1>1, <2>2, <2>3, <2>4
  <1>6. CASE Begins(p, q) /\ Begins(q, r)
    <2>1. Len(p) < Len(q) /\ Len(q) < Len(r)
      BY <1>6 DEF Begins
    <2>2. ASSUME NEW j \in 1..Len(p) PROVE p[j] = r[j]
      <3>1. j \in 1..Len(q)
        BY <1>1, <2>1
      <3> QED
        BY <1>6, <3>1 DEF Begins
    <2> QED
      BY <1>1, <2>1, <2>2 DEF Begins
  <1> QED
    BY <1>3, <1>4, <1>5, <1>6, PropsBefore

Signatures == [malformed : BOOLEAN, props : Seq(Int), nprops : Int, ctor : Int]

LEMMA ByCountFacts ==
    ASSUME NEW l \in Signatures, NEW m \in Signatures, NEW r \in Signatures
    PROVE  /\ ByCount(l, r) \in {-1, 0, 1}
           /\ ByCount(r, l) = -ByCount(l, r)
           /\ ByCount(l, r) = 0 <=> l.nprops = r.nprops /\ l.ctor = r.ctor
           /\ ByCount(l, m) <= 0 /\ ByCount(m, r) < 0 => ByCount(l, r) < 0
           /\ ByCount(l, m) < 0 /\ ByCount(m, r) <= 0 => ByCount(l, r) < 0
  BY DEF Signatures, ByCount, Sign

\* findjsobjects_cmp orders signatures
LEMMA ObjCmpOrders ==
    ASSUME NEW l \in Signatures, NEW r \in Signatures
    PROVE  /\ ObjCmp(l, r) \in {-1, 0, 1}
           /\ ObjCmp(r, l) = -ObjCmp(l, r)
           /\ ObjCmp(l, r) = 0 <=> l = r
  <1>1. l.props \in Seq(Int) /\ r.props \in Seq(Int)
    BY DEF Signatures
  <1>2. /\ ByProps(l.props, r.props) \in {-1, 0, 1}
        /\ ByProps(r.props, l.props) = -ByProps(l.props, r.props)
        /\ ByProps(l.props, r.props) = 0 <=> l.props = r.props
    BY <1>1, ByPropsFacts
  <1>3. /\ ByCount(l, r) \in {-1, 0, 1}
        /\ ByCount(r, l) = -ByCount(l, r)
        /\ ByCount(l, r) = 0 <=> l.nprops = r.nprops /\ l.ctor = r.ctor
    BY ByCountFacts
  <1>4. l.malformed \in BOOLEAN /\ r.malformed \in BOOLEAN
    BY DEF Signatures
  <1>5. l = r <=> /\ l.malformed = r.malformed /\ l.props = r.props
                  /\ l.nprops = r.nprops /\ l.ctor = r.ctor
    BY DEF Signatures
  <1> QED
    BY <1>2, <1>3, <1>4, <1>5 DEF ObjCmp

LEMMA ObjCmpTransitive ==
    ASSUME NEW l \in Signatures, NEW m \in Signatures, NEW r \in Signatures,
           ObjCmp(l, m) < 0, ObjCmp(m, r) < 0
    PROVE  ObjCmp(l, r) < 0
  <1>1. l.props \in Seq(Int) /\ m.props \in Seq(Int) /\ r.props \in Seq(Int)
    BY DEF Signatures
  <1> DEFINE lm == ByProps(l.props, m.props)
             mr == ByProps(m.props, r.props)
             lr == ByProps(l.props, r.props)
  <1>2. lm \in {-1, 0, 1} /\ mr \in {-1, 0, 1} /\ lr \in {-1, 0, 1}
    BY <1>1, ByPropsFacts
  <1>3. lm < 0 /\ mr < 0 => lr < 0
    BY <1>1, PropsTransitive
  <1>4. (lm = 0 => l.props = m.props) /\ (mr = 0 => m.props = r.props)
    BY <1>1, ByPropsFacts
  <1>5. (lm = 0 => lr = mr) /\ (mr = 0 => lr = lm)
    BY <1>4
  <1>6. /\ ByCount(l, m) < 0 /\ ByCount(m, r) < 0 => ByCount(l, r) < 0
    BY ByCountFacts
  <1>7. {l.malformed, m.malformed, r.malformed} \subseteq BOOLEAN
    BY DEF Signatures
  <1>8. /\ ObjCmp(l, m) = IF l.malformed # m.malformed THEN IF l.malformed THEN -1 ELSE 1
                          ELSE IF lm # 0 THEN lm ELSE ByCount(l, m)
        /\ ObjCmp(m, r) = IF m.malformed # r.malformed THEN IF m.malformed THEN -1 ELSE 1
                          ELSE IF mr # 0 THEN mr ELSE ByCount(m, r)
        /\ ObjCmp(l, r) = IF l.malformed # r.malformed THEN IF l.malformed THEN -1 ELSE 1
                          ELSE IF lr # 0 THEN lr ELSE ByCount(l, r)
    BY DEF ObjCmp
  <1> HIDE DEF lm, mr, lr
  <1> QED
    BY <1>2, <1>3, <1>5, <1>6, <1>7, <1>8

\* findjsobjects_cmp_funcinfo orders addresses that are near to each other
LEMMA FuncCmpIsSign ==
    ASSUME NearInfos, NEW l \in Infos, NEW r \in Infos
    PROVE  l - r \in Int /\ FuncCmp(l, r) = Sign(l - r)
  <1> DEFINE n == l - r
  <1>1. n \in Int /\ IntHalf \in Nat \ {0} /\ -IntHalf < n /\ n < IntHalf
    BY TreesAssumption DEF NearInfos
  <1> HIDE DEF n
  <1>2. n >= 0 => n % (2 * IntHalf) = n
    BY <1>1
  <1>3. n < 0 => n % (2 * IntHalf) = n + 2 * IntHalf
    BY <1>1
  <1>4. ToInt(n) = n
    BY <1>1, <1>2, <1>3 DEF ToInt
  <1> QED
    BY <1>1, <1>4 DEF FuncCmp, n

\* when the comparison function of the tree orders its items
Comparable == tree = "fjs_tree" \/ NearInfos

LEMMA CmpOrders ==
    ASSUME tree \in {"fjs_tree", "fjs_funcinfo"}, Comparable
    PROVE  /\ \A a, b \in Items : /\ Cmp(a, b) \in {-1, 0, 1}
                                  /\ Cmp(b, a) = -Cmp(a, b)
                                  /\ Cmp(a, b) = 0 <=> a = b
           /\ \A a, b, c \in Items : Cmp(a, b) < 0 /\ Cmp(b, c) < 0 => Cmp(a, c) < 0
  <1>1. CASE tree = "fjs_tree"
    <2>1. Items \subseteq Signatures /\ \A a, b : Cmp(a, b) = ObjCmp(a, b)
      BY <1>1, TreesAssumption DEF Items, Cmp, Signatures
    <2> QED
      BY <2>1, ObjCmpOrders, ObjCmpTransitive
  <1>2. CASE tree = "fjs_funcinfo"
    <2>1. Items = Infos /\ \A a, b : Cmp(a, b) = FuncCmp(a, b)
      BY <1>2 DEF Items, Cmp
    <2>2. NearInfos /\ Infos \subseteq Int
      BY <1>2, TreesAssumption DEF Comparable
    <2>3. \A a, b \in Infos : FuncCmp(a, b) = Sign(a - b)
      BY <2>2, FuncCmpIsSign
    <2>4. \A a, b \in Infos : /\ Cmp(a, b) \in {-1, 0, 1}
                              /\ Cmp(a, b) < 0 <=> a < b
                              /\ Cmp(a, b) = 0 <=> a = b
                              /\ Cmp(b, a) = -Cmp(a, b)
      BY <2>1, <2>2, <2>3, SignFacts
    <2>5. \A a, b, c \in Infos : a < b /\ b < c => a < c
      BY <2>2
    <2> QED
      BY <2>1, <2>4, <2>5
  <1> QED
    BY <1>1, <1>2

\* it comes to a verdict in any case
LEMMA CmpRange ==
    ASSUME tree \in {"fjs_tree", "fjs_funcinfo"}, NEW a \in Items, NEW b \in Items
    PROVE  Cmp(a, b) \in {-1, 0, 1}
  <1>1. CASE tree = "fjs_tree"
    BY <1>1, CmpOrders DEF Comparable
  <1>2. CASE tree = "fjs_funcinfo"
    BY <1>2 DEF Cmp, FuncCmp, Sign
  <1> QED
    BY <1>1, <1>2
-----------------------------------------------------------------------------
(* The nodes of a tree are in order, and a lookup is on its way to where   *)
(* its item is or belongs.                                                 *)

Node == [key : Items, items : SUBSET Items]

NodesInOrder == \A i, j \in DOMAIN nodes : i < j => Cmp(nodes[i].key, nodes[j].key) < 0

OnTheWay ==
    item # None =>
       /\ \A m \in DOMAIN nodes : m < lo => Cmp(nodes[m].key, item) < 0
       /\ \A m \in DOMAIN nodes : m >= hi => Cmp(item, nodes[m].key) < 0

TreeInv ==
    /\ tree \in {"fjs_tree", "fjs_funcinfo"}
    /\ nodes \in Seq(Node)
    /\ item # None => /\ item \in Items /\ lo \in 1..(Len(nodes) + 1) /\ hi \in 1..(Len(nodes) + 1)
                      /\ lo <= hi
    /\ Comparable => NodesInOrder /\ OnTheWay /\ NeverMerged

LEMMA NodesTyped ==
    ASSUME TreeInv
    PROVE  /\ Len(nodes) \in Nat /\ DOMAIN nodes = 1..Len(nodes)
           /\ \A i \in 1..Len(nodes) : nodes[i] \in Node /\ nodes[i].key \in Items
  <1>1. Len(nodes) \in Nat /\ DOMAIN nodes = 1..Len(nodes) /\ \A i \in 1..Len(nodes) : nodes[i] \in Node
    BY LenProperties DEF TreeInv
  <1> QED
    BY <1>1 DEF Node

\* the order does not change
LEMMA SameTree ==
    ASSUME UNCHANGED tree
    PROVE  /\ Items' = Items /\ Node' = Node /\ (Comparable' <=> Comparable)
           /\ \A a, b : Cmp(a, b)' = Cmp(a, b)
  BY DEF Items, Node, Comparable, Cmp

LEMMA BeginKeeps ==
    ASSUME TreeInv, NEW k \in Items, Begin(k)
    PROVE  TreeInv'
  <1>1. tree' = tree /\ nodes' = nodes /\ item' = k /\ lo' = 1 /\ hi' = Len(nodes) + 1
    BY DEF Begin
  <1>2. Len(nodes) \in Nat /\ DOMAIN nodes = 1..Len(nodes)
    BY NodesTyped
  <1>3. Items' = Items /\ Node' = Node /\ (Comparable' <=> Comparable)
        /\ \A a, b : Cmp(a, b)' = Cmp(a, b)
    BY <1>1, SameTree
  <1>4. OnTheWay'
    BY <1>1, <1>2 DEF OnTheWay
  <1>5. NodesInOrder => NodesInOrder'
    BY <1>1 DEF NodesInOrder, Cmp
  <1>6. NeverMerged => NeverMerged'
    BY <1>1 DEF NeverMerged
  <1> QED
    BY <1>1, <1>2, <1>3, <1>4, <1>5, <1>6 DEF TreeInv

LEMMA DescendKeeps ==
    ASSUME TreeInv, NEW m \in DOMAIN nodes, Descend(m)
    PROVE  TreeInv'
  <1> DEFINE c == Cmp(item, nodes[m].key)
  <1>1. /\ UNCHANGED <<tree, nodes, item>> /\ item # None /\ m \in lo..(hi - 1) /\ c # 0
        /\ lo' = IF c > 0 THEN m + 1 ELSE lo
        /\ hi' = IF c < 0 THEN m ELSE hi
    BY DEF Descend
  <1>2. /\ Len(nodes) \in Nat /\ DOMAIN nodes = 1..Len(nodes)
        /\ \A i \in DOMAIN nodes : nodes[i].key \in Items
    BY NodesTyped
  <1>3. item \in Items /\ lo \in 1..(Len(nodes) + 1) /\ hi \in 1..(Len(nodes) + 1) /\ lo <= hi
    BY <1>1 DEF TreeInv
  <1>4. c \in {-1, 1}
    BY <1>1, <1>2, <1>3, CmpRange DEF TreeInv
  <1>5. lo' \in 1..(Len(nodes) + 1) /\ hi' \in 1..(Len(nodes) + 1) /\ lo' <= hi'
    <2> HIDE DEF c
    <2> QED
      BY <1>1, <1>2, <1>3, <1>4
  <1>6. ASSUME Comparable PROVE OnTheWay'
    <2>1. /\ \A j \in DOMAIN nodes : j < lo => Cmp(nodes[j].key, item) < 0
          /\ \A j \in DOMAIN nodes : j >= hi => Cmp(item, nodes[j].key) < 0
          /\ NodesInOrder
      BY <1>1, <1>6 DEF TreeInv, OnTheWay
    <2>2. /\ \A a, b \in Items : Cmp(a, b) \in {-1, 0, 1} /\ Cmp(b, a) = -Cmp(a, b)
          /\ \A a, b, d \in Items : Cmp(a, b) < 0 /\ Cmp(b, d) < 0 => Cmp(a, d) < 0
      BY <1>6, CmpOrders DEF TreeInv
    <2>3. ASSUME NEW j \in DOMAIN nodes, j < lo' PROVE Cmp(nodes[j].key, item) < 0
      <3>1. CASE c = 1
        <4>1. Cmp(nodes[m].key, item) < 0
          BY <1>2, <1>3, <2>2, <3>1
        <4>2. j = m \/ j < m
          BY <1>1, <1>2, <2>3, <3>1
        <4>3. j < m => Cmp(nodes[j].key, nodes[m].key) < 0
          BY <2>1 DEF NodesInOrder
        <4> QED
          BY <1>2, <1>3, <2>2, <4>1, <4>2, <4>3
      <3>2. CASE c = -1
        BY <1>1, <2>1, <2>3, <3>2
      <3> QED
        BY <1>4, <3>1, <3>2
    <2>4. ASSUME NEW j \in DOMAIN nodes, j >= hi' PROVE Cmp(item, nodes[j].key) < 0
      <3>1. CASE c = -1
        <4>1. j = m \/ m < j
          BY <1>1, <1>2, <2>4, <3>1
        <4>2. m < j => Cmp(nodes[m].key, nodes[j].key) < 0
          BY <2>1 DEF NodesInOrder
        <4> QED
          BY <1>2, <1>3, <2>2, <3>1, <4>1, <4>2
      <3>2. CASE c = 1
        BY <1>1, <2>1, <2>4, <3>2
      <3> QED
        BY <1>4, <3>1, <3>2
    <2> QED
      BY <1>1, <2>3, <2>4 DEF OnTheWay, Cmp
  <1>7. Items' = Items /\ Node' = Node /\ (Comparable' <=> Comparable)
    BY <1>1, SameTree
  <1>8. NodesInOrder => NodesInOrder'
    BY <1>1 DEF NodesInOrder, Cmp
  <1>9. NeverMerged => NeverMerged'
    BY <1>1 DEF NeverMerged
  <1> QED
    BY <1>1, <1>3, <1>5, <1>6, <1>7, <1>8, <1>9 DEF TreeInv

LEMMA FindKeeps ==
    ASSUME TreeInv, NEW m \in DOMAIN nodes, FindNode(m)
    PROVE  TreeInv'
  <1>1. /\ UNCHANGED <<tree, lo, hi>> /\ item # None /\ item' = None
        /\ Cmp(item, nodes[m].key) = 0
        /\ nodes' = [nodes EXCEPT ![m].items = @ \cup {item}]
    BY DEF FindNode
  <1>2. /\ Len(nodes) \in Nat /\ DOMAIN nodes = 1..Len(nodes)
        /\ \A i \in 1..Len(nodes) : nodes[i] \in Node /\ nodes[i].key \in Items
    BY NodesTyped
  <1>3. item \in Items
    BY <1>1 DEF TreeInv
  <1>4. /\ DOMAIN nodes' = DOMAIN nodes
        /\ \A i \in DOMAIN nodes : nodes'[i].key = nodes[i].key
        /\ \A i \in DOMAIN nodes : i # m => nodes'[i] = nodes[i]
        /\ nodes'[m] = [key |-> nodes[m].key, items |-> nodes[m].items \cup {item}]
        /\ nodes' = [i \in DOMAIN nodes |-> nodes'[i]]
    BY <1>1, <1>2 DEF Node
  <1>5. nodes' \in Seq(Node)
    <2>1. \A i \in DOMAIN nodes : nodes'[i] \in Node
      BY <1>2, <1>3, <1>4 DEF Node
    <2>2. nodes' \in [1..Len(nodes) -> Node]
      BY <1>2, <1>4, <2>1
    <2> QED
      BY <1>2, <2>2, SeqDef
  <1>6. Items' = Items /\ Node' = Node /\ (Comparable' <=> Comparable)
    BY <1>1, SameTree
  <1>7. ASSUME Comparable PROVE NodesInOrder' /\ NeverMerged' /\ OnTheWay'
    <2>1. item = nodes[m].key
      BY <1>1, <1>2, <1>3, <1>7, CmpOrders DEF TreeInv
    <2>2. NodesInOrder /\ NeverMerged
      BY <1>7 DEF TreeInv
    <2>3. NodesInOrder'
      BY <1>1, <1>4, <2>2 DEF NodesInOrder, Cmp
    <2>4. NeverMerged'
      BY <1>4, <2>1, <2>2 DEF NeverMerged
    <2> QED
      BY <1>1, <2>3, <2>4 DEF OnTheWay
  <1> QED
    BY <1>1, <1>5, <1>6, <1>7 DEF TreeInv

(* What AddNode makes of the tree: s with the node e at the place p. *)
WithNode(s, p, e) == SubSeq(s, 1, p - 1) \o <<e>> \o SubSeq(s, p, Len(s))

\* a node is added where the lookup ended
LEMMA NodeAdded ==
    ASSUME NEW s \in Seq(Node), NEW e \in Node, NEW p \in 1..(Len(s) + 1)
    PROVE  /\ WithNode(s, p, e) \in Seq(Node) /\ Len(WithNode(s, p, e)) = Len(s) + 1
           /\ \A i \in 1..(Len(s) + 1) :
                 WithNode(s, p, e)[i] = IF i < p THEN s[i] ELSE IF i = p THEN e ELSE s[i - 1]
  <1> DEFINE a == SubSeq(s, 1, p - 1)
             b == SubSeq(s, p, Len(s))
  <1>1. Len(s) \in Nat /\ \A i \in 1..Len(s) : s[i] \in Node
    BY LenProperties
  <1>2. a \in Seq(Node) /\ Len(a) = p - 1 /\ \A i \in 1..(p - 1) : a[i] = s[i]
    <2>1. \A i \in 1..(p - 1) : s[i] \in Node
      BY <1>1
    <2>2. p - 1 \in Int /\ 1 \in Int
      OBVIOUS
    <2> QED
      BY <2>1, <2>2, SubSeqProperties
  <1>3. b \in Seq(Node) /\ Len(b) = Len(s) - p + 1 /\ \A i \in 1..(Len(s) - p + 1) : b[i] = s[p + i - 1]
    <2>1. \A i \in p..Len(s) : s[i] \in Node
      BY <1>1
    <2>2. p \in Int /\ Len(s) \in Int
      BY <1>1
    <2> QED
      BY <2>1, <2>2, SubSeqProperties
  <1>4. <<e>> \in Seq(Node) /\ Len(<<e>>) = 1 /\ <<e>>[1] = e
    OBVIOUS
  <1> HIDE DEF a, b
  <1> DEFINE c == a \o <<e>>
  <1>5. /\ c \in Seq(Node) /\ Len(c) = p
        /\ \A i \in 1..p : c[i] = IF i <= p - 1 THEN a[i] ELSE <<e>>[i - (p - 1)]
    BY <1>2, <1>4, ConcatProperties
  <1>6. \A i \in 1..p : c[i] = IF i < p THEN s[i] ELSE e
    BY <1>2, <1>4, <1>5
  <1> HIDE DEF c
  <1> DEFINE d == c \o b
  <1>7. /\ d \in Seq(Node) /\ Len(d) = Len(c) + Len(b)
        /\ \A i \in 1..(Len(c) + Len(b)) : d[i] = IF i <= Len(c) THEN c[i] ELSE b[i - Len(c)]
    BY <1>3, <1>5, ConcatProperties
  <1>8. Len(c) + Len(b) = Len(s) + 1
    BY <1>1, <1>3, <1>5
  <1> HIDE DEF d
  <1>9. ASSUME NEW i \in 1..(Len(s) + 1)
        PROVE  d[i] = IF i < p THEN s[i] ELSE IF i = p THEN e ELSE s[i - 1]
    <2>1. CASE i <= p
      <3>1. i \in 1..p /\ i <= Len(c) /\ i \in 1..(Len(c) + Len(b)) /\ (i < p \/ i = p)
        BY <1>1, <1>5, <1>8, <2>1
      <3> QED
        BY <1>6, <1>7, <3>1
    <2>2. CASE i > p
      <3>1. i - p \in 1..(Len(s) - p + 1) /\ p + (i - p) - 1 = i - 1 /\ ~(i <= p)
        BY <1>1, <2>2
      <3>2. d[i] = b[i - p]
        BY <1>5, <1>7, <1>8, <3>1
      <3> QED
        BY <1>3, <2>2, <3>1, <3>2
    <2> QED
      BY <2>1, <2>2
  <1> QED
    <2>1. WithNode(s, p, e) = d
      BY DEF WithNode, a, b, c, d
    <2> QED
      BY <1>7, <1>8, <1>9, <2>1

LEMMA AddKeeps ==
    ASSUME TreeInv, AddNode
    PROVE  TreeInv'
  <1> DEFINE e == [key |-> item, items |-> {item}]
             N == Len(nodes)
  <1>1. /\ UNCHANGED <<tree, lo, hi>> /\ item # None /\ item' = None /\ lo = hi
        /\ nodes' = SubSeq(nodes, 1, lo - 1) \o <<e>> \o SubSeq(nodes, lo, N)
    BY DEF AddNode
  <1>2. /\ N \in Nat /\ DOMAIN nodes = 1..N
        /\ \A i \in 1..N : nodes[i] \in Node /\ nodes[i].key \in Items
    BY NodesTyped
  <1>3. item \in Items /\ lo \in 1..(N + 1) /\ nodes \in Seq(Node)
    BY <1>1 DEF TreeInv
  <1>4. e \in Node /\ e.key = item /\ e.items = {item}
    BY <1>3 DEF Node
  <1> HIDE DEF e
  <1>5. /\ nodes' \in Seq(Node) /\ Len(nodes') = N + 1
        /\ \A i \in 1..(N + 1) :
              nodes'[i] = IF i < lo THEN nodes[i] ELSE IF i = lo THEN e ELSE nodes[i - 1]
    <2>1. nodes \in Seq(Node) /\ e \in Node /\ lo \in 1..(Len(nodes) + 1)
      BY <1>3, <1>4
    <2>2. nodes' = WithNode(nodes, lo, e)
      BY <1>1 DEF WithNode
    <2>3. /\ WithNode(nodes, lo, e) \in Seq(Node)
          /\ Len(WithNode(nodes, lo, e)) = Len(nodes) + 1
          /\ \A i \in 1..(Len(nodes) + 1) :
                WithNode(nodes, lo, e)[i] = IF i < lo THEN nodes[i] ELSE IF i = lo THEN e ELSE nodes[i - 1]
      BY <2>1, NodeAdded
    <2> QED
      BY <2>2, <2>3
  <1>6. DOMAIN nodes' = 1..(N + 1)
    BY <1>5, LenProperties
  <1> HIDE DEF N
  <1>7. Items' = Items /\ Node' = Node /\ (Comparable' <=> Comparable)
    BY <1>1, SameTree
  <1>8. ASSUME Comparable PROVE NodesInOrder' /\ NeverMerged' /\ OnTheWay'
    <2>1. /\ \A j \in 1..N : j < lo => Cmp(nodes[j].key, item) < 0
          /\ \A j \in 1..N : j >= lo => Cmp(item, nodes[j].key) < 0
          /\ \A i, j \in 1..N : i < j => Cmp(nodes[i].key, nodes[j].key) < 0
          /\ \A j \in 1..N : nodes[j].items \subseteq {nodes[j].key}
      BY <1>1, <1>2, <1>8 DEF TreeInv, OnTheWay, NodesInOrder, NeverMerged
    <2>2. ASSUME NEW i \in 1..(N + 1), NEW j \in 1..(N + 1), i < j
          PROVE  Cmp(nodes'[i].key, nodes'[j].key) < 0
      <3>1. CASE j < lo
        <4>1. i \in 1..N /\ j \in 1..N /\ nodes'[i] = nodes[i] /\ nodes'[j] = nodes[j]
          BY <1>2, <1>3, <1>5, <2>2, <3>1
        <4> QED
          BY <2>1, <2>2, <4>1
      <3>2. CASE j = lo
        <4>1. i \in 1..N /\ i < lo /\ nodes'[i] = nodes[i] /\ nodes'[j] = e
          BY <1>2, <1>3, <1>5, <2>2, <3>2
        <4> QED
          BY <1>4, <2>1, <4>1
      <3>3. CASE i < lo /\ lo < j
        <4>1. i \in 1..N /\ j - 1 \in 1..N /\ i < j - 1 /\ nodes'[i] = nodes[i] /\ nodes'[j] = nodes[j - 1]
          BY <1>2, <1>3, <1>5, <2>2, <3>3
        <4> QED
          BY <2>1, <4>1
      <3>4. CASE i = lo
        <4>1. j - 1 \in 1..N /\ j - 1 >= lo /\ nodes'[i] = e /\ nodes'[j] = nodes[j - 1]
          BY <1>2, <1>3, <1>5, <2>2, <3>4
        <4> QED
          BY <1>4, <2>1, <4>1
      <3>5. CASE lo < i
        <4>1. /\ i - 1 \in 1..N /\ j - 1 \in 1..N /\ i - 1 < j - 1
              /\ nodes'[i] = nodes[i - 1] /\ nodes'[j] = nodes[j - 1]
          BY <1>2, <1>3, <1>5, <2>2, <3>5
        <4> QED
          BY <2>1, <4>1
      <3> QED
        BY <1>2, <1>3, <3>1, <3>2, <3>3, <3>4, <3>5
    <2>3. NodesInOrder'
      <3>1. \A i, j \in DOMAIN nodes' : i < j => Cmp(nodes[i].key, nodes[j].key)' < 0
        <4>1. \A x, y : (IF tree' = "fjs_tree" THEN ObjCmp(x, y) ELSE FuncCmp(x, y)) = Cmp(x, y)
          BY <1>1 DEF Cmp
        <4> QED
          BY <1>6, <2>2, <4>1 DEF Cmp
      <3> QED
        BY <3>1 DEF NodesInOrder
    <2>4. ASSUME NEW i \in 1..(N + 1) PROVE nodes'[i].items \subseteq {nodes'[i].key}
      <3>1. CASE i < lo
        <4>1. i \in 1..N /\ nodes'[i] = nodes[i]
          BY <1>2, <1>3, <1>5, <3>1
        <4> QED
          BY <2>1, <4>1
      <3>2. CASE i = lo
        <4>1. nodes'[i] = e
          BY <1>5, <3>2
        <4> QED
          BY <1>4, <4>1
      <3>3. CASE lo < i
        <4>1. i - 1 \in 1..N /\ nodes'[i] = nodes[i - 1]
          BY <1>2, <1>3, <1>5, <3>3
        <4> QED
          BY <2>1, <4>1
      <3> QED
        BY <1>2, <1>3, <3>1, <3>2, <3>3
    <2> QED
      BY <1>1, <1>6, <2>3, <2>4 DEF NeverMerged, OnTheWay
  <1> QED
    BY <1>1, <1>5, <1>7, <1>8 DEF TreeInv

LEMMA TreeInvHolds == TSpec => []TreeInv
  <1>1. TInit => TreeInv
    BY DEF TInit, TreeInv, Node, NodesInOrder, OnTheWay, NeverMerged
  <1>2. TreeInv /\ [TNext]_tvars => TreeInv'
    <2> SUFFICES ASSUME TreeInv, [TNext]_tvars PROVE TreeInv'
      OBVIOUS
    <2>1. CASE UNCHANGED tvars
      BY <2>1 DEF tvars, TreeInv, Comparable, NodesInOrder, OnTheWay, NeverMerged, Cmp, Node, Items
    <2>2. CASE \E k \in Items : Begin(k)
      BY <2>2, BeginKeeps
    <2>3. CASE \E m \in DOMAIN nodes : Descend(m) \/ FindNode(m)
      BY <2>3, DescendKeeps, FindKeeps
    <2>4. CASE AddNode
      BY <2>4, AddKeeps
    <2> QED
      BY <2>1, <2>2, <2>3, <2>4 DEF TNext
  <1> QED
    BY <1>1, <1>2, PTL DEF TSpec

\* nodes in order have different keys
LEMMA OrderedOnce ==
    ASSUME TreeInv, Comparable
    PROVE  OneNodePerKey
  <1>1. NodesInOrder /\ NeverMerged
    BY DEF TreeInv
  <1>2. Len(nodes) \in Nat /\ DOMAIN nodes = 1..Len(nodes) /\ \A i \in 1..Len(nodes) : nodes[i].key \in Items
    BY NodesTyped
  <1>3. \A a \in Items : Cmp(a, a) = 0
    BY CmpOrders DEF TreeInv
  <1>4. ASSUME NEW m \in DOMAIN nodes, NEW n \in DOMAIN nodes, nodes[m].key = nodes[n].key
        PROVE  m = n
    <2>1. ~(m < n) /\ ~(n < m)
      BY <1>1, <1>2, <1>3, <1>4 DEF NodesInOrder
    <2> QED
      BY <1>2, <2>1
  <1> QED
    BY <1>1, <1>4 DEF OneNodePerKey, NeverSplit

(* The tree of objects has one node for each signature, and an object is   *)
(* counted with those that have its own, for any objects and any shape of  *)
(* the tree.                                                               *)
THEOREM OneNodePerSignature == TSpec => [](tree = "fjs_tree" => OneNodePerKey)
  <1>1. TreeInv => (tree = "fjs_tree" => OneNodePerKey)
    BY OrderedOnce DEF Comparable
  <1> QED
    BY <1>1, TreeInvHolds, PTL

(* Both trees have, if no two definitions are so far apart that the        *)
(* difference of their addresses is cut when it becomes an int.            *)
THEOREM OneNode ==
    ASSUME NearInfos
    PROVE  TSpec => []OneNodePerKey
  <1>1. TreeInv => OneNodePerKey
    BY OrderedOnce DEF Comparable
  <1> QED
    BY <1>1, TreeInvHolds, PTL
=============================================================================
