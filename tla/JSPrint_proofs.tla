--------------------------- MODULE JSPrint_proofs ---------------------------
(***************************************************************************)
(* Proofs that ::jsprint prints what it should, for any values in the      *)
(* target, any command and a first buffer of any size.                     *)
(*                                                                         *)
(* What should be printed is defined by recursion over the depth           *)
(* (Rendered), over the properties and elements (FlattenSeq) and over the  *)
(* steps of a path (Trail): the first part shows that functions exist that *)
(* satisfy these definitions.  The second part says what frames can be on  *)
(* the stack and under each other, and that whatever a path leads to is    *)
(* found.  The third says what each frame has still to print: unless the   *)
(* buffer is full, or about to be, it has what comes before.               *)
(***************************************************************************)
EXTENDS JSPrint, SequenceTheorems, FiniteSetTheorems, WellFoundedInduction, TLAPS

-----------------------------------------------------------------------------
(* Recursive functions.                                                    *)

LEMMA Least ==
    ASSUME NEW T, T \subseteq Nat, T # {}
    PROVE  \E x \in T : \A y \in T : x <= y
  <1> DEFINE R == OpToRel(<, Nat)
  <1>1. IsWellFoundedOn(R, Nat)
    BY NatLessThanWellFounded
  <1>2. \A x, y \in Nat : y < x => <<y, x>> \in R
    BY DEF OpToRel
  <1> HIDE DEF R
  <1>3. PICK x \in T : \A y \in T : ~ (<<y, x>> \in R)
    BY <1>1, WFMin
  <1>4. \A y \in T : ~ (y < x)
    BY <1>2, <1>3, Zenon
  <1> QED
    BY <1>4

\* g takes the first n steps of a recursion from base
Steps(g, base, step, n) == g[0] = base /\ \A i \in 1..n : g[i] = step[i][g[i - 1]]

LEMMA StepsExist ==
    ASSUME NEW V, NEW base \in V, NEW step \in [Nat -> [V -> V]], NEW n \in Nat
    PROVE  \E g \in [Nat -> V] : Steps(g, base, step, n)
  <1> DEFINE T == {j \in Nat : ~ \E g \in [Nat -> V] : Steps(g, base, step, j)}
  <1> SUFFICES ASSUME T # {} PROVE FALSE
    OBVIOUS
  <1>0. T \subseteq Nat
    OBVIOUS
  <1>1. PICK j \in T : \A k \in T : j <= k
    BY <1>0, Least
  <1>2. j \in Nat /\ ~ \E g \in [Nat -> V] : Steps(g, base, step, j)
    OBVIOUS
  <1>3. CASE j = 0
    <2> DEFINE g == [i \in Nat |-> base]
    <2>1. g \in [Nat -> V] /\ Steps(g, base, step, 0)
      BY DEF Steps
    <2> QED
      BY <1>2, <1>3, <2>1
  <1>4. CASE j # 0
    <2>1. j - 1 \in Nat /\ ~(j <= j - 1)
      BY <1>2, <1>4
    <2>2. PICK g \in [Nat -> V] : Steps(g, base, step, j - 1)
      BY <1>1, <2>1
    <2> DEFINE h == [i \in Nat |-> IF i = j THEN step[j][g[j - 1]] ELSE g[i]]
    <2>3. h \in [Nat -> V]
      BY <1>2, <2>1
    <2>4. h[0] = base
      BY <1>4, <2>2 DEF Steps
    <2>5. ASSUME NEW i \in 1..j PROVE h[i] = step[i][h[i - 1]]
      <3>1. i \in Nat /\ i - 1 \in Nat /\ i - 1 # j
        BY <1>2
      <3>2. CASE i = j
        BY <3>1, <3>2
      <3>3. CASE i # j
        <4>1. i \in 1..(j - 1)
          BY <1>2, <3>3
        <4>2. g[i] = step[i][g[i - 1]]
          BY <2>2, <4>1 DEF Steps
        <4> QED
          BY <3>1, <3>3, <4>2
      <3> QED
        BY <3>2, <3>3
    <2> QED
      BY <1>2, <2>3, <2>4, <2>5 DEF Steps
  <1> QED
    BY <1>3, <1>4

(* A recursive definition by steps 0, ..., n is met by a function.         *)
LEMMA DepthRecursion ==
    ASSUME NEW V, NEW base \in V, NEW step \in [Nat -> [V -> V]], NEW n \in Nat
    PROVE  \E f \in [0..n -> V] : Steps(f, base, step, n)
  <1>1. PICK g \in [Nat -> V] : Steps(g, base, step, n)
    BY StepsExist
  <1> DEFINE f == [d \in 0..n |-> g[d]]
  <1>2. f \in [0..n -> V] /\ f[0] = base
    BY <1>1 DEF Steps
  <1>3. ASSUME NEW d \in 1..n PROVE f[d] = step[d][f[d - 1]]
    <2>1. d \in 0..n /\ d - 1 \in 0..n
      OBVIOUS
    <2>2. g[d] = step[d][g[d - 1]]
      BY <1>1 DEF Steps
    <2> QED
      BY <2>1, <2>2
  <1> HIDE DEF f
  <1> QED
    BY <1>2, <1>3 DEF Steps

(* Parts joined from the i-th on.                                          *)
IsJoined(F, parts, T) ==
    /\ F \in [1..(Len(parts) + 1) -> T]
    /\ F[Len(parts) + 1] = <<>>
    /\ \A i \in 1..Len(parts) : F[i] = parts[i] \o F[i + 1]

LEMMA JoinedExists ==
    ASSUME NEW S, NEW parts \in Seq(Seq(S))
    PROVE  \E F : IsJoined(F, parts, Seq(S))
  <1> DEFINE V == Seq(S)
             n == Len(parts)
             step == [i \in Nat |-> [x \in V |-> IF i \in 1..n THEN parts[n + 1 - i] \o x ELSE x]]
  <1>1. n \in Nat
    OBVIOUS
  <1>2. \A i \in 1..n : n + 1 - i \in 1..n /\ parts[n + 1 - i] \in V
    BY <1>1
  <1>3. step \in [Nat -> [V -> V]] /\ <<>> \in V
    <2>1. \A i \in Nat, x \in V : (IF i \in 1..n THEN parts[n + 1 - i] \o x ELSE x) \in V
      <3> TAKE i \in Nat, x \in V
      <3>1. CASE i \in 1..n
        BY <1>2, <3>1, ConcatProperties
      <3> QED
        BY <3>1
    <2> HIDE DEF n, V
    <2>2. step \in [Nat -> [V -> V]]
      BY <2>1
    <2> QED
      BY <2>2 DEF V
  <1>4. \A i \in 1..n, x \in V : step[i][x] = parts[n + 1 - i] \o x
    <2> HIDE DEF n, V
    <2> QED
      BY <1>1
  <1> HIDE DEF step
  <1>5. PICK f \in [0..n -> V] : Steps(f, <<>>, step, n)
    <2> HIDE DEF n, V
    <2> QED
      BY <1>1, <1>3, DepthRecursion
  <1> DEFINE F == [i \in 1..(n + 1) |-> f[n + 1 - i]]
  <1>6. \A i \in 1..(n + 1) : n + 1 - i \in 0..n
    BY <1>1
  <1>7. F \in [1..(n + 1) -> V]
    <2> HIDE DEF V
    <2> QED
      BY <1>5, <1>6
  <1>8. F[n + 1] = <<>>
    <2>1. n + 1 \in 1..(n + 1) /\ n + 1 - (n + 1) = 0
      BY <1>1
    <2> QED
      BY <1>5, <2>1 DEF Steps
  <1>9. ASSUME NEW i \in 1..n PROVE F[i] = parts[i] \o F[i + 1]
    <2> DEFINE k == n + 1 - i
    <2>1. /\ k \in 1..n /\ k - 1 = n + 1 - (i + 1) /\ n + 1 - k = i /\ k - 1 \in 0..n
          /\ i \in 1..(n + 1) /\ i + 1 \in 1..(n + 1)
      BY <1>1
    <2>2. F[i] = f[k] /\ F[i + 1] = f[k - 1]
      BY <2>1
    <2> HIDE DEF k, F
    <2>3. f[k] = step[k][f[k - 1]] /\ f[k - 1] \in V
      BY <1>5, <2>1 DEF Steps
    <2> QED
      BY <1>4, <2>1, <2>2, <2>3
  <1> HIDE DEF F
  <1>10. IsJoined(F, parts, V)
    BY <1>7, <1>8, <1>9 DEF IsJoined
  <1> QED
    BY <1>10

LEMMA FlattenIs ==
    ASSUME NEW S, NEW parts \in Seq(Seq(S)), NEW F, IsJoined(F, parts, Seq(S))
    PROVE  FlattenSeq(parts) = F[1]
  <1> DEFINE V == Seq(S)
             n == Len(parts)
             Row(g, i) == IF i = 1 THEN parts[i] ELSE g[i - 1] \o parts[i]
             flatten == CHOOSE g : g = [i \in 1..n |-> Row(g, i)]
  <1>1. n \in Nat /\ (n = 0 => parts = <<>>) /\ \A i \in 1..n : parts[i] \in V
    OBVIOUS
  <1>0. /\ \A x, y, z \in V : (x \o y) \o z = x \o (y \o z)
        /\ \A x, y \in V : x \o y \in V
    BY ConcatAssociative, ConcatProperties
  <1>00. F[n + 1] = <<>> /\ \A i \in 1..n : F[i + 1] \in V /\ F[i] = parts[i] \o F[i + 1]
    <2>1. \A i \in 1..n : i + 1 \in 1..(n + 1)
      BY <1>1
    <2> QED
      BY <2>1 DEF IsJoined
  <1>2. CASE n = 0
    <2>1. F[1] = <<>>
      BY <1>2 DEF IsJoined
    <2> QED
      BY <1>1, <1>2, <2>1 DEF FlattenSeq
  <1>3. CASE n # 0
    <2>1. FlattenSeq(parts) = flatten[n]
      BY <1>3 DEF FlattenSeq
    <2> DEFINE m == n - 1
               step == [i \in Nat |-> [x \in V |-> IF i \in 1..m THEN x \o parts[i + 1] ELSE x]]
    <2>2. m \in Nat /\ 1 \in 1..n /\ \A i \in 1..m : i + 1 \in 1..n
      BY <1>1, <1>3
    <2>3. step \in [Nat -> [V -> V]] /\ parts[1] \in V
      <3>1. \A i \in Nat, x \in V : (IF i \in 1..m THEN x \o parts[i + 1] ELSE x) \in V
        <4> TAKE i \in Nat, x \in V
        <4>1. CASE i \in 1..m
          BY <1>1, <2>2, <4>1, ConcatProperties
        <4> QED
          BY <4>1
      <3>2. parts[1] \in V
        BY <1>1, <2>2
      <3> HIDE DEF m, V
      <3> QED
        BY <3>1, <3>2
    <2>4. \A i \in 1..m, x \in V : step[i][x] = x \o parts[i + 1]
      <3> HIDE DEF m, V
      <3> QED
        BY <2>2
    <2> HIDE DEF step
    <2>5. PICK f \in [0..m -> V] : Steps(f, parts[1], step, m)
      <3> HIDE DEF m, V
      <3> QED
        BY <2>2, <2>3, DepthRecursion
    <2> DEFINE g == [i \in 1..n |-> f[i - 1]]
    <2>6. \A i \in 1..n : g[i] = Row(g, i)
      <3> TAKE i \in 1..n
      <3>1. CASE i = 1
        <4>1. g[i] = f[0]
          BY <2>2, <3>1
        <4> QED
          BY <2>5, <3>1, <4>1 DEF Steps
      <3>2. CASE i # 1
        <4>1. i - 1 \in 1..m /\ i - 1 \in 1..n /\ (i - 1) + 1 = i /\ (i - 1) - 1 \in 0..m
          BY <1>1, <3>2
        <4>2. g[i] = f[i - 1] /\ g[i - 1] = f[(i - 1) - 1]
          BY <4>1
        <4>3. f[i - 1] = step[i - 1][f[(i - 1) - 1]] /\ f[(i - 1) - 1] \in V
          BY <2>5, <4>1 DEF Steps
        <4> HIDE DEF g, m, V
        <4>4. step[i - 1][g[i - 1]] = g[i - 1] \o parts[i]
          BY <2>4, <4>1, <4>2, <4>3
        <4> QED
          BY <3>2, <4>2, <4>3, <4>4
      <3> QED
        BY <3>1, <3>2
    <2>7. g = [i \in 1..n |-> Row(g, i)]
      <3>1. g = [i \in 1..n |-> g[i]]
        OBVIOUS
      <3> HIDE DEF g, Row
      <3> QED
        BY <2>6, <3>1
    <2>8. flatten = [i \in 1..n |-> Row(flatten, i)]
      <3> HIDE DEF g, n
      <3> QED
        BY <2>7
    <2> HIDE DEF flatten, g, m
    <2>9. \A i \in 1..n : flatten[i] = Row(flatten, i)
      <3> HIDE DEF Row
      <3> QED
        BY <2>8
    <2> DEFINE T == {i \in 1..n : ~ (flatten[i] \in V /\ flatten[i] \o F[i + 1] = F[1])}
    <2>10. T = {}
      <3> SUFFICES ASSUME T # {} PROVE FALSE
        OBVIOUS
      <3>1. T \subseteq Nat
        <4>1. 1..n \subseteq Nat
          BY <1>1
        <4>2. \A x \in T : x \in 1..n
          OBVIOUS
        <4> HIDE DEF T
        <4> QED
          BY <4>1, <4>2
      <3>2. PICK i \in T : \A k \in T : i <= k
        <4> HIDE DEF T
        <4> QED
          BY <3>1, Least
      <3>3. i \in 1..n /\ F[i + 1] \in V /\ F[i] = parts[i] \o F[i + 1] /\ parts[i] \in V
        <4>1. i \in 1..n
          OBVIOUS
        <4> QED
          BY <1>1, <1>00, <4>1
      <3>6. ~ (flatten[i] \in V /\ flatten[i] \o F[i + 1] = F[1])
        OBVIOUS
      <3>4. CASE i = 1
        <4>1. flatten[1] = parts[1]
          BY <2>2, <2>9
        <4> QED
          BY <3>3, <3>4, <3>6, <4>1
      <3>5. CASE i # 1
        <4>1. i - 1 \in 1..n /\ (i - 1) + 1 = i /\ ~(i <= i - 1)
          BY <1>1, <3>3, <3>5
        <4>2. flatten[i - 1] \in V /\ flatten[i - 1] \o F[i] = F[1]
          BY <3>2, <4>1
        <4>3. flatten[i] = flatten[i - 1] \o parts[i]
          BY <2>9, <3>3, <3>5
        <4>4. (flatten[i - 1] \o parts[i]) \o F[i + 1] = flatten[i - 1] \o (parts[i] \o F[i + 1])
          BY <1>0, <3>3, <4>2
        <4>5. flatten[i] \in V
          BY <1>0, <3>3, <4>2, <4>3
        <4> QED
          BY <3>3, <3>6, <4>2, <4>3, <4>4, <4>5
      <3> QED
        BY <3>3, <3>4, <3>5
    <2>11. n \in 1..n
      BY <1>1, <1>3
    <2>12. flatten[n] \in V /\ flatten[n] \o F[n + 1] = F[1]
      BY <2>10, <2>11
    <2>13. F[n + 1] = <<>>
      BY DEF IsJoined
    <2>14. \A x \in V : x \o <<>> = x
      OBVIOUS
    <2> QED
      BY <2>1, <2>12, <2>13, <2>14
  <1> QED
    BY <1>2, <1>3

LEMMA FlattenTyped ==
    ASSUME NEW S, NEW parts \in Seq(Seq(S))
    PROVE  FlattenSeq(parts) \in Seq(S)
  <1>1. PICK F : IsJoined(F, parts, Seq(S))
    BY JoinedExists
  <1>2. Len(parts) \in Nat
    OBVIOUS
  <1>3. 1 \in 1..(Len(parts) + 1)
    BY <1>2
  <1>4. F[1] \in Seq(S)
    BY <1>1, <1>3 DEF IsJoined
  <1> QED
    BY <1>1, <1>4, FlattenIs

-----------------------------------------------------------------------------
(* What should be printed.                                                 *)

PathStep == [at : {"name", "index"}, name : STRING, index : Nat]
Path == Seq(PathStep)
Marks == {"{", "}", "[", "]", ",", "[...]", "failed", "undefined"}
Pieces == STRING \cup Values \cup Marks
Texts == Seq(Pieces)
Jsop == [depth : Nat, member : Path, nprops : Nat, found : BOOLEAN, descended : BOOLEAN]

LEMMA TextsJoin ==
    /\ \A s, t \in Texts : s \o t \in Texts
    /\ \A s, t, u \in Texts : (s \o t) \o u = s \o (t \o u)
    /\ \A s \in Texts : s \o <<>> = s /\ <<>> \o s = s
    /\ <<>> \in Texts
  <1>1. \A s, t \in Texts : s \o t \in Texts
    BY ConcatProperties DEF Texts
  <1>2. \A s, t, u \in Texts : (s \o t) \o u = s \o (t \o u)
    BY ConcatAssociative DEF Texts
  <1>3. \A s \in Texts : s \o <<>> = s /\ <<>> \o s = s
    BY DEF Texts
  <1>4. <<>> \in Texts
    BY DEF Texts
  <1> QED
    BY <1>1, <1>2, <1>3, <1>4

LEMMA PiecesText ==
    /\ \A x \in Pieces : <<x>> \in Texts /\ <<x>> # <<>>
    /\ \A x \in Marks : <<x>> \in Texts
    /\ \A x \in STRING : <<x>> \in Texts
    /\ \A x \in Values : <<x>> \in Texts
    /\ \A t \in Seq(STRING) : t \in Texts
    /\ \A x, y \in Pieces : <<x, y>> \in Texts /\ <<x, y>> = <<x>> \o <<y>>
  <1>1. Values \subseteq Pieces /\ STRING \subseteq Pieces /\ Marks \subseteq Pieces
    BY DEF Pieces
  <1>2. \A t \in Seq(STRING) : t \in Texts
    BY <1>1, SeqMonotonic DEF Texts
  <1>3. \A x \in Pieces : <<x>> \in Texts /\ <<x>> # <<>>
    BY DEF Texts
  <1>4. \A x, y \in Pieces : <<x, y>> \in Texts /\ <<x, y>> = <<x>> \o <<y>>
    <2> TAKE x \in Pieces, y \in Pieces
    <2>1. <<x>> \in Seq(Pieces) /\ <<y>> \in Seq(Pieces) /\ <<x, y>> \in Seq(Pieces)
      OBVIOUS
    <2> DEFINE s == <<x>> \o <<y>>
               t == <<x, y>>
    <2>2. s \in Seq(Pieces) /\ Len(s) = 2 /\ s[1] = x /\ s[2] = y
      BY <2>1
    <2>3. t \in Seq(Pieces) /\ Len(t) = 2 /\ t[1] = x /\ t[2] = y
      BY <2>1
    <2> HIDE DEF s, t
    <2>4. \A i \in 1..2 : s[i] = t[i]
      BY <2>2, <2>3
    <2>5. s = t
      BY <2>2, <2>3, <2>4, SeqEqual
    <2> QED
      BY <2>3, <2>5 DEF s, t, Texts
  <1> QED
    BY <1>1, <1>2, <1>3, <1>4

LEMMA MarksAre ==
    \A x \in {"{", "}", "[", "]", ",", "[...]", "failed", "undefined"} :
       x \in Marks /\ x \in Pieces /\ <<x>> \in Texts /\ <<x>> # <<>>
  BY PiecesText DEF Marks, Pieces

Prop == [name : STRING, val : Values]

LEMMA SeqItem == ASSUME NEW S, NEW s \in Seq(S) PROVE \A i \in 1..Len(s) : s[i] \in S
  OBVIOUS

LEMMA HeapTyped ==
    ASSUME NEW v \in Values
    PROVE  /\ Heap[v] \in Value
           /\ Heap[v].kind \in {"plain", "scalar", "string", "named", "object", "array"}
           /\ Heap[v].head \in Texts /\ Heap[v].text \in Texts /\ Heap[v].rv \in {0, 1, -1}
           /\ Heap[v].props \in Seq(Prop)
           /\ Heap[v].words \in Seq(Values) /\ Heap[v].length \in Nat
           /\ Heap[v].bad \subseteq 0..(Len(Heap[v].words) - 1)
           /\ \A i, j \in DOMAIN Heap[v].props :
                 Heap[v].props[i].name = Heap[v].props[j].name => i = j
  <1>1. Heap[v] \in Value
    BY PrintAssumption
  <1>2. Heap[v].head \in Seq(STRING) /\ Heap[v].text \in Seq(STRING)
    BY <1>1 DEF Value
  <1>3. Heap[v].bad \subseteq 0..(Len(Heap[v].words) - 1)
    BY PrintAssumption
  <1>4. \A i, j \in DOMAIN Heap[v].props :
           Heap[v].props[i].name = Heap[v].props[j].name => i = j
    BY PrintAssumption
  <1>5. Heap[v].head \in Texts /\ Heap[v].text \in Texts
    BY <1>2, PiecesText
  <1> QED
    BY <1>1, <1>3, <1>4, <1>5 DEF Value, Prop

LEMMA CommandTyped ==
    ASSUME NEW c \in Command
    PROVE  /\ c.root \in Values /\ c.args \in Seq(Path) /\ c.depth \in Nat
           /\ c.a \in BOOLEAN /\ c.b \in BOOLEAN /\ c.limit \in Nat
  BY DEF Command, Path, PathStep

(* The elements that should be printed are the first ones, up to the end   *)
(* of the array or of its FixedArray, or to the first page with a word     *)
(* that can't be read.                                                     *)
Lost(x) == {k \in 0..Len(x.words) : (Page * k)..(Page * k + Page - 1) \cap x.bad # {}}
Ends(x) == {x.length, Len(x.words)} \cup {Page * k : k \in Lost(x)}

LEMMA ElementsIs ==
    ASSUME NEW v \in Values
    PROVE  LET x == Heap[v]
               m == Len(Elements(x))
           IN  /\ Elements(x) \in Seq(Values) /\ m \in Nat
               /\ m \in Ends(x) /\ m <= x.length /\ m <= Len(x.words)
               /\ \A k \in Lost(x) : m <= Page * k
               /\ \A i \in 1..m : Elements(x)[i] = x.words[i]
  <1> DEFINE x == Heap[v]
             m == Min(Ends(x))
  <1>1. x.words \in Seq(Values) /\ Len(x.words) \in Nat /\ x.length \in Nat
    BY HeapTyped
  <1>2. \A k \in Lost(x) : Page * k \in Nat
    <2>1. \A k \in Lost(x) : k \in Nat
      BY <1>1 DEF Lost
    <2>2. \A k, l \in Nat : k * l \in Nat
      OBVIOUS
    <2> QED
      BY <2>1, <2>2, PageAssumption
  <1>3. Ends(x) \subseteq Nat /\ Len(x.words) \in Ends(x) /\ x.length \in Ends(x)
    BY <1>1, <1>2 DEF Ends
  <1>4. m \in Ends(x) /\ \A y \in Ends(x) : m <= y
    <2>1. \E z \in Ends(x) : \A y \in Ends(x) : z <= y
      BY <1>3, Least
    <2> QED
      BY <2>1 DEF Min
  <1>5. \A k \in Lost(x) : Page * k \in Ends(x)
    BY DEF Ends
  <1>6. Elements(x) = SubSeq(x.words, 1, m)
    BY DEF Elements, Ends, Lost
  <1> HIDE DEF m, x
  <1>7. m \in Nat /\ m <= Len(x.words) /\ m <= x.length
    BY <1>3, <1>4
  <1>8. /\ SubSeq(x.words, 1, m) \in Seq(Values) /\ Len(SubSeq(x.words, 1, m)) = m
        /\ \A i \in 1..m : SubSeq(x.words, 1, m)[i] = x.words[i]
    BY <1>1, <1>7
  <1> QED
    BY <1>4, <1>5, <1>6, <1>7, <1>8 DEF x

Inside == [Values -> Texts]

LEMMA CutTyped ==
    ASSUME NEW t \in Texts, NEW n \in Nat, n <= Len(t)
    PROVE  Cut(t, n) \in Texts
  <1>1. CASE n = 0
    BY <1>1, TextsJoin DEF Cut
  <1>2. CASE n # 0
    <2>1. n - 1 \in Nat /\ n - 1 <= Len(t) /\ Len(t) \in Nat
      BY <1>2 DEF Texts
    <2>2. SubSeq(t, 1, n - 1) \in Texts
      BY <2>1 DEF Texts
    <2>3. <<"[...]">> \in Texts
      BY MarksAre
    <2> QED
      BY <1>2, <2>2, <2>3, TextsJoin DEF Cut
  <1> QED
    BY <1>1, <1>2

LEMMA LimitedTyped ==
    ASSUME NEW c \in Command, NEW t \in Texts
    PROVE  Limited(c, t) \in Texts
  <1>1. c.limit \in Nat /\ Len(t) \in Nat
    BY CommandTyped DEF Texts
  <1>2. CASE c.limit = 0 \/ Len(t) < c.limit
    BY <1>2 DEF Limited
  <1>3. CASE ~(c.limit = 0 \/ Len(t) < c.limit)
    <2>1. c.limit - 1 \in Nat /\ c.limit - 1 <= Len(t)
      BY <1>1, <1>3
    <2> QED
      BY <1>3, <2>1, CutTyped DEF Limited
  <1> QED
    BY <1>2, <1>3

LEMMA AddressesTyped ==
    ASSUME NEW c \in Command, NEW v \in Values, NEW n
    PROVE  Addresses(c, v, n) \in Texts
  <1>1. <<c.root>> \in Texts /\ <<v>> \in Texts /\ <<>> \in Texts
    BY CommandTyped, PiecesText, TextsJoin
  <1> QED
    BY <1>1, TextsJoin DEF Addresses

LEMMA PropertiesTyped ==
    ASSUME NEW v \in Values, NEW f \in Inside
    PROVE  /\ Properties(Heap[v], f) \in Seq(Texts)
           /\ Len(Properties(Heap[v], f)) = Len(Heap[v].props)
           /\ \A i \in 1..Len(Heap[v].props) : LET p == Heap[v].props[i] IN
                 /\ p.val \in Values /\ p.name \in STRING
                 /\ <<p.name>> \in Texts /\ f[p.val] \in Texts /\ <<",">> \in Texts
                 /\ Properties(Heap[v], f)[i] = <<p.name>> \o f[p.val] \o <<",">>
  <1> DEFINE ps == Heap[v].props
             Part(i) == <<ps[i].name>> \o f[ps[i].val] \o <<",">>
  <1>0. ps \in Seq(Prop)
    BY HeapTyped
  <1>1. Len(ps) \in Nat /\ DOMAIN ps = 1..Len(ps)
    <2> HIDE DEF ps
    <2> QED
      BY <1>0
  <1>2. \A i \in 1..Len(ps) : ps[i].val \in Values /\ ps[i].name \in STRING
    <2> HIDE DEF ps
    <2>1. \A i \in 1..Len(ps) : ps[i] \in Prop
      BY <1>0, SeqItem
    <2> QED
      BY <2>1 DEF Prop
  <1>3. \A i \in 1..Len(ps) : <<ps[i].name>> \in Texts /\ f[ps[i].val] \in Texts
    BY <1>2, PiecesText DEF Inside
  <1>4. <<",">> \in Texts
    BY MarksAre
  <1>5. Properties(Heap[v], f) = [i \in 1..Len(ps) |-> Part(i)]
    BY <1>1 DEF Properties
  <1>6. \A i \in 1..Len(ps) : Part(i) \in Texts
    BY <1>3, <1>4, TextsJoin
  <1> HIDE DEF Part, ps
  <1>7. /\ Properties(Heap[v], f) \in Seq(Texts) /\ Len(Properties(Heap[v], f)) = Len(ps)
        /\ \A i \in 1..Len(ps) : Properties(Heap[v], f)[i] = Part(i)
    BY <1>1, <1>5, <1>6
  <1> QED
    BY <1>2, <1>3, <1>4, <1>7 DEF Part, ps

LEMMA MembersTyped ==
    ASSUME NEW v \in Values, NEW f \in Inside
    PROVE  LET es == Elements(Heap[v])
               comma == IF Heap[v].length = 1 THEN <<>> ELSE <<",">>
           IN  /\ Members(Heap[v], f) \in Seq(Texts)
               /\ Len(Members(Heap[v], f)) = Len(es)
               /\ comma \in Texts
               /\ \A i \in 1..Len(es) :
                     /\ es[i] \in Values /\ f[es[i]] \in Texts
                     /\ Members(Heap[v], f)[i] = f[es[i]] \o comma
  <1> DEFINE es == Elements(Heap[v])
             comma == IF Heap[v].length = 1 THEN <<>> ELSE <<",">>
             Part(i) == f[es[i]] \o comma
  <1>1. es \in Seq(Values) /\ Len(es) \in Nat /\ DOMAIN es = 1..Len(es)
    BY ElementsIs
  <1>2. \A i \in 1..Len(es) : es[i] \in Values /\ f[es[i]] \in Texts
    BY <1>1 DEF Inside
  <1>3. comma \in Texts
    BY MarksAre, TextsJoin
  <1>4. Members(Heap[v], f) = [i \in 1..Len(es) |-> Part(i)]
    BY <1>1 DEF Members
  <1>5. \A i \in 1..Len(es) : Part(i) \in Texts
    BY <1>2, <1>3, TextsJoin
  <1> HIDE DEF Part, es, comma
  <1>6. /\ Members(Heap[v], f) \in Seq(Texts) /\ Len(Members(Heap[v], f)) = Len(es)
        /\ \A i \in 1..Len(es) : Members(Heap[v], f)[i] = Part(i)
    BY <1>1, <1>4, <1>5
  <1> QED
    BY <1>2, <1>3, <1>6 DEF Part, es, comma

LEMMA ContentsTyped ==
    ASSUME NEW c \in Command, NEW v \in Values, NEW d \in Nat, NEW f \in Inside
    PROVE  Contents(c, Heap[v], d, f) \in Texts
  <1> DEFINE x == Heap[v]
  <1>1. x.text \in Texts /\ Limited(c, x.text) \in Texts /\ x.head \o x.text \in Texts
    BY HeapTyped, LimitedTyped, TextsJoin
  <1>2. \A s \in {"[...]", "{", "}", "[", "]"} : <<s>> \in Texts
    BY MarksAre
  <1>3. FlattenSeq(Properties(x, f)) \in Texts /\ FlattenSeq(Members(x, f)) \in Texts
    BY PropertiesTyped, MembersTyped, FlattenTyped DEF Texts
  <1>4. /\ (IF x.props # <<>> \/ x.rv = 0 THEN <<"{">> ELSE <<>>) \in Texts
        /\ (IF x.rv = 0 THEN <<"}">> ELSE <<>>) \in Texts
    BY <1>2, TextsJoin
  <1>5. /\ <<"[">> \o FlattenSeq(Members(x, f)) \o <<"]">> \in Texts
        /\ (IF x.props # <<>> \/ x.rv = 0 THEN <<"{">> ELSE <<>>)
             \o FlattenSeq(Properties(x, f)) \o (IF x.rv = 0 THEN <<"}">> ELSE <<>>) \in Texts
    BY <1>2, <1>3, <1>4, TextsJoin
  <1> HIDE DEF x
  <1> QED
    BY <1>1, <1>2, <1>5, TextsJoin DEF Contents, x

NotInside == [w \in Values |-> <<>>]
Shown(c, n, d, f) == [v \in Values |-> Addresses(c, v, n) \o Contents(c, Heap[v], d, f)]
ShownWith(r, c, n, d) == Shown(c, n, d, IF d = 0 THEN NotInside ELSE r[d - 1])

LEMMA RenderedIs ==
    ASSUME NEW c \in Command, NEW n
    PROVE  /\ Rendered(c, n) \in [0..c.depth -> Inside]
           /\ \A d \in 0..c.depth : Rendered(c, n)[d] = ShownWith(Rendered(c, n), c, n, d)
  <1> DEFINE D == c.depth
             step == [d \in Nat |-> [f \in Inside |-> Shown(c, n, d, f)]]
             base == Shown(c, n, 0, NotInside)
             r == Rendered(c, n)
  <1>0. D \in Nat
    BY CommandTyped
  <1>1. \A d \in Nat, f \in Inside : Shown(c, n, d, f) \in Inside
    <2> TAKE d \in Nat, f \in Inside
    <2>1. \A v \in Values : Addresses(c, v, n) \o Contents(c, Heap[v], d, f) \in Texts
      BY AddressesTyped, ContentsTyped, TextsJoin
    <2> QED
      BY <2>1 DEF Shown, Inside
  <1>2. NotInside \in Inside
    BY TextsJoin DEF NotInside, Inside
  <1>3. base \in Inside /\ step \in [Nat -> [Inside -> Inside]]
    BY <1>1, <1>2
  <1>4. \A d \in Nat, f \in Inside : step[d][f] = Shown(c, n, d, f)
    OBVIOUS
  <1> HIDE DEF step, D
  <1>5. PICK g \in [0..D -> Inside] : Steps(g, base, step, D)
    BY <1>0, <1>3, DepthRecursion
  <1>6. \A d \in 0..D : g[d] = ShownWith(g, c, n, d)
    <2> TAKE d \in 0..D
    <2>1. CASE d = 0
      BY <1>5, <2>1 DEF Steps, ShownWith
    <2>2. CASE d # 0
      <3>1. d \in 1..D /\ d \in Nat /\ d - 1 \in 0..D
        BY <1>0, <2>2
      <3>2. g[d] = step[d][g[d - 1]] /\ g[d - 1] \in Inside
        BY <1>5, <3>1 DEF Steps
      <3> QED
        BY <1>4, <2>2, <3>1, <3>2 DEF ShownWith
    <2> QED
      BY <2>1, <2>2
  <1>7. g = [d \in 0..D |-> ShownWith(g, c, n, d)]
    <2>1. g = [d \in 0..D |-> g[d]]
      BY <1>5
    <2> QED
      BY <1>6, <2>1
  <1>8. r = CHOOSE h : h = [d \in 0..D |-> ShownWith(h, c, n, d)]
    BY DEF Rendered, ShownWith, Shown, NotInside, D
  <1> HIDE DEF r
  <1>9. r = [d \in 0..D |-> ShownWith(r, c, n, d)]
    BY <1>7, <1>8
  <1>10. \A d \in 0..D : r[d] = ShownWith(r, c, n, d)
    BY <1>9
  <1> DEFINE T == {d \in 0..D : r[d] \notin Inside}
  <1>11. T = {}
    <2> SUFFICES ASSUME T # {} PROVE FALSE
      OBVIOUS
    <2>1. T \subseteq Nat
      BY <1>0
    <2>2. PICK d \in T : \A e \in T : d <= e
      <3> HIDE DEF T
      <3> QED
        BY <2>1, Least
    <2>3. d \in 0..D /\ d \in Nat /\ r[d] \notin Inside
      BY <1>0
    <2>4. CASE d = 0
      BY <1>1, <1>2, <1>10, <2>3, <2>4 DEF ShownWith
    <2>5. CASE d # 0
      <3>1. d - 1 \in 0..D /\ ~(d <= d - 1)
        BY <1>0, <2>3, <2>5
      <3>2. r[d - 1] \in Inside
        BY <2>2, <3>1
      <3> QED
        BY <1>1, <1>10, <2>3, <2>5, <3>2 DEF ShownWith
    <2> QED
      BY <2>4, <2>5
  <1>12. r \in [0..D -> Inside]
    <2>1. \A d \in 0..D : r[d] \in Inside
      BY <1>11
    <2> QED
      BY <1>9, <2>1
  <1> QED
    BY <1>10, <1>12 DEF r, D

(* Where paths lead.                                                       *)
LEMMA GoesTyped ==
    ASSUME NEW v \in Values \cup {Nowhere}, NEW step \in PathStep
    PROVE  Goes(v, step) \in Values \cup {Nowhere}
  <1> DEFINE x == Heap[v]
             I == {i \in DOMAIN x.props : Matches(step, x.props[i].name)}
             k == CHOOSE i \in DOMAIN x.props : Matches(step, x.props[i].name)
  <1>1. CASE v = Nowhere
    BY <1>1 DEF Goes
  <1>2. CASE v # Nowhere
    <2>1. v \in Values /\ x.words \in Seq(Values) /\ x.props \in Seq(Prop)
      BY <1>2, HeapTyped
    <2>2. CASE x.kind = "array" /\ Indexes(step, x)
      <3>1. Goes(v, step) = x.words[step.index + 1]
        BY <1>2, <2>2 DEF Goes
      <3>2. step.index \in Nat /\ step.index < Len(x.words)
        BY <2>2 DEF Indexes, PathStep
      <3>3. step.index + 1 \in 1..Len(x.words)
        BY <2>1, <3>2
      <3> QED
        BY <2>1, <3>1, <3>3, SeqItem
    <2>3. CASE ~(x.kind = "array" /\ Indexes(step, x)) /\ x.kind = "object" /\ I # {}
      <3>1. Goes(v, step) = x.props[k].val
        BY <1>2, <2>3 DEF Goes
      <3>2. k \in DOMAIN x.props
        BY <2>3
      <3>3. k \in 1..Len(x.props)
        BY <2>1, <3>2
      <3>4. x.props[k] \in Prop
        BY <2>1, <3>3, SeqItem
      <3> QED
        BY <3>1, <3>4 DEF Prop
    <2>4. CASE ~(x.kind = "array" /\ Indexes(step, x)) /\ ~(x.kind = "object" /\ I # {})
      BY <1>2, <2>4 DEF Goes
    <2> QED
      BY <2>2, <2>3, <2>4
  <1> QED
    BY <1>1, <1>2

LEMMA TrailIs ==
    ASSUME NEW c \in Command, NEW path \in Path
    PROVE  LET t == Trail(c, path)
               n == Len(path)
           IN  /\ n \in Nat /\ t[0] = c.root
               /\ \A i \in 0..n : t[i] \in Values \cup {Nowhere}
               /\ \A i \in 1..n : t[i] = Goes(t[i - 1], path[i]) /\ path[i] \in PathStep
               /\ Destination(c, path) = t[n]
               /\ t[n] # Nowhere => \A i \in 0..n : t[i] \in Values
  <1> DEFINE V == Values \cup {Nowhere}
             n == Len(path)
             t == Trail(c, path)
             step == [i \in Nat |-> [x \in V |-> IF i \in 1..n THEN Goes(x, path[i]) ELSE x]]
             Row(g, i) == IF i = 0 THEN c.root ELSE Goes(g[i - 1], path[i])
  <1>0. n \in Nat /\ c.root \in V
    BY CommandTyped DEF Path
  <1>1. \A i \in 1..n : path[i] \in PathStep
    BY SeqItem DEF Path
  <1>2. \A i \in Nat, x \in V : (IF i \in 1..n THEN Goes(x, path[i]) ELSE x) \in V
    BY <1>1, GoesTyped
  <1>3. step \in [Nat -> [V -> V]]
    <2> HIDE DEF V
    <2> QED
      BY <1>2
  <1>4. \A i \in 1..n, x \in V : step[i][x] = Goes(x, path[i])
    <2> HIDE DEF V, n
    <2> QED
      BY <1>0
  <1> HIDE DEF step, V, n
  <1>5. PICK g \in [0..n -> V] : Steps(g, c.root, step, n)
    BY <1>0, <1>3, DepthRecursion
  <1>6. \A i \in 0..n : g[i] = Row(g, i)
    <2> TAKE i \in 0..n
    <2>1. CASE i = 0
      BY <1>5, <2>1 DEF Steps
    <2>2. CASE i # 0
      <3>1. i \in 1..n /\ i - 1 \in 0..n
        BY <1>0, <2>2
      <3>2. g[i] = step[i][g[i - 1]] /\ g[i - 1] \in V
        BY <1>5, <3>1 DEF Steps
      <3> QED
        BY <1>4, <2>2, <3>1, <3>2
    <2> QED
      BY <2>1, <2>2
  <1>7. g = [i \in 0..n |-> Row(g, i)]
    <2>1. g = [i \in 0..n |-> g[i]]
      BY <1>5
    <2> HIDE DEF Row
    <2> QED
      BY <1>6, <2>1
  <1>8. t = CHOOSE h : h = [i \in 0..n |-> Row(h, i)]
    BY DEF Trail, n
  <1> HIDE DEF t
  <1>9. t = [i \in 0..n |-> Row(t, i)]
    BY <1>7, <1>8
  <1>10. t[0] = c.root /\ \A i \in 1..n : t[i] = Goes(t[i - 1], path[i])
    <2>1. \A i \in 0..n : t[i] = Row(t, i)
      <3> HIDE DEF Row
      <3> QED
        BY <1>9
    <2>2. 0 \in 0..n /\ \A i \in 1..n : i \in 0..n /\ i # 0
      BY <1>0
    <2> QED
      BY <2>1, <2>2
  <1> HIDE DEF Row
  <1> DEFINE T == {i \in 0..n : t[i] \notin V}
  <1>11. T = {}
    <2> SUFFICES ASSUME T # {} PROVE FALSE
      OBVIOUS
    <2>1. T \subseteq Nat
      BY <1>0
    <2>2. PICK i \in T : \A k \in T : i <= k
      <3> HIDE DEF T
      <3> QED
        BY <2>1, Least
    <2>3. i \in 0..n /\ t[i] \notin V /\ i # 0
      BY <1>0, <1>10
    <2>4. i \in 1..n /\ i - 1 \in 0..n /\ ~(i <= i - 1)
      BY <1>0, <2>3
    <2>5. t[i - 1] \in V
      BY <2>2, <2>4
    <2> QED
      BY <1>1, <1>10, <2>3, <2>4, <2>5, GoesTyped DEF V
  <1> DEFINE U == {k \in 0..n : t[n - k] = Nowhere}
  <1>12. ASSUME t[n] # Nowhere PROVE U = {}
    <2> SUFFICES ASSUME U # {} PROVE FALSE
      OBVIOUS
    <2>1. U \subseteq Nat
      BY <1>0
    <2>2. PICK k \in U : \A j \in U : k <= j
      <3> HIDE DEF U
      <3> QED
        BY <2>1, Least
    <2>3. k \in 0..n /\ t[n - k] = Nowhere /\ k # 0
      BY <1>0, <1>12
    <2>4. /\ k - 1 \in 0..n /\ ~(k <= k - 1) /\ n - (k - 1) \in 1..n
          /\ (n - (k - 1)) - 1 = n - k
      BY <1>0, <2>3
    <2>5. t[n - (k - 1)] # Nowhere
      BY <2>2, <2>4
    <2>6. t[n - (k - 1)] = Goes(t[n - k], path[n - (k - 1)])
      BY <1>10, <2>4
    <2> QED
      BY <2>3, <2>5, <2>6 DEF Goes
  <1>13. t[n] # Nowhere => \A i \in 0..n : t[i] \in Values
    <2> SUFFICES ASSUME t[n] # Nowhere, NEW i \in 0..n PROVE t[i] \in Values
      OBVIOUS
    <2>1. n - i \in 0..n /\ n - (n - i) = i
      BY <1>0
    <2>2. t[i] # Nowhere
      BY <1>12, <2>1
    <2> QED
      BY <1>11, <2>2 DEF V
  <1>14. Destination(c, path) = t[n]
    BY DEF Destination, t, n
  <1>15. \A i \in 0..n : t[i] \in Values \cup {Nowhere}
    BY <1>11 DEF V
  <1> QED
    BY <1>0, <1>1, <1>10, <1>13, <1>14, <1>15 DEF t, n

-----------------------------------------------------------------------------
(* The stack, while the command c prints for its member m.                 *)

PathOf(c, m) == IF c.args = <<>> THEN <<>> ELSE c.args[m]
Goal(c, m) == Destination(c, PathOf(c, m))
Leads(c, m) == Goal(c, m) # Nowhere

Iteration == [at : {"page", "element", "done"}, index : Nat, i : Nat, rv : {0, -1}]

Frame ==
    [op : {"value", "index"}, v : Values, jo : Jsop]
      \cup [op : {"props", "match"}, v : Values, jo : Jsop, i : Nat, after : BOOLEAN]
      \cup [op : {"elements"}, v : Values, jo : Jsop, after : BOOLEAN, sub : Jsop, it : Iteration]

\* v is where the steps lead that come before those in path
OnPath(c, m, v, path) ==
    \E k \in 0..Len(PathOf(c, m)) :
       /\ path = SubSeq(PathOf(c, m), k + 1, Len(PathOf(c, m)))
       /\ v = Trail(c, PathOf(c, m))[k]

(* Found is said of what is there, and has been said when it is printed.   *)
JsopOK(c, m, jo) ==
    /\ jo \in Jsop /\ jo.depth <= c.depth
    /\ jo.found => Leads(c, m)
    /\ jo.member = <<>> => Leads(c, m) /\ (PathOf(c, m) # <<>> => jo.found)
    /\ jo.member # <<>> => jo.depth = c.depth

Later(f) == {j \in f.i..Len(Heap[f.v].props) : Matches(f.jo.member[1], Heap[f.v].props[j].name)}

ArrayOf(v) == [length |-> Len(Heap[v].words), bad |-> Heap[v].bad, js |-> Heap[v].length]

\* how far an iteration has come
Reached(it) == IF it.at = "page" THEN it.index ELSE Position(it)

IterationOK(v, it) ==
    LET a == ArrayOf(v)
    IN  /\ it.at # "done" =>
              /\ \E k \in Nat : it.index = Page * k
              /\ it.index < a.length
              /\ \A j \in a.bad : j >= it.index
        /\ it.at = "page" => it.rv = 0
        /\ it.at = "element" =>
              /\ it.i <= PageLength(a, it)
              /\ \A j \in a.bad : j >= it.index + PageLength(a, it)
        /\ it.at # "done" /\ it.rv = 0 => Reached(it) <= Len(Elements(Heap[v]))

\* the callback runs
OnElement(v, it) ==
    /\ InPage(ArrayOf(v), it)
    /\ Position(it) < Len(Elements(Heap[v]))

PropsOK(f) ==
    /\ Heap[f.v].kind = "object" /\ f.jo.member = <<>> /\ f.jo.depth > 0
    /\ f.i \in 1..(Len(Heap[f.v].props) + 1) /\ f.jo.nprops = f.i - 1
    /\ f.after => f.i <= Len(Heap[f.v].props)

MatchOK(c, m, f) ==
    /\ Heap[f.v].kind = "object" /\ f.jo.member # <<>>
    /\ f.i \in 1..(Len(Heap[f.v].props) + 1)
    /\ f.after => f.i \in Later(f)
    /\ ~f.after /\ Leads(c, m) /\ Later(f) = {} => f.jo.found

IndexOK(f) ==
    /\ Heap[f.v].kind = "array" /\ f.jo.member # <<>>
    /\ Indexes(f.jo.member[1], Heap[f.v])

ElementsOK(c, m, f) ==
    /\ Heap[f.v].kind = "array" /\ Heap[f.v].length > 0 /\ Heap[f.v].rv = 0
    /\ f.jo.member = <<>> /\ f.jo.depth > 0
    /\ JsopOK(c, m, f.sub) /\ f.sub.member = <<>> /\ f.sub.depth = f.jo.depth - 1
    /\ IterationOK(f.v, f.it) /\ (f.after => OnElement(f.v, f.it))

FrameOK(c, m, f) ==
    /\ f \in Frame /\ JsopOK(c, m, f.jo)
    /\ f.jo.member # <<>> => OnPath(c, m, f.v, f.jo.member)
    /\ f.op = "props" => PropsOK(f)
    /\ f.op = "match" => MatchOK(c, m, f)
    /\ f.op = "index" => IndexOK(f)
    /\ f.op = "elements" => ElementsOK(c, m, f)

(* A frame that has made a call waits for it.                              *)
Waiting(f) == f.op = "index" \/ (f.op \in {"props", "match", "elements"} /\ f.after)

Callee(f) ==
    CASE f.op = "elements" -> Heap[f.v].words[Position(f.it) + 1]
      [] f.op = "index" -> Heap[f.v].words[f.jo.member[1].index + 1]
      [] OTHER -> Heap[f.v].props[f.i].val

\* a jsobj_print_t of what f has called
Under(jo, f) ==
    IF f.jo.member # <<>> THEN jo.member = Tail(f.jo.member) /\ jo.depth = f.jo.depth
    ELSE jo.member = <<>> /\ jo.depth = f.jo.depth - 1

Calling(e, f) == Waiting(f) /\ e.v = Callee(f) /\ Under(e.jo, f)

Outermost(c, m, jo) == jo.member = PathOf(c, m) /\ jo.depth = c.depth

StackOK(c, m, st) ==
    /\ st \in Seq(Frame)
    /\ \A k \in 1..Len(st) : FrameOK(c, m, st[k])
    /\ \A k \in 1..(Len(st) - 1) : Calling(st[k], st[k + 1])
    /\ st # <<>> => st[Len(st)].v = c.root /\ Outermost(c, m, st[Len(st)].jo)

LEMMA StackPushed ==
    ASSUME NEW S, NEW r \in Seq(S), NEW f \in S
    PROVE  /\ <<f>> \o r \in Seq(S) /\ <<f>> \o r # <<>>
           /\ (<<f>> \o r)[1] = f /\ Tail(<<f>> \o r) = r
           /\ Len(<<f>> \o r) = Len(r) + 1 /\ Len(r) \in Nat
           /\ \A k \in 1..Len(r) : (<<f>> \o r)[k + 1] = r[k]
  OBVIOUS

LEMMA StackPopped ==
    ASSUME NEW S, NEW s \in Seq(S), s # <<>>
    PROVE  /\ s[1] \in S /\ Tail(s) \in Seq(S) /\ Len(s) \in Nat /\ Len(s) >= 1
           /\ s = <<s[1]>> \o Tail(s) /\ Len(Tail(s)) = Len(s) - 1
           /\ \A k \in 1..(Len(s) - 1) : Tail(s)[k] = s[k + 1]
  <1>1. /\ s[1] \in S /\ Tail(s) \in Seq(S) /\ Len(s) \in Nat /\ Len(s) >= 1
        /\ Len(Tail(s)) = Len(s) - 1 /\ \A k \in 1..(Len(s) - 1) : Tail(s)[k] = s[k + 1]
    OBVIOUS
  <1>2. s = <<s[1]>> \o Tail(s)
    OBVIOUS
  <1> QED
    BY <1>1, <1>2

(* A frame on top of the others.                                           *)
LEMMA StackGrows ==
    ASSUME NEW c, NEW m, NEW r, StackOK(c, m, r), NEW f, FrameOK(c, m, f),
           r # <<>> => Calling(f, r[1]),
           r = <<>> => f.v = c.root /\ Outermost(c, m, f.jo)
    PROVE  StackOK(c, m, <<f>> \o r)
  <1> DEFINE s == <<f>> \o r
  <1>1. r \in Seq(Frame) /\ f \in Frame
    BY DEF StackOK, FrameOK
  <1>2. /\ s \in Seq(Frame) /\ s # <<>> /\ s[1] = f /\ Len(s) = Len(r) + 1 /\ Len(r) \in Nat
        /\ \A k \in 1..Len(r) : s[k + 1] = r[k]
    BY <1>1, StackPushed
  <1>3. r = <<>> <=> Len(r) = 0
    BY <1>1
  <1> HIDE DEF s
  <1>4. ASSUME NEW k \in 1..Len(s) PROVE FrameOK(c, m, s[k])
    <2>1. CASE k = 1
      BY <1>2, <2>1
    <2>2. CASE k # 1
      <3>1. k - 1 \in 1..Len(r) /\ (k - 1) + 1 = k
        BY <1>2, <2>2
      <3>2. s[k] = r[k - 1]
        BY <1>2, <3>1
      <3> QED
        BY <3>1, <3>2 DEF StackOK
    <2> QED
      BY <2>1, <2>2
  <1>5. ASSUME NEW k \in 1..(Len(s) - 1) PROVE Calling(s[k], s[k + 1])
    <2>0. k \in 1..Len(r)
      BY <1>2
    <2>1. s[k + 1] = r[k] /\ r # <<>>
      BY <1>2, <1>3, <2>0
    <2>2. CASE k = 1
      BY <1>2, <2>1, <2>2
    <2>3. CASE k # 1
      <3>1. k - 1 \in 1..Len(r) /\ k - 1 \in 1..(Len(r) - 1) /\ (k - 1) + 1 = k
        BY <1>2, <2>0, <2>3
      <3>2. s[k] = r[k - 1]
        BY <1>2, <3>1
      <3> QED
        BY <2>1, <3>1, <3>2 DEF StackOK
    <2> QED
      BY <2>2, <2>3
  <1>6. s[Len(s)].v = c.root /\ Outermost(c, m, s[Len(s)].jo)
    <2>1. CASE r = <<>>
      BY <1>2, <1>3, <2>1
    <2>2. CASE r # <<>>
      <3>1. Len(r) \in 1..Len(r)
        BY <1>2, <1>3, <2>2
      <3>2. s[Len(s)] = r[Len(r)]
        BY <1>2, <3>1
      <3> QED
        BY <2>2, <3>2 DEF StackOK
    <2> QED
      BY <2>1, <2>2
  <1>7. StackOK(c, m, s)
    BY <1>2, <1>4, <1>5, <1>6 DEF StackOK
  <1> QED
    BY <1>7 DEF s

(* What is on the stack without the frame on top.                          *)
LEMMA StackShrinks ==
    ASSUME NEW c, NEW m, NEW st, StackOK(c, m, st), st # <<>>
    PROVE  /\ StackOK(c, m, Tail(st)) /\ FrameOK(c, m, st[1]) /\ st[1] \in Frame
           /\ st = <<st[1]>> \o Tail(st) /\ st \in Seq(Frame) /\ Tail(st) \in Seq(Frame)
           /\ Tail(st) # <<>> => Calling(st[1], Tail(st)[1]) /\ FrameOK(c, m, Tail(st)[1])
           /\ Tail(st) = <<>> => st[1].v = c.root /\ Outermost(c, m, st[1].jo)
  <1> DEFINE r == Tail(st)
             n == Len(st)
  <1>1. st \in Seq(Frame)
    BY DEF StackOK
  <1>2. /\ st[1] \in Frame /\ r \in Seq(Frame) /\ n \in Nat /\ n >= 1 /\ Len(r) = n - 1
        /\ st = <<st[1]>> \o r /\ \A k \in 1..(n - 1) : r[k] = st[k + 1]
    BY <1>1, StackPopped
  <1>3. r = <<>> <=> n = 1
    <2>1. r \in Seq(Frame) /\ Len(r) = n - 1 /\ n \in Nat
      BY <1>2
    <2> HIDE DEF r, n
    <2>2. r = <<>> <=> Len(r) = 0
      BY <2>1
    <2> QED
      BY <2>1, <2>2
  <1> HIDE DEF r
  <1>4. \A k \in 1..n : FrameOK(c, m, st[k])
    BY DEF StackOK
  <1>5. \A k \in 1..(n - 1) : Calling(st[k], st[k + 1])
    BY DEF StackOK
  <1>6. st[n].v = c.root /\ Outermost(c, m, st[n].jo)
    BY DEF StackOK
  <1> HIDE DEF n
  <1>7. \A k \in 1..Len(r) : FrameOK(c, m, r[k])
    <2> TAKE k \in 1..Len(r)
    <2>1. k \in 1..(n - 1) /\ k + 1 \in 1..n
      BY <1>2
    <2> QED
      BY <1>2, <1>4, <2>1
  <1>8. \A k \in 1..(Len(r) - 1) : Calling(r[k], r[k + 1])
    <2> TAKE k \in 1..(Len(r) - 1)
    <2>1. k \in 1..(n - 1) /\ k + 1 \in 1..(n - 1)
      BY <1>2
    <2>2. r[k] = st[k + 1] /\ r[k + 1] = st[(k + 1) + 1]
      BY <1>2, <2>1
    <2> QED
      BY <1>5, <2>1, <2>2
  <1>9. r # <<>> => r[Len(r)].v = c.root /\ Outermost(c, m, r[Len(r)].jo)
    <2> SUFFICES ASSUME r # <<>> PROVE r[Len(r)] = st[n]
      BY <1>6
    <2>1. n - 1 \in 1..(n - 1) /\ (n - 1) + 1 = n
      BY <1>2, <1>3
    <2> QED
      BY <1>2, <2>1
  <1>10. StackOK(c, m, r)
    BY <1>2, <1>7, <1>8, <1>9 DEF StackOK
  <1>11. FrameOK(c, m, st[1])
    BY <1>2, <1>4
  <1>12. r # <<>> => Calling(st[1], r[1]) /\ FrameOK(c, m, r[1])
    <2> SUFFICES ASSUME r # <<>> PROVE Calling(st[1], r[1]) /\ FrameOK(c, m, r[1])
      OBVIOUS
    <2>1. 1 \in 1..(n - 1) /\ 2 \in 1..n /\ 1 + 1 = 2
      BY <1>2, <1>3
    <2>2. r[1] = st[2]
      BY <1>2, <2>1
    <2> QED
      BY <1>4, <1>5, <2>1, <2>2
  <1>13. r = <<>> => st[1].v = c.root /\ Outermost(c, m, st[1].jo)
    BY <1>3, <1>6
  <1> QED
    BY <1>1, <1>2, <1>10, <1>11, <1>12, <1>13 DEF r

-----------------------------------------------------------------------------
(* Buffers.                                                                *)

Buffer == [out : Texts, left : Nat]

LEMMA NoneOf ==
    ASSUME NEW S, NEW s \in Seq(S)
    PROVE  Len(s) \in Nat /\ (s = <<>> <=> Len(s) = 0)
  OBVIOUS

LEMMA PutIs ==
    ASSUME NEW b \in Buffer, NEW t \in Texts
    PROVE  /\ Put(b, t) \in Buffer
           /\ \/ Put(b, t).left = 0
              \/ Put(b, t).left > 0 /\ Put(b, t).out = b.out \o t
           /\ b.left = 0 => Put(b, t).left = 0
           /\ b.left > 0 /\ t = <<>> => Put(b, t) = b
           /\ b.left = 1 /\ t # <<>> => Put(b, t).left = 0
  <1>1. b.out \in Texts /\ b.left \in Nat /\ b = [out |-> b.out, left |-> b.left]
    BY DEF Buffer
  <1>2. Len(t) \in Nat /\ (t = <<>> <=> Len(t) = 0) /\ b.out \o t \in Texts
    BY <1>1, TextsJoin DEF Texts
  <1>3. CASE Len(t) < b.left
    <2>1. Put(b, t) = [out |-> b.out \o t, left |-> b.left - Len(t)]
      BY <1>3 DEF Put
    <2>2. b.left - Len(t) \in Nat /\ b.left - Len(t) > 0 /\ b.left # 0
      BY <1>1, <1>2, <1>3
    <2>3. t = <<>> => b.out \o t = b.out /\ b.left - Len(t) = b.left
      BY <1>1, <1>2, TextsJoin
    <2>4. b.left = 1 => t = <<>>
      BY <1>2, <1>3
    <2> QED
      BY <1>1, <1>2, <2>1, <2>2, <2>3, <2>4 DEF Buffer
  <1>4. CASE ~(Len(t) < b.left)
    <2>1. Put(b, t) = [out |-> b.out \o SubSeq(t, 1, b.left - 1), left |-> 0]
      BY <1>4 DEF Put
    <2>2. SubSeq(t, 1, b.left - 1) \in Texts
      BY <1>1, <1>2, <1>4 DEF Texts
    <2>3. b.out \o SubSeq(t, 1, b.left - 1) \in Texts
      BY <1>1, <2>2, TextsJoin
    <2>4. b.left > 0 => t # <<>>
      BY <1>1, <1>2, <1>4
    <2> QED
      BY <2>1, <2>3, <2>4 DEF Buffer
  <1> QED
    BY <1>3, <1>4

\* a cut leaves room for the terminator alone
LEMMA ThroughIs ==
    ASSUME NEW b \in Buffer, NEW t \in Texts, NEW room \in Nat, room <= b.left,
           b.left > 0 => room > 0
    PROVE  /\ Through(b, t, room) \in Buffer
           /\ b.left = 0 => Through(b, t, room).left = 0
           /\ Len(t) < room => /\ Through(b, t, room).out = b.out \o t
                               /\ Through(b, t, room).left > 0
           /\ b.left > 0 /\ ~(Len(t) < room) =>
                 /\ Through(b, t, room).out = b.out \o Cut(t, room - 1)
                 /\ Through(b, t, room).left = b.left - (room - 1)
                 /\ Through(b, t, room).left > 0
  <1>1. b.out \in Texts /\ b.left \in Nat
    BY DEF Buffer
  <1>2. Len(t) \in Nat /\ b.out \o t \in Texts
    BY <1>1, TextsJoin DEF Texts
  <1>3. CASE Len(t) < room
    <2>1. Through(b, t, room) = [out |-> b.out \o t, left |-> b.left - Len(t)]
      BY <1>3 DEF Through
    <2>2. b.left - Len(t) \in Nat /\ b.left - Len(t) > 0 /\ b.left # 0
      BY <1>1, <1>2, <1>3
    <2> QED
      BY <1>2, <1>3, <2>1, <2>2 DEF Buffer
  <1>4. CASE ~(Len(t) < room) /\ room = 0
    <2>1. Through(b, t, room) = b /\ b.left = 0
      BY <1>1, <1>4 DEF Through
    <2> QED
      BY <1>4, <2>1
  <1>5. CASE ~(Len(t) < room) /\ room # 0
    <2>1. Through(b, t, room) = [out |-> b.out \o Cut(t, room - 1), left |-> b.left - (room - 1)]
      BY <1>5 DEF Through
    <2>2. /\ room - 1 \in Nat /\ room - 1 <= Len(t) /\ b.left # 0
          /\ b.left - (room - 1) \in Nat /\ b.left - (room - 1) > 0
      BY <1>1, <1>2, <1>5
    <2>3. Cut(t, room - 1) \in Texts
      BY <2>2, CutTyped
    <2>4. b.out \o Cut(t, room - 1) \in Texts
      BY <1>1, <2>3, TextsJoin
    <2> QED
      BY <1>5, <2>1, <2>2, <2>4 DEF Buffer
  <1> QED
    BY <1>3, <1>4, <1>5

(* What the parts from the i-th on make together.                          *)
From(parts, i) == FlattenSeq(SubSeq(parts, i, Len(parts)))

LEMMA FlattenFirst ==
    ASSUME NEW S, NEW x \in Seq(S), NEW parts \in Seq(Seq(S))
    PROVE  /\ <<x>> \o parts \in Seq(Seq(S))
           /\ FlattenSeq(<<x>> \o parts) = x \o FlattenSeq(parts)
  <1> DEFINE V == Seq(S)
             n == Len(parts)
             all == <<x>> \o parts
  <1>1. PICK F : IsJoined(F, parts, V)
    BY JoinedExists
  <1>2. FlattenSeq(parts) = F[1]
    BY <1>1, FlattenIs
  <1>3. /\ all \in Seq(V) /\ Len(all) = n + 1 /\ n \in Nat /\ all[1] = x
        /\ \A k \in 1..n : all[k + 1] = parts[k]
    BY StackPushed
  <1> HIDE DEF all
  <1>4. F \in [1..(n + 1) -> V] /\ F[n + 1] = <<>> /\ \A i \in 1..n : F[i] = parts[i] \o F[i + 1]
    BY <1>1 DEF IsJoined
  <1> DEFINE G == [i \in 1..(n + 2) |-> IF i = 1 THEN x \o F[1] ELSE F[i - 1]]
  <1>5. 1 \in 1..(n + 1) /\ F[1] \in V
    <2> HIDE DEF n, V
    <2>1. 1 \in 1..(n + 1)
      BY <1>3
    <2> QED
      BY <1>4, <2>1
  <1>6. x \o F[1] \in V
    BY <1>5, ConcatProperties
  <1>7. ASSUME NEW i \in 1..(n + 2) PROVE G[i] \in V
    <2>1. CASE i = 1
      BY <1>6, <2>1
    <2>2. CASE i # 1
      <3>1. i - 1 \in 1..(n + 1)
        BY <1>3, <2>2
      <3> QED
        BY <1>4, <2>2, <3>1
    <2> QED
      BY <2>1, <2>2
  <1>8. G \in [1..(n + 2) -> V] /\ G[n + 2] = <<>> /\ G[1] = x \o F[1] /\ G[2] = F[1]
    <2>1. n + 2 \in 1..(n + 2) /\ n + 2 # 1 /\ (n + 2) - 1 = n + 1
      BY <1>3
    <2>2. 1 \in 1..(n + 2) /\ 2 \in 1..(n + 2) /\ 2 - 1 = 1
      BY <1>3
    <2> QED
      BY <1>4, <1>7, <2>1, <2>2
  <1>9. ASSUME NEW i \in 1..(n + 1) PROVE G[i] = all[i] \o G[i + 1]
    <2>1. CASE i = 1
      <3>1. G[1] = all[1] \o G[2]
        BY <1>3, <1>8
      <3>2. i + 1 = 2
        BY <2>1
      <3> QED
        BY <2>1, <3>1, <3>2
    <2>2. CASE i # 1
      <3>1. /\ i - 1 \in 1..n /\ (i - 1) + 1 = i /\ (i + 1) - 1 = i /\ i + 1 # 1
            /\ i \in 1..(n + 2) /\ i + 1 \in 1..(n + 2)
        BY <1>3, <2>2
      <3>2. G[i] = F[i - 1] /\ G[i + 1] = F[i]
        BY <2>2, <3>1
      <3>3. F[i - 1] = parts[i - 1] \o F[(i - 1) + 1]
        BY <1>4, <3>1
      <3>4. all[(i - 1) + 1] = parts[i - 1]
        BY <1>3, <3>1
      <3> QED
        BY <3>1, <3>2, <3>3, <3>4
    <2> QED
      BY <2>1, <2>2
  <1> HIDE DEF G
  <1>10. IsJoined(G, all, V)
    <2>1. Len(all) + 1 = n + 2 /\ Len(all) = n + 1
      BY <1>3
    <2> QED
      BY <1>8, <1>9, <2>1 DEF IsJoined
  <1>11. FlattenSeq(all) = G[1]
    BY <1>3, <1>10, FlattenIs
  <1> QED
    BY <1>2, <1>3, <1>8, <1>11 DEF all

LEMMA FlattenNone == FlattenSeq(<<>>) = <<>>
  BY DEF FlattenSeq

LEMMA FromIs ==
    ASSUME NEW S, NEW parts \in Seq(Seq(S))
    PROVE  /\ From(parts, 1) = FlattenSeq(parts)
           /\ From(parts, Len(parts) + 1) = <<>>
           /\ \A i \in 1..(Len(parts) + 1) : From(parts, i) \in Seq(S)
           /\ \A i \in 1..Len(parts) : From(parts, i) = parts[i] \o From(parts, i + 1)
  <1> DEFINE n == Len(parts)
             V == Seq(S)
  <1>1. n \in Nat /\ \A i \in 1..n : parts[i] \in V
    OBVIOUS
  <1>2. SubSeq(parts, 1, n) = parts
    OBVIOUS
  <1>3. SubSeq(parts, n + 1, n) = <<>>
    BY <1>1
  <1>4. \A i \in 1..(n + 1) : SubSeq(parts, i, n) \in Seq(V)
    BY <1>1
  <1>5. ASSUME NEW i \in 1..n
        PROVE  SubSeq(parts, i, n) = <<parts[i]>> \o SubSeq(parts, i + 1, n)
    <2> DEFINE r == SubSeq(parts, i + 1, n)
               s == SubSeq(parts, i, n)
    <2>1. r \in Seq(V) /\ Len(r) = n - i /\ \A k \in 1..(n - i) : r[k] = parts[i + k]
      BY <1>1
    <2>2. s \in Seq(V) /\ Len(s) = n + 1 - i /\ \A k \in 1..(n + 1 - i) : s[k] = parts[i + k - 1]
      BY <1>1
    <2> DEFINE t == <<parts[i]>> \o r
    <2>3. /\ t \in Seq(V) /\ Len(t) = Len(r) + 1 /\ t[1] = parts[i]
          /\ \A k \in 1..Len(r) : t[k + 1] = r[k]
      <3>1. parts[i] \in V
        BY <1>1
      <3>2. r \in Seq(V)
        BY <2>1
      <3> DEFINE x == parts[i]
                 u == <<x>> \o r
      <3>3. x \in V
        BY <3>1
      <3> HIDE DEF V, r, x
      <3>4. /\ u \in Seq(V) /\ Len(u) = Len(r) + 1 /\ u[1] = x
            /\ \A k \in 1..Len(r) : u[k + 1] = r[k]
        BY <3>2, <3>3, StackPushed
      <3> QED
        BY <3>4 DEF x
    <2> HIDE DEF r, s, t
    <2>4. Len(s) = Len(t)
      BY <1>1, <2>1, <2>2, <2>3
    <2>5. ASSUME NEW k \in 1..Len(s) PROVE s[k] = t[k]
      <3>1. k \in 1..(n + 1 - i) /\ k \in Int
        BY <2>2
      <3>2. CASE k = 1
        <4>1. i + k - 1 = i
          BY <3>2
        <4> QED
          BY <2>2, <2>3, <3>1, <3>2, <4>1
      <3>3. CASE k # 1
        <4>1. k - 1 \in 1..(n - i) /\ (k - 1) + 1 = k /\ i + (k - 1) = i + k - 1
          BY <1>1, <3>1, <3>3
        <4>2. t[(k - 1) + 1] = r[k - 1] /\ r[k - 1] = parts[i + (k - 1)]
          BY <2>1, <2>3, <4>1
        <4> QED
          BY <2>2, <3>1, <4>1, <4>2
      <3> QED
        BY <3>2, <3>3
    <2>6. s = t
      BY <2>2, <2>3, <2>4, <2>5, SeqEqual
    <2> QED
      BY <2>6 DEF r, s, t
  <1>6. ASSUME NEW i \in 1..n PROVE From(parts, i) = parts[i] \o From(parts, i + 1)
    <2>1. i + 1 \in 1..(n + 1)
      BY <1>1
    <2>2. SubSeq(parts, i + 1, n) \in Seq(V) /\ parts[i] \in V
      BY <1>1, <1>4, <2>1
    <2>3. FlattenSeq(<<parts[i]>> \o SubSeq(parts, i + 1, n))
            = parts[i] \o FlattenSeq(SubSeq(parts, i + 1, n))
      BY <2>2, FlattenFirst
    <2> QED
      BY <1>5, <2>3 DEF From
  <1>7. \A i \in 1..(n + 1) : From(parts, i) \in V
    <2> TAKE i \in 1..(n + 1)
    <2>1. SubSeq(parts, i, n) \in Seq(V)
      BY <1>4
    <2> QED
      BY <2>1, FlattenTyped DEF From
  <1> QED
    BY <1>2, <1>3, <1>6, <1>7, FlattenNone DEF From

-----------------------------------------------------------------------------
(* Paths and what is found.                                                *)

Printing(c, m) ==
    /\ c \in Command /\ m \in Nat
    /\ PathOf(c, m) \in Path /\ (c.args # <<>> => PathOf(c, m) # <<>>)

LEMMA GoesMatch ==
    ASSUME NEW v \in Values, NEW step \in PathStep, Heap[v].kind = "object",
           NEW i \in 1..Len(Heap[v].props), Matches(step, Heap[v].props[i].name)
    PROVE  /\ Goes(v, step) = Heap[v].props[i].val /\ Goes(v, step) \in Values
           /\ \A j \in 1..Len(Heap[v].props) : Matches(step, Heap[v].props[j].name) => j = i
  <1> DEFINE p == Heap[v].props
             k == CHOOSE j \in DOMAIN p : Matches(step, p[j].name)
  <1>1. p \in Seq(Prop) /\ \A j, l \in DOMAIN p : p[j].name = p[l].name => j = l
    BY HeapTyped
  <1>2. DOMAIN p = 1..Len(p)
    BY <1>1
  <1>3. v # Nowhere
    BY PrintAssumption
  <1>4. p[i] \in Prop
    BY <1>1, SeqItem
  <1>5. p[i].val \in Values
    BY <1>4 DEF Prop
  <1>6. Goes(v, step) = p[k].val
    BY <1>2, <1>3 DEF Goes
  <1>7. k \in DOMAIN p /\ Matches(step, p[k].name)
    BY <1>2
  <1> HIDE DEF k
  <1>8. \A j \in DOMAIN p : Matches(step, p[j].name) => j = i
    BY <1>1, <1>2 DEF Matches
  <1>9. k = i
    BY <1>7, <1>8
  <1> QED
    BY <1>2, <1>5, <1>6, <1>8, <1>9

LEMMA GoesIndex ==
    ASSUME NEW v \in Values, NEW step \in PathStep, Heap[v].kind = "array",
           Indexes(step, Heap[v])
    PROVE  /\ Goes(v, step) = Heap[v].words[step.index + 1] /\ Goes(v, step) \in Values
           /\ step.index + 1 \in 1..Len(Heap[v].words)
  <1>1. v # Nowhere
    BY PrintAssumption
  <1>2. Heap[v].words \in Seq(Values) /\ step.index \in Nat /\ step.index < Len(Heap[v].words)
    BY HeapTyped DEF PathStep, Indexes
  <1>3. Goes(v, step) = Heap[v].words[step.index + 1]
    BY <1>1 DEF Goes
  <1>4. Len(Heap[v].words) \in Nat
    BY <1>2
  <1>5. step.index + 1 \in 1..Len(Heap[v].words)
    BY <1>2, <1>4
  <1> QED
    BY <1>2, <1>3, <1>5, SeqItem

LEMMA GoesNowhere ==
    ASSUME NEW v \in Values, NEW step,
           ~(Heap[v].kind = "array" /\ Indexes(step, Heap[v])),
           ~(Heap[v].kind = "object"
               /\ \E i \in 1..Len(Heap[v].props) : Matches(step, Heap[v].props[i].name))
    PROVE  Goes(v, step) = Nowhere
  <1>1. DOMAIN Heap[v].props = 1..Len(Heap[v].props)
    <2>1. Heap[v].props \in Seq(Prop)
      BY HeapTyped
    <2> QED
      BY <2>1
  <1> QED
    BY <1>1 DEF Goes

LEMMA PathGoes ==
    ASSUME NEW c, NEW m, Printing(c, m), NEW v \in Values, NEW path,
           OnPath(c, m, v, path), path # <<>>
    PROVE  /\ path \in Path /\ path[1] \in PathStep /\ Tail(path) \in Path
           /\ PathOf(c, m) # <<>>
           /\ OnPath(c, m, Goes(v, path[1]), Tail(path))
           /\ Leads(c, m) => Goes(v, path[1]) # Nowhere
           /\ Tail(path) = <<>> => Goes(v, path[1]) = Goal(c, m)
  <1> DEFINE P == PathOf(c, m)
             n == Len(P)
             t == Trail(c, P)
  <1>1. P \in Path /\ c \in Command
    BY DEF Printing
  <1>2. /\ n \in Nat /\ t[0] = c.root
        /\ \A i \in 1..n : t[i] = Goes(t[i - 1], P[i]) /\ P[i] \in PathStep
        /\ Destination(c, P) = t[n]
        /\ t[n] # Nowhere => \A i \in 0..n : t[i] \in Values
    BY <1>1, TrailIs
  <1>3. PICK k \in 0..n : path = SubSeq(P, k + 1, n) /\ v = t[k]
    BY DEF OnPath
  <1>4. P \in Seq(PathStep)
    BY <1>1 DEF Path
  <1>5. k # n
    <2> SUFFICES ASSUME k = n PROVE FALSE
      OBVIOUS
    <2>1. SubSeq(P, n + 1, n) = <<>>
      BY <1>2, <1>4
    <2> QED
      BY <1>3, <2>1
  <1>6. k + 1 \in 1..n /\ k \in Nat /\ k + 1 \in 0..n /\ (k + 1) - 1 = k
    BY <1>2, <1>5
  <1>7. /\ path \in Seq(PathStep) /\ Len(path) = n - k /\ path[1] = P[k + 1]
        /\ Tail(path) = SubSeq(P, (k + 1) + 1, n) /\ Tail(path) \in Seq(PathStep)
        /\ P # <<>> /\ Len(Tail(path)) = n - (k + 1)
    <2>1. /\ path \in Seq(PathStep) /\ Len(path) = n - k
          /\ \A j \in 1..(n - k) : path[j] = P[k + j]
      BY <1>2, <1>3, <1>4, <1>6
    <2>2. 1 \in 1..(n - k)
      BY <1>2, <1>6
    <2>3. /\ Tail(path) \in Seq(PathStep) /\ Len(Tail(path)) = n - (k + 1)
          /\ \A j \in 1..(n - (k + 1)) : Tail(path)[j] = path[j + 1]
      BY <1>2, <1>6, <2>1
    <2> DEFINE r == SubSeq(P, (k + 1) + 1, n)
    <2>4. /\ r \in Seq(PathStep) /\ Len(r) = n - (k + 1)
          /\ \A j \in 1..(n - (k + 1)) : r[j] = P[(k + 1) + j]
      BY <1>2, <1>4, <1>6
    <2> HIDE DEF r
    <2> DEFINE u == Tail(path)
    <2>5. ASSUME NEW j \in 1..(n - (k + 1)) PROVE u[j] = r[j]
      <3>1. j + 1 \in 1..(n - k) /\ k + (j + 1) = (k + 1) + j
        BY <1>2, <1>6
      <3> QED
        BY <2>1, <2>3, <2>4, <3>1
    <2>6. u = r
      <3> HIDE DEF u
      <3>1. u \in Seq(PathStep) /\ Len(u) = Len(r)
        BY <2>3, <2>4 DEF u
      <3> QED
        BY <2>4, <2>5, <3>1, SeqEqual
    <2> QED
      BY <1>6, <2>1, <2>2, <2>3, <2>6 DEF r
  <1>8. t[k + 1] = Goes(v, path[1]) /\ path[1] \in PathStep
    BY <1>2, <1>3, <1>6, <1>7
  <1>9. OnPath(c, m, Goes(v, path[1]), Tail(path))
    BY <1>6, <1>7, <1>8 DEF OnPath
  <1>10. Leads(c, m) => Goes(v, path[1]) # Nowhere
    <2> SUFFICES ASSUME Leads(c, m) PROVE t[k + 1] # Nowhere
      BY <1>8
    <2>1. t[n] # Nowhere
      BY <1>2 DEF Leads, Goal
    <2> QED
      BY <1>2, <1>6, <2>1, PrintAssumption
  <1>11. Tail(path) = <<>> => Goes(v, path[1]) = Goal(c, m)
    <2> SUFFICES ASSUME Tail(path) = <<>> PROVE k + 1 = n
      BY <1>2, <1>8 DEF Goal
    <2>1. Len(Tail(path)) = n - (k + 1)
      BY <1>7
    <2>2. Tail(path) \in Seq(PathStep)
      BY <1>7
    <2>3. n - (k + 1) = 0
      BY <2>1, <2>2, NoneOf
    <2>4. n \in Nat /\ k \in Nat
      BY <1>2, <1>6
    <2> HIDE DEF n, t
    <2> QED
      BY <2>3, <2>4
  <1> QED
    BY <1>7, <1>8, <1>9, <1>10, <1>11 DEF Path

\* the jsobj_print_t of a call
LEMMA JsopsTyped ==
    ASSUME NEW jo \in Jsop
    PROVE  /\ Descended(jo) \in Jsop /\ Descended(jo).member = jo.member
           /\ Descended(jo).depth = jo.depth /\ Descended(jo).found = jo.found
           /\ jo.depth > 0 => /\ Deeper(jo) \in Jsop /\ Deeper(jo).member = jo.member
                              /\ Deeper(jo).depth = jo.depth - 1
                              /\ Deeper(jo).found = jo.found
           /\ jo.member # <<>> => /\ Along(jo) \in Jsop /\ Along(jo).member = Tail(jo.member)
                                  /\ Along(jo).depth = jo.depth
                                  /\ Along(jo).found = (jo.found \/ Tail(jo.member) = <<>>)
  <1>1. /\ jo.depth \in Nat /\ jo.member \in Path /\ jo.nprops \in Nat
        /\ jo.found \in BOOLEAN /\ jo.descended \in BOOLEAN
    BY DEF Jsop
  <1>2. /\ Descended(jo) \in Jsop /\ Descended(jo).member = jo.member
        /\ Descended(jo).depth = jo.depth /\ Descended(jo).found = jo.found
    BY DEF Descended, Jsop
  <1>3. ASSUME jo.depth > 0
        PROVE  /\ Deeper(jo) \in Jsop /\ Deeper(jo).member = jo.member
               /\ Deeper(jo).depth = jo.depth - 1 /\ Deeper(jo).found = jo.found
    <2>1. jo.depth - 1 \in Nat
      BY <1>1, <1>3
    <2> QED
      BY <2>1 DEF Deeper, Jsop
  <1>4. ASSUME jo.member # <<>>
        PROVE  /\ Along(jo) \in Jsop /\ Along(jo).member = Tail(jo.member)
               /\ Along(jo).depth = jo.depth
               /\ Along(jo).found = (jo.found \/ Tail(jo.member) = <<>>)
    <2>1. Tail(jo.member) \in Path
      BY <1>1, <1>4 DEF Path
    <2>2. (jo.found \/ Tail(jo.member) = <<>>) \in BOOLEAN
      BY <1>1
    <2> DEFINE r == Tail(jo.member)
               e == jo.found \/ r = <<>>
    <2>3. Along(jo) = [jo EXCEPT !.member = r, !.found = e]
      BY DEF Along
    <2> HIDE DEF r, e
    <2>4. [jo EXCEPT !.member = r, !.found = e] \in Jsop
      BY <1>1, <2>1, <2>2 DEF r, e, Jsop
    <2>5. /\ [jo EXCEPT !.member = r, !.found = e].member = r
          /\ [jo EXCEPT !.member = r, !.found = e].found = e
          /\ [jo EXCEPT !.member = r, !.found = e].depth = jo.depth
      BY <1>1 DEF Jsop
    <2> QED
      BY <2>3, <2>4, <2>5 DEF r, e
  <1> QED
    BY <1>2, <1>3, <1>4

LEMMA JsopKept ==
    ASSUME NEW c, NEW m, NEW jo, JsopOK(c, m, jo), NEW new \in Jsop,
           new.member = jo.member, new.depth = jo.depth, new.found = jo.found
    PROVE  JsopOK(c, m, new)
  BY DEF JsopOK

(* The next step of the path.                                              *)
LEMMA JsopAlong ==
    ASSUME NEW c, NEW m, Printing(c, m), NEW v \in Values, NEW jo, JsopOK(c, m, jo),
           jo.member # <<>>, OnPath(c, m, v, jo.member),
           NEW w \in Values, w = Goes(v, jo.member[1])
    PROVE  /\ JsopOK(c, m, Along(jo)) /\ Along(jo).member = Tail(jo.member)
           /\ Along(jo).depth = jo.depth
           /\ OnPath(c, m, w, Along(jo).member)
  <1> DEFINE a == Along(jo)
  <1>1. jo \in Jsop /\ jo.depth <= c.depth /\ (jo.found => Leads(c, m)) /\ jo.depth = c.depth
    BY DEF JsopOK
  <1>2. /\ a \in Jsop /\ a.member = Tail(jo.member) /\ a.depth = jo.depth
        /\ a.found = (jo.found \/ Tail(jo.member) = <<>>)
    BY <1>1, JsopsTyped
  <1>3. /\ OnPath(c, m, w, Tail(jo.member))
        /\ Tail(jo.member) = <<>> => w = Goal(c, m)
    BY PathGoes
  <1>4. Tail(jo.member) = <<>> => Leads(c, m)
    BY <1>3, PrintAssumption DEF Leads
  <1> HIDE DEF a
  <1>5. JsopOK(c, m, a)
    BY <1>1, <1>2, <1>4 DEF JsopOK
  <1> QED
    BY <1>2, <1>3, <1>5 DEF a

-----------------------------------------------------------------------------
(* The stack and what comes back, from one step to the next.               *)

\* what is there has been found
RetOK(c, m, jo) ==
    /\ jo \in Jsop /\ jo.depth <= c.depth
    /\ jo.found => Leads(c, m)
    /\ PathOf(c, m) # <<>> /\ Leads(c, m) => jo.found

Back(c, m, st, jo) ==
    RetOK(c, m, jo) /\ (IF st = <<>> THEN Outermost(c, m, jo) ELSE Under(jo, st[1]))

Kept(c, m, st, jo) ==
    /\ StackOK(c, m, st)
    /\ st = <<>> \/ Waiting(st[1]) => Back(c, m, st, jo)

LEMMA KeptReturn ==
    ASSUME NEW c, NEW m, NEW st, StackOK(c, m, st), st # <<>>,
           NEW jo, RetOK(c, m, jo), jo.member = st[1].jo.member, jo.depth = st[1].jo.depth
    PROVE  Kept(c, m, Tail(st), jo)
  <1> DEFINE r == Tail(st)
             f == st[1]
  <1>1. /\ StackOK(c, m, r)
        /\ r # <<>> => Calling(f, r[1])
        /\ r = <<>> => Outermost(c, m, f.jo)
    BY StackShrinks
  <1> HIDE DEF r, f
  <1>2. r # <<>> => Under(jo, r[1])
    BY <1>1 DEF Calling, Under, f
  <1>3. r = <<>> => Outermost(c, m, jo)
    BY <1>1 DEF Outermost, f
  <1>4. Kept(c, m, r, jo)
    BY <1>1, <1>2, <1>3 DEF Kept, Back
  <1> QED
    BY <1>4 DEF r

LEMMA OneFrame ==
    ASSUME NEW c, NEW m, NEW st, StackOK(c, m, st), st # <<>>,
           NEW f, FrameOK(c, m, f),
           f.v = st[1].v, f.jo.member = st[1].jo.member, f.jo.depth = st[1].jo.depth
    PROVE  /\ StackOK(c, m, <<f>> \o Tail(st))
           /\ <<f>> \o Tail(st) # <<>> /\ (<<f>> \o Tail(st))[1] = f
  <1> DEFINE r == Tail(st)
             g == st[1]
             new == <<f>> \o r
  <1>1. /\ StackOK(c, m, r) /\ r \in Seq(Frame)
        /\ r # <<>> => Calling(g, r[1])
        /\ r = <<>> => g.v = c.root /\ Outermost(c, m, g.jo)
    BY StackShrinks
  <1>2. f \in Frame
    BY DEF FrameOK
  <1> HIDE DEF r
  <1>3. new # <<>> /\ new[1] = f
    BY <1>1, <1>2, StackPushed
  <1> HIDE DEF g
  <1>4. r # <<>> => Calling(f, r[1])
    BY <1>1 DEF Calling, Under, g
  <1>5. r = <<>> => f.v = c.root /\ Outermost(c, m, f.jo)
    BY <1>1 DEF Outermost, g
  <1>6. StackOK(c, m, new)
    BY <1>1, <1>4, <1>5, StackGrows
  <1> QED
    BY <1>3, <1>6 DEF r

LEMMA KeptBecomes ==
    ASSUME NEW c, NEW m, NEW st, StackOK(c, m, st), st # <<>>, NEW jo,
           NEW f, FrameOK(c, m, f), ~Waiting(f),
           f.v = st[1].v, f.jo.member = st[1].jo.member, f.jo.depth = st[1].jo.depth
    PROVE  Kept(c, m, <<f>> \o Tail(st), jo)
  <1> DEFINE new == <<f>> \o Tail(st)
  <1>1. StackOK(c, m, new) /\ new # <<>> /\ new[1] = f
    BY OneFrame
  <1> HIDE DEF new
  <1>2. Kept(c, m, new, jo)
    BY <1>1 DEF Kept
  <1> QED
    BY <1>2 DEF new

LEMMA KeptCalls ==
    ASSUME NEW c, NEW m, NEW st, StackOK(c, m, st), st # <<>>, NEW jo,
           NEW g, FrameOK(c, m, g),
           g.v = st[1].v, g.jo.member = st[1].jo.member, g.jo.depth = st[1].jo.depth,
           NEW f, FrameOK(c, m, f), ~Waiting(f), Calling(f, g)
    PROVE  /\ Kept(c, m, <<f, g>> \o Tail(st), jo)
           /\ <<f, g>> \o Tail(st) = <<f>> \o (<<g>> \o Tail(st))
           /\ StackOK(c, m, <<g>> \o Tail(st))
  <1> DEFINE r == Tail(st)
             mid == <<g>> \o r
             new == <<f>> \o mid
  <1>1. StackOK(c, m, mid) /\ mid # <<>> /\ mid[1] = g /\ r \in Seq(Frame)
    <2>1. r \in Seq(Frame)
      BY StackShrinks
    <2>2. StackOK(c, m, mid) /\ mid # <<>> /\ mid[1] = g
      <3> HIDE DEF mid, r
      <3> QED
        BY OneFrame DEF mid, r
    <2> QED
      BY <2>1, <2>2
  <1>2. f \in Frame /\ g \in Frame
    BY DEF FrameOK
  <1>3. <<f, g>> \o r = new
    <2>1. <<f, g>> = <<f>> \o <<g>> /\ <<f>> \in Seq(Frame) /\ <<g>> \in Seq(Frame)
      BY <1>2
    <2> HIDE DEF r
    <2> QED
      BY <1>1, <2>1, ConcatAssociative
  <1> HIDE DEF mid, r
  <1>4. StackOK(c, m, new)
    BY <1>1, StackGrows
  <1>5. new # <<>> /\ new[1] = f
    <2>1. mid \in Seq(Frame)
      BY <1>1 DEF StackOK
    <2> QED
      BY <1>2, <2>1, StackPushed
  <1> HIDE DEF new
  <1>6. Kept(c, m, new, jo)
    BY <1>4, <1>5 DEF Kept
  <1> QED
    BY <1>1, <1>3, <1>6 DEF new, mid, r

(* A value to which no further step of the path applies.                   *)
LEMMA ReturnOK ==
    ASSUME NEW c, NEW m, Printing(c, m), NEW f, FrameOK(c, m, f),
           f.jo.member = <<>> \/ Goes(f.v, f.jo.member[1]) = Nowhere
    PROVE  /\ RetOK(c, m, f.jo) /\ RetOK(c, m, Descended(f.jo))
           /\ Descended(f.jo).member = f.jo.member /\ Descended(f.jo).depth = f.jo.depth
  <1>1. /\ f \in Frame /\ f.jo \in Jsop /\ f.jo.depth <= c.depth
        /\ f.jo.found => Leads(c, m)
        /\ f.jo.member = <<>> => Leads(c, m) /\ (PathOf(c, m) # <<>> => f.jo.found)
        /\ f.jo.member # <<>> => OnPath(c, m, f.v, f.jo.member)
    BY DEF FrameOK, JsopOK
  <1>2. f.v \in Values
    BY <1>1 DEF Frame
  <1>3. f.jo.member # <<>> => ~Leads(c, m)
    BY <1>1, <1>2, PathGoes
  <1>4. RetOK(c, m, f.jo)
    BY <1>1, <1>3 DEF RetOK
  <1> DEFINE d == Descended(f.jo)
  <1>5. d \in Jsop /\ d.member = f.jo.member /\ d.depth = f.jo.depth /\ d.found = f.jo.found
    BY <1>1, JsopsTyped
  <1> HIDE DEF d
  <1>6. RetOK(c, m, d)
    BY <1>4, <1>5 DEF RetOK
  <1> QED
    BY <1>4, <1>5, <1>6 DEF d

(* The frames a step makes.                                                *)
LEMMA VisitOK ==
    ASSUME NEW c, NEW m, NEW v \in Values, NEW jo, JsopOK(c, m, jo),
           jo.member # <<>> => OnPath(c, m, v, jo.member)
    PROVE  /\ FrameOK(c, m, Visit(v, jo)) /\ ~Waiting(Visit(v, jo))
           /\ Visit(v, jo).v = v /\ Visit(v, jo).jo = jo /\ Visit(v, jo).op = "value"
  <1>1. Visit(v, jo).op = "value" /\ Visit(v, jo).v = v /\ Visit(v, jo).jo = jo
    BY DEF Visit
  <1>2. Visit(v, jo) \in Frame
    BY DEF Visit, Frame, JsopOK
  <1> QED
    BY <1>1, <1>2 DEF FrameOK, Waiting

At(op, v, jo, i, after) == [op |-> op, v |-> v, jo |-> jo, i |-> i, after |-> after]

LEMMA LoopOK ==
    ASSUME NEW c, NEW m, NEW f, f = At(f.op, f.v, f.jo, f.i, f.after),
           f.op \in {"props", "match"}, f.v \in Values, f.i \in Nat, f.after \in BOOLEAN,
           JsopOK(c, m, f.jo), f.jo.member # <<>> => OnPath(c, m, f.v, f.jo.member),
           f.op = "props" => PropsOK(f), f.op = "match" => MatchOK(c, m, f)
    PROVE  FrameOK(c, m, f) /\ (Waiting(f) <=> f.after)
  <1>1. f \in Frame
    BY DEF Frame, JsopOK, At
  <1>2. FrameOK(c, m, f)
    BY <1>1 DEF FrameOK
  <1>3. Waiting(f) <=> f.after
    BY DEF Waiting
  <1> QED
    BY <1>2, <1>3

\* what the fields of frames are
LEMMA FrameFields ==
    ASSUME NEW f \in Frame
    PROVE  /\ f.op \in {"value", "index", "props", "match", "elements"}
           /\ f.v \in Values /\ f.jo \in Jsop
           /\ f.op \in {"props", "match"} =>
                 /\ f \in [op : {"props", "match"}, v : Values, jo : Jsop, i : Nat, after : BOOLEAN]
                 /\ f.i \in Nat /\ f.after \in BOOLEAN
                 /\ f = [op |-> f.op, v |-> f.v, jo |-> f.jo, i |-> f.i, after |-> f.after]
           /\ f.op = "elements" =>
                 /\ f.after \in BOOLEAN /\ f.sub \in Jsop /\ f.it \in Iteration
                 /\ f = [op |-> f.op, v |-> f.v, jo |-> f.jo, after |-> f.after,
                         sub |-> f.sub, it |-> f.it]
  BY DEF Frame

(* The steps of the stack.                                                 *)
Ready == stack # <<>> /\ Printing(cmd, arg) /\ Kept(cmd, arg, stack, ret.jo)
Next1 == Kept(cmd, arg, stack', ret'.jo)

LEMMA TopIs ==
    ASSUME Ready
    PROVE  /\ FrameOK(cmd, arg, Top) /\ Top \in Frame /\ StackOK(cmd, arg, stack)
           /\ stack \in Seq(Frame) /\ Rest \in Seq(Frame) /\ stack = <<Top>> \o Rest
           /\ Top.v \in Values /\ Top.jo \in Jsop /\ JsopOK(cmd, arg, Top.jo)
           /\ Top.jo.member # <<>> => OnPath(cmd, arg, Top.v, Top.jo.member)
           /\ Waiting(Top) => RetOK(cmd, arg, ret.jo) /\ Under(ret.jo, Top)
           /\ Rest # <<>> => Calling(Top, Rest[1]) /\ FrameOK(cmd, arg, Rest[1])
  <1>1. StackOK(cmd, arg, stack) /\ stack # <<>>
    BY DEF Ready, Kept
  <1>2. /\ FrameOK(cmd, arg, Top) /\ Top \in Frame /\ stack \in Seq(Frame) /\ Rest \in Seq(Frame)
        /\ stack = <<Top>> \o Rest
        /\ Rest # <<>> => Calling(Top, Rest[1]) /\ FrameOK(cmd, arg, Rest[1])
    BY <1>1, StackShrinks DEF Top, Rest
  <1>3. Top.v \in Values /\ Top.jo \in Jsop
    BY <1>2, FrameFields
  <1>4. /\ JsopOK(cmd, arg, Top.jo)
        /\ Top.jo.member # <<>> => OnPath(cmd, arg, Top.v, Top.jo.member)
    BY <1>2 DEF FrameOK
  <1>5. Waiting(Top) => RetOK(cmd, arg, ret.jo) /\ Under(ret.jo, Top)
    BY <1>1 DEF Ready, Kept, Back, Top
  <1> QED
    BY <1>1, <1>2, <1>3, <1>4, <1>5

Leaf == \/ PrintPlain \/ PrintScalar \/ PrintString \/ PrintNamed \/ DepthLimit
        \/ LoseElements \/ NoElement \/ LoseArray \/ EmptyArray
Closes == CloseObject \/ LeaveObject \/ CloseArray

\* what ends where it is has nowhere to go on to
LEMMA EndsWhere ==
    ASSUME Ready, Leaf \/ Closes \/ IndexOnObject
    PROVE  /\ Top.jo.member = <<>> \/ Goes(Top.v, Top.jo.member[1]) = Nowhere
           /\ Leads(cmd, arg) => Top.jo.member = <<>>
  <1>1. /\ FrameOK(cmd, arg, Top) /\ Top.v \in Values /\ Printing(cmd, arg)
        /\ Top.jo.member # <<>> => OnPath(cmd, arg, Top.v, Top.jo.member)
    BY TopIs DEF Ready
  <1>4. Top.jo.member = <<>> \/ Goes(Top.v, Top.jo.member[1]) = Nowhere
    <2> SUFFICES ASSUME Top.jo.member # <<>>
                 PROVE  /\ ~(Val.kind = "array" /\ Indexes(Step, Val))
                        /\ ~(Val.kind = "object"
                               /\ \E i \in 1..Len(Val.props) : Matches(Step, Val.props[i].name))
      BY <1>1, GoesNowhere DEF Val, Step
    <2>1. CASE PrintPlain \/ PrintScalar \/ PrintString \/ PrintNamed
      BY <2>1 DEF PrintPlain, PrintScalar, PrintString, PrintNamed, Is
    <2>2. CASE DepthLimit \/ LoseArray \/ EmptyArray
      BY <2>2 DEF DepthLimit, LoseArray, EmptyArray, OnArray, Whole
    <2>3. CASE LoseElements \/ NoElement
      <3>1. Val.kind = "array" /\ ~Indexes(Step, Val)
        BY <2>3 DEF LoseElements, NoElement, AtIndex, Is, Indexes
      <3> QED
        BY <3>1
    <2>4. CASE Closes
      <3>1. Top.op = "props" \/ Top.op = "elements"
        BY <2>4 DEF Closes, CloseObject, LeaveObject, CloseArray, Doing
      <3> QED
        BY <1>1, <3>1 DEF FrameOK, PropsOK, ElementsOK
    <2>5. CASE IndexOnObject
      <3>1. Top.op = "match" /\ Step.at = "index"
        BY <2>5 DEF IndexOnObject, Matching, Doing
      <3>2. Val.kind = "object"
        BY <1>1, <3>1 DEF FrameOK, MatchOK, Val
      <3> QED
        BY <3>1, <3>2 DEF Matches
    <2> QED
      BY <2>1, <2>2, <2>3, <2>4, <2>5 DEF Leaf
  <1> QED
    BY <1>1, <1>4, PathGoes

\* what has nowhere to go on to returns
LEMMA EndsKept ==
    ASSUME Ready, Leaf \/ Closes \/ IndexOnObject
    PROVE  Next1
  <1>1. FrameOK(cmd, arg, Top) /\ StackOK(cmd, arg, stack) /\ Top.v \in Values /\ Top.jo \in Jsop
    BY TopIs
  <1>2. stack # <<>> /\ Printing(cmd, arg)
    BY DEF Ready
  <1>3. stack' = Tail(stack) /\ ret'.jo \in {Top.jo, Descended(Top.jo)}
    <2>1. CASE Leaf
      BY <2>1 DEF Leaf, PrintPlain, PrintScalar, PrintString, PrintNamed, DepthLimit,
                  LoseElements, NoElement, LoseArray, EmptyArray, Return, Rest
    <2>2. CASE Closes \/ IndexOnObject
      <3>1. CASE CloseObject
        BY <3>1 DEF CloseObject, Return, Rest
      <3>2. CASE LeaveObject
        BY <3>2 DEF LeaveObject, Return, Rest
      <3>3. CASE CloseArray
        BY <3>3 DEF CloseArray, Return, Rest
      <3>4. CASE IndexOnObject
        BY <3>4 DEF IndexOnObject, Return, Rest
      <3> QED
        BY <2>2, <3>1, <3>2, <3>3, <3>4 DEF Closes
    <2> QED
      BY <2>1, <2>2
  <1>4. Top.jo.member = <<>> \/ Goes(Top.v, Top.jo.member[1]) = Nowhere
    BY EndsWhere
  <1>5. /\ RetOK(cmd, arg, Top.jo) /\ RetOK(cmd, arg, Descended(Top.jo))
        /\ Descended(Top.jo).member = Top.jo.member /\ Descended(Top.jo).depth = Top.jo.depth
    BY <1>1, <1>2, <1>4, ReturnOK
  <1>6. Kept(cmd, arg, Tail(stack), Top.jo) /\ Kept(cmd, arg, Tail(stack), Descended(Top.jo))
    BY <1>1, <1>2, <1>5, KeptReturn DEF Top
  <1> QED
    BY <1>3, <1>6 DEF Next1

LEMMA OpenObjectKept ==
    ASSUME Ready, OpenObject
    PROVE  Next1
  <1> DEFINE jo == [Descended(Top.jo) EXCEPT !.nprops = 0]
             f == At("props", Top.v, jo, 1, FALSE)
  <1>1. /\ StackOK(cmd, arg, stack) /\ Top.v \in Values /\ Top.jo \in Jsop
        /\ JsopOK(cmd, arg, Top.jo) /\ stack # <<>>
    BY TopIs DEF Ready
  <1>2. /\ Heap[Top.v].kind = "object" /\ Top.jo.member = <<>> /\ Top.jo.depth > 0
        /\ stack' = <<f>> \o Tail(stack) /\ ret' = ret
    BY DEF OpenObject, Is, Val, Whole, Becomes, Loop, Rest, At
  <1>3. /\ jo \in Jsop /\ jo.member = Top.jo.member /\ jo.depth = Top.jo.depth
        /\ jo.found = Top.jo.found /\ jo.nprops = 0
    <2>1. /\ Descended(Top.jo) \in Jsop /\ Descended(Top.jo).member = Top.jo.member
          /\ Descended(Top.jo).depth = Top.jo.depth /\ Descended(Top.jo).found = Top.jo.found
      BY <1>1, JsopsTyped
    <2> DEFINE d == Descended(Top.jo)
    <2> HIDE DEF d
    <2>2. d \in Jsop /\ d.member = Top.jo.member /\ d.depth = Top.jo.depth
          /\ d.found = Top.jo.found
      BY <2>1 DEF d
    <2>3. LET e == [d EXCEPT !.nprops = 0]
          IN  /\ e \in Jsop /\ e.member = Top.jo.member /\ e.depth = Top.jo.depth
              /\ e.found = Top.jo.found /\ e.nprops = 0
      BY <2>2 DEF Jsop
    <2> QED
      BY <2>3 DEF d
  <1> HIDE DEF jo
  <1>4. JsopOK(cmd, arg, jo)
    BY <1>1, <1>3, JsopKept
  <1>5. /\ f.op = "props" /\ f.v = Top.v /\ f.jo = jo /\ f.i = 1 /\ f.after = FALSE
        /\ f = At(f.op, f.v, f.jo, f.i, f.after)
    BY DEF At
  <1> HIDE DEF f
  <1>6. PropsOK(f)
    <2>1. Len(Heap[Top.v].props) \in Nat
      BY <1>1, HeapTyped
    <2> QED
      BY <1>2, <1>3, <1>5, <2>1 DEF PropsOK
  <1>60. FrameOK(cmd, arg, f) /\ ~Waiting(f)
    <2>1. f.op \in {"props", "match"} /\ f.v \in Values /\ f.i \in Nat
      BY <1>1, <1>5
    <2>2. f.after \in BOOLEAN
      BY <1>5
    <2>3. JsopOK(cmd, arg, f.jo) /\ f.jo.member = <<>>
      BY <1>2, <1>3, <1>4, <1>5
    <2>4. f.op # "match" /\ ~f.after
      BY <1>5
    <2> QED
      BY <1>5, <1>6, <2>1, <2>2, <2>3, <2>4, LoopOK
  <1>7. Kept(cmd, arg, <<f>> \o Tail(stack), ret.jo)
    BY <1>1, <1>3, <1>5, <1>60, KeptBecomes DEF Top
  <1> QED
    BY <1>2, <1>7 DEF Next1

LEMMA LoopExcept ==
    ASSUME NEW f, f = At(f.op, f.v, f.jo, f.i, f.after), NEW a, NEW k
    PROVE  [f EXCEPT !.after = a, !.i = k] = At(f.op, f.v, f.jo, k, a)
  <1>1. [f EXCEPT !.after = a] = At(f.op, f.v, f.jo, f.i, a)
    BY DEF At
  <1>2. [At(f.op, f.v, f.jo, f.i, a) EXCEPT !.i = k] = At(f.op, f.v, f.jo, k, a)
    BY DEF At
  <1>3. [f EXCEPT !.after = a, !.i = k] = [[f EXCEPT !.after = a] EXCEPT !.i = k]
    OBVIOUS
  <1> QED
    BY <1>1, <1>2, <1>3

\* what the steps of a loop make of its frame
Awaits(f) == [f EXCEPT !.after = TRUE]
NextProp(f) == [f EXCEPT !.after = FALSE, !.i = @ + 1, !.jo.nprops = @ + 1]
Skips(f) == [f EXCEPT !.i = @ + 1]
GoesOn(f, jo) == [f EXCEPT !.after = FALSE, !.i = @ + 1, !.jo = jo]

LEMMA LoopSteps ==
    ASSUME NEW f \in Frame, f.op \in {"props", "match"}, NEW jo
    PROVE  /\ f = At(f.op, f.v, f.jo, f.i, f.after)
           /\ Awaits(f) = At(f.op, f.v, f.jo, f.i, TRUE)
           /\ Skips(f) = At(f.op, f.v, f.jo, f.i + 1, f.after)
           /\ GoesOn(f, jo) = At(f.op, f.v, jo, f.i + 1, FALSE)
           /\ NextProp(f) = At(f.op, f.v, [f.jo EXCEPT !.nprops = @ + 1], f.i + 1, FALSE)
  <1>1. f = At(f.op, f.v, f.jo, f.i, f.after)
    BY FrameFields DEF At
  <1> DEFINE k == f.i + 1
             n == f.jo.nprops + 1
             no == FALSE
             yes == TRUE
             g == At(f.op, f.v, f.jo, k, no)
  <1> HIDE DEF k, n, no, yes
  <1>2. [f EXCEPT !.after = yes] = At(f.op, f.v, f.jo, f.i, yes)
    BY <1>1 DEF At
  <1>3. [f EXCEPT !.i = k] = At(f.op, f.v, f.jo, k, f.after)
    BY <1>1 DEF At
  <1>4. [f EXCEPT !.after = no, !.i = k] = g
    BY <1>1, LoopExcept
  <1>5. [g EXCEPT !.jo = jo] = At(f.op, f.v, jo, k, no)
    BY DEF At
  <1>6. [f EXCEPT !.after = no, !.i = k, !.jo = jo] = At(f.op, f.v, jo, k, no)
    <2>1. [f EXCEPT !.after = no, !.i = k, !.jo = jo]
            = [[f EXCEPT !.after = no, !.i = k] EXCEPT !.jo = jo]
      OBVIOUS
    <2> QED
      BY <1>4, <1>5, <2>1
  <1>7. g.jo = f.jo
    BY DEF At
  <1>8. [f EXCEPT !.after = no, !.i = k, !.jo.nprops = n]
          = At(f.op, f.v, [f.jo EXCEPT !.nprops = n], k, no)
    <2>1. [f EXCEPT !.after = no, !.i = k, !.jo.nprops = n]
            = [[f EXCEPT !.after = no, !.i = k] EXCEPT !.jo.nprops = n]
      OBVIOUS
    <2>2. [g EXCEPT !.jo.nprops = n] = [g EXCEPT !.jo = [g.jo EXCEPT !.nprops = n]]
      OBVIOUS
    <2>3. [g EXCEPT !.jo = [f.jo EXCEPT !.nprops = n]]
            = At(f.op, f.v, [f.jo EXCEPT !.nprops = n], k, no)
      BY DEF At
    <2> QED
      BY <1>4, <1>7, <2>1, <2>2, <2>3
  <1> QED
    BY <1>1, <1>2, <1>3, <1>6, <1>8 DEF Awaits, Skips, GoesOn, NextProp, k, n, no, yes

LEMMA PropAt ==
    ASSUME NEW v \in Values, NEW i \in 1..Len(Heap[v].props)
    PROVE  Heap[v].props[i].val \in Values /\ Heap[v].props[i].name \in STRING
  <1>1. Heap[v].props \in Seq(Prop)
    BY HeapTyped
  <1>2. Heap[v].props[i] \in Prop
    BY <1>1, SeqItem
  <1> QED
    BY <1>2 DEF Prop

LEMMA PrintNameKept ==
    ASSUME Ready, PrintName
    PROVE  Next1
  <1> DEFINE w == Heap[Top.v].props[Top.i].val
             e == Deeper(Top.jo)
             f == Visit(w, e)
             g == At(Top.op, Top.v, Top.jo, Top.i, TRUE)
  <1>1. /\ StackOK(cmd, arg, stack) /\ FrameOK(cmd, arg, Top) /\ Top \in Frame
        /\ Top.v \in Values /\ Top.jo \in Jsop /\ JsopOK(cmd, arg, Top.jo) /\ stack # <<>>
    BY TopIs DEF Ready
  <1>2. /\ Top.op = "props" /\ Top.i <= Len(Heap[Top.v].props)
        /\ stack' = <<f, Awaits(Top)>> \o Tail(stack) /\ ret' = ret
    BY DEF PrintName, Doing, Val, Calls, Rest, Awaits
  <1>3. Awaits(Top) = g
    BY <1>1, <1>2, LoopSteps
  <1>4. PropsOK(Top) /\ Top.i \in Nat
    BY <1>1, <1>2, FrameFields DEF FrameOK
  <1>5. /\ Heap[Top.v].kind = "object" /\ Top.jo.member = <<>> /\ Top.jo.depth > 0
        /\ Top.i \in 1..Len(Heap[Top.v].props) /\ Top.jo.nprops = Top.i - 1
    <2>1. Len(Heap[Top.v].props) \in Nat
      BY <1>1, HeapTyped
    <2> QED
      BY <1>2, <1>4, <2>1 DEF PropsOK
  <1>6. w \in Values
    BY <1>1, <1>5, PropAt
  <1>7. e \in Jsop /\ e.member = <<>> /\ e.depth = Top.jo.depth - 1 /\ e.found = Top.jo.found
    BY <1>1, <1>5, JsopsTyped
  <1> HIDE DEF e, w
  <1>8. JsopOK(cmd, arg, e)
    <2>1. /\ Top.jo.depth <= cmd.depth /\ (Top.jo.found => Leads(cmd, arg))
          /\ Leads(cmd, arg) /\ (PathOf(cmd, arg) # <<>> => Top.jo.found)
      BY <1>1, <1>5 DEF JsopOK
    <2>2. Top.jo.depth \in Nat /\ cmd.depth \in Nat
      BY <1>1, CommandTyped DEF Jsop, Ready, Printing
    <2>3. e.depth <= cmd.depth
      BY <1>7, <2>1, <2>2
    <2> QED
      BY <1>7, <2>1, <2>3 DEF JsopOK
  <1>9. FrameOK(cmd, arg, f) /\ ~Waiting(f) /\ f.v = w /\ f.jo = e /\ f.op = "value"
    BY <1>6, <1>7, <1>8, VisitOK
  <1>10. /\ g.op = "props" /\ g.v = Top.v /\ g.jo = Top.jo /\ g.i = Top.i /\ g.after = TRUE
         /\ g = At(g.op, g.v, g.jo, g.i, g.after)
    BY <1>2 DEF At
  <1> HIDE DEF f, g
  <1>11. FrameOK(cmd, arg, g) /\ Waiting(g)
    <2>1. PropsOK(g)
      <3>1. Len(Heap[Top.v].props) \in Nat
        BY <1>1, HeapTyped
      <3> QED
        BY <1>5, <1>10, <3>1 DEF PropsOK
    <2>2. g.op \in {"props", "match"} /\ g.v \in Values /\ g.i \in Nat /\ g.op # "match"
      BY <1>1, <1>4, <1>10
    <2>3. g.after \in BOOLEAN /\ g.after
      BY <1>10
    <2>4. JsopOK(cmd, arg, g.jo) /\ g.jo.member = <<>>
      BY <1>1, <1>5, <1>10
    <2> QED
      BY <1>10, <2>1, <2>2, <2>3, <2>4, LoopOK
  <1>12. Calling(f, g)
    <2>1. Callee(g) = w
      BY <1>10 DEF Callee, w
    <2>2. Under(f.jo, g)
      BY <1>5, <1>7, <1>9, <1>10 DEF Under
    <2> QED
      BY <1>9, <1>11, <2>1, <2>2 DEF Calling
  <1>13. Kept(cmd, arg, <<f, g>> \o Tail(stack), ret.jo)
    BY <1>1, <1>9, <1>10, <1>11, <1>12, KeptCalls DEF Top
  <1> QED
    BY <1>2, <1>3, <1>13 DEF Next1

LEMMA EndPropertyKept ==
    ASSUME Ready, EndProperty
    PROVE  Next1
  <1> DEFINE jo == [Top.jo EXCEPT !.nprops = @ + 1]
             f == At(Top.op, Top.v, jo, Top.i + 1, FALSE)
  <1>1. /\ StackOK(cmd, arg, stack) /\ FrameOK(cmd, arg, Top) /\ Top \in Frame
        /\ Top.v \in Values /\ Top.jo \in Jsop /\ JsopOK(cmd, arg, Top.jo) /\ stack # <<>>
    BY TopIs DEF Ready
  <1>2. Top.op = "props" /\ Top.after
    BY DEF EndProperty, Doing
  <1>3. stack' = <<f>> \o Tail(stack) /\ ret' = ret
    <2>1. stack' = <<NextProp(Top)>> \o Tail(stack) /\ ret' = ret
      BY DEF EndProperty, Becomes, Rest, NextProp
    <2>2. NextProp(Top) = f
      BY <1>1, <1>2, LoopSteps
    <2> QED
      BY <2>1, <2>2
  <1>4. PropsOK(Top) /\ Top.i \in Nat
    BY <1>1, <1>2, FrameFields DEF FrameOK
  <1>5. /\ jo \in Jsop /\ jo.member = Top.jo.member /\ jo.depth = Top.jo.depth
        /\ jo.found = Top.jo.found /\ jo.nprops = Top.jo.nprops + 1
    BY <1>1 DEF Jsop
  <1>6. /\ f.op = "props" /\ f.v = Top.v /\ f.jo = jo /\ f.i = Top.i + 1 /\ f.after = FALSE
        /\ f = At(f.op, f.v, f.jo, f.i, f.after)
    BY <1>2 DEF At
  <1> HIDE DEF f, jo
  <1>7. JsopOK(cmd, arg, f.jo) /\ f.jo.member = <<>>
    <2>1. JsopOK(cmd, arg, jo)
      BY <1>1, <1>5, JsopKept
    <2> QED
      BY <1>4, <1>5, <1>6, <2>1 DEF PropsOK
  <1>8. PropsOK(f)
    <2>1. Len(Heap[Top.v].props) \in Nat
      BY <1>1, HeapTyped
    <2> QED
      BY <1>2, <1>4, <1>5, <1>6, <2>1 DEF PropsOK
  <1>9. FrameOK(cmd, arg, f) /\ ~Waiting(f)
    <2>1. f.op \in {"props", "match"} /\ f.v \in Values /\ f.i \in Nat /\ f.op # "match"
      BY <1>1, <1>4, <1>6
    <2>2. f.after \in BOOLEAN /\ ~f.after
      BY <1>6
    <2> QED
      BY <1>6, <1>7, <1>8, <2>1, <2>2, LoopOK
  <1>10. Kept(cmd, arg, <<f>> \o Tail(stack), ret.jo)
    BY <1>1, <1>5, <1>6, <1>9, KeptBecomes DEF Top
  <1> QED
    BY <1>3, <1>10 DEF Next1

LEMMA FindMemberKept ==
    ASSUME Ready, FindMember
    PROVE  Next1
  <1> DEFINE jo == Descended(Top.jo)
             f == At("match", Top.v, jo, 1, FALSE)
  <1>1. /\ StackOK(cmd, arg, stack) /\ Top.v \in Values /\ Top.jo \in Jsop
        /\ JsopOK(cmd, arg, Top.jo) /\ stack # <<>> /\ Printing(cmd, arg)
        /\ Top.jo.member # <<>> => OnPath(cmd, arg, Top.v, Top.jo.member)
    BY TopIs DEF Ready
  <1>2. /\ Heap[Top.v].kind = "object" /\ Top.jo.member # <<>>
        /\ stack' = <<f>> \o Tail(stack) /\ ret' = ret
    BY DEF FindMember, Is, Val, Whole, Becomes, Loop, Rest, At
  <1>3. /\ jo \in Jsop /\ jo.member = Top.jo.member /\ jo.depth = Top.jo.depth
        /\ jo.found = Top.jo.found
    BY <1>1, JsopsTyped
  <1> HIDE DEF jo
  <1>4. JsopOK(cmd, arg, jo)
    BY <1>1, <1>3, JsopKept
  <1>5. /\ f.op = "match" /\ f.v = Top.v /\ f.jo = jo /\ f.i = 1 /\ f.after = FALSE
        /\ f = At(f.op, f.v, f.jo, f.i, f.after)
    BY DEF At
  <1> HIDE DEF f
  <1>6. MatchOK(cmd, arg, f)
    <2>1. Len(Heap[Top.v].props) \in Nat
      BY <1>1, HeapTyped
    <2>2. ASSUME Leads(cmd, arg) PROVE Later(f) # {}
      <3> DEFINE step == Top.jo.member[1]
      <3>1. Goes(Top.v, step) # Nowhere
        BY <1>1, <1>2, <2>2, PathGoes
      <3>2. PICK i \in 1..Len(Heap[Top.v].props) : Matches(step, Heap[Top.v].props[i].name)
        BY <1>1, <1>2, <3>1, GoesNowhere
      <3>3. i \in Later(f)
        BY <1>3, <1>5, <2>1, <3>2 DEF Later
      <3> QED
        BY <3>3
    <2> QED
      BY <1>2, <1>3, <1>5, <2>1, <2>2 DEF MatchOK
  <1>7. FrameOK(cmd, arg, f) /\ ~Waiting(f)
    <2>1. f.op \in {"props", "match"} /\ f.v \in Values /\ f.i \in Nat /\ f.op # "props"
      BY <1>1, <1>5
    <2>2. f.after \in BOOLEAN /\ ~f.after
      BY <1>5
    <2>3. JsopOK(cmd, arg, f.jo) /\ (f.jo.member # <<>> => OnPath(cmd, arg, f.v, f.jo.member))
      BY <1>1, <1>3, <1>4, <1>5
    <2> QED
      BY <1>5, <1>6, <2>1, <2>2, <2>3, LoopOK
  <1>8. Kept(cmd, arg, <<f>> \o Tail(stack), ret.jo)
    BY <1>1, <1>3, <1>5, <1>7, KeptBecomes DEF Top
  <1> QED
    BY <1>2, <1>8 DEF Next1

\* the frame that looks for a property
LEMMA MatchIs ==
    ASSUME Ready, Top.op = "match"
    PROVE  /\ StackOK(cmd, arg, stack) /\ FrameOK(cmd, arg, Top) /\ Top \in Frame
           /\ Top.v \in Values /\ Top.jo \in Jsop /\ JsopOK(cmd, arg, Top.jo) /\ stack # <<>>
           /\ Printing(cmd, arg) /\ Top.jo.member # <<>>
           /\ OnPath(cmd, arg, Top.v, Top.jo.member) /\ Top.jo.member[1] \in PathStep
           /\ PathOf(cmd, arg) # <<>>
           /\ MatchOK(cmd, arg, Top) /\ Top.i \in Nat /\ Heap[Top.v].kind = "object"
           /\ Len(Heap[Top.v].props) \in Nat /\ Top.i \in 1..(Len(Heap[Top.v].props) + 1)
  <1>1. /\ StackOK(cmd, arg, stack) /\ FrameOK(cmd, arg, Top) /\ Top \in Frame
        /\ Top.v \in Values /\ Top.jo \in Jsop /\ JsopOK(cmd, arg, Top.jo) /\ stack # <<>>
        /\ Printing(cmd, arg)
        /\ Top.jo.member # <<>> => OnPath(cmd, arg, Top.v, Top.jo.member)
    BY TopIs DEF Ready
  <1>2. MatchOK(cmd, arg, Top) /\ Top.i \in Nat
    BY <1>1, FrameFields DEF FrameOK
  <1>3. Top.jo.member # <<>> /\ Heap[Top.v].kind = "object"
        /\ Top.i \in 1..(Len(Heap[Top.v].props) + 1)
    BY <1>2 DEF MatchOK
  <1>4. Top.jo.member[1] \in PathStep /\ PathOf(cmd, arg) # <<>>
    BY <1>1, <1>3, PathGoes
  <1>5. Len(Heap[Top.v].props) \in Nat
    BY <1>1, HeapTyped
  <1> QED
    BY <1>1, <1>2, <1>3, <1>4, <1>5

LEMMA OtherMemberKept ==
    ASSUME Ready, OtherMember
    PROVE  Next1
  <1> DEFINE f == At(Top.op, Top.v, Top.jo, Top.i + 1, Top.after)
             n == Len(Heap[Top.v].props)
  <1>1. /\ Top.op = "match" /\ ~Top.after /\ Top.i <= n
        /\ ~Matches(Top.jo.member[1], Heap[Top.v].props[Top.i].name)
        /\ stack' = <<Skips(Top)>> \o Tail(stack) /\ ret' = ret
    BY DEF OtherMember, Matching, Doing, Val, Step, Becomes, Rest, Skips
  <1>2. /\ StackOK(cmd, arg, stack) /\ Top \in Frame
        /\ Top.v \in Values /\ Top.jo \in Jsop /\ JsopOK(cmd, arg, Top.jo) /\ stack # <<>>
        /\ OnPath(cmd, arg, Top.v, Top.jo.member)
        /\ MatchOK(cmd, arg, Top) /\ Top.i \in Nat /\ n \in Nat
    BY <1>1, MatchIs
  <1>3. Skips(Top) = f
    BY <1>1, <1>2, LoopSteps
  <1>4. /\ f.op = "match" /\ f.v = Top.v /\ f.jo = Top.jo /\ f.i = Top.i + 1 /\ f.after = Top.after
        /\ f = At(f.op, f.v, f.jo, f.i, f.after)
    BY <1>1 DEF At
  <1> HIDE DEF f
  <1>5. Later(f) = Later(Top)
    <2>1. \A j : j \in (Top.i + 1)..n <=> j \in Top.i..n /\ j # Top.i
      BY <1>1, <1>2
    <2> DEFINE M(j) == Matches(Top.jo.member[1], Heap[Top.v].props[j].name)
    <2> HIDE DEF n
    <2>2. Later(f) = {j \in (Top.i + 1)..n : M(j)}
      BY <1>4 DEF Later, n
    <2>3. Later(Top) = {j \in Top.i..n : M(j)}
      BY DEF Later, n
    <2>4. ~M(Top.i)
      BY <1>1
    <2> HIDE DEF M
    <2>5. \A j : j \in Later(f) <=> j \in Later(Top)
      BY <2>1, <2>2, <2>3, <2>4
    <2> QED
      BY <2>2, <2>3, <2>5
  <1>6. MatchOK(cmd, arg, f)
    <2>1. /\ Heap[Top.v].kind = "object" /\ Top.jo.member # <<>>
          /\ Leads(cmd, arg) /\ Later(Top) = {} => Top.jo.found
      BY <1>1, <1>2 DEF MatchOK
    <2>2. f.i \in 1..(n + 1)
      BY <1>1, <1>2, <1>4
    <2>3. Heap[f.v].kind = "object" /\ f.jo.member # <<>> /\ f.i \in 1..(Len(Heap[f.v].props) + 1)
      BY <1>4, <2>1, <2>2
    <2>4. ~f.after
      BY <1>1, <1>4
    <2>5. Leads(cmd, arg) /\ Later(f) = {} => f.jo.found
      BY <1>4, <1>5, <2>1
    <2> QED
      BY <2>3, <2>4, <2>5 DEF MatchOK
  <1>7. FrameOK(cmd, arg, f) /\ ~Waiting(f)
    <2>1. f.op \in {"props", "match"} /\ f.v \in Values /\ f.i \in Nat /\ f.op # "props"
      BY <1>2, <1>4
    <2>2. f.after \in BOOLEAN /\ ~f.after
      BY <1>1, <1>2, <1>4, FrameFields
    <2>3. JsopOK(cmd, arg, f.jo) /\ (f.jo.member # <<>> => OnPath(cmd, arg, f.v, f.jo.member))
      BY <1>2, <1>4
    <2> QED
      BY <1>4, <1>6, <2>1, <2>2, <2>3, LoopOK
  <1>8. Kept(cmd, arg, <<f>> \o Tail(stack), ret.jo)
    BY <1>2, <1>4, <1>7, KeptBecomes DEF Top
  <1> QED
    BY <1>1, <1>3, <1>8 DEF Next1

LEMMA EnterMemberKept ==
    ASSUME Ready, EnterMember
    PROVE  Next1
  <1> DEFINE n == Len(Heap[Top.v].props)
             step == Top.jo.member[1]
             w == Heap[Top.v].props[Top.i].val
             e == Along(Top.jo)
             f == Visit(w, e)
             g == At(Top.op, Top.v, Top.jo, Top.i, TRUE)
  <1>1. /\ Top.op = "match" /\ ~Top.after /\ Top.i <= n
        /\ Matches(step, Heap[Top.v].props[Top.i].name)
        /\ stack' = <<f, Awaits(Top)>> \o Tail(stack) /\ ret' = ret
    BY DEF EnterMember, Matching, Doing, Val, Step, Calls, Rest, Awaits
  <1>2. /\ StackOK(cmd, arg, stack) /\ Top \in Frame /\ Printing(cmd, arg)
        /\ Top.v \in Values /\ Top.jo \in Jsop /\ JsopOK(cmd, arg, Top.jo) /\ stack # <<>>
        /\ Top.jo.member # <<>>
        /\ OnPath(cmd, arg, Top.v, Top.jo.member) /\ step \in PathStep
        /\ MatchOK(cmd, arg, Top) /\ Top.i \in Nat /\ n \in Nat /\ Top.i \in 1..(n + 1)
        /\ Heap[Top.v].kind = "object"
    BY <1>1, MatchIs
  <1>3. Awaits(Top) = g
    BY <1>1, <1>2, LoopSteps
  <1>4. Top.i \in 1..n
    BY <1>1, <1>2
  <1>5. Goes(Top.v, step) = w /\ w \in Values
    BY <1>1, <1>2, <1>4, GoesMatch
  <1>6. /\ JsopOK(cmd, arg, e) /\ e.member = Tail(Top.jo.member) /\ e.depth = Top.jo.depth
        /\ OnPath(cmd, arg, w, e.member)
    <2> HIDE DEF w
    <2> QED
      BY <1>2, <1>5, JsopAlong
  <1> HIDE DEF e, w
  <1>7. FrameOK(cmd, arg, f) /\ ~Waiting(f) /\ f.v = w /\ f.jo = e /\ f.op = "value"
    BY <1>5, <1>6, VisitOK
  <1>8. /\ g.op = "match" /\ g.v = Top.v /\ g.jo = Top.jo /\ g.i = Top.i /\ g.after = TRUE
        /\ g = At(g.op, g.v, g.jo, g.i, g.after)
    BY <1>1 DEF At
  <1> HIDE DEF f, g
  <1>9. FrameOK(cmd, arg, g) /\ Waiting(g)
    <2>1. g.i \in Later(g)
      BY <1>1, <1>2, <1>4, <1>8 DEF Later
    <2>2. MatchOK(cmd, arg, g)
      BY <1>2, <1>8, <2>1 DEF MatchOK
    <2>3. g.op \in {"props", "match"} /\ g.v \in Values /\ g.i \in Nat /\ g.op # "props"
      BY <1>2, <1>8
    <2>4. g.after \in BOOLEAN /\ g.after
      BY <1>8
    <2>5. JsopOK(cmd, arg, g.jo) /\ (g.jo.member # <<>> => OnPath(cmd, arg, g.v, g.jo.member))
      BY <1>2, <1>8
    <2> QED
      BY <1>8, <2>2, <2>3, <2>4, <2>5, LoopOK
  <1>10. Calling(f, g)
    <2>1. Callee(g) = w
      BY <1>8 DEF Callee, w
    <2>2. Under(f.jo, g)
      BY <1>2, <1>6, <1>7, <1>8 DEF Under
    <2> QED
      BY <1>7, <1>9, <2>1, <2>2 DEF Calling
  <1>11. Kept(cmd, arg, <<f, g>> \o Tail(stack), ret.jo)
    BY <1>2, <1>7, <1>8, <1>9, <1>10, KeptCalls DEF Top
  <1> QED
    BY <1>1, <1>3, <1>11 DEF Next1

LEMMA FoundIs ==
    ASSUME NEW c, NEW m, NEW jo, JsopOK(c, m, jo), jo.member # <<>>,
           NEW r, RetOK(c, m, r), PathOf(c, m) # <<>>,
           NEW x, x = r.found, NEW new, new = [jo EXCEPT !.found = x]
    PROVE  /\ JsopOK(c, m, new) /\ RetOK(c, m, new) /\ new.member = jo.member
           /\ new.depth = jo.depth /\ (Leads(c, m) => new.found)
  <1>1. jo \in Jsop /\ jo.depth <= c.depth /\ jo.depth = c.depth
    BY DEF JsopOK
  <1>2. r \in Jsop /\ (x => Leads(c, m)) /\ (Leads(c, m) => x)
    BY DEF RetOK
  <1>3. x \in BOOLEAN
    BY <1>2 DEF Jsop
  <1>4. new \in Jsop /\ new.member = jo.member /\ new.depth = jo.depth /\ new.found = x
    BY <1>1, <1>3 DEF Jsop
  <1>5. JsopOK(c, m, new)
    BY <1>1, <1>2, <1>4 DEF JsopOK
  <1>6. RetOK(c, m, new)
    BY <1>1, <1>2, <1>4 DEF RetOK
  <1> QED
    BY <1>2, <1>4, <1>5, <1>6

LEMMA LeaveMemberKept ==
    ASSUME Ready, LeaveMember
    PROVE  Next1
  <1> DEFINE n == Len(Heap[Top.v].props)
             jo == FoundBy(Top.jo)
             f == At(Top.op, Top.v, jo, Top.i + 1, FALSE)
  <1>1. /\ Top.op = "match" /\ Top.after
        /\ \/ stack' = Tail(stack) /\ ret'.jo = jo
           \/ stack' = <<GoesOn(Top, jo)>> \o Tail(stack) /\ ret' = ret
    <2>1. Top.op = "match" /\ Top.after
      BY DEF LeaveMember, Doing
    <2>2. CASE Stops(ret.rv)
      <3>1. Return(-1, jo)
        BY <2>2 DEF LeaveMember
      <3> QED
        BY <2>1, <3>1 DEF Return, Rest
    <2>3. CASE ~Stops(ret.rv)
      <3>1. Becomes([Top EXCEPT !.after = FALSE, !.i = @ + 1, !.jo = FoundBy(@)])
        BY <2>3 DEF LeaveMember
      <3> QED
        BY <2>1, <3>1 DEF Becomes, Rest, GoesOn
    <2> QED
      BY <2>2, <2>3
  <1>2. /\ StackOK(cmd, arg, stack) /\ Top \in Frame /\ Printing(cmd, arg)
        /\ Top.v \in Values /\ Top.jo \in Jsop /\ JsopOK(cmd, arg, Top.jo) /\ stack # <<>>
        /\ Top.jo.member # <<>> /\ PathOf(cmd, arg) # <<>>
        /\ OnPath(cmd, arg, Top.v, Top.jo.member)
        /\ MatchOK(cmd, arg, Top) /\ Top.i \in Nat /\ n \in Nat
        /\ Heap[Top.v].kind = "object"
    BY <1>1, MatchIs
  <1>3. RetOK(cmd, arg, ret.jo)
    <2>1. Waiting(Top)
      BY <1>1 DEF Waiting
    <2> QED
      BY <2>1, TopIs
  <1>4. /\ JsopOK(cmd, arg, jo) /\ RetOK(cmd, arg, jo) /\ jo.member = Top.jo.member
        /\ jo.depth = Top.jo.depth /\ (Leads(cmd, arg) => jo.found)
    <2> DEFINE x == ret.jo.found
    <2>1. jo = [Top.jo EXCEPT !.found = x]
      BY DEF FoundBy
    <2> HIDE DEF x, jo
    <2>2. x = ret.jo.found
      BY DEF x
    <2>3. /\ JsopOK(cmd, arg, jo) /\ RetOK(cmd, arg, jo) /\ jo.member = Top.jo.member
          /\ jo.depth = Top.jo.depth
      BY <1>2, <1>3, <2>1, <2>2, FoundIs
    <2> QED
      BY <1>2, <2>3 DEF RetOK
  <1> HIDE DEF jo
  <1>5. Kept(cmd, arg, Tail(stack), jo)
    BY <1>2, <1>4, KeptReturn DEF Top
  <1>6. GoesOn(Top, jo) = f
    BY <1>1, <1>2, LoopSteps
  <1>7. /\ f.op = "match" /\ f.v = Top.v /\ f.jo = jo /\ f.i = Top.i + 1 /\ f.after = FALSE
        /\ f = At(f.op, f.v, f.jo, f.i, f.after)
    BY <1>1 DEF At
  <1> HIDE DEF f
  <1>8. MatchOK(cmd, arg, f)
    <2>1. Top.i \in 1..n
      BY <1>1, <1>2 DEF MatchOK, Later
    <2>2. f.i \in 1..(n + 1)
      BY <1>2, <1>7, <2>1
    <2> QED
      BY <1>2, <1>4, <1>7, <2>2 DEF MatchOK
  <1>9. FrameOK(cmd, arg, f) /\ ~Waiting(f)
    <2>1. f.op \in {"props", "match"} /\ f.v \in Values /\ f.i \in Nat /\ f.op # "props"
      BY <1>2, <1>7
    <2>2. f.after \in BOOLEAN /\ ~f.after
      BY <1>7
    <2>3. JsopOK(cmd, arg, f.jo) /\ (f.jo.member # <<>> => OnPath(cmd, arg, f.v, f.jo.member))
      BY <1>2, <1>4, <1>7
    <2> QED
      BY <1>7, <1>8, <2>1, <2>2, <2>3, LoopOK
  <1>10. Kept(cmd, arg, <<f>> \o Tail(stack), ret.jo)
    BY <1>2, <1>4, <1>7, <1>9, KeptBecomes DEF Top
  <1> QED
    BY <1>1, <1>5, <1>6, <1>10 DEF Next1

LEMMA EndMembersKept ==
    ASSUME Ready, EndMembers
    PROVE  Next1
  <1>1. /\ Top.op = "match" /\ ~Top.after /\ Top.i > Len(Heap[Top.v].props)
        /\ stack' = Tail(stack) /\ ret'.jo = Top.jo
    BY DEF EndMembers, Doing, Val, Return, Rest
  <1>2. /\ StackOK(cmd, arg, stack) /\ JsopOK(cmd, arg, Top.jo) /\ stack # <<>>
        /\ MatchOK(cmd, arg, Top) /\ Top.i \in Nat /\ Len(Heap[Top.v].props) \in Nat
    BY <1>1, MatchIs
  <1>3. Later(Top) = {}
    <2>1. Top.i..Len(Heap[Top.v].props) = {}
      BY <1>1, <1>2
    <2> QED
      BY <2>1 DEF Later
  <1>4. Leads(cmd, arg) => Top.jo.found
    BY <1>1, <1>2, <1>3 DEF MatchOK
  <1>5. RetOK(cmd, arg, Top.jo)
    BY <1>2, <1>4 DEF RetOK, JsopOK
  <1>6. Kept(cmd, arg, Tail(stack), Top.jo)
    BY <1>2, <1>5, KeptReturn DEF Top
  <1> QED
    BY <1>1, <1>6 DEF Next1

\* the frame that waits for an element
IndexAt(v, jo) == [op |-> "index", v |-> v, jo |-> jo]

LEMMA EnterElementKept ==
    ASSUME Ready, EnterElement
    PROVE  Next1
  <1> DEFINE jo == Descended(Top.jo)
             step == Top.jo.member[1]
             w == Heap[Top.v].words[step.index + 1]
             e == Along(jo)
             f == Visit(w, e)
             g == IndexAt(Top.v, jo)
  <1>1. /\ Heap[Top.v].kind = "array" /\ Top.jo.member # <<>> /\ Indexes(step, Heap[Top.v])
        /\ stack' = <<f, g>> \o Tail(stack) /\ ret' = ret
    BY DEF EnterElement, AtIndex, Is, Whole, Val, Step, Rest, IndexAt
  <1>2. /\ StackOK(cmd, arg, stack) /\ Top.v \in Values /\ Top.jo \in Jsop
        /\ JsopOK(cmd, arg, Top.jo) /\ stack # <<>> /\ Printing(cmd, arg)
        /\ OnPath(cmd, arg, Top.v, Top.jo.member)
    BY <1>1, TopIs DEF Ready
  <1>3. step \in PathStep
    BY <1>1, <1>2, PathGoes
  <1>4. Goes(Top.v, step) = w /\ w \in Values
    <2> HIDE DEF step
    <2> QED
      BY <1>1, <1>2, <1>3, GoesIndex
  <1>5. /\ jo \in Jsop /\ jo.member = Top.jo.member /\ jo.depth = Top.jo.depth
        /\ jo.found = Top.jo.found
    BY <1>2, JsopsTyped
  <1> HIDE DEF jo, w
  <1>6. JsopOK(cmd, arg, jo)
    BY <1>2, <1>5, JsopKept
  <1>7. /\ JsopOK(cmd, arg, e) /\ e.member = Tail(jo.member) /\ e.depth = jo.depth
        /\ OnPath(cmd, arg, w, e.member)
    BY <1>1, <1>2, <1>4, <1>5, <1>6, JsopAlong
  <1> HIDE DEF e
  <1>8. FrameOK(cmd, arg, f) /\ ~Waiting(f) /\ f.v = w /\ f.jo = e /\ f.op = "value"
    BY <1>4, <1>7, VisitOK
  <1>9. g.op = "index" /\ g.v = Top.v /\ g.jo = jo /\ g \in Frame
    BY <1>2, <1>5 DEF IndexAt, Frame
  <1> HIDE DEF f, g
  <1>10. FrameOK(cmd, arg, g) /\ Waiting(g)
    <2>1. IndexOK(g)
      BY <1>1, <1>5, <1>9 DEF IndexOK
    <2>2. OnPath(cmd, arg, g.v, g.jo.member) /\ JsopOK(cmd, arg, g.jo)
      BY <1>2, <1>5, <1>6, <1>9
    <2>3. g.op # "props" /\ g.op # "match" /\ g.op # "elements"
      BY <1>9
    <2>4. FrameOK(cmd, arg, g)
      BY <1>9, <2>1, <2>2, <2>3 DEF FrameOK
    <2> QED
      BY <1>9, <2>4 DEF Waiting
  <1>11. Calling(f, g)
    <2>1. Callee(g) = w
      BY <1>5, <1>9 DEF Callee, w
    <2>2. Under(f.jo, g)
      BY <1>1, <1>5, <1>7, <1>8, <1>9 DEF Under
    <2> QED
      BY <1>8, <1>10, <2>1, <2>2 DEF Calling
  <1>12. Kept(cmd, arg, <<f, g>> \o Tail(stack), ret.jo)
    BY <1>2, <1>5, <1>8, <1>9, <1>10, <1>11, KeptCalls DEF Top
  <1> QED
    BY <1>1, <1>12 DEF Next1

LEMMA LeaveElementKept ==
    ASSUME Ready, LeaveElement
    PROVE  Next1
  <1> DEFINE jo == FoundBy(Top.jo)
  <1>1. Top.op = "index" /\ stack' = Tail(stack) /\ ret'.jo = jo
    BY DEF LeaveElement, Doing, Return, Rest
  <1>2. /\ StackOK(cmd, arg, stack) /\ FrameOK(cmd, arg, Top) /\ Printing(cmd, arg)
        /\ JsopOK(cmd, arg, Top.jo) /\ stack # <<>> /\ Top.v \in Values
        /\ Top.jo.member # <<>> => OnPath(cmd, arg, Top.v, Top.jo.member)
    BY TopIs DEF Ready
  <1>3. Top.jo.member # <<>> /\ PathOf(cmd, arg) # <<>>
    <2>1. Top.jo.member # <<>>
      BY <1>1, <1>2 DEF FrameOK, IndexOK
    <2> QED
      BY <1>2, <2>1, PathGoes
  <1>4. RetOK(cmd, arg, ret.jo)
    <2>1. Waiting(Top)
      BY <1>1 DEF Waiting
    <2> QED
      BY <2>1, TopIs
  <1>5. RetOK(cmd, arg, jo) /\ jo.member = Top.jo.member /\ jo.depth = Top.jo.depth
    <2> DEFINE x == ret.jo.found
    <2>1. jo = [Top.jo EXCEPT !.found = x]
      BY DEF FoundBy
    <2> HIDE DEF x, jo
    <2>2. x = ret.jo.found
      BY DEF x
    <2> QED
      BY <1>2, <1>3, <1>4, <2>1, <2>2, FoundIs
  <1> HIDE DEF jo
  <1>6. Kept(cmd, arg, Tail(stack), jo)
    BY <1>2, <1>5, KeptReturn DEF Top
  <1> QED
    BY <1>1, <1>6 DEF Next1

(* Iterations.                                                             *)
LEMMA ArrayIs ==
    ASSUME NEW v \in Values
    PROVE  LET a == ArrayOf(v)
               m == Len(Elements(Heap[v]))
           IN  /\ a.length = Len(Heap[v].words) /\ a.bad = Heap[v].bad /\ a.js = Heap[v].length
               /\ a.length \in Nat /\ a.js \in Nat /\ m \in Nat /\ m <= a.length /\ m <= a.js
               /\ \A j \in a.bad : j \in Nat /\ j < a.length
               /\ \A k \in Lost(Heap[v]) : m <= Page * k
               /\ m \in {a.js, a.length} \/ \E k \in Lost(Heap[v]) : m = Page * k
  <1> DEFINE a == ArrayOf(v)
             m == Len(Elements(Heap[v]))
  <1>1. /\ Heap[v].words \in Seq(Values) /\ Heap[v].length \in Nat
        /\ Heap[v].bad \subseteq 0..(Len(Heap[v].words) - 1)
    BY HeapTyped
  <1>2. a.length = Len(Heap[v].words) /\ a.bad = Heap[v].bad /\ a.js = Heap[v].length
    BY DEF ArrayOf
  <1>3. a.length \in Nat
    BY <1>1, <1>2
  <1>4. /\ m \in Nat /\ m <= Heap[v].length /\ m <= Len(Heap[v].words) /\ m \in Ends(Heap[v])
        /\ \A k \in Lost(Heap[v]) : m <= Page * k
    BY ElementsIs
  <1> HIDE DEF a, m
  <1>5. m \in {a.js, a.length} \/ \E k \in Lost(Heap[v]) : m = Page * k
    BY <1>2, <1>4 DEF Ends
  <1>6. \A j \in a.bad : j \in Nat /\ j < a.length
    BY <1>1, <1>2, <1>3
  <1> QED
    BY <1>1, <1>2, <1>3, <1>4, <1>5, <1>6 DEF a, m

LEMMA PageMul ==
    /\ Page \in Nat /\ Page >= 1
    /\ \A k \in Nat : Page * k \in Nat /\ Page * (k + 1) = Page * k + Page /\ k <= Page * k
    /\ \A k, l \in Nat : k < l => Page * k + Page <= Page * l
  <1>1. Page \in Nat /\ Page >= 1
    BY PageAssumption
  <1>2. \A p \in Nat, k \in Nat : p * k \in Nat /\ p * (k + 1) = p * k + p
    OBVIOUS
  <1>3. \A p \in Nat, k \in Nat : p >= 1 => k <= p * k
    OBVIOUS
  <1>4. ASSUME NEW k \in Nat, NEW l \in Nat, k < l PROVE Page * k + Page <= Page * l
    <2>1. l - (k + 1) \in Nat /\ l = (k + 1) + (l - (k + 1))
      BY <1>4
    <2>2. \A p, x, y \in Nat : p * (x + y) = p * x + p * y
      OBVIOUS
    <2>3. Page * l = Page * (k + 1) + Page * (l - (k + 1))
      BY <1>1, <2>1, <2>2
    <2>4. Page * (l - (k + 1)) \in Nat /\ Page * (k + 1) = Page * k + Page /\ Page * k \in Nat
      BY <1>1, <1>2, <2>1
    <2>5. \A x, y, z \in Nat : z = x + y => x <= z
      OBVIOUS
    <2>6. Page * (k + 1) \in Nat /\ Page * l \in Nat
      BY <1>1, <1>2
    <2>7. Page * (k + 1) <= Page * l
      BY <2>3, <2>4, <2>5, <2>6
    <2> QED
      BY <2>4, <2>7
  <1> QED
    BY <1>1, <1>2, <1>3, <1>4

LEMMA PageLengthIs ==
    ASSUME NEW v \in Values, NEW it, it.index \in Nat, it.index < ArrayOf(v).length
    PROVE  LET n == PageLength(ArrayOf(v), it)
           IN  /\ n \in Nat /\ n > 0 /\ n <= Page /\ it.index + n <= ArrayOf(v).length
               /\ n < Page => it.index + n = ArrayOf(v).length
  <1> DEFINE l == ArrayOf(v).length
  <1>1. l \in Nat /\ Page \in Nat /\ Page >= 1
    BY ArrayIs, PageMul
  <1> HIDE DEF l
  <1>2. PageLength(ArrayOf(v), it) = Smaller(l - it.index, Page)
    BY DEF PageLength, l
  <1> QED
    BY <1>1, <1>2 DEF Smaller, l

(* The elements of a page without bad words are all there.                 *)
LEMMA ElementReached ==
    ASSUME NEW v \in Values, NEW it \in Iteration, IterationOK(v, it),
           InPage(ArrayOf(v), it), Position(it) < ArrayOf(v).js
    PROVE  OnElement(v, it)
  <1> DEFINE a == ArrayOf(v)
             m == Len(Elements(Heap[v]))
             n == PageLength(a, it)
             p == Position(it)
  <1>1. /\ a.length \in Nat /\ a.js \in Nat /\ m \in Nat
        /\ \A j \in a.bad : j \in Nat /\ j < a.length
        /\ m \in {a.js, a.length} \/ \E k \in Lost(Heap[v]) : m = Page * k
        /\ a.bad = Heap[v].bad
    BY ArrayIs
  <1>2. it.at = "element" /\ it.i < n /\ it.index \in Nat /\ it.i \in Nat
    BY DEF InPage, Iteration
  <1>3. PICK k \in Nat : it.index = Page * k
    BY <1>2 DEF IterationOK
  <1>4. it.index < a.length /\ \A j \in a.bad : j >= it.index + n
    BY <1>2 DEF IterationOK
  <1>5. /\ n \in Nat /\ n <= Page /\ it.index + n <= a.length
        /\ n < Page => it.index + n = a.length
    BY <1>2, <1>4, PageLengthIs
  <1>6. p = it.index + it.i /\ p < a.js
    BY DEF Position
  <1> HIDE DEF n, p, m, a
  <1>7. p < a.length /\ p \in Nat
    BY <1>1, <1>2, <1>5, <1>6
  <1>8. ASSUME NEW l \in Lost(Heap[v]), m = Page * l PROVE p < m
    <2>1. l \in Nat
      <3>1. Len(Heap[v].words) \in Nat
        BY <1>1, ArrayIs DEF a
      <3> QED
        BY <3>1 DEF Lost
    <2>2. PICK j \in a.bad : j \in (Page * l)..(Page * l + Page - 1)
      BY <1>1 DEF Lost
    <2>3. j \in Nat /\ j < a.length /\ j >= it.index + n
      BY <1>1, <1>4
    <2>4. Page * l \in Nat /\ Page * k \in Nat /\ Page \in Nat
      BY <2>1, PageMul
    <2>5. j <= Page * l + Page - 1
      BY <2>2
    <2>6. CASE n < Page
      <3>1. it.index + n = a.length
        BY <1>5, <2>6
      <3> QED
        BY <1>1, <2>3, <3>1
    <2>7. CASE ~(n < Page)
      <3>1. n = Page
        BY <1>5, <2>4, <2>7
      <3>2. Page * k < Page * l
        BY <1>3, <2>3, <2>4, <2>5, <3>1
      <3>3. k < l
        <4>1. CASE l = k
          BY <2>4, <3>2, <4>1
        <4>2. CASE l < k
          <5>1. Page * l + Page <= Page * k
            BY <2>1, <4>2, PageMul
          <5> QED
            BY <2>4, <3>2, <5>1
        <4> QED
          BY <2>1, <4>1, <4>2
      <3>4. Page * k + Page <= Page * l
        BY <2>1, <3>3, PageMul
      <3>5. p < Page * k + Page
        BY <1>2, <1>3, <1>6, <2>4, <3>1
      <3> QED
        BY <1>7, <1>8, <2>4, <3>4, <3>5
    <2> QED
      BY <2>6, <2>7
  <1>9. p < m
    BY <1>1, <1>6, <1>7, <1>8
  <1> QED
    BY <1>9 DEF OnElement, p, m

LEMMA StartOK ==
    ASSUME NEW v \in Values
    PROVE  LET it == StartIter(ArrayOf(v))
           IN  /\ it \in Iteration /\ IterationOK(v, it) /\ it.rv = 0
               /\ it.at \in {"page", "done"}
               /\ it.at = "page" => Reached(it) = 0
               /\ it.at = "done" => Len(Elements(Heap[v])) = 0
  <1> DEFINE a == ArrayOf(v)
             it == StartIter(a)
             m == Len(Elements(Heap[v]))
  <1>1. /\ a.length \in Nat /\ a.js \in Nat /\ m \in Nat /\ m <= a.length /\ m <= a.js
        /\ \A j \in a.bad : j \in Nat
    BY ArrayIs
  <1> HIDE DEF m
  <1>2. it.index = 0 /\ it.i = 0 /\ it.rv = 0 /\ it \in Iteration
        /\ it.at = (IF a.js = 0 \/ a.length = 0 THEN "done" ELSE "page")
    BY DEF StartIter, Iteration
  <1> HIDE DEF it
  <1>3. Page * 0 = 0 /\ 0 \in Nat
    BY PageAssumption
  <1>4. it.at # "done" => a.length > 0 /\ it.at = "page"
    BY <1>1, <1>2
  <1>5. it.at = "done" => m = 0
    BY <1>1, <1>2
  <1>6. it.at = "page" => Reached(it) = 0
    BY <1>2 DEF Reached
  <1>7. IterationOK(v, it)
    <2>1. \E k \in Nat : it.index = Page * k
      BY <1>2, <1>3
    <2>2. it.at # "element" /\ (it.at # "done" => it.at = "page")
      BY <1>2
    <2>3. it.at # "done" => it.index < a.length /\ Reached(it) <= m
      BY <1>1, <1>2, <1>4, <1>6
    <2>4. \A j \in a.bad : j >= it.index
      BY <1>1, <1>2
    <2> QED
      BY <1>2, <2>1, <2>2, <2>3, <2>4 DEF IterationOK, a, m
  <1> QED
    BY <1>2, <1>4, <1>5, <1>6, <1>7 DEF it, m

LEMMA ReadOK ==
    ASSUME NEW v \in Values, NEW it \in Iteration, IterationOK(v, it), it.at = "page"
    PROVE  LET new == ReadPage(ArrayOf(v), it)
           IN  /\ new \in Iteration /\ IterationOK(v, new) /\ new.at \in {"element", "done"}
               /\ new.at = "element" => new.rv = 0 /\ Reached(new) = Reached(it)
               /\ new.at = "done" => Reached(it) = Len(Elements(Heap[v]))
  <1> DEFINE a == ArrayOf(v)
             n == PageLength(a, it)
             m == Len(Elements(Heap[v]))
             new == ReadPage(a, it)
             Holds(x) == /\ x \in Iteration /\ IterationOK(v, x) /\ x.at \in {"element", "done"}
                         /\ x.at = "element" => x.rv = 0 /\ Reached(x) = Reached(it)
                         /\ x.at = "done" => Reached(it) = m
  <1>1. /\ a.length \in Nat /\ m \in Nat /\ a.length = Len(Heap[v].words)
        /\ \A j \in a.bad : j \in Nat
        /\ \A k \in Lost(Heap[v]) : m <= Page * k
        /\ a.bad = Heap[v].bad
    BY ArrayIs
  <1>2. it.index \in Nat /\ it.i \in Nat /\ it.rv = 0
    BY DEF Iteration, IterationOK
  <1>3. PICK k \in Nat : it.index = Page * k
    BY DEF IterationOK
  <1>4. /\ it.index < a.length /\ \A j \in a.bad : j >= it.index
        /\ Reached(it) <= m /\ Reached(it) = it.index
    BY <1>2 DEF IterationOK, Reached
  <1>5. n \in Nat /\ n > 0 /\ n <= Page
    BY <1>2, <1>4, PageLengthIs
  <1>6. CASE it.index..(it.index + n - 1) \cap a.bad # {}
    <2>1. new = [it EXCEPT !.rv = -1, !.at = "done"]
      BY <1>6 DEF ReadPage
    <2>2. new \in Iteration /\ new.at = "done"
      BY <2>1 DEF Iteration
    <2> HIDE DEF new
    <2>3. IterationOK(v, new)
      BY <2>2 DEF IterationOK
    <2>4. k \in Lost(Heap[v])
      <3> HIDE DEF n, a, m
      <3>1. k <= Page * k /\ Page * k \in Nat /\ Page \in Nat
        BY PageMul
      <3>2. k \in 0..Len(Heap[v].words)
        BY <1>1, <1>3, <1>4, <3>1
      <3>3. PICK j \in a.bad : j \in it.index..(it.index + n - 1)
        BY <1>6
      <3>4. j \in (Page * k)..(Page * k + Page - 1)
        BY <1>1, <1>3, <1>5, <3>1, <3>3
      <3> QED
        BY <1>1, <3>2, <3>3, <3>4 DEF Lost
    <2>5. Reached(it) = m
      <3> HIDE DEF m, a
      <3>1. m <= it.index
        BY <1>1, <1>3, <2>4
      <3> QED
        BY <1>1, <1>2, <1>4, <3>1
    <2>6. Holds(new)
      BY <2>2, <2>3, <2>5
    <2> QED
      BY <2>6 DEF new, m
  <1>7. CASE it.index..(it.index + n - 1) \cap a.bad = {}
    <2>1. new = [it EXCEPT !.i = 0, !.at = "element"]
      BY <1>7 DEF ReadPage
    <2> DEFINE mid == [it EXCEPT !.i = 0]
    <2>01. mid \in Iteration /\ mid.index = it.index /\ mid.i = 0 /\ mid.rv = 0
      BY <1>2 DEF Iteration
    <2>02. new = [mid EXCEPT !.at = "element"]
      BY <2>1
    <2>2. /\ new \in Iteration /\ new.at = "element" /\ new.index = it.index /\ new.i = 0
          /\ new.rv = 0
      <3> HIDE DEF mid, new
      <3> QED
        BY <2>01, <2>02 DEF Iteration
    <2>3. PageLength(a, new) = n
      BY <2>2 DEF PageLength
    <2>4. Reached(new) = it.index
      BY <1>2, <2>2 DEF Reached, Position
    <2> HIDE DEF new
    <2>5. \A j \in a.bad : j >= it.index + n
      <3> TAKE j \in a.bad
      <3>1. j \in Nat /\ j >= it.index /\ j \notin it.index..(it.index + n - 1)
        BY <1>1, <1>4, <1>7
      <3> HIDE DEF n, a
      <3> QED
        BY <1>2, <1>5, <3>1
    <2>6. IterationOK(v, new)
      <3>1. \E l \in Nat : new.index = Page * l
        BY <1>3, <2>2
      <3>2. new.index < a.length /\ \A j \in a.bad : j >= new.index
        BY <1>4, <2>2
      <3>3. new.at # "page" /\ new.i <= PageLength(a, new)
        BY <1>5, <2>2, <2>3
      <3>4. \A j \in a.bad : j >= new.index + PageLength(a, new)
        BY <2>2, <2>3, <2>5
      <3>5. Reached(new) <= m
        BY <1>4, <2>4
      <3> QED
        BY <3>1, <3>2, <3>3, <3>4, <3>5 DEF IterationOK
    <2>7. Holds(new)
      BY <1>4, <2>2, <2>4, <2>6
    <2> QED
      BY <2>7 DEF new, m
  <1> QED
    BY <1>6, <1>7

\* the callback has stopped the iteration, or has not
LEMMA AnsweredOK ==
    ASSUME NEW v \in Values, NEW it \in Iteration, IterationOK(v, it), it.at = "element"
    PROVE  /\ Answered(it, -1) \in Iteration /\ IterationOK(v, Answered(it, -1))
           /\ Answered(it, -1).rv = -1 /\ Answered(it, -1).at = "element"
           /\ OnElement(v, it) =>
                 /\ Answered(it, 0) \in Iteration /\ IterationOK(v, Answered(it, 0))
                 /\ Answered(it, 0).rv = 0 /\ Answered(it, 0).at = "element"
                 /\ Reached(Answered(it, 0)) = Reached(it) + 1
  <1> DEFINE a == ArrayOf(v)
             n == PageLength(a, it)
             m == Len(Elements(Heap[v]))
             no == Answered(it, -1)
             yes == Answered(it, 0)
  <1>1. it.index \in Nat /\ it.i \in Nat
    BY DEF Iteration
  <1>2. /\ \E k \in Nat : it.index = Page * k
        /\ it.index < a.length /\ \A j \in a.bad : j >= it.index
        /\ it.i <= n /\ \A j \in a.bad : j >= it.index + n
    BY DEF IterationOK
  <1>3. m \in Nat
    BY ArrayIs
  <1>30. n \in Nat
    BY <1>1, <1>2, PageLengthIs
  <1>4. /\ no \in Iteration /\ no.rv = -1 /\ no.at = "element" /\ no.index = it.index
        /\ no.i = it.i
    <2>1. no = [it EXCEPT !.rv = -1]
      BY DEF Answered
    <2> QED
      BY <2>1 DEF Iteration
  <1> HIDE DEF no
  <1>5. IterationOK(v, no)
    <2>1. PageLength(a, no) = n
      BY <1>4 DEF PageLength
    <2> QED
      BY <1>2, <1>4, <2>1 DEF IterationOK
  <1>6. ASSUME OnElement(v, it)
        PROVE  /\ yes \in Iteration /\ IterationOK(v, yes) /\ yes.rv = 0 /\ yes.at = "element"
               /\ Reached(yes) = Reached(it) + 1
    <2>1. it.rv = 0 /\ it.i < n /\ Position(it) < m
      BY <1>6 DEF OnElement, InPage
    <2>2. yes = [it EXCEPT !.i = @ + 1]
      BY DEF Answered
    <2>3. /\ yes \in Iteration /\ yes.rv = 0 /\ yes.at = "element" /\ yes.index = it.index
          /\ yes.i = it.i + 1
      BY <2>1, <2>2 DEF Iteration
    <2> HIDE DEF yes
    <2>4. PageLength(a, yes) = n
      BY <2>3 DEF PageLength
    <2>5. Reached(yes) = Reached(it) + 1 /\ Reached(it) = Position(it) /\ Position(it) \in Nat
      BY <1>1, <2>3 DEF Reached, Position
    <2>6. IterationOK(v, yes)
      <3> HIDE DEF m, n, a
      <3>1. yes.at # "page" /\ yes.i <= PageLength(ArrayOf(v), yes)
        BY <1>1, <1>30, <2>1, <2>3, <2>4 DEF a
      <3>2. Reached(yes) <= m
        BY <1>3, <2>1, <2>5
      <3> QED
        BY <1>2, <2>3, <2>4, <3>1, <3>2 DEF IterationOK, m, n, a
    <2> QED
      BY <2>3, <2>5, <2>6
  <1> QED
    BY <1>4, <1>5, <1>6 DEF no

(* The last element is not read if it would be alone on its page.           *)
NoLoneElement ==
    \A v \in Values : Heap[v].length >= Len(Heap[v].words) =>
       \A k \in Nat \ {0} : Len(Heap[v].words) # Page * k + 1

LEMMA EndPageOK ==
    ASSUME NEW v \in Values, NEW it \in Iteration, IterationOK(v, it), PageEnds(ArrayOf(v), it)
    PROVE  LET new == EndPage(ArrayOf(v), it)
           IN  /\ new \in Iteration /\ IterationOK(v, new) /\ new.at \in {"page", "done"}
               /\ new.at = "page" => it.rv = 0 /\ Reached(new) = Reached(it)
               /\ new.at = "done" /\ it.rv = 0 /\ NoLoneElement
                    => Reached(it) = Len(Elements(Heap[v]))
  <1> DEFINE a == ArrayOf(v)
             n == PageLength(a, it)
             m == Len(Elements(Heap[v]))
             p == Position(it)
             new == EndPage(a, it)
  <1>1. it.index \in Nat /\ it.i \in Nat /\ it.at = "element" /\ (it.i = n \/ it.rv # 0)
    BY DEF Iteration, PageEnds
  <1>2. PICK k \in Nat : it.index = Page * k
    BY <1>1 DEF IterationOK
  <1>3. /\ it.index < a.length /\ it.i <= n /\ \A j \in a.bad : j >= it.index + n
        /\ it.rv = 0 => p <= m
    BY <1>1 DEF IterationOK, Reached
  <1>4. /\ m \in Nat /\ a.length \in Nat /\ m <= a.length /\ m <= a.js /\ a.js \in Nat
        /\ a.length = Len(Heap[v].words) /\ a.js = Heap[v].length
        /\ \A j \in a.bad : j \in Nat /\ j < a.length
    BY ArrayIs
  <1>5. /\ n \in Nat /\ n > 0 /\ n <= Page /\ it.index + n <= a.length
        /\ n < Page => it.index + n = a.length
    BY <1>1, <1>3, PageLengthIs
  <1>6. p = it.index + it.i /\ p \in Nat
    BY <1>1 DEF Position
  <1>7. /\ new.index = p /\ new.at = (IF it.rv = 0 /\ p < a.length - 1 THEN "page" ELSE "done")
        /\ new.rv = it.rv /\ new \in Iteration
    BY <1>6 DEF EndPage, More, Iteration
  <1> HIDE DEF new, n, m, p, a
  <1>8. Reached(it) = p
    BY <1>1 DEF Reached, p
  <1>9. Page \in Nat /\ Page * k \in Nat /\ Page * (k + 1) = Page * k + Page
    BY PageMul
  <1>10. new.at = "page" => it.rv = 0 /\ p < a.length - 1 /\ p = Page * (k + 1) /\ p = it.index + n
    <2> SUFFICES ASSUME new.at = "page"
                 PROVE  it.rv = 0 /\ p < a.length - 1 /\ p = Page * (k + 1) /\ p = it.index + n
      OBVIOUS
    <2>1. it.rv = 0 /\ p < a.length - 1
      BY <1>7
    <2>2. it.i = n /\ p = it.index + n
      BY <1>1, <1>6, <2>1
    <2>3. n = Page
      BY <1>4, <1>5, <1>6, <1>9, <2>1, <2>2
    <2> QED
      BY <1>2, <1>9, <2>1, <2>2, <2>3
  <1>11. new.at = "page" => Reached(new) = p
    BY <1>7 DEF Reached
  <1>12. IterationOK(v, new)
    <2>1. new.at # "element" /\ (new.at # "done" => new.at = "page")
      BY <1>7
    <2>2. new.at # "done" =>
             /\ \E l \in Nat : new.index = Page * l
             /\ new.index < a.length
             /\ \A j \in a.bad : j >= new.index
      <3> SUFFICES ASSUME new.at = "page"
                   PROVE  /\ \E l \in Nat : new.index = Page * l
                          /\ new.index < a.length
                          /\ \A j \in a.bad : j >= new.index
        BY <2>1
      <3>1. new.index = Page * (k + 1) /\ k + 1 \in Nat
        BY <1>7, <1>10
      <3>2. p < a.length
        BY <1>4, <1>6, <1>10
      <3> QED
        BY <1>3, <1>7, <1>10, <3>1, <3>2
    <2>3. new.at # "done" => Reached(new) <= m /\ new.rv = 0
      BY <1>3, <1>7, <1>10, <1>11, <2>1
    <2> QED
      BY <2>1, <2>2, <2>3 DEF IterationOK, a, m
  <1>13. ASSUME new.at = "done", it.rv = 0, NoLoneElement PROVE p = m
    <2>1. ~(p < a.length - 1) /\ it.i = n /\ p = it.index + n /\ p <= m
      BY <1>1, <1>3, <1>6, <1>7, <1>13
    <2>2. CASE p = a.length
      BY <1>4, <2>1, <2>2
    <2>3. CASE p # a.length
      <3>1. p + 1 = a.length /\ n = Page
        BY <1>4, <1>5, <1>6, <1>9, <2>1, <2>3
      <3>2. a.length = Page * (k + 1) + 1 /\ k + 1 \in Nat \ {0}
        BY <1>2, <1>9, <2>1, <3>1
      <3>3. ~(a.js >= a.length)
        BY <1>4, <1>13, <3>2 DEF NoLoneElement
      <3> QED
        BY <1>4, <1>6, <2>1, <3>1, <3>3
    <2> QED
      BY <2>2, <2>3
  <1>14. /\ new \in Iteration /\ IterationOK(v, new) /\ new.at \in {"page", "done"}
         /\ new.at = "page" => it.rv = 0 /\ Reached(new) = Reached(it)
         /\ new.at = "done" /\ it.rv = 0 /\ NoLoneElement => Reached(it) = m
    BY <1>7, <1>8, <1>10, <1>11, <1>12, <1>13
  <1> QED
    BY <1>14 DEF new, m, a

(* The frames of arrays.                                                   *)
Over(v, jo, after, sub, it) ==
    [op |-> "elements", v |-> v, jo |-> jo, after |-> after, sub |-> sub, it |-> it]

WithIt(f, it) == [f EXCEPT !.it = it]
GoesPast(f, jo, it) == [f EXCEPT !.after = FALSE, !.sub = jo, !.it = it]

LEMMA OverOK ==
    ASSUME NEW c, NEW m, NEW f, f = Over(f.v, f.jo, f.after, f.sub, f.it), f.op = "elements",
           f.v \in Values, f.after \in BOOLEAN, f.it \in Iteration,
           JsopOK(c, m, f.jo), ElementsOK(c, m, f)
    PROVE  FrameOK(c, m, f) /\ (Waiting(f) <=> f.after)
  <1>1. f.sub \in Jsop /\ f.jo \in Jsop
    BY DEF ElementsOK, JsopOK
  <1>2. f \in Frame
    BY <1>1 DEF Frame, Over
  <1>3. f.jo.member = <<>>
    BY DEF ElementsOK
  <1>4. FrameOK(c, m, f)
    BY <1>2, <1>3 DEF FrameOK
  <1>5. Waiting(f) <=> f.after
    BY DEF Waiting
  <1> QED
    BY <1>4, <1>5

LEMMA PastStep ==
    ASSUME NEW f \in Frame, f.op = "elements", NEW jo, NEW it
    PROVE  GoesPast(f, jo, it) = Over(f.v, f.jo, FALSE, jo, it)
  <1> DEFINE no == FALSE
  <1> HIDE DEF no
  <1>1. f = Over(f.v, f.jo, f.after, f.sub, f.it)
    BY FrameFields DEF Over
  <1>2. [f EXCEPT !.after = no] = Over(f.v, f.jo, no, f.sub, f.it)
    BY <1>1 DEF Over
  <1>3. [Over(f.v, f.jo, no, f.sub, f.it) EXCEPT !.sub = jo] = Over(f.v, f.jo, no, jo, f.it)
    BY DEF Over
  <1>4. [Over(f.v, f.jo, no, jo, f.it) EXCEPT !.it = it] = Over(f.v, f.jo, no, jo, it)
    BY DEF Over
  <1>5. [f EXCEPT !.after = no, !.sub = jo, !.it = it] = Over(f.v, f.jo, no, jo, it)
    <2>1. [f EXCEPT !.after = no, !.sub = jo, !.it = it]
            = [[[f EXCEPT !.after = no] EXCEPT !.sub = jo] EXCEPT !.it = it]
      OBVIOUS
    <2> QED
      BY <1>2, <1>3, <1>4, <2>1
  <1> QED
    BY <1>5 DEF GoesPast, no

LEMMA OverSteps ==
    ASSUME NEW f \in Frame, f.op = "elements", NEW it
    PROVE  /\ f = Over(f.v, f.jo, f.after, f.sub, f.it)
           /\ Awaits(f) = Over(f.v, f.jo, TRUE, f.sub, f.it)
           /\ WithIt(f, it) = Over(f.v, f.jo, f.after, f.sub, it)
  <1>1. f = Over(f.v, f.jo, f.after, f.sub, f.it)
    BY FrameFields DEF Over
  <1> DEFINE yes == TRUE
  <1> HIDE DEF yes
  <1>2. [f EXCEPT !.after = yes] = Over(f.v, f.jo, yes, f.sub, f.it)
    BY <1>1 DEF Over
  <1>3. [f EXCEPT !.it = it] = Over(f.v, f.jo, f.after, f.sub, it)
    BY <1>1 DEF Over
  <1> QED
    BY <1>1, <1>2, <1>3 DEF Awaits, WithIt, yes

\* the frame of an array
LEMMA ArrayFrame ==
    ASSUME Ready, Top.op = "elements"
    PROVE  /\ StackOK(cmd, arg, stack) /\ FrameOK(cmd, arg, Top) /\ Top \in Frame
           /\ Top.v \in Values /\ Top.jo \in Jsop /\ JsopOK(cmd, arg, Top.jo) /\ stack # <<>>
           /\ Printing(cmd, arg) /\ Top.it \in Iteration /\ Top.after \in BOOLEAN
           /\ Heap[Top.v].kind = "array" /\ Heap[Top.v].length > 0 /\ Heap[Top.v].rv = 0
           /\ Top.jo.member = <<>> /\ Top.jo.depth > 0
           /\ JsopOK(cmd, arg, Top.sub) /\ Top.sub.member = <<>>
           /\ Top.sub.depth = Top.jo.depth - 1
           /\ IterationOK(Top.v, Top.it) /\ (Top.after => OnElement(Top.v, Top.it))
           /\ TheArray = ArrayOf(Top.v)
  <1>1. /\ StackOK(cmd, arg, stack) /\ FrameOK(cmd, arg, Top) /\ Top \in Frame
        /\ Top.v \in Values /\ Top.jo \in Jsop /\ JsopOK(cmd, arg, Top.jo) /\ stack # <<>>
        /\ Printing(cmd, arg)
    BY TopIs DEF Ready
  <1>2. Top.it \in Iteration /\ Top.after \in BOOLEAN
    BY <1>1, FrameFields
  <1>3. ElementsOK(cmd, arg, Top)
    BY <1>1 DEF FrameOK
  <1>4. TheArray = ArrayOf(Top.v)
    BY DEF TheArray, ArrayOf, Val
  <1> QED
    BY <1>1, <1>2, <1>3, <1>4 DEF ElementsOK

LEMMA OpenArrayKept ==
    ASSUME Ready, OpenArray
    PROVE  Next1
  <1> DEFINE jo == Descended(Top.jo)
             e == Deeper(jo)
             it == StartIter(ArrayOf(Top.v))
             f == Over(Top.v, jo, FALSE, e, it)
  <1>1. /\ StackOK(cmd, arg, stack) /\ Top.v \in Values /\ Top.jo \in Jsop
        /\ JsopOK(cmd, arg, Top.jo) /\ stack # <<>> /\ Printing(cmd, arg)
    BY TopIs DEF Ready
  <1>2. /\ Heap[Top.v].kind = "array" /\ Top.jo.member = <<>> /\ Top.jo.depth > 0
        /\ Heap[Top.v].length > 0 /\ Heap[Top.v].rv = 0
        /\ stack' = <<f>> \o Tail(stack) /\ ret' = ret
    BY DEF OpenArray, OnArray, Is, Val, Whole, Becomes, Rest, Over, TheArray, ArrayOf
  <1>3. /\ jo \in Jsop /\ jo.member = Top.jo.member /\ jo.depth = Top.jo.depth
        /\ jo.found = Top.jo.found
    BY <1>1, JsopsTyped
  <1> HIDE DEF jo
  <1>4. JsopOK(cmd, arg, jo)
    BY <1>1, <1>3, JsopKept
  <1>5. e \in Jsop /\ e.member = <<>> /\ e.depth = jo.depth - 1 /\ e.found = jo.found
    BY <1>2, <1>3, JsopsTyped
  <1>6. it \in Iteration /\ IterationOK(Top.v, it)
    BY <1>1, StartOK
  <1> HIDE DEF e, it
  <1>7. JsopOK(cmd, arg, e)
    <2>1. /\ jo.depth <= cmd.depth /\ (jo.found => Leads(cmd, arg))
          /\ Leads(cmd, arg) /\ (PathOf(cmd, arg) # <<>> => jo.found)
      BY <1>2, <1>3, <1>4 DEF JsopOK
    <2>2. jo.depth \in Nat /\ cmd.depth \in Nat
      BY <1>1, <1>3, CommandTyped DEF Jsop, Printing
    <2>3. e.depth <= cmd.depth
      BY <1>5, <2>1, <2>2
    <2> QED
      BY <1>5, <2>1, <2>3 DEF JsopOK
  <1>8. /\ f.op = "elements" /\ f.v = Top.v /\ f.jo = jo /\ f.after = FALSE /\ f.sub = e
        /\ f.it = it /\ f = Over(f.v, f.jo, f.after, f.sub, f.it)
    BY DEF Over
  <1> HIDE DEF f
  <1>9. FrameOK(cmd, arg, f) /\ ~Waiting(f)
    <2>1. f.after \in BOOLEAN /\ ~f.after
      BY <1>8
    <2>2. ElementsOK(cmd, arg, f)
      BY <1>2, <1>3, <1>5, <1>6, <1>7, <1>8, <2>1 DEF ElementsOK
    <2>3. f.v \in Values /\ f.it \in Iteration /\ JsopOK(cmd, arg, f.jo)
      BY <1>1, <1>4, <1>6, <1>8
    <2> QED
      BY <1>8, <2>1, <2>2, <2>3, OverOK
  <1>10. Kept(cmd, arg, <<f>> \o Tail(stack), ret.jo)
    BY <1>1, <1>3, <1>8, <1>9, KeptBecomes DEF Top
  <1> QED
    BY <1>2, <1>10 DEF Next1

\* a step of the iteration between two elements
LEMMA IteratesKept ==
    ASSUME Ready, NextPage \/ StopElements \/ EndElements
    PROVE  Next1
  <1> DEFINE a == ArrayOf(Top.v)
  <1>1. /\ Top.op = "elements"
        /\ \/ /\ Top.it.at = "page"
              /\ stack' = <<WithIt(Top, ReadPage(a, Top.it))>> \o Tail(stack)
           \/ /\ ~Top.after /\ Top.it.at = "element"
              /\ stack' = <<WithIt(Top, Answered(Top.it, -1))>> \o Tail(stack)
           \/ /\ ~Top.after /\ PageEnds(a, Top.it)
              /\ stack' = <<WithIt(Top, EndPage(a, Top.it))>> \o Tail(stack)
        /\ ret' = ret
    <2>1. TheArray = a
      BY DEF TheArray, ArrayOf, Val
    <2>2. CASE NextPage
      BY <2>1, <2>2 DEF NextPage, Doing, Becomes, Rest, WithIt
    <2>3. CASE StopElements
      BY <2>1, <2>3 DEF StopElements, InElements, InPage, Doing, Becomes, Rest, WithIt
    <2>4. CASE EndElements
      BY <2>1, <2>4 DEF EndElements, Doing, Becomes, Rest, WithIt
    <2> QED
      BY <2>2, <2>3, <2>4
  <1>2. /\ StackOK(cmd, arg, stack) /\ Top \in Frame
        /\ Top.v \in Values /\ JsopOK(cmd, arg, Top.jo) /\ stack # <<>>
        /\ Top.it \in Iteration /\ Top.after \in BOOLEAN
        /\ Heap[Top.v].kind = "array" /\ Heap[Top.v].length > 0 /\ Heap[Top.v].rv = 0
        /\ Top.jo.member = <<>> /\ Top.jo.depth > 0
        /\ JsopOK(cmd, arg, Top.sub) /\ Top.sub.member = <<>>
        /\ Top.sub.depth = Top.jo.depth - 1
        /\ IterationOK(Top.v, Top.it) /\ (Top.after => OnElement(Top.v, Top.it))
    BY <1>1, ArrayFrame
  <1>3. ~Top.after
    BY <1>1, <1>2 DEF OnElement, InPage
  <1>4. PICK it \in Iteration : IterationOK(Top.v, it) /\ stack' = <<WithIt(Top, it)>> \o Tail(stack)
    <2>1. CASE Top.it.at = "page" /\ stack' = <<WithIt(Top, ReadPage(a, Top.it))>> \o Tail(stack)
      BY <1>2, <2>1, ReadOK
    <2>2. CASE /\ Top.it.at = "element"
               /\ stack' = <<WithIt(Top, Answered(Top.it, -1))>> \o Tail(stack)
      BY <1>2, <2>2, AnsweredOK
    <2>3. CASE /\ PageEnds(a, Top.it)
               /\ stack' = <<WithIt(Top, EndPage(a, Top.it))>> \o Tail(stack)
      BY <1>2, <2>3, EndPageOK
    <2> QED
      BY <1>1, <2>1, <2>2, <2>3
  <1> DEFINE f == WithIt(Top, it)
  <1>5. f = Over(Top.v, Top.jo, Top.after, Top.sub, it)
    BY <1>1, <1>2, OverSteps
  <1>6. /\ f.op = "elements" /\ f.v = Top.v /\ f.jo = Top.jo /\ f.after = Top.after
        /\ f.sub = Top.sub /\ f.it = it /\ f = Over(f.v, f.jo, f.after, f.sub, f.it)
    <2> HIDE DEF f
    <2> QED
      BY <1>5 DEF Over
  <1> HIDE DEF f
  <1>7. FrameOK(cmd, arg, f) /\ ~Waiting(f)
    <2>1. ElementsOK(cmd, arg, f)
      BY <1>2, <1>3, <1>4, <1>6 DEF ElementsOK
    <2>2. f.v \in Values /\ f.it \in Iteration /\ JsopOK(cmd, arg, f.jo) /\ f.after \in BOOLEAN
      BY <1>2, <1>4, <1>6
    <2> QED
      BY <1>3, <1>6, <2>1, <2>2, OverOK
  <1>8. Kept(cmd, arg, <<f>> \o Tail(stack), ret.jo)
    BY <1>2, <1>6, <1>7, KeptBecomes DEF Top
  <1>9. stack' = <<f>> \o Tail(stack)
    BY <1>4 DEF f
  <1> QED
    BY <1>1, <1>8, <1>9 DEF Next1

LEMMA PrintElementKept ==
    ASSUME Ready, PrintElement
    PROVE  Next1
  <1> DEFINE w == Heap[Top.v].words[Position(Top.it) + 1]
             f == Visit(w, Top.sub)
             g == Over(Top.v, Top.jo, TRUE, Top.sub, Top.it)
  <1>1. /\ Top.op = "elements" /\ InPage(TheArray, Top.it)
        /\ ~PastEnd(TheArray, Position(Top.it))
        /\ stack' = <<f, Awaits(Top)>> \o Tail(stack) /\ ret' = ret
    BY DEF PrintElement, InElements, Doing, Val, Calls, Rest, Awaits
  <1>2. /\ StackOK(cmd, arg, stack) /\ Top \in Frame
        /\ Top.v \in Values /\ JsopOK(cmd, arg, Top.jo) /\ stack # <<>>
        /\ Top.it \in Iteration /\ TheArray = ArrayOf(Top.v)
        /\ Heap[Top.v].kind = "array" /\ Heap[Top.v].length > 0 /\ Heap[Top.v].rv = 0
        /\ Top.jo.member = <<>> /\ Top.jo.depth > 0
        /\ JsopOK(cmd, arg, Top.sub) /\ Top.sub.member = <<>>
        /\ Top.sub.depth = Top.jo.depth - 1
        /\ IterationOK(Top.v, Top.it)
    BY <1>1, ArrayFrame
  <1>3. Awaits(Top) = g
    BY <1>1, <1>2, OverSteps
  <1>4. OnElement(Top.v, Top.it)
    <2>1. ArrayOf(Top.v).js \in Nat /\ Position(Top.it) \in Nat
      BY <1>2, ArrayIs DEF Position, Iteration
    <2>2. Position(Top.it) < ArrayOf(Top.v).js
      BY <1>1, <1>2, <2>1 DEF PastEnd
    <2> QED
      BY <1>1, <1>2, <2>2, ElementReached
  <1>5. w \in Values
    <2> DEFINE p == Position(Top.it)
    <2>1. /\ Len(Elements(Heap[Top.v])) \in Nat
          /\ Len(Elements(Heap[Top.v])) <= Len(Heap[Top.v].words)
      BY <1>2, ArrayIs
    <2>2. p < Len(Elements(Heap[Top.v])) /\ p \in Nat
      BY <1>2, <1>4 DEF OnElement, Position, Iteration
    <2>3. Heap[Top.v].words \in Seq(Values)
      BY <1>2, HeapTyped
    <2> HIDE DEF p
    <2>4. Len(Heap[Top.v].words) \in Nat
      BY <2>3
    <2>5. p + 1 \in 1..Len(Heap[Top.v].words)
      BY <2>1, <2>2, <2>4
    <2>6. Heap[Top.v].words[p + 1] \in Values
      BY <2>3, <2>5, SeqItem
    <2> QED
      BY <2>6 DEF p
  <1> HIDE DEF w
  <1>6. FrameOK(cmd, arg, f) /\ ~Waiting(f) /\ f.v = w /\ f.jo = Top.sub /\ f.op = "value"
    <2> DEFINE e == Top.sub
    <2>1. JsopOK(cmd, arg, e) /\ e.member = <<>>
      BY <1>2
    <2> HIDE DEF e
    <2>2. /\ FrameOK(cmd, arg, Visit(w, e)) /\ ~Waiting(Visit(w, e)) /\ Visit(w, e).v = w
          /\ Visit(w, e).jo = e /\ Visit(w, e).op = "value"
      BY <1>5, <2>1, VisitOK
    <2> QED
      BY <2>2 DEF e
  <1>7. /\ g.op = "elements" /\ g.v = Top.v /\ g.jo = Top.jo /\ g.after = TRUE
        /\ g.sub = Top.sub /\ g.it = Top.it /\ g = Over(g.v, g.jo, g.after, g.sub, g.it)
    BY DEF Over
  <1> HIDE DEF f, g
  <1>8. FrameOK(cmd, arg, g) /\ Waiting(g)
    <2>1. ElementsOK(cmd, arg, g)
      BY <1>2, <1>4, <1>7 DEF ElementsOK
    <2>2. g.v \in Values /\ g.it \in Iteration /\ JsopOK(cmd, arg, g.jo)
      BY <1>2, <1>7
    <2>3. g.after \in BOOLEAN /\ g.after
      BY <1>7
    <2> QED
      BY <1>7, <2>1, <2>2, <2>3, OverOK
  <1>9. Calling(f, g)
    <2>1. Callee(g) = w
      BY <1>7 DEF Callee, w
    <2>2. Under(f.jo, g)
      BY <1>2, <1>6, <1>7 DEF Under
    <2> QED
      BY <1>6, <1>8, <2>1, <2>2 DEF Calling
  <1>10. Kept(cmd, arg, <<f, g>> \o Tail(stack), ret.jo)
    BY <1>2, <1>6, <1>7, <1>8, <1>9, KeptCalls DEF Top
  <1> QED
    BY <1>1, <1>3, <1>10 DEF Next1

LEMMA EndElementKept ==
    ASSUME Ready, EndElement
    PROVE  Next1
  <1> DEFINE it == Answered(Top.it, 0)
             f == Over(Top.v, Top.jo, FALSE, ret.jo, it)
  <1>1. /\ Top.op = "elements" /\ Top.after
        /\ stack' = <<GoesPast(Top, ret.jo, it)>> \o Tail(stack) /\ ret' = ret
    BY DEF EndElement, Doing, Becomes, Rest, GoesPast
  <1>2. /\ StackOK(cmd, arg, stack) /\ Top \in Frame
        /\ Top.v \in Values /\ JsopOK(cmd, arg, Top.jo) /\ stack # <<>>
        /\ Top.it \in Iteration
        /\ Heap[Top.v].kind = "array" /\ Heap[Top.v].length > 0 /\ Heap[Top.v].rv = 0
        /\ Top.jo.member = <<>> /\ Top.jo.depth > 0
        /\ IterationOK(Top.v, Top.it) /\ OnElement(Top.v, Top.it)
    BY <1>1, ArrayFrame
  <1>3. GoesPast(Top, ret.jo, it) = f
    <2> DEFINE r == ret.jo
    <2> HIDE DEF it, r
    <2>1. GoesPast(Top, r, it) = Over(Top.v, Top.jo, FALSE, r, it)
      BY <1>1, <1>2, PastStep
    <2> QED
      BY <2>1 DEF r
  <1>4. RetOK(cmd, arg, ret.jo) /\ Under(ret.jo, Top)
    <2>1. Waiting(Top)
      BY <1>1 DEF Waiting
    <2> QED
      BY <2>1, TopIs
  <1>5. ret.jo.member = <<>> /\ ret.jo.depth = Top.jo.depth - 1
    BY <1>2, <1>4 DEF Under
  <1>6. JsopOK(cmd, arg, ret.jo)
    <2>1. Leads(cmd, arg)
      BY <1>2 DEF JsopOK
    <2> QED
      BY <1>4, <1>5, <2>1 DEF JsopOK, RetOK
  <1>7. it \in Iteration /\ IterationOK(Top.v, it)
    BY <1>2, AnsweredOK DEF OnElement, InPage
  <1> HIDE DEF it
  <1>8. /\ f.op = "elements" /\ f.v = Top.v /\ f.jo = Top.jo /\ f.after = FALSE
        /\ f.sub = ret.jo /\ f.it = it /\ f = Over(f.v, f.jo, f.after, f.sub, f.it)
    BY DEF Over
  <1> HIDE DEF f
  <1>9. FrameOK(cmd, arg, f) /\ ~Waiting(f)
    <2>1. f.after \in BOOLEAN /\ ~f.after
      BY <1>8
    <2>2. ElementsOK(cmd, arg, f)
      BY <1>2, <1>5, <1>6, <1>7, <1>8, <2>1 DEF ElementsOK
    <2>3. f.v \in Values /\ f.it \in Iteration /\ JsopOK(cmd, arg, f.jo)
      BY <1>2, <1>7, <1>8
    <2> QED
      BY <1>8, <2>1, <2>2, <2>3, OverOK
  <1>10. Kept(cmd, arg, <<f>> \o Tail(stack), ret.jo)
    BY <1>2, <1>8, <1>9, KeptBecomes DEF Top
  <1> QED
    BY <1>1, <1>3, <1>10 DEF Next1

Frames == \/ Leaf \/ Closes \/ IndexOnObject
          \/ OpenObject \/ PrintName \/ EndProperty
          \/ FindMember \/ OtherMember \/ EnterMember \/ LeaveMember \/ EndMembers
          \/ EnterElement \/ LeaveElement
          \/ OpenArray \/ NextPage \/ StopElements \/ PrintElement \/ EndElement \/ EndElements

LEMMA FramesKept ==
    ASSUME Ready, Frames
    PROVE  Next1
  <1>1. CASE Leaf \/ Closes \/ IndexOnObject
    BY <1>1, EndsKept
  <1>2. CASE NextPage \/ StopElements \/ EndElements
    BY <1>2, IteratesKept
  <1> QED
    BY <1>1, <1>2, OpenObjectKept, PrintNameKept, EndPropertyKept, FindMemberKept,
       OtherMemberKept, EnterMemberKept, LeaveMemberKept, EndMembersKept, EnterElementKept,
       LeaveElementKept, OpenArrayKept, PrintElementKept, EndElementKept DEF Frames

-----------------------------------------------------------------------------
(* What is still to be printed.                                            *)

All(c, m) == Rendered(c, m - 1)
Final(c, m) == All(c, m)[c.depth][Goal(c, m)]

PropsOf(c, m, f) == Properties(Heap[f.v], All(c, m)[f.jo.depth - 1])
MembersOf(c, m, f) == Members(Heap[f.v], All(c, m)[f.jo.depth - 1])

Opening(f) == IF f.i = 1 /\ (Heap[f.v].props # <<>> \/ Heap[f.v].rv = 0) THEN <<"{">> ELSE <<>>
Closing(f) == IF Heap[f.v].rv = 0 THEN <<"}">> ELSE <<>>
Comma(f) == IF Heap[f.v].length = 1 THEN <<>> ELSE <<",">>

\* the iteration has come to its end
Over1(it) == it.at = "done" \/ it.rv # 0

OfPath(c, m, f) ==
    IF f.op = "value" \/ (f.op = "match" /\ ~f.after /\ Later(f) # {}) THEN Final(c, m) ELSE <<>>

OfProps(c, m, f) ==
    IF f.after THEN <<",">> \o From(PropsOf(c, m, f), f.i + 1) \o Closing(f)
    ELSE Opening(f) \o From(PropsOf(c, m, f), f.i) \o Closing(f)

OfElements(c, m, f) ==
    IF Over1(f.it) THEN <<"]">>
    ELSE IF f.after THEN Comma(f) \o From(MembersOf(c, m, f), Position(f.it) + 2) \o <<"]">>
    ELSE From(MembersOf(c, m, f), Reached(f.it) + 1) \o <<"]">>

\* what the frame f prints from where it is
Pending(c, m, f) ==
    IF f.jo.member # <<>> THEN OfPath(c, m, f)
    ELSE IF f.op = "value" THEN All(c, m)[f.jo.depth][f.v]
    ELSE IF f.op = "props" THEN OfProps(c, m, f) ELSE OfElements(c, m, f)

Text(c, m, st) == FlattenSeq([k \in 1..Len(st) |-> Pending(c, m, st[k])])

LEMMA AllTyped ==
    ASSUME NEW c, NEW m, Printing(c, m), NEW d \in Nat, d <= c.depth
    PROVE  /\ All(c, m)[d] \in Inside /\ d \in 0..c.depth
           /\ All(c, m)[d] = ShownWith(All(c, m), c, m - 1, d)
           /\ \A v \in Values : All(c, m)[d][v] \in Texts
  <1>1. c \in Command /\ c.depth \in Nat
    BY CommandTyped DEF Printing
  <1>2. d \in 0..c.depth
    BY <1>1
  <1>3. All(c, m)[d] \in Inside /\ All(c, m)[d] = ShownWith(All(c, m), c, m - 1, d)
    BY <1>1, <1>2, RenderedIs DEF All
  <1> QED
    BY <1>2, <1>3 DEF Inside

LEMMA FinalTyped ==
    ASSUME NEW c, NEW m, Printing(c, m), Leads(c, m)
    PROVE  Final(c, m) \in Texts /\ Goal(c, m) \in Values
  <1>1. c \in Command /\ c.depth \in Nat /\ PathOf(c, m) \in Path
    BY CommandTyped DEF Printing
  <1>2. Goal(c, m) \in Values
    <2> DEFINE n == Len(PathOf(c, m))
               t == Trail(c, PathOf(c, m))
    <2>1. /\ n \in Nat /\ \A i \in 0..n : t[i] \in Values \cup {Nowhere}
          /\ Destination(c, PathOf(c, m)) = t[n]
      BY <1>1, TrailIs
    <2> HIDE DEF n, t
    <2>2. t[n] \in Values \cup {Nowhere}
      BY <2>1
    <2> QED
      BY <2>1, <2>2 DEF Goal, Leads
  <1>3. c.depth <= c.depth
    BY <1>1
  <1> QED
    BY <1>1, <1>2, <1>3, AllTyped DEF Final

LEMMA PropsAre ==
    ASSUME NEW c, NEW m, Printing(c, m), NEW f, FrameOK(c, m, f), f.op = "props"
    PROVE  LET n == Len(Heap[f.v].props)
           IN  /\ n \in Nat /\ f.i \in Nat /\ f.i \in 1..(n + 1) /\ f.jo.nprops = f.i - 1
               /\ (f.after => f.i \in 1..n) /\ f.v \in Values /\ f.jo.member = <<>>
               /\ f.jo.depth \in Nat /\ f.jo.depth > 0 /\ f.jo.depth - 1 \in Nat
               /\ f.jo.depth <= c.depth
               /\ All(c, m)[f.jo.depth - 1] \in Inside
  <1> DEFINE n == Len(Heap[f.v].props)
             d == f.jo.depth - 1
  <1>1. /\ f \in Frame /\ JsopOK(c, m, f.jo) /\ PropsOK(f)
    BY DEF FrameOK
  <1>2. f.v \in Values /\ f.jo \in Jsop /\ f.i \in Nat /\ f.after \in BOOLEAN
    BY <1>1, FrameFields
  <1>3. /\ f.jo.member = <<>> /\ f.jo.depth > 0 /\ f.i \in 1..(n + 1) /\ f.jo.nprops = f.i - 1
        /\ f.after => f.i <= n
    BY <1>1 DEF PropsOK
  <1>4. n \in Nat
    BY <1>2, HeapTyped
  <1>5. f.jo.depth \in Nat /\ f.jo.depth <= c.depth /\ c.depth \in Nat
    BY <1>1, <1>2, CommandTyped DEF Printing, Jsop, JsopOK
  <1>6. d \in Nat /\ d <= c.depth
    BY <1>3, <1>5
  <1>7. All(c, m)[d] \in Inside
    BY <1>6, AllTyped
  <1>10. f.after => f.i \in 1..n
    BY <1>2, <1>3, <1>4
  <1> HIDE DEF n, d
  <1> QED
    BY <1>2, <1>3, <1>4, <1>5, <1>6, <1>7, <1>10 DEF n, d

\* the parts of an object, from one of them on
PartsOK(c, m, f) ==
    /\ Opening(f) \in Texts /\ Closing(f) \in Texts /\ <<",">> \in Texts
    /\ From(PropsOf(c, m, f), Len(Heap[f.v].props) + 1) = <<>>
    /\ \A i \in 1..(Len(Heap[f.v].props) + 1) : From(PropsOf(c, m, f), i) \in Texts
    /\ \A i \in 1..Len(Heap[f.v].props) :
          From(PropsOf(c, m, f), i) = PropsOf(c, m, f)[i] \o From(PropsOf(c, m, f), i + 1)

LEMMA PropsParts ==
    ASSUME NEW c, NEW m, Printing(c, m), NEW f, FrameOK(c, m, f), f.op = "props"
    PROVE  PartsOK(c, m, f)
  <1> DEFINE n == Len(Heap[f.v].props)
             parts == PropsOf(c, m, f)
             d == f.jo.depth - 1
  <1>1. f.v \in Values /\ All(c, m)[d] \in Inside
    BY PropsAre
  <1>8. parts \in Seq(Texts) /\ Len(parts) = n
    BY <1>1, PropertiesTyped DEF PropsOf
  <1>9. Opening(f) \in Texts /\ Closing(f) \in Texts /\ <<",">> \in Texts
    <2>1. <<>> \in Texts /\ <<"{">> \in Texts /\ <<"}">> \in Texts /\ <<",">> \in Texts
      BY TextsJoin, MarksAre
    <2> QED
      BY <2>1 DEF Opening, Closing
  <1>11. /\ From(parts, Len(parts) + 1) = <<>>
         /\ \A i \in 1..(Len(parts) + 1) : From(parts, i) \in Texts
         /\ \A i \in 1..Len(parts) : From(parts, i) = parts[i] \o From(parts, i + 1)
    <2>1. parts \in Seq(Seq(Pieces))
      BY <1>8 DEF Texts
    <2> HIDE DEF parts
    <2> QED
      BY <2>1, FromIs DEF Texts
  <1> HIDE DEF n, parts, d
  <1>12. /\ From(parts, n + 1) = <<>>
         /\ \A i \in 1..(n + 1) : From(parts, i) \in Texts
         /\ \A i \in 1..n : From(parts, i) = parts[i] \o From(parts, i + 1)
    BY <1>8, <1>11
  <1> QED
    BY <1>9, <1>12 DEF PartsOK, n, parts

\* the parts of an array, from one of its elements on
ElementsPartsOK(c, m, f) ==
    /\ Comma(f) \in Texts /\ <<"]">> \in Texts
    /\ From(MembersOf(c, m, f), Len(Elements(Heap[f.v])) + 1) = <<>>
    /\ \A i \in 1..(Len(Elements(Heap[f.v])) + 1) : From(MembersOf(c, m, f), i) \in Texts
    /\ \A i \in 1..Len(Elements(Heap[f.v])) :
          From(MembersOf(c, m, f), i) = MembersOf(c, m, f)[i] \o From(MembersOf(c, m, f), i + 1)

LEMMA ElementsParts ==
    ASSUME NEW c, NEW m, Printing(c, m), NEW f, FrameOK(c, m, f), f.op = "elements"
    PROVE  ElementsPartsOK(c, m, f)
  <1> DEFINE n == Len(Elements(Heap[f.v]))
             parts == MembersOf(c, m, f)
             d == f.jo.depth - 1
  <1>1. f \in Frame /\ JsopOK(c, m, f.jo) /\ f.jo.depth > 0
    BY DEF FrameOK, ElementsOK
  <1>2. f.v \in Values /\ f.jo \in Jsop
    BY <1>1, FrameFields
  <1>3. n \in Nat
    BY <1>2, ElementsIs
  <1>4. f.jo.depth \in Nat /\ f.jo.depth <= c.depth /\ c.depth \in Nat
    BY <1>1, <1>2, CommandTyped DEF Printing, Jsop, JsopOK
  <1>5. d \in Nat /\ d <= c.depth
    BY <1>1, <1>4
  <1>6. All(c, m)[d] \in Inside
    BY <1>5, AllTyped
  <1>7. parts \in Seq(Texts) /\ Len(parts) = n
    BY <1>2, <1>6, MembersTyped DEF MembersOf
  <1>8. Comma(f) \in Texts /\ <<"]">> \in Texts
    <2>1. <<>> \in Texts /\ <<",">> \in Texts /\ <<"]">> \in Texts
      BY TextsJoin, MarksAre
    <2> QED
      BY <2>1 DEF Comma
  <1>9. /\ From(parts, Len(parts) + 1) = <<>>
        /\ \A i \in 1..(Len(parts) + 1) : From(parts, i) \in Texts
        /\ \A i \in 1..Len(parts) : From(parts, i) = parts[i] \o From(parts, i + 1)
    <2>1. parts \in Seq(Seq(Pieces))
      BY <1>7 DEF Texts
    <2> HIDE DEF parts
    <2> QED
      BY <2>1, FromIs DEF Texts
  <1> HIDE DEF n, parts, d
  <1>10. /\ From(parts, n + 1) = <<>>
         /\ \A i \in 1..(n + 1) : From(parts, i) \in Texts
         /\ \A i \in 1..n : From(parts, i) = parts[i] \o From(parts, i + 1)
    BY <1>7, <1>9
  <1> QED
    BY <1>8, <1>10 DEF ElementsPartsOK, n, parts

LEMMA ElementsAre ==
    ASSUME NEW c, NEW m, NEW f, FrameOK(c, m, f), f.op = "elements"
    PROVE  LET n == Len(Elements(Heap[f.v]))
           IN  /\ n \in Nat /\ Reached(f.it) \in Nat /\ Position(f.it) \in Nat
               /\ f.after => Position(f.it) < n
               /\ ~Over1(f.it) => Reached(f.it) <= n
  <1> DEFINE n == Len(Elements(Heap[f.v]))
  <1>1. f \in Frame /\ ElementsOK(c, m, f)
    BY DEF FrameOK
  <1>2. f.v \in Values /\ f.it \in Iteration
    BY <1>1, FrameFields
  <1>3. IterationOK(f.v, f.it) /\ (f.after => OnElement(f.v, f.it))
    BY <1>1 DEF ElementsOK
  <1>4. n \in Nat
    BY <1>2, ElementsIs
  <1>5. Reached(f.it) \in Nat /\ Position(f.it) \in Nat
    BY <1>2 DEF Reached, Position, Iteration
  <1>6. f.after => Position(f.it) < n
    BY <1>3 DEF OnElement
  <1>7. ~Over1(f.it) => Reached(f.it) <= n
    BY <1>3 DEF Over1, IterationOK
  <1> HIDE DEF n
  <1> QED
    BY <1>4, <1>5, <1>6, <1>7 DEF n

LEMMA PendingTyped ==
    ASSUME NEW c, NEW m, Printing(c, m), Leads(c, m), NEW f, FrameOK(c, m, f)
    PROVE  Pending(c, m, f) \in Texts
  <1>1. f \in Frame /\ JsopOK(c, m, f.jo)
    BY DEF FrameOK
  <1>2. /\ f.op \in {"value", "index", "props", "match", "elements"}
        /\ f.v \in Values /\ f.jo \in Jsop
    BY <1>1, FrameFields
  <1>3. CASE f.jo.member # <<>>
    <2>1. Final(c, m) \in Texts /\ <<>> \in Texts
      BY FinalTyped, TextsJoin
    <2> QED
      BY <1>3, <2>1 DEF Pending, OfPath
  <1>4. CASE f.jo.member = <<>> /\ f.op = "value"
    <2>1. f.jo.depth \in Nat /\ f.jo.depth <= c.depth
      BY <1>1, <1>2 DEF JsopOK, Jsop
    <2>2. All(c, m)[f.jo.depth][f.v] \in Texts
      BY <1>2, <2>1, AllTyped
    <2> QED
      BY <1>4, <2>2 DEF Pending
  <1>5. CASE f.jo.member = <<>> /\ f.op = "props"
    <2> DEFINE n == Len(Heap[f.v].props)
               F(i) == From(PropsOf(c, m, f), i)
    <2>1. /\ n \in Nat /\ f.i \in Nat /\ f.i \in 1..(n + 1)
          /\ f.after => f.i \in 1..n
          /\ Opening(f) \in Texts /\ Closing(f) \in Texts /\ <<",">> \in Texts
          /\ \A i \in 1..(n + 1) : F(i) \in Texts
      BY <1>5, PropsAre, PropsParts DEF PartsOK
    <2> HIDE DEF n, F
    <2>2. F(f.i) \in Texts /\ (f.after => F(f.i + 1) \in Texts)
      <3>1. n \in Nat /\ (f.after => f.i \in 1..n)
        BY <2>1
      <3>2. ASSUME f.after PROVE f.i + 1 \in 1..(n + 1)
        <4> DEFINE i == f.i
        <4>1. i \in 1..n
          BY <3>1, <3>2
        <4> HIDE DEF i
        <4>2. i + 1 \in 1..(n + 1)
          BY <3>1, <4>1
        <4> QED
          BY <4>2 DEF i
      <3> QED
        BY <2>1, <3>2
    <2>3. /\ Opening(f) \o F(f.i) \o Closing(f) \in Texts
          /\ f.after => <<",">> \o F(f.i + 1) \o Closing(f) \in Texts
      BY <2>1, <2>2, TextsJoin
    <2>4. OfProps(c, m, f) \in Texts
      BY <2>3 DEF OfProps, F
    <2> QED
      BY <1>5, <2>4 DEF Pending
  <1>6. CASE f.jo.member = <<>> /\ f.op \notin {"value", "props"}
    <2>1. f.op = "elements"
      <3>1. f.op # "match" /\ f.op # "index"
        BY <1>6 DEF FrameOK, MatchOK, IndexOK
      <3> QED
        BY <1>2, <1>6, <3>1
    <2> DEFINE n == Len(Elements(Heap[f.v]))
               F(i) == From(MembersOf(c, m, f), i)
    <2>2. /\ n \in Nat /\ Reached(f.it) \in Nat /\ Position(f.it) \in Nat
          /\ f.after => Position(f.it) < n
          /\ ~Over1(f.it) => Reached(f.it) <= n
      BY <2>1, ElementsAre
    <2>3. /\ Comma(f) \in Texts /\ <<"]">> \in Texts
          /\ \A i \in 1..(n + 1) : F(i) \in Texts
      <3>1. ElementsPartsOK(c, m, f)
        BY <2>1, ElementsParts
      <3> QED
        BY <3>1 DEF ElementsPartsOK
    <2> HIDE DEF n, F
    <2>4. f.after => F(Position(f.it) + 2) \in Texts
      <3>1. f.after => Position(f.it) + 2 \in 1..(n + 1)
        BY <2>2
      <3> QED
        BY <2>3, <3>1
    <2>5. ~Over1(f.it) => F(Reached(f.it) + 1) \in Texts
      <3>1. ~Over1(f.it) => Reached(f.it) + 1 \in 1..(n + 1)
        BY <2>2
      <3> QED
        BY <2>3, <3>1
    <2>6. /\ f.after => Comma(f) \o F(Position(f.it) + 2) \o <<"]">> \in Texts
          /\ ~Over1(f.it) => F(Reached(f.it) + 1) \o <<"]">> \in Texts
      BY <2>3, <2>4, <2>5, TextsJoin
    <2>7. OfElements(c, m, f) \in Texts
      BY <2>3, <2>6 DEF OfElements, F
    <2> QED
      BY <1>6, <2>7 DEF Pending
  <1> QED
    BY <1>3, <1>4, <1>5, <1>6

LEMMA TextNone ==
    ASSUME NEW c, NEW m
    PROVE  Text(c, m, <<>>) = <<>>
  <1>1. [k \in 1..Len(<<>>) |-> Pending(c, m, <<>>[k])] = <<>>
    OBVIOUS
  <1> QED
    BY <1>1, FlattenNone DEF Text

LEMMA TextIs ==
    ASSUME NEW c, NEW m, Printing(c, m), Leads(c, m),
           NEW r, StackOK(c, m, r), NEW f, FrameOK(c, m, f)
    PROVE  /\ Text(c, m, <<f>> \o r) = Pending(c, m, f) \o Text(c, m, r)
           /\ Text(c, m, r) \in Texts /\ Pending(c, m, f) \in Texts
  <1> DEFINE P(k) == Pending(c, m, r[k])
             ps == [k \in 1..Len(r) |-> P(k)]
             x == Pending(c, m, f)
             s == <<f>> \o r
             qs == [k \in 1..Len(s) |-> Pending(c, m, s[k])]
             t == <<x>> \o ps
  <1>1. r \in Seq(Frame) /\ Len(r) \in Nat /\ \A k \in 1..Len(r) : FrameOK(c, m, r[k])
    BY DEF StackOK
  <1>2. f \in Frame
    BY DEF FrameOK
  <1>3. x \in Texts /\ \A k \in 1..Len(r) : P(k) \in Texts
    BY <1>1, PendingTyped
  <1>4. /\ Len(s) = Len(r) + 1 /\ s[1] = f /\ \A k \in 1..Len(r) : s[k + 1] = r[k]
    BY <1>1, <1>2, StackPushed
  <1>5. ps \in Seq(Texts) /\ Len(ps) = Len(r) /\ \A k \in 1..Len(r) : ps[k] = Pending(c, m, r[k])
    <2>1. \A k \in 1..Len(r) : P(k) \in Texts
      BY <1>3
    <2>2. ps \in Seq(Texts) /\ Len(ps) = Len(r) /\ \A k \in 1..Len(r) : ps[k] = P(k)
      <3> HIDE DEF P
      <3> QED
        BY <1>1, <2>1
    <2> QED
      BY <2>2 DEF P
  <1> HIDE DEF s, ps, x
  <1>6. /\ t \in Seq(Texts) /\ Len(t) = Len(r) + 1 /\ t[1] = x
        /\ \A k \in 1..Len(r) : t[k + 1] = ps[k]
    BY <1>1, <1>3, <1>5, StackPushed
  <1> HIDE DEF t
  <1>7. ASSUME NEW k \in 1..Len(s) PROVE Pending(c, m, s[k]) = t[k]
    <2>1. CASE k = 1
      BY <1>4, <1>6, <2>1 DEF x
    <2>2. CASE k # 1
      <3>1. k - 1 \in 1..Len(r) /\ (k - 1) + 1 = k
        BY <1>1, <1>4, <2>2
      <3>2. s[k] = r[k - 1] /\ t[k] = ps[k - 1] /\ ps[k - 1] = Pending(c, m, r[k - 1])
        BY <1>4, <1>5, <1>6, <3>1
      <3> QED
        BY <3>2
    <2> QED
      BY <2>1, <2>2
  <1>8. qs = t
    <2>1. qs = [k \in 1..Len(s) |-> t[k]]
      BY <1>7
    <2>2. t = [k \in 1..Len(s) |-> t[k]]
      BY <1>1, <1>4, <1>6
    <2> QED
      BY <2>1, <2>2
  <1>9. ps \in Seq(Seq(Pieces)) /\ x \in Seq(Pieces)
    BY <1>3, <1>5 DEF Texts
  <1>10. FlattenSeq(t) = x \o FlattenSeq(ps)
    BY <1>9, FlattenFirst DEF t
  <1>11. FlattenSeq(ps) \in Texts
    BY <1>9, FlattenTyped DEF Texts
  <1>12. Text(c, m, s) = FlattenSeq(qs)
    BY DEF Text
  <1>13. Text(c, m, r) = FlattenSeq(ps)
    BY DEF Text, ps
  <1> QED
    BY <1>3, <1>8, <1>10, <1>11, <1>12, <1>13 DEF s, x

-----------------------------------------------------------------------------
(* What the buffer holds and what is still to be printed.                  *)

Exact(c, m, b, st) == b.left > 0 /\ b.out \o Text(c, m, st) = Final(c, m)

\* a step prints x, which is the beginning of what was to be printed
Prints(x) ==
    /\ x \in Texts /\ (buf' = Put(buf, x) \/ (x = <<>> /\ buf' = buf))
    /\ Text(cmd, arg, stack) = x \o Text(cmd, arg, stack')

LEMMA StackText ==
    ASSUME NEW c, NEW m, Printing(c, m), Leads(c, m), NEW st, StackOK(c, m, st)
    PROVE  Text(c, m, st) \in Texts
  <1>1. CASE st = <<>>
    BY <1>1, TextNone, TextsJoin
  <1>2. CASE st # <<>>
    <2> DEFINE r == Tail(st)
               f == st[1]
    <2>1. StackOK(c, m, r) /\ FrameOK(c, m, f) /\ st = <<f>> \o r
      BY <1>2, StackShrinks
    <2> HIDE DEF r, f
    <2>2. /\ Text(c, m, <<f>> \o r) = Pending(c, m, f) \o Text(c, m, r)
          /\ Text(c, m, r) \in Texts /\ Pending(c, m, f) \in Texts
      BY <2>1, TextIs
    <2> QED
      BY <2>1, <2>2, TextsJoin
  <1> QED
    BY <1>1, <1>2

LEMMA ExactKept ==
    ASSUME Ready, Next1, Leads(cmd, arg), buf \in Buffer,
           buf.left = 0 \/ Exact(cmd, arg, buf, stack), NEW x, Prints(x)
    PROVE  /\ buf' \in Buffer
           /\ buf'.left = 0 \/ Exact(cmd, arg, buf', stack')
  <1> DEFINE t == Text(cmd, arg, stack)
             u == Text(cmd, arg, stack')
  <1>1. Printing(cmd, arg) /\ StackOK(cmd, arg, stack')
    BY DEF Ready, Next1, Kept
  <1>2. u \in Texts
    BY <1>1, StackText
  <1>3. x \in Texts /\ t = x \o u /\ (buf' = Put(buf, x) \/ (x = <<>> /\ buf' = buf))
    BY DEF Prints
  <1>4. buf.out \in Texts /\ buf.left \in Nat
    BY DEF Buffer
  <1> DEFINE b == Put(buf, x)
  <1>5. /\ b \in Buffer /\ (b.left = 0 \/ (b.left > 0 /\ b.out = buf.out \o x))
        /\ buf.left = 0 => b.left = 0
    BY <1>3, PutIs
  <1> HIDE DEF b, t, u
  <1>6. (buf.out \o x) \o u = buf.out \o t
    BY <1>2, <1>3, <1>4, TextsJoin
  <1>7. x = <<>> => u = t
    BY <1>2, <1>3, TextsJoin
  <1>8. buf.left = 0 \/ buf.out \o t = Final(cmd, arg)
    BY DEF Exact, t
  <1>9. CASE buf' = b
    BY <1>5, <1>6, <1>8, <1>9 DEF Exact, u
  <1>10. CASE x = <<>> /\ buf' = buf
    BY <1>4, <1>7, <1>8, <1>10 DEF Exact, u
  <1> QED
    BY <1>3, <1>9, <1>10 DEF b

LEMMA FirstFrame ==
    ASSUME NEW c, NEW m, NEW T, NEW r \in Seq(T), NEW f, StackOK(c, m, <<f>> \o r)
    PROVE  FrameOK(c, m, f) /\ StackOK(c, m, r)
  <1> DEFINE S == T \cup {f}
             st == <<f>> \o r
  <1>1. r \in Seq(S) /\ f \in S
    BY SeqMonotonic
  <1> HIDE DEF S
  <1>2. st # <<>> /\ st[1] = f /\ Tail(st) = r
    BY <1>1, StackPushed
  <1> HIDE DEF st
  <1>3. StackOK(c, m, st)
    BY DEF st
  <1> QED
    BY <1>2, <1>3, StackShrinks

\* what the frame on top and those below it print
LEMMA TopText ==
    ASSUME Ready, Leads(cmd, arg)
    PROVE  /\ Text(cmd, arg, stack) = Pending(cmd, arg, Top) \o Text(cmd, arg, Tail(stack))
           /\ Text(cmd, arg, Tail(stack)) \in Texts /\ Pending(cmd, arg, Top) \in Texts
  <1> DEFINE r == Tail(stack)
             f == Top
  <1>1. Printing(cmd, arg) /\ StackOK(cmd, arg, stack) /\ stack # <<>>
    BY DEF Ready, Kept
  <1>2. StackOK(cmd, arg, r) /\ FrameOK(cmd, arg, f) /\ stack = <<f>> \o r
    BY <1>1, StackShrinks DEF Top
  <1> HIDE DEF r, f
  <1>3. /\ Text(cmd, arg, <<f>> \o r) = Pending(cmd, arg, f) \o Text(cmd, arg, r)
        /\ Text(cmd, arg, r) \in Texts /\ Pending(cmd, arg, f) \in Texts
    BY <1>1, <1>2, TextIs
  <1>4. Text(cmd, arg, stack) = Pending(cmd, arg, f) \o Text(cmd, arg, r)
    BY <1>2, <1>3
  <1> QED
    BY <1>3, <1>4 DEF r, f

\* a frame takes the place of the one on top
LEMMA BecomesText ==
    ASSUME Ready, Next1, Leads(cmd, arg), NEW f, stack' = <<f>> \o Tail(stack),
           NEW x \in Texts, Pending(cmd, arg, Top) = x \o Pending(cmd, arg, f)
    PROVE  Text(cmd, arg, stack) = x \o Text(cmd, arg, stack')
  <1> DEFINE r == Tail(stack)
             P(g) == Pending(cmd, arg, g)
  <1>1. /\ Printing(cmd, arg) /\ StackOK(cmd, arg, stack) /\ stack # <<>>
        /\ StackOK(cmd, arg, <<f>> \o r)
    BY DEF Ready, Next1, Kept
  <1>2. StackOK(cmd, arg, r) /\ FrameOK(cmd, arg, Top) /\ stack = <<Top>> \o r /\ r \in Seq(Frame)
    BY <1>1, StackShrinks DEF Top
  <1> HIDE DEF r
  <1>3. FrameOK(cmd, arg, f)
    BY <1>1, <1>2, FirstFrame
  <1>4. /\ Text(cmd, arg, <<f>> \o r) = P(f) \o Text(cmd, arg, r)
        /\ Text(cmd, arg, r) \in Texts /\ P(f) \in Texts
    BY <1>1, <1>2, <1>3, TextIs
  <1>5. Text(cmd, arg, stack) = P(Top) \o Text(cmd, arg, r)
    BY TopText DEF r
  <1>6. P(Top) = x \o P(f)
    OBVIOUS
  <1>7. stack' = <<f>> \o r
    BY DEF r
  <1> HIDE DEF P
  <1>8. (x \o P(f)) \o Text(cmd, arg, r) = x \o (P(f) \o Text(cmd, arg, r))
    BY <1>4, TextsJoin
  <1> QED
    BY <1>4, <1>5, <1>6, <1>7, <1>8

LEMMA Pair ==
    ASSUME NEW S, NEW f \in S, NEW g \in S
    PROVE  <<f, g>> = <<f>> \o <<g>> /\ <<f>> \in Seq(S) /\ <<g>> \in Seq(S)
  <1> DEFINE s == <<f>> \o <<g>>
             t == <<f, g>>
  <1>1. <<f>> \in Seq(S) /\ <<g>> \in Seq(S) /\ t \in Seq(S)
    OBVIOUS
  <1>2. s \in Seq(S) /\ Len(s) = 2 /\ s[1] = f /\ s[2] = g
    BY <1>1
  <1>3. Len(t) = 2 /\ t[1] = f /\ t[2] = g
    BY <1>1
  <1> HIDE DEF s, t
  <1>4. \A i \in 1..2 : s[i] = t[i]
    BY <1>2, <1>3
  <1>5. s = t
    BY <1>1, <1>2, <1>3, <1>4, SeqEqual
  <1> QED
    BY <1>1, <1>5 DEF s, t

\* the frame on top calls
LEMMA CallsText ==
    ASSUME Ready, Next1, Leads(cmd, arg), NEW f, NEW g, stack' = <<f, g>> \o Tail(stack),
           NEW x \in Texts,
           Pending(cmd, arg, Top) = x \o (Pending(cmd, arg, f) \o Pending(cmd, arg, g))
    PROVE  Text(cmd, arg, stack) = x \o Text(cmd, arg, stack')
  <1> DEFINE r == Tail(stack)
             P(h) == Pending(cmd, arg, h)
             mid == <<g>> \o r
  <1>1. Printing(cmd, arg) /\ StackOK(cmd, arg, stack) /\ stack # <<>> /\ StackOK(cmd, arg, stack')
    BY DEF Ready, Next1, Kept
  <1>2. StackOK(cmd, arg, r) /\ FrameOK(cmd, arg, Top) /\ stack = <<Top>> \o r /\ r \in Seq(Frame)
    BY <1>1, StackShrinks DEF Top
  <1> HIDE DEF r
  <1> DEFINE S == Frame \cup {f, g}
  <1>3. f \in S /\ g \in S /\ r \in Seq(S)
    BY <1>2, SeqMonotonic
  <1> HIDE DEF S
  <1>4. stack' = <<f>> \o mid /\ mid \in Seq(S)
    <2>1. <<f, g>> = <<f>> \o <<g>> /\ <<f>> \in Seq(S) /\ <<g>> \in Seq(S)
      BY <1>3, Pair
    <2>2. stack' = <<f, g>> \o r
      BY DEF r
    <2>3. mid \in Seq(S)
      BY <1>3, StackPushed
    <2> QED
      BY <1>3, <2>1, <2>2, <2>3, ConcatAssociative
  <1> HIDE DEF mid
  <1>5. StackOK(cmd, arg, mid) /\ FrameOK(cmd, arg, f)
    BY <1>1, <1>4, FirstFrame
  <1>50. FrameOK(cmd, arg, g)
    BY <1>2, <1>5, FirstFrame DEF mid
  <1>6. Text(cmd, arg, stack') = P(f) \o Text(cmd, arg, mid) /\ P(f) \in Texts
    <2>1. /\ Text(cmd, arg, <<f>> \o mid) = Pending(cmd, arg, f) \o Text(cmd, arg, mid)
          /\ Text(cmd, arg, mid) \in Texts /\ Pending(cmd, arg, f) \in Texts
      BY <1>1, <1>5, TextIs
    <2>2. Text(cmd, arg, stack') = Text(cmd, arg, <<f>> \o mid)
      BY <1>4
    <2> QED
      BY <2>1, <2>2
  <1>7. /\ Text(cmd, arg, mid) = P(g) \o Text(cmd, arg, r)
        /\ Text(cmd, arg, r) \in Texts /\ P(g) \in Texts
    BY <1>1, <1>2, <1>50, TextIs DEF mid
  <1>8. Text(cmd, arg, stack) = P(Top) \o Text(cmd, arg, r)
    BY TopText DEF r
  <1>9. P(Top) = x \o (P(f) \o P(g))
    OBVIOUS
  <1> HIDE DEF P
  <1> DEFINE t == Text(cmd, arg, r)
             p == P(f)
             q == P(g)
  <1>10. t \in Texts /\ p \in Texts /\ q \in Texts
    BY <1>6, <1>7
  <1> HIDE DEF t, p, q
  <1>11. (x \o (p \o q)) \o t = x \o (p \o (q \o t))
    <2>1. p \o q \in Texts /\ (p \o q) \o t = p \o (q \o t)
      BY <1>10, TextsJoin
    <2>2. (x \o (p \o q)) \o t = x \o ((p \o q) \o t)
      BY <1>10, <2>1, TextsJoin
    <2> QED
      BY <2>1, <2>2
  <1> QED
    BY <1>6, <1>7, <1>8, <1>9, <1>11 DEF t, p, q

\* the frame on top returns
LEMMA ReturnText ==
    ASSUME Ready, Next1, Leads(cmd, arg), stack' = Tail(stack)
    PROVE  Text(cmd, arg, stack) = Pending(cmd, arg, Top) \o Text(cmd, arg, stack')
  BY TopText

-----------------------------------------------------------------------------
(* The end of the path, and values.                                        *)

LEMMA PathFrame ==
    ASSUME NEW c, NEW m, Printing(c, m), NEW f, FrameOK(c, m, f), f.jo.member # <<>>
    PROVE  /\ f.op \in {"value", "match", "index"} /\ f.v \in Values
           /\ OnPath(c, m, f.v, f.jo.member) /\ f.jo.depth = c.depth
           /\ f.jo.member[1] \in PathStep
           /\ Waiting(f) => /\ f.op = "index" \/ (f.op = "match" /\ f.after)
                            /\ Callee(f) = Goes(f.v, f.jo.member[1]) /\ Callee(f) \in Values
  <1>1. /\ f \in Frame /\ JsopOK(c, m, f.jo) /\ OnPath(c, m, f.v, f.jo.member)
        /\ f.op # "props" /\ f.op # "elements"
    BY DEF FrameOK, PropsOK, ElementsOK
  <1>2. f.op \in {"value", "match", "index"} /\ f.v \in Values
    BY <1>1, FrameFields
  <1>3. f.jo.depth = c.depth
    BY <1>1 DEF JsopOK
  <1>4. f.jo.member[1] \in PathStep
    BY <1>1, <1>2, PathGoes
  <1>5. Waiting(f) => f.op = "index" \/ (f.op = "match" /\ f.after)
    BY <1>1 DEF Waiting
  <1>6. ASSUME Waiting(f)
        PROVE  Callee(f) = Goes(f.v, f.jo.member[1]) /\ Callee(f) \in Values
    <2>1. CASE f.op = "index"
      <3>1. Heap[f.v].kind = "array" /\ Indexes(f.jo.member[1], Heap[f.v])
        BY <2>1 DEF FrameOK, IndexOK
      <3>2. /\ Goes(f.v, f.jo.member[1]) = Heap[f.v].words[f.jo.member[1].index + 1]
            /\ Goes(f.v, f.jo.member[1]) \in Values
        BY <1>2, <1>4, <3>1, GoesIndex
      <3>3. Callee(f) = Heap[f.v].words[f.jo.member[1].index + 1]
        BY <2>1 DEF Callee
      <3> QED
        BY <3>2, <3>3
    <2>2. CASE f.op = "match" /\ f.after
      <3>1. Heap[f.v].kind = "object" /\ f.i \in Later(f) /\ f.i \in 1..(Len(Heap[f.v].props) + 1)
        BY <2>2 DEF FrameOK, MatchOK
      <3>2. f.i \in 1..Len(Heap[f.v].props) /\ Matches(f.jo.member[1], Heap[f.v].props[f.i].name)
        <4>1. Len(Heap[f.v].props) \in Nat
          BY <1>2, HeapTyped
        <4> QED
          BY <3>1, <4>1 DEF Later
      <3>3. /\ Goes(f.v, f.jo.member[1]) = Heap[f.v].props[f.i].val
            /\ Goes(f.v, f.jo.member[1]) \in Values
        BY <1>2, <1>4, <3>1, <3>2, GoesMatch
      <3>4. Callee(f) = Heap[f.v].props[f.i].val
        BY <2>2 DEF Callee
      <3> QED
        BY <3>3, <3>4
    <2> QED
      BY <1>5, <1>6, <2>1, <2>2
  <1> QED
    BY <1>1, <1>2, <1>3, <1>4, <1>5, <1>6

LEMMA GoalOfNone ==
    ASSUME NEW c, NEW m, Printing(c, m), PathOf(c, m) = <<>>
    PROVE  Goal(c, m) = c.root
  <1>1. c \in Command /\ <<>> \in Path
    BY DEF Printing, Path
  <1>2. LET t == Trail(c, <<>>) IN t[0] = c.root /\ Destination(c, <<>>) = t[Len(<<>>)]
    BY <1>1, TrailIs
  <1>3. Len(<<>>) = 0
    OBVIOUS
  <1> QED
    BY <1>2, <1>3 DEF Goal

\* what is called for the last step of the path is what the path leads to
LEMMA AtGoal ==
    ASSUME NEW c, NEW m, Printing(c, m), NEW st, StackOK(c, m, st), st # <<>>,
           st[1].jo.member = <<>>,
           Tail(st) = <<>> \/ Tail(st)[1].jo.member # <<>>
    PROVE  st[1].v = Goal(c, m) /\ st[1].jo.depth = c.depth
  <1> DEFINE f == st[1]
             g == Tail(st)[1]
  <1>1. /\ Tail(st) # <<>> => Calling(f, g) /\ FrameOK(c, m, g)
        /\ Tail(st) = <<>> => f.v = c.root /\ Outermost(c, m, f.jo)
    BY StackShrinks
  <1>2. f.jo.member = <<>> /\ (Tail(st) = <<>> \/ g.jo.member # <<>>)
    OBVIOUS
  <1> HIDE DEF f, g
  <1>3. CASE Tail(st) = <<>>
    <2>1. PathOf(c, m) = <<>> /\ f.jo.depth = c.depth /\ f.v = c.root
      BY <1>1, <1>2, <1>3 DEF Outermost
    <2>2. Goal(c, m) = c.root
      BY <2>1, GoalOfNone
    <2> QED
      BY <2>1, <2>2 DEF f
  <1>4. CASE Tail(st) # <<>>
    <2>1. g.jo.member # <<>> /\ Calling(f, g) /\ FrameOK(c, m, g)
      BY <1>1, <1>2, <1>4
    <2>2. Waiting(g) /\ f.v = Callee(g) /\ Under(f.jo, g)
      BY <2>1 DEF Calling
    <2>3. Tail(g.jo.member) = <<>> /\ f.jo.depth = g.jo.depth
      BY <1>2, <2>1, <2>2 DEF Under
    <2>4. /\ g.v \in Values /\ OnPath(c, m, g.v, g.jo.member) /\ g.jo.depth = c.depth
          /\ Callee(g) = Goes(g.v, g.jo.member[1])
      BY <2>1, <2>2, PathFrame
    <2>5. Goes(g.v, g.jo.member[1]) = Goal(c, m)
      BY <2>1, <2>3, <2>4, PathGoes
    <2> QED
      BY <2>2, <2>3, <2>4, <2>5 DEF f
  <1> QED
    BY <1>3, <1>4

Within(c, m, d) == IF d = 0 THEN NotInside ELSE All(c, m)[d - 1]

\* a value that is still to be printed
LEMMA ValueIs ==
    ASSUME NEW c, NEW m, Printing(c, m), NEW f, FrameOK(c, m, f), f.op = "value",
           f.jo.member = <<>>
    PROVE  /\ f.v \in Values /\ f.jo.depth \in Nat /\ f.jo.depth <= c.depth
           /\ Within(c, m, f.jo.depth) \in Inside
           /\ Addresses(c, f.v, m - 1) \in Texts
           /\ Contents(c, Heap[f.v], f.jo.depth, Within(c, m, f.jo.depth)) \in Texts
           /\ Pending(c, m, f) =
                 Addresses(c, f.v, m - 1)
                   \o Contents(c, Heap[f.v], f.jo.depth, Within(c, m, f.jo.depth))
  <1> DEFINE d == f.jo.depth
             r == All(c, m)
  <1>1. f \in Frame /\ JsopOK(c, m, f.jo)
    BY DEF FrameOK
  <1>2. f.v \in Values /\ f.jo \in Jsop
    BY <1>1, FrameFields
  <1>3. d \in Nat /\ d <= c.depth /\ c.depth \in Nat /\ c \in Command
    BY <1>1, <1>2, CommandTyped DEF Jsop, JsopOK, Printing
  <1>4. r[d] = ShownWith(r, c, m - 1, d)
    BY <1>3, AllTyped
  <1>5. Within(c, m, d) \in Inside
    <2>1. CASE d = 0
      <3>1. NotInside \in Inside
        BY TextsJoin DEF NotInside, Inside
      <3> QED
        BY <2>1, <3>1 DEF Within
    <2>2. CASE d # 0
      <3> HIDE DEF d
      <3>1. d - 1 \in Nat /\ d - 1 <= c.depth
        BY <1>3, <2>2
      <3>2. r[d - 1] \in Inside
        BY <3>1, AllTyped
      <3> QED
        BY <2>2, <3>2 DEF Within
    <2> QED
      BY <2>1, <2>2
  <1>6. Pending(c, m, f) = r[d][f.v]
    BY DEF Pending
  <1>7. r[d] = Shown(c, m - 1, d, Within(c, m, d))
    BY <1>4 DEF ShownWith, Within
  <1>8. r[d][f.v] = Addresses(c, f.v, m - 1) \o Contents(c, Heap[f.v], d, Within(c, m, d))
    BY <1>2, <1>7 DEF Shown
  <1>9. /\ Addresses(c, f.v, m - 1) \in Texts
        /\ Contents(c, Heap[f.v], d, Within(c, m, d)) \in Texts
    <2> HIDE DEF d
    <2> QED
      BY <1>2, <1>3, <1>5, AddressesTyped, ContentsTyped
  <1> QED
    BY <1>2, <1>3, <1>5, <1>6, <1>8, <1>9

LEMMA AddressIs ==
    ASSUME Ready, Top.jo.member = <<>>
    PROVE  Address = Addresses(cmd, Top.v, arg - 1)
  <1>1. arg \in Nat
    BY DEF Ready, Printing
  <1>2. arg = 1 <=> arg - 1 = 0
    BY <1>1
  <1> QED
    BY <1>2 DEF Address, Addresses, Base, Whole

-----------------------------------------------------------------------------
(* What the steps print.                                                   *)

\* a value that does not go through a string buffer
LEMMA LeafPrints ==
    ASSUME Ready, Next1, Leads(cmd, arg), buf \in Buffer,
           PrintPlain \/ PrintScalar \/ DepthLimit \/ LoseArray \/ EmptyArray
    PROVE  \E x : Prints(x)
  <1> DEFINE d == Top.jo.depth
             in == Within(cmd, arg, d)
             a == Addresses(cmd, Top.v, arg - 1)
             t == Contents(cmd, Heap[Top.v], d, in)
  <1>1. Leaf
    BY DEF Leaf
  <1>2. Top.jo.member = <<>>
    BY <1>1, EndsWhere
  <1>3. Top.op = "value"
    BY DEF PrintPlain, PrintScalar, DepthLimit, LoseArray, EmptyArray, OnArray, Is, Doing
  <1>4. FrameOK(cmd, arg, Top) /\ Printing(cmd, arg)
    BY TopIs DEF Ready
  <1>5. /\ Top.v \in Values /\ d \in Nat /\ in \in Inside /\ a \in Texts /\ t \in Texts
        /\ Pending(cmd, arg, Top) = a \o t
    BY <1>2, <1>3, <1>4, ValueIs
  <1>6. Address = a
    BY <1>2, AddressIs
  <1>7. stack' = Tail(stack)
    BY DEF PrintPlain, PrintScalar, DepthLimit, LoseArray, EmptyArray, Return, Rest
  <1>8. buf' = Put(buf, a \o t)
    <2>1. CASE PrintPlain \/ PrintScalar
      <3>1. Heap[Top.v].kind \in {"plain", "scalar"} /\ buf' = Put(buf, Address \o Heap[Top.v].text)
        BY <2>1 DEF PrintPlain, PrintScalar, Is, Val
      <3>2. t = Heap[Top.v].text
        BY <3>1 DEF Contents
      <3> QED
        BY <1>6, <3>1, <3>2
    <2>2. CASE DepthLimit
      <3>1. /\ Heap[Top.v].kind \in {"object", "array"} /\ d = 0
            /\ buf' = Put(buf, Address \o <<"[...]">>)
        BY <2>2 DEF DepthLimit, Is, Val
      <3>2. t = <<"[...]">>
        BY <3>1 DEF Contents
      <3> QED
        BY <1>6, <3>1, <3>2
    <2>3. CASE LoseArray
      <3>1. /\ Heap[Top.v].kind = "array" /\ d > 0 /\ Heap[Top.v].length > 0 /\ Heap[Top.v].rv # 0
            /\ buf' = Put(buf, Address)
        BY <2>3 DEF LoseArray, OnArray, Is, Val
      <3>2. d # 0
        BY <1>5, <3>1
      <3> HIDE DEF d
      <3>3. t = <<>>
        BY <3>1, <3>2 DEF Contents
      <3>4. a \o t = a
        BY <1>5, <3>3, TextsJoin
      <3> QED
        BY <1>6, <3>1, <3>4
    <2>4. CASE EmptyArray
      <3>1. /\ Heap[Top.v].kind = "array" /\ d > 0 /\ Heap[Top.v].length = 0
            /\ buf' = Put(buf, Address \o <<"[", "]">>)
        BY <2>4 DEF EmptyArray, OnArray, Is, Val
      <3>2. d # 0 /\ ~(Heap[Top.v].length > 0)
        BY <1>5, <3>1
      <3> HIDE DEF d
      <3>3. t = <<"[">> \o FlattenSeq(Members(Heap[Top.v], in)) \o <<"]">>
        BY <3>1, <3>2 DEF Contents
      <3>4. Members(Heap[Top.v], in) = <<>>
        <4>1. Len(Elements(Heap[Top.v])) = 0
          <5>1. /\ Len(Elements(Heap[Top.v])) \in Nat
                /\ Len(Elements(Heap[Top.v])) <= Heap[Top.v].length
            BY <1>5, ElementsIs
          <5> QED
            BY <3>1, <5>1
        <4>2. Members(Heap[Top.v], in) \in Seq(Texts) /\ Len(Members(Heap[Top.v], in)) = 0
          BY <1>5, <4>1, MembersTyped
        <4> QED
          BY <4>2, NoneOf
      <3>5. FlattenSeq(Members(Heap[Top.v], in)) = <<>>
        BY <3>4, FlattenNone
      <3>6. <<"[">> \in Texts /\ <<"]">> \in Texts /\ <<"[", "]">> = <<"[">> \o <<"]">>
        BY MarksAre, PiecesText
      <3>7. t = <<"[", "]">>
        BY <3>3, <3>5, <3>6, TextsJoin
      <3> QED
        BY <1>6, <3>1, <3>7
    <2> QED
      BY <2>1, <2>2, <2>3, <2>4
  <1>9. a \o t \in Texts
    BY <1>5, TextsJoin
  <1>10. Text(cmd, arg, stack) = (a \o t) \o Text(cmd, arg, stack')
    BY <1>5, <1>7, ReturnText
  <1> HIDE DEF a, t
  <1> DEFINE x == a \o t
  <1>11. Prints(x)
    BY <1>8, <1>9, <1>10 DEF Prints
  <1> QED
    BY <1>11

LEMMA OpenObjectPrints ==
    ASSUME Ready, Next1, Leads(cmd, arg), buf \in Buffer, OpenObject
    PROVE  \E x : Prints(x)
  <1> DEFINE d == Top.jo.depth
             in == Within(cmd, arg, d)
             a == Addresses(cmd, Top.v, arg - 1)
             t == Contents(cmd, Heap[Top.v], d, in)
             jo == [Descended(Top.jo) EXCEPT !.nprops = 0]
             f == At("props", Top.v, jo, 1, FALSE)
             h == Heap[Top.v]
             parts == Properties(h, in)
  <1>1. /\ h.kind = "object" /\ Top.jo.member = <<>> /\ d > 0 /\ Top.op = "value"
        /\ stack' = <<f>> \o Tail(stack) /\ buf' = Put(buf, Address)
    BY DEF OpenObject, Is, Doing, Val, Whole, Becomes, Loop, Rest, At
  <1>2. FrameOK(cmd, arg, Top) /\ Printing(cmd, arg) /\ Top.jo \in Jsop
    BY TopIs DEF Ready
  <1>3. /\ Top.v \in Values /\ d \in Nat /\ in \in Inside /\ a \in Texts /\ t \in Texts
        /\ Pending(cmd, arg, Top) = a \o t
    BY <1>1, <1>2, ValueIs
  <1>4. Address = a
    BY <1>1, AddressIs
  <1>5. d # 0
    BY <1>1, <1>3
  <1>6. f.op = "props" /\ f.v = Top.v /\ f.jo = jo /\ f.i = 1 /\ f.after = FALSE
    BY DEF At
  <1>7. jo.member = <<>> /\ jo.depth = d
    <2>1. Descended(Top.jo) \in Jsop /\ Descended(Top.jo).member = <<>> /\ Descended(Top.jo).depth = d
      BY <1>1, <1>2, JsopsTyped
    <2> DEFINE e == Descended(Top.jo)
    <2> HIDE DEF e
    <2>2. e \in Jsop /\ e.member = <<>> /\ e.depth = d
      BY <2>1 DEF e
    <2>3. [e EXCEPT !.nprops = 0].member = e.member /\ [e EXCEPT !.nprops = 0].depth = e.depth
      BY <2>2 DEF Jsop
    <2> QED
      BY <2>2, <2>3 DEF e
  <1> HIDE DEF f, jo
  <1>8. PropsOf(cmd, arg, f) = parts
    BY <1>5, <1>6, <1>7 DEF PropsOf, Within
  <1>9. parts \in Seq(Texts) /\ From(parts, 1) = FlattenSeq(parts)
    <2>1. parts \in Seq(Seq(Pieces))
      BY <1>3, PropertiesTyped DEF Texts
    <2> HIDE DEF parts
    <2> QED
      BY <2>1, FromIs DEF Texts
  <1>10. t = Opening(f) \o FlattenSeq(parts) \o Closing(f)
    <2>1. t = (IF h.props # <<>> \/ h.rv = 0 THEN <<"{">> ELSE <<>>) \o FlattenSeq(parts)
                \o (IF h.rv = 0 THEN <<"}">> ELSE <<>>)
      <3> HIDE DEF d, parts
      <3>1. t = (IF h.props # <<>> \/ h.rv = 0 THEN <<"{">> ELSE <<>>)
                   \o FlattenSeq(Properties(h, in))
                   \o (IF h.rv = 0 THEN <<"}">> ELSE <<>>)
        BY <1>1, <1>5 DEF Contents
      <3> QED
        BY <3>1 DEF parts
    <2>2. Opening(f) = (IF h.props # <<>> \/ h.rv = 0 THEN <<"{">> ELSE <<>>)
      BY <1>6 DEF Opening
    <2>3. Closing(f) = (IF h.rv = 0 THEN <<"}">> ELSE <<>>)
      BY <1>6 DEF Closing
    <2> QED
      BY <2>1, <2>2, <2>3
  <1>11. Pending(cmd, arg, f) = t
    <2>1. Pending(cmd, arg, f) = OfProps(cmd, arg, f)
      BY <1>6, <1>7 DEF Pending
    <2>2. OfProps(cmd, arg, f) = Opening(f) \o From(PropsOf(cmd, arg, f), f.i) \o Closing(f)
      BY <1>6 DEF OfProps
    <2> QED
      BY <1>6, <1>8, <1>9, <1>10, <2>1, <2>2
  <1> HIDE DEF a, t
  <1>12. Text(cmd, arg, stack) = a \o Text(cmd, arg, stack')
    BY <1>1, <1>3, <1>11, BecomesText
  <1>13. Prints(a)
    BY <1>1, <1>3, <1>4, <1>12 DEF Prints
  <1> QED
    BY <1>13

J(s, t) == s \o t

LEMMA Joins ==
    /\ \A s, t, u \in Texts : J(J(s, t), u) = J(s, J(t, u))
    /\ \A s, t \in Texts : J(s, t) \in Texts
    /\ \A s \in Texts : J(s, <<>>) = s /\ J(<<>>, s) = s
  BY TextsJoin DEF J

LEMMA JoinName ==
    ASSUME NEW o \in Texts, NEW n \in Texts, NEW v \in Texts, NEW c \in Texts, NEW r \in Texts,
           NEW e \in Texts
    PROVE  J(J(o, J(J(J(n, v), c), r)), e) = J(J(o, n), J(v, J(J(c, r), e)))
  <1>1. J(J(n, v), c) = J(n, J(v, c)) /\ J(v, c) \in Texts
    BY Joins
  <1>2. J(J(n, J(v, c)), r) = J(n, J(J(v, c), r)) /\ J(J(v, c), r) \in Texts
    BY <1>1, Joins
  <1>3. J(J(v, c), r) = J(v, J(c, r)) /\ J(c, r) \in Texts
    BY Joins
  <1> DEFINE w == J(v, J(c, r))
  <1>4. w \in Texts /\ J(J(n, v), c) = J(n, J(v, c)) /\ J(J(J(n, v), c), r) = J(n, w)
    BY <1>1, <1>2, <1>3
  <1>5. J(w, e) = J(v, J(J(c, r), e)) /\ J(w, e) \in Texts
    BY <1>3, <1>4, Joins
  <1> HIDE DEF w
  <1>6. J(n, w) \in Texts /\ J(J(n, w), e) = J(n, J(w, e))
    BY <1>4, Joins
  <1>7. J(J(o, J(n, w)), e) = J(o, J(J(n, w), e))
    BY <1>6, Joins
  <1>8. J(J(o, n), J(w, e)) = J(o, J(n, J(w, e)))
    BY <1>5, Joins
  <1> QED
    BY <1>4, <1>5, <1>6, <1>7, <1>8

\* the frame of an object
LEMMA ObjectFrame ==
    ASSUME Ready, Top.op = "props"
    PROVE  LET n == Len(Heap[Top.v].props)
           IN  /\ FrameOK(cmd, arg, Top) /\ Top \in Frame /\ Printing(cmd, arg)
               /\ n \in Nat /\ Top.i \in Nat /\ Top.i \in 1..(n + 1) /\ Top.jo.nprops = Top.i - 1
               /\ (Top.after => Top.i \in 1..n) /\ Top.v \in Values /\ Top.jo.member = <<>>
               /\ Top.jo \in Jsop /\ Top.jo.depth > 0 /\ Top.after \in BOOLEAN
               /\ Top.jo.depth - 1 \in Nat /\ Top.jo.depth <= cmd.depth
               /\ Pending(cmd, arg, Top) = OfProps(cmd, arg, Top)
  <1> DEFINE f == Top
  <1>1. FrameOK(cmd, arg, f) /\ f \in Frame /\ Printing(cmd, arg) /\ f.jo \in Jsop /\ f.op = "props"
    BY TopIs DEF Ready
  <1> HIDE DEF f
  <1>2. LET k == Len(Heap[f.v].props)
        IN  /\ k \in Nat /\ f.i \in Nat /\ f.i \in 1..(k + 1) /\ f.jo.nprops = f.i - 1
            /\ (f.after => f.i \in 1..k) /\ f.v \in Values /\ f.jo.member = <<>>
            /\ f.jo.depth > 0 /\ f.jo.depth - 1 \in Nat /\ f.jo.depth <= cmd.depth
    BY <1>1, PropsAre
  <1>3. f.after \in BOOLEAN
    BY <1>1, FrameFields
  <1>4. Pending(cmd, arg, f) = OfProps(cmd, arg, f)
    BY <1>1, <1>2 DEF Pending
  <1> QED
    BY <1>1, <1>2, <1>3, <1>4 DEF f

\* what is printed of it from a property on
LEMMA ObjectParts ==
    ASSUME Ready, Top.op = "props"
    PROVE  PartsOK(cmd, arg, Top)
  <1>1. FrameOK(cmd, arg, Top) /\ Printing(cmd, arg)
    BY TopIs DEF Ready
  <1> QED
    BY <1>1, PropsParts

LEMMA PrintNamePrints ==
    ASSUME Ready, Next1, Leads(cmd, arg), buf \in Buffer, PrintName
    PROVE  \E x : Prints(x)
  <1> DEFINE n == Len(Heap[Top.v].props)
             parts == PropsOf(cmd, arg, Top)
             d == Top.jo.depth
             p == Heap[Top.v].props[Top.i]
             e == Deeper(Top.jo)
             f == Visit(p.val, e)
             g == At(Top.op, Top.v, Top.jo, Top.i, TRUE)
             open == Opening(Top)
             x == open \o <<p.name>>
             rest == From(parts, Top.i + 1)
  <1>1. /\ Top.op = "props" /\ ~Top.after /\ Top.i <= n
        /\ stack' = <<f, Awaits(Top)>> \o Tail(stack)
        /\ buf' = Put(buf, (IF Top.jo.nprops = 0 THEN <<"{">> ELSE <<>>) \o <<p.name>>)
    BY DEF PrintName, Doing, Val, Calls, Rest, Awaits
  <1>2. /\ FrameOK(cmd, arg, Top) /\ Top \in Frame /\ Printing(cmd, arg)
        /\ n \in Nat /\ Top.i \in Nat /\ Top.i \in 1..(n + 1) /\ Top.jo.nprops = Top.i - 1
        /\ Top.v \in Values /\ Top.jo.member = <<>> /\ Top.jo \in Jsop /\ d > 0
        /\ d - 1 \in Nat /\ d <= cmd.depth
        /\ Pending(cmd, arg, Top) = OfProps(cmd, arg, Top)
    BY <1>1, ObjectFrame
  <1>20. /\ open \in Texts /\ Closing(Top) \in Texts /\ <<",">> \in Texts
         /\ \A i \in 1..(n + 1) : From(parts, i) \in Texts
         /\ \A i \in 1..n : From(parts, i) = parts[i] \o From(parts, i + 1)
    BY <1>1, ObjectParts DEF PartsOK
  <1>3. Top.i \in 1..n /\ Top.i + 1 \in 1..(n + 1)
    <2> DEFINE i == Top.i
    <2>1. n \in Nat /\ i \in Nat /\ i \in 1..(n + 1) /\ i <= n
      BY <1>1, <1>2
    <2> HIDE DEF n, i
    <2>2. i \in 1..n /\ i + 1 \in 1..(n + 1)
      BY <2>1
    <2> QED
      BY <2>2 DEF i
  <1>4. Awaits(Top) = g
    BY <1>1, <1>2, LoopSteps
  <1>5. Heap[Top.v].props # <<>>
    <2>1. Heap[Top.v].props \in Seq(Prop)
      BY <1>2, HeapTyped
    <2> QED
      BY <1>3, <2>1
  <1>6. open = (IF Top.jo.nprops = 0 THEN <<"{">> ELSE <<>>)
    <2>1. Top.jo.nprops = 0 <=> Top.i = 1
      <3> DEFINE i == Top.i
                 k == Top.jo.nprops
      <3>1. i \in Nat /\ k = i - 1
        BY <1>2
      <3> HIDE DEF i, k
      <3>2. k = 0 <=> i = 1
        BY <3>1
      <3> QED
        BY <3>2 DEF i, k
    <2> QED
      BY <1>5, <2>1 DEF Opening
  <1>7. buf' = Put(buf, x)
    BY <1>1, <1>6
  <1>8. /\ d \in Nat /\ d <= cmd.depth /\ d - 1 \in Nat
        /\ All(cmd, arg)[d - 1] \in Inside
    <2>1. d \in Nat /\ d - 1 \in Nat /\ d - 1 <= cmd.depth
      <3>1. d \in Nat /\ cmd.depth \in Nat
        BY <1>2, CommandTyped DEF Jsop, Printing
      <3> HIDE DEF d
      <3> QED
        BY <1>2, <3>1
    <2> DEFINE k == d - 1
    <2>2. k \in Nat /\ k <= cmd.depth
      BY <2>1
    <2> HIDE DEF k
    <2>3. All(cmd, arg)[k] \in Inside
      BY <1>2, <2>2, AllTyped
    <2> QED
      BY <1>2, <2>1, <2>3 DEF k
  <1> DEFINE in == All(cmd, arg)[d - 1]
             v == in[p.val]
  <1>9. /\ parts[Top.i] = <<p.name>> \o v \o <<",">>
        /\ <<p.name>> \in Texts /\ v \in Texts /\ p.val \in Values
    <2> DEFINE i == Top.i
               h == Heap[Top.v]
    <2> HIDE DEF in
    <2>1. /\ h.props[i].val \in Values /\ <<h.props[i].name>> \in Texts
          /\ in[h.props[i].val] \in Texts
          /\ Properties(h, in)[i] = <<h.props[i].name>> \o in[h.props[i].val] \o <<",">>
      <3>1. in \in Inside
        BY <1>8 DEF in
      <3>2. i \in 1..Len(h.props)
        BY <1>3
      <3> QED
        BY <1>2, <3>1, <3>2, PropertiesTyped
    <2>2. parts = Properties(h, in)
      BY DEF PropsOf, in
    <2> QED
      BY <2>1, <2>2
  <1>10. Pending(cmd, arg, f) = v
    <2>1. e.member = <<>> /\ e.depth = d - 1
      BY <1>2, JsopsTyped
    <2>2. f.op = "value" /\ f.v = p.val /\ f.jo = e
      BY DEF Visit
    <2> HIDE DEF e, f
    <2> QED
      BY <2>1, <2>2 DEF Pending
  <1>11. Pending(cmd, arg, g) = <<",">> \o rest \o Closing(Top)
    <2>1. g.op = "props" /\ g.v = Top.v /\ g.jo = Top.jo /\ g.i = Top.i /\ g.after = TRUE
      BY <1>1 DEF At
    <2> HIDE DEF g
    <2>2. Pending(cmd, arg, g) = OfProps(cmd, arg, g)
      BY <1>2, <2>1 DEF Pending
    <2>3. PropsOf(cmd, arg, g) = parts /\ Closing(g) = Closing(Top)
      BY <2>1 DEF PropsOf, Closing
    <2> QED
      BY <2>1, <2>2, <2>3 DEF OfProps
  <1>12. Pending(cmd, arg, Top) = open \o From(parts, Top.i) \o Closing(Top)
    BY <1>1, <1>2 DEF OfProps
  <1>13. From(parts, Top.i) = parts[Top.i] \o rest /\ rest \in Texts
    BY <1>20, <1>3
  <1> DEFINE close == Closing(Top)
             name == <<p.name>>
             comma == <<",">>
  <1>14. /\ open \in Texts /\ close \in Texts /\ name \in Texts /\ comma \in Texts /\ v \in Texts
         /\ rest \in Texts
    BY <1>20, <1>9, <1>13
  <1>15. Pending(cmd, arg, Top) = x \o (Pending(cmd, arg, f) \o Pending(cmd, arg, g))
    <2>1. Pending(cmd, arg, Top) = open \o ((name \o v \o comma) \o rest) \o close
      BY <1>9, <1>12, <1>13
    <2>2. Pending(cmd, arg, f) \o Pending(cmd, arg, g) = v \o (comma \o rest \o close)
      BY <1>10, <1>11
    <2> HIDE DEF open, close, name, comma, v, rest, f, g
    <2>3. open \o ((name \o v \o comma) \o rest) \o close
            = (open \o name) \o (v \o (comma \o rest \o close))
      <3>1. J(J(open, J(J(J(name, v), comma), rest)), close)
              = J(J(open, name), J(v, J(J(comma, rest), close)))
        BY <1>14, JoinName
      <3> QED
        BY <3>1 DEF J
    <2> QED
      BY <2>1, <2>2, <2>3 DEF name
  <1>16. x \in Texts
    BY <1>14, TextsJoin
  <1>17. stack' = <<f, g>> \o Tail(stack)
    BY <1>1, <1>4
  <1> HIDE DEF x, f, g
  <1>18. Text(cmd, arg, stack) = x \o Text(cmd, arg, stack')
    BY <1>15, <1>16, <1>17, CallsText
  <1>19. Prints(x)
    BY <1>7, <1>16, <1>18 DEF Prints
  <1> QED
    BY <1>19

LEMMA EndPropertyPrints ==
    ASSUME Ready, Next1, Leads(cmd, arg), buf \in Buffer, EndProperty
    PROVE  \E x : Prints(x)
  <1> DEFINE n == Len(Heap[Top.v].props)
             parts == PropsOf(cmd, arg, Top)
             jo == [Top.jo EXCEPT !.nprops = @ + 1]
             f == At(Top.op, Top.v, jo, Top.i + 1, FALSE)
             x == <<",">>
             rest == From(parts, Top.i + 1)
  <1>1. /\ Top.op = "props" /\ Top.after /\ buf' = Put(buf, x)
        /\ stack' = <<NextProp(Top)>> \o Tail(stack)
    BY DEF EndProperty, Doing, Becomes, Rest, NextProp
  <1>2. /\ Top \in Frame
        /\ n \in Nat /\ Top.i \in Nat /\ Top.i \in 1..n
        /\ Top.jo.member = <<>> /\ Top.jo \in Jsop
        /\ Pending(cmd, arg, Top) = OfProps(cmd, arg, Top)
    BY <1>1, ObjectFrame
  <1>20. /\ Closing(Top) \in Texts /\ x \in Texts
         /\ \A i \in 1..(n + 1) : From(parts, i) \in Texts
    BY <1>1, ObjectParts DEF PartsOK
  <1>3. NextProp(Top) = f
    BY <1>1, <1>2, LoopSteps
  <1>4. jo.member = <<>> /\ jo.depth = Top.jo.depth
    BY <1>2 DEF Jsop
  <1>5. f.op = "props" /\ f.v = Top.v /\ f.jo = jo /\ f.i = Top.i + 1 /\ f.after = FALSE
    BY <1>1 DEF At
  <1> HIDE DEF f, jo
  <1>6. PropsOf(cmd, arg, f) = parts /\ Closing(f) = Closing(Top)
    BY <1>4, <1>5 DEF PropsOf, Closing
  <1>7. Opening(f) = <<>>
    <2>1. f.i # 1
      <3>1. Top.i \in 1..n /\ n \in Nat /\ f.i = Top.i + 1
        BY <1>2, <1>5
      <3> HIDE DEF n
      <3> QED
        BY <3>1
    <2> QED
      BY <2>1 DEF Opening
  <1>8. Pending(cmd, arg, f) = Opening(f) \o rest \o Closing(Top)
    <2>1. Pending(cmd, arg, f) = OfProps(cmd, arg, f)
      BY <1>4, <1>5 DEF Pending
    <2> QED
      BY <1>5, <1>6, <2>1 DEF OfProps
  <1>9. Pending(cmd, arg, Top) = x \o rest \o Closing(Top)
    BY <1>1, <1>2 DEF OfProps
  <1>10. rest \in Texts
    <2>1. Top.i + 1 \in 1..(n + 1)
      <3> DEFINE i == Top.i
      <3>1. i \in 1..n /\ n \in Nat
        BY <1>2
      <3> HIDE DEF n, i
      <3>2. i + 1 \in 1..(n + 1)
        BY <3>1
      <3> QED
        BY <3>2 DEF i
    <2> QED
      BY <1>20, <2>1
  <1>11. Pending(cmd, arg, Top) = x \o Pending(cmd, arg, f)
    <2> DEFINE close == Closing(Top)
    <2> HIDE DEF rest
    <2>1. close \in Texts /\ x \in Texts
      BY <1>20
    <2> HIDE DEF close, x
    <2>2. <<>> \o rest = rest /\ (x \o rest) \o close = x \o (rest \o close)
      BY <1>10, <2>1, TextsJoin
    <2> QED
      BY <1>7, <1>8, <1>9, <2>2 DEF close
  <1>12. Text(cmd, arg, stack) = x \o Text(cmd, arg, stack')
    BY <1>1, <1>20, <1>3, <1>11, BecomesText
  <1>13. Prints(x)
    BY <1>1, <1>20, <1>12 DEF Prints
  <1> QED
    BY <1>13

LEMMA EndObjectPrints ==
    ASSUME Ready, Next1, Leads(cmd, arg), buf \in Buffer, CloseObject \/ LeaveObject
    PROVE  \E x : Prints(x)
  <1> DEFINE n == Len(Heap[Top.v].props)
             parts == PropsOf(cmd, arg, Top)
             open == Opening(Top)
             close == Closing(Top)
             x == open \o close
  <1>1. /\ Top.op = "props" /\ ~Top.after /\ Top.i > n /\ stack' = Tail(stack)
        /\ \/ /\ Heap[Top.v].rv = 0
              /\ buf' = Put(buf, IF Top.jo.nprops > 0 THEN <<"}">> ELSE <<"{", "}">>)
           \/ Heap[Top.v].rv # 0 /\ buf' = buf
    BY DEF CloseObject, LeaveObject, Doing, Val, Return, Rest
  <1>2. /\ n \in Nat /\ Top.i \in Nat /\ Top.i \in 1..(n + 1) /\ Top.jo.nprops = Top.i - 1
        /\ Top.v \in Values
        /\ Pending(cmd, arg, Top) = OfProps(cmd, arg, Top)
    BY <1>1, ObjectFrame
  <1>20. open \in Texts /\ close \in Texts /\ From(parts, n + 1) = <<>>
    BY <1>1, ObjectParts DEF PartsOK
  <1>3. Top.i = n + 1 /\ (Top.i = 1 <=> n = 0) /\ (Top.jo.nprops > 0 <=> n # 0)
    <2> DEFINE i == Top.i
               k == Top.jo.nprops
    <2>1. n \in Nat /\ i \in Nat /\ i \in 1..(n + 1) /\ k = i - 1 /\ i > n
      BY <1>1, <1>2
    <2> HIDE DEF n, i, k
    <2>2. i = n + 1 /\ (i = 1 <=> n = 0) /\ (k > 0 <=> n # 0)
      BY <2>1
    <2> QED
      BY <2>2 DEF i, k
  <1>4. Heap[Top.v].props = <<>> <=> n = 0
    BY <1>2, HeapTyped, NoneOf
  <1>5. Pending(cmd, arg, Top) = x
    <2>1. Pending(cmd, arg, Top) = open \o From(parts, Top.i) \o close
      BY <1>1, <1>2 DEF OfProps
    <2>2. From(parts, Top.i) = <<>>
      BY <1>3, <1>20
    <2> HIDE DEF open, close
    <2> QED
      BY <1>20, <2>1, <2>2, TextsJoin
  <1>6. x \in Texts
    BY <1>20, TextsJoin
  <1>7. buf' = Put(buf, x) \/ (x = <<>> /\ buf' = buf)
    <2>0. <<"{", "}">> = <<"{">> \o <<"}">> /\ <<"{">> \in Texts /\ <<"}">> \in Texts
      BY PiecesText, MarksAre
    <2>1. CASE Heap[Top.v].rv = 0
      <3>1. close = <<"}">> /\ open = (IF n = 0 THEN <<"{">> ELSE <<>>)
        BY <1>3, <2>1 DEF Opening, Closing
      <3>2. buf' = Put(buf, IF n # 0 THEN <<"}">> ELSE <<"{", "}">>)
        BY <1>1, <1>3, <2>1
      <3>3. x = (IF n # 0 THEN <<"}">> ELSE <<"{", "}">>)
        BY <2>0, <3>1, TextsJoin
      <3> HIDE DEF x, n
      <3> QED
        BY <3>2, <3>3
    <2>2. CASE Heap[Top.v].rv # 0
      <3>1. close = <<>> /\ open = <<>>
        BY <1>3, <1>4, <2>2 DEF Opening, Closing
      <3>2. x = <<>>
        BY <3>1, TextsJoin
      <3> QED
        BY <1>1, <2>2, <3>2
    <2> QED
      BY <2>1, <2>2
  <1> HIDE DEF x
  <1>8. Text(cmd, arg, stack) = x \o Text(cmd, arg, stack')
    BY <1>1, <1>5, ReturnText
  <1>9. Prints(x)
    BY <1>6, <1>7, <1>8 DEF Prints
  <1> QED
    BY <1>9

\* a frame of the path beyond which nothing is printed
Past(f) ==
    /\ f.jo.member # <<>>
    /\ f.op = "index" \/ (f.op = "match" /\ (f.after \/ Later(f) = {}))

LEMMA PastCaller ==
    ASSUME Ready, Rest # <<>>, Rest[1].jo.member # <<>>
    PROVE  Past(Rest[1])
  <1> DEFINE g == Rest[1]
  <1>1. FrameOK(cmd, arg, g) /\ Calling(Top, g) /\ Printing(cmd, arg)
    BY TopIs DEF Ready
  <1>2. g.jo.member # <<>>
    OBVIOUS
  <1> HIDE DEF g
  <1>3. Waiting(g)
    BY <1>1 DEF Calling
  <1>4. g.op = "index" \/ (g.op = "match" /\ g.after)
    BY <1>1, <1>2, <1>3, PathFrame
  <1>5. Past(g)
    BY <1>2, <1>4 DEF Past
  <1> QED
    BY <1>5 DEF g

LEMMA PastReturn ==
    ASSUME Ready, Rest # <<>>, Top.jo.member # <<>>
    PROVE  Past(Rest[1])
  <1>1. Calling(Top, Rest[1])
    BY TopIs
  <1>2. Rest[1].jo.member # <<>>
    BY <1>1 DEF Calling, Under
  <1> QED
    BY <1>2, PastCaller

\* the step is on the path, and prints nothing
OnTheWay ==
    /\ Prints(<<>>) /\ buf' = buf
    /\ Past(Top) /\ stack' # <<>> => Past(stack'[1])

LEMMA WayBecomes ==
    ASSUME Ready, Next1, Leads(cmd, arg), buf' = buf,
           NEW f, stack' = <<f>> \o Tail(stack),
           Pending(cmd, arg, f) = Pending(cmd, arg, Top), Past(Top) => Past(f)
    PROVE  OnTheWay
  <1>1. Printing(cmd, arg) /\ StackOK(cmd, arg, stack) /\ stack # <<>> /\ StackOK(cmd, arg, stack')
    BY DEF Ready, Next1, Kept
  <1>2. Tail(stack) \in Seq(Frame)
    BY <1>1, StackShrinks
  <1> DEFINE r == Tail(stack)
             S == Frame \cup {f}
  <1>3. stack' = <<f>> \o r /\ r \in Seq(Frame) /\ r \in Seq(S) /\ f \in S
    BY <1>2, SeqMonotonic
  <1> HIDE DEF r, S
  <1>4. FrameOK(cmd, arg, f)
    BY <1>1, <1>3, FirstFrame
  <1>5. stack'[1] = f
    BY <1>3, StackPushed
  <1>6. Pending(cmd, arg, f) \in Texts
    BY <1>1, <1>4, PendingTyped
  <1>7. <<>> \in Texts /\ Pending(cmd, arg, Top) = <<>> \o Pending(cmd, arg, f)
    BY <1>6, TextsJoin
  <1>8. Text(cmd, arg, stack) = <<>> \o Text(cmd, arg, stack')
    BY <1>7, BecomesText
  <1>9. Prints(<<>>)
    BY <1>7, <1>8 DEF Prints
  <1> QED
    BY <1>5, <1>9 DEF OnTheWay

LEMMA WayReturns ==
    ASSUME Ready, Next1, Leads(cmd, arg), buf' = buf, stack' = Tail(stack),
           Pending(cmd, arg, Top) = <<>>
    PROVE  OnTheWay
  <1>1. Text(cmd, arg, stack) = <<>> \o Text(cmd, arg, stack')
    BY ReturnText
  <1>2. <<>> \in Texts
    BY TextsJoin
  <1>3. Prints(<<>>)
    BY <1>1, <1>2 DEF Prints
  <1>4. Past(Top) /\ stack' # <<>> => Past(stack'[1])
    <2> SUFFICES ASSUME Past(Top), stack' # <<>> PROVE Past(stack'[1])
      OBVIOUS
    <2>1. Rest # <<>> /\ stack'[1] = Rest[1]
      BY DEF Rest
    <2>2. Top.jo.member # <<>>
      BY DEF Past
    <2> QED
      BY <2>1, <2>2, PastReturn
  <1> QED
    BY <1>3, <1>4 DEF OnTheWay

\* a property the path goes on with is there
LEMMA LaterThere ==
    ASSUME NEW c, NEW m, Printing(c, m), Leads(c, m), NEW f, f.v \in Values,
           Heap[f.v].kind = "object", f.jo.member # <<>>, OnPath(c, m, f.v, f.jo.member),
           f.i = 1
    PROVE  Later(f) # {}
  <1> DEFINE step == f.jo.member[1]
             n == Len(Heap[f.v].props)
  <1>1. Goes(f.v, step) # Nowhere
    BY PathGoes
  <1>2. PICK i \in 1..n : Matches(step, Heap[f.v].props[i].name)
    BY <1>1, GoesNowhere
  <1>3. i \in f.i..n
    OBVIOUS
  <1>4. i \in Later(f)
    BY <1>2, <1>3 DEF Later
  <1> QED
    BY <1>4

LEMMA FindMemberWay ==
    ASSUME Ready, Next1, Leads(cmd, arg), FindMember
    PROVE  OnTheWay
  <1> DEFINE jo == Descended(Top.jo)
             f == At("match", Top.v, jo, 1, FALSE)
  <1>1. /\ Heap[Top.v].kind = "object" /\ Top.jo.member # <<>> /\ Top.op = "value"
        /\ stack' = <<f>> \o Tail(stack) /\ buf' = buf
    BY DEF FindMember, Is, Doing, Val, Whole, Becomes, Loop, Rest, At
  <1>2. /\ Top.v \in Values /\ Top.jo \in Jsop /\ Printing(cmd, arg)
        /\ OnPath(cmd, arg, Top.v, Top.jo.member)
    BY <1>1, TopIs DEF Ready
  <1>3. jo.member = Top.jo.member
    BY <1>2, JsopsTyped
  <1> HIDE DEF jo
  <1>4. f.op = "match" /\ f.v = Top.v /\ f.jo = jo /\ f.i = 1 /\ f.after = FALSE
    BY DEF At
  <1> HIDE DEF f
  <1>5. Later(f) # {}
    BY <1>1, <1>2, <1>3, <1>4, LaterThere
  <1>6. Pending(cmd, arg, f) = Final(cmd, arg)
    BY <1>1, <1>3, <1>4, <1>5 DEF Pending, OfPath
  <1>7. Pending(cmd, arg, Top) = Final(cmd, arg)
    BY <1>1 DEF Pending, OfPath
  <1>8. ~Past(Top)
    BY <1>1 DEF Past
  <1> QED
    BY <1>1, <1>6, <1>7, <1>8, WayBecomes

LEMMA OtherMemberWay ==
    ASSUME Ready, Next1, Leads(cmd, arg), OtherMember
    PROVE  OnTheWay
  <1> DEFINE f == At(Top.op, Top.v, Top.jo, Top.i + 1, Top.after)
             n == Len(Heap[Top.v].props)
  <1>1. /\ Top.op = "match" /\ ~Top.after /\ Top.i <= n
        /\ ~Matches(Top.jo.member[1], Heap[Top.v].props[Top.i].name)
        /\ stack' = <<Skips(Top)>> \o Tail(stack) /\ buf' = buf
    BY DEF OtherMember, Matching, Doing, Val, Step, Becomes, Rest, Skips
  <1>2. /\ Top \in Frame /\ Top.i \in Nat /\ n \in Nat /\ Top.jo.member # <<>>
    BY <1>1, MatchIs
  <1>3. Skips(Top) = f
    BY <1>1, <1>2, LoopSteps
  <1>4. /\ f.op = "match" /\ f.v = Top.v /\ f.jo = Top.jo /\ f.i = Top.i + 1 /\ f.after = Top.after
    BY <1>1 DEF At
  <1> HIDE DEF f
  <1>5. Later(f) = Later(Top)
    <2>1. \A j : j \in (Top.i + 1)..n <=> j \in Top.i..n /\ j # Top.i
      BY <1>1, <1>2
    <2> DEFINE M(j) == Matches(Top.jo.member[1], Heap[Top.v].props[j].name)
    <2> HIDE DEF n
    <2>2. Later(f) = {j \in (Top.i + 1)..n : M(j)}
      BY <1>4 DEF Later, n
    <2>3. Later(Top) = {j \in Top.i..n : M(j)}
      BY DEF Later, n
    <2>4. ~M(Top.i)
      BY <1>1
    <2> HIDE DEF M
    <2>5. \A j : j \in Later(f) <=> j \in Later(Top)
      BY <2>1, <2>2, <2>3, <2>4
    <2> QED
      BY <2>2, <2>3, <2>5
  <1>6. Pending(cmd, arg, f) = OfPath(cmd, arg, f)
    BY <1>2, <1>4 DEF Pending
  <1>7. Pending(cmd, arg, Top) = OfPath(cmd, arg, Top)
    BY <1>2 DEF Pending
  <1>8. OfPath(cmd, arg, f) = OfPath(cmd, arg, Top)
    <2>1. CASE Later(Top) = {}
      BY <1>1, <1>4, <1>5, <2>1 DEF OfPath
    <2>2. CASE Later(Top) # {}
      <3>1. OfPath(cmd, arg, Top) = Final(cmd, arg)
        BY <1>1, <2>2 DEF OfPath
      <3>2. ~f.after
        BY <1>1, <1>4
      <3>3. OfPath(cmd, arg, f) = Final(cmd, arg)
        BY <1>4, <1>5, <2>2, <3>2 DEF OfPath
      <3> QED
        BY <3>1, <3>3
    <2> QED
      BY <2>1, <2>2
  <1>9. Past(Top) => Past(f)
    BY <1>1, <1>4, <1>5 DEF Past
  <1>10. Pending(cmd, arg, f) = Pending(cmd, arg, Top)
    BY <1>6, <1>7, <1>8
  <1>11. stack' = <<f>> \o Tail(stack)
    BY <1>1, <1>3
  <1> QED
    BY <1>1, <1>9, <1>10, <1>11, WayBecomes

LEMMA LeaveMemberWay ==
    ASSUME Ready, Next1, Leads(cmd, arg), LeaveMember
    PROVE  OnTheWay
  <1> DEFINE n == Len(Heap[Top.v].props)
             jo == FoundBy(Top.jo)
             f == At(Top.op, Top.v, jo, Top.i + 1, FALSE)
  <1>1. /\ Top.op = "match" /\ Top.after /\ buf' = buf
        /\ stack' = Tail(stack) \/ stack' = <<GoesOn(Top, jo)>> \o Tail(stack)
    <2>1. Top.op = "match" /\ Top.after /\ buf' = buf
      BY DEF LeaveMember, Doing
    <2>2. CASE Stops(ret.rv)
      <3>1. Return(-1, jo)
        BY <2>2 DEF LeaveMember
      <3> QED
        BY <2>1, <3>1 DEF Return, Rest
    <2>3. CASE ~Stops(ret.rv)
      <3>1. Becomes([Top EXCEPT !.after = FALSE, !.i = @ + 1, !.jo = FoundBy(@)])
        BY <2>3 DEF LeaveMember
      <3> QED
        BY <2>1, <3>1 DEF Becomes, Rest, GoesOn
    <2> QED
      BY <2>2, <2>3
  <1>2. /\ Top \in Frame /\ Top.v \in Values /\ Top.jo \in Jsop /\ Top.i \in Nat /\ n \in Nat
        /\ Top.jo.member # <<>> /\ MatchOK(cmd, arg, Top) /\ Heap[Top.v].kind = "object"
        /\ Top.jo.member[1] \in PathStep
    BY <1>1, MatchIs
  <1>3. Pending(cmd, arg, Top) = <<>>
    BY <1>1, <1>2 DEF Pending, OfPath
  <1>4. CASE stack' = Tail(stack)
    BY <1>1, <1>3, <1>4, WayReturns
  <1>5. CASE stack' = <<GoesOn(Top, jo)>> \o Tail(stack)
    <2>1. GoesOn(Top, jo) = f
      BY <1>1, <1>2, LoopSteps
    <2>2. f.op = "match" /\ f.v = Top.v /\ f.jo = jo /\ f.i = Top.i + 1 /\ f.after = FALSE
      BY <1>1 DEF At
    <2>3. jo.member = Top.jo.member
      BY <1>2 DEF FoundBy, Jsop
    <2> HIDE DEF f, jo
    <2>4. Later(f) = {}
      <3> DEFINE i == Top.i
                 step == Top.jo.member[1]
      <3>1. i \in Later(Top)
        BY <1>1, <1>2 DEF MatchOK
      <3>2. i \in i..n /\ Matches(step, Heap[Top.v].props[i].name)
        BY <3>1 DEF Later
      <3>3. i \in 1..(n + 1)
        BY <1>2 DEF MatchOK
      <3>4. i \in Nat /\ n \in Nat /\ i \in 1..n
        <4>1. i \in Nat /\ n \in Nat
          BY <1>2
        <4> HIDE DEF i, n
        <4> QED
          BY <3>2, <3>3, <4>1
      <3>5. \A j \in 1..n : Matches(step, Heap[Top.v].props[j].name) => j = i
        BY <1>2, <3>2, <3>4, GoesMatch
      <3>6. Later(f) = {j \in (i + 1)..n : Matches(step, Heap[Top.v].props[j].name)}
        BY <2>2, <2>3 DEF Later
      <3> HIDE DEF i, n, step
      <3>7. \A j \in (i + 1)..n : j \in 1..n /\ j # i
        BY <3>4
      <3> QED
        BY <3>5, <3>6, <3>7
    <2>5. f.jo.member # <<>>
      BY <1>2, <2>2, <2>3
    <2>6. Pending(cmd, arg, f) = <<>> /\ Past(f)
      BY <2>2, <2>4, <2>5 DEF Pending, OfPath, Past
    <2>7. stack' = <<f>> \o Tail(stack) /\ Pending(cmd, arg, f) = Pending(cmd, arg, Top)
      BY <1>3, <1>5, <2>1, <2>6
    <2> QED
      BY <1>1, <2>6, <2>7, WayBecomes
  <1> QED
    BY <1>1, <1>4, <1>5

LEMMA EndMembersWay ==
    ASSUME Ready, Next1, Leads(cmd, arg), EndMembers
    PROVE  OnTheWay
  <1>1. /\ Top.op = "match" /\ ~Top.after /\ Top.i > Len(Heap[Top.v].props)
        /\ stack' = Tail(stack) /\ buf' = buf
    BY DEF EndMembers, Doing, Val, Return, Rest
  <1>2. Top.i \in Nat /\ Len(Heap[Top.v].props) \in Nat /\ Top.jo.member # <<>>
    BY <1>1, MatchIs
  <1>3. Later(Top) = {}
    <2>1. Top.i..Len(Heap[Top.v].props) = {}
      BY <1>1, <1>2
    <2> QED
      BY <2>1 DEF Later
  <1>4. Pending(cmd, arg, Top) = <<>>
    BY <1>1, <1>2, <1>3 DEF Pending, OfPath
  <1> QED
    BY <1>1, <1>4, WayReturns

LEMMA LeaveElementWay ==
    ASSUME Ready, Next1, Leads(cmd, arg), LeaveElement
    PROVE  OnTheWay
  <1>1. Top.op = "index" /\ stack' = Tail(stack) /\ buf' = buf
    BY DEF LeaveElement, Doing, Return, Rest
  <1>2. FrameOK(cmd, arg, Top)
    BY TopIs
  <1>3. Top.jo.member # <<>>
    BY <1>1, <1>2 DEF FrameOK, IndexOK
  <1>4. Pending(cmd, arg, Top) = <<>>
    BY <1>1, <1>3 DEF Pending, OfPath
  <1> QED
    BY <1>1, <1>4, WayReturns

LEMMA WayCalls ==
    ASSUME Ready, Next1, Leads(cmd, arg), buf' = buf, ~Past(Top),
           NEW f, f.op = "value", NEW g, g.jo.member # <<>>,
           stack' = <<f, g>> \o Tail(stack),
           Pending(cmd, arg, Top) = Final(cmd, arg), Pending(cmd, arg, g) = <<>>
    PROVE  OnTheWay
  <1> DEFINE r == Tail(stack)
             mid == <<g>> \o r
             S == Frame \cup {f, g}
             st == stack'
             final == Final(cmd, arg)
  <1>1. Printing(cmd, arg) /\ StackOK(cmd, arg, stack) /\ stack # <<>> /\ StackOK(cmd, arg, st)
    BY DEF Ready, Next1, Kept
  <1>2. r \in Seq(Frame)
    BY <1>1, StackShrinks
  <1>3. f \in S /\ g \in S /\ r \in Seq(S)
    BY <1>2, SeqMonotonic
  <1> HIDE DEF S
  <1>4. st = <<f>> \o mid /\ mid \in Seq(S) /\ mid[1] = g
    <2>1. <<f, g>> = <<f>> \o <<g>> /\ <<f>> \in Seq(S) /\ <<g>> \in Seq(S)
      BY <1>3, Pair
    <2>2. st = <<f, g>> \o r
      OBVIOUS
    <2>3. mid \in Seq(S) /\ mid[1] = g
      BY <1>3, StackPushed
    <2> HIDE DEF r, st
    <2> QED
      BY <1>3, <2>1, <2>2, <2>3, ConcatAssociative
  <1> HIDE DEF mid, st
  <1>5. st # <<>> /\ st[1] = f /\ Tail(st) = mid
    BY <1>3, <1>4, StackPushed
  <1>6. Tail(st)[1].jo.member # <<>>
    BY <1>4, <1>5
  <1>7. Pending(cmd, arg, f) = final
    <2>1. CASE f.jo.member # <<>>
      BY <2>1 DEF Pending, OfPath
    <2>2. CASE f.jo.member = <<>>
      <3>1. f.v = Goal(cmd, arg) /\ f.jo.depth = cmd.depth
        <4>1. st[1].jo.member = <<>>
          BY <1>5, <2>2
        <4>2. st[1].v = Goal(cmd, arg) /\ st[1].jo.depth = cmd.depth
          BY <1>1, <1>5, <1>6, <4>1, AtGoal
        <4> QED
          BY <1>5, <4>2
      <3> QED
        BY <2>2, <3>1 DEF Pending, Final
    <2> QED
      BY <2>1, <2>2
  <1>8. final \in Texts /\ <<>> \in Texts
    BY <1>1, FinalTyped, TextsJoin
  <1> HIDE DEF final
  <1>9. final = <<>> \o (final \o <<>>)
    BY <1>8, TextsJoin
  <1>10. Pending(cmd, arg, Top) = <<>> \o (Pending(cmd, arg, f) \o Pending(cmd, arg, g))
    BY <1>7, <1>9 DEF final
  <1>11. Text(cmd, arg, stack) = <<>> \o Text(cmd, arg, stack')
    BY <1>8, <1>10, CallsText
  <1>12. Prints(<<>>)
    BY <1>8, <1>11 DEF Prints
  <1> QED
    BY <1>12 DEF OnTheWay

LEMMA EnterMemberWay ==
    ASSUME Ready, Next1, Leads(cmd, arg), EnterMember
    PROVE  OnTheWay
  <1> DEFINE n == Len(Heap[Top.v].props)
             w == Heap[Top.v].props[Top.i].val
             e == Along(Top.jo)
             f == Visit(w, e)
             g == At(Top.op, Top.v, Top.jo, Top.i, TRUE)
  <1>1. /\ Top.op = "match" /\ ~Top.after /\ Top.i <= n
        /\ Matches(Top.jo.member[1], Heap[Top.v].props[Top.i].name)
        /\ stack' = <<f, Awaits(Top)>> \o Tail(stack) /\ buf' = buf
    BY DEF EnterMember, Matching, Doing, Val, Step, Calls, Rest, Awaits
  <1>2. Top \in Frame /\ Top.i \in Nat /\ n \in Nat /\ Top.jo.member # <<>>
    BY <1>1, MatchIs
  <1>3. Awaits(Top) = g
    BY <1>1, <1>2, LoopSteps
  <1>4. Later(Top) # {}
    <2>1. Top.i \in Top.i..n
      BY <1>1, <1>2
    <2>2. Top.i \in Later(Top)
      BY <1>1, <2>1 DEF Later
    <2> QED
      BY <2>2
  <1>5. ~Past(Top)
    BY <1>1, <1>4 DEF Past
  <1>6. Pending(cmd, arg, Top) = Final(cmd, arg)
    BY <1>1, <1>2, <1>4 DEF Pending, OfPath
  <1>7. f.op = "value"
    BY DEF Visit
  <1>8. /\ g.op = "match" /\ g.v = Top.v /\ g.jo = Top.jo /\ g.i = Top.i /\ g.after = TRUE
    BY <1>1 DEF At
  <1>9. stack' = <<f, g>> \o Tail(stack)
    BY <1>1, <1>3
  <1> HIDE DEF f, g
  <1>10. Pending(cmd, arg, g) = <<>> /\ g.jo.member # <<>>
    BY <1>2, <1>8 DEF Pending, OfPath
  <1> QED
    BY <1>1, <1>5, <1>6, <1>7, <1>9, <1>10, WayCalls

LEMMA EnterElementWay ==
    ASSUME Ready, Next1, Leads(cmd, arg), EnterElement
    PROVE  OnTheWay
  <1> DEFINE jo == Descended(Top.jo)
             w == Heap[Top.v].words[Top.jo.member[1].index + 1]
             e == Along(jo)
             f == Visit(w, e)
             g == IndexAt(Top.v, jo)
  <1>1. /\ Top.op = "value" /\ Top.jo.member # <<>> /\ buf' = buf
        /\ stack' = <<f, g>> \o Tail(stack)
    BY DEF EnterElement, AtIndex, Is, Doing, Whole, Val, Step, Rest, IndexAt
  <1>2. Top.jo \in Jsop
    BY TopIs
  <1>3. jo.member = Top.jo.member
    BY <1>2, JsopsTyped
  <1>4. f.op = "value"
    BY DEF Visit
  <1>5. g.op = "index" /\ g.jo = jo
    BY DEF IndexAt
  <1> HIDE DEF f, g, jo
  <1>6. Pending(cmd, arg, g) = <<>> /\ g.jo.member # <<>>
    BY <1>1, <1>3, <1>5 DEF Pending, OfPath
  <1>7. Pending(cmd, arg, Top) = Final(cmd, arg)
    BY <1>1 DEF Pending, OfPath
  <1>8. ~Past(Top)
    BY <1>1 DEF Past
  <1> QED
    BY <1>1, <1>4, <1>6, <1>7, <1>8, WayCalls

PathActions == \/ FindMember \/ OtherMember \/ EnterMember \/ LeaveMember \/ EndMembers
               \/ EnterElement \/ LeaveElement

LEMMA PathActionsWay ==
    ASSUME Ready, Next1, Leads(cmd, arg), PathActions
    PROVE  OnTheWay
  BY FindMemberWay, OtherMemberWay, EnterMemberWay, LeaveMemberWay, EndMembersWay,
     EnterElementWay, LeaveElementWay DEF PathActions

\* what has nowhere to go on to does not happen where the path leads somewhere
LEMMA NeverLost ==
    ASSUME Ready, Leads(cmd, arg)
    PROVE  ~IndexOnObject /\ ~LoseElements /\ ~NoElement
  <1> SUFFICES ASSUME IndexOnObject \/ LoseElements \/ NoElement PROVE FALSE
    OBVIOUS
  <1>1. Leaf \/ Closes \/ IndexOnObject
    BY DEF Leaf
  <1>2. Top.jo.member = <<>>
    BY <1>1, EndsWhere
  <1>3. CASE LoseElements \/ NoElement
    BY <1>2, <1>3 DEF LoseElements, NoElement, AtIndex, Whole
  <1>4. CASE IndexOnObject
    <2>1. Top.op = "match"
      BY <1>4 DEF IndexOnObject, Matching, Doing
    <2> QED
      BY <1>2, <2>1, MatchIs
  <1> QED
    BY <1>3, <1>4

(* Arrays.                                                                 *)

LEMMA ArrayParts ==
    ASSUME Ready, Top.op = "elements"
    PROVE  ElementsPartsOK(cmd, arg, Top)
  <1> DEFINE f == Top
  <1>1. FrameOK(cmd, arg, f) /\ Printing(cmd, arg) /\ f.op = "elements"
    BY TopIs DEF Ready
  <1> HIDE DEF f
  <1>2. ElementsPartsOK(cmd, arg, f)
    BY <1>1, ElementsParts
  <1> QED
    BY <1>2 DEF f

LEMMA ArrayPending ==
    ASSUME Ready, Top.op = "elements"
    PROVE  LET n == Len(Elements(Heap[Top.v]))
           IN  /\ Pending(cmd, arg, Top) = OfElements(cmd, arg, Top)
               /\ n \in Nat /\ n <= Len(Heap[Top.v].words) /\ n <= Heap[Top.v].length
               /\ Heap[Top.v].length \in Nat
               /\ Position(Top.it) \in Nat /\ Reached(Top.it) \in Nat
               /\ ~Over1(Top.it) => Reached(Top.it) <= n
  <1> DEFINE f == Top
             n == Len(Elements(Heap[f.v]))
  <1>1. /\ f.v \in Values /\ f.jo.member = <<>> /\ f.it \in Iteration /\ IterationOK(f.v, f.it)
        /\ f.op = "elements"
    BY ArrayFrame
  <1> HIDE DEF f
  <1>2. Pending(cmd, arg, f) = OfElements(cmd, arg, f)
    BY <1>1 DEF Pending
  <1>3. /\ n \in Nat /\ n <= Len(Heap[f.v].words) /\ n <= Heap[f.v].length
        /\ Heap[f.v].length \in Nat
    BY <1>1, ElementsIs, HeapTyped
  <1>4. Position(f.it) \in Nat /\ Reached(f.it) \in Nat
    BY <1>1 DEF Position, Reached, Iteration
  <1>5. ~Over1(f.it) => Reached(f.it) <= n
    BY <1>1 DEF Over1, IterationOK
  <1> QED
    BY <1>2, <1>3, <1>4, <1>5 DEF f

\* the frame of an array after a step of its own
LEMMA ArraySame ==
    ASSUME NEW c, NEW m, NEW f, NEW g, f.op = "elements",
           g = Over(f.v, f.jo, g.after, g.sub, g.it), f.jo.member = <<>>
    PROVE  /\ Pending(c, m, g) = OfElements(c, m, g)
           /\ MembersOf(c, m, g) = MembersOf(c, m, f) /\ Comma(g) = Comma(f)
  <1>1. g.op = "elements" /\ g.v = f.v /\ g.jo = f.jo
    BY DEF Over
  <1>2. Pending(c, m, g) = OfElements(c, m, g)
    BY <1>1 DEF Pending
  <1>3. MembersOf(c, m, g) = MembersOf(c, m, f) /\ Comma(g) = Comma(f)
    BY <1>1 DEF MembersOf, Comma
  <1> QED
    BY <1>2, <1>3

\* what is left of an iteration does not change
SameRest(old, new, n) ==
    IF Over1(old) THEN Over1(new)
    ELSE IF Over1(new) THEN Reached(old) = n
    ELSE Reached(new) = Reached(old)

LEMMA IteratesPrints ==
    ASSUME Ready, Next1, Leads(cmd, arg), Top.op = "elements", ~Top.after, buf' = buf,
           NEW it, stack' = <<WithIt(Top, it)>> \o Tail(stack),
           SameRest(Top.it, it, Len(Elements(Heap[Top.v])))
    PROVE  Prints(<<>>)
  <1> DEFINE n == Len(Elements(Heap[Top.v]))
             parts == MembersOf(cmd, arg, Top)
             g == WithIt(Top, it)
             end == <<"]">>
             r == Reached(Top.it)
  <1>1. Top \in Frame /\ Top.jo.member = <<>> /\ Top.v \in Values
    BY ArrayFrame
  <1>2. /\ Pending(cmd, arg, Top) = OfElements(cmd, arg, Top)
        /\ n \in Nat /\ r \in Nat /\ (~Over1(Top.it) => r <= n)
    BY ArrayPending
  <1>3. /\ end \in Texts /\ From(parts, n + 1) = <<>>
        /\ \A i \in 1..(n + 1) : From(parts, i) \in Texts
    BY ArrayParts DEF ElementsPartsOK
  <1>4. g = Over(Top.v, Top.jo, Top.after, Top.sub, it)
    BY <1>1, OverSteps
  <1>5. g.after = Top.after /\ g.sub = Top.sub /\ g.it = it
    <2> HIDE DEF g
    <2> QED
      BY <1>4 DEF Over
  <1>6. /\ Pending(cmd, arg, g) = OfElements(cmd, arg, g)
        /\ MembersOf(cmd, arg, g) = parts
    <2> DEFINE f == Top
    <2>1. f.op = "elements" /\ f.jo.member = <<>> /\ g = Over(f.v, f.jo, g.after, g.sub, g.it)
      BY <1>1, <1>4, <1>5
    <2> HIDE DEF f, g
    <2>2. /\ Pending(cmd, arg, g) = OfElements(cmd, arg, g)
          /\ MembersOf(cmd, arg, g) = MembersOf(cmd, arg, f)
      BY <2>1, ArraySame
    <2> QED
      BY <2>2 DEF f
  <1> HIDE DEF g
  <1>7. Pending(cmd, arg, g) = IF Over1(it) THEN end ELSE From(parts, Reached(it) + 1) \o end
    BY <1>5, <1>6 DEF OfElements
  <1>8. Pending(cmd, arg, Top) = IF Over1(Top.it) THEN end ELSE From(parts, r + 1) \o end
    BY <1>2 DEF OfElements
  <1> HIDE DEF parts, end, r
  <1>9. Pending(cmd, arg, g) = Pending(cmd, arg, Top)
    <2>1. CASE Over1(Top.it)
      BY <1>7, <1>8, <2>1 DEF SameRest
    <2>2. CASE ~Over1(Top.it) /\ Over1(it)
      <3>1. r = n
        BY <2>2 DEF SameRest, r
      <3>2. From(parts, r + 1) \o end = end
        BY <1>3, <3>1, TextsJoin
      <3> QED
        BY <1>7, <1>8, <2>2, <3>2
    <2>3. CASE ~Over1(Top.it) /\ ~Over1(it)
      <3>1. Reached(it) = r
        BY <2>3 DEF SameRest, r
      <3> QED
        BY <1>7, <1>8, <2>3, <3>1
    <2> QED
      BY <2>1, <2>2, <2>3
  <1>10. Pending(cmd, arg, g) \in Texts
    <2>1. From(parts, r + 1) \in Texts \/ Over1(Top.it)
      <3>1. ~Over1(Top.it) => r + 1 \in 1..(n + 1)
        <4> HIDE DEF n
        <4> QED
          BY <1>2
      <3> QED
        BY <1>3, <3>1
    <2>2. Pending(cmd, arg, Top) \in Texts
      BY <1>3, <1>8, <2>1, TextsJoin
    <2> QED
      BY <1>9, <2>2
  <1>11. <<>> \in Texts /\ Pending(cmd, arg, Top) = <<>> \o Pending(cmd, arg, g)
    BY <1>9, <1>10, TextsJoin
  <1>12. stack' = <<g>> \o Tail(stack)
    BY DEF g
  <1>13. Text(cmd, arg, stack) = <<>> \o Text(cmd, arg, stack')
    BY <1>11, <1>12, BecomesText
  <1> QED
    BY <1>11, <1>13 DEF Prints

LEMMA NextPagePrints ==
    ASSUME Ready, Next1, Leads(cmd, arg), NextPage
    PROVE  Prints(<<>>)
  <1> DEFINE it == ReadPage(ArrayOf(Top.v), Top.it)
             old == Top.it
             n == Len(Elements(Heap[Top.v]))
  <1>1. /\ Top.op = "elements" /\ old.at = "page" /\ buf' = buf
        /\ stack' = <<WithIt(Top, it)>> \o Tail(stack)
    BY DEF NextPage, Doing, Becomes, Rest, WithIt, TheArray, ArrayOf, Val
  <1>2. /\ Top.v \in Values /\ old \in Iteration /\ IterationOK(Top.v, old)
        /\ (Top.after => OnElement(Top.v, old)) /\ Top.after \in BOOLEAN
    BY <1>1, ArrayFrame
  <1>3. ~Top.after
    BY <1>1, <1>2 DEF OnElement, InPage
  <1>4. /\ it \in Iteration /\ it.at \in {"element", "done"}
        /\ it.at = "element" => it.rv = 0 /\ Reached(it) = Reached(old)
        /\ it.at = "done" => Reached(old) = n
    BY <1>1, <1>2, ReadOK
  <1>5. old.rv = 0
    BY <1>1, <1>2 DEF IterationOK
  <1> HIDE DEF it, old, n
  <1>6. SameRest(old, it, n)
    BY <1>1, <1>4, <1>5 DEF SameRest, Over1
  <1>7. SameRest(Top.it, it, Len(Elements(Heap[Top.v])))
    BY <1>6 DEF old, n
  <1> QED
    BY <1>1, <1>3, <1>7, IteratesPrints

LEMMA EndElementsPrints ==
    ASSUME Ready, Next1, Leads(cmd, arg), EndElements, NoLoneElement
    PROVE  Prints(<<>>)
  <1> DEFINE a == ArrayOf(Top.v)
             it == EndPage(a, Top.it)
             old == Top.it
             n == Len(Elements(Heap[Top.v]))
  <1>1. /\ Top.op = "elements" /\ ~Top.after /\ PageEnds(a, old) /\ buf' = buf
        /\ stack' = <<WithIt(Top, it)>> \o Tail(stack)
    BY DEF EndElements, Doing, Becomes, Rest, WithIt, TheArray, ArrayOf, Val
  <1>2. Top.v \in Values /\ old \in Iteration /\ IterationOK(Top.v, old)
    BY <1>1, ArrayFrame
  <1>3. /\ it \in Iteration /\ IterationOK(Top.v, it) /\ it.at \in {"page", "done"}
        /\ it.at = "page" => old.rv = 0 /\ Reached(it) = Reached(old)
        /\ it.at = "done" /\ old.rv = 0 => Reached(old) = n
    BY <1>1, <1>2, EndPageOK
  <1>4. it.at = "page" => it.rv = 0
    BY <1>3 DEF IterationOK
  <1>5. old.at = "element"
    BY <1>1 DEF PageEnds
  <1> HIDE DEF it, old, n
  <1>6. SameRest(old, it, n)
    BY <1>3, <1>4, <1>5 DEF SameRest, Over1
  <1>7. SameRest(Top.it, it, Len(Elements(Heap[Top.v])))
    BY <1>6 DEF old, n
  <1> QED
    BY <1>1, <1>7, IteratesPrints

LEMMA StopElementsPrints ==
    ASSUME Ready, Next1, Leads(cmd, arg), StopElements, buf \in Buffer
    PROVE  buf' = buf /\ (buf.left # 0 => Prints(<<>>))
  <1> DEFINE a == ArrayOf(Top.v)
             it == Answered(Top.it, -1)
             old == Top.it
             n == Len(Elements(Heap[Top.v]))
  <1>1. /\ Top.op = "elements" /\ ~Top.after /\ InPage(a, old) /\ buf' = buf
        /\ stack' = <<WithIt(Top, it)>> \o Tail(stack)
        /\ PastEnd(a, Position(old)) \/ buf.left = 0
    BY DEF StopElements, InElements, Doing, Becomes, Rest, WithIt, TheArray, ArrayOf, Val
  <1>2. Top.v \in Values /\ old \in Iteration /\ IterationOK(Top.v, old)
    BY <1>1, ArrayFrame
  <1>3. old.at = "element" /\ old.rv = 0
    BY <1>1 DEF InPage
  <1>4. it.rv = -1
    BY <1>2, <1>3, AnsweredOK
  <1>5. ~Over1(old) /\ Over1(it) /\ Reached(old) = Position(old)
    <2> HIDE DEF it, old
    <2> QED
      BY <1>3, <1>4 DEF Over1, Reached
  <1>6. /\ n \in Nat /\ Position(old) \in Nat
        /\ Position(old) <= n
    BY <1>1, <1>5, ArrayPending
  <1>7. a.js \in Nat /\ n <= a.js
    BY <1>2, ArrayIs
  <1> HIDE DEF it, old, n, a
  <1>8. ASSUME buf.left # 0 PROVE Prints(<<>>)
    <2>1. Position(old) >= a.js
      BY <1>1, <1>8 DEF PastEnd
    <2>2. Position(old) = n
      BY <1>6, <1>7, <2>1
    <2>3. SameRest(old, it, n)
      BY <1>5, <2>2 DEF SameRest
    <2>4. SameRest(Top.it, it, Len(Elements(Heap[Top.v])))
      BY <2>3 DEF old, n
    <2> QED
      BY <1>1, <2>4, IteratesPrints
  <1> QED
    BY <1>1, <1>8

LEMMA JoinElement ==
    ASSUME NEW v \in Texts, NEW c \in Texts, NEW r \in Texts, NEW e \in Texts
    PROVE  J(J(J(v, c), r), e) = J(v, J(J(c, r), e))
  <1>1. J(J(v, c), r) = J(v, J(c, r)) /\ J(c, r) \in Texts
    BY Joins
  <1> DEFINE w == J(c, r)
  <1>2. w \in Texts /\ J(J(v, c), r) = J(v, w)
    BY <1>1
  <1> HIDE DEF w
  <1>3. J(J(v, w), e) = J(v, J(w, e))
    BY <1>2, Joins
  <1> QED
    BY <1>2, <1>3 DEF w

LEMMA PrintElementPrints ==
    ASSUME Ready, Next1, Leads(cmd, arg), PrintElement
    PROVE  Prints(<<>>) /\ buf' = buf /\ OnElement(Top.v, Top.it)
  <1> DEFINE n == Len(Elements(Heap[Top.v]))
             p == Position(Top.it)
             parts == MembersOf(cmd, arg, Top)
             w == Heap[Top.v].words[p + 1]
             f == Visit(w, Top.sub)
             g == Over(Top.v, Top.jo, TRUE, Top.sub, Top.it)
             end == <<"]">>
             comma == Comma(Top)
             rest == From(parts, p + 2)
  <1>1. /\ Top.op = "elements" /\ ~Top.after /\ InPage(TheArray, Top.it)
        /\ ~PastEnd(TheArray, p) /\ buf' = buf
        /\ stack' = <<f, Awaits(Top)>> \o Tail(stack)
    BY DEF PrintElement, InElements, Doing, Val, Calls, Rest, Awaits
  <1>2. /\ FrameOK(cmd, arg, Top) /\ Top \in Frame /\ Printing(cmd, arg)
        /\ Top.v \in Values /\ Top.it \in Iteration /\ TheArray = ArrayOf(Top.v)
        /\ Top.jo \in Jsop /\ Top.jo.member = <<>> /\ Top.jo.depth > 0
        /\ JsopOK(cmd, arg, Top.jo)
        /\ JsopOK(cmd, arg, Top.sub) /\ Top.sub.member = <<>>
        /\ Top.sub.depth = Top.jo.depth - 1
        /\ IterationOK(Top.v, Top.it)
    BY <1>1, ArrayFrame
  <1>3. Awaits(Top) = g
    BY <1>1, <1>2, OverSteps
  <1>4. OnElement(Top.v, Top.it)
    <2>1. ArrayOf(Top.v).js \in Nat /\ Position(Top.it) \in Nat
      BY <1>2, ArrayIs DEF Position, Iteration
    <2>2. Position(Top.it) < ArrayOf(Top.v).js
      BY <1>1, <1>2, <2>1 DEF PastEnd
    <2> QED
      BY <1>1, <1>2, <2>2, ElementReached
  <1>5. Pending(cmd, arg, Top) = OfElements(cmd, arg, Top) /\ p \in Nat /\ n \in Nat
    BY <1>1, ArrayPending
  <1>6. /\ comma \in Texts /\ end \in Texts
        /\ \A i \in 1..(n + 1) : From(parts, i) \in Texts
        /\ \A i \in 1..n : From(parts, i) = parts[i] \o From(parts, i + 1)
    BY <1>1, ArrayParts DEF ElementsPartsOK
  <1>7. /\ p < n /\ p + 1 \in 1..n /\ p + 2 \in 1..(n + 1) /\ (p + 1) + 1 = p + 2
    <2>1. p < n
      BY <1>4 DEF OnElement
    <2> HIDE DEF p, n
    <2> QED
      BY <1>5, <2>1
  <1>8. ~Over1(Top.it) /\ Reached(Top.it) = p
    BY <1>1 DEF InPage, Over1, Reached
  <1>9. Pending(cmd, arg, Top) = From(parts, p + 1) \o end
    BY <1>1, <1>5, <1>8 DEF OfElements
  <1>10. From(parts, p + 1) = parts[p + 1] \o rest /\ rest \in Texts
    <2> HIDE DEF p, n, parts
    <2> QED
      BY <1>6, <1>7
  <1> DEFINE in == All(cmd, arg)[Top.jo.depth - 1]
             v == in[w]
  <1>11. in \in Inside
    <2>1. Top.jo.depth \in Nat /\ cmd.depth \in Nat /\ Top.jo.depth <= cmd.depth
      BY <1>2, CommandTyped DEF Jsop, JsopOK, Printing
    <2> DEFINE d == Top.jo.depth
               k == d - 1
    <2>2. k \in Nat /\ k <= cmd.depth
      <3>1. d \in Nat /\ cmd.depth \in Nat /\ d <= cmd.depth /\ d > 0
        BY <1>2, <2>1
      <3> HIDE DEF d
      <3> QED
        BY <3>1
    <2> HIDE DEF k
    <2>3. All(cmd, arg)[k] \in Inside
      BY <1>2, <2>2, AllTyped
    <2> QED
      BY <2>3 DEF k
  <1>12. w \in Values /\ v \in Texts /\ parts[p + 1] = v \o comma
    <2> DEFINE h == Heap[Top.v]
               es == Elements(h)
               q == p + 1
    <2>1. parts = Members(h, in)
      BY DEF MembersOf
    <2> HIDE DEF in, p
    <2>2. q \in 1..Len(es)
      BY <1>7
    <2>3. /\ es[q] \in Values /\ in[es[q]] \in Texts
          /\ Members(h, in)[q] = in[es[q]] \o (IF h.length = 1 THEN <<>> ELSE <<",">>)
      <3> HIDE DEF q
      <3> QED
        BY <1>2, <1>11, <2>2, MembersTyped
    <2>4. es[q] = w
      <3> HIDE DEF q
      <3>1. es[q] = h.words[q]
        BY <1>2, <2>2, ElementsIs
      <3> QED
        BY <3>1 DEF q
    <2>5. comma = (IF h.length = 1 THEN <<>> ELSE <<",">>)
      BY DEF Comma
    <2> HIDE DEF w, q, es, h
    <2> QED
      BY <2>1, <2>3, <2>4, <2>5 DEF q
  <1>13. Pending(cmd, arg, f) = v
    <2>1. f.op = "value" /\ f.v = w /\ f.jo = Top.sub
      BY DEF Visit
    <2> HIDE DEF f, w
    <2>2. f.jo.member = <<>> /\ f.jo.depth = Top.jo.depth - 1
      BY <1>2, <2>1
    <2> QED
      BY <2>1, <2>2 DEF Pending
  <1>14. Pending(cmd, arg, g) = comma \o rest \o end
    <2>1. g.after = TRUE /\ g.sub = Top.sub /\ g.it = Top.it
      BY DEF Over
    <2>2. /\ Pending(cmd, arg, g) = OfElements(cmd, arg, g)
          /\ MembersOf(cmd, arg, g) = parts /\ Comma(g) = comma
      <3> DEFINE t == Top
      <3>1. t.op = "elements" /\ t.jo.member = <<>> /\ g = Over(t.v, t.jo, g.after, g.sub, g.it)
        BY <1>1, <1>2, <2>1
      <3> HIDE DEF t, g
      <3>2. /\ Pending(cmd, arg, g) = OfElements(cmd, arg, g)
            /\ MembersOf(cmd, arg, g) = MembersOf(cmd, arg, t) /\ Comma(g) = Comma(t)
        BY <3>1, ArraySame
      <3> QED
        BY <3>2 DEF t
    <2> HIDE DEF g
    <2> QED
      BY <1>8, <2>1, <2>2 DEF OfElements
  <1>15. Pending(cmd, arg, Top) = <<>> \o (Pending(cmd, arg, f) \o Pending(cmd, arg, g))
    <2>1. Pending(cmd, arg, Top) = ((v \o comma) \o rest) \o end
      BY <1>9, <1>10, <1>12
    <2>2. Pending(cmd, arg, f) \o Pending(cmd, arg, g) = v \o (comma \o rest \o end)
      BY <1>13, <1>14
    <2>3. comma \in Texts /\ end \in Texts /\ rest \in Texts /\ v \in Texts
      BY <1>6, <1>10, <1>12
    <2> HIDE DEF v, comma, rest, end, f, g
    <2>4. ((v \o comma) \o rest) \o end = v \o (comma \o rest \o end)
      <3>1. J(J(J(v, comma), rest), end) = J(v, J(J(comma, rest), end))
        BY <2>3, JoinElement
      <3> QED
        BY <3>1 DEF J
    <2> DEFINE t == v \o (comma \o rest \o end)
    <2>5. t \in Texts
      BY <2>3, TextsJoin
    <2> HIDE DEF t
    <2>6. <<>> \o t = t
      BY <2>5, TextsJoin
    <2> QED
      BY <2>1, <2>2, <2>4, <2>6 DEF t
  <1>16. stack' = <<f, g>> \o Tail(stack) /\ <<>> \in Texts
    BY <1>1, <1>3, TextsJoin
  <1> HIDE DEF f, g
  <1>17. Text(cmd, arg, stack) = <<>> \o Text(cmd, arg, stack')
    BY <1>15, <1>16, CallsText
  <1> QED
    BY <1>1, <1>4, <1>16, <1>17 DEF Prints

LEMMA EndElementPrints ==
    ASSUME Ready, Next1, Leads(cmd, arg), EndElement
    PROVE  Prints(Comma(Top))
  <1> DEFINE n == Len(Elements(Heap[Top.v]))
             p == Position(Top.it)
             parts == MembersOf(cmd, arg, Top)
             it == Answered(Top.it, 0)
             g == Over(Top.v, Top.jo, FALSE, ret.jo, it)
             end == <<"]">>
             comma == Comma(Top)
             rest == From(parts, p + 2)
  <1>1. /\ Top.op = "elements" /\ Top.after
        /\ buf' = (IF Heap[Top.v].length = 1 THEN buf ELSE Put(buf, <<",">>))
        /\ stack' = <<GoesPast(Top, ret.jo, it)>> \o Tail(stack)
    BY DEF EndElement, Doing, Becomes, Rest, GoesPast, Alone, Val
  <1>2. /\ Top \in Frame /\ Top.v \in Values /\ Top.it \in Iteration
        /\ Top.jo.member = <<>> /\ IterationOK(Top.v, Top.it) /\ OnElement(Top.v, Top.it)
    BY <1>1, ArrayFrame
  <1>3. GoesPast(Top, ret.jo, it) = g
    <2> DEFINE r == ret.jo
               f == Top
    <2>0. f \in Frame /\ f.op = "elements"
      BY <1>1, <1>2
    <2> HIDE DEF it, r, f
    <2>1. GoesPast(f, r, it) = Over(f.v, f.jo, FALSE, r, it)
      BY <2>0, PastStep
    <2> QED
      BY <2>1 DEF r, f
  <1>4. Pending(cmd, arg, Top) = OfElements(cmd, arg, Top) /\ p \in Nat /\ n \in Nat
    BY <1>1, ArrayPending
  <1>5. /\ comma \in Texts /\ end \in Texts
        /\ \A i \in 1..(n + 1) : From(parts, i) \in Texts
    BY <1>1, ArrayParts DEF ElementsPartsOK
  <1>6. p + 2 \in 1..(n + 1) /\ (p + 1) + 1 = p + 2
    <2>1. p < n
      BY <1>2 DEF OnElement
    <2> HIDE DEF p, n
    <2> QED
      BY <1>4, <2>1
  <1>7. ~Over1(Top.it) /\ Reached(Top.it) = p /\ Top.it.at = "element"
    BY <1>2 DEF OnElement, InPage, Over1, Reached
  <1>8. it.rv = 0 /\ it.at = "element" /\ Reached(it) = p + 1
    <2>1. it.rv = 0 /\ it.at = "element" /\ Reached(it) = Reached(Top.it) + 1
      BY <1>2, <1>7, AnsweredOK
    <2> QED
      BY <1>7, <2>1
  <1> HIDE DEF it
  <1>9. ~Over1(it)
    BY <1>8 DEF Over1
  <1>10. Pending(cmd, arg, Top) = comma \o rest \o end
    BY <1>1, <1>4, <1>7 DEF OfElements
  <1>11. Pending(cmd, arg, g) = rest \o end
    <2>1. g.after = FALSE /\ g.sub = ret.jo /\ g.it = it
      BY DEF Over
    <2>2. /\ Pending(cmd, arg, g) = OfElements(cmd, arg, g)
          /\ MembersOf(cmd, arg, g) = parts
      <3> DEFINE t == Top
      <3>1. t.op = "elements" /\ t.jo.member = <<>> /\ g = Over(t.v, t.jo, g.after, g.sub, g.it)
        BY <1>1, <1>2, <2>1
      <3> HIDE DEF t, g
      <3>2. /\ Pending(cmd, arg, g) = OfElements(cmd, arg, g)
            /\ MembersOf(cmd, arg, g) = MembersOf(cmd, arg, t)
        BY <3>1, ArraySame
      <3> QED
        BY <3>2 DEF t
    <2> HIDE DEF g
    <2>3. Pending(cmd, arg, g) = From(parts, Reached(it) + 1) \o end
      BY <1>9, <2>1, <2>2 DEF OfElements
    <2> HIDE DEF p
    <2> QED
      BY <1>6, <1>8, <2>3
  <1>12. Pending(cmd, arg, Top) = comma \o Pending(cmd, arg, g)
    <2>1. rest \in Texts
      <3> HIDE DEF parts, n, p
      <3> QED
        BY <1>5, <1>6
    <2> HIDE DEF rest, comma, end, g
    <2>2. (comma \o rest) \o end = comma \o (rest \o end)
      BY <1>5, <2>1, TextsJoin
    <2> QED
      BY <1>10, <1>11, <2>2
  <1>13. stack' = <<g>> \o Tail(stack)
    BY <1>1, <1>3
  <1> HIDE DEF g, rest, end
  <1>14. Text(cmd, arg, stack) = comma \o Text(cmd, arg, stack')
    <2> HIDE DEF comma
    <2> QED
      BY <1>5, <1>12, <1>13, BecomesText
  <1>15. buf' = Put(buf, comma) \/ (comma = <<>> /\ buf' = buf)
    BY <1>1 DEF Comma
  <1> QED
    BY <1>5, <1>14, <1>15 DEF Prints

LEMMA CloseArrayPrints ==
    ASSUME Ready, Next1, Leads(cmd, arg), CloseArray
    PROVE  Prints(<<"]">>)
  <1>1. /\ Top.op = "elements" /\ Top.it.at = "done" /\ buf' = Put(buf, <<"]">>)
        /\ stack' = Tail(stack)
    BY DEF CloseArray, Doing, Return, Rest
  <1>2. Pending(cmd, arg, Top) = OfElements(cmd, arg, Top)
    BY <1>1, ArrayPending
  <1>3. Pending(cmd, arg, Top) = <<"]">> /\ <<"]">> \in Texts
    BY <1>1, <1>2, MarksAre DEF OfElements, Over1
  <1>4. Text(cmd, arg, stack) = <<"]">> \o Text(cmd, arg, stack')
    BY <1>1, <1>3, ReturnText
  <1> QED
    BY <1>1, <1>3, <1>4 DEF Prints

LEMMA OpenArrayPrints ==
    ASSUME Ready, Next1, Leads(cmd, arg), buf \in Buffer, OpenArray
    PROVE  \E x : Prints(x)
  <1> DEFINE d == Top.jo.depth
             in == Within(cmd, arg, d)
             a == Addresses(cmd, Top.v, arg - 1)
             h == Heap[Top.v]
             t == Contents(cmd, h, d, in)
             jo == Descended(Top.jo)
             it == StartIter(ArrayOf(Top.v))
             g == Over(Top.v, jo, FALSE, Deeper(jo), it)
             parts == Members(h, in)
             n == Len(Elements(h))
             open == <<"[">>
             end == <<"]">>
             x == a \o open
  <1>1. /\ h.kind = "array" /\ Top.jo.member = <<>> /\ d > 0 /\ Top.op = "value"
        /\ h.length > 0 /\ h.rv = 0
        /\ stack' = <<g>> \o Tail(stack) /\ buf' = Put(buf, Address \o open)
    BY DEF OpenArray, OnArray, Is, Doing, Val, Whole, Becomes, Rest, Over, TheArray, ArrayOf
  <1>2. FrameOK(cmd, arg, Top) /\ Printing(cmd, arg) /\ Top.jo \in Jsop
    BY TopIs DEF Ready
  <1>3. /\ Top.v \in Values /\ d \in Nat /\ in \in Inside /\ a \in Texts /\ t \in Texts
        /\ Pending(cmd, arg, Top) = a \o t
    BY <1>1, <1>2, ValueIs
  <1>4. Address = a
    BY <1>1, AddressIs
  <1>5. d # 0
    BY <1>1, <1>3
  <1>6. jo.member = <<>> /\ jo.depth = d
    BY <1>1, <1>2, JsopsTyped
  <1>7. g.op = "elements" /\ g.v = Top.v /\ g.jo = jo /\ g.after = FALSE /\ g.it = it
    BY DEF Over
  <1> HIDE DEF g, jo
  <1>8. MembersOf(cmd, arg, g) = parts
    BY <1>5, <1>6, <1>7 DEF MembersOf, Within
  <1>9. /\ parts \in Seq(Seq(Pieces)) /\ Len(parts) = n /\ From(parts, 1) = FlattenSeq(parts)
        /\ FlattenSeq(parts) \in Texts
    <2>1. parts \in Seq(Seq(Pieces)) /\ Len(parts) = n
      BY <1>3, MembersTyped DEF Texts
    <2> HIDE DEF parts
    <2>2. From(parts, 1) = FlattenSeq(parts)
      BY <2>1, FromIs
    <2> QED
      BY <2>1, <2>2, FlattenTyped DEF Texts
  <1>10. t = open \o FlattenSeq(parts) \o end
    <2> HIDE DEF d, parts
    <2>1. t = <<"[">> \o FlattenSeq(Members(h, in)) \o <<"]">>
      BY <1>1, <1>5 DEF Contents
    <2> QED
      BY <2>1 DEF parts
  <1>11. open \in Texts /\ end \in Texts
    BY MarksAre
  <1>12. Pending(cmd, arg, g) = FlattenSeq(parts) \o end
    <2>1. /\ it.at \in {"page", "done"} /\ it.rv = 0
          /\ it.at = "page" => Reached(it) = 0
          /\ it.at = "done" => n = 0
      BY <1>3, StartOK
    <2>2. Pending(cmd, arg, g) = OfElements(cmd, arg, g)
      BY <1>6, <1>7 DEF Pending
    <2> HIDE DEF it, n, parts
    <2>3. CASE it.at = "page"
      <3>1. ~Over1(it) /\ Reached(it) + 1 = 1
        BY <2>1, <2>3 DEF Over1
      <3>2. OfElements(cmd, arg, g) = From(parts, Reached(it) + 1) \o end
        BY <1>7, <1>8, <3>1 DEF OfElements
      <3> QED
        BY <1>9, <2>2, <3>1, <3>2
    <2>4. CASE it.at = "done"
      <3>1. parts = <<>>
        BY <1>9, <2>1, <2>4, NoneOf
      <3>2. FlattenSeq(parts) \o end = end
        BY <1>11, <3>1, FlattenNone, TextsJoin
      <3>3. OfElements(cmd, arg, g) = end
        BY <1>7, <2>4 DEF OfElements, Over1
      <3> QED
        BY <2>2, <3>2, <3>3
    <2> QED
      BY <2>1, <2>3, <2>4
  <1>13. x \in Texts
    BY <1>3, <1>11, TextsJoin
  <1>14. Pending(cmd, arg, Top) = x \o Pending(cmd, arg, g)
    <2> DEFINE fl == FlattenSeq(parts)
    <2>1. fl \in Texts /\ a \in Texts /\ open \in Texts /\ end \in Texts
      BY <1>3, <1>9, <1>11
    <2>2. Pending(cmd, arg, Top) = a \o (open \o fl \o end)
      BY <1>3, <1>10
    <2>3. Pending(cmd, arg, g) = fl \o end
      BY <1>12
    <2> HIDE DEF fl, a, open, end, g
    <2>4. (open \o fl) \o end = open \o (fl \o end) /\ fl \o end \in Texts
      BY <2>1, TextsJoin
    <2>5. (a \o open) \o (fl \o end) = a \o (open \o (fl \o end))
      BY <2>1, <2>4, TextsJoin
    <2> QED
      BY <2>2, <2>3, <2>4, <2>5
  <1>15. buf' = Put(buf, x)
    BY <1>1, <1>4
  <1> HIDE DEF x
  <1>16. Text(cmd, arg, stack) = x \o Text(cmd, arg, stack')
    BY <1>1, <1>13, <1>14, BecomesText
  <1>17. Prints(x)
    BY <1>13, <1>15, <1>16 DEF Prints
  <1> QED
    BY <1>17

-----------------------------------------------------------------------------
(* What the buffer holds from one step to the next.                        *)

(* The value that is printed last was cut: there is room for the           *)
(* terminator alone, and something is still to follow.                     *)
Ending(f) ==
    /\ f.jo.member = <<>>
    /\ \/ f.op = "props" /\ f.after
       \/ /\ f.op = "elements"
          /\ f.after \/ (Heap[f.v].length = 1 /\ (f.it.at # "done" => Reached(f.it) >= 1))

Tight(b, st) == b.left = 1 /\ st # <<>> /\ Ending(st[1])

\* the value the path leads to was cut
CutOff(c, m, b, st) ==
    /\ b.left > 0 /\ Shortened(Goal(c, m), b.out, Final(c, m))
    /\ st = <<>> \/ Past(st[1])

TextOK(c, m, b, st) ==
    b.left = 0 \/ Exact(c, m, b, st) \/ Tight(b, st) \/ CutOff(c, m, b, st)

\* which steps there are for the frame on top
LEMMA ByOp ==
    ASSUME Frames
    PROVE  /\ Top.op \in {"props", "elements", "match", "index", "value"}
           /\ Top.op = "props" /\ Top.after => EndProperty
           /\ Top.op = "elements" =>
                 \/ NextPage \/ StopElements \/ PrintElement \/ EndElement \/ EndElements
                 \/ CloseArray
           /\ Top.op = "match" \/ Top.op = "index" => PathActions \/ IndexOnObject
           /\ Top.op = "value" =>
                 \/ Leaf \/ OpenObject \/ OpenArray \/ PathActions
           /\ Top.op = "props" => \/ PrintName \/ EndProperty \/ CloseObject \/ LeaveObject
  <1>1. CASE Leaf
    <2>1. Top.op = "value"
      BY <1>1 DEF Leaf, PrintPlain, PrintScalar, PrintString, PrintNamed, DepthLimit,
                  LoseElements, NoElement, LoseArray, EmptyArray, OnArray, AtIndex, Is, Doing
    <2> QED
      BY <1>1, <2>1
  <1>2. CASE OpenObject \/ OpenArray
    <2>1. Top.op = "value"
      BY <1>2 DEF OpenObject, OpenArray, OnArray, Is, Doing
    <2> QED
      BY <1>2, <2>1
  <1>3. CASE FindMember \/ EnterElement
    <2>1. Top.op = "value" /\ PathActions
      BY <1>3 DEF FindMember, EnterElement, AtIndex, Is, Doing, PathActions
    <2> QED
      BY <2>1
  <1>4. CASE PrintName \/ CloseObject \/ LeaveObject
    <2>1. Top.op = "props" /\ ~Top.after
      BY <1>4 DEF PrintName, CloseObject, LeaveObject, Doing
    <2> QED
      BY <1>4, <2>1
  <1>5. CASE EndProperty
    <2>1. Top.op = "props"
      BY <1>5 DEF EndProperty, Doing
    <2> QED
      BY <1>5, <2>1
  <1>6. CASE IndexOnObject \/ OtherMember \/ EnterMember \/ LeaveMember \/ EndMembers
    <2>1. Top.op = "match"
      BY <1>6 DEF IndexOnObject, OtherMember, EnterMember, LeaveMember, EndMembers, Matching, Doing
    <2>2. PathActions \/ IndexOnObject
      BY <1>6 DEF PathActions
    <2> QED
      BY <2>1, <2>2
  <1>7. CASE LeaveElement
    <2>1. Top.op = "index" /\ PathActions
      BY <1>7 DEF LeaveElement, Doing, PathActions
    <2> QED
      BY <2>1
  <1>8. CASE \/ NextPage \/ StopElements \/ PrintElement \/ EndElement \/ EndElements
             \/ CloseArray
    <2>1. Top.op = "elements"
      BY <1>8 DEF NextPage, StopElements, PrintElement, EndElement, EndElements, CloseArray,
                  InElements, Doing
    <2> QED
      BY <1>8, <2>1
  <1> QED
    BY <1>1, <1>2, <1>3, <1>4, <1>5, <1>6, <1>7, <1>8 DEF Frames, Closes

\* what was cut off stays so
LEMMA CutOffKept ==
    ASSUME Ready, Next1, Leads(cmd, arg), Frames, buf \in Buffer,
           CutOff(cmd, arg, buf, stack)
    PROVE  buf' \in Buffer /\ CutOff(cmd, arg, buf', stack')
  <1>1. Past(Top)
    BY DEF CutOff, Ready, Top
  <1>2. Top.op = "match" \/ Top.op = "index"
    BY <1>1 DEF Past
  <1>3. PathActions
    <2>1. PathActions \/ IndexOnObject
      BY <1>2, ByOp
    <2> QED
      BY <2>1, NeverLost
  <1>4. OnTheWay
    BY <1>3, PathActionsWay
  <1> QED
    BY <1>1, <1>4 DEF OnTheWay, CutOff

\* a mark that does not fit fills the buffer
LEMMA Fills ==
    ASSUME buf \in Buffer, buf.left = 1, NEW x \in Texts, x # <<>>, buf' = Put(buf, x)
    PROVE  buf' \in Buffer /\ buf'.left = 0
  BY PutIs

LEMMA TightObject ==
    ASSUME Ready, Next1, Leads(cmd, arg), Frames, buf \in Buffer,
           Tight(buf, stack), Top.op = "props"
    PROVE  buf' \in Buffer /\ buf'.left = 0
  <1>1. Top.after
    BY DEF Tight, Ending, Top
  <1>2. buf' = Put(buf, <<",">>)
    BY <1>1, ByOp DEF EndProperty
  <1>3. <<",">> \in Texts /\ <<",">> # <<>>
    BY MarksAre
  <1> QED
    BY <1>2, <1>3, Fills DEF Tight

\* the frame after a step of the iteration
LEMMA TightIterates ==
    ASSUME Ready, Top.op = "elements", ~Top.after, buf' = buf,
           Tight(buf, stack), NEW it, stack' = <<WithIt(Top, it)>> \o Tail(stack),
           it.at # "done" => Reached(it) >= 1
    PROVE  Tight(buf', stack')
  <1> DEFINE g == WithIt(Top, it)
             r == Tail(stack)
             S == Frame \cup {g}
  <1>1. Top \in Frame /\ stack # <<>> /\ StackOK(cmd, arg, stack)
    BY ArrayFrame
  <1>2. g = Over(Top.v, Top.jo, Top.after, Top.sub, it)
    BY <1>1, OverSteps
  <1>3. r \in Seq(S) /\ g \in S
    BY <1>1, StackShrinks, SeqMonotonic
  <1>4. g.op = "elements" /\ g.v = Top.v /\ g.jo = Top.jo /\ g.it = it
    <2> HIDE DEF g
    <2> QED
      BY <1>2 DEF Over
  <1>5. Top.jo.member = <<>> /\ Heap[Top.v].length = 1 /\ buf.left = 1
    BY DEF Tight, Ending, Top
  <1> HIDE DEF g, r, S
  <1>6. Ending(g)
    BY <1>4, <1>5 DEF Ending
  <1>7. stack' = <<g>> \o r
    BY DEF g, r
  <1>8. stack' # <<>> /\ stack'[1] = g
    BY <1>3, <1>7, StackPushed
  <1> QED
    BY <1>5, <1>6, <1>8 DEF Tight

LEMMA TightArray ==
    ASSUME Ready, Next1, Leads(cmd, arg), Frames, buf \in Buffer,
           Tight(buf, stack), Top.op = "elements"
    PROVE  buf' \in Buffer /\ (buf'.left = 0 \/ Tight(buf', stack'))
  <1> DEFINE old == Top.it
             n == Len(Elements(Heap[Top.v]))
             a == ArrayOf(Top.v)
  <1>1. /\ Top \in Frame /\ Top.v \in Values /\ old \in Iteration /\ IterationOK(Top.v, old)
        /\ (Top.after => OnElement(Top.v, old)) /\ Top.after \in BOOLEAN
        /\ Top.jo.member = <<>> /\ StackOK(cmd, arg, stack) /\ stack # <<>>
    BY ArrayFrame
  <1>2. /\ buf.left = 1
        /\ ~Top.after => Heap[Top.v].length = 1 /\ (old.at # "done" => Reached(old) >= 1)
    BY DEF Tight, Ending, Top
  <1>3. Position(old) \in Nat /\ Reached(old) \in Nat
    BY ArrayPending
  <1>4. CASE NextPage
    <2> DEFINE it == ReadPage(a, old)
    <2>1. /\ old.at = "page" /\ buf' = buf
          /\ stack' = <<WithIt(Top, it)>> \o Tail(stack)
      BY <1>4 DEF NextPage, Doing, Becomes, Rest, WithIt, TheArray, ArrayOf, Val
    <2>2. ~Top.after
      BY <1>1, <2>1 DEF OnElement, InPage
    <2>3. /\ it.at \in {"element", "done"}
          /\ it.at = "element" => Reached(it) = Reached(old)
      BY <1>1, <2>1, ReadOK
    <2>4. Reached(old) >= 1
      BY <1>2, <2>1, <2>2
    <2> HIDE DEF it, old
    <2>5. it.at # "done" => Reached(it) >= 1
      BY <2>3, <2>4
    <2>6. Tight(buf', stack')
      BY <2>1, <2>2, <2>5, TightIterates
    <2> QED
      BY <2>1, <2>6
  <1>5. CASE StopElements
    <2> DEFINE it == Answered(old, -1)
    <2>1. /\ ~Top.after /\ old.at = "element" /\ buf' = buf
          /\ stack' = <<WithIt(Top, it)>> \o Tail(stack)
      BY <1>5 DEF StopElements, InElements, InPage, Doing, Becomes, Rest, WithIt
    <2>2. Reached(old) >= 1
      BY <1>2, <2>1
    <2>3. Reached(it) = Reached(old)
      <3>1. it.at = old.at /\ it.index = old.index /\ it.i = old.i
        BY <1>1 DEF Answered, Iteration
      <3> HIDE DEF it, old
      <3> QED
        BY <3>1 DEF Reached, Position
    <2> HIDE DEF it, old
    <2>4. it.at # "done" => Reached(it) >= 1
      BY <2>2, <2>3
    <2>5. Tight(buf', stack')
      BY <2>1, <2>4, TightIterates
    <2> QED
      BY <2>1, <2>5
  <1>6. ~PrintElement
    <2> SUFFICES ASSUME PrintElement PROVE FALSE
      OBVIOUS
    <2>1. ~Top.after
      BY DEF PrintElement, InElements
    <2>2. OnElement(Top.v, old)
      BY PrintElementPrints
    <2>3. Position(old) < n /\ old.at = "element"
      BY <2>2 DEF OnElement, InPage
    <2>4. n <= Heap[Top.v].length /\ n \in Nat
      BY ArrayPending
    <2>5. Reached(old) >= 1 /\ Heap[Top.v].length = 1
      BY <1>2, <2>1, <2>3
    <2>6. Reached(old) = Position(old)
      BY <2>3 DEF Reached
    <2> HIDE DEF old, n
    <2> QED
      BY <1>3, <2>3, <2>4, <2>5, <2>6
  <1>7. CASE EndElement
    <2> DEFINE it == Answered(old, 0)
               jo == ret.jo
               g == GoesPast(Top, jo, it)
    <2>1. /\ Top.after
          /\ buf' = (IF Heap[Top.v].length = 1 THEN buf ELSE Put(buf, <<",">>))
          /\ stack' = <<g>> \o Tail(stack)
      BY <1>7 DEF EndElement, Doing, Becomes, Rest, GoesPast, Alone, Val
    <2>2. CASE Heap[Top.v].length = 1
      <3>1. Reached(it) = Reached(old) + 1
        BY <1>1, <2>1, AnsweredOK DEF OnElement, InPage
      <3>2. Reached(it) >= 1
        <4> HIDE DEF it, old
        <4> QED
          BY <1>3, <3>1
      <3>3. g = Over(Top.v, Top.jo, FALSE, jo, it)
        <4> DEFINE f == Top
        <4>1. f \in Frame /\ f.op = "elements"
          BY <1>1
        <4> HIDE DEF it, jo, f
        <4>2. GoesPast(f, jo, it) = Over(f.v, f.jo, FALSE, jo, it)
          BY <4>1, PastStep
        <4> QED
          BY <4>2 DEF f
      <3>4. g.op = "elements" /\ g.v = Top.v /\ g.jo = Top.jo /\ g.it = it
        <4> HIDE DEF g
        <4> QED
          BY <3>3 DEF Over
      <3> DEFINE r == Tail(stack)
                 S == Frame \cup {g}
      <3>5. r \in Seq(S) /\ g \in S
        BY <1>1, StackShrinks, SeqMonotonic
      <3> HIDE DEF g, r, S, it
      <3>6. Ending(g)
        BY <1>1, <2>2, <3>2, <3>4 DEF Ending
      <3>7. stack' = <<g>> \o r /\ buf' = buf
        BY <2>1, <2>2 DEF r
      <3>8. stack' # <<>> /\ stack'[1] = g
        BY <3>5, <3>7, StackPushed
      <3>9. Tight(buf', stack')
        BY <1>2, <3>6, <3>7, <3>8 DEF Tight
      <3> QED
        BY <3>7, <3>9
    <2>3. CASE Heap[Top.v].length # 1
      <3>1. buf' = Put(buf, <<",">>) /\ <<",">> \in Texts /\ <<",">> # <<>>
        BY <2>1, <2>3, MarksAre
      <3> QED
        BY <1>2, <3>1, Fills
    <2> QED
      BY <2>2, <2>3
  <1>8. CASE EndElements
    <2> DEFINE it == EndPage(a, old)
    <2>1. /\ ~Top.after /\ PageEnds(a, old) /\ buf' = buf
          /\ stack' = <<WithIt(Top, it)>> \o Tail(stack)
      BY <1>8 DEF EndElements, Doing, Becomes, Rest, WithIt, TheArray, ArrayOf, Val
    <2>2. /\ it.at \in {"page", "done"}
          /\ it.at = "page" => Reached(it) = Reached(old)
      BY <1>1, <2>1, EndPageOK
    <2>3. Reached(old) >= 1
      <3>1. old.at # "done"
        BY <2>1 DEF PageEnds
      <3> QED
        BY <1>2, <2>1, <3>1
    <2> HIDE DEF it, old
    <2>4. it.at # "done" => Reached(it) >= 1
      BY <2>2, <2>3
    <2>5. Tight(buf', stack')
      BY <2>1, <2>4, TightIterates
    <2> QED
      BY <2>1, <2>5
  <1>9. CASE CloseArray
    <2>1. buf' = Put(buf, <<"]">>) /\ <<"]">> \in Texts /\ <<"]">> # <<>>
      BY <1>9, MarksAre DEF CloseArray
    <2> QED
      BY <1>2, <2>1, Fills
  <1>10. \/ NextPage \/ StopElements \/ PrintElement \/ EndElement \/ EndElements
         \/ CloseArray
    BY ByOp
  <1> QED
    BY <1>4, <1>5, <1>6, <1>7, <1>8, <1>9, <1>10

LEMMA TightKept ==
    ASSUME Ready, Next1, Leads(cmd, arg), Frames, buf \in Buffer, Tight(buf, stack)
    PROVE  buf' \in Buffer /\ (buf'.left = 0 \/ Tight(buf', stack'))
  <1>1. Top.op = "props" \/ Top.op = "elements"
    BY DEF Tight, Ending, Top
  <1> QED
    BY <1>1, TightObject, TightArray

(* What a string buffer has cut.                                           *)
LEMMA Within1 ==
    ASSUME NEW S, NEW a \in Seq(S), NEW t \in Seq(S), NEW k \in Nat, k <= Len(t)
    PROVE  /\ SubSeq(a \o t, 1, Len(a) + k) = a \o SubSeq(t, 1, k)
           /\ Len(a \o t) = Len(a) + Len(t) /\ Len(a) \in Nat /\ Len(t) \in Nat
  <1> DEFINE n == Len(a) + k
             x == SubSeq(a \o t, 1, n)
             u == SubSeq(t, 1, k)
             y == a \o u
  <1>1. /\ Len(a) \in Nat /\ Len(t) \in Nat /\ a \o t \in Seq(S) /\ Len(a \o t) = Len(a) + Len(t)
        /\ \A i \in 1..Len(a) : (a \o t)[i] = a[i]
        /\ \A i \in 1..Len(t) : (a \o t)[Len(a) + i] = t[i]
    OBVIOUS
  <1>2. n \in Nat /\ n <= Len(a \o t)
    BY <1>1
  <1>3. x \in Seq(S) /\ Len(x) = n /\ \A i \in 1..n : x[i] = (a \o t)[i]
    <2> DEFINE s == a \o t
    <2>1. s \in Seq(S) /\ n \in Nat /\ n <= Len(s)
      BY <1>1, <1>2
    <2> HIDE DEF s, n
    <2>2. /\ SubSeq(s, 1, n) \in Seq(S) /\ Len(SubSeq(s, 1, n)) = n
          /\ \A i \in 1..n : SubSeq(s, 1, n)[i] = s[i]
      BY <2>1
    <2> QED
      BY <2>2 DEF s
  <1>4. u \in Seq(S) /\ Len(u) = k /\ \A i \in 1..k : u[i] = t[i]
    OBVIOUS
  <1> HIDE DEF u
  <1>5. /\ y \in Seq(S) /\ Len(y) = Len(a) + k
        /\ \A i \in 1..Len(a) : y[i] = a[i]
        /\ \A i \in 1..k : y[Len(a) + i] = u[i]
    <2>1. u \in Seq(S) /\ Len(u) = k
      BY <1>4
    <2>2. /\ y \in Seq(S) /\ Len(y) = Len(a) + Len(u)
          /\ \A i \in 1..Len(a) : y[i] = a[i]
          /\ \A i \in 1..Len(u) : y[Len(a) + i] = u[i]
      BY <2>1
    <2> HIDE DEF y
    <2> QED
      BY <2>1, <2>2
  <1> HIDE DEF x, y
  <1>6. ASSUME NEW i \in 1..n PROVE x[i] = y[i]
    <2>1. CASE i \in 1..Len(a)
      BY <1>1, <1>3, <1>5, <2>1
    <2>2. CASE i \notin 1..Len(a)
      <3> DEFINE j == i - Len(a)
      <3>1. j \in 1..k /\ j \in 1..Len(t) /\ i = Len(a) + j
        BY <1>1, <2>2
      <3> HIDE DEF j
      <3>2. x[i] = (a \o t)[i] /\ (a \o t)[Len(a) + j] = t[j] /\ y[Len(a) + j] = u[j] /\ u[j] = t[j]
        BY <1>1, <1>3, <1>4, <1>5, <3>1
      <3> QED
        BY <3>1, <3>2
    <2> QED
      BY <2>1, <2>2
  <1>7. x = y
    <2>1. Len(x) = n /\ Len(y) = n
      BY <1>3, <1>5
    <2> HIDE DEF n
    <2> QED
      BY <1>3, <1>5, <1>6, <2>1, SeqEqual
  <1> QED
    BY <1>1, <1>7 DEF x, y, u

LEMMA CutShort ==
    ASSUME NEW a \in Texts, NEW t \in Texts, NEW L \in Texts, NEW k \in Nat, k <= Len(t),
           k > 0 => k <= Len(L) /\ SubSeq(L, 1, k - 1) = SubSeq(t, 1, k - 1)
    PROVE  \E n \in 0..Len(a \o L) : a \o Cut(t, k) \in {SubSeq(a \o L, 1, n), Cut(a \o L, n)}
  <1>1. a \in Seq(Pieces) /\ t \in Seq(Pieces) /\ L \in Seq(Pieces) /\ Len(L) \in Nat
        /\ Len(t) \in Nat
    BY DEF Texts
  <1>2. CASE k = 0
    <2>1. /\ SubSeq(a \o L, 1, Len(a) + 0) = a \o SubSeq(L, 1, 0)
          /\ Len(a \o L) = Len(a) + Len(L) /\ Len(a) \in Nat
      BY <1>1, Within1
    <2>2. SubSeq(L, 1, 0) = <<>>
      BY <1>1
    <2>3. a \o Cut(t, k) = a \o SubSeq(L, 1, 0)
      BY <1>2, <2>2 DEF Cut
    <2> DEFINE n == Len(a) + 0
    <2>4. n \in 0..Len(a \o L)
      BY <1>1, <2>1
    <2> HIDE DEF n
    <2>5. a \o Cut(t, k) = SubSeq(a \o L, 1, n)
      BY <2>1, <2>3 DEF n
    <2> QED
      BY <2>4, <2>5
  <1>3. CASE k # 0
    <2> DEFINE j == k - 1
               n == Len(a) + k
               e == <<"[...]">>
               s == SubSeq(t, 1, j)
    <2>1. j \in Nat /\ j <= Len(L) /\ k <= Len(L) /\ SubSeq(L, 1, j) = s
      BY <1>1, <1>3
    <2>2. s \in Texts /\ e \in Texts
      <3>1. j <= Len(t)
        BY <1>1, <1>3
      <3>2. SubSeq(t, 1, j) \in Seq(Pieces)
        <4> HIDE DEF j
        <4> QED
          BY <1>1, <2>1, <3>1
      <3> QED
        BY <3>2, MarksAre DEF Texts
    <2>3. /\ SubSeq(a \o L, 1, Len(a) + j) = a \o SubSeq(L, 1, j)
          /\ Len(a \o L) = Len(a) + Len(L) /\ Len(a) \in Nat
      <3> HIDE DEF j
      <3> QED
        BY <1>1, <2>1, Within1
    <2>4. n \in 0..Len(a \o L) /\ n # 0 /\ n - 1 = Len(a) + j
      BY <1>1, <1>3, <2>1, <2>3
    <2>5. Cut(t, k) = s \o e
      BY <1>3 DEF Cut
    <2>6. Cut(a \o L, n) = SubSeq(a \o L, 1, n - 1) \o e
      <3> HIDE DEF n
      <3> QED
        BY <2>4 DEF Cut
    <2> HIDE DEF n, j, s, e
    <2>7. a \o (s \o e) = (a \o s) \o e
      BY <2>2, TextsJoin
    <2>8. a \o Cut(t, k) = Cut(a \o L, n)
      BY <2>1, <2>3, <2>4, <2>5, <2>6, <2>7
    <2> QED
      BY <2>4, <2>8
  <1> QED
    BY <1>2, <1>3

LEMMA FirstOfCut ==
    ASSUME NEW S, NEW t \in Seq(S), NEW e \in S, NEW m \in Nat, m <= Len(t), NEW j \in Nat, j <= m
    PROVE  LET L == SubSeq(t, 1, m) \o <<e>>
           IN  L \in Seq(S) /\ Len(L) = m + 1 /\ SubSeq(L, 1, j) = SubSeq(t, 1, j)
  <1> DEFINE u == SubSeq(t, 1, m)
             L == u \o <<e>>
             x == SubSeq(L, 1, j)
             y == SubSeq(t, 1, j)
  <1>1. u \in Seq(S) /\ Len(u) = m /\ (\A i \in 1..m : u[i] = t[i]) /\ Len(t) \in Nat
    OBVIOUS
  <1> HIDE DEF u
  <1>2. L \in Seq(S) /\ Len(L) = m + 1 /\ \A i \in 1..m : L[i] = u[i]
    BY <1>1
  <1> HIDE DEF L
  <1>3. x \in Seq(S) /\ Len(x) = j /\ \A i \in 1..j : x[i] = L[i]
    BY <1>2
  <1>4. y \in Seq(S) /\ Len(y) = j /\ \A i \in 1..j : y[i] = t[i]
    BY <1>1
  <1> HIDE DEF x, y
  <1>5. ASSUME NEW i \in 1..j PROVE x[i] = y[i]
    <2>1. i \in 1..m
      OBVIOUS
    <2> QED
      BY <1>1, <1>2, <1>3, <1>4, <2>1
  <1>6. x = y
    BY <1>3, <1>4, <1>5, SeqEqual
  <1>7. L \in Seq(S) /\ Len(L) = m + 1 /\ x = y
    BY <1>2, <1>6
  <1> QED
    BY <1>7 DEF L, u, x, y

\* -N shortens to no less than what is in the buffer's way
LEMMA LimitedCut ==
    ASSUME NEW c \in Command, NEW t \in Texts, NEW room \in Nat, room > 0, room <= Len(t),
           c.limit = 0 \/ c.limit >= room
    PROVE  LET L == Limited(c, t)
               k == room - 1
           IN  /\ k \in Nat /\ k <= Len(t)
               /\ k > 0 => k <= Len(L) /\ SubSeq(L, 1, k - 1) = SubSeq(t, 1, k - 1)
  <1> DEFINE L == Limited(c, t)
             k == room - 1
  <1>1. t \in Seq(Pieces) /\ Len(t) \in Nat /\ c.limit \in Nat
    BY CommandTyped DEF Texts
  <1>2. k \in Nat /\ k <= Len(t)
    BY <1>1
  <1>3. CASE c.limit = 0 \/ Len(t) < c.limit
    <2>1. L = t
      BY <1>3 DEF Limited
    <2> QED
      BY <1>2, <2>1
  <1>4. CASE ~(c.limit = 0 \/ Len(t) < c.limit)
    <2>1. L = Cut(t, c.limit - 1)
      BY <1>4 DEF Limited
    <2>2. ASSUME k > 0 PROVE k <= Len(L) /\ SubSeq(L, 1, k - 1) = SubSeq(t, 1, k - 1)
      <3> DEFINE m == (c.limit - 1) - 1
                 j == k - 1
                 e == "[...]"
      <3>1. /\ c.limit - 1 # 0 /\ m \in Nat /\ m <= Len(t) /\ j \in Nat /\ j <= m /\ k <= m + 1
        BY <1>1, <1>4, <2>2
      <3>2. L = SubSeq(t, 1, m) \o <<e>>
        BY <2>1, <3>1 DEF Cut
      <3>3. e \in Pieces
        BY MarksAre
      <3> HIDE DEF m, j, e, L, k
      <3>4. Len(L) = m + 1 /\ SubSeq(L, 1, j) = SubSeq(t, 1, j)
        BY <1>1, <3>1, <3>2, <3>3, FirstOfCut
      <3> QED
        BY <3>1, <3>4 DEF j
    <2> HIDE DEF L, k
    <2>3. /\ k \in Nat /\ k <= Len(t)
          /\ k > 0 => k <= Len(L) /\ SubSeq(L, 1, k - 1) = SubSeq(t, 1, k - 1)
      BY <1>2, <2>2
    <2> QED
      BY <2>3 DEF L, k
  <1> QED
    BY <1>3, <1>4

\* who waits for a value
LEMMA CallerEnds ==
    ASSUME Ready, Rest # <<>>, Rest[1].jo.member = <<>>
    PROVE  Ending(Rest[1])
  <1> DEFINE g == Rest[1]
  <1>1. FrameOK(cmd, arg, g) /\ Calling(Top, g)
    BY TopIs
  <1>2. g.jo.member = <<>>
    OBVIOUS
  <1> HIDE DEF g
  <1>3. Waiting(g)
    BY <1>1 DEF Calling
  <1>4. g.op # "index" /\ g.op # "match"
    BY <1>1, <1>2 DEF FrameOK, IndexOK, MatchOK
  <1>5. (g.op = "props" \/ g.op = "elements") /\ g.after
    BY <1>3, <1>4 DEF Waiting
  <1>6. Ending(g)
    BY <1>2, <1>5 DEF Ending
  <1> QED
    BY <1>6 DEF g

\* the value printed is the one the path leads to, and all there is to print
LEMMA LastIs ==
    ASSUME Ready, Leads(cmd, arg), Exact(cmd, arg, buf, stack), buf \in Buffer,
           Top.op = "value", Top.jo.member = <<>>,
           Rest = <<>> \/ Rest[1].jo.member # <<>>
    PROVE  /\ Top.v = Goal(cmd, arg) /\ buf.out = <<>>
           /\ Pending(cmd, arg, Top) = Final(cmd, arg)
  <1>1. /\ StackOK(cmd, arg, stack) /\ stack # <<>> /\ Printing(cmd, arg)
    BY DEF Ready, Kept
  <1>2. Top.v = Goal(cmd, arg) /\ Top.jo.depth = cmd.depth
    BY <1>1, AtGoal DEF Top, Rest
  <1>3. Pending(cmd, arg, Top) = Final(cmd, arg)
    BY <1>2 DEF Pending, Final
  <1> DEFINE r == Text(cmd, arg, Rest)
             p == Pending(cmd, arg, Top)
             o == buf.out
  <1>4. Text(cmd, arg, stack) = p \o r /\ r \in Texts /\ p \in Texts
    BY TopText DEF Rest
  <1>5. o \o (p \o r) = p
    BY <1>3, <1>4 DEF Exact
  <1>6. o \in Seq(Pieces) /\ p \in Seq(Pieces) /\ r \in Seq(Pieces)
    BY <1>4 DEF Buffer, Texts
  <1> HIDE DEF o, p, r
  <1>7. Len(o \o (p \o r)) = Len(o) + (Len(p) + Len(r))
    BY <1>6
  <1>8. Len(o) = 0
    BY <1>5, <1>6, <1>7
  <1>9. o = <<>>
    BY <1>6, <1>8
  <1> QED
    BY <1>2, <1>3, <1>9 DEF o, p

-----------------------------------------------------------------------------
(* Values that go through a string buffer.                                 *)

\* what there is to print of a text for which there is not enough room
Cuts(text, L, room) ==
    LET k == room - 1
    IN  /\ k \in Nat /\ k <= Len(text)
        /\ k > 0 => k <= Len(L) /\ SubSeq(L, 1, k - 1) = SubSeq(text, 1, k - 1)

LEMMA PutFits ==
    ASSUME NEW a \in Buffer, NEW t \in Texts, Put(a, t).left > 0
    PROVE  Put(a, t).out = a.out \o t /\ a.left # 0
  <1>1. /\ Put(a, t).left = 0 \/ Put(a, t).out = a.out \o t
        /\ a.left = 0 => Put(a, t).left = 0
    BY PutIs
  <1>2. Put(a, t).left # 0
    OBVIOUS
  <1> QED
    BY <1>1, <1>2

\* a string buffer's text is what was to be printed
LEMMA FitPrints ==
    ASSUME Ready, Next1, Leads(cmd, arg), buf \in Buffer,
           buf.left = 0 \/ Exact(cmd, arg, buf, stack), stack' = Tail(stack),
           NEW STATE pre, pre \in Texts, NEW STATE L, L \in Texts, NEW STATE b, b = Put(buf, pre), b.left > 0,
           Pending(cmd, arg, Top) = pre \o L,
           buf' \in Buffer, buf'.left > 0, buf'.out = b.out \o L
    PROVE  Exact(cmd, arg, buf', stack')
  <1> DEFINE a == buf.out
             u == Text(cmd, arg, stack')
  <1>1. a \in Texts /\ b.out = a \o pre /\ buf.left # 0
    <2>1. b.out = buf.out \o pre /\ buf.left # 0
      BY PutFits
    <2>2. a \in Texts
      BY DEF Buffer
    <2> QED
      BY <2>1, <2>2
  <1>2. a \o Text(cmd, arg, stack) = Final(cmd, arg)
    BY <1>1 DEF Exact
  <1>3. Printing(cmd, arg) /\ StackOK(cmd, arg, stack')
    BY DEF Ready, Next1, Kept
  <1>4. u \in Texts
    BY <1>3, StackText
  <1>5. Text(cmd, arg, stack) = (pre \o L) \o u
    BY ReturnText
  <1> HIDE DEF a, u
  <1>6. ((a \o pre) \o L) \o u = a \o ((pre \o L) \o u)
    <2>1. J(J(J(a, pre), L), u) = J(a, J(J(pre, L), u))
      BY <1>1, <1>4, Joins
    <2> QED
      BY <2>1 DEF J
  <1>7. buf'.out \o u = Final(cmd, arg)
    BY <1>1, <1>2, <1>5, <1>6
  <1> QED
    BY <1>7 DEF Exact, u

\* there was not enough of it
LEMMA ShortPrints ==
    ASSUME Ready, Next1, Leads(cmd, arg), buf \in Buffer,
           Exact(cmd, arg, buf, stack), stack' = Tail(stack),
           Top.op = "value", Top.jo.member = <<>>, Heap[Top.v].kind \in {"string", "named"},
           NEW STATE pre, pre \in Texts, NEW STATE L, L \in Texts, NEW STATE text, text \in Texts,
           NEW STATE b, b = Put(buf, pre), b.left > 0,
           Pending(cmd, arg, Top) = pre \o L, Cuts(text, L, b.left),
           buf' \in Buffer, buf'.left = 1, buf'.out = b.out \o Cut(text, b.left - 1)
    PROVE  Tight(buf', stack') \/ CutOff(cmd, arg, buf', stack')
  <1>0. b.out = buf.out \o pre
    BY PutFits
  <1>1. stack' = Rest
    BY DEF Rest
  <1>2. CASE Rest # <<>> /\ Rest[1].jo.member = <<>>
    <2>1. Ending(Rest[1])
      BY <1>2, CallerEnds
    <2> QED
      BY <1>1, <1>2, <2>1 DEF Tight
  <1>3. CASE Rest = <<>> \/ Rest[1].jo.member # <<>>
    <2>1. /\ Top.v = Goal(cmd, arg) /\ buf.out = <<>>
          /\ Pending(cmd, arg, Top) = Final(cmd, arg)
      BY <1>3, LastIs
    <2> DEFINE s == Final(cmd, arg)
               t == buf'.out
    <2>2. b.out = pre
      BY <1>0, <2>1, TextsJoin
    <2>3. s = pre \o L /\ t = pre \o Cut(text, b.left - 1)
      BY <2>1, <2>2
    <2> DEFINE k == b.left - 1
    <2>4. /\ k \in Nat /\ k <= Len(text)
          /\ k > 0 => k <= Len(L) /\ SubSeq(L, 1, k - 1) = SubSeq(text, 1, k - 1)
      BY DEF Cuts
    <2> HIDE DEF k, s
    <2>5. \E n \in 0..Len(pre \o L) : pre \o Cut(text, k) \in {SubSeq(pre \o L, 1, n), Cut(pre \o L, n)}
      BY <2>4, CutShort
    <2>6. t = pre \o Cut(text, k)
      BY <2>3 DEF k
    <2> HIDE DEF t
    <2>7. \E n \in 0..Len(s) : t \in {SubSeq(s, 1, n), Cut(s, n)}
      BY <2>3, <2>5, <2>6
    <2>8. Shortened(Goal(cmd, arg), buf'.out, Final(cmd, arg))
      BY <2>1, <2>7 DEF Shortened, s, t
    <2>9. stack' = <<>> \/ Past(stack'[1])
      <3>1. CASE Rest = <<>>
        BY <1>1, <3>1
      <3>2. CASE Rest # <<>>
        BY <1>1, <1>3, <3>2, PastCaller
      <3> QED
        BY <3>1, <3>2
    <2>10. buf'.left > 0
      OBVIOUS
    <2> QED
      BY <2>8, <2>9, <2>10 DEF CutOff
  <1> QED
    BY <1>2, <1>3

LEMMA CutPrints ==
    ASSUME Ready, Next1, Leads(cmd, arg), buf \in Buffer,
           buf.left = 0 \/ Exact(cmd, arg, buf, stack), stack' = Tail(stack),
           Top.op = "value", Top.jo.member = <<>>, Heap[Top.v].kind \in {"string", "named"},
           NEW STATE pre, pre \in Texts, NEW STATE L, L \in Texts, NEW STATE text, text \in Texts,
           NEW STATE b, b = Put(buf, pre), NEW STATE room, room \in Nat, room <= b.left,
           b.left > 0 => room > 0,
           Pending(cmd, arg, Top) = pre \o L, buf' = Through(b, text, room),
           Len(text) < room => L = text,
           room > 0 /\ room <= Len(text) =>
              L = Cut(text, room - 1) \/ (room = b.left /\ Cuts(text, L, room))
    PROVE  buf' \in Buffer /\ TextOK(cmd, arg, buf', stack')
  <1>1. /\ b \in Buffer /\ b.left \in Nat /\ Len(text) \in Nat
        /\ buf.left = 0 => b.left = 0
    <2>1. b \in Buffer /\ (buf.left = 0 => b.left = 0)
      BY PutIs
    <2>2. b.left \in Nat /\ Len(text) \in Nat
      BY <2>1 DEF Buffer, Texts
    <2> QED
      BY <2>1, <2>2
  <1>2. /\ buf' \in Buffer
        /\ b.left = 0 => buf'.left = 0
        /\ Len(text) < room => buf'.out = b.out \o text /\ buf'.left > 0
        /\ b.left > 0 /\ ~(Len(text) < room) =>
              /\ buf'.out = b.out \o Cut(text, room - 1)
              /\ buf'.left = b.left - (room - 1)
              /\ buf'.left > 0
    BY <1>1, ThroughIs
  <1>3. CASE b.left = 0
    BY <1>2, <1>3 DEF TextOK
  <1>4. CASE b.left # 0 /\ (Len(text) < room \/ L = Cut(text, room - 1))
    <2>1. b.left > 0 /\ room > 0
      BY <1>1, <1>4
    <2>2. buf'.out = b.out \o L /\ buf'.left > 0
      BY <1>2, <1>4, <2>1
    <2>3. Exact(cmd, arg, buf', stack')
      BY <1>1, <1>2, <2>1, <2>2, FitPrints
    <2> QED
      BY <1>2, <2>3 DEF TextOK
  <1>5. CASE b.left # 0 /\ ~(Len(text) < room) /\ L # Cut(text, room - 1)
    <2>1. b.left > 0 /\ room > 0 /\ room <= Len(text) /\ buf.left # 0
      BY <1>1, <1>5
    <2>2. room = b.left /\ Cuts(text, L, b.left)
      BY <1>5, <2>1
    <2>3. buf'.out = b.out \o Cut(text, b.left - 1) /\ buf'.left = 1
      <3>1. buf'.out = b.out \o Cut(text, room - 1) /\ buf'.left = b.left - (room - 1)
        BY <1>2, <1>5, <2>1
      <3>2. b.left - (b.left - 1) = 1
        BY <1>1
      <3> QED
        BY <2>2, <3>1, <3>2
    <2>4. Exact(cmd, arg, buf, stack)
      BY <2>1
    <2>5. Tight(buf', stack') \/ CutOff(cmd, arg, buf', stack')
      BY <1>1, <1>2, <2>1, <2>2, <2>3, <2>4, ShortPrints
    <2> QED
      BY <1>2, <2>5 DEF TextOK
  <1> QED
    BY <1>3, <1>4, <1>5

LEMMA RoomIs ==
    ASSUME cmd \in Command, NEW b, b \in Buffer
    PROVE  /\ Room(b) \in Nat /\ Room(b) <= b.left /\ (b.left > 0 => Room(b) > 0)
           /\ cmd.limit = 0 \/ cmd.limit >= Room(b)
           /\ Room(b) = b.left \/ (Room(b) = cmd.limit /\ cmd.limit # 0)
  <1>1. cmd.limit \in Nat /\ b.left \in Nat
    BY CommandTyped DEF Buffer
  <1>2. CASE cmd.limit = 0 \/ cmd.limit >= b.left
    <2>1. Room(b) = b.left
      BY <1>2 DEF Room
    <2> QED
      BY <1>1, <1>2, <2>1
  <1>3. CASE ~(cmd.limit = 0 \/ cmd.limit >= b.left)
    <2>1. Room(b) = cmd.limit
      BY <1>3 DEF Room
    <2> QED
      BY <1>1, <1>3, <2>1
  <1> QED
    BY <1>2, <1>3

LEMMA PrintStringKept ==
    ASSUME Ready, Next1, Leads(cmd, arg), buf \in Buffer,
           buf.left = 0 \/ Exact(cmd, arg, buf, stack), PrintString
    PROVE  buf' \in Buffer /\ TextOK(cmd, arg, buf', stack')
  <1> DEFINE d == Top.jo.depth
             in == Within(cmd, arg, d)
             pre == Addresses(cmd, Top.v, arg - 1)
             h == Heap[Top.v]
             text == h.text
             L == Contents(cmd, h, d, in)
             b == Put(buf, pre)
             room == Room(b)
  <1>1. /\ Top.op = "value" /\ h.kind = "string" /\ stack' = Tail(stack)
        /\ buf' = Through(Put(buf, Address), text, Room(Put(buf, Address)))
    BY DEF PrintString, Is, Doing, Val, Return, Rest
  <1>2. Top.jo.member = <<>>
    <2>1. Leaf
      BY DEF Leaf
    <2> QED
      BY <2>1, EndsWhere
  <1>3. FrameOK(cmd, arg, Top) /\ Printing(cmd, arg)
    BY TopIs DEF Ready
  <1>4. /\ Top.v \in Values /\ pre \in Texts /\ L \in Texts
        /\ Pending(cmd, arg, Top) = pre \o L
    BY <1>1, <1>2, <1>3, ValueIs
  <1>5. Address = pre
    BY <1>2, AddressIs
  <1>6. L = Limited(cmd, text)
    BY <1>1 DEF Contents
  <1>7. text \in Texts /\ cmd \in Command /\ cmd.limit \in Nat
    BY <1>3, <1>4, HeapTyped, CommandTyped DEF Printing
  <1>8. b \in Buffer /\ b.left \in Nat /\ Len(text) \in Nat
    <2>1. b \in Buffer
      BY <1>4, PutIs
    <2> HIDE DEF b
    <2> QED
      BY <1>7, <2>1 DEF Buffer, Texts
  <1> HIDE DEF b, L, text, pre
  <1>9. /\ room \in Nat /\ room <= b.left /\ (b.left > 0 => room > 0)
        /\ cmd.limit = 0 \/ cmd.limit >= room
        /\ room = b.left \/ (room = cmd.limit /\ cmd.limit # 0)
    BY <1>7, <1>8, RoomIs DEF room
  <1>10. buf' = Through(b, text, room)
    BY <1>1, <1>5 DEF b
  <1> HIDE DEF room
  <1>11. Len(text) < room => L = text
    <2> SUFFICES ASSUME Len(text) < room PROVE L = text
      OBVIOUS
    <2>1. cmd.limit = 0 \/ Len(text) < cmd.limit
      BY <1>7, <1>8, <1>9
    <2> QED
      BY <1>6, <2>1 DEF Limited
  <1>12. room > 0 /\ room <= Len(text) =>
            L = Cut(text, room - 1) \/ (room = b.left /\ Cuts(text, L, room))
    <2> SUFFICES ASSUME room > 0, room <= Len(text)
                 PROVE  L = Cut(text, room - 1) \/ (room = b.left /\ Cuts(text, L, room))
      OBVIOUS
    <2>1. CASE room = b.left
      <3>1. Cuts(text, Limited(cmd, text), room)
        <4> DEFINE c == cmd
                   t == text
        <4>1. /\ c \in Command /\ t \in Texts /\ room \in Nat /\ room > 0 /\ room <= Len(t)
              /\ c.limit = 0 \/ c.limit >= room
          BY <1>7, <1>9
        <4> HIDE DEF c, t
        <4>2. LET K == Limited(c, t)
                  k == room - 1
              IN  /\ k \in Nat /\ k <= Len(t)
                  /\ k > 0 => k <= Len(K) /\ SubSeq(K, 1, k - 1) = SubSeq(t, 1, k - 1)
          BY <4>1, LimitedCut
        <4>3. Cuts(t, Limited(c, t), room)
          BY <4>2 DEF Cuts
        <4> QED
          BY <4>3 DEF c, t
      <3> QED
        BY <1>6, <2>1, <3>1
    <2>2. CASE room = cmd.limit /\ cmd.limit # 0
      <3>1. ~(cmd.limit = 0 \/ Len(text) < cmd.limit)
        BY <1>7, <1>8, <2>2
      <3>2. L = Cut(text, cmd.limit - 1)
        BY <1>6, <3>1 DEF Limited
      <3> QED
        BY <2>2, <3>2
    <2> QED
      BY <1>9, <2>1, <2>2
  <1>13. b = Put(buf, pre) /\ Heap[Top.v].kind \in {"string", "named"}
    BY <1>1 DEF b
  <1>14. room \in Nat /\ room <= b.left /\ (b.left > 0 => room > 0) /\ text \in Texts
    BY <1>7, <1>9
  <1>15. L \in Texts /\ pre \in Texts /\ Pending(cmd, arg, Top) = pre \o L
    BY <1>4
  <1> HIDE DEF h
  <1> QED
    BY <1>1, <1>2, <1>10, <1>11, <1>12, <1>13, <1>15, <1>14, CutPrints

LEMMA PrintNamedKept ==
    ASSUME Ready, Next1, Leads(cmd, arg), buf \in Buffer,
           buf.left = 0 \/ Exact(cmd, arg, buf, stack), PrintNamed
    PROVE  buf' \in Buffer /\ TextOK(cmd, arg, buf', stack')
  <1> DEFINE d == Top.jo.depth
             in == Within(cmd, arg, d)
             a == Addresses(cmd, Top.v, arg - 1)
             h == Heap[Top.v]
             L == h.text
             pre == a \o h.head
             b == Put(buf, pre)
             room == b.left
  <1>1. /\ Top.op = "value" /\ h.kind = "named" /\ stack' = Tail(stack)
        /\ buf' = Through(Put(buf, Address \o h.head), L, Put(buf, Address \o h.head).left)
    BY DEF PrintNamed, Is, Doing, Val, Return, Rest
  <1>2. Top.jo.member = <<>>
    <2>1. Leaf
      BY DEF Leaf
    <2> QED
      BY <2>1, EndsWhere
  <1>3. FrameOK(cmd, arg, Top) /\ Printing(cmd, arg)
    BY TopIs DEF Ready
  <1>4. /\ Top.v \in Values /\ a \in Texts
        /\ Pending(cmd, arg, Top) = a \o Contents(cmd, h, d, in)
    BY <1>1, <1>2, <1>3, ValueIs
  <1>5. Address = a
    BY <1>2, AddressIs
  <1>6. Contents(cmd, h, d, in) = h.head \o L
    BY <1>1 DEF Contents
  <1>7. h.head \in Texts /\ L \in Texts
    BY <1>4, HeapTyped
  <1>8. pre \in Texts /\ Pending(cmd, arg, Top) = pre \o L
    <2> DEFINE x == h.head
    <2>1. x \in Texts /\ Pending(cmd, arg, Top) = a \o (x \o L)
      BY <1>4, <1>6, <1>7
    <2> HIDE DEF x, L, a
    <2>2. a \o x \in Texts /\ (a \o x) \o L = a \o (x \o L)
      BY <1>4, <1>7, <2>1, TextsJoin
    <2> QED
      BY <2>1, <2>2 DEF x
  <1>9. buf' = Through(b, L, room) /\ b = Put(buf, pre)
    BY <1>1, <1>5
  <1>10. Heap[Top.v].kind \in {"string", "named"}
    BY <1>1
  <1>100. b \in Buffer
    BY <1>8, PutIs
  <1> HIDE DEF b, pre, L, h
  <1>11. room \in Nat /\ Len(L) \in Nat
    BY <1>7, <1>100 DEF Buffer, Texts
  <1> HIDE DEF room
  <1>12. ASSUME room > 0, room <= Len(L) PROVE Cuts(L, L, room)
    <2> DEFINE k == room - 1
    <2>1. k \in Nat /\ k <= Len(L)
      BY <1>11, <1>12
    <2> QED
      BY <2>1 DEF Cuts
  <1>13. room <= b.left /\ (b.left > 0 => room > 0) /\ room = b.left
    BY <1>11 DEF room
  <1> QED
    BY <1>1, <1>2, <1>7, <1>8, <1>9, <1>10, <1>11, <1>12, <1>13, CutPrints

-----------------------------------------------------------------------------
(* What is printed, from one step to the next.                             *)

\* a step that prints what comes next
LEMMA PrintsKept ==
    ASSUME Ready, Next1, Leads(cmd, arg), buf \in Buffer,
           buf.left = 0 \/ Exact(cmd, arg, buf, stack), \E x : Prints(x)
    PROVE  buf' \in Buffer /\ TextOK(cmd, arg, buf', stack')
  <1>1. PICK x : Prints(x)
    OBVIOUS
  <1>2. buf' \in Buffer /\ (buf'.left = 0 \/ Exact(cmd, arg, buf', stack'))
    BY <1>1, ExactKept
  <1> QED
    BY <1>2 DEF TextOK

LEMMA ExactFrames ==
    ASSUME Ready, Next1, Leads(cmd, arg), NoLoneElement, buf \in Buffer, Frames,
           buf.left = 0 \/ Exact(cmd, arg, buf, stack)
    PROVE  buf' \in Buffer /\ TextOK(cmd, arg, buf', stack')
  <1>1. CASE PrintPlain \/ PrintScalar \/ DepthLimit \/ LoseArray \/ EmptyArray
    <2>1. \E x : Prints(x)
      BY <1>1, LeafPrints
    <2> QED
      BY <2>1, PrintsKept
  <1>2. CASE PrintString
    BY <1>2, PrintStringKept
  <1>3. CASE PrintNamed
    BY <1>3, PrintNamedKept
  <1>4. CASE LoseElements \/ NoElement \/ IndexOnObject
    BY <1>4, NeverLost
  <1>5. CASE OpenObject \/ PrintName \/ EndProperty
    <2>1. \E x : Prints(x)
      BY <1>5, OpenObjectPrints, PrintNamePrints, EndPropertyPrints
    <2> QED
      BY <2>1, PrintsKept
  <1>6. CASE CloseObject \/ LeaveObject
    <2>1. \E x : Prints(x)
      BY <1>6, EndObjectPrints
    <2> QED
      BY <2>1, PrintsKept
  <1>7. CASE PathActions
    <2>1. Prints(<<>>)
      BY <1>7, PathActionsWay DEF OnTheWay
    <2> QED
      BY <2>1, PrintsKept
  <1>8. CASE OpenArray
    <2>1. \E x : Prints(x)
      BY <1>8, OpenArrayPrints
    <2> QED
      BY <2>1, PrintsKept
  <1>9. CASE NextPage \/ EndElements
    <2>1. Prints(<<>>)
      BY <1>9, NextPagePrints, EndElementsPrints
    <2> QED
      BY <2>1, PrintsKept
  <1>10. CASE StopElements
    <2>1. buf' = buf /\ (buf.left # 0 => Prints(<<>>))
      BY <1>10, StopElementsPrints
    <2>2. CASE buf.left = 0
      BY <2>1, <2>2 DEF TextOK
    <2>3. CASE buf.left # 0
      <3>1. Prints(<<>>)
        BY <2>1, <2>3
      <3> QED
        BY <3>1, PrintsKept
    <2> QED
      BY <2>2, <2>3
  <1>11. CASE PrintElement
    <2>1. Prints(<<>>)
      BY <1>11, PrintElementPrints
    <2> QED
      BY <2>1, PrintsKept
  <1>12. CASE EndElement
    <2>1. Prints(Comma(Top))
      BY <1>12, EndElementPrints
    <2> QED
      BY <2>1, PrintsKept
  <1>13. CASE CloseArray
    <2>1. Prints(<<"]">>)
      BY <1>13, CloseArrayPrints
    <2> QED
      BY <2>1, PrintsKept
  <1> QED
    BY <1>1, <1>2, <1>3, <1>4, <1>5, <1>6, <1>7, <1>8, <1>9, <1>10, <1>11, <1>12, <1>13
       DEF Frames, Leaf, Closes, PathActions

(* Every step keeps what the buffer holds in agreement with what is to be  *)
(* printed.                                                                *)
LEMMA TextKept ==
    ASSUME Ready, Leads(cmd, arg), NoLoneElement, buf \in Buffer, Frames,
           TextOK(cmd, arg, buf, stack)
    PROVE  buf' \in Buffer /\ TextOK(cmd, arg, buf', stack')
  <1>0. Next1
    BY FramesKept
  <1>1. CASE buf.left = 0 \/ Exact(cmd, arg, buf, stack)
    BY <1>0, <1>1, ExactFrames
  <1>2. CASE Tight(buf, stack)
    <2>1. buf' \in Buffer /\ (buf'.left = 0 \/ Tight(buf', stack'))
      BY <1>0, <1>2, TightKept
    <2> QED
      BY <2>1 DEF TextOK
  <1>3. CASE CutOff(cmd, arg, buf, stack)
    <2>1. buf' \in Buffer /\ CutOff(cmd, arg, buf', stack')
      BY <1>0, <1>3, CutOffKept
    <2> QED
      BY <2>1 DEF TextOK
  <1> QED
    BY <1>1, <1>2, <1>3 DEF TextOK

\* a step prints a text, or nothing at all
Writes == buf' = buf \/ \E x \in Texts : buf' = Put(buf, x)

LEMMA AddressTyped ==
    ASSUME Ready
    PROVE  Address \in Texts /\ \A t \in Texts : Address \o t \in Texts
  <1>1. Top.v \in Values /\ cmd \in Command
    BY TopIs DEF Ready, Printing
  <1>2. <<cmd.root>> \in Texts /\ <<Top.v>> \in Texts /\ <<>> \in Texts
    BY <1>1, CommandTyped, PiecesText, TextsJoin
  <1>3. Base \in Texts
    BY <1>2 DEF Base
  <1>4. Address \in Texts
    BY <1>2, <1>3, TextsJoin DEF Address
  <1> QED
    BY <1>4, TextsJoin

LEMMA FramesWrite ==
    ASSUME Ready, Frames, ~PrintString, ~PrintNamed
    PROVE  Writes
  <1>1. Address \in Texts /\ \A t \in Texts : Address \o t \in Texts
    BY AddressTyped
  <1>2. Top.v \in Values /\ Val.text \in Texts
    BY TopIs, HeapTyped DEF Val
  <1>3. /\ <<>> \in Texts /\ <<"[...]">> \in Texts /\ <<"failed">> \in Texts /\ <<"[">> \in Texts
        /\ <<"]">> \in Texts /\ <<",">> \in Texts /\ <<"{">> \in Texts /\ <<"}">> \in Texts
        /\ <<"[", "]">> \in Texts /\ <<"{", "}">> \in Texts
    BY MarksAre, PiecesText, TextsJoin
  <1>4. CASE PrintPlain \/ PrintScalar
    <2>1. buf' = Put(buf, Address \o Val.text)
      BY <1>4 DEF PrintPlain, PrintScalar
    <2> QED
      BY <1>1, <1>2, <2>1 DEF Writes
  <1>5. CASE DepthLimit
    <2>1. buf' = Put(buf, Address \o <<"[...]">>)
      BY <1>5 DEF DepthLimit
    <2> QED
      BY <1>1, <1>3, <2>1 DEF Writes
  <1>6. CASE LoseElements
    <2>1. buf' = Put(buf, <<"failed">>)
      BY <1>6 DEF LoseElements
    <2> QED
      BY <1>3, <2>1 DEF Writes
  <1>7. CASE LoseArray \/ OpenObject
    <2>1. buf' = Put(buf, Address)
      BY <1>7 DEF LoseArray, OpenObject
    <2> QED
      BY <1>1, <2>1 DEF Writes
  <1>8. CASE EmptyArray
    <2>1. buf' = Put(buf, Address \o <<"[", "]">>)
      BY <1>8 DEF EmptyArray
    <2> QED
      BY <1>1, <1>3, <2>1 DEF Writes
  <1>9. CASE OpenArray
    <2>1. buf' = Put(buf, Address \o <<"[">>)
      BY <1>9 DEF OpenArray
    <2> QED
      BY <1>1, <1>3, <2>1 DEF Writes
  <1>10. CASE CloseArray
    <2>1. buf' = Put(buf, <<"]">>)
      BY <1>10 DEF CloseArray
    <2> QED
      BY <1>3, <2>1 DEF Writes
  <1>11. CASE EndElement
    <2>1. buf' = buf \/ buf' = Put(buf, <<",">>)
      BY <1>11 DEF EndElement
    <2> QED
      BY <1>3, <2>1 DEF Writes
  <1>12. CASE EndProperty
    <2>1. buf' = Put(buf, <<",">>)
      BY <1>12 DEF EndProperty
    <2> QED
      BY <1>3, <2>1 DEF Writes
  <1>13. CASE CloseObject
    <2>1. buf' = Put(buf, <<"}">>) \/ buf' = Put(buf, <<"{", "}">>)
      BY <1>13 DEF CloseObject
    <2> QED
      BY <1>3, <2>1 DEF Writes
  <1>14. CASE PrintName
    <2> DEFINE p == Val.props
               o == IF Top.jo.nprops = 0 THEN <<"{">> ELSE <<>>
               x == <<p[Top.i].name>>
    <2>1. Top.op = "props" /\ Top.i <= Len(p) /\ buf' = Put(buf, o \o x)
      BY <1>14 DEF PrintName, Doing
    <2>2. Top.i \in Nat /\ Top.i \in 1..(Len(p) + 1) /\ Len(p) \in Nat
      BY <2>1, ObjectFrame DEF Val
    <2>3. p \in Seq(Prop)
      BY <1>2, HeapTyped DEF Val
    <2> HIDE DEF p, o
    <2>4. Top.i \in 1..Len(p)
      BY <2>1, <2>2
    <2>5. p[Top.i] \in Prop
      BY <2>3, <2>4, SeqItem
    <2>6. p[Top.i].name \in STRING
      BY <2>5 DEF Prop
    <2>7. x \in Texts
      BY <2>6, PiecesText
    <2>8. o \in Texts
      BY <1>3 DEF o
    <2> HIDE DEF x
    <2>9. o \o x \in Texts
      BY <2>7, <2>8, TextsJoin
    <2> QED
      BY <2>1, <2>9 DEF Writes
  <1>15. CASE \/ NoElement \/ LeaveObject \/ IndexOnObject
              \/ FindMember \/ OtherMember \/ EnterMember \/ LeaveMember \/ EndMembers
              \/ EnterElement \/ LeaveElement
              \/ NextPage \/ StopElements \/ PrintElement \/ EndElements
    <2>1. buf' = buf
      BY <1>15 DEF NoElement, LeaveObject, IndexOnObject, FindMember, OtherMember, EnterMember,
         LeaveMember, EndMembers, EnterElement, LeaveElement, NextPage, StopElements,
         PrintElement, EndElements
    <2> QED
      BY <2>1 DEF Writes
  <1> QED
    BY <1>4, <1>5, <1>6, <1>7, <1>8, <1>9, <1>10, <1>11, <1>12, <1>13, <1>14, <1>15
       DEF Frames, Leaf, Closes

LEMMA BufferKept ==
    ASSUME Ready, Frames, buf \in Buffer
    PROVE  buf' \in Buffer
  <1>1. CASE ~PrintString /\ ~PrintNamed
    <2>1. Writes
      BY <1>1, FramesWrite
    <2>2. CASE buf' = buf
      BY <2>2
    <2>3. CASE \E x \in Texts : buf' = Put(buf, x)
      <3>1. PICK x \in Texts : buf' = Put(buf, x)
        BY <2>3
      <3>2. Put(buf, x) \in Buffer
        BY PutIs
      <3> QED
        BY <3>1, <3>2
    <2> QED
      BY <2>1, <2>2, <2>3 DEF Writes
  <1>2. Address \in Texts /\ \A t \in Texts : Address \o t \in Texts
    BY AddressTyped
  <1>3. Top.v \in Values /\ Val.text \in Texts /\ Val.head \in Texts /\ cmd \in Command
    BY TopIs, HeapTyped DEF Val, Ready, Printing
  <1>4. CASE PrintString
    <2> DEFINE b == Put(buf, Address)
               t == Val.text
    <2>1. b \in Buffer
      BY <1>2, PutIs
    <2>2. buf' = Through(b, t, Room(b))
      BY <1>4 DEF PrintString
    <2>3. t \in Texts
      BY <1>3
    <2> HIDE DEF b, t
    <2>4. Room(b) \in Nat /\ Room(b) <= b.left /\ (b.left > 0 => Room(b) > 0)
      BY <1>3, <2>1, RoomIs
    <2>5. Through(b, t, Room(b)) \in Buffer
      BY <2>1, <2>3, <2>4, ThroughIs
    <2> QED
      BY <2>2, <2>5
  <1>5. CASE PrintNamed
    <2> DEFINE b == Put(buf, Address \o Val.head)
               t == Val.text
    <2>1. b \in Buffer
      <3>1. Address \o Val.head \in Texts
        BY <1>2, <1>3
      <3> QED
        BY <3>1, PutIs
    <2>2. buf' = Through(b, t, b.left)
      BY <1>5 DEF PrintNamed
    <2>3. t \in Texts
      BY <1>3
    <2> HIDE DEF b, t
    <2>4. b.left \in Nat /\ b.left <= b.left
      BY <2>1 DEF Buffer
    <2>5. Through(b, t, b.left) \in Buffer
      BY <2>1, <2>3, <2>4, ThroughIs
    <2> QED
      BY <2>2, <2>5
  <1> QED
    BY <1>1, <1>4, <1>5

-----------------------------------------------------------------------------
(* The dcmd.                                                               *)

\* what is shown for member m
Good(c, m, t) ==
    IF Leads(c, m) THEN t = Final(c, m) \/ Shortened(Goal(c, m), t, Final(c, m))
    ELSE t = (IF c.b /\ m = 1 THEN <<c.root>> ELSE <<>>) \o <<"undefined">>

DcmdTyped ==
    /\ cmd \in Command /\ arg \in Nat /\ arg > 0 /\ jsop \in Jsop /\ jsop.depth = cmd.depth
    /\ bufsz \in Nat /\ bufsz > 0 /\ buf \in Buffer /\ printed \in Seq(Texts)

(* The member printed, and what is on the stack for it: jsop_found is said *)
(* of no member before it, and something is left of the buffer.            *)
MemberOK ==
    /\ status \in {"next", "alloc", "print"} =>
          /\ cmd.args = <<>> => arg = 1
          /\ cmd.args # <<>> => arg <= Len(cmd.args)
          /\ Len(printed) = arg - 1
    /\ status = "next" => jsop.found = FALSE
    /\ status = "next" \/ status = "alloc" => buf.left > 0
    /\ status = "alloc" \/ status = "print" =>
          Printing(cmd, arg) /\ jsop.member = PathOf(cmd, arg)
    /\ status = "alloc" /\ jsop.found => Leads(cmd, arg)
    /\ status = "print" =>
          /\ Kept(cmd, arg, stack, ret.jo)
          /\ Leads(cmd, arg) => TextOK(cmd, arg, buf, stack)
    /\ status # "print" => stack = <<>>

ShownOK ==
    /\ status = "ok" => Len(printed) >= Len(cmd.args) /\ (cmd.args = <<>> => Len(printed) = 1)
    /\ \/ cmd.args = <<>> /\ status = "error"
       \/ \A k \in 1..Len(printed) : Good(cmd, k, printed[k])

Inv == DcmdTyped /\ MemberOK /\ ShownOK

LEMMA InitInv == ASSUME Init PROVE Inv
  <1>1. cmd \in Command /\ bufsz \in Nat /\ bufsz > 0
    BY PrintAssumption DEF Init
  <1>2. cmd.depth \in Nat /\ cmd.args \in Seq(Path)
    BY <1>1, CommandTyped
  <1>3. NoJsop \in Jsop
    BY DEF NoJsop, Jsop, Path
  <1>4. jsop \in Jsop /\ jsop.depth = cmd.depth /\ jsop.found = FALSE
    <2>1. jsop = [NoJsop EXCEPT !.depth = cmd.depth]
      BY DEF Init
    <2>2. NoJsop.found = FALSE
      BY DEF NoJsop
    <2> QED
      BY <1>2, <1>3, <2>1, <2>2 DEF Jsop
  <1>5. buf \in Buffer /\ buf.left > 0
    <2>1. buf = [out |-> <<>>, left |-> bufsz]
      BY DEF Init
    <2> QED
      BY <1>1, <2>1, TextsJoin DEF Buffer
  <1>6. arg = 1 /\ stack = <<>> /\ printed = <<>> /\ status = "next"
    BY DEF Init
  <1>7. printed \in Seq(Texts) /\ Len(printed) = 0
    BY <1>6
  <1>8. cmd.args # <<>> => 1 <= Len(cmd.args)
    <2> DEFINE s == cmd.args
    <2>1. s \in Seq(Path)
      BY <1>2
    <2> HIDE DEF s
    <2>2. s # <<>> => 1 <= Len(s)
      BY <2>1
    <2> QED
      BY <2>2 DEF s
  <1>9. DcmdTyped
    BY <1>1, <1>4, <1>5, <1>6, <1>7 DEF DcmdTyped
  <1>10. MemberOK
    BY <1>4, <1>5, <1>6, <1>7, <1>8 DEF MemberOK
  <1>11. ShownOK
    BY <1>6, <1>7 DEF ShownOK
  <1> QED
    BY <1>9, <1>10, <1>11 DEF Inv

\* the steps that print change nothing of the dcmd
LEMMA FramesSame ==
    ASSUME Frames
    PROVE  stack # <<>> /\ UNCHANGED dcmdvars
  <1>1. CASE Leaf \/ Closes \/ IndexOnObject \/ EndMembers \/ LeaveElement
    BY <1>1 DEF Leaf, Closes, PrintPlain, PrintScalar, PrintString, PrintNamed, DepthLimit,
       LoseElements, NoElement, LoseArray, EmptyArray, CloseObject, LeaveObject, CloseArray,
       IndexOnObject, EndMembers, LeaveElement, Return, Is, OnArray, AtIndex, Matching, Doing
  <1>2. CASE \/ OpenObject \/ EndProperty \/ FindMember \/ OtherMember \/ OpenArray
             \/ NextPage \/ StopElements \/ EndElement \/ EndElements
    BY <1>2 DEF OpenObject, EndProperty, FindMember, OtherMember, OpenArray, NextPage,
       StopElements, EndElement, EndElements, Becomes, Is, OnArray, InElements, Matching, Doing
  <1>3. CASE PrintName \/ EnterMember \/ PrintElement
    BY <1>3 DEF PrintName, EnterMember, PrintElement, Calls, InElements, Matching, Doing
  <1>4. CASE LeaveMember
    BY <1>4 DEF LeaveMember, Return, Becomes, Doing
  <1>5. CASE EnterElement
    BY <1>5 DEF EnterElement, AtIndex, Is, Doing
  <1> QED
    BY <1>1, <1>2, <1>3, <1>4, <1>5 DEF Frames

LEMMA FramesInv ==
    ASSUME NoLoneElement, Inv, Frames
    PROVE  Inv'
  <1>1. stack # <<>> /\ UNCHANGED <<cmd, arg, jsop, bufsz, printed, status>>
    BY FramesSame DEF dcmdvars
  <1>2. status = "print"
    BY <1>1 DEF Inv, MemberOK
  <1>3. Ready /\ buf \in Buffer /\ (Leads(cmd, arg) => TextOK(cmd, arg, buf, stack))
    BY <1>1, <1>2 DEF Inv, MemberOK, DcmdTyped, Ready
  <1>4. Kept(cmd, arg, stack', ret'.jo)
    BY <1>3, FramesKept DEF Next1
  <1>5. buf' \in Buffer
    BY <1>3, BufferKept
  <1>6. Leads(cmd, arg) => TextOK(cmd, arg, buf', stack')
    BY <1>3, TextKept
  <1>7. DcmdTyped'
    BY <1>1, <1>5 DEF Inv, DcmdTyped
  <1>8. MemberOK'
    <2>1. /\ Printing(cmd, arg) /\ jsop.member = PathOf(cmd, arg)
          /\ cmd.args = <<>> => arg = 1
          /\ cmd.args # <<>> => arg <= Len(cmd.args)
          /\ Len(printed) = arg - 1
      BY <1>2 DEF Inv, MemberOK
    <2>2. cmd' = cmd /\ arg' = arg /\ jsop' = jsop /\ printed' = printed /\ status' = "print"
      BY <1>1, <1>2
    <2>3. Kept(cmd', arg', stack', ret'.jo)
      BY <1>4, <2>2
    <2>4. Leads(cmd', arg') => TextOK(cmd', arg', buf', stack')
      BY <1>6, <2>2
    <2>5. Printing(cmd', arg') /\ jsop'.member = PathOf(cmd', arg')
      BY <2>1, <2>2
    <2> QED
      BY <2>1, <2>2, <2>3, <2>4, <2>5 DEF MemberOK
  <1>9. ShownOK'
    <2>1. \A k \in 1..Len(printed) : Good(cmd, k, printed[k])
      BY <1>2 DEF Inv, ShownOK
    <2>2. cmd' = cmd /\ printed' = printed /\ status' = "print"
      BY <1>1, <1>2
    <2>3. \A k \in 1..Len(printed') : Good(cmd', k, printed'[k])
      BY <2>1, <2>2
    <2> QED
      BY <2>2, <2>3 DEF ShownOK
  <1> QED
    BY <1>7, <1>8, <1>9 DEF Inv

LEMMA MemberPath ==
    ASSUME NEW c \in Command, NEW m \in Nat, m > 0, c.args # <<>> => m <= Len(c.args)
    PROVE  PathOf(c, m) \in Path
  <1>1. c.args \in Seq(Path)
    BY CommandTyped
  <1>2. CASE c.args = <<>>
    BY <1>2 DEF PathOf, Path
  <1>3. CASE c.args # <<>>
    <2> DEFINE s == c.args
    <2>1. s \in Seq(Path) /\ m <= Len(s)
      BY <1>1, <1>3
    <2> HIDE DEF s
    <2>2. m \in 1..Len(s)
      BY <2>1
    <2>3. s[m] \in Path
      BY <2>1, <2>2, SeqItem
    <2> QED
      BY <1>3, <2>3 DEF PathOf, s
  <1> QED
    BY <1>2, <1>3

LEMMA NextMemberInv ==
    ASSUME Inv, NextMember
    PROVE  Inv'
  <1>1. /\ status = "next" /\ cmd' = cmd /\ arg' = arg /\ bufsz' = bufsz /\ buf' = buf
        /\ stack' = stack /\ printed' = printed
    BY DEF NextMember
  <1>2. /\ cmd \in Command /\ arg \in Nat /\ arg > 0 /\ jsop \in Jsop /\ jsop.depth = cmd.depth
        /\ bufsz \in Nat /\ bufsz > 0 /\ buf \in Buffer /\ printed \in Seq(Texts)
    BY DEF Inv, DcmdTyped
  <1>3. /\ cmd.args = <<>> => arg = 1
        /\ cmd.args # <<>> => arg <= Len(cmd.args)
        /\ Len(printed) = arg - 1 /\ jsop.found = FALSE /\ buf.left > 0 /\ stack = <<>>
    BY <1>1 DEF Inv, MemberOK
  <1>4. \A k \in 1..Len(printed) : Good(cmd, k, printed[k])
    BY <1>1 DEF Inv, ShownOK
  <1>5. \A k \in 1..Len(printed') : Good(cmd', k, printed'[k])
    BY <1>1, <1>4
  <1>6. CASE cmd.args # <<>> /\ cmd.args[arg] = Immediate
    <2>1. status' = "usage" /\ jsop' = jsop
      BY <1>6 DEF NextMember
    <2>2. DcmdTyped'
      BY <1>1, <1>2, <2>1 DEF DcmdTyped
    <2>3. MemberOK'
      BY <1>1, <1>3, <2>1 DEF MemberOK
    <2>4. ShownOK'
      BY <1>5, <2>1 DEF ShownOK
    <2> QED
      BY <2>2, <2>3, <2>4 DEF Inv
  <1>7. CASE ~(cmd.args # <<>> /\ cmd.args[arg] = Immediate)
    <2> DEFINE p == PathOf(cmd, arg)
    <2>1. status' = "alloc" /\ jsop' = [jsop EXCEPT !.member = p]
      BY <1>7 DEF NextMember, PathOf
    <2>2. p \in Path
      BY <1>2, <1>3, MemberPath
    <2>3. cmd.args # <<>> => p # <<>>
      BY <1>7 DEF PathOf, Immediate
    <2> HIDE DEF p
    <2>4. /\ jsop' \in Jsop /\ jsop'.member = p /\ jsop'.depth = cmd.depth
          /\ jsop'.found = FALSE
      BY <1>2, <1>3, <2>1, <2>2 DEF Jsop
    <2>5. Printing(cmd', arg') /\ jsop'.member = PathOf(cmd', arg')
      <3>1. Printing(cmd, arg)
        BY <1>2, <2>2, <2>3 DEF Printing, p
      <3> QED
        BY <1>1, <2>4, <3>1 DEF p
    <2>6. DcmdTyped'
      BY <1>1, <1>2, <2>4 DEF DcmdTyped
    <2>7. MemberOK'
      BY <1>1, <1>3, <2>1, <2>4, <2>5 DEF MemberOK
    <2>8. ShownOK'
      BY <1>5, <2>1 DEF ShownOK
    <2> QED
      BY <2>6, <2>7, <2>8 DEF Inv
  <1> QED
    BY <1>6, <1>7

LEMMA NoMemoryInv ==
    ASSUME Inv, NoMemory
    PROVE  Inv'
  <1>1. /\ status = "alloc" /\ status' = "error" /\ cmd' = cmd /\ arg' = arg /\ bufsz' = bufsz
        /\ buf' = buf /\ stack' = stack /\ printed' = printed /\ jsop' = jsop
    BY DEF NoMemory
  <1>2. DcmdTyped'
    BY <1>1 DEF Inv, DcmdTyped
  <1>3. MemberOK'
    <2>1. stack = <<>>
      BY <1>1 DEF Inv, MemberOK
    <2> QED
      BY <1>1, <2>1 DEF MemberOK
  <1>4. ShownOK'
    <2>1. \A k \in 1..Len(printed) : Good(cmd, k, printed[k])
      BY <1>1 DEF Inv, ShownOK
    <2>2. \A k \in 1..Len(printed') : Good(cmd', k, printed'[k])
      BY <1>1, <2>1
    <2> QED
      BY <1>1, <2>2 DEF ShownOK
  <1> QED
    BY <1>2, <1>3, <1>4 DEF Inv

\* what a path begins at
LEMMA PathBegins ==
    ASSUME NEW c, NEW m, Printing(c, m)
    PROVE  /\ OnPath(c, m, c.root, PathOf(c, m))
           /\ PathOf(c, m) = <<>> => Leads(c, m)
  <1> DEFINE p == PathOf(c, m)
             t == Trail(c, p)
  <1>1. p \in Seq(PathStep) /\ p \in Path /\ c \in Command
    BY DEF Printing, Path
  <1>2. t[0] = c.root
    BY <1>1, TrailIs
  <1>3. c.root \in Values /\ c.root # Nowhere
    BY <1>1, CommandTyped, PrintAssumption
  <1>4. PathOf(c, m) = <<>> => Leads(c, m)
    BY <1>3, GoalOfNone DEF Leads
  <1> HIDE DEF p, t
  <1>5. 0 \in 0..Len(p) /\ p = SubSeq(p, 0 + 1, Len(p))
    <2>1. Len(p) \in Nat /\ SubSeq(p, 1, Len(p)) = p
      BY <1>1
    <2> QED
      BY <2>1
  <1>6. \E k \in 0..Len(p) : p = SubSeq(p, k + 1, Len(p)) /\ c.root = t[k]
    BY <1>2, <1>5
  <1> QED
    BY <1>4, <1>6 DEF OnPath, p, t

\* one value on the stack
LEMMA FirstValue ==
    ASSUME NEW c, NEW m, Printing(c, m), NEW jo \in Jsop, jo.member = PathOf(c, m),
           jo.depth = c.depth, jo.found => Leads(c, m), NEW r
    PROVE  /\ StackOK(c, m, <<Visit(c.root, jo)>>)
           /\ Kept(c, m, <<Visit(c.root, jo)>>, r)
           /\ Leads(c, m) => Text(c, m, <<Visit(c.root, jo)>>) = Final(c, m)
  <1> DEFINE f == Visit(c.root, jo)
  <1>1. f.op = "value" /\ f.v = c.root /\ f.jo = jo
    BY DEF Visit
  <1>2. c \in Command /\ c.root \in Values /\ c.depth \in Nat
    BY CommandTyped DEF Printing
  <1>3. f \in Frame
    BY <1>2 DEF Frame, Visit
  <1> HIDE DEF f
  <1>4. JsopOK(c, m, jo)
    <2>1. c.depth <= c.depth
      BY <1>2
    <2> QED
      BY <1>2, <2>1, PathBegins DEF JsopOK
  <1>5. FrameOK(c, m, f)
    BY <1>1, <1>3, <1>4, PathBegins DEF FrameOK
  <1>6. StackOK(c, m, <<>>)
    <2>1. <<>> \in Seq(Frame) /\ Len(<<>>) = 0
      OBVIOUS
    <2>2. 1..0 = {} /\ 1..(0 - 1) = {}
      OBVIOUS
    <2> QED
      BY <2>1, <2>2 DEF StackOK
  <1>7. <<f>> \o <<>> = <<f>>
    OBVIOUS
  <1>8. StackOK(c, m, <<f>> \o <<>>)
    <2>1. Outermost(c, m, f.jo)
      BY <1>1 DEF Outermost
    <2> QED
      BY <1>1, <1>5, <1>6, <2>1, StackGrows
  <1>9. StackOK(c, m, <<f>>)
    BY <1>7, <1>8
  <1>10. Kept(c, m, <<f>>, r)
    <2>1. <<f>> # <<>> /\ <<f>>[1] = f
      OBVIOUS
    <2>2. ~Waiting(f)
      BY <1>1 DEF Waiting
    <2> QED
      BY <1>9, <2>1, <2>2 DEF Kept
  <1>11. ASSUME Leads(c, m) PROVE Text(c, m, <<f>>) = Final(c, m)
    <2>1. /\ Text(c, m, <<f>> \o <<>>) = Pending(c, m, f) \o Text(c, m, <<>>)
          /\ Text(c, m, <<>>) \in Texts /\ Pending(c, m, f) \in Texts
      BY <1>5, <1>6, <1>11, TextIs
    <2>2. Pending(c, m, f) = Final(c, m)
      <3>1. CASE jo.member # <<>>
        BY <1>1, <3>1 DEF Pending, OfPath
      <3>2. CASE jo.member = <<>>
        <4>1. Goal(c, m) = c.root
          BY <3>2, GoalOfNone
        <4> QED
          BY <1>1, <3>2, <4>1 DEF Pending, Final
      <3> QED
        BY <3>1, <3>2
    <2>3. Text(c, m, <<>>) = <<>>
      BY TextNone
    <2> HIDE DEF f
    <2>4. Pending(c, m, f) \o <<>> = Pending(c, m, f)
      BY <2>1, TextsJoin
    <2> QED
      BY <1>7, <2>1, <2>2, <2>3, <2>4
  <1> QED
    BY <1>9, <1>10, <1>11 DEF f

LEMMA AllocateInv ==
    ASSUME Inv, Allocate
    PROVE  Inv'
  <1>1. /\ status = "alloc" /\ status' = "print" /\ cmd' = cmd /\ arg' = arg /\ bufsz' = bufsz
        /\ printed' = printed /\ jsop' = jsop /\ ret' = ret
        /\ buf' = [buf EXCEPT !.out = <<>>] /\ stack' = <<Visit(cmd.root, jsop)>>
    BY DEF Allocate
  <1>2. /\ Printing(cmd, arg) /\ jsop.member = PathOf(cmd, arg)
        /\ jsop.found => Leads(cmd, arg)
        /\ cmd.args = <<>> => arg = 1
        /\ cmd.args # <<>> => arg <= Len(cmd.args)
        /\ Len(printed) = arg - 1 /\ buf.left > 0
    BY <1>1 DEF Inv, MemberOK
  <1>3. jsop \in Jsop /\ jsop.depth = cmd.depth /\ buf \in Buffer
    BY DEF Inv, DcmdTyped
  <1>4. buf' \in Buffer /\ buf'.out = <<>> /\ buf'.left > 0
    BY <1>1, <1>2, <1>3, TextsJoin DEF Buffer
  <1>5. DcmdTyped'
    BY <1>1, <1>4 DEF Inv, DcmdTyped
  <1>6. Kept(cmd, arg, stack', ret'.jo)
    BY <1>1, <1>2, <1>3, FirstValue
  <1>7. Leads(cmd, arg) => TextOK(cmd, arg, buf', stack')
    <2> SUFFICES ASSUME Leads(cmd, arg) PROVE TextOK(cmd, arg, buf', stack')
      OBVIOUS
    <2>1. Text(cmd, arg, stack') = Final(cmd, arg)
      BY <1>1, <1>2, <1>3, FirstValue
    <2>2. Final(cmd, arg) \in Texts
      BY <1>2, FinalTyped
    <2>3. <<>> \o Final(cmd, arg) = Final(cmd, arg)
      BY <2>2, TextsJoin
    <2> QED
      BY <1>4, <2>1, <2>3 DEF TextOK, Exact
  <1>8. MemberOK'
    <2>1. Kept(cmd', arg', stack', ret'.jo) /\ (Leads(cmd', arg') => TextOK(cmd', arg', buf', stack'))
      BY <1>1, <1>6, <1>7
    <2>2. Printing(cmd', arg') /\ jsop'.member = PathOf(cmd', arg')
      BY <1>1, <1>2
    <2> QED
      BY <1>1, <1>2, <2>1, <2>2 DEF MemberOK
  <1>9. ShownOK'
    <2>1. \A k \in 1..Len(printed) : Good(cmd, k, printed[k])
      BY <1>1 DEF Inv, ShownOK
    <2>2. \A k \in 1..Len(printed') : Good(cmd', k, printed'[k])
      BY <1>1, <2>1
    <2> QED
      BY <1>1, <2>2 DEF ShownOK
  <1> QED
    BY <1>5, <1>8, <1>9 DEF Inv

\* what has come back when nothing is left to be done
LEMMA HasPrintedIs ==
    ASSUME Inv, HasPrinted
    PROVE  /\ Printing(cmd, arg) /\ ret.jo \in Jsop /\ ret.jo.depth = cmd.depth
           /\ ret.jo.member = PathOf(cmd, arg) /\ jsop.member = PathOf(cmd, arg)
           /\ ret.jo.found => Leads(cmd, arg)
           /\ PathOf(cmd, arg) # <<>> /\ Leads(cmd, arg) => ret.jo.found
           /\ cmd.args = <<>> => arg = 1
           /\ cmd.args # <<>> => arg <= Len(cmd.args)
           /\ Len(printed) = arg - 1
           /\ Leads(cmd, arg) /\ buf.left > 0 =>
                 buf.out = Final(cmd, arg)
                   \/ Shortened(Goal(cmd, arg), buf.out, Final(cmd, arg))
  <1>1. /\ Printing(cmd, arg) /\ jsop.member = PathOf(cmd, arg)
        /\ Kept(cmd, arg, stack, ret.jo)
        /\ Leads(cmd, arg) => TextOK(cmd, arg, buf, stack)
        /\ cmd.args = <<>> => arg = 1
        /\ cmd.args # <<>> => arg <= Len(cmd.args)
        /\ Len(printed) = arg - 1
    BY DEF Inv, MemberOK, HasPrinted
  <1>2. stack = <<>>
    BY DEF HasPrinted
  <1>3. RetOK(cmd, arg, ret.jo) /\ Outermost(cmd, arg, ret.jo)
    BY <1>1, <1>2 DEF Kept, Back
  <1>4. ASSUME Leads(cmd, arg), buf.left > 0
        PROVE  buf.out = Final(cmd, arg)
                 \/ Shortened(Goal(cmd, arg), buf.out, Final(cmd, arg))
    <2>1. buf.left # 0
      BY <1>4
    <2>2. ~Tight(buf, stack)
      BY <1>2 DEF Tight
    <2>3. Exact(cmd, arg, buf, stack) \/ CutOff(cmd, arg, buf, stack)
      BY <1>1, <1>4, <2>1, <2>2 DEF TextOK
    <2>4. CASE Exact(cmd, arg, buf, stack)
      <3>1. buf.out \o Text(cmd, arg, <<>>) = Final(cmd, arg)
        BY <1>2, <2>4 DEF Exact
      <3>2. Text(cmd, arg, <<>>) = <<>>
        BY TextNone
      <3>3. buf.out \in Texts
        BY DEF Inv, DcmdTyped, Buffer
      <3>4. buf.out \o <<>> = buf.out
        BY <3>3, TextsJoin
      <3> QED
        BY <3>1, <3>2, <3>4
    <2>5. CASE CutOff(cmd, arg, buf, stack)
      BY <2>5 DEF CutOff
    <2> QED
      BY <2>3, <2>4, <2>5
  <1> QED
    BY <1>1, <1>3, <1>4 DEF RetOK, Outermost

LEMMA RetryInv ==
    ASSUME Inv, Retry
    PROVE  Inv'
  <1>1. /\ HasPrinted /\ status = "print" /\ status' = "alloc" /\ cmd' = cmd /\ arg' = arg
        /\ printed' = printed /\ jsop' = ret.jo /\ stack' = stack /\ stack = <<>>
        /\ bufsz' = 2 * bufsz /\ buf' = [buf EXCEPT !.left = 2 * bufsz]
    BY DEF Retry, HasPrinted, Grown
  <1>2. /\ Printing(cmd, arg) /\ ret.jo \in Jsop /\ ret.jo.depth = cmd.depth
        /\ ret.jo.member = PathOf(cmd, arg)
        /\ ret.jo.found => Leads(cmd, arg)
        /\ cmd.args = <<>> => arg = 1
        /\ cmd.args # <<>> => arg <= Len(cmd.args)
        /\ Len(printed) = arg - 1
    BY <1>1, HasPrintedIs
  <1>3. bufsz \in Nat /\ bufsz > 0 /\ buf \in Buffer
    BY DEF Inv, DcmdTyped
  <1>4. 2 * bufsz \in Nat /\ 2 * bufsz > 0
    BY <1>3
  <1>5. buf' \in Buffer /\ buf'.left > 0
    BY <1>1, <1>3, <1>4 DEF Buffer
  <1>6. DcmdTyped'
    BY <1>1, <1>2, <1>4, <1>5 DEF Inv, DcmdTyped
  <1>7. Printing(cmd', arg') /\ jsop'.member = PathOf(cmd', arg')
        /\ (jsop'.found => Leads(cmd', arg'))
    BY <1>1, <1>2
  <1>8. MemberOK'
    BY <1>1, <1>2, <1>5, <1>7 DEF MemberOK
  <1>9. ShownOK'
    <2>1. \A k \in 1..Len(printed) : Good(cmd, k, printed[k])
      BY <1>1 DEF Inv, ShownOK
    <2>2. \A k \in 1..Len(printed') : Good(cmd', k, printed'[k])
      BY <1>1, <2>1
    <2> QED
      BY <1>1, <2>2 DEF ShownOK
  <1> QED
    BY <1>6, <1>8, <1>9 DEF Inv

LEMMA FailInv ==
    ASSUME Inv, Fail
    PROVE  Inv'
  <1>1. /\ HasPrinted /\ status = "print" /\ status' = "error" /\ cmd' = cmd /\ arg' = arg
        /\ jsop' = ret.jo /\ stack' = stack /\ stack = <<>> /\ bufsz' = bufsz /\ buf' = buf
        /\ printed' = printed \/ printed' = Append(printed, buf.out)
        /\ jsop.member = <<>>
    BY DEF Fail, HasPrinted, Whole
  <1>2. /\ Printing(cmd, arg) /\ ret.jo \in Jsop /\ ret.jo.depth = cmd.depth
        /\ jsop.member = PathOf(cmd, arg)
    BY <1>1, HasPrintedIs
  <1>3. cmd.args = <<>>
    BY <1>1, <1>2 DEF Printing
  <1>4. buf.out \in Texts /\ printed \in Seq(Texts)
    BY DEF Inv, DcmdTyped, Buffer
  <1>5. printed' \in Seq(Texts)
    BY <1>1, <1>4
  <1>6. DcmdTyped'
    BY <1>1, <1>2, <1>5 DEF Inv, DcmdTyped
  <1>7. MemberOK'
    BY <1>1 DEF MemberOK
  <1>8. ShownOK'
    BY <1>1, <1>3 DEF ShownOK
  <1> QED
    BY <1>6, <1>7, <1>8 DEF Inv

LEMMA ShowGood ==
    ASSUME Inv, Show
    PROVE  \E t \in Texts : printed' = Append(printed, t) /\ Good(cmd, arg, t)
  <1> DEFINE undef == Base \o <<"undefined">>
             t == IF ~Whole(jsop) /\ ~ret.jo.found THEN undef ELSE buf.out
  <1>1. HasPrinted /\ buf.left > 0 /\ printed' = Append(printed, t)
    BY DEF Show
  <1>2. /\ Printing(cmd, arg) /\ jsop.member = PathOf(cmd, arg)
        /\ ret.jo.found => Leads(cmd, arg)
        /\ PathOf(cmd, arg) # <<>> /\ Leads(cmd, arg) => ret.jo.found
        /\ Leads(cmd, arg) /\ buf.left > 0 =>
              buf.out = Final(cmd, arg)
                \/ Shortened(Goal(cmd, arg), buf.out, Final(cmd, arg))
    BY <1>1, HasPrintedIs
  <1>3. PathOf(cmd, arg) = <<>> => Leads(cmd, arg)
    BY <1>2, PathBegins
  <1>4. Whole(jsop) <=> PathOf(cmd, arg) = <<>>
    BY <1>2 DEF Whole
  <1>5. CASE Leads(cmd, arg)
    <2>1. t = buf.out
      BY <1>2, <1>4, <1>5
    <2>2. buf.out \in Texts
      BY DEF Inv, DcmdTyped, Buffer
    <2>3. Good(cmd, arg, buf.out)
      BY <1>1, <1>2, <1>5 DEF Good
    <2> HIDE DEF t
    <2> QED
      BY <1>1, <2>1, <2>2, <2>3
  <1>6. CASE ~Leads(cmd, arg)
    <2>1. t = undef
      BY <1>2, <1>3, <1>4, <1>6
    <2>2. undef \in Texts
      <3>1. cmd.root \in Values
        BY <1>2, CommandTyped DEF Printing
      <3>2. Base \in Texts /\ <<"undefined">> \in Texts
        BY <3>1, PiecesText, MarksAre, TextsJoin DEF Base
      <3> QED
        BY <3>2, TextsJoin
    <2>3. Good(cmd, arg, undef)
      BY <1>6 DEF Good, Base
    <2> HIDE DEF t, undef
    <2> QED
      BY <1>1, <2>1, <2>2, <2>3
  <1> QED
    BY <1>5, <1>6

LEMMA ShowInv ==
    ASSUME Inv, Show
    PROVE  Inv'
  <1>1. /\ HasPrinted /\ buf.left > 0 /\ cmd' = cmd /\ arg' = arg + 1
        /\ jsop' = [ret.jo EXCEPT !.found = FALSE] /\ stack' = stack /\ stack = <<>>
        /\ bufsz' = bufsz /\ buf' = buf /\ status = "print"
        /\ status' = IF arg < Len(cmd.args) THEN "next" ELSE "ok"
    BY DEF Show, HasPrinted, NextJsop
  <1>2. PICK t \in Texts : printed' = Append(printed, t) /\ Good(cmd, arg, t)
    BY ShowGood
  <1>3. /\ Printing(cmd, arg) /\ ret.jo \in Jsop /\ ret.jo.depth = cmd.depth
        /\ cmd.args = <<>> => arg = 1
        /\ cmd.args # <<>> => arg <= Len(cmd.args)
        /\ Len(printed) = arg - 1
    BY <1>1, HasPrintedIs
  <1>4. arg \in Nat /\ arg > 0 /\ printed \in Seq(Texts) /\ cmd \in Command
    BY DEF Inv, DcmdTyped
  <1>5. jsop' \in Jsop /\ jsop'.depth = cmd.depth /\ jsop'.found = FALSE
    BY <1>1, <1>3 DEF Jsop
  <1>6. /\ printed' \in Seq(Texts) /\ Len(printed') = Len(printed) + 1
        /\ \A k \in 1..Len(printed) : printed'[k] = printed[k]
        /\ printed'[Len(printed) + 1] = t
    BY <1>2, <1>4
  <1>7. Len(cmd.args) \in Nat /\ (cmd.args = <<>> => Len(cmd.args) = 0)
    <2>1. cmd.args \in Seq(Path)
      BY <1>4, CommandTyped
    <2> QED
      BY <2>1
  <1>8. arg + 1 \in Nat /\ arg + 1 > 0 /\ Len(printed') = arg
    BY <1>3, <1>4, <1>6
  <1>9. DcmdTyped'
    BY <1>1, <1>5, <1>6, <1>8 DEF Inv, DcmdTyped
  <1>10. MemberOK'
    <2>1. CASE arg < Len(cmd.args)
      <3>1. status' = "next" /\ cmd'.args # <<>> /\ arg' <= Len(cmd'.args) /\ Len(printed') = arg' - 1
        BY <1>1, <1>4, <1>7, <1>8, <2>1
      <3> QED
        BY <1>1, <1>5, <3>1 DEF MemberOK
    <2>2. CASE ~(arg < Len(cmd.args))
      <3>1. status' = "ok"
        BY <1>1, <2>2
      <3> QED
        BY <1>1, <3>1 DEF MemberOK
    <2> QED
      BY <2>1, <2>2
  <1>11. ShownOK'
    <2>1. ASSUME NEW k \in 1..Len(printed') PROVE Good(cmd', k, printed'[k])
      <3>1. CASE k = arg
        <4>1. printed'[k] = t
          BY <1>3, <1>4, <1>6, <3>1
        <4> QED
          BY <1>1, <1>2, <3>1, <4>1
      <3>2. CASE k # arg
        <4>1. k \in 1..Len(printed)
          BY <1>3, <1>4, <1>8, <3>2
        <4>2. Good(cmd, k, printed[k])
          BY <1>1, <4>1 DEF Inv, ShownOK
        <4> QED
          BY <1>1, <1>6, <4>1, <4>2
      <3> QED
        BY <3>1, <3>2
    <2>2. ASSUME status' = "ok"
          PROVE  Len(printed') >= Len(cmd'.args) /\ (cmd'.args = <<>> => Len(printed') = 1)
      <3>1. ~(arg < Len(cmd.args))
        BY <1>1, <2>2
      <3> QED
        BY <1>1, <1>3, <1>4, <1>7, <1>8, <3>1
    <2> QED
      BY <2>1, <2>2 DEF ShownOK
  <1> QED
    BY <1>9, <1>10, <1>11 DEF Inv

LEMMA NextInv ==
    ASSUME NoLoneElement, Inv, [Next]_vars
    PROVE  Inv'
  <1>1. CASE Next
    <2>1. NextMember \/ Allocate \/ NoMemory \/ Retry \/ Fail \/ Show \/ Frames
      BY <1>1 DEF Next, Frames, Leaf, Closes
    <2> QED
      BY <2>1, NextMemberInv, AllocateInv, NoMemoryInv, RetryInv, FailInv, ShowInv, FramesInv
  <1>2. CASE UNCHANGED vars
    <2>1. /\ cmd' = cmd /\ arg' = arg /\ jsop' = jsop /\ bufsz' = bufsz /\ buf' = buf
          /\ stack' = stack /\ ret' = ret /\ printed' = printed /\ status' = status
      BY <1>2 DEF vars
    <2>2. DcmdTyped'
      BY <2>1 DEF Inv, DcmdTyped
    <2>3. MemberOK'
      BY <2>1 DEF Inv, MemberOK
    <2>4. ShownOK'
      BY <2>1 DEF Inv, ShownOK
    <2> QED
      BY <2>2, <2>3, <2>4 DEF Inv
  <1> QED
    BY <1>1, <1>2

(* The dcmd's own state and the stack it works on agree with the member    *)
(* that is printed, and the buffer with what is still to be printed.       *)
LEMMA Invariant ==
    ASSUME NoLoneElement
    PROVE  Spec => []Inv
  <1>1. Init => Inv
    BY InitInv
  <1>2. Inv /\ [Next]_vars => Inv'
    BY NextInv
  <1> QED
    BY <1>1, <1>2, PTL DEF Spec

LEMMA InvPrints ==
    ASSUME Inv
    PROVE  PrintsWhole
  <1> SUFFICES ASSUME status = "ok", cmd.args = <<>>
               PROVE  LET s == Rendered(cmd, 0)[cmd.depth][cmd.root]
                      IN  Len(printed) = 1 /\ (printed[1] = s \/ Shortened(cmd.root, printed[1], s))
    BY DEF PrintsWhole
  <1>1. Len(printed) = 1 /\ \A k \in 1..Len(printed) : Good(cmd, k, printed[k])
    BY DEF Inv, ShownOK
  <1>2. Good(cmd, 1, printed[1])
    BY <1>1
  <1>3. Printing(cmd, 1) /\ PathOf(cmd, 1) = <<>>
    BY DEF Inv, DcmdTyped, Printing, PathOf, Path
  <1>4. Leads(cmd, 1) /\ Goal(cmd, 1) = cmd.root
    BY <1>3, PathBegins, GoalOfNone
  <1>5. Final(cmd, 1) = Rendered(cmd, 0)[cmd.depth][cmd.root]
    <2>1. 1 - 1 = 0
      OBVIOUS
    <2> QED
      BY <1>4, <2>1 DEF Final, All
  <1> QED
    BY <1>1, <1>2, <1>4, <1>5 DEF Good

LEMMA InvMembers ==
    ASSUME Inv
    PROVE  MembersExact
  <1>1. status = "ok" => Len(printed) >= Len(cmd.args)
    BY DEF Inv, ShownOK
  <1>2. ASSUME cmd.args # <<>>, NEW k \in DOMAIN printed
        PROVE  LET v == Destination(cmd, cmd.args[k]) IN
               IF v = Nowhere
               THEN printed[k] = (IF cmd.b /\ k = 1 THEN <<cmd.root>> ELSE <<>>) \o <<"undefined">>
               ELSE LET s == Rendered(cmd, k - 1)[cmd.depth][v]
                    IN  printed[k] = s \/ Shortened(v, printed[k], s)
    <2>1. k \in 1..Len(printed)
      BY DEF Inv, DcmdTyped
    <2>2. Good(cmd, k, printed[k])
      BY <1>2, <2>1 DEF Inv, ShownOK
    <2>3. Goal(cmd, k) = Destination(cmd, cmd.args[k])
      BY <1>2 DEF Goal, PathOf
    <2>4. Final(cmd, k) = Rendered(cmd, k - 1)[cmd.depth][Destination(cmd, cmd.args[k])]
      BY <2>3 DEF Final, All
    <2> QED
      BY <2>2, <2>3, <2>4 DEF Good, Leads
  <1> QED
    BY <1>1, <1>2 DEF MembersExact

(* ::jsprint without members prints all that the depth allows of any value *)
(* of any target, of whatever size and shape and whatever in it can't be   *)
(* read, however small the buffer it begins with and however often it has  *)
(* to begin again.  The last element of an array can be missing when it is *)
(* alone on its page, which jsobj_print_jsarray's iteration does not read: *)
(* the theorem is about targets without such arrays.                       *)
THEOREM WholePrinted ==
    ASSUME NoLoneElement
    PROVE  Spec => []PrintsWhole
  <1>1. Spec => []Inv
    BY Invariant
  <1>2. Inv => PrintsWhole
    BY InvPrints
  <1> QED
    BY <1>1, <1>2, PTL

(* ::jsprint with members prints for each of any number of paths the value *)
(* it leads to as it is printed alone, and "undefined" exactly where it    *)
(* leads nowhere: what jsop_found, jsop_member, jsop_depth and jsop_lenp   *)
(* still have of the members before and of the buffers that were too small *)
(* does not show.                                                          *)
THEOREM MembersPrinted ==
    ASSUME NoLoneElement
    PROVE  Spec => []MembersExact
  <1>1. Spec => []Inv
    BY Invariant
  <1>2. Inv => MembersExact
    BY InvMembers
  <1> QED
    BY <1>1, <1>2, PTL
=============================================================================
