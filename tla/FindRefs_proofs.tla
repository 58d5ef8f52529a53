--------------------------- MODULE FindRefs_proofs ---------------------------
(***************************************************************************)
(* Proofs that ::jsfindrefs reports what refers to a value, all of it and  *)
(* nothing else, for every target's memory and every depth limit.  The     *)
(* searches in progress are counted from the outermost here: search 1      *)
(* looks for the target, and each of the others for the FixedArray that    *)
(* the one before it is at.                                                *)
(***************************************************************************)
EXTENDS FindRefs, SequenceTheorems, WellFoundedInduction, TLAPS

Level(i) == stack[Len(stack) - i + 1]
At(i) == Level(i).pos - 1

\* a chain of references to the target, as Chains builds them
IsChain(c) ==
    /\ c \in Seq(Present)
    /\ c # <<>>
    /\ Value[c[1]] = query.target
    /\ \A i \in 1..(Len(c) - 1) :
          Held(c[i]) /\ Intermediate(Base(c[i])) /\ Value[c[i + 1]] = Base(c[i])

Chain(c) == IsChain(c) /\ Len(c) <= MaxDepth

\* the last word of a chain is in an object to report, or in one to follow
Good(c) == Held(c[Len(c)]) /\ Wanted(Base(c[Len(c)]), Len(c) - 1)
Follows(c) == Held(c[Len(c)]) /\ Intermediate(Base(c[Len(c)]))

Result(c) == [obj |-> Base(c[Len(c)]), path |-> c]

(* The searches have passed a chain if one of them is past its word in the *)
(* chain, while those outside of it are at theirs.  A search that is not   *)
(* the innermost is not past the word that it is at.                       *)
PastAt(c, k) == c[k] < IF k = Len(stack) THEN Level(k).pos ELSE At(k)

Along(c, k) == k <= Len(c) /\ \A j \in 1..(k - 1) : c[j] = At(j)

Passed(c) == stack = <<>> \/ \E k \in 1..Len(stack) : Along(c, k) /\ PastAt(c, k)

Searches == [addr : Objs, depth : Nat, pos : 1..(Words + 1)]

LevelsOK ==
    /\ stack \in Seq(Searches)
    /\ stack = <<>> <=> status = "done"
    /\ Len(stack) <= MaxDepth
    /\ \A i \in 1..Len(stack) : Level(i).depth = i - 1
    /\ stack # <<>> => Level(1).addr = query.target
    /\ \A i \in 1..(Len(stack) - 1) :
          /\ At(i) \in Present
          /\ Value[At(i)] = Level(i).addr
          /\ Held(At(i)) /\ Intermediate(Base(At(i)))
          /\ Level(i + 1).addr = Base(At(i))

QueryOK ==
    /\ query \in [target : Targets, limit : Limits]
    /\ status \in {"searching", "done", "failed"}
    /\ gaveUp \in BOOLEAN
    /\ found \in Seq([obj : Objs, path : Seq(1..Words)])

FoundOK ==
    /\ \A i \in DOMAIN found : \A c : c = found[i].path =>
          found[i] = Result(c) /\ Chain(c) /\ Good(c) /\ Passed(c)
    /\ \A c : Chain(c) /\ Good(c) /\ Passed(c) => \E i \in DOMAIN found : found[i].path = c
    /\ \A i, j \in DOMAIN found : found[i] = found[j] => i = j

CutOK == gaveUp <=> \E c : Chain(c) /\ Len(c) = MaxDepth /\ Follows(c) /\ Passed(c)

IInv == QueryOK /\ LevelsOK /\ FoundOK /\ CutOK
-----------------------------------------------------------------------------
(* Lemmas about numbers and about memory                                   *)

\* a set of natural numbers that is not empty has a least element
LEMMA Least ==
    ASSUME NEW T, T \subseteq Nat, T # {}
    PROVE  \E x \in T : \A y \in T : x <= y
<1> DEFINE R == OpToRel(<, Nat)
<1>1. IsWellFoundedOn(R, Nat)
  BY NatLessThanWellFounded
<1>2. \A x, y \in Nat : y < x => <<y, x>> \in R
  BY DEF OpToRel
<1> HIDE DEF R
<1>3. PICK x \in T : \A y \in T : ~ (<<y, x>> \in R)
  BY <1>1, WFMin
<1>4. \A y \in T : ~ (y < x)
  BY <1>2, <1>3, Zenon
<1> QED BY <1>4

\* v8whatis finds an object: the last whose map is at the word or before it
LEMMA BaseIsHead ==
    ASSUME NEW w \in 1..Words, Held(w)
    PROVE  /\ Base(w) \in Objs
           /\ Obj[Base(w)].at <= w
<1> DEFINE T == {w - Obj[o].at : o \in Heads(w)}
<1>1. \A o \in Heads(w) : o \in Objs /\ Obj[o].at \in Nat /\ Obj[o].at <= w
  BY MemoryAssumption DEF Heads, Object
<1>2. w \in Nat
  BY MemoryAssumption
<1>3. T \subseteq Nat /\ T # {}
  BY <1>1, <1>2 DEF Held, NotFound
<1>4. PICK x \in T : \A y \in T : x <= y
  BY <1>3, Least
<1>5. PICK o \in Heads(w) : x = w - Obj[o].at
  BY <1>4
<1>6. ASSUME NEW p \in Heads(w)
      PROVE  Obj[p].at <= Obj[o].at
  <2>1. w - Obj[o].at <= w - Obj[p].at
    BY <1>4, <1>5
  <2>2. Obj[p].at \in Nat /\ Obj[o].at \in Nat
    BY <1>1
  <2> QED
    BY <1>2, <2>1, <2>2
<1>7. Base(w) \in Heads(w)
  BY <1>6 DEF Base
<1> QED BY <1>1, <1>7

\* what a word refers to is an object or NULL, and words are numbers
LEMMA MemoryType ==
    /\ Words \in Nat
    /\ Present \subseteq 1..Words
    /\ \A w \in Present : w \in Nat /\ Value[w] \in Objs \cup {NULL}
    /\ NULL \notin Objs
    /\ Targets \subseteq Objs
  BY MemoryAssumption

LEMMA DepthType ==
    ASSUME QueryOK
    PROVE  MaxDepth \in Nat \ {0} /\ MaxDepth < Shorts /\ Shorts \in Nat
<1>1. query.limit \in Limits
  BY DEF QueryOK
<1>2. query.limit \in Nat /\ query.limit % Shorts # 0 /\ Shorts \in Nat \ {0}
  BY <1>1, LimitAssumption
<1> QED BY <1>2 DEF MaxDepth

\* an object to report is not one to follow
LEMMA WantedNotFollowed ==
    ASSUME NEW p, NEW d, Wanted(p, d)
    PROVE  ~Intermediate(p)
  BY DEF Wanted, Intermediate
-----------------------------------------------------------------------------
(* Lemmas about the stack, counted from the outermost search               *)

LEMMA LevelType ==
    ASSUME LevelsOK
    PROVE  /\ Len(stack) \in Nat
           /\ \A i \in 1..Len(stack) : Level(i) \in Searches
           /\ stack # <<>> => Len(stack) >= 1 /\ Level(Len(stack)) = Top
<1>1. stack \in Seq(Searches)
  BY DEF LevelsOK
<1>2. Len(stack) \in Nat /\ \A i \in 1..Len(stack) : stack[i] \in Searches
  BY <1>1
<1>3. \A i \in 1..Len(stack) : Len(stack) - i + 1 \in 1..Len(stack)
  BY <1>2
<1>4. stack # <<>> => Len(stack) >= 1 /\ Top = stack[1] /\ Len(stack) - Len(stack) + 1 = 1
  BY <1>1, <1>2 DEF Top
<1> QED BY <1>2, <1>3, <1>4 DEF Level

LEMMA LevelFields ==
    ASSUME LevelsOK, NEW i \in 1..Len(stack)
    PROVE  /\ Level(i).addr \in Objs
           /\ Level(i).pos \in 1..(Words + 1)
           /\ Level(i).pos \in Nat /\ At(i) \in Nat
<1>1. Level(i) \in Searches
  BY LevelType
<1>2. Level(i).addr \in Objs /\ Level(i).pos \in 1..(Words + 1)
  BY <1>1 DEF Searches
<1> QED BY <1>2, MemoryType DEF At

\* the innermost search goes on after a word
LEMMA ResumedLevels ==
    ASSUME LevelsOK, stack # <<>>, NEW w \in 1..Words
    PROVE  /\ Resumed(w) \in Seq(Searches)
           /\ Len(Resumed(w)) = Len(stack)
           /\ Resumed(w)[1] = [Top EXCEPT !.pos = w + 1]
           /\ \A i \in 2..Len(stack) : Resumed(w)[i] = stack[i]
<1>1. stack \in Seq(Searches) /\ Len(stack) \in Nat /\ Len(stack) >= 1
  BY LevelType DEF LevelsOK
<1>2. Top \in Searches
  BY <1>1, LevelType
<1> DEFINE t == [Top EXCEPT !.pos = w + 1]
<1>3. t \in Searches
  BY <1>2, MemoryType DEF Searches
<1>4. Resumed(w) = <<t>> \o Tail(stack)
  BY DEF Resumed, Resume
<1> HIDE DEF t
<1>5. /\ Tail(stack) \in Seq(Searches)
      /\ Len(Tail(stack)) = Len(stack) - 1
      /\ \A i \in 1..(Len(stack) - 1) : Tail(stack)[i] = stack[i + 1]
  BY <1>1
<1>6. <<t>> \in Seq(Searches) /\ Len(<<t>>) = 1 /\ <<t>>[1] = t
  BY <1>3
<1>7. /\ Resumed(w) \in Seq(Searches)
      /\ Len(Resumed(w)) = Len(stack)
      /\ Resumed(w)[1] = t
      /\ \A i \in 2..Len(stack) : Resumed(w)[i] = Tail(stack)[i - 1]
  BY <1>1, <1>4, <1>5, <1>6
<1>8. \A i \in 2..Len(stack) : Tail(stack)[i - 1] = stack[i]
  BY <1>1, <1>5
<1> QED BY <1>7, <1>8 DEF t

LEMMA ResumeLevels ==
    ASSUME LevelsOK, stack # <<>>, NEW w \in 1..Words, stack' = Resumed(w)
    PROVE  /\ stack' \in Seq(Searches) /\ stack' # <<>>
           /\ Len(stack') = Len(stack)
           /\ \A i \in 1..(Len(stack) - 1) : Level(i)' = Level(i) /\ At(i)' = At(i)
           /\ Level(Len(stack))' = [Top EXCEPT !.pos = w + 1]
<1>1. Len(stack) \in Nat /\ Len(stack) >= 1
  BY LevelType
<1>2. /\ stack' \in Seq(Searches)
      /\ Len(stack') = Len(stack)
      /\ stack'[1] = [Top EXCEPT !.pos = w + 1]
      /\ \A i \in 2..Len(stack) : stack'[i] = stack[i]
  BY ResumedLevels
<1>3. \A i \in 1..(Len(stack) - 1) :
         /\ Len(stack) - i + 1 \in 2..Len(stack)
         /\ stack'[Len(stack) - i + 1] = stack[Len(stack) - i + 1]
  BY <1>1, <1>2
<1>4. \A i \in 1..(Len(stack) - 1) : Level(i)' = Level(i)
  BY <1>2, <1>3 DEF Level
<1>5. Len(stack) - Len(stack) + 1 = 1
  BY <1>1
<1> QED BY <1>1, <1>2, <1>4, <1>5 DEF Level, At

\* ... is over
LEMMA PopLevels ==
    ASSUME LevelsOK, stack # <<>>, stack' = Pop
    PROVE  /\ stack' \in Seq(Searches)
           /\ Len(stack') = Len(stack) - 1
           /\ stack' = <<>> <=> Len(stack) = 1
           /\ \A i \in 1..(Len(stack) - 1) : Level(i)' = Level(i) /\ At(i)' = At(i)
<1>1. stack \in Seq(Searches) /\ Len(stack) \in Nat /\ Len(stack) >= 1
  BY LevelType DEF LevelsOK
<1>2. /\ stack' \in Seq(Searches)
      /\ Len(stack') = Len(stack) - 1
      /\ \A i \in 1..(Len(stack) - 1) : stack'[i] = stack[i + 1]
  BY <1>1 DEF Pop
<1>3. \A i \in 1..(Len(stack) - 1) :
         /\ Len(stack') - i + 1 \in 1..(Len(stack) - 1)
         /\ Len(stack') - i + 1 + 1 = Len(stack) - i + 1
  BY <1>1, <1>2
<1>4. \A i \in 1..(Len(stack) - 1) : Level(i)' = Level(i)
  BY <1>2, <1>3 DEF Level
<1>5. stack' = <<>> <=> Len(stack) = 1
  BY <1>1, <1>2
<1> QED BY <1>2, <1>4, <1>5 DEF At

\* ... calls another
Pushed(t, w) == <<t>> \o Resumed(w)

LEMMA PushLevels ==
    ASSUME LevelsOK, stack # <<>>, NEW w \in 1..Words, NEW t \in Searches,
           stack' = Pushed(t, w)
    PROVE  /\ stack' \in Seq(Searches) /\ stack' # <<>>
           /\ Len(stack') = Len(stack) + 1
           /\ \A i \in 1..(Len(stack) - 1) : Level(i)' = Level(i) /\ At(i)' = At(i)
           /\ \A n \in Nat : n = Len(stack) => /\ Level(n)' = [Top EXCEPT !.pos = w + 1]
                                               /\ Level(n + 1)' = t
<1>1. Len(stack) \in Nat /\ Len(stack) >= 1
  BY LevelType
<1>2. /\ Resumed(w) \in Seq(Searches)
      /\ Len(Resumed(w)) = Len(stack)
      /\ Resumed(w)[1] = [Top EXCEPT !.pos = w + 1]
      /\ \A i \in 2..Len(stack) : Resumed(w)[i] = stack[i]
  BY ResumedLevels
<1>3. <<t>> \in Seq(Searches) /\ Len(<<t>>) = 1 /\ <<t>>[1] = t
  OBVIOUS
<1>4. /\ stack' \in Seq(Searches)
      /\ Len(stack') = Len(stack) + 1
      /\ stack'[1] = t
      /\ \A i \in 2..(Len(stack) + 1) : stack'[i] = Resumed(w)[i - 1]
  BY <1>1, <1>2, <1>3 DEF Pushed
<1>5. stack'[2] = Resumed(w)[1]
  <2>1. 2 \in 2..(Len(stack) + 1) /\ 2 - 1 = 1
    BY <1>1
  <2> QED BY <1>4, <2>1
<1>6. \A j \in 2..Len(stack) : stack'[j + 1] = stack[j]
  <2> SUFFICES ASSUME NEW j \in 2..Len(stack) PROVE stack'[j + 1] = stack[j]
    OBVIOUS
  <2>1. j + 1 \in 2..(Len(stack) + 1) /\ (j + 1) - 1 = j
    BY <1>1
  <2> QED BY <1>2, <1>4, <2>1
<1>7. \A i \in 1..(Len(stack) - 1) : Level(i)' = Level(i)
  <2> SUFFICES ASSUME NEW i \in 1..(Len(stack) - 1) PROVE Level(i)' = Level(i)
    OBVIOUS
  <2>1. Len(stack) - i + 1 \in 2..Len(stack)
    BY <1>1
  <2>2. Len(stack') = Len(stack) + 1
    BY <1>4
  <2>3. Len(stack') - i + 1 = (Len(stack) - i + 1) + 1
    BY <1>1, <2>2
  <2> QED BY <1>6, <2>1, <2>3 DEF Level
<1>8. stack' # <<>>
  <2>1. Len(stack') = Len(stack) + 1
    BY <1>4
  <2>2. Len(<<>>) = 0
    OBVIOUS
  <2> QED BY <1>1, <2>1, <2>2
<1>9. ASSUME NEW n \in Nat, n = Len(stack)
      PROVE  Level(n)' = [Top EXCEPT !.pos = w + 1] /\ Level(n + 1)' = t
  <2>1. Len(stack') - n + 1 = 2 /\ Len(stack') - (n + 1) + 1 = 1
    BY <1>1, <1>4, <1>9
  <2> QED BY <1>2, <1>4, <1>5, <2>1 DEF Level
<1> QED BY <1>4, <1>7, <1>8, <1>9 DEF At
-----------------------------------------------------------------------------
(* Lemmas about chains                                                     *)

LEMMA ChainType ==
    ASSUME NEW c, Chain(c)
    PROVE  /\ Len(c) \in Nat \ {0}
           /\ DOMAIN c = 1..Len(c)
           /\ \A i \in 1..Len(c) : c[i] \in Present /\ c[i] \in Nat
           /\ c \in Seq(1..Words)
<1>1. c \in Seq(Present) /\ c # <<>>
  BY DEF Chain, IsChain
<1>2. /\ Len(c) \in Nat /\ Len(c) # 0
      /\ DOMAIN c = 1..Len(c)
      /\ \A i \in 1..Len(c) : c[i] \in Present
  BY <1>1
<1>3. \A w \in Present : w \in Nat /\ w \in 1..Words
  BY MemoryType
<1>4. c \in [1..Len(c) -> 1..Words]
  BY <1>1, <1>2, <1>3
<1>5. c \in Seq(1..Words)
  BY <1>2, <1>4, SeqDef
<1> QED BY <1>2, <1>3, <1>5

\* each word of a chain refers to what the search at that level looks for
LEMMA ChainValue ==
    ASSUME LevelsOK, stack # <<>>, NEW c, Chain(c), NEW k \in 1..Len(stack), Along(c, k)
    PROVE  /\ k \in 1..Len(c)
           /\ c[k] \in Present
           /\ Value[c[k]] = Level(k).addr
<1>1. Len(stack) \in Nat
  BY LevelType
<1>2. k \in 1..Len(c) /\ c[k] \in Present
  BY <1>1, ChainType DEF Along
<1>3. CASE k = 1
  BY <1>2, <1>3 DEF Chain, IsChain, LevelsOK
<1>4. CASE k # 1
  <2>1. k - 1 \in 1..(Len(c) - 1) /\ k - 1 \in 1..(Len(stack) - 1) /\ (k - 1) + 1 = k
    BY <1>1, <1>2, <1>4, ChainType
  <2>2. c[k - 1] = At(k - 1)
    BY <2>1 DEF Along
  <2>3. Value[c[k]] = Base(c[k - 1])
    BY <2>1 DEF Chain, IsChain
  <2>4. Level(k).addr = Base(At(k - 1))
    BY <2>1 DEF LevelsOK
  <2> QED BY <1>2, <2>2, <2>3, <2>4
<1> QED BY <1>3, <1>4

\* so the next match is the next word of a chain that leads on from here
LEMMA MatchIsNext ==
    ASSUME LevelsOK, stack # <<>>, NEW c, Chain(c), Along(c, Len(stack))
    PROVE  /\ Matches = {} => c[Len(stack)] < Top.pos
           /\ \A w : NextMatch(w) => c[Len(stack)] < Top.pos \/ w <= c[Len(stack)]
<1>1. Len(stack) \in 1..Len(stack) /\ Top = Level(Len(stack))
  BY LevelType
<1>2. c[Len(stack)] \in Present /\ Value[c[Len(stack)]] = Top.addr
  BY <1>1, ChainValue
<1>3. c[Len(stack)] \in Nat /\ Top.pos \in Nat
  BY <1>1, <1>2, MemoryType, LevelFields
<1>4. c[Len(stack)] >= Top.pos => c[Len(stack)] \in Matches
  BY <1>2 DEF Matches
<1> QED BY <1>3, <1>4 DEF NextMatch

LEMMA MatchType ==
    ASSUME LevelsOK, NEW w, NextMatch(w)
    PROVE  /\ stack # <<>>
           /\ w \in Present /\ w \in 1..Words /\ w \in Nat
           /\ Value[w] = Top.addr /\ w >= Top.pos
           /\ Len(stack) \in Nat \ {0} /\ Len(stack) \in 1..Len(stack)
           /\ Top = Level(Len(stack)) /\ Top.depth = Len(stack) - 1
           /\ Top.pos \in Nat
<1>1. status = "searching" /\ w \in Matches
  BY DEF NextMatch
<1>2. stack # <<>>
  BY <1>1 DEF LevelsOK
<1>3. w \in Present /\ Value[w] = Top.addr /\ w >= Top.pos
  BY <1>1 DEF Matches
<1>4. /\ Len(stack) \in Nat \ {0} /\ Len(stack) \in 1..Len(stack)
      /\ Top = Level(Len(stack))
  BY <1>2, LevelType
<1>5. Top.depth = Len(stack) - 1
  BY <1>4 DEF LevelsOK
<1> QED BY <1>2, <1>3, <1>4, <1>5, MemoryType, LevelFields

\* the words at which the searches are form a chain, and a new one
LEMMA PathIsChain ==
    ASSUME QueryOK, LevelsOK, NEW w, NextMatch(w)
    PROVE  /\ Len(Path(w)) = Len(stack)
           /\ Path(w)[Len(stack)] = w
           /\ Along(Path(w), Len(stack))
           /\ Chain(Path(w))
           /\ ~Passed(Path(w))
<1> DEFINE c == Path(w)
<1>1. /\ stack # <<>> /\ w \in Present /\ w >= Top.pos /\ w \in Nat /\ Top.pos \in Nat
      /\ Value[w] = Top.addr
      /\ Len(stack) \in Nat \ {0} /\ Len(stack) \in 1..Len(stack)
      /\ Top = Level(Len(stack))
  BY MatchType
<1>2. DOMAIN stack = 1..Len(stack)
  BY DEF LevelsOK
<1>3. c = [i \in 1..Len(stack) |-> IF i = Len(stack) THEN w ELSE At(i)]
  BY <1>2 DEF Path, At, Level
<1>4. /\ c[Len(stack)] = w
      /\ \A i \in 1..(Len(stack) - 1) : c[i] = At(i)
  BY <1>1, <1>3
<1>5. \A i \in 1..(Len(stack) - 1) : At(i) \in Present
  BY DEF LevelsOK
<1>6. \A i \in 1..Len(stack) : i # Len(stack) => i \in 1..(Len(stack) - 1)
  BY <1>1
<1>7. c \in [1..Len(stack) -> Present]
  BY <1>1, <1>3, <1>5, <1>6
<1> HIDE DEF c
<1>8. c \in Seq(Present) /\ Len(c) = Len(stack) /\ c # <<>>
  BY <1>1, <1>7
<1>9. Along(c, Len(stack))
  BY <1>1, <1>4, <1>8 DEF Along
<1>10. Value[c[1]] = query.target
  <2>1. CASE Len(stack) = 1
    BY <1>1, <1>4, <2>1 DEF LevelsOK
  <2>2. CASE Len(stack) # 1
    <3>1. \A n \in Nat \ {0} : n # 1 => 1 \in 1..(n - 1)
      OBVIOUS
    <3>2. 1 \in 1..(Len(stack) - 1)
      BY <1>1, <2>2, <3>1
    <3> QED BY <1>1, <1>4, <3>2 DEF LevelsOK
  <2> QED BY <2>1, <2>2
<1>11. ASSUME NEW i \in 1..(Len(c) - 1)
       PROVE  Held(c[i]) /\ Intermediate(Base(c[i])) /\ Value[c[i + 1]] = Base(c[i])
  <2>1. i \in 1..(Len(stack) - 1)
    BY <1>8
  <2>2. /\ c[i] = At(i) /\ Held(At(i)) /\ Intermediate(Base(At(i)))
        /\ Level(i + 1).addr = Base(At(i))
    BY <1>4, <2>1 DEF LevelsOK
  <2>3. Value[c[i + 1]] = Level(i + 1).addr
    <3>1. CASE i + 1 = Len(stack)
      BY <1>1, <1>4, <3>1
    <3>2. CASE i + 1 # Len(stack)
      <4>1. i + 1 \in 1..(Len(stack) - 1)
        BY <1>1, <2>1, <3>2
      <4> QED BY <1>4, <4>1 DEF LevelsOK
    <3> QED BY <3>1, <3>2
  <2> QED BY <2>2, <2>3
<1>12. Chain(c)
  BY <1>8, <1>10, <1>11 DEF Chain, IsChain, LevelsOK
<1>13. ~Passed(c)
  <2> SUFFICES ASSUME NEW k \in 1..Len(stack), PastAt(c, k) PROVE FALSE
    BY <1>1 DEF Passed
  <2>1. CASE k = Len(stack)
    BY <1>1, <1>4, <2>1 DEF PastAt
  <2>2. CASE k # Len(stack)
    <3>1. k \in 1..(Len(stack) - 1) /\ At(k) \in Nat
      BY <1>1, <2>2, LevelFields
    <3> QED BY <1>4, <2>2, <3>1 DEF PastAt
  <2> QED BY <2>1, <2>2
<1> QED BY <1>4, <1>8, <1>9, <1>12, <1>13 DEF c
-----------------------------------------------------------------------------
(* What a step makes of the searches, and which chains they have passed    *)

LEMMA ResumeLevelsOK ==
    ASSUME LevelsOK, NEW w, NextMatch(w), stack' = Resumed(w), UNCHANGED <<query, status>>
    PROVE  LevelsOK'
<1>1. /\ stack # <<>> /\ w \in 1..Words /\ status = "searching"
      /\ Len(stack) \in Nat \ {0}
      /\ Top = Level(Len(stack))
  BY MatchType DEF NextMatch
<1>2. /\ stack' \in Seq(Searches) /\ stack' # <<>>
      /\ Len(stack') = Len(stack)
      /\ \A i \in 1..(Len(stack) - 1) : Level(i)' = Level(i) /\ At(i)' = At(i)
      /\ Level(Len(stack))' = [Top EXCEPT !.pos = w + 1]
  BY <1>1, ResumeLevels
<1>3. Top \in Searches
  BY <1>1, LevelType
<1>4. \A i \in 1..Len(stack) : Level(i)'.addr = Level(i).addr /\ Level(i)'.depth = Level(i).depth
  <2>1. \A i \in 1..Len(stack) : i = Len(stack) \/ i \in 1..(Len(stack) - 1)
    BY <1>1
  <2>2. ASSUME NEW i \in 1..Len(stack), i = Len(stack)
        PROVE  Level(i)'.addr = Level(i).addr /\ Level(i)'.depth = Level(i).depth
    <3>1. Level(i)' = [Top EXCEPT !.pos = w + 1]
      BY <1>2, <2>2
    <3> QED BY <1>1, <1>3, <2>2, <3>1 DEF Searches
  <2> QED BY <1>2, <2>1, <2>2
<1>5. \A i \in 1..Len(stack') : Level(i)'.depth = i - 1
  BY <1>2, <1>4 DEF LevelsOK
<1>6. Level(1)'.addr = query'.target
  <2>1. 1 \in 1..Len(stack)
    BY <1>1
  <2> QED BY <1>1, <1>4, <2>1 DEF LevelsOK
<1>7. ASSUME NEW i \in 1..(Len(stack') - 1)
      PROVE  /\ At(i)' \in Present
             /\ Value[At(i)'] = Level(i)'.addr
             /\ Held(At(i)') /\ Intermediate(Base(At(i)'))
             /\ Level(i + 1)'.addr = Base(At(i)')
  <2>1. i \in 1..(Len(stack) - 1) /\ i + 1 \in 1..Len(stack) /\ i \in 1..Len(stack)
    BY <1>1, <1>2
  <2> QED BY <1>2, <1>4, <2>1 DEF LevelsOK
<1>8. stack' = <<>> <=> status' = "done"
  BY <1>1, <1>2
<1>9. Len(stack') <= MaxDepth'
  BY <1>2 DEF LevelsOK, MaxDepth
<1> QED BY <1>2, <1>5, <1>6, <1>7, <1>8, <1>9 DEF LevelsOK

LEMMA FollowLevelsOK ==
    ASSUME QueryOK, LevelsOK, NEW w, FollowReference(w)
    PROVE  /\ LevelsOK'
           /\ \E t \in Searches : stack' = Pushed(t, w) /\ t.pos = 1
<1> DEFINE n == Len(stack)
           t == Search(Base(w), (Top.depth + 1) % Shorts)
<1>1. /\ NextMatch(w) /\ Held(w) /\ Intermediate(Base(w)) /\ ~LastLevel(Top.depth)
      /\ stack' = Pushed(t, w)
      /\ UNCHANGED <<query, found, gaveUp, status>>
  BY DEF FollowReference, Pushed
<1>2. /\ stack # <<>> /\ w \in 1..Words /\ w \in Present /\ Value[w] = Top.addr
      /\ w \in Nat /\ status = "searching"
      /\ n \in Nat \ {0} /\ n \in 1..n
      /\ Top = Level(n) /\ Top.depth = n - 1
  BY <1>1, MatchType DEF NextMatch
<1>3. n < MaxDepth /\ n % Shorts = n
  <2>1. n - 1 # MaxDepth - 1 /\ n <= MaxDepth
    BY <1>1, <1>2 DEF LastLevel, LevelsOK
  <2>2. MaxDepth \in Nat /\ MaxDepth < Shorts /\ Shorts \in Nat
    BY DepthType
  <2> QED BY <1>2, <2>1, <2>2
<1>4. t = [addr |-> Base(w), depth |-> n, pos |-> 1]
  <2>1. (n - 1) + 1 = n
    BY <1>2
  <2> QED BY <1>2, <1>3, <2>1 DEF Search
<1>5. Base(w) \in Objs
  BY <1>1, <1>2, BaseIsHead
<1>6. t \in Searches /\ t.pos = 1 /\ t.depth = n /\ t.addr = Base(w)
  <2>1. 1 \in 1..(Words + 1)
    BY MemoryType
  <2> QED BY <1>2, <1>4, <1>5, <2>1 DEF Searches
<1> HIDE DEF t
<1>7. /\ stack' \in Seq(Searches) /\ stack' # <<>>
      /\ Len(stack') = n + 1
      /\ \A i \in 1..(n - 1) : Level(i)' = Level(i) /\ At(i)' = At(i)
      /\ \A m \in Nat : m = n => /\ Level(m)' = [Top EXCEPT !.pos = w + 1]
                                 /\ Level(m + 1)' = t
  BY <1>1, <1>2, <1>6, PushLevels
<1>8. Top \in Searches
  BY <1>2, LevelType
<1>9. PICK m \in Nat : m = n
  BY <1>2
<1>10. /\ Level(m)'.addr = Level(m).addr /\ Level(m)'.depth = Level(m).depth
       /\ Level(m)'.pos = w + 1 /\ At(m)' = w
  <2>1. Level(m)' = [Top EXCEPT !.pos = w + 1]
    BY <1>7, <1>9
  <2>2. Level(m)'.pos = w + 1
    BY <1>8, <2>1 DEF Searches
  <2>3. At(m)' = w
    BY <1>2, <2>2 DEF At
  <2> QED BY <1>2, <1>8, <1>9, <2>1, <2>2, <2>3 DEF Searches
<1>11. Level(m + 1)' = t
  BY <1>7, <1>9
<1>12. \A i \in 1..m : Level(i)'.addr = Level(i).addr /\ Level(i)'.depth = Level(i).depth
  <2>1. \A i \in 1..m : i = m \/ i \in 1..(n - 1)
    BY <1>9
  <2> QED BY <1>7, <1>10, <2>1
<1>13. \A i \in 1..Len(stack') : Level(i)'.depth = i - 1
  <2>1. \A i \in 1..Len(stack') : i = m + 1 \/ i \in 1..m
    BY <1>7, <1>9
  <2>2. \A i \in 1..m : Level(i).depth = i - 1
    BY <1>9 DEF LevelsOK
  <2>3. Level(m + 1)'.depth = (m + 1) - 1
    BY <1>6, <1>9, <1>11
  <2> QED BY <1>12, <2>1, <2>2, <2>3
<1>14. Level(1)'.addr = query'.target
  <2>1. 1 \in 1..m
    BY <1>2, <1>9
  <2> QED BY <1>1, <1>2, <1>12, <2>1 DEF LevelsOK
<1>15. ASSUME NEW i \in 1..(Len(stack') - 1)
       PROVE  /\ At(i)' \in Present
              /\ Value[At(i)'] = Level(i)'.addr
              /\ Held(At(i)') /\ Intermediate(Base(At(i)'))
              /\ Level(i + 1)'.addr = Base(At(i)')
  <2>1. i \in 1..m
    BY <1>7, <1>9
  <2>2. CASE i = m
    BY <1>1, <1>2, <1>6, <1>9, <1>10, <1>11, <2>2
  <2>3. CASE i # m
    <3>1. i \in 1..(n - 1) /\ i + 1 \in 1..m
      BY <1>9, <2>1, <2>3
    <3> QED BY <1>7, <1>12, <2>1, <3>1 DEF LevelsOK
  <2> QED BY <2>2, <2>3
<1>16. stack' = <<>> <=> status' = "done"
  BY <1>1, <1>2, <1>7
<1>17. Len(stack') <= MaxDepth'
  <2>1. MaxDepth' = MaxDepth
    BY <1>1 DEF MaxDepth
  <2> QED BY <1>2, <1>3, <1>7, <2>1, DepthType
<1> QED BY <1>1, <1>6, <1>7, <1>13, <1>14, <1>15, <1>16, <1>17 DEF LevelsOK

LEMMA PopLevelsOK ==
    ASSUME QueryOK, LevelsOK, EndSearch
    PROVE  LevelsOK'
<1>1. /\ stack # <<>> /\ stack' = Pop
      /\ query' = query
      /\ status' = IF stack' = <<>> THEN "done" ELSE "searching"
  BY DEF EndSearch, LevelsOK
<1>2. /\ stack' \in Seq(Searches)
      /\ Len(stack') = Len(stack) - 1
      /\ stack' = <<>> <=> Len(stack) = 1
      /\ \A i \in 1..(Len(stack) - 1) : Level(i)' = Level(i) /\ At(i)' = At(i)
  BY <1>1, PopLevels
<1>3. Len(stack) \in Nat \ {0} /\ MaxDepth' = MaxDepth
  BY <1>1, LevelType DEF MaxDepth
<1>4. Len(stack') <= MaxDepth'
  <2>1. Len(stack) <= MaxDepth
    BY DEF LevelsOK
  <2>2. MaxDepth \in Nat
    BY DepthType
  <2> QED BY <1>2, <1>3, <2>1, <2>2
<1>5. \A i \in 1..Len(stack') : Level(i)'.depth = i - 1
  BY <1>2, <1>3 DEF LevelsOK
<1>6. stack' # <<>> => Level(1)'.addr = query'.target
  <2>1. stack' # <<>> => 1 \in 1..(Len(stack) - 1)
    BY <1>2, <1>3
  <2> QED BY <1>1, <1>2, <2>1 DEF LevelsOK
<1>7. ASSUME NEW i \in 1..(Len(stack') - 1)
      PROVE  /\ At(i)' \in Present
             /\ Value[At(i)'] = Level(i)'.addr
             /\ Held(At(i)') /\ Intermediate(Base(At(i)'))
             /\ Level(i + 1)'.addr = Base(At(i)')
  <2>1. i \in 1..(Len(stack) - 1) /\ i + 1 \in 1..(Len(stack) - 1)
    BY <1>2, <1>3
  <2> QED BY <1>2, <2>1 DEF LevelsOK
<1> QED BY <1>1, <1>2, <1>4, <1>5, <1>6, <1>7 DEF LevelsOK

LEMMA ResumePasses ==
    ASSUME LevelsOK, NEW w, NextMatch(w), stack' = Resumed(w), NEW c, Chain(c)
    PROVE  Passed(c)' <=> Passed(c) \/ (Along(c, Len(stack)) /\ c[Len(stack)] = w)
<1>1. /\ stack # <<>> /\ w \in 1..Words /\ w \in Nat /\ Top.pos \in Nat /\ w >= Top.pos
      /\ Len(stack) \in Nat \ {0} /\ Len(stack) \in 1..Len(stack)
      /\ Top = Level(Len(stack))
  BY MatchType
<1>2. PICK n \in Nat \ {0} : n = Len(stack)
  BY <1>1
<1>3. /\ stack' # <<>> /\ Len(stack') = n
      /\ \A i \in 1..(n - 1) : Level(i)' = Level(i) /\ At(i)' = At(i)
      /\ Level(n)' = [Top EXCEPT !.pos = w + 1]
  <2>1. /\ stack' # <<>> /\ Len(stack') = n
        /\ \A i \in 1..(n - 1) : Level(i)' = Level(i) /\ At(i)' = At(i)
        /\ Level(Len(stack))' = [Top EXCEPT !.pos = w + 1]
    BY <1>1, <1>2, ResumeLevels
  <2>2. Level(n)' = Level(Len(stack))'
    BY <2>1 DEF Level
  <2> QED BY <2>1, <2>2
<1>4. Level(n)'.pos = w + 1
  <2>1. Top \in Searches
    BY <1>1, LevelType
  <2> QED BY <1>3, <2>1 DEF Searches
<1>5. \A i \in 1..n : i = n \/ i \in 1..(n - 1)
  OBVIOUS
<1>6. \A k \in 1..n : Along(c, k)' <=> Along(c, k)
  <2>1. \A i \in 1..n : \A j \in 1..(i - 1) : j \in 1..(n - 1)
    OBVIOUS
  <2> QED BY <1>3, <2>1 DEF Along
<1>7. \A k \in 1..(n - 1) : PastAt(c, k)' <=> PastAt(c, k)
  BY <1>2, <1>3 DEF PastAt
<1>8. Along(c, n) => (PastAt(c, n)' <=> PastAt(c, n) \/ c[n] = w)
  <2> SUFFICES ASSUME Along(c, n) PROVE PastAt(c, n)' <=> PastAt(c, n) \/ c[n] = w
    OBVIOUS
  <2>1. c[n] \in Nat /\ (c[n] < Top.pos \/ w <= c[n])
    BY <1>1, <1>2, ChainValue, MemoryType, MatchIsNext
  <2>2. PastAt(c, n)' <=> c[n] < w + 1
    BY <1>3, <1>4 DEF PastAt
  <2>3. PastAt(c, n) <=> c[n] < Top.pos
    BY <1>1, <1>2 DEF PastAt
  <2> QED BY <1>1, <2>1, <2>2, <2>3
<1>9. Passed(c)' <=> \E k \in 1..n : Along(c, k)' /\ PastAt(c, k)'
  BY <1>3 DEF Passed
<1>10. Passed(c) <=> \E k \in 1..n : Along(c, k) /\ PastAt(c, k)
  BY <1>1, <1>2 DEF Passed
<1>11. n \in 1..n
  OBVIOUS
<1>12. ASSUME NEW k \in 1..n
       PROVE  Along(c, k)' /\ PastAt(c, k)' <=>
                 Along(c, k) /\ (PastAt(c, k) \/ (k = n /\ c[n] = w))
  BY <1>5, <1>6, <1>7, <1>8, <1>12
<1> QED BY <1>2, <1>9, <1>10, <1>11, <1>12

LEMMA FollowPasses ==
    ASSUME QueryOK, LevelsOK, NEW w, FollowReference(w), NEW c, Chain(c)
    PROVE  Passed(c)' <=> Passed(c)
<1> DEFINE n == Len(stack)
<1>1. NextMatch(w)
  BY DEF FollowReference
<1>2. /\ stack # <<>> /\ w \in 1..Words /\ w \in Nat /\ Top.pos \in Nat /\ w >= Top.pos
      /\ n \in Nat \ {0} /\ n \in 1..n
      /\ Top = Level(n)
  BY <1>1, MatchType
<1>3. PICK t \in Searches : stack' = Pushed(t, w) /\ t.pos = 1
  BY FollowLevelsOK
<1>4. PICK m \in Nat : m = n
  BY <1>2
<1>5. /\ stack' # <<>> /\ Len(stack') = m + 1
      /\ \A i \in 1..(m - 1) : At(i)' = At(i)
      /\ Level(m)' = [Top EXCEPT !.pos = w + 1]
      /\ Level(m + 1)' = t
  BY <1>2, <1>3, <1>4, PushLevels
<1>6. At(m)' = w /\ Level(m + 1)'.pos = 1
  <2>1. Top \in Searches
    BY <1>2, LevelType
  <2>2. Level(m)'.pos = w + 1
    BY <1>5, <2>1 DEF Searches
  <2> QED BY <1>2, <1>3, <1>5, <2>2 DEF At
<1>7. m \in Nat \ {0} /\ m \in 1..m
  BY <1>2, <1>4
<1>8. \A k \in 1..m : Along(c, k)' <=> Along(c, k)
  <2>1. \A k \in 1..m : \A j \in 1..(k - 1) : j \in 1..(m - 1)
    BY <1>7
  <2> QED BY <1>5, <2>1 DEF Along
<1>9. \A k \in 1..(m - 1) : PastAt(c, k)' <=> PastAt(c, k)
  <2>1. \A k \in 1..(m - 1) : k # m /\ k # m + 1
    BY <1>7
  <2> QED BY <1>4, <1>5, <2>1 DEF PastAt
<1>10. Along(c, m) => (PastAt(c, m)' <=> PastAt(c, m))
  <2> SUFFICES ASSUME Along(c, m) PROVE PastAt(c, m)' <=> PastAt(c, m)
    OBVIOUS
  <2>1. c[m] \in Nat /\ (c[m] < Top.pos \/ w <= c[m])
    BY <1>1, <1>2, <1>4, ChainValue, MemoryType, MatchIsNext
  <2>2. PastAt(c, m)' <=> c[m] < w
    <3>1. m # m + 1
      BY <1>7
    <3> QED BY <1>5, <1>6, <3>1 DEF PastAt
  <2>3. PastAt(c, m) <=> c[m] < Top.pos
    BY <1>2, <1>4 DEF PastAt
  <2> QED BY <1>2, <2>1, <2>2, <2>3
<1>11. ~(Along(c, m + 1)' /\ PastAt(c, m + 1)')
  <2> SUFFICES ASSUME Along(c, m + 1)', PastAt(c, m + 1)' PROVE FALSE
    OBVIOUS
  <2>1. m + 1 \in 1..Len(c)
    BY <1>7, ChainType DEF Along
  <2>2. c[m + 1] \in 1..Words
    BY <2>1, ChainType, MemoryType
  <2>3. c[m + 1] < 1
    BY <1>5, <1>6 DEF PastAt
  <2> QED BY <2>2, <2>3, MemoryType
<1>12. \A k \in 1..(m + 1) : k = m + 1 \/ k \in 1..m
  BY <1>7
<1>13. \A k \in 1..m : (k = m \/ k \in 1..(m - 1)) /\ k \in 1..(m + 1)
  BY <1>7
<1>14. Passed(c)' <=> \E k \in 1..(m + 1) : Along(c, k)' /\ PastAt(c, k)'
  BY <1>5 DEF Passed
<1>15. Passed(c) <=> \E k \in 1..m : Along(c, k) /\ PastAt(c, k)
  BY <1>2, <1>4 DEF Passed
<1> QED BY <1>8, <1>9, <1>10, <1>11, <1>12, <1>13, <1>14, <1>15

\* the chain to which a search belongs that ends is one to follow, and shorter
LEMMA PopPasses ==
    ASSUME QueryOK, LevelsOK, EndSearch, NEW c, Chain(c)
    PROVE  /\ Passed(c) => Passed(c)'
           /\ Passed(c)' => Passed(c) \/ (Follows(c) /\ Len(c) < MaxDepth)
<1>1. Matches = {} /\ stack' = Pop /\ stack # <<>>
  BY DEF EndSearch, LevelsOK
<1>2. PICK n \in Nat \ {0} : n = Len(stack)
  BY <1>1, LevelType
<1>3. n \in 1..n /\ Top = Level(n) /\ Top.pos \in Nat
  <2>1. n \in 1..n
    OBVIOUS
  <2> QED BY <1>1, <1>2, <2>1, LevelType, LevelFields
<1>4. /\ Len(stack') = n - 1
      /\ stack' = <<>> <=> n = 1
      /\ \A i \in 1..(n - 1) : Level(i)' = Level(i) /\ At(i)' = At(i)
  BY <1>1, <1>2, PopLevels
<1>5. Along(c, n) => PastAt(c, n)
  BY <1>1, <1>2, <1>3, MatchIsNext DEF PastAt
<1>6. Passed(c) <=> \E k \in 1..n : Along(c, k) /\ PastAt(c, k)
  BY <1>1, <1>2 DEF Passed
<1>7. CASE n = 1
  <2>1. Along(c, n)
    BY <1>7, ChainType DEF Along
  <2> QED BY <1>3, <1>4, <1>5, <1>6, <1>7, <2>1 DEF Passed
<1>8. CASE n # 1
  <2> DEFINE m == n - 1
  <2>1. m \in Nat \ {0} /\ m \in 1..m /\ m \in 1..n /\ m # n
    BY <1>8
  <2>2. Passed(c)' <=> \E k \in 1..m : Along(c, k)' /\ PastAt(c, k)'
    BY <1>4, <1>8 DEF Passed
  <2>3. \A k \in 1..m : Along(c, k)' <=> Along(c, k)
    <3>1. \A k \in 1..m : \A j \in 1..(k - 1) : j \in 1..(n - 1)
      OBVIOUS
    <3> QED BY <1>4, <3>1 DEF Along
  <2>4. \A k \in 1..m : k # m => (PastAt(c, k)' <=> PastAt(c, k))
    <3>1. \A k \in 1..m : k # n
      OBVIOUS
    <3> QED BY <1>2, <1>4, <3>1 DEF PastAt
  <2>5. /\ PastAt(c, m) <=> c[m] < At(m)
        /\ PastAt(c, m)' <=> c[m] < Level(m).pos
        /\ Level(m).pos \in Nat /\ At(m) = Level(m).pos - 1
    <3>1. Level(m).pos \in Nat
      BY <1>2, <2>1, LevelFields
    <3>2. Level(m)' = Level(m) /\ Len(stack') = m
      BY <1>4, <2>1
    <3>3. PastAt(c, m)' <=> c[m] < Level(m).pos
      BY <3>2 DEF PastAt
    <3> QED BY <1>2, <2>1, <3>1, <3>3 DEF PastAt, At
  <2>6. Along(c, m) => c[m] \in Nat
    BY <1>1, <1>2, <2>1, ChainValue, MemoryType
  <2>7. Passed(c) => Passed(c)'
    <3> SUFFICES ASSUME NEW k \in 1..n, Along(c, k), PastAt(c, k) PROVE Passed(c)'
      BY <1>6
    <3>1. CASE k = n
      <4>1. Along(c, m) /\ c[m] = At(m)
        BY <2>1, <3>1 DEF Along
      <4>2. Along(c, m)' /\ PastAt(c, m)'
        BY <2>1, <2>3, <2>5, <2>6, <4>1
      <4> HIDE DEF m
      <4> QED BY <2>1, <2>2, <4>2
    <3>2. CASE k = m
      <4>1. Along(c, m)' /\ PastAt(c, m)'
        BY <2>1, <2>3, <2>5, <2>6, <3>2
      <4> HIDE DEF m
      <4> QED BY <2>1, <2>2, <4>1
    <3>3. CASE k # n /\ k # m
      <4>1. k \in 1..m
        BY <3>3
      <4> HIDE DEF m
      <4> QED BY <2>2, <2>3, <2>4, <3>3, <4>1
    <3> QED BY <3>1, <3>2, <3>3
  <2>8. Passed(c)' => Passed(c) \/ (Follows(c) /\ Len(c) < MaxDepth)
    <3> SUFFICES ASSUME NEW k \in 1..m, Along(c, k)', PastAt(c, k)', ~Passed(c)
                 PROVE  Follows(c) /\ Len(c) < MaxDepth
      BY <2>2
    <3>1. Along(c, k) /\ ~PastAt(c, k)
      <4>1. k \in 1..n
        OBVIOUS
      <4> QED BY <1>6, <2>3, <4>1
    <3>2. k = m
      BY <2>4, <3>1
    <3>3. c[m] = At(m)
      <4>1. PastAt(c, m)' /\ ~PastAt(c, m) /\ c[m] \in Nat
        BY <2>6, <3>1, <3>2
      <4> HIDE DEF m
      <4> QED BY <2>5, <4>1
    <3>4. ~Along(c, n)
      BY <1>3, <1>5, <1>6
    <3>5. Len(c) = m
      <4>1. Len(c) \in Nat /\ m <= Len(c)
        BY <3>1, <3>2, ChainType DEF Along
      <4>2. n <= Len(c) => Along(c, n)
        <5>1. \A j \in 1..(n - 1) : j = m \/ j \in 1..(m - 1)
          OBVIOUS
        <5> QED BY <3>1, <3>2, <3>3, <5>1 DEF Along
      <4> QED BY <3>4, <4>1, <4>2
    <3>6. Follows(c)
      BY <1>2, <2>1, <3>3, <3>5 DEF Follows, LevelsOK
    <3>7. n <= MaxDepth /\ MaxDepth \in Nat
      BY <1>2, DepthType DEF LevelsOK
    <3> QED BY <3>5, <3>6, <3>7
  <2> QED BY <2>7, <2>8
<1> QED BY <1>7, <1>8

\* a match that is not followed is the end of one chain, the searches' own
LEMMA LeafPasses ==
    ASSUME QueryOK, LevelsOK, NEW w, NextMatch(w), stack' = Resumed(w),
           (Held(w) => ~Intermediate(Base(w))) \/ Len(stack) = MaxDepth,
           NEW c, Chain(c)
    PROVE  Passed(c)' <=> Passed(c) \/ c = Path(w)
<1>1. /\ Len(Path(w)) = Len(stack) /\ Path(w)[Len(stack)] = w
      /\ Along(Path(w), Len(stack)) /\ Chain(Path(w))
  BY PathIsChain
<1>2. PICK n \in Nat \ {0} : n = Len(stack)
  BY MatchType
<1>3. ASSUME Along(c, n), c[n] = w PROVE c = Path(w)
  <2>1. Len(c) \in Nat /\ n <= Len(c) /\ Len(c) <= MaxDepth /\ MaxDepth \in Nat
    BY <1>3, ChainType, DepthType DEF Along, Chain
  <2>2. n < Len(c) => Held(w) /\ Intermediate(Base(w))
    <3>1. n < Len(c) => n \in 1..(Len(c) - 1)
      BY <2>1
    <3> QED BY <1>3, <3>1 DEF Chain, IsChain
  <2>3. Len(c) = n
    BY <1>2, <2>1, <2>2
  <2>4. \A i \in 1..n : i = n \/ i \in 1..(n - 1)
    OBVIOUS
  <2>5. \A i \in 1..n : c[i] = Path(w)[i]
    BY <1>1, <1>2, <1>3, <2>4 DEF Along
  <2>6. c \in Seq(1..Words) /\ Path(w) \in Seq(1..Words)
    BY <1>1, ChainType
  <2> QED BY <1>1, <1>2, <2>3, <2>5, <2>6, SeqEqual
<1>4. Passed(c)' <=> Passed(c) \/ (Along(c, n) /\ c[n] = w)
  BY <1>2, ResumePasses
<1> QED BY <1>1, <1>2, <1>3, <1>4
-----------------------------------------------------------------------------
(* What a step makes of what has been said                                 *)

LEMMA KeepFound ==
    ASSUME FoundOK, UNCHANGED <<query, found>>,
           \A c : Chain(c) => /\ Passed(c) => Passed(c)'
                              /\ Passed(c)' => Passed(c) \/ ~Good(c)
    PROVE  FoundOK'
<1>1. \A c : Chain(c)' <=> Chain(c)
  BY DEF Chain, IsChain, MaxDepth
<1> QED BY <1>1, Zenon DEF FoundOK

LEMMA KeepCut ==
    ASSUME CutOK, UNCHANGED <<query, gaveUp>>,
           \A c : Chain(c) => /\ Passed(c) => Passed(c)'
                              /\ Passed(c)' => Passed(c) \/ Len(c) # MaxDepth \/ ~Follows(c)
    PROVE  CutOK'
<1>1. MaxDepth' = MaxDepth /\ \A c : Chain(c)' <=> Chain(c)
  BY DEF Chain, IsChain, MaxDepth
<1> QED BY <1>1 DEF CutOK

LEMMA InitOK == Init => IInv
<1> SUFFICES ASSUME Init PROVE IInv
  OBVIOUS
<1>1. /\ query \in [target : Targets, limit : Limits]
      /\ stack = <<[addr |-> query.target, depth |-> 0, pos |-> 1]>>
      /\ found = <<>> /\ gaveUp = FALSE /\ status = "searching"
  BY DEF Init, Search
<1>2. QueryOK
  <2>1. <<>> \in Seq([obj : Objs, path : Seq(1..Words)])
    OBVIOUS
  <2> QED BY <1>1, <2>1, Zenon DEF QueryOK
<1>3. Len(stack) = 1 /\ stack # <<>> /\ Level(1) = [addr |-> query.target, depth |-> 0, pos |-> 1]
  BY <1>1 DEF Level
<1>4. query.target \in Objs
  BY <1>1, MemoryType
<1>5. stack \in Seq(Searches)
  <2>1. [addr |-> query.target, depth |-> 0, pos |-> 1] \in Searches
    BY <1>4, MemoryType DEF Searches
  <2> QED BY <1>1, <2>1
<1>6. LevelsOK
  <2>1. 1 <= MaxDepth
    BY <1>2, DepthType
  <2> QED BY <1>1, <1>3, <1>5, <2>1 DEF LevelsOK
<1>7. ASSUME NEW c, Chain(c) PROVE ~Passed(c)
  <2>1. c[1] \in Nat /\ c[1] \in 1..Words
    <3>1. Len(c) \in Nat \ {0} /\ 1 \in 1..Len(c)
      BY <1>7, ChainType
    <3> QED BY <1>7, <3>1, ChainType, MemoryType
  <2>2. ~(c[1] < 1)
    BY <2>1, MemoryType
  <2>3. \A k \in 1..Len(stack) : k = 1
    BY <1>3
  <2> QED BY <1>3, <2>2, <2>3 DEF Passed, PastAt
<1>8. FoundOK
  BY <1>1, <1>7 DEF FoundOK
<1>9. CutOK
  BY <1>1, <1>7 DEF CutOK
<1> QED BY <1>2, <1>6, <1>8, <1>9 DEF IInv

LEMMA SkipOK == ASSUME IInv, NEW w, SkipReference(w) PROVE IInv'
<1>1. /\ NextMatch(w)
      /\ Held(w) => ~Wanted(Base(w), Top.depth) /\ ~Intermediate(Base(w))
      /\ stack' = Resumed(w)
      /\ UNCHANGED <<query, found, gaveUp, status>>
      /\ QueryOK /\ LevelsOK /\ FoundOK /\ CutOK
  BY DEF SkipReference, IInv
<1>2. QueryOK'
  BY <1>1, Zenon DEF QueryOK
<1>3. LevelsOK'
  BY <1>1, ResumeLevelsOK
<1>4. ~Good(Path(w)) /\ ~Follows(Path(w))
  <2>1. Len(Path(w)) = Len(stack) /\ Path(w)[Len(stack)] = w
    BY <1>1, PathIsChain
  <2>2. Top.depth = Len(stack) - 1
    BY <1>1, MatchType
  <2> QED BY <1>1, <2>1, <2>2 DEF Good, Follows
<1>5. \A c : Chain(c) => (Passed(c)' <=> Passed(c) \/ c = Path(w))
  BY <1>1, LeafPasses
<1>6. FoundOK'
  BY <1>1, <1>4, <1>5, KeepFound
<1>7. CutOK'
  BY <1>1, <1>4, <1>5, KeepCut
<1> QED BY <1>2, <1>3, <1>6, <1>7 DEF IInv

LEMMA GiveUpOK == ASSUME IInv, NEW w, GiveUp(w) PROVE IInv'
<1>1. /\ NextMatch(w) /\ Held(w) /\ Intermediate(Base(w)) /\ LastLevel(Top.depth)
      /\ gaveUp' = TRUE
      /\ stack' = Resumed(w)
      /\ UNCHANGED <<query, found, status>>
      /\ QueryOK /\ LevelsOK /\ FoundOK /\ CutOK
  BY DEF GiveUp, Warn, IInv
<1>2. QueryOK'
  BY <1>1, Zenon DEF QueryOK
<1>3. LevelsOK'
  BY <1>1, ResumeLevelsOK
<1>4. /\ Len(Path(w)) = Len(stack) /\ Path(w)[Len(stack)] = w
      /\ Chain(Path(w))
  BY <1>1, PathIsChain
<1>5. Len(stack) = MaxDepth
  <2>1. Top.depth = Len(stack) - 1 /\ Len(stack) \in Nat
    BY <1>1, MatchType
  <2>2. MaxDepth \in Nat
    BY <1>1, DepthType
  <2> QED BY <1>1, <2>1, <2>2 DEF LastLevel
<1>6. Follows(Path(w)) /\ ~Good(Path(w))
  BY <1>1, <1>4, WantedNotFollowed DEF Follows, Good
<1>7. \A c : Chain(c) => (Passed(c)' <=> Passed(c) \/ c = Path(w))
  BY <1>1, <1>5, LeafPasses
<1>8. FoundOK'
  BY <1>1, <1>6, <1>7, KeepFound
<1>9. CutOK'
  <2>1. MaxDepth' = MaxDepth /\ \A c : Chain(c)' <=> Chain(c)
    BY <1>1 DEF Chain, IsChain, MaxDepth
  <2>2. PICK c : c = Path(w)
    OBVIOUS
  <2>3. Chain(c) /\ Len(c) = MaxDepth /\ Follows(c) /\ Passed(c)'
    BY <1>4, <1>5, <1>6, <1>7, <2>2
  <2> QED BY <1>1, <2>1, <2>3 DEF CutOK
<1> QED BY <1>2, <1>3, <1>8, <1>9 DEF IInv

LEMMA FoundReferenceOK == ASSUME IInv, NEW w, FoundReference(w) PROVE IInv'
<1> DEFINE r == [obj |-> Base(w), path |-> Path(w)]
<1>1. /\ NextMatch(w) /\ Held(w) /\ Wanted(Base(w), Top.depth)
      /\ found' = Append(found, r)
      /\ stack' = Resumed(w)
      /\ UNCHANGED <<query, gaveUp, status>>
      /\ QueryOK /\ LevelsOK /\ FoundOK /\ CutOK
  BY DEF FoundReference, IInv
<1>2. /\ Len(Path(w)) = Len(stack) /\ Path(w)[Len(stack)] = w
      /\ Chain(Path(w)) /\ ~Passed(Path(w))
  BY <1>1, PathIsChain
<1>3. r = Result(Path(w))
  BY <1>2 DEF Result
<1>4. Good(Path(w)) /\ ~Follows(Path(w))
  <2>1. Top.depth = Len(stack) - 1
    BY <1>1, MatchType
  <2> QED BY <1>1, <1>2, <2>1, WantedNotFollowed DEF Good, Follows
<1>5. LevelsOK'
  BY <1>1, ResumeLevelsOK
<1>6. r \in [obj : Objs, path : Seq(1..Words)] /\ r.path = Path(w)
  <2>1. Base(w) \in Objs
    BY <1>1, MatchType, BaseIsHead
  <2> QED BY <1>2, <2>1, ChainType
<1> HIDE DEF r
<1>7. found \in Seq([obj : Objs, path : Seq(1..Words)])
  BY <1>1 DEF QueryOK
<1>8. PICK n \in Nat : n = Len(found)
  BY <1>7
<1>9. /\ DOMAIN found = 1..n
      /\ DOMAIN found' = 1..(n + 1)
      /\ \A i \in 1..n : found'[i] = found[i]
      /\ found'[n + 1] = r
      /\ found' \in Seq([obj : Objs, path : Seq(1..Words)])
  BY <1>1, <1>6, <1>7, <1>8
<1>10. QueryOK'
  BY <1>1, <1>9, Zenon DEF QueryOK
<1>11. \A c : Chain(c) => (Passed(c)' <=> Passed(c) \/ c = Path(w))
  <2>1. ~Intermediate(Base(w))
    BY <1>1, WantedNotFollowed
  <2> QED BY <1>1, <2>1, LeafPasses
<1>12. CutOK'
  BY <1>1, <1>4, <1>11, KeepCut
<1>13. \A c : Chain(c)' <=> Chain(c)
  BY <1>1 DEF Chain, IsChain, MaxDepth
<1>14. \A i \in 1..(n + 1) : i = n + 1 \/ i \in 1..n
  BY <1>8
<1>15. \A i \in 1..n : i \in 1..(n + 1) /\ i # n + 1
  BY <1>8
<1>16. n + 1 \in 1..(n + 1)
  BY <1>8
<1>17. ASSUME NEW i \in DOMAIN found', NEW c, c = found'[i].path
       PROVE  found'[i] = Result(c) /\ Chain(c) /\ Good(c) /\ Passed(c)'
  <2>1. CASE i = n + 1
    <3>1. c = Path(w)
      BY <1>6, <1>9, <1>17, <2>1
    <3> QED BY <1>2, <1>3, <1>4, <1>9, <1>11, <2>1, <3>1
  <2>2. CASE i # n + 1
    <3>1. i \in DOMAIN found /\ found'[i] = found[i]
      BY <1>9, <1>14, <2>2
    <3>2. found[i] = Result(c) /\ Chain(c) /\ Good(c) /\ Passed(c)
      BY <1>1, <1>17, <3>1 DEF FoundOK
    <3> QED BY <1>11, <3>1, <3>2
  <2> QED BY <2>1, <2>2
<1>18. ASSUME NEW c, Chain(c), Good(c), Passed(c)'
       PROVE  \E i \in DOMAIN found' : found'[i].path = c
  <2>1. CASE c = Path(w)
    BY <1>6, <1>9, <1>16, <2>1
  <2>2. CASE Passed(c)
    <3>1. PICK i \in DOMAIN found : found[i].path = c
      BY <1>1, <1>18, <2>2 DEF FoundOK
    <3> QED BY <1>9, <1>15, <3>1
  <2> QED BY <1>11, <1>18, <2>1, <2>2
<1>19. ASSUME NEW i \in DOMAIN found', NEW j \in DOMAIN found', found'[i] = found'[j]
       PROVE  i = j
  <2>1. \A k \in DOMAIN found : found[k] # r
    BY <1>1, <1>2, <1>6 DEF FoundOK
  <2> QED BY <1>1, <1>9, <1>14, <1>19, <2>1 DEF FoundOK
<1>20. FoundOK'
  <2>1. \A i \in DOMAIN found' : \A c : c = found'[i].path =>
           found'[i] = Result(c) /\ Chain(c)' /\ Good(c) /\ Passed(c)'
    BY <1>13, <1>17
  <2>2. \A c : Chain(c)' /\ Good(c) /\ Passed(c)' => \E i \in DOMAIN found' : found'[i].path = c
    BY <1>13, <1>18
  <2> QED BY <1>19, <2>1, <2>2, Zenon DEF FoundOK
<1> QED BY <1>5, <1>10, <1>12, <1>20 DEF IInv

LEMMA FollowOK == ASSUME IInv, NEW w, FollowReference(w) PROVE IInv'
<1>1. /\ UNCHANGED <<query, found, gaveUp, status>>
      /\ QueryOK /\ LevelsOK /\ FoundOK /\ CutOK
  BY DEF FollowReference, IInv
<1>2. QueryOK'
  BY <1>1, Zenon DEF QueryOK
<1>3. LevelsOK'
  BY <1>1, FollowLevelsOK
<1>4. \A c : Chain(c) => (Passed(c)' <=> Passed(c))
  BY <1>1, FollowPasses
<1>5. FoundOK' /\ CutOK'
  BY <1>1, <1>4, KeepFound, KeepCut
<1> QED BY <1>2, <1>3, <1>5 DEF IInv

LEMMA EndSearchOK == ASSUME IInv, EndSearch PROVE IInv'
<1>1. /\ UNCHANGED <<query, found, gaveUp>>
      /\ status' \in {"searching", "done"}
      /\ QueryOK /\ LevelsOK /\ FoundOK /\ CutOK
  BY DEF EndSearch, IInv
<1>2. QueryOK'
  BY <1>1 DEF QueryOK
<1>3. LevelsOK'
  BY <1>1, PopLevelsOK
<1>4. \A c : Chain(c) => /\ Passed(c) => Passed(c)'
                         /\ Passed(c)' => Passed(c) \/ (Follows(c) /\ Len(c) < MaxDepth)
  BY <1>1, PopPasses
<1>5. \A c : Follows(c) => ~Good(c)
  BY WantedNotFollowed DEF Follows, Good
<1>6. \A c : Chain(c) /\ Len(c) < MaxDepth => Len(c) # MaxDepth
  BY <1>1, ChainType, DepthType
<1>7. FoundOK'
  BY <1>1, <1>4, <1>5, KeepFound
<1>8. CutOK'
  BY <1>1, <1>4, <1>6, KeepCut
<1> QED BY <1>2, <1>3, <1>7, <1>8 DEF IInv

LEMMA StayOK ==
    ASSUME IInv, UNCHANGED <<query, stack, found, gaveUp>>,
           status' \in {"searching", "done", "failed"}, status' = "done" <=> status = "done"
    PROVE  IInv'
<1>1. QueryOK'
  BY Zenon DEF IInv, QueryOK
<1>2. MaxDepth' = MaxDepth /\ \A i : Level(i)' = Level(i) /\ At(i)' = At(i)
  BY DEF MaxDepth, Level, At
<1>3. LevelsOK'
  BY <1>2 DEF IInv, LevelsOK
<1>4. \A c : Passed(c)' <=> Passed(c)
  BY <1>2 DEF Passed, Along, PastAt
<1>5. FoundOK' /\ CutOK'
  BY <1>4, KeepFound, KeepCut DEF IInv
<1> QED BY <1>1, <1>3, <1>5 DEF IInv

LEMMA StepOK == IInv /\ [Next]_frvars => IInv'
<1> SUFFICES ASSUME IInv, [Next]_frvars PROVE IInv'
  OBVIOUS
<1>1. CASE EndSearch
  BY <1>1, EndSearchOK
<1>2. CASE SearchFails
  BY <1>2, StayOK DEF SearchFails
<1>3. ASSUME NEW w \in Present, SkipReference(w) PROVE IInv'
  BY <1>3, SkipOK
<1>4. ASSUME NEW w \in Present, FoundReference(w) PROVE IInv'
  BY <1>4, FoundReferenceOK
<1>5. ASSUME NEW w \in Present, GiveUp(w) PROVE IInv'
  BY <1>5, GiveUpOK
<1>6. ASSUME NEW w \in Present, FollowReference(w) PROVE IInv'
  BY <1>6, FollowOK
<1>7. CASE UNCHANGED frvars
  <2>1. status' \in {"searching", "done", "failed"}
    BY <1>7 DEF frvars, IInv, QueryOK
  <2> QED BY <1>7, <2>1, StayOK DEF frvars
<1> QED BY <1>1, <1>2, <1>3, <1>4, <1>5, <1>6, <1>7 DEF Next

LEMMA InvHolds == Spec => []IInv
  BY InitOK, StepOK, PTL DEF Spec
-----------------------------------------------------------------------------
(* Lemmas about the chains as FindsAll and CutIsReported build them        *)

LEMMA FirstChain ==
    ASSUME NEW c
    PROVE  IsChain(c) /\ Len(c) = 1 <=>
              \E w \in Present : Value[w] = query.target /\ c = <<w>>
<1>1. ASSUME IsChain(c), Len(c) = 1
      PROVE  \E w \in Present : Value[w] = query.target /\ c = <<w>>
  <2>1. c \in Seq(Present) /\ 1 \in 1..Len(c)
    BY <1>1 DEF IsChain
  <2>2. c[1] \in Present /\ c = <<c[1]>>
    BY <1>1, <2>1
  <2> QED BY <1>1, <2>2 DEF IsChain
<1>2. ASSUME NEW w \in Present, Value[w] = query.target, c = <<w>>
      PROVE  IsChain(c) /\ Len(c) = 1
  <2>1. c \in Seq(Present) /\ Len(c) = 1 /\ c[1] = w /\ c # <<>>
    BY <1>2
  <2> QED BY <1>2, <2>1 DEF IsChain
<1> QED BY <1>1, <1>2

LEMMA LongerChain ==
    ASSUME NEW n \in Nat \ {0, 1}, NEW c
    PROVE  IsChain(c) /\ Len(c) = n <=>
              \E d : /\ IsChain(d) /\ Len(d) = n - 1
                    /\ Held(d[n - 1]) /\ Intermediate(Base(d[n - 1]))
                    /\ \E w \in Present : Value[w] = Base(d[n - 1]) /\ c = Append(d, w)
<1>1. ASSUME IsChain(c), Len(c) = n
      PROVE  \E d : /\ IsChain(d) /\ Len(d) = n - 1
                   /\ Held(d[n - 1]) /\ Intermediate(Base(d[n - 1]))
                   /\ \E w \in Present : Value[w] = Base(d[n - 1]) /\ c = Append(d, w)
  <2> DEFINE d == [i \in 1..(n - 1) |-> c[i]]
  <2>1. c \in Seq(Present) /\ \A i \in 1..n : c[i] \in Present
    BY <1>1 DEF IsChain
  <2>2. d \in Seq(Present) /\ Len(d) = n - 1 /\ \A i \in 1..(n - 1) : d[i] = c[i]
    <3>1. d \in [1..(n - 1) -> Present]
      BY <2>1
    <3> QED BY <3>1, SeqDef
  <2>3. c = Append(d, c[n])
    <3> HIDE DEF d
    <3>1. c[n] \in Present
      BY <2>1
    <3>2. /\ Append(d, c[n]) \in Seq(Present)
          /\ Len(Append(d, c[n])) = n
          /\ \A i \in 1..(n - 1) : Append(d, c[n])[i] = d[i]
          /\ Append(d, c[n])[n] = c[n]
      BY <2>2, <3>1
    <3>3. \A i \in 1..n : i = n \/ i \in 1..(n - 1)
      OBVIOUS
    <3>4. \A i \in 1..Len(c) : Append(d, c[n])[i] = c[i]
      BY <1>1, <2>2, <3>2, <3>3
    <3> QED BY <1>1, <2>1, <3>2, <3>4, SeqEqual
  <2> HIDE DEF d
  <2>4. /\ 1 \in 1..(n - 1) /\ n - 1 \in 1..(n - 1) /\ (n - 1) + 1 = n /\ n \in 1..n
        /\ \A i \in 1..(n - 2) : i \in 1..(n - 1) /\ i + 1 \in 1..(n - 1)
    OBVIOUS
  <2>5. IsChain(d)
    <3>1. d # <<>>
      BY <2>2
    <3>2. (n - 1) - 1 = n - 2
      OBVIOUS
    <3> QED BY <1>1, <2>2, <2>4, <3>1, <3>2 DEF IsChain
  <2>6. /\ Held(d[n - 1]) /\ Intermediate(Base(d[n - 1]))
        /\ c[n] \in Present /\ Value[c[n]] = Base(d[n - 1])
    BY <1>1, <2>1, <2>2, <2>4 DEF IsChain
  <2> QED BY <2>2, <2>3, <2>5, <2>6
<1>2. ASSUME NEW d, IsChain(d), Len(d) = n - 1,
             Held(d[n - 1]), Intermediate(Base(d[n - 1])),
             NEW w \in Present, Value[w] = Base(d[n - 1]), c = Append(d, w)
      PROVE  IsChain(c) /\ Len(c) = n
  <2>1. d \in Seq(Present)
    BY <1>2 DEF IsChain
  <2>2. /\ c \in Seq(Present) /\ Len(c) = n /\ c # <<>>
        /\ \A i \in 1..(n - 1) : c[i] = d[i]
        /\ c[n] = w
    <3>1. /\ Append(d, w) \in Seq(Present) /\ Len(Append(d, w)) = Len(d) + 1
          /\ \A i \in 1..Len(d) : Append(d, w)[i] = d[i]
          /\ Append(d, w)[Len(d) + 1] = w
      BY <2>1
    <3>2. (n - 1) + 1 = n
      OBVIOUS
    <3>3. Len(c) = n
      BY <1>2, <3>1, <3>2
    <3>4. c # <<>>
      BY <3>3
    <3> QED BY <1>2, <3>1, <3>2, <3>3, <3>4, Zenon
  <2>3. 1 \in 1..(n - 1) /\ (n - 1) + 1 = n
    OBVIOUS
  <2>4. ASSUME NEW i \in 1..(n - 1)
        PROVE  Held(c[i]) /\ Intermediate(Base(c[i])) /\ Value[c[i + 1]] = Base(c[i])
    <3>1. CASE i = n - 1
      BY <1>2, <2>2, <2>3, <3>1
    <3>2. CASE i # n - 1
      <4>1. i \in 1..(Len(d) - 1) /\ i + 1 \in 1..(n - 1)
        BY <1>2, <3>2
      <4> QED BY <1>2, <2>2, <4>1 DEF IsChain
    <3> QED BY <3>1, <3>2
  <2>5. Value[c[1]] = query.target
    BY <1>2, <2>2, <2>3 DEF IsChain
  <2> QED BY <2>2, <2>4, <2>5 DEF IsChain
<1> QED BY <1>1, <1>2

\* the set that Chains has for n, from those for smaller numbers
Links(f, n) ==
    IF n = 1 THEN {<<w>> : w \in {v \in Present : Value[v] = query.target}}
    ELSE UNION {{Append(c, w) : w \in {v \in Present : Value[v] = Base(c[n - 1])}} :
                   c \in {d \in f[n - 1] : Held(d[n - 1]) /\ Intermediate(Base(d[n - 1]))}}

ChainsOf(n) == {c \in Seq(Present) : IsChain(c) /\ Len(c) = n}

LEMMA LinksOne ==
    ASSUME NEW f
    PROVE  Links(f, 1) = ChainsOf(1)
<1>1. \A c : c \in Links(f, 1) <=> \E w \in Present : Value[w] = query.target /\ c = <<w>>
  BY DEF Links
<1>2. \A c : c \in ChainsOf(1) <=> IsChain(c) /\ Len(c) = 1
  BY DEF ChainsOf, IsChain
<1> QED BY <1>1, <1>2, FirstChain

LEMMA LinksMore ==
    ASSUME NEW n \in Nat \ {0, 1}, NEW f, f[n - 1] = ChainsOf(n - 1)
    PROVE  Links(f, n) = ChainsOf(n)
<1>1. \A d : d \in f[n - 1] <=> IsChain(d) /\ Len(d) = n - 1
  BY DEF ChainsOf, IsChain
<1> DEFINE G == {d \in f[n - 1] : Held(d[n - 1]) /\ Intermediate(Base(d[n - 1]))}
           S(d) == {Append(d, w) : w \in {v \in Present : Value[v] = Base(d[n - 1])}}
<1>2. Links(f, n) = UNION {S(d) : d \in G}
  BY DEF Links
<1>3. \A d : d \in G <=> /\ IsChain(d) /\ Len(d) = n - 1
                         /\ Held(d[n - 1]) /\ Intermediate(Base(d[n - 1]))
  BY <1>1
<1>4. \A d, c : c \in S(d) <=>
                   \E w \in Present : Value[w] = Base(d[n - 1]) /\ c = Append(d, w)
  OBVIOUS
<1> HIDE DEF G, S
<1>5. \A c : c \in Links(f, n) <=> \E d : d \in G /\ c \in S(d)
  BY <1>2
<1>6. \A c : IsChain(c) /\ Len(c) = n <=> \E d : d \in G /\ c \in S(d)
  <2> SUFFICES ASSUME NEW c
               PROVE  IsChain(c) /\ Len(c) = n <=> \E d : d \in G /\ c \in S(d)
    OBVIOUS
  <2>1. IsChain(c) /\ Len(c) = n <=>
           \E d : /\ IsChain(d) /\ Len(d) = n - 1
                 /\ Held(d[n - 1]) /\ Intermediate(Base(d[n - 1]))
                 /\ \E w \in Present : Value[w] = Base(d[n - 1]) /\ c = Append(d, w)
    BY LongerChain
  <2> QED BY <1>3, <1>4, <2>1, Zenon
<1>7. \A c : c \in ChainsOf(n) <=> IsChain(c) /\ Len(c) = n
  BY DEF ChainsOf, IsChain
<1> QED BY <1>5, <1>6, <1>7

LEMMA ChainsEquation ==
    ASSUME MaxDepth \in Nat
    PROVE  Chains = [n \in 1..MaxDepth |-> Links(Chains, n)]
<1> DEFINE f == [n \in 1..MaxDepth |-> ChainsOf(n)]
<1>1. ASSUME NEW n \in 1..MaxDepth PROVE Links(f, n) = ChainsOf(n)
  <2>1. CASE n = 1
    BY <2>1, LinksOne
  <2>2. CASE n # 1
    <3>1. n \in Nat \ {0, 1} /\ n - 1 \in 1..MaxDepth
      BY <2>2
    <3>2. f[n - 1] = ChainsOf(n - 1)
      BY <3>1
    <3> QED BY <3>1, <3>2, LinksMore
  <2> QED BY <2>1, <2>2
<1>2. f = [n \in 1..MaxDepth |-> Links(f, n)]
  BY <1>1
<1> HIDE DEF f
<1>3. Chains = CHOOSE g : g = [n \in 1..MaxDepth |-> Links(g, n)]
  BY DEF Chains, Links
<1> QED BY <1>2, <1>3

\* the recursive definition gives all the chains of a length, and only those
LEMMA ChainsAreChains ==
    ASSUME MaxDepth \in Nat, NEW n \in 1..MaxDepth
    PROVE  Chains[n] = ChainsOf(n)
<1>1. \A m \in 1..MaxDepth : Chains[m] = Links(Chains, m)
  BY ChainsEquation
<1> DEFINE T == {m \in 1..MaxDepth : Chains[m] # ChainsOf(m)}
<1>2. ASSUME T # {} PROVE FALSE
  <2>1. T \subseteq Nat
    OBVIOUS
  <2>2. PICK m \in T : \A k \in T : m <= k
    BY <1>2, <2>1, Least
  <2>3. CASE m = 1
    BY <1>1, <2>3, LinksOne
  <2>4. CASE m # 1
    <3>1. m \in Nat \ {0, 1} /\ m - 1 \in 1..MaxDepth /\ ~(m <= m - 1)
      BY <2>4
    <3>2. Chains[m - 1] = ChainsOf(m - 1)
      BY <2>2, <3>1
    <3> QED BY <1>1, <3>1, <3>2, LinksMore
  <2> QED BY <2>3, <2>4
<1> QED BY <1>2
-----------------------------------------------------------------------------
LEMMA EveryChainPassed ==
    ASSUME IInv, status = "done", NEW c
    PROVE  Passed(c)
  BY DEF IInv, LevelsOK, Passed

LEMMA FindsAllHolds == IInv => FindsAll
<1> SUFFICES ASSUME IInv PROVE FindsAll
  OBVIOUS
<1>1. QueryOK /\ FoundOK /\ MaxDepth \in Nat
  BY DepthType DEF IInv
<1>2. \A i, j \in DOMAIN found : found[i] = found[j] => i = j
  BY <1>1 DEF FoundOK
<1>3. ASSUME status = "done", NEW i \in DOMAIN found
      PROVE  \E n \in 1..MaxDepth : found[i] \in Ends(n)
  <2>1. PICK c : c = found[i].path
    OBVIOUS
  <2>2. found[i] = Result(c) /\ Chain(c) /\ Good(c)
    BY <1>1, <2>1 DEF FoundOK
  <2>3. PICK n \in 1..MaxDepth : n = Len(c)
    BY <1>1, <2>2, ChainType DEF Chain
  <2>4. c \in Chains[n]
    BY <1>1, <2>2, <2>3, ChainsAreChains DEF ChainsOf, Chain, IsChain
  <2>5. Held(c[n]) /\ Wanted(Base(c[n]), n - 1) /\ found[i] = [obj |-> Base(c[n]), path |-> c]
    BY <2>2, <2>3 DEF Good, Result
  <2> QED BY <2>4, <2>5 DEF Ends
<1>4. ASSUME status = "done", NEW n \in 1..MaxDepth, NEW x \in Ends(n)
      PROVE  x \in Reported
  <2>1. PICK c \in Chains[n] : /\ Held(c[n]) /\ Wanted(Base(c[n]), n - 1)
                              /\ x = [obj |-> Base(c[n]), path |-> c]
    BY DEF Ends
  <2>2. IsChain(c) /\ Len(c) = n
    BY <1>1, ChainsAreChains DEF ChainsOf
  <2>3. Chain(c) /\ Good(c) /\ x = Result(c)
    BY <1>1, <2>1, <2>2 DEF Chain, Good, Result
  <2>4. PICK i \in DOMAIN found : found[i].path = c
    BY <1>1, <1>4, <2>3, EveryChainPassed DEF FoundOK
  <2>5. found[i] = x
    BY <1>1, <2>3, <2>4 DEF FoundOK
  <2> QED BY <2>5 DEF Reported
<1>5. status = "done" => Reported = UNION {Ends(n) : n \in 1..MaxDepth}
  BY <1>3, <1>4 DEF Reported
<1> QED BY <1>2, <1>5 DEF FindsAll

LEMMA HoldersHoldHolds == IInv => HoldersHold
<1> SUFFICES ASSUME IInv,
                    NEW f \in Reported, NEW k \in DOMAIN f.path,
                    NEW o, o = Base(f.path[k]), Obj[o].sized, Extra(o) = 0
             PROVE  f.path[k] \in Extent(o)
  BY DEF HoldersHold
<1>1. PICK i \in DOMAIN found : f = found[i]
  BY DEF Reported
<1>2. PICK c : c = f.path
  OBVIOUS
<1>3. Chain(c) /\ Good(c)
  BY <1>1, <1>2 DEF IInv, FoundOK
<1>4. k \in 1..Len(c) /\ Len(c) \in Nat
  BY <1>2, <1>3, ChainType
<1>5. Held(c[k])
  <2>1. k = Len(c) \/ k \in 1..(Len(c) - 1)
    BY <1>4
  <2> QED BY <1>3, <2>1 DEF Good, Chain, IsChain
<1>6. c[k] \in 1..Words
  BY <1>3, <1>4, ChainType, MemoryType
<1>7. o \in Objs /\ Obj[o].at <= c[k] /\ o = Base(c[k])
  BY <1>2, <1>5, <1>6, BaseIsHead
<1>8. Obj[o] \in Object
  BY <1>7, MemoryAssumption
<1>9. c[k] < Obj[o].at + Obj[o].size + 0
  BY <1>5, <1>7 DEF Held, Contains
<1>10. Obj[o].at \in Nat /\ Obj[o].size \in Nat /\ c[k] \in Nat
  BY <1>6, <1>8, MemoryType DEF Object
<1> QED BY <1>2, <1>7, <1>9, <1>10 DEF Extent

(* The searches that are in progress are as the recursion in the code makes *)
(* them: each is one level below the one that called it, looks for a real   *)
(* object, and is at a word of memory or past the last.                     *)
THEOREM SearchesTyped == Spec => []TypeOK
<1>1. IInv => TypeOK
  <2> SUFFICES ASSUME IInv PROVE TypeOK
    OBVIOUS
  <2>1. ASSUME NEW i \in DOMAIN stack
        PROVE  /\ stack[i].addr \in Objs
               /\ stack[i].depth = Len(stack) - i
               /\ stack[i].pos \in 1..(Words + 1)
    <3>1. stack \in Seq(Searches) /\ Len(stack) \in Nat /\ i \in 1..Len(stack)
      BY DEF IInv, LevelsOK
    <3>2. PICK k \in 1..Len(stack) : k = Len(stack) - i + 1
      BY <3>1
    <3>3. Len(stack) - k + 1 = i /\ k - 1 = Len(stack) - i
      BY <3>1, <3>2
    <3>4. Level(k) = stack[i]
      BY <3>3 DEF Level
    <3> QED BY <3>3, <3>4, LevelFields DEF IInv, LevelsOK
  <2>2. QueryOK /\ (stack = <<>> <=> status = "done")
    BY DEF IInv, LevelsOK
  <2> QED BY <2>1, <2>2, Zenon DEF TypeOK, QueryOK
<1> QED BY <1>1, InvHolds, PTL

(* ::jsfindrefs prints what refers to the value, all of it within the depth *)
(* limit and each once, whatever cycles the FixedArrays form and however    *)
(* many mappings and searches inside searches that takes; and what it       *)
(* prints holds the reference (v8contains).                                 *)
THEOREM ReferencesFound == Spec => []FoundExactly
<1>1. IInv => FoundExactly
  BY FindsAllHolds, HoldersHoldHolds DEF FoundExactly
<1> QED BY <1>1, InvHolds, PTL

(* ::jsfindrefs warns ("gave up after following") just when there is a      *)
(* chain of references that it has cut off at the depth limit.              *)
THEOREM CutsReported == Spec => []CutIsReported
<1>1. IInv => CutIsReported
  <2> SUFFICES ASSUME IInv, status = "done"
               PROVE  gaveUp <=> \E c \in Chains[MaxDepth] :
                         Held(c[MaxDepth]) /\ Intermediate(Base(c[MaxDepth]))
    BY DEF CutIsReported
  <2>1. MaxDepth \in 1..MaxDepth /\ MaxDepth \in Nat
    BY DepthType DEF IInv
  <2>2. \A c : c \in Chains[MaxDepth] <=> IsChain(c) /\ Len(c) = MaxDepth
    BY <2>1, ChainsAreChains DEF ChainsOf, IsChain
  <2>3. gaveUp <=> \E c : Chain(c) /\ Len(c) = MaxDepth /\ Follows(c)
    BY EveryChainPassed DEF IInv, CutOK
  <2>4. \A c : Chain(c) /\ Len(c) = MaxDepth <=> IsChain(c) /\ Len(c) = MaxDepth
    BY <2>1 DEF Chain
  <2>5. \A c : Len(c) = MaxDepth =>
           (Follows(c) <=> Held(c[MaxDepth]) /\ Intermediate(Base(c[MaxDepth])))
    BY DEF Follows
  <2> QED BY <2>2, <2>3, <2>4, <2>5, Zenon
<1> QED BY <1>1, InvHolds, PTL
=============================================================================
