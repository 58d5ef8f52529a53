---------------------- MODULE ObjectProperties_proofs ----------------------
(***************************************************************************)
(* jsobj_properties, proved for every version of V8, every size of the     *)
(* object and everything V8 does to it.                                    *)
(*                                                                         *)
(* The memory of an object that V8 has changed has each property at one    *)
(* place of it, also when it is damaged, but for the word or the part that *)
(* the damage is (HeapInv); what the walk has called, flagged and counted  *)
(* is a function of that memory and of the place the walk is at: garbage   *)
(* and losses (GarbageInv, LossInv), an object in order (SoundInv,         *)
(* ReportInv), and the two passes of the walker (OkInv, CountInv).         *)
(***************************************************************************)
EXTENDS ObjectProperties, FiniteSetTheorems, SequenceTheorems, TLAPS

Places ==
    {"build", "begin", "elements", "etable", "shape", "table", "descs", "end", "fault"}

\* before the first call of the callback
Fresh == calls = <<>> /\ info = {} /\ count[pass] = 0

PlaceInv ==
    /\ pc \in Places /\ pass \in {1, 2}
    /\ client \in Clients
    /\ answer \in {-1, 0, 1} /\ rval \in {-1, 0, 1}
    /\ pass = 2 => client = "walker"
    /\ client # "member" => answer = 0 /\ (pc = "end" => rval \in {-1, 0})
    /\ pc = "build" => pass = 1
    /\ pc \in {"build", "begin"} => Fresh
    /\ pc \in {"build", "begin"} /\ client = "finder" => out = {}
    /\ count \in [{1, 2} -> Nat]
    /\ pass = 1 => count[2] = 0

(* The callbacks of ::findjsobjects and ::walk answer 0.                   *)
LEMMA AnswerIsZero ==
    ASSUME PlaceInv, NEW rv \in Answers
    PROVE  /\ rv \in {-1, 0, 1}
           /\ client # "member" => rv = 0
           /\ answer = -1 => rv = 0
BY DEF PlaceInv, Answers

(* What a call leaves.                                                     *)
LEMMA CallLeaves ==
    ASSUME PlaceInv, NEW STATE p, NEW rv, Call(p, rv)
    PROVE  /\ rv \in {-1, 0, 1}
           /\ client # "member" => rv = 0
           /\ calls' = Append(calls, p)
           /\ answer' \in {-1, 0, 1}
           /\ client # "member" => answer' = 0
           /\ answer' = -1 => rv = -1 \/ (answer = -1 /\ rv = 0)
           /\ rv # 0 => answer' = rv
           /\ rv = 0 => answer' = answer
           /\ count' \in [{1, 2} -> Nat]
           /\ count'[pass] = IF p.double THEN count[pass] ELSE count[pass] + 1
           /\ pass = 1 => count'[2] = 0
<1>1. rv \in Answers
  BY DEF Call
<1>2. rv \in {-1, 0, 1} /\ (client # "member" => rv = 0)
  BY <1>1, AnswerIsZero
<1>3. /\ calls' = Append(calls, p)
      /\ answer' = IF rv # 0 THEN rv ELSE answer
  BY DEF Call
<1>4. count' = IF ~p.double THEN [count EXCEPT ![pass] = @ + 1] ELSE count
  BY DEF Call, Counted
<1>5. count \in [{1, 2} -> Nat] /\ pass \in {1, 2} /\ (pass = 1 => count[2] = 0)
  BY DEF PlaceInv
<1> QED
  BY <1>2, <1>3, <1>4, <1>5 DEF PlaceInv

-----------------------------------------------------------------------------
(* The places of a walk                                                    *)

LEMMA PlaceInit == Init => PlaceInv
BY DEF Init, PlaceInv, Places, Fresh, Clients

LEMMA PlaceBegin ==
    ASSUME PlaceInv, Begin
    PROVE  PlaceInv'
<1>1. CASE BeginFails
  BY <1>1 DEF PlaceInv, Places, Begin, BeginFails, Return, NoCall, heapvars, Fresh
<1>2. CASE BadLayout
  <2>1. CASE client # "walker" /\ \E rv \in Answers :
                Call([name |-> Internal, val |-> NoValue, double |-> FALSE], rv) /\ Return(rv)
    <3>1. PICK rv \in Answers :
             Call([name |-> Internal, val |-> NoValue, double |-> FALSE], rv) /\ Return(rv)
      BY <2>1
    <3> QED
      BY <2>1, <3>1, CallLeaves DEF PlaceInv, Places, Begin, Return, heapvars
  <2>2. CASE client = "walker" /\ pc' = "fault" /\ NoCall /\ UNCHANGED rval
    BY <2>2 DEF PlaceInv, Places, Begin, NoCall, heapvars
  <2> QED
    BY <1>2, <2>1, <2>2 DEF BadLayout
<1>3. CASE BeginWalk
  BY <1>3 DEF PlaceInv, Places, Begin, BeginWalk, NoCall, heapvars
<1> QED
  BY <1>1, <1>2, <1>3 DEF Begin

LEMMA PlaceElements ==
    ASSUME PlaceInv, Elements
    PROVE  PlaceInv'
<1> DEFINE p == [name |-> Smi(ii - 1), val |-> obj.elts[ii], double |-> FALSE]
<1>1. CASE NoCall
  BY <1>1 DEF PlaceInv, Places, Elements, NoCall, heapvars, Call
<1>2. CASE ~NoCall
  <2>1. PICK rv : Call(p, rv) /\ IF rv # 0 THEN Return(-1) /\ UNCHANGED ii
                                  ELSE ii' = ii + 1 /\ UNCHANGED <<pc, rval>>
    BY <1>2 DEF Elements
  <2> HIDE DEF p
  <2> QED
    BY <2>1, CallLeaves DEF PlaceInv, Places, Elements, Return, heapvars
<1> QED
  BY <1>1, <1>2

(* What a step of read_heap_dict leaves, but for where it goes.            *)
LEMMA PlaceTable ==
    ASSUME PlaceInv, NEW STATE table, NEW ACTION Finish, ReadTable(table, Finish),
           Finish => pc' \in Places \ {"build", "begin"} /\ rval' \in {-1, 0, 1}
                     /\ (client # "member" /\ pc' = "end" => rval' = 0),
           pc \in {"etable", "table"}, UNCHANGED <<heapvars, pass>>
    PROVE  PlaceInv'
<1> DEFINE p == [name |-> table[ii], val |-> table[ii + 1], double |-> FALSE]
<1>1. CASE Return(-1) /\ NoCall
  BY <1>1 DEF PlaceInv, Places, Return, NoCall, heapvars
<1>2. CASE Finish /\ NoCall
  BY <1>2 DEF PlaceInv, Places, NoCall, heapvars
<1>3. CASE NoCall /\ UNCHANGED <<pc, rval>>
  BY <1>3 DEF PlaceInv, Places, NoCall, heapvars
<1>4. ASSUME NEW rv, Call(p, rv),
             IF Stops(rv) THEN Return(-1) /\ UNCHANGED ii
             ELSE ii' = Following(table[ii]) /\ UNCHANGED <<pc, rval>>
      PROVE  PlaceInv'
  <2>1. UNCHANGED <<pc, rval>> \/ Return(-1)
    BY <1>4
  <2> HIDE DEF p
  <2> QED
    BY <1>4, <2>1, CallLeaves DEF PlaceInv, Places, Return, heapvars
<1> QED
  BY <1>1, <1>2, <1>3, <1>4 DEF ReadTable

LEMMA PlaceElementTable ==
    ASSUME PlaceInv, ElementTable
    PROVE  PlaceInv'
<1> DEFINE Finish == pc' = "shape" /\ UNCHANGED rval
<1>1. ReadTable(obj.elts, Finish) /\ pc = "etable" /\ UNCHANGED <<heapvars, pass>>
  BY DEF ElementTable
<1>2. Finish => pc' \in Places \ {"build", "begin"} /\ rval' \in {-1, 0, 1}
                /\ (client # "member" /\ pc' = "end" => rval' = 0)
  BY DEF PlaceInv, Places
<1> HIDE DEF Finish
<1> QED
  BY <1>1, <1>2, PlaceTable

LEMMA PlacePropertyTable ==
    ASSUME PlaceInv, PropertyTable
    PROVE  PlaceInv'
<1>1. CASE Return(-1) /\ NoCall
  BY <1>1 DEF PlaceInv, Places, Return, NoCall, heapvars, PropertyTable
<1>2. CASE ReadTable(obj.props, Return(0))
  <2>1. Return(0) => pc' \in Places \ {"build", "begin"} /\ rval' \in {-1, 0, 1}
                     /\ (client # "member" /\ pc' = "end" => rval' = 0)
    BY DEF Return, Places
  <2>2. pc = "table" /\ UNCHANGED <<heapvars, pass>>
    BY DEF PropertyTable
  <2> QED
    BY <1>2, <2>1, <2>2, PlaceTable
<1> QED
  BY <1>1, <1>2 DEF PropertyTable

LEMMA PlaceShape ==
    ASSUME PlaceInv, Shape
    PROVE  PlaceInv'
BY DEF PlaceInv, Places, Shape, Return, NoCall, heapvars

LEMMA PlaceDescriptors ==
    ASSUME PlaceInv, Descriptors
    PROVE  PlaceInv'
<1> DEFINE d == obj.descs[ii]
           word == IF InObject(d) THEN SlotWord(d) ELSE obj.props[ArrayIdx(d) + 1]
           p == [name |-> d.key, val |-> word, double |-> IsUntagged(PropIdx(d))]
<1>1. CASE NoCall /\ Return(0)
  BY <1>1 DEF PlaceInv, Places, Descriptors, Return, NoCall, heapvars
<1>2. CASE NoCall /\ Return(-1)
  BY <1>2 DEF PlaceInv, Places, Descriptors, Return, NoCall, heapvars
<1>3. CASE NoCall /\ UNCHANGED <<pc, rval>>
  BY <1>3 DEF PlaceInv, Places, Descriptors, NoCall, heapvars
<1>4. ASSUME NEW rv, Call(p, rv),
             IF rv # 0 THEN Return(-1) /\ UNCHANGED ii
             ELSE ii' = ii + 1 /\ UNCHANGED <<pc, rval>>
      PROVE  PlaceInv'
  <2>1. UNCHANGED <<pc, rval>> \/ Return(-1)
    BY <1>4
  <2>2. pc = "descs" /\ UNCHANGED <<heapvars, pass>>
    BY DEF Descriptors
  <2> HIDE DEF p
  <2> QED
    BY <1>4, <2>1, <2>2, CallLeaves DEF PlaceInv, Places, Return, heapvars
<1> QED
  BY <1>1, <1>2, <1>3, <1>4 DEF Descriptors

LEMMA PlaceNext ==
    ASSUME PlaceInv, [Next]_opvars
    PROVE  PlaceInv'
<1>1. CASE V8Step
  BY <1>1 DEF PlaceInv, V8Step, walkvars, Fresh
<1>2. CASE DamageStep
  BY <1>2 DEF PlaceInv, DamageStep, walkvars, Fresh
<1>3. CASE Start
  BY <1>3 DEF PlaceInv, Start, heapvars, Fresh, Places
<1>4. CASE SecondPass
  BY <1>4 DEF PlaceInv, SecondPass, heapvars, Fresh, Places
<1>5. CASE UNCHANGED opvars
  BY <1>5 DEF PlaceInv, opvars, heapvars, walkvars, Fresh
<1> QED
  BY <1>1, <1>2, <1>3, <1>4, <1>5, PlaceBegin, PlaceElements, PlaceElementTable,
     PlacePropertyTable, PlaceShape, PlaceDescriptors DEF Next, Walk

LEMMA PlaceAlways == Spec => []PlaceInv
<1>1. Init => PlaceInv
  BY PlaceInit
<1>2. PlaceInv /\ [Next]_opvars => PlaceInv'
  BY PlaceNext
<1> QED
  BY <1>1, <1>2, PTL DEF Spec

-----------------------------------------------------------------------------
(* Errors stop the walk                                                    *)

\* in what place the walk makes calls, and what a call that fails does then
LEMMA CallStops ==
    ASSUME PlaceInv, StopsAtError, NEW STATE p, NEW rv, Call(p, rv), pc # "end",
           rv = -1 => Return(-1)
    PROVE  StopsAtError'
<1>1. answer # -1
  BY DEF StopsAtError
<1>2. answer' = -1 => rv = -1
  BY <1>1, CallLeaves
<1> QED
  BY <1>2 DEF StopsAtError, Return

LEMMA NoCallStops ==
    ASSUME StopsAtError, NoCall, pc # "end"
    PROVE  StopsAtError'
BY DEF StopsAtError, NoCall

LEMMA TableStops ==
    ASSUME PlaceInv, StopsAtError, NEW STATE table, NEW ACTION Finish, ReadTable(table, Finish),
           pc # "end"
    PROVE  StopsAtError'
<1> DEFINE p == [name |-> table[ii], val |-> table[ii + 1], double |-> FALSE]
<1>1. CASE NoCall
  BY <1>1, NoCallStops
<1>2. ASSUME NEW rv, Call(p, rv), Stops(rv) => Return(-1)
      PROVE  StopsAtError'
  <2> HIDE DEF p
  <2> QED
    BY <1>2, CallStops DEF Stops
<1> QED
  BY <1>1, <1>2 DEF ReadTable

LEMMA StopsNext ==
    ASSUME PlaceInv, StopsAtError, [Next]_opvars
    PROVE  StopsAtError'
<1>1. CASE V8Step \/ DamageStep \/ Start \/ SecondPass \/ UNCHANGED opvars
  BY <1>1 DEF StopsAtError, V8Step, DamageStep, Start, SecondPass, opvars, walkvars
<1>2. CASE Begin
  <2>1. pc # "end"
    BY <1>2 DEF Begin
  <2>2. CASE NoCall
    BY <2>1, <2>2, NoCallStops
  <2>3. ASSUME NEW rv, Call([name |-> Internal, val |-> NoValue, double |-> FALSE], rv), Return(rv)
        PROVE  StopsAtError'
    BY <2>1, <2>3, CallStops
  <2> QED
    BY <1>2, <2>2, <2>3 DEF Begin, BeginFails, BadLayout, BeginWalk
<1>3. CASE Elements
  <2> DEFINE p == [name |-> Smi(ii - 1), val |-> obj.elts[ii], double |-> FALSE]
  <2>1. pc # "end"
    BY <1>3 DEF Elements
  <2>2. CASE NoCall
    BY <2>1, <2>2, NoCallStops
  <2>3. ASSUME NEW rv, Call(p, rv), rv # 0 => Return(-1)
        PROVE  StopsAtError'
    <3> HIDE DEF p
    <3> QED
      BY <2>1, <2>3, CallStops
  <2> QED
    BY <1>3, <2>2, <2>3 DEF Elements
<1>4. CASE ElementTable
  <2> DEFINE Finish == pc' = "shape" /\ UNCHANGED rval
  <2>1. ReadTable(obj.elts, Finish) /\ pc # "end"
    BY <1>4 DEF ElementTable
  <2> HIDE DEF Finish
  <2> QED
    BY <2>1, TableStops
<1>5. CASE PropertyTable
  <2>1. pc # "end"
    BY <1>5 DEF PropertyTable
  <2>2. CASE NoCall
    BY <2>1, <2>2, NoCallStops
  <2>3. CASE ReadTable(obj.props, Return(0))
    BY <2>1, <2>3, TableStops
  <2> QED
    BY <1>5, <2>2, <2>3 DEF PropertyTable
<1>6. CASE Shape
  BY <1>6, NoCallStops DEF Shape
<1>7. CASE Descriptors
  <2> DEFINE d == obj.descs[ii]
             word == IF InObject(d) THEN SlotWord(d) ELSE obj.props[ArrayIdx(d) + 1]
             p == [name |-> d.key, val |-> word, double |-> IsUntagged(PropIdx(d))]
  <2>1. pc # "end"
    BY <1>7 DEF Descriptors
  <2>2. CASE NoCall
    BY <2>1, <2>2, NoCallStops
  <2>3. ASSUME NEW rv, Call(p, rv), rv # 0 => Return(-1)
        PROVE  StopsAtError'
    <3> HIDE DEF p
    <3> QED
      BY <2>1, <2>3, CallStops
  <2> QED
    BY <1>7, <2>2, <2>3 DEF Descriptors
<1> QED
  BY <1>1, <1>2, <1>3, <1>4, <1>5, <1>6, <1>7 DEF Next, Walk

LEMMA StopsAlways == Spec => []StopsAtError
<1>1. Init => StopsAtError
  BY DEF Init, StopsAtError
<1>2. StopsAtError /\ PlaceInv /\ [Next]_opvars => StopsAtError'
  BY StopsNext
<1> QED
  BY <1>1, <1>2, PlaceAlways, PTL DEF Spec

-----------------------------------------------------------------------------
(* The types of what is in memory                                          *)

Words ==
    {Undefined, Hole, Garbage, Internal, NoValue}
      \cup {Name(n) : n \in Nat} \cup {Smi(n) : n \in Nat}
      \cup {Value(n) : n \in Nat} \cup {Double(n) : n \in Nat}

Prop == [name : Words, val : Words, double : BOOLEAN]
Desc == [key : Words, field : BOOLEAN, index : Words]
Kinds == {"fast", "holey", "other", "dictionary"}

Object ==
    [descs : Seq(Desc), slots : Seq(Words), props : Seq(Words), slow : BOOLEAN, cut : Nat,
     kind : Kinds, elts : Seq(Words)]

TableLen == 1 + 3 * TableSize

HeapTyped ==
    /\ ver \in Versions /\ nin \in Nat /\ made \in 0..MaxBuild
    /\ obj \in Object
    /\ own \in Seq(Prop) /\ elements \in Seq(Prop)
    /\ Len(obj.slots) = nin
    /\ obj.slow => Len(obj.props) = TableLen
    /\ obj.kind = "dictionary" => Len(obj.elts) = TableLen

LEMMA WordsTyped ==
    /\ {Undefined, Hole, Garbage, Internal, NoValue} \subseteq Words
    /\ \A n \in Nat : {Name(n), Smi(n), Value(n), Double(n)} \subseteq Words
BY DEF Words

LEMMA SizesTyped ==
    /\ TableSize \in Nat /\ MaxBuild \in Nat /\ InObjects \subseteq Nat
    /\ WordBits \in Nat \ {0} /\ MaxBitvecs \in Nat \ {0}
    /\ TableLen \in Nat
BY SizeAssumption DEF TableLen

LEMMA PropertyTyped ==
    ASSUME NEW n \in Words, NEW v \in Words
    PROVE  Property(n, v) \in Prop
<1>1. (v[1] = "double") \in BOOLEAN
  OBVIOUS
<1> QED
  BY <1>1 DEF Property, Prop

LEMMA PropIs ==
    \A p \in Prop : p.name \in Words /\ p.val \in Words /\ p.double \in BOOLEAN
BY DEF Prop

LEMMA DescIs ==
    \A d \in Desc : d.key \in Words /\ d.field \in BOOLEAN /\ d.index \in Words
BY DEF Desc

(* A key's value is in the table too.                                      *)
LEMMA KeysInTable ==
    ASSUME NEW k \in Keys
    PROVE  /\ k \in 2..(TableLen - 2) /\ k \in Nat /\ k + 1 \in 1..TableLen /\ k \in 1..TableLen
           /\ k + 2 \in 1..TableLen
<1>1. PICK e \in 0..(TableSize - 1) : k = 2 + 3 * e
  BY DEF Keys
<1>2. e \in Int /\ 0 <= e /\ e <= TableSize - 1 /\ TableSize \in Nat
  BY SizesTyped
<1> QED
  BY <1>1, <1>2 DEF TableLen

LEMMA TableTyped ==
    ASSUME NEW props \in Seq(Prop)
    PROVE  Table(props) \in Seq(Words) /\ Len(Table(props)) = TableLen
<1> DEFINE At(w) == LET e == (w - 2) \div 3 + 1
                    IN IF w = 1 THEN Internal
                       ELSE IF e \notin 1..Len(props) THEN Undefined
                       ELSE CASE (w - 2) % 3 = 0 -> props[e].name
                              [] (w - 2) % 3 = 1 -> props[e].val
                              [] OTHER -> Smi(0)
<1>1. Table(props) = [w \in 1..TableLen |-> At(w)]
  BY DEF Table, TableLen
<1>2. ASSUME NEW w \in 1..TableLen
      PROVE  At(w) \in Words
  <2> DEFINE e == (w - 2) \div 3 + 1
  <2>1. e \in 1..Len(props) => props[e].name \in Words /\ props[e].val \in Words
    <3> HIDE DEF e
    <3>1. e \in 1..Len(props) => props[e] \in Prop
      OBVIOUS
    <3> QED
      BY <3>1, PropIs
  <2>2. Undefined \in Words /\ Internal \in Words /\ Smi(0) \in Words
    BY WordsTyped
  <2> DEFINE r == (w - 2) % 3
  <2>3. At(w) = IF w = 1 THEN Internal
                ELSE IF e \notin 1..Len(props) THEN Undefined
                ELSE CASE r = 0 -> props[e].name [] r = 1 -> props[e].val [] OTHER -> Smi(0)
    OBVIOUS
  <2> HIDE DEF e, r, At
  <2> QED
    BY <2>1, <2>2, <2>3
<1> HIDE DEF At
<1>3. Table(props) \in [1..TableLen -> Words]
  BY <1>1, <1>2
<1> QED
  BY <1>3, SizesTyped

LEMMA WithoutTyped ==
    ASSUME NEW props \in Seq(Prop), NEW j \in 1..Len(props)
    PROVE  Without(props, j) \in Seq(Prop) /\ Len(Without(props, j)) = Len(props) - 1
<1>1. Len(props) \in Nat /\ Len(props) - 1 \in Nat
  OBVIOUS
<1>2. Without(props, j) \in [1..(Len(props) - 1) -> Prop]
  BY <1>1 DEF Without
<1> QED
  BY <1>1, <1>2

LEMMA RotWordsTyped ==
    ASSUME NEW words \in Seq(Words), NEW n
    PROVE  RotWords(words, n) \in Seq(Words) /\ Len(RotWords(words, n)) = Len(words)
<1>1. Len(words) \in Nat /\ Garbage \in Words
  BY WordsTyped
<1>2. RotWords(words, n) \in [1..Len(words) -> Words]
  BY <1>1 DEF RotWords
<1> QED
  BY <1>1, <1>2

LEMMA RotInTyped ==
    ASSUME NEW props \in Seq(Prop), NEW n
    PROVE  RotIn(props, n) \in Seq(Prop) /\ Len(RotIn(props, n)) = Len(props)
<1>1. Len(props) \in Nat
  OBVIOUS
<1>2. ASSUME NEW k \in 1..Len(props)
      PROVE  (IF props[k].val = Value(n) THEN Property(props[k].name, Garbage) ELSE props[k])
                \in Prop
  <2>0. props[k] \in Prop
    OBVIOUS
  <2>1. props[k].name \in Words /\ Garbage \in Words
    BY <2>0, WordsTyped, PropIs
  <2>2. Property(props[k].name, Garbage) \in Prop
    BY <2>1, PropertyTyped
  <2> QED
    BY <2>0, <2>2
<1>3. RotIn(props, n) \in [1..Len(props) -> Prop]
  BY <1>2 DEF RotIn
<1> QED
  BY <1>1, <1>3

LEMMA BoxedTyped ==
    ASSUME NEW n \in Nat, NEW p \in Prop, p.double => p.val = Double(n)
    PROVE  Boxed(p) \in Prop
<1>1. p.name \in Words /\ Value(n) \in Words /\ Double(n)[2] = n
  BY WordsTyped DEF Prop, Double
<1>2. Property(p.name, Value(n)) \in Prop
  BY <1>1, PropertyTyped
<1> QED
  BY <1>1, <1>2 DEF Boxed

LEMMA TypedInit == Init => HeapTyped
<1> SUFFICES ASSUME Init PROVE HeapTyped
  OBVIOUS
<1>1. ver \in Versions /\ nin \in Nat /\ made \in 0..MaxBuild
  BY SizesTyped DEF Init
<1>2. PICK kind \in {"fast", "other"} :
         obj = [NoObject EXCEPT !.slots = [k \in 1..nin |-> Undefined], !.kind = kind]
  BY DEF Init
<1> DEFINE slots == [k \in 1..nin |-> Undefined]
<1>3. slots \in Seq(Words) /\ Len(slots) = nin
  BY <1>1, WordsTyped
<1> HIDE DEF slots
<1>4. obj = [descs |-> <<>>, slots |-> slots, props |-> <<>>, slow |-> FALSE, cut |-> 0,
             kind |-> kind, elts |-> <<>>]
  BY <1>2 DEF NoObject, slots
<1>5. obj \in Object
  BY <1>3, <1>4 DEF Object, Kinds
<1>6. Len(obj.slots) = nin /\ ~obj.slow /\ obj.kind # "dictionary"
  BY <1>3, <1>4
<1>7. own \in Seq(Prop) /\ elements \in Seq(Prop)
  BY DEF Init
<1> QED
  BY <1>1, <1>5, <1>6, <1>7 DEF HeapTyped

(* What V8 does to the memory keeps its types.  A property that is a       *)
(* double has a value to box.                                              *)
DoublesKept == \A j \in 1..Len(own) : own[j].double => \E n \in Nat : own[j].val = Double(n)

\* a change of named properties leaves the numbered ones, and the reverse
NumbersStay == obj'.kind = obj.kind /\ obj'.elts = obj.elts /\ elements' = elements
NamesStay ==
    /\ obj'.descs = obj.descs /\ obj'.slots = obj.slots /\ obj'.props = obj.props
    /\ obj'.slow = obj.slow /\ own' = own

ObjectKept ==
    /\ obj' \in Object /\ own' \in Seq(Prop) /\ elements' \in Seq(Prop)
    /\ Len(obj'.slots) = nin
    /\ obj'.slow => Len(obj'.props) = TableLen
    /\ obj'.kind = "dictionary" => Len(obj'.elts) = TableLen

HeapParts ==
    /\ obj.descs \in Seq(Desc) /\ obj.slots \in Seq(Words) /\ obj.props \in Seq(Words)
    /\ obj.elts \in Seq(Words) /\ obj.kind \in Kinds /\ obj.slow \in BOOLEAN /\ obj.cut \in Nat
    /\ Len(obj.descs) \in Nat /\ Len(obj.props) \in Nat /\ Len(obj.elts) \in Nat
    /\ own \in Seq(Prop) /\ elements \in Seq(Prop) /\ Len(own) \in Nat /\ Len(elements) \in Nat
    /\ nin \in Nat /\ made \in Nat /\ Len(obj.slots) = nin

LEMMA PartsTyped ==
    ASSUME HeapTyped
    PROVE  HeapParts /\ obj \in Object
<1>1. /\ obj.descs \in Seq(Desc) /\ obj.slots \in Seq(Words) /\ obj.props \in Seq(Words)
      /\ obj.elts \in Seq(Words) /\ obj.kind \in Kinds /\ obj.slow \in BOOLEAN /\ obj.cut \in Nat
  BY DEF HeapTyped, Object
<1>2. own \in Seq(Prop) /\ elements \in Seq(Prop) /\ nin \in Nat /\ made \in Nat
      /\ Len(obj.slots) = nin /\ obj \in Object
  BY SizesTyped DEF HeapTyped
<1> QED
  BY <1>1, <1>2 DEF HeapParts

LEMMA TypedAddField ==
    ASSUME HeapTyped, AddField
    PROVE  /\ ObjectKept /\ NumbersStay /\ ~obj.slow /\ ~obj'.slow
           /\ \E v \in {Value(made), Double(made)} :
                 /\ v = Double(made) => ver.layout /\ Len(own) < nin
                 /\ own' = Append(own, Property(Name(made), v))
                 /\ obj'.descs = Append(obj.descs,
                        Field(Name(made), Smi(Len(own))))
                 /\ obj'.slots = IF Len(own) < nin THEN [obj.slots EXCEPT ![Len(own) + 1] = v]
                                 ELSE obj.slots
                 /\ obj'.props = IF Len(own) < nin THEN obj.props ELSE Append(obj.props, v)
<1>1. PICK unboxed \in {FALSE, ver.layout /\ Len(own) < nin} :
         LET k == Len(own)
             v == IF unboxed THEN Double(made) ELSE Value(made)
         IN /\ own' = Append(own, Property(Name(made), v))
            /\ obj' = [obj EXCEPT
                  !.descs = Append(@, Field(Name(made), Smi(k))),
                  !.slots = IF k < nin THEN [@ EXCEPT ![k + 1] = v] ELSE @,
                  !.props = IF k < nin THEN @ ELSE Append(@, v)]
  BY DEF AddField
<1> DEFINE k == Len(own)
           v == IF unboxed THEN Double(made) ELSE Value(made)
           p == Property(Name(made), v)
           d == Field(Name(made), Smi(k))
           descs == Append(obj.descs, d)
           slots == IF k < nin THEN [obj.slots EXCEPT ![k + 1] = v] ELSE obj.slots
           props == IF k < nin THEN obj.props ELSE Append(obj.props, v)
<1>2. /\ own' = Append(own, p)
      /\ obj' = [obj EXCEPT !.descs = descs, !.slots = slots, !.props = props]
  BY <1>1
<1>3. made \in Nat /\ k \in Nat /\ Name(made) \in Words /\ Smi(k) \in Words /\ v \in Words
  BY WordsTyped DEF HeapTyped
<1>4. p \in Prop /\ d \in Desc
  BY <1>3, PropertyTyped DEF Desc, Field
<1>41. (v = Double(made) => ver.layout /\ Len(own) < nin) /\ v \in {Value(made), Double(made)}
  <2>1. Value(made) # Double(made)
    <3>1. Value(made)[1] # Double(made)[1]
      BY DEF Value, Double
    <3> QED
      BY <3>1
  <2> QED
    BY <2>1
<1> HIDE DEF p, d, v
<1>5. obj.descs \in Seq(Desc) /\ obj.slots \in Seq(Words) /\ obj.props \in Seq(Words) /\ obj \in Object
  BY PartsTyped DEF HeapParts
<1>6. descs \in Seq(Desc) /\ slots \in Seq(Words) /\ props \in Seq(Words) /\ Len(slots) = Len(obj.slots)
  <2>1. descs \in Seq(Desc)
    BY <1>4, <1>5
  <2>2. slots \in Seq(Words) /\ Len(slots) = Len(obj.slots)
    <3> DEFINE m == Len(obj.slots)
    <3>1. obj.slots \in [1..m -> Words] /\ m \in Nat
      BY <1>5
    <3> DEFINE changed == [obj.slots EXCEPT ![k + 1] = v]
    <3>2. changed \in [1..m -> Words]
      BY <3>1, <1>3
    <3> HIDE DEF m
    <3>3. changed \in Seq(Words) /\ Len(changed) = m
      BY <3>1, <3>2
    <3> HIDE DEF changed
    <3> QED
      BY <1>5, <3>3 DEF m, changed
  <2>3. props \in Seq(Words)
    BY <1>3, <1>5
  <2> QED
    BY <2>1, <2>2, <2>3
<1> HIDE DEF k, descs, slots, props
<1>7. obj' \in Object
  BY <1>2, <1>5, <1>6 DEF Object
<1>8. /\ obj'.slots = slots /\ obj'.descs = descs /\ obj'.props = props
      /\ obj'.slow = obj.slow /\ obj'.kind = obj.kind /\ obj'.elts = obj.elts
  BY <1>2, <1>5 DEF Object
<1>9. own' \in Seq(Prop) /\ elements' = elements /\ ~obj.slow
  BY <1>2, <1>4 DEF HeapTyped, AddField
<1>10. ObjectKept /\ NumbersStay
  BY <1>6, <1>7, <1>8, <1>9 DEF HeapTyped, ObjectKept, NumbersStay
<1> QED
  BY <1>2, <1>41, <1>8, <1>9, <1>10 DEF k, descs, slots, props, p, d

LEMMA TypedGoSlow ==
    ASSUME HeapTyped, DoublesKept, GoSlow
    PROVE  /\ ObjectKept /\ NumbersStay /\ ~obj.slow /\ Len(own) <= TableSize
           /\ own' = [k \in 1..Len(own) |-> Boxed(own[k])]
           /\ obj'.slow /\ obj'.props = Table(own') /\ obj'.descs = <<>>
           /\ obj'.slots = [k \in 1..nin |-> Undefined]
<1>1. ASSUME NEW k \in 1..Len(own)
      PROVE  Boxed(own[k]) \in Prop
  <2>1. own[k] \in Prop
    BY DEF HeapTyped
  <2>2. CASE own[k].double
    <3>1. PICK n \in Nat : own[k].val = Double(n)
      BY <2>2 DEF DoublesKept
    <3> QED
      BY <2>1, <3>1, BoxedTyped
  <2>3. CASE ~own[k].double
    BY <2>1, <2>3 DEF Boxed
  <2> QED
    BY <2>2, <2>3
<1>2. Len(own) \in Nat /\ nin \in Nat /\ obj \in Object
  BY DEF HeapTyped
<1>3. own' = [k \in 1..Len(own) |-> Boxed(own[k])]
  BY DEF GoSlow
<1>4. own' \in Seq(Prop)
  BY <1>1, <1>2, <1>3
<1> DEFINE props == Table(own')
           slots == [k \in 1..nin |-> Undefined]
           none == <<>>
<1>0. none \in Seq(Desc)
  OBVIOUS
<1>5. props \in Seq(Words) /\ Len(props) = TableLen
  BY <1>4, TableTyped
<1>6. slots \in Seq(Words) /\ Len(slots) = nin
  BY <1>2, WordsTyped
<1>7. obj' = [obj EXCEPT !.slow = TRUE, !.descs = none, !.props = props, !.slots = slots]
  BY DEF GoSlow
<1> HIDE DEF props, slots, none
<1>8. obj' \in Object
  BY <1>0, <1>2, <1>5, <1>6, <1>7 DEF Object
<1>9. /\ obj'.slots = slots /\ obj'.props = props /\ obj'.kind = obj.kind /\ obj'.elts = obj.elts
      /\ obj'.slow /\ obj'.descs = none
  BY <1>2, <1>7 DEF Object
<1>10. elements' = elements /\ elements \in Seq(Prop) /\ ~obj.slow /\ Len(own) <= TableSize
  BY DEF GoSlow, HeapTyped
<1>11. ObjectKept /\ NumbersStay
  BY <1>4, <1>5, <1>6, <1>8, <1>9, <1>10 DEF HeapTyped, ObjectKept, NumbersStay
<1> QED
  BY <1>3, <1>11, <1>4, <1>5, <1>6, <1>8, <1>9, <1>10 DEF slots, props, none

LEMMA PutTyped ==
    ASSUME NEW table \in Seq(Words), Len(table) = TableLen, NEW k \in Keys, NEW p \in Prop
    PROVE  /\ Put(table, k, p) \in Seq(Words) /\ Len(Put(table, k, p)) = TableLen
           /\ Put(table, k, p)[k] = p.name /\ Put(table, k, p)[k + 1] = p.val
           /\ \A l \in 1..TableLen : l # k /\ l # k + 1 => Put(table, k, p)[l] = table[l]
<1>1. p.name \in Words /\ p.val \in Words
  BY PropIs
<1>2. table \in [1..TableLen -> Words] /\ TableLen \in Nat
  BY SizesTyped
<1>3. k \in 1..TableLen /\ k + 1 \in 1..TableLen /\ k # k + 1
  BY KeysInTable
<1> DEFINE t == Put(table, k, p)
<1>4. t = [table EXCEPT ![k] = p.name, ![k + 1] = p.val]
  BY DEF Put
<1>5. t \in [1..TableLen -> Words]
  BY <1>1, <1>2, <1>3, <1>4
<1>6. /\ t[k] = p.name /\ t[k + 1] = p.val
      /\ \A l \in 1..TableLen : l # k /\ l # k + 1 => t[l] = table[l]
  BY <1>2, <1>3, <1>4
<1> HIDE DEF t
<1>7. t \in Seq(Words) /\ Len(t) = TableLen
  BY <1>2, <1>5
<1> QED
  BY <1>6, <1>7 DEF t

LEMMA HoleTyped ==
    ASSUME NEW table \in Seq(Words), NEW k, NEW word \in Words
    PROVE  [table EXCEPT ![k] = word] \in Seq(Words) /\ Len([table EXCEPT ![k] = word]) = Len(table)
<1> DEFINE m == Len(table)
           t == [table EXCEPT ![k] = word]
<1>1. table \in [1..m -> Words] /\ m \in Nat
  OBVIOUS
<1>2. t \in [1..m -> Words]
  BY <1>1
<1> HIDE DEF m, t
<1>3. t \in Seq(Words) /\ Len(t) = m
  BY <1>1, <1>2
<1> QED
  BY <1>3 DEF t, m

LEMMA TypedAddOther ==
    ASSUME HeapTyped, AddOther
    PROVE  /\ ObjectKept /\ NumbersStay /\ ~obj.slow /\ ~obj'.slow /\ own' = own
           /\ obj'.descs = Append(obj.descs,
                  [key |-> Name(made), field |-> FALSE, index |-> Internal])
           /\ obj'.slots = obj.slots /\ obj'.props = obj.props
<1> DEFINE d == [key |-> Name(made), field |-> FALSE, index |-> Internal]
           descs == Append(obj.descs, d)
<1>1. obj' = [obj EXCEPT !.descs = descs] /\ UNCHANGED <<own, elements>> /\ ~obj.slow
  BY DEF AddOther
<1>2. d \in Desc
  BY WordsTyped, PartsTyped DEF HeapParts, Desc
<1> HIDE DEF d
<1>3. descs \in Seq(Desc)
  BY <1>2, PartsTyped DEF HeapParts
<1> HIDE DEF descs
<1>4. /\ obj' \in Object /\ obj'.slots = obj.slots /\ obj'.props = obj.props
      /\ obj'.slow = obj.slow /\ obj'.descs = descs
      /\ obj'.kind = obj.kind /\ obj'.elts = obj.elts
  BY <1>1, <1>3, PartsTyped DEF Object
<1>5. ObjectKept /\ NumbersStay
  BY <1>1, <1>4 DEF HeapTyped, ObjectKept, NumbersStay
<1> QED
  BY <1>1, <1>4, <1>5 DEF descs, d

LEMMA TypedDeleteField ==
    ASSUME HeapTyped, DeleteField
    PROVE  /\ ObjectKept /\ NumbersStay /\ ~obj.slow /\ ~obj'.slow /\ obj.props # <<>>
           /\ own' = SubSeq(own, 1, Len(own) - 1)
           /\ obj'.props = SubSeq(obj.props, 1, Len(obj.props) - 1)
           /\ obj'.slots = obj.slots /\ obj'.descs = obj.descs
<1> DEFINE props == SubSeq(obj.props, 1, Len(obj.props) - 1)
<1>1. /\ obj' = [obj EXCEPT !.props = props] /\ ~obj.slow /\ obj.props # <<>>
      /\ own' = SubSeq(own, 1, Len(own) - 1) /\ elements' = elements
  BY DEF DeleteField
<1>2. props \in Seq(Words) /\ own' \in Seq(Prop)
  BY <1>1, PartsTyped DEF HeapParts
<1> HIDE DEF props
<1>4. /\ obj' \in Object /\ obj'.slots = obj.slots /\ obj'.props = props
      /\ obj'.slow = obj.slow /\ obj'.descs = obj.descs
      /\ obj'.kind = obj.kind /\ obj'.elts = obj.elts
  BY <1>1, <1>2, PartsTyped DEF Object
<1>5. ObjectKept /\ NumbersStay
  BY <1>1, <1>2, <1>4 DEF HeapTyped, ObjectKept, NumbersStay
<1> QED
  BY <1>1, <1>4, <1>5 DEF props

LEMMA TypedAddSlow ==
    ASSUME HeapTyped, AddSlow
    PROVE  /\ ObjectKept /\ NumbersStay /\ obj.slow /\ obj'.slow
           /\ obj'.slots = obj.slots /\ obj'.descs = obj.descs
           /\ \E k \in Free(obj.props) :
                 LET p == Property(Name(made), Value(made))
                 IN own' = Append(own, p) /\ obj'.props = Put(obj.props, k, p)
<1> DEFINE p == Property(Name(made), Value(made))
<1>1. PICK k \in Free(obj.props) :
         own' = Append(own, p) /\ obj' = [obj EXCEPT !.props = Put(@, k, p)]
  BY DEF AddSlow
<1>2. p \in Prop
  BY PartsTyped, WordsTyped, PropertyTyped DEF HeapParts
<1> HIDE DEF p
<1> DEFINE props == Put(obj.props, k, p)
<1>3. k \in Keys /\ obj.slow /\ elements' = elements
  BY DEF Free, AddSlow
<1>4. Len(obj.props) = TableLen /\ obj.props \in Seq(Words)
  BY <1>3, PartsTyped DEF HeapParts, HeapTyped
<1>5. props \in Seq(Words) /\ Len(props) = TableLen
  BY <1>2, <1>3, <1>4, PutTyped
<1>6. obj' = [obj EXCEPT !.props = props]
  BY <1>1
<1> HIDE DEF props
<1>7. /\ obj' \in Object /\ obj'.slots = obj.slots /\ obj'.props = props
      /\ obj'.slow = obj.slow /\ obj'.descs = obj.descs
      /\ obj'.kind = obj.kind /\ obj'.elts = obj.elts
  BY <1>6, <1>5, PartsTyped DEF Object
<1>8. own' \in Seq(Prop)
  BY <1>1, <1>2, PartsTyped DEF HeapParts
<1>9. ObjectKept /\ NumbersStay
  BY <1>3, <1>5, <1>7, <1>8 DEF HeapTyped, ObjectKept, NumbersStay
<1> QED
  BY <1>1, <1>3, <1>7, <1>9 DEF props, p

LEMMA TypedDeleteSlow ==
    ASSUME HeapTyped, DeleteSlow
    PROVE  /\ ObjectKept /\ NumbersStay /\ obj.slow /\ obj'.slow
           /\ obj'.slots = obj.slots /\ obj'.descs = obj.descs
           /\ \E k \in Keys \ Free(obj.props), j \in 1..Len(own) :
                 /\ own[j].name = obj.props[k]
                 /\ own' = Without(own, j)
                 /\ obj'.props = [obj.props EXCEPT ![k] = Hole]
<1>1. PICK k \in Keys \ Free(obj.props), j \in 1..Len(own) :
         /\ own[j].name = obj.props[k]
         /\ own' = Without(own, j)
         /\ obj' = [obj EXCEPT !.props = [@ EXCEPT ![k] = Hole]]
  BY DEF DeleteSlow
<1> DEFINE props == [obj.props EXCEPT ![k] = Hole]
<1>2. obj.slow /\ elements' = elements /\ Hole \in Words
  BY WordsTyped DEF DeleteSlow
<1>3. Len(obj.props) = TableLen /\ obj.props \in Seq(Words)
  BY <1>2, PartsTyped DEF HeapParts, HeapTyped
<1>4. props \in Seq(Words) /\ Len(props) = TableLen
  BY <1>2, <1>3, HoleTyped
<1>5. own' \in Seq(Prop)
  BY <1>1, PartsTyped, WithoutTyped DEF HeapParts
<1>6. obj' = [obj EXCEPT !.props = props]
  BY <1>1
<1> HIDE DEF props
<1>7. /\ obj' \in Object /\ obj'.slots = obj.slots /\ obj'.props = props
      /\ obj'.slow = obj.slow /\ obj'.descs = obj.descs
      /\ obj'.kind = obj.kind /\ obj'.elts = obj.elts
  BY <1>4, <1>6, PartsTyped DEF Object
<1>8. ObjectKept /\ NumbersStay
  BY <1>2, <1>4, <1>5, <1>7 DEF HeapTyped, ObjectKept, NumbersStay
<1> QED
  BY <1>1, <1>2, <1>7, <1>8 DEF props

LEMMA TypedAddElement ==
    ASSUME HeapTyped, AddElement
    PROVE  /\ ObjectKept /\ NamesStay /\ obj'.kind = obj.kind
           /\ \/ /\ obj.kind # "dictionary"
                 /\ elements' = Append(elements, Property(Smi(Len(obj.elts)), Value(made)))
                 /\ obj'.elts = Append(obj.elts, Value(made))
              \/ /\ obj.kind = "dictionary"
                 /\ \E k \in Free(obj.elts) :
                       LET q == Property(Smi(MaxBuild + made), Value(made))
                       IN elements' = Append(elements, q) /\ obj'.elts = Put(obj.elts, k, q)
<1> DEFINE p == Property(Smi(Len(obj.elts)), Value(made))
           q == Property(Smi(MaxBuild + made), Value(made))
<1>1. /\ Smi(Len(obj.elts)) \in Words /\ Smi(MaxBuild + made) \in Words /\ Value(made) \in Words
  BY PartsTyped, SizesTyped, WordsTyped DEF HeapParts
<1>2. p \in Prop /\ q \in Prop /\ p.val = Value(made)
  BY <1>1, PropertyTyped DEF Property
<1>3. own' = own
  BY DEF AddElement
<1>4. CASE obj.kind # "dictionary"
  <2> DEFINE elts == Append(obj.elts, Value(made))
  <2>1. elements' = Append(elements, p) /\ obj' = [obj EXCEPT !.elts = elts]
    BY <1>2, <1>4 DEF AddElement
  <2>2. elts \in Seq(Words)
    BY <1>1, PartsTyped DEF HeapParts
  <2> HIDE DEF elts, p
  <2>3. elements' \in Seq(Prop)
    BY <1>2, <2>1, PartsTyped DEF HeapParts
  <2>4. /\ obj' \in Object /\ obj'.slots = obj.slots /\ obj'.props = obj.props
        /\ obj'.slow = obj.slow /\ obj'.descs = obj.descs
        /\ obj'.kind = obj.kind /\ obj'.elts = elts
    BY <2>1, <2>2, PartsTyped DEF Object
  <2>5. ObjectKept /\ NamesStay
    BY <1>3, <1>4, <2>3, <2>4 DEF HeapTyped, ObjectKept, NamesStay
  <2> QED
    BY <1>4, <2>1, <2>4, <2>5 DEF p, elts
<1>5. CASE obj.kind = "dictionary"
  <2>1. PICK k \in Free(obj.elts) :
           elements' = Append(elements, q) /\ obj' = [obj EXCEPT !.elts = Put(@, k, q)]
    BY <1>5 DEF AddElement
  <2> DEFINE elts == Put(obj.elts, k, q)
  <2> HIDE DEF q
  <2>2. k \in Keys /\ Len(obj.elts) = TableLen /\ obj.elts \in Seq(Words)
    BY <1>5, PartsTyped DEF HeapParts, HeapTyped, Free
  <2>3. elts \in Seq(Words) /\ Len(elts) = TableLen
    BY <1>2, <2>2, PutTyped
  <2>4. obj' = [obj EXCEPT !.elts = elts]
    BY <2>1
  <2> HIDE DEF elts
  <2>5. elements' \in Seq(Prop)
    BY <1>2, <2>1, PartsTyped DEF HeapParts
  <2>6. /\ obj' \in Object /\ obj'.slots = obj.slots /\ obj'.props = obj.props
        /\ obj'.slow = obj.slow /\ obj'.descs = obj.descs
        /\ obj'.kind = obj.kind /\ obj'.elts = elts
    BY <2>3, <2>4, PartsTyped DEF Object
  <2>7. ObjectKept /\ NamesStay
    BY <1>3, <2>3, <2>5, <2>6 DEF HeapTyped, ObjectKept, NamesStay
  <2> QED
    BY <1>5, <2>1, <2>6, <2>7 DEF q, elts
<1> QED
  BY <1>4, <1>5

LEMMA TypedDeleteElement ==
    ASSUME HeapTyped, DeleteElement
    PROVE  /\ ObjectKept /\ NamesStay /\ obj'.kind = "holey" /\ obj.kind \in {"fast", "holey"}
           /\ \E j \in 1..Len(elements), k \in 1..Len(obj.elts) :
                 /\ elements[j].name = Smi(k - 1)
                 /\ elements' = Without(elements, j)
                 /\ obj'.elts = [obj.elts EXCEPT ![k] = Hole]
<1>1. PICK j \in 1..Len(elements), k \in 1..Len(obj.elts) :
         /\ elements[j].name = Smi(k - 1)
         /\ elements' = Without(elements, j)
         /\ obj' = [obj EXCEPT !.elts = [@ EXCEPT ![k] = Hole], !.kind = "holey"]
  BY DEF DeleteElement
<1> DEFINE elts == [obj.elts EXCEPT ![k] = Hole]
           kind == "holey"
<1>2. own' = own /\ Hole \in Words /\ obj.kind \in {"fast", "holey"}
  BY WordsTyped DEF DeleteElement
<1>3. elts \in Seq(Words) /\ kind \in Kinds
  BY <1>2, PartsTyped, HoleTyped DEF HeapParts, Kinds
<1>4. elements' \in Seq(Prop)
  BY <1>1, PartsTyped, WithoutTyped DEF HeapParts
<1>5. obj' = [obj EXCEPT !.elts = elts, !.kind = kind]
  BY <1>1
<1> HIDE DEF elts, kind
<1>6. /\ obj' \in Object /\ obj'.slots = obj.slots /\ obj'.props = obj.props
      /\ obj'.slow = obj.slow /\ obj'.descs = obj.descs
      /\ obj'.kind = kind /\ obj'.elts = elts
  BY <1>3, <1>5, PartsTyped DEF Object
<1>7. kind # "dictionary"
  BY DEF kind
<1>8. ObjectKept /\ NamesStay
  BY <1>2, <1>4, <1>6, <1>7 DEF HeapTyped, ObjectKept, NamesStay
<1> QED
  BY <1>1, <1>2, <1>6, <1>8 DEF elts, kind

LEMMA TypedSlowElements ==
    ASSUME HeapTyped, SlowElements
    PROVE  /\ ObjectKept /\ NamesStay /\ obj'.kind = "dictionary" /\ obj.kind # "dictionary"
           /\ obj'.elts = Table(elements) /\ elements' = elements /\ Len(elements) <= TableSize
<1> DEFINE elts == Table(elements)
           kind == "dictionary"
<1>1. /\ obj' = [obj EXCEPT !.elts = elts, !.kind = kind] /\ own' = own /\ elements' = elements
      /\ obj.kind # "dictionary" /\ Len(elements) <= TableSize
  BY DEF SlowElements
<1>2. elts \in Seq(Words) /\ Len(elts) = TableLen /\ kind \in Kinds
  BY PartsTyped, TableTyped DEF HeapParts, Kinds
<1> HIDE DEF elts, kind
<1>3. /\ obj' \in Object /\ obj'.slots = obj.slots /\ obj'.props = obj.props
      /\ obj'.slow = obj.slow /\ obj'.descs = obj.descs
      /\ obj'.kind = kind /\ obj'.elts = elts
  BY <1>1, <1>2, PartsTyped DEF Object
<1>4. ObjectKept /\ NamesStay
  BY <1>1, <1>2, <1>3 DEF HeapTyped, ObjectKept, NamesStay
<1> QED
  BY <1>1, <1>3, <1>4 DEF elts, kind

LEMMA TypedRotValue ==
    ASSUME HeapTyped, RotValue
    PROVE  /\ ObjectKept /\ obj'.descs = obj.descs /\ obj'.slow = obj.slow /\ obj'.kind = obj.kind
           /\ \E n \in Nat :
                 /\ own' = RotIn(own, n) /\ elements' = RotIn(elements, n)
                 /\ obj'.slots = RotWords(obj.slots, n) /\ obj'.props = RotWords(obj.props, n)
                 /\ obj'.elts = RotWords(obj.elts, n)
<1>1. PICK n \in 0..(MaxBuild - 1) :
         /\ own' = RotIn(own, n) /\ elements' = RotIn(elements, n)
         /\ obj' = [obj EXCEPT !.slots = RotWords(@, n), !.props = RotWords(@, n),
                               !.elts = RotWords(@, n)]
  BY DEF RotValue
<1> DEFINE slots == RotWords(obj.slots, n)
           props == RotWords(obj.props, n)
           elts == RotWords(obj.elts, n)
<1>2. /\ slots \in Seq(Words) /\ Len(slots) = Len(obj.slots)
      /\ props \in Seq(Words) /\ Len(props) = Len(obj.props)
      /\ elts \in Seq(Words) /\ Len(elts) = Len(obj.elts)
  BY PartsTyped, RotWordsTyped DEF HeapParts
<1>3. own' \in Seq(Prop) /\ elements' \in Seq(Prop)
  BY <1>1, PartsTyped, RotInTyped DEF HeapParts
<1>4. obj' = [obj EXCEPT !.slots = slots, !.props = props, !.elts = elts]
  BY <1>1
<1> HIDE DEF slots, props, elts
<1>5. /\ obj' \in Object /\ obj'.slots = slots /\ obj'.props = props
      /\ obj'.slow = obj.slow /\ obj'.descs = obj.descs
      /\ obj'.kind = obj.kind /\ obj'.elts = elts
  BY <1>2, <1>4, PartsTyped DEF Object
<1>6. ObjectKept
  BY <1>2, <1>3, <1>5 DEF HeapTyped, ObjectKept
<1>7. n \in Nat
  BY SizesTyped
<1> QED
  BY <1>1, <1>5, <1>6, <1>7 DEF slots, props, elts

\* damage that leaves what the properties are
OwnStays == own' = own /\ elements' = elements

LEMMA TypedRotKey ==
    ASSUME HeapTyped, RotKey
    PROVE  /\ ObjectKept /\ NumbersStay /\ OwnStays
           /\ obj'.slots = obj.slots /\ obj'.props = obj.props /\ obj'.slow = obj.slow
           /\ \E k \in Fields(obj.descs), word \in {Undefined, Garbage} :
                 obj'.descs = [obj.descs EXCEPT ![k] = Field(word, obj.descs[k].index)]
<1>1. PICK k \in Fields(obj.descs), word \in {Undefined, Garbage} :
         obj' = [obj EXCEPT !.descs = [@ EXCEPT ![k] = Field(word, obj.descs[k].index)]]
  BY DEF RotKey
<1> DEFINE d == Field(word, obj.descs[k].index)
           descs == [obj.descs EXCEPT ![k] = d]
<1>2. k \in 1..Len(obj.descs) /\ obj.descs[k].field /\ obj.descs \in Seq(Desc)
  BY PartsTyped DEF Fields, HeapParts
<1>3. obj.descs[k] \in Desc /\ word \in Words
  BY <1>2, WordsTyped
<1>5. d \in Desc
  BY <1>3 DEF Desc, Field
<1>7. obj' = [obj EXCEPT !.descs = descs]
  BY <1>1
<1> HIDE DEF d
<1>8. descs \in Seq(Desc)
  <2> DEFINE m == Len(obj.descs)
  <2>1. obj.descs \in [1..m -> Desc] /\ m \in Nat
    BY <1>2
  <2>2. descs \in [1..m -> Desc]
    BY <1>5, <2>1
  <2> QED
    BY <2>1, <2>2
<1> HIDE DEF descs
<1>9. /\ obj' \in Object /\ obj'.slots = obj.slots /\ obj'.props = obj.props
      /\ obj'.slow = obj.slow /\ obj'.descs = descs
      /\ obj'.kind = obj.kind /\ obj'.elts = obj.elts
  BY <1>7, <1>8, PartsTyped DEF Object
<1>10. own' = own /\ elements' = elements
  BY DEF RotKey
<1>11. ObjectKept /\ NumbersStay /\ OwnStays
  BY <1>9, <1>10 DEF HeapTyped, ObjectKept, NumbersStay, OwnStays
<1> QED
  BY <1>9, <1>11 DEF descs, d

LEMMA TypedRotIndex ==
    ASSUME HeapTyped, RotIndex
    PROVE  /\ ObjectKept /\ NumbersStay /\ OwnStays
           /\ obj'.slots = obj.slots /\ obj'.props = obj.props /\ obj'.slow = obj.slow
           /\ \E k \in Fields(obj.descs), word \in {Far} \cup IF ver.indetails THEN {} ELSE {Garbage} :
                 obj'.descs = [obj.descs EXCEPT ![k] = Field(obj.descs[k].key, word)]
<1>1. PICK k \in Fields(obj.descs), word \in {Far} \cup IF ver.indetails THEN {} ELSE {Garbage} :
         obj' = [obj EXCEPT !.descs = [@ EXCEPT ![k] = Field(obj.descs[k].key, word)]]
  BY DEF RotIndex
<1> DEFINE d == Field(obj.descs[k].key, word)
           descs == [obj.descs EXCEPT ![k] = d]
<1>2. k \in 1..Len(obj.descs) /\ obj.descs[k].field /\ obj.descs \in Seq(Desc)
  BY PartsTyped DEF Fields, HeapParts
<1>3. obj.descs[k] \in Desc /\ word \in Words
  <2>1. MaxBuild + nin \in Nat
    BY PartsTyped, SizesTyped DEF HeapParts
  <2> QED
    BY <1>2, <2>1, WordsTyped DEF Far
<1>5. d \in Desc
  BY <1>3 DEF Desc, Field
<1>7. obj' = [obj EXCEPT !.descs = descs]
  BY <1>1
<1> HIDE DEF d
<1>8. descs \in Seq(Desc)
  <2> DEFINE m == Len(obj.descs)
  <2>1. obj.descs \in [1..m -> Desc] /\ m \in Nat
    BY <1>2
  <2>2. descs \in [1..m -> Desc]
    BY <1>5, <2>1
  <2> QED
    BY <2>1, <2>2
<1> HIDE DEF descs
<1>9. /\ obj' \in Object /\ obj'.slots = obj.slots /\ obj'.props = obj.props
      /\ obj'.slow = obj.slow /\ obj'.descs = descs
      /\ obj'.kind = obj.kind /\ obj'.elts = obj.elts
  BY <1>7, <1>8, PartsTyped DEF Object
<1>10. own' = own /\ elements' = elements
  BY DEF RotIndex
<1>11. ObjectKept /\ NumbersStay /\ OwnStays
  BY <1>9, <1>10 DEF HeapTyped, ObjectKept, NumbersStay, OwnStays
<1> QED
  BY <1>9, <1>11 DEF descs, d

LEMMA TypedRotTable ==
    ASSUME HeapTyped, RotTable
    PROVE  /\ ObjectKept /\ NumbersStay /\ OwnStays
           /\ obj'.slots = obj.slots /\ obj'.descs = obj.descs /\ obj.slow /\ obj'.slow
           /\ \E k \in Keys, word \in {Internal, Garbage} :
                 obj'.props = [obj.props EXCEPT ![k] = word]
<1>1. PICK k \in Keys, word \in {Internal, Garbage} :
         obj.slow /\ obj' = [obj EXCEPT !.props = [@ EXCEPT ![k] = word]]
  BY DEF RotTable
<1> DEFINE props == [obj.props EXCEPT ![k] = word]
<1>2. Len(obj.props) = TableLen /\ obj.props \in Seq(Words) /\ word \in Words
  BY <1>1, WordsTyped, PartsTyped DEF HeapParts, HeapTyped
<1>3. props \in Seq(Words) /\ Len(props) = TableLen
  BY <1>2, HoleTyped
<1>4. obj' = [obj EXCEPT !.props = props]
  BY <1>1
<1> HIDE DEF props
<1>5. /\ obj' \in Object /\ obj'.slots = obj.slots /\ obj'.props = props
      /\ obj'.slow = obj.slow /\ obj'.descs = obj.descs
      /\ obj'.kind = obj.kind /\ obj'.elts = obj.elts
  BY <1>3, <1>4, PartsTyped DEF Object
<1>6. own' = own /\ elements' = elements
  BY DEF RotTable
<1>7. ObjectKept /\ NumbersStay /\ OwnStays
  BY <1>3, <1>5, <1>6 DEF HeapTyped, ObjectKept, NumbersStay, OwnStays
<1> QED
  BY <1>1, <1>5, <1>7 DEF props

LEMMA TypedCutContent ==
    ASSUME HeapTyped, CutContent
    PROVE  /\ ObjectKept /\ NumbersStay /\ NamesStay
<1>1. PICK n \in 0..(2 * Len(obj.descs) - 1) : obj' = [obj EXCEPT !.cut = n]
  BY DEF CutContent
<1>2. n \in Nat
  BY PartsTyped DEF HeapParts
<1>3. /\ obj' \in Object /\ obj'.slots = obj.slots /\ obj'.props = obj.props
      /\ obj'.slow = obj.slow /\ obj'.descs = obj.descs
      /\ obj'.kind = obj.kind /\ obj'.elts = obj.elts
  BY <1>1, <1>2, PartsTyped DEF Object
<1>4. own' = own /\ elements' = elements
  BY DEF CutContent
<1> QED
  BY <1>3, <1>4 DEF HeapTyped, ObjectKept, NumbersStay, NamesStay

LEMMA TypedLost ==
    ASSUME HeapTyped, LosePart \/ NotAnArray
    PROVE  ObjectKept /\ NumbersStay /\ NamesStay
BY DEF LosePart, NotAnArray, HeapTyped, ObjectKept, NumbersStay, NamesStay

LEMMA TypedV8Step ==
    ASSUME HeapTyped, DoublesKept, V8Step
    PROVE  HeapTyped'
<1>1. ObjectKept
  BY TypedAddField, TypedAddOther, TypedDeleteField, TypedGoSlow, TypedAddSlow, TypedDeleteSlow,
     TypedAddElement, TypedDeleteElement, TypedSlowElements DEF V8Step
<1>2. made' \in 0..MaxBuild
  <2>1. Change
    BY DEF V8Step, AddField, AddOther, DeleteField, GoSlow, AddSlow, DeleteSlow, AddElement,
       DeleteElement, SlowElements
  <2> QED
    BY <2>1, SizesTyped DEF Change, HeapTyped
<1> QED
  BY <1>1, <1>2 DEF V8Step, ObjectKept, HeapTyped

LEMMA TypedDamageStep ==
    ASSUME HeapTyped, DamageStep
    PROVE  HeapTyped'
<1>1. ObjectKept
  BY TypedLost, TypedRotValue, TypedRotKey, TypedRotIndex, TypedRotTable, TypedCutContent
  DEF DamageStep
<1> QED
  BY <1>1 DEF DamageStep, ObjectKept, HeapTyped

\* the walk leaves the memory as it is
LEMMA WalkLeavesMemory ==
    ASSUME Walk \/ Start
    PROVE  UNCHANGED heapvars
BY DEF Walk, Start, Begin, Elements, ElementTable, Shape, PropertyTable, Descriptors, SecondPass

-----------------------------------------------------------------------------
(* Where the properties are in memory                                      *)

(* V8 names a property once, and what it is worth can be read back.        *)
NamesInv ==
    /\ \A j \in 1..Len(own) : \E m \in 0..(made - 1) : own[j].name = Name(m)
    /\ \A i, j \in 1..Len(own) : own[i].name = own[j].name => i = j

Fine(p) ==
    /\ p.double <=> p.val[1] = "double"
    /\ \/ \E n \in Nat : p.val \in {Value(n), Double(n)}
       \/ damage # "none" /\ p.val = Garbage

OwnFine == \A j \in 1..Len(own) : Fine(own[j])
NumbersFine == \A j \in 1..Len(elements) : Fine(elements[j]) /\ ~elements[j].double

(* Fields: the first are in the object, the others in the properties       *)
(* array, and only those in the object of a map with a layout descriptor   *)
(* are unboxed doubles.                                                    *)
Laid(props, words, slots, n) ==
    /\ Len(words) = IF Len(props) > n THEN Len(props) - n ELSE 0
    /\ \A j \in 1..Len(props) :
          /\ j <= n => slots[j] = props[j].val
          /\ j > n => words[j - n] = props[j].val
    /\ \A j \in 1..n : j > Len(props) => slots[j] = Undefined

LEMMA LaidFrom ==
    ASSUME NEW props, NEW words, NEW slots, NEW n \in Nat, NEW len \in Nat, Len(props) = len,
           Len(words) = IF len > n THEN len - n ELSE 0,
           \A j \in 1..len : /\ j <= n => slots[j] = props[j].val
                             /\ j > n => words[j - n] = props[j].val,
           \A j \in 1..n : j > len => slots[j] = Undefined
    PROVE  Laid(props, words, slots, n)
<1>1. Len(words) = IF Len(props) > n THEN Len(props) - n ELSE 0
  OBVIOUS
<1>2. \A j \in 1..Len(props) : /\ j <= n => slots[j] = props[j].val
                               /\ j > n => words[j - n] = props[j].val
  OBVIOUS
<1>3. \A j \in 1..n : j > Len(props) => slots[j] = Undefined
  OBVIOUS
<1> QED
  BY <1>1, <1>2, <1>3 DEF Laid

Unboxed(props, n, layout) == \A j \in 1..Len(props) : props[j].double => layout /\ j <= n

FieldsInv == ~obj.slow =>
    /\ Len(obj.descs) <= made
    /\ Laid(own, obj.props, obj.slots, nin)
    /\ Unboxed(own, nin, ver.layout)

Common == NamesInv /\ OwnFine /\ NumbersFine /\ FieldsInv

NFields == Cardinality(Fields(obj.descs))

(* The fields are numbered in their order; the last may have been deleted. *)
Ranked(descs, props, n) ==
    /\ Len(props) <= n
    /\ \A k \in Fields(descs) : \E r \in 0..(n - 1) :
          /\ descs[k].index = Smi(r)
          /\ descs[k].key[1] = "name"
          /\ r < Len(props) => descs[k].key = props[r + 1].name
    /\ \A r \in 0..(n - 1) : \E k \in Fields(descs) : descs[k].index = Smi(r)
    /\ \A k, l \in Fields(descs) : k < l => descs[k].index[2] < descs[l].index[2]

DescsInv == ~obj.slow => Ranked(obj.descs, own, NFields)

(* A dictionary has an entry for each property and for nothing else.       *)
Entries(table, props) ==
    /\ \A j \in 1..Len(props) : \E k \in Keys :
          ~Empty(table[k]) /\ table[k] = props[j].name /\ table[k + 1] = props[j].val
    /\ \A k \in Keys : ~Empty(table[k]) => \E j \in 1..Len(props) : table[k] = props[j].name
    /\ \A k, l \in Keys : ~Empty(table[k]) /\ table[k] = table[l] => k = l

TableInv == obj.slow =>
    /\ Entries(obj.props, own)
    /\ \A j \in 1..Len(own) : ~own[j].double

(* Numbered properties are in the order of their numbers.                  *)
NumbersInv ==
    /\ \A j \in 1..Len(elements) : \E r \in Nat :
          /\ elements[j].name = Smi(r)
          /\ r < IF obj.kind = "dictionary" THEN MaxBuild + made ELSE Len(obj.elts)
    /\ \A i, j \in 1..Len(elements) : i < j => elements[i].name[2] < elements[j].name[2]
    /\ obj.kind = "dictionary" => Entries(obj.elts, elements)
    /\ obj.kind # "dictionary" =>
          /\ Len(obj.elts) <= made
          /\ \A j \in 1..Len(elements), r \in Nat :
                elements[j].name = Smi(r) => obj.elts[r + 1] = elements[j].val
          /\ \A k \in 1..Len(obj.elts) : obj.elts[k] # Hole =>
                \E j \in 1..Len(elements) : elements[j].name = Smi(k - 1)
    /\ obj.kind \in {"fast", "other"} => \A k \in 1..Len(obj.elts) : obj.elts[k] # Hole

Full == DescsInv /\ TableInv /\ NumbersInv

(* Damage leaves each named property a place, though perhaps not with its  *)
(* key or its index.                                                       *)
Indexed == ~obj.slow =>
    /\ Len(own) <= Len(obj.descs)
    /\ \A k \in Fields(obj.descs) :
          obj.descs[k].index = Garbage \/ \E r \in Nat : obj.descs[k].index = Smi(r)

PlacesInv ==
    /\ Indexed
    /\ ~obj.slow => \A j \in 1..Len(own) : \E k \in Fields(obj.descs) :
          /\ obj.descs[k].key \in {own[j].name, Undefined, Garbage}
          /\ obj.descs[k].index \in {Smi(j - 1), Far, Garbage}
    /\ obj.slow => \A j \in 1..Len(own) : ~own[j].double /\ \E k \in Keys :
          \/ ~Empty(obj.props[k]) /\ obj.props[k] = own[j].name /\ obj.props[k + 1] = own[j].val
          \/ obj.props[k] \in {Internal, Garbage}

HeapInv ==
    /\ HeapTyped /\ Common
    /\ damage = "none" => Full
    /\ damage # "none" => PlacesInv

(* Words that differ in what they are are different words.                 *)
LEMMA WordKinds ==
    /\ Undefined[1] = "undefined" /\ Hole[1] = "hole" /\ Garbage[1] = "garbage"
    /\ Internal[1] = "internal" /\ NoValue[1] = "null"
    /\ \A n : Name(n)[1] = "name" /\ Name(n)[2] = n
    /\ \A n : Smi(n)[1] = "smi" /\ Smi(n)[2] = n
    /\ \A n : Value(n)[1] = "value" /\ Value(n)[2] = n
    /\ \A n : Double(n)[1] = "double" /\ Double(n)[2] = n
BY DEF Undefined, Hole, Garbage, Internal, NoValue, Name, Smi, Value, Double

LEMMA WordsDiffer ==
    /\ Empty(Undefined) /\ Empty(Hole) /\ ~Empty(Garbage) /\ ~Empty(Internal)
    /\ Undefined # Hole /\ Undefined # Garbage /\ Hole # Garbage /\ Internal # Garbage
    /\ \A n : /\ ~Empty(Name(n)) /\ ~Empty(Smi(n)) /\ ~Empty(Value(n)) /\ ~Empty(Double(n))
              /\ Name(n) \notin {Garbage, Internal} /\ Smi(n) \notin {Garbage, Internal}
              /\ Value(n) # Garbage /\ Double(n) # Garbage
    /\ \A m, n : Value(m) # Double(n) /\ Value(m) # Smi(n) /\ Value(m) # Name(n)
BY WordKinds DEF Empty

LEMMA NamesDiffer ==
    ASSUME NEW m, NEW n
    PROVE  (Name(m) = Name(n) => m = n) /\ (Smi(m) = Smi(n) => m = n)
<1>1. Name(m) = Name(n) => Name(m)[2] = Name(n)[2]
  OBVIOUS
<1>2. Smi(m) = Smi(n) => Smi(m)[2] = Smi(n)[2]
  OBVIOUS
<1> QED
  BY <1>1, <1>2, WordKinds

(* The properties that V8 makes.                                           *)
LEMMA NewProperty ==
    ASSUME NEW n \in Nat, NEW name, NEW v \in {Value(n), Double(n)}
    PROVE  /\ Property(name, v).name = name /\ Property(name, v).val = v
           /\ Property(name, v).double <=> v = Double(n)
           /\ Fine(Property(name, v))
<1>1. v[1] = "double" <=> v = Double(n)
  BY WordKinds, WordsDiffer
<1>2. /\ Property(name, v).name = name /\ Property(name, v).val = v
      /\ Property(name, v).double = (v[1] = "double")
  BY DEF Property
<1>3. Property(name, v).double <=> v[1] = "double"
  BY <1>2
<1> QED
  BY <1>1, <1>2, <1>3 DEF Fine

LEMMA HeapInit == Init => HeapInv
<1> SUFFICES ASSUME Init PROVE HeapInv
  OBVIOUS
<1>1. HeapTyped
  BY TypedInit
<1>2. PICK kind \in {"fast", "other"} :
         obj = [NoObject EXCEPT !.slots = [k \in 1..nin |-> Undefined], !.kind = kind]
  BY DEF Init
<1>3. /\ obj.descs = <<>> /\ obj.props = <<>> /\ obj.elts = <<>> /\ ~obj.slow
      /\ obj.kind = kind /\ obj.slots = [k \in 1..nin |-> Undefined]
  BY <1>2 DEF NoObject
<1>4. own = <<>> /\ elements = <<>> /\ made = 0 /\ damage = "none" /\ nin \in Nat
  BY SizesTyped DEF Init
<1>5. Len(own) = 0 /\ Len(elements) = 0 /\ Len(obj.descs) = 0 /\ Len(obj.props) = 0
      /\ Len(obj.elts) = 0
  BY <1>3, <1>4
<1>6. Common
  BY <1>3, <1>4, <1>5 DEF Common, NamesInv, OwnFine, NumbersFine, FieldsInv, Laid, Unboxed
<1>7. Fields(obj.descs) = {} /\ NFields = 0
  <2>1. Fields(obj.descs) = {}
    BY <1>5 DEF Fields
  <2> QED
    BY <2>1, FS_EmptySet DEF NFields
<1>8. DescsInv /\ TableInv
  BY <1>3, <1>5, <1>7 DEF DescsInv, TableInv, Ranked
<1>9. NumbersInv
  BY <1>3, <1>4, <1>5 DEF NumbersInv
<1> QED
  BY <1>1, <1>4, <1>6, <1>8, <1>9 DEF HeapInv, Full

LEMMA DoublesAre ==
    ASSUME Common, HeapTyped
    PROVE  DoublesKept
<1> SUFFICES ASSUME NEW j \in 1..Len(own), own[j].double
             PROVE  \E n \in Nat : own[j].val = Double(n)
  BY DEF DoublesKept
<1>1. Fine(own[j])
  BY DEF Common, OwnFine
<1>2. own[j].val[1] = "double"
  BY <1>1 DEF Fine
<1>3. own[j].val # Garbage /\ \A n : own[j].val # Value(n)
  BY <1>2, WordKinds
<1> QED
  BY <1>1, <1>3 DEF Fine

-----------------------------------------------------------------------------
(* What V8 does keeps the properties in their places                       *)

Built == made' = made + 1 /\ UNCHANGED <<ver, nin, damage>>

LEMMA NumbersKept ==
    ASSUME HeapTyped, NumbersInv, NumbersFine, NumbersStay, Built
    PROVE  NumbersInv' /\ NumbersFine'
<1>1. elements' = elements /\ obj'.kind = obj.kind /\ obj'.elts = obj.elts /\ damage' = damage
      /\ made' = made + 1 /\ made \in Nat /\ MaxBuild \in Nat /\ Len(obj.elts) \in Nat
  BY PartsTyped, SizesTyped DEF NumbersStay, Built, HeapParts
<1>2. NumbersFine'
  BY <1>1 DEF NumbersFine, Fine
<1>3. ASSUME NEW j \in 1..Len(elements)
      PROVE  \E r \in Nat :
                /\ elements[j].name = Smi(r)
                /\ r < IF obj.kind = "dictionary" THEN MaxBuild + made' ELSE Len(obj.elts)
  <2>1. PICK r \in Nat :
           /\ elements[j].name = Smi(r)
           /\ r < IF obj.kind = "dictionary" THEN MaxBuild + made ELSE Len(obj.elts)
    BY DEF NumbersInv
  <2> QED
    BY <1>1, <2>1
<1>4. obj.kind # "dictionary" => Len(obj.elts) <= made'
  BY <1>1 DEF NumbersInv
<1>5. NumbersInv'
  BY <1>1, <1>3, <1>4 DEF NumbersInv, Entries
<1> QED
  BY <1>2, <1>5

LEMMA NamesKept ==
    ASSUME HeapTyped, NamesInv, OwnFine, FieldsInv, DescsInv, TableInv, NamesStay, Built
    PROVE  NamesInv' /\ OwnFine' /\ FieldsInv' /\ DescsInv' /\ TableInv'
<1>1. /\ own' = own /\ damage' = damage /\ ver' = ver /\ nin' = nin
      /\ obj'.descs = obj.descs /\ obj'.slots = obj.slots /\ obj'.props = obj.props
      /\ obj'.slow = obj.slow
      /\ made' = made + 1 /\ made \in Nat /\ Len(obj.descs) \in Nat
  BY PartsTyped DEF NamesStay, Built, HeapParts
<1>2. OwnFine'
  BY <1>1 DEF OwnFine, Fine
<1>3. NamesInv'
  <2>1. ASSUME NEW j \in 1..Len(own)
        PROVE  \E m \in 0..(made' - 1) : own[j].name = Name(m)
    BY <1>1 DEF NamesInv
  <2> QED
    BY <1>1, <2>1 DEF NamesInv
<1>4. FieldsInv'
  BY <1>1 DEF FieldsInv, Laid, Unboxed
<1>5. DescsInv' /\ TableInv'
  BY <1>1 DEF DescsInv, TableInv, NFields
<1> QED
  BY <1>2, <1>3, <1>4, <1>5

(* A property that is new: its name is.                                    *)
LEMMA NameAdded ==
    ASSUME HeapTyped, NamesInv, OwnFine, Built, NEW v \in {Value(made), Double(made)},
           own' = Append(own, Property(Name(made), v))
    PROVE  /\ NamesInv' /\ OwnFine'
           /\ Len(own') = Len(own) + 1
           /\ \A j \in 1..Len(own) : own'[j] = own[j]
           /\ own'[Len(own) + 1].name = Name(made) /\ own'[Len(own) + 1].val = v
           /\ own'[Len(own) + 1].double <=> v = Double(made)
<1> DEFINE p == Property(Name(made), v)
           n == Len(own)
<1>1. made \in Nat /\ n \in Nat /\ own \in Seq(Prop) /\ made' = made + 1 /\ damage' = damage
  BY PartsTyped DEF HeapParts, Built
<1>2. p.name = Name(made) /\ p.val = v /\ (p.double <=> v = Double(made)) /\ Fine(p)
  BY <1>1, NewProperty
<1>3. p \in Prop
  BY <1>1, WordsTyped, PropertyTyped
<1> HIDE DEF p
<1>4. own' = Append(own, p)
  BY DEF p
<1>5. Len(own') = n + 1 /\ (\A j \in 1..n : own'[j] = own[j]) /\ own'[n + 1] = p
  BY <1>1, <1>3, <1>4
<1>50. n \in Nat
  BY <1>1
<1> HIDE DEF n
<1>51. \A j \in 1..(n + 1) : j = n + 1 \/ j \in 1..n
  BY <1>50
<1>6. OwnFine'
  <2>1. ASSUME NEW j \in 1..(n + 1)
        PROVE  Fine(own'[j])
    <3>1. CASE j = n + 1
      BY <1>2, <1>5, <3>1
    <3>2. CASE j \in 1..n
      <4>1. Fine(own[j])
        BY <3>2 DEF OwnFine, n
      <4> QED
        BY <1>5, <3>2, <4>1
    <3> QED
      BY <1>51, <3>1, <3>2
  <2> QED
    BY <1>1, <1>5, <2>1 DEF OwnFine, Fine
<1>7. NamesInv'
  <2>1. ASSUME NEW j \in 1..n
        PROVE  \E m \in 0..(made - 1) : own'[j].name = Name(m)
    <3>1. \E m \in 0..(made - 1) : own[j].name = Name(m)
      BY DEF NamesInv, n
    <3> QED
      BY <3>1, <1>5
  <2>2. \A j \in 1..(n + 1) : \E m \in 0..made : own'[j].name = Name(m)
    <3> SUFFICES ASSUME NEW j \in 1..(n + 1) PROVE \E m \in 0..made : own'[j].name = Name(m)
      OBVIOUS
    <3>1. CASE j = n + 1
      BY <1>1, <1>2, <1>5, <3>1
    <3>2. CASE j \in 1..n
      <4>1. PICK m \in 0..(made - 1) : own'[j].name = Name(m)
        BY <2>1, <3>2
      <4>2. m \in 0..made
        BY <1>1
      <4> QED
        BY <4>1, <4>2
    <3> QED
      BY <1>51, <3>1, <3>2
  <2>3. \A j \in 1..n : own'[j].name # own'[n + 1].name
    <3> SUFFICES ASSUME NEW j \in 1..n PROVE own'[j].name # own'[n + 1].name
      OBVIOUS
    <3>1. PICK m \in 0..(made - 1) : own'[j].name = Name(m)
      BY <2>1
    <3>2. m # made
      BY <1>1
    <3> QED
      BY <1>2, <1>5, <3>1, <3>2, NamesDiffer
  <2>4. \A i, j \in 1..n : own'[i].name = own'[j].name => i = j
    BY <1>5 DEF NamesInv, n
  <2>5. \A i, j \in 1..(n + 1) : own'[i].name = own'[j].name => i = j
    BY <1>51, <2>3, <2>4
  <2>6. made' - 1 = made
    BY <1>1
  <2> QED
    BY <1>5, <2>2, <2>5, <2>6 DEF NamesInv
<1> QED
  BY <1>2, <1>5, <1>6, <1>7 DEF n

LEMMA FieldsFinite ==
    ASSUME HeapTyped
    PROVE  /\ IsFiniteSet(Fields(obj.descs)) /\ NFields \in Nat
           /\ NFields <= Len(obj.descs)
           /\ Fields(obj.descs) \subseteq 1..Len(obj.descs)
<1>1. Len(obj.descs) \in Nat
  BY PartsTyped DEF HeapParts
<1>2. Fields(obj.descs) \subseteq 1..Len(obj.descs)
  BY DEF Fields
<1>3. IsFiniteSet(1..Len(obj.descs)) /\ Cardinality(1..Len(obj.descs)) = Len(obj.descs)
  BY <1>1, FS_Interval
<1> QED
  BY <1>2, <1>3, FS_Subset, FS_CardinalityType DEF NFields

LEMMA KeepsAddField ==
    ASSUME HeapTyped, Common, Full, AddField, Built
    PROVE  Common' /\ Full'
<1> DEFINE n == Len(own)
           nd == Len(obj.descs)
<1>1. PICK v \in {Value(made), Double(made)} :
         /\ v = Double(made) => ver.layout /\ n < nin
         /\ own' = Append(own, Property(Name(made), v))
         /\ obj'.descs = Append(obj.descs, Field(Name(made), Smi(n)))
         /\ obj'.slots = IF n < nin THEN [obj.slots EXCEPT ![n + 1] = v] ELSE obj.slots
         /\ obj'.props = IF n < nin THEN obj.props ELSE Append(obj.props, v)
  BY TypedAddField
<1>2. NumbersStay /\ ~obj.slow /\ ~obj'.slow
  BY TypedAddField
<1>3. NumbersInv' /\ NumbersFine'
  BY <1>2, NumbersKept DEF Common, Full
<1>4. /\ NamesInv' /\ OwnFine'
      /\ Len(own') = n + 1 /\ \A j \in 1..n : own'[j] = own[j]
      /\ own'[n + 1].name = Name(made) /\ own'[n + 1].val = v
      /\ own'[n + 1].double <=> v = Double(made)
  BY <1>1, NameAdded DEF Common
<1>40. Len(own') = n + 1
  BY <1>4
<1>41. \A j \in 1..n : own'[j] = own[j]
  BY <1>4
<1>5. n \in Nat /\ nd \in Nat /\ nin \in Nat /\ made \in Nat
  BY PartsTyped DEF HeapParts
<1>6. NFields = n
  BY DEF AddField, NFields
<1> DEFINE d == Field(Name(made), Smi(n))
<1>7. d.key = Name(made) /\ d.index = Smi(n) /\ d.field /\ d.key[1] = "name" /\ d.index[2] = n
  BY WordKinds DEF Field
<1>8. Len(obj'.descs) = nd + 1 /\ obj'.descs[nd + 1] = d
      /\ \A k \in 1..nd : obj'.descs[k] = obj.descs[k]
  <2>1. obj.descs \in Seq(Desc)
    BY PartsTyped DEF HeapParts
  <2>2. d \in Desc
    BY <1>5, WordsTyped DEF Desc, Field
  <2>3. obj'.descs = Append(obj.descs, d)
    BY <1>1
  <2> HIDE DEF d
  <2> QED
    BY <2>1, <2>2, <2>3
<1> HIDE DEF d, n, nd
<1>9. Fields(obj'.descs) = Fields(obj.descs) \cup {nd + 1} /\ nd + 1 \notin Fields(obj.descs)
  <2>1. \A k : k \in 1..(nd + 1) <=> k \in 1..nd \/ k = nd + 1
    BY <1>5
  <2>2. nd + 1 \notin 1..nd
    BY <1>5
  <2> QED
    BY <1>7, <1>8, <2>1, <2>2 DEF Fields, nd
<1>10. NFields' = n + 1
  <2>1. Cardinality(Fields(obj.descs) \cup {nd + 1}) = Cardinality(Fields(obj.descs)) + 1
    BY <1>9, FieldsFinite, FS_AddElement
  <2> QED
    BY <1>6, <1>9, <2>1 DEF NFields
<1>42. v # Double(made) => ~own'[n + 1].double
  BY <1>4
<1>11. FieldsInv'
  <2>1. Len(obj.descs) <= made /\ Laid(own, obj.props, obj.slots, nin) /\ Unboxed(own, nin, ver.layout)
    BY <1>2 DEF Common, FieldsInv
  <2>2. Len(obj'.descs) <= made'
    BY <1>5, <1>8, <2>1 DEF Built, nd
  <2>3. Len(obj.props) = IF n > nin THEN n - nin ELSE 0
    BY <2>1 DEF Laid, n
  <2>4. \A j \in 1..n : j <= nin => obj.slots[j] = own[j].val
    BY <2>1 DEF Laid, n
  <2>41. \A j \in 1..n : j > nin => obj.props[j - nin] = own[j].val
    BY <2>1 DEF Laid, n
  <2>5. \A j \in 1..nin : j > n => obj.slots[j] = Undefined
    BY <2>1 DEF Laid, n
  <2>6. obj.slots \in Seq(Words) /\ Len(obj.slots) = nin /\ obj.props \in Seq(Words) /\ v \in Words
    BY <1>5, PartsTyped, WordsTyped DEF HeapParts
  <2>8. \A j \in 1..(n + 1) : j = n + 1 \/ j \in 1..n
    BY <1>5
  <2>11. Unboxed(own', nin, ver.layout)
    <3> SUFFICES ASSUME NEW j \in 1..(n + 1), own'[j].double PROVE ver.layout /\ j <= nin
      BY <1>40 DEF Unboxed
    <3>1. CASE j = n + 1
      <4>1. v = Double(made)
        BY <1>42, <3>1
      <4>2. ver.layout /\ n < nin
        BY <1>1, <4>1 DEF n
      <4> QED
        BY <1>5, <3>1, <4>2
    <3>2. CASE j \in 1..n
      <4>1. own[j].double
        BY <1>41, <3>2
      <4> QED
        BY <2>1, <3>2, <4>1 DEF Unboxed, n
    <3> QED
      BY <2>8, <3>1, <3>2
  <2>9. CASE n < nin
    <3>1. obj'.slots = [obj.slots EXCEPT ![n + 1] = v] /\ obj'.props = obj.props
      BY <1>1, <2>9 DEF n
    <3>2. n + 1 \in 1..nin /\ obj.slots \in [1..nin -> Words]
      BY <1>5, <2>6, <2>9
    <3>3. obj'.slots[n + 1] = v /\ \A j \in 1..nin : j # n + 1 => obj'.slots[j] = obj.slots[j]
      BY <3>1, <3>2
    <3>4. \A j \in 1..n : j <= nin /\ j # n + 1 /\ j \in 1..nin /\ ~(j > nin)
      BY <1>5, <2>9
    <3>5. Len(obj'.props) = IF n + 1 > nin THEN n + 1 - nin ELSE 0
      BY <1>5, <2>3, <2>9, <3>1
    <3>6. \A j \in 1..nin : j > n + 1 => obj'.slots[j] = Undefined
      <4> SUFFICES ASSUME NEW j \in 1..nin, j > n + 1 PROVE obj'.slots[j] = Undefined
        OBVIOUS
      <4>1. j > n /\ j # n + 1
        BY <1>5
      <4> QED
        BY <2>5, <3>3, <4>1
    <3>7. \A j \in 1..(n + 1) : /\ j <= nin => obj'.slots[j] = own'[j].val
                                /\ j > nin => obj'.props[j - nin] = own'[j].val
      <4> SUFFICES ASSUME NEW j \in 1..(n + 1)
                   PROVE  obj'.slots[j] = own'[j].val /\ ~(j > nin)
        OBVIOUS
      <4>1. CASE j = n + 1
        <5>1. ~(n + 1 > nin)
          BY <1>5, <2>9
        <5> QED
          BY <1>4, <3>3, <4>1, <5>1
      <4>2. CASE j \in 1..n
        <5>1. own'[j] = own[j]
          BY <1>41, <4>2
        <5>2. j <= nin /\ j # n + 1 /\ j \in 1..nin /\ ~(j > nin)
          BY <3>4, <4>2
        <5>3. obj'.slots[j] = obj.slots[j]
          BY <3>3, <5>2
        <5>4. obj.slots[j] = own[j].val
          BY <2>4, <4>2, <5>2
        <5> QED
          BY <5>1, <5>2, <5>3, <5>4
      <4> QED
        BY <2>8, <4>1, <4>2
    <3>8. Laid(own', obj'.props, obj'.slots, nin)
      <4>1. n + 1 \in Nat /\ nin \in Nat
        BY <1>5
      <4>2. Len(own') = n + 1
        BY <1>40
      <4> DEFINE len == n + 1
                 p == own'
                 w == obj'.props
                 s == obj'.slots
      <4>3. len \in Nat /\ Len(p) = len
        BY <4>1, <4>2
      <4>6. Len(w) = IF len > nin THEN len - nin ELSE 0
        BY <1>5, <3>5
      <4>7. \A j \in 1..nin : j > len => s[j] = Undefined
        BY <3>6
      <4>4. \A j \in 1..len : /\ j <= nin => s[j] = p[j].val
                              /\ j > nin => w[j - nin] = p[j].val
        BY <3>7
      <4> HIDE DEF len, p, w, s
      <4>5. Laid(p, w, s, nin)
        BY <4>1, <4>3, <4>4, <4>6, <4>7, LaidFrom
      <4> QED
        BY <4>5 DEF p, w, s
    <3> QED
      BY <2>2, <2>11, <3>8 DEF FieldsInv, Built
  <2>10. CASE ~(n < nin)
    <3>1. obj'.slots = obj.slots /\ obj'.props = Append(obj.props, v)
      BY <1>1, <2>10 DEF n
    <3>2. Len(obj.props) = n - nin /\ n - nin \in Nat /\ n + 1 > nin /\ (n - nin) + 1 = n + 1 - nin
      BY <1>5, <2>3, <2>10
    <3> DEFINE m == n - nin
    <3>3. /\ Len(obj'.props) = m + 1 /\ obj'.props[m + 1] = v
          /\ \A j \in 1..m : obj'.props[j] = obj.props[j]
      BY <2>6, <3>1, <3>2
    <3>4. Len(obj'.props) = IF n + 1 > nin THEN n + 1 - nin ELSE 0
      BY <3>2, <3>3
    <3>5. \A j \in 1..nin : j > n + 1 => obj'.slots[j] = Undefined
      BY <1>5, <2>10
    <3>6. \A j \in 1..(n + 1) : /\ j <= nin => obj'.slots[j] = own'[j].val
                                /\ j > nin => obj'.props[j - nin] = own'[j].val
      <4> SUFFICES ASSUME NEW j \in 1..(n + 1)
                   PROVE  /\ j <= nin => obj'.slots[j] = own'[j].val
                          /\ j > nin => obj'.props[j - nin] = own'[j].val
        OBVIOUS
      <4>1. CASE j = n + 1
        <5>1. ~(n + 1 <= nin) /\ (n + 1) - nin = m + 1
          BY <1>5, <2>10
        <5> QED
          BY <1>4, <3>3, <4>1, <5>1
      <4>2. CASE j \in 1..n
        <5>1. own'[j] = own[j] /\ j \in Nat
          BY <1>41, <1>5, <4>2
        <5>2. j > nin => j - nin \in 1..m
          BY <1>5, <4>2, <5>1
        <5> QED
          <6>1. j <= nin => obj.slots[j] = own[j].val
            BY <2>4, <4>2
          <6>2. j > nin => obj.props[j - nin] = own[j].val
            BY <2>41, <4>2
          <6>3. j > nin => obj'.props[j - nin] = obj.props[j - nin]
            BY <3>3, <5>2
          <6> QED
            BY <3>1, <5>1, <6>1, <6>2, <6>3
      <4> QED
        BY <2>8, <4>1, <4>2
    <3>7. Laid(own', obj'.props, obj'.slots, nin)
      <4>1. n + 1 \in Nat /\ nin \in Nat
        BY <1>5
      <4>2. Len(own') = n + 1
        BY <1>40
      <4> DEFINE len == n + 1
                 p == own'
                 w == obj'.props
                 s == obj'.slots
      <4>3. len \in Nat /\ Len(p) = len
        BY <4>1, <4>2
      <4>6. Len(w) = IF len > nin THEN len - nin ELSE 0
        BY <1>5, <3>4
      <4>7. \A j \in 1..nin : j > len => s[j] = Undefined
        BY <1>5, <3>5
      <4>4. \A j \in 1..len : /\ j <= nin => s[j] = p[j].val
                              /\ j > nin => w[j - nin] = p[j].val
        BY <3>6
      <4> HIDE DEF len, p, w, s
      <4>5. Laid(p, w, s, nin)
        BY <4>1, <4>3, <4>4, <4>6, <4>7, LaidFrom
      <4> QED
        BY <4>5 DEF p, w, s
    <3> QED
      BY <2>2, <2>11, <3>7 DEF FieldsInv, Built
  <2> QED
    BY <2>9, <2>10
<1>12. DescsInv'
  <2>1. Len(own) <= NFields /\ n = Len(own)
    BY <1>2 DEF Full, DescsInv, Ranked, n
  <2>2. ASSUME NEW k \in Fields(obj.descs)
        PROVE  \E r \in 0..(n - 1) :
                  /\ obj'.descs[k] = obj.descs[k]
                  /\ obj.descs[k].index = Smi(r)
                  /\ obj.descs[k].key[1] = "name"
                  /\ obj.descs[k].key = own'[r + 1].name
    <3>1. PICK r \in 0..(n - 1) : /\ obj.descs[k].index = Smi(r)
                                  /\ obj.descs[k].key[1] = "name"
                                  /\ r < Len(own) => obj.descs[k].key = own[r + 1].name
      BY <1>2, <1>6 DEF Full, DescsInv, Ranked
    <3>2. r < n /\ r + 1 \in 1..n
      BY <1>5
    <3>3. k \in 1..nd
      BY FieldsFinite DEF nd
    <3> QED
      BY <1>4, <1>8, <2>1, <3>1, <3>2, <3>3
  <2>3. \A k \in Fields(obj'.descs) : \E r \in 0..n :
          /\ obj'.descs[k].index = Smi(r)
          /\ obj'.descs[k].key[1] = "name"
          /\ r < n + 1 => obj'.descs[k].key = own'[r + 1].name
    <3> SUFFICES ASSUME NEW k \in Fields(obj'.descs)
                 PROVE  \E r \in 0..n :
                           /\ obj'.descs[k].index = Smi(r)
                           /\ obj'.descs[k].key[1] = "name"
                           /\ r < n + 1 => obj'.descs[k].key = own'[r + 1].name
      OBVIOUS
    <3>1. CASE k = nd + 1
      <4>1. n \in 0..n
        BY <1>5
      <4> QED
        BY <1>4, <1>7, <1>8, <3>1, <4>1
    <3>2. CASE k \in Fields(obj.descs)
      <4>1. PICK r \in 0..(n - 1) :
                  /\ obj'.descs[k] = obj.descs[k]
                  /\ obj.descs[k].index = Smi(r)
                  /\ obj.descs[k].key[1] = "name"
                  /\ obj.descs[k].key = own'[r + 1].name
        BY <2>2, <3>2
      <4>2. r \in 0..n
        BY <1>5
      <4> QED
        BY <4>1, <4>2
    <3> QED
      BY <1>9, <3>1, <3>2
  <2>4. \A r \in 0..n : \E k \in Fields(obj'.descs) : obj'.descs[k].index = Smi(r)
    <3> SUFFICES ASSUME NEW r \in 0..n
                 PROVE  \E k \in Fields(obj'.descs) : obj'.descs[k].index = Smi(r)
      OBVIOUS
    <3>1. CASE r = n
      BY <1>7, <1>8, <1>9, <3>1
    <3>2. CASE r # n
      <4>1. r \in 0..(n - 1)
        BY <1>5, <3>2
      <4>2. PICK k \in Fields(obj.descs) : obj.descs[k].index = Smi(r)
        BY <1>2, <1>6, <4>1 DEF Full, DescsInv, Ranked
      <4> QED
        BY <1>9, <2>2, <4>2
    <3> QED
      BY <3>1, <3>2
  <2>5. \A k, l \in Fields(obj'.descs) : k < l => obj'.descs[k].index[2] < obj'.descs[l].index[2]
    <3> SUFFICES ASSUME NEW k \in Fields(obj'.descs), NEW l \in Fields(obj'.descs), k < l
                 PROVE  obj'.descs[k].index[2] < obj'.descs[l].index[2]
      OBVIOUS
    <3>1. Fields(obj.descs) \subseteq 1..nd
      BY FieldsFinite DEF nd
    <3>2. k \in Fields(obj.descs)
      BY <1>5, <1>9, <3>1
    <3>3. PICK r \in 0..(n - 1) : obj'.descs[k] = obj.descs[k] /\ obj.descs[k].index = Smi(r)
      BY <2>2, <3>2
    <3>4. obj'.descs[k].index[2] = r /\ r < n
      BY <1>5, <3>3, WordKinds
    <3>5. CASE l = nd + 1
      BY <1>7, <1>8, <3>4, <3>5
    <3>6. CASE l \in Fields(obj.descs)
      <4>1. obj'.descs[l] = obj.descs[l]
        BY <2>2, <3>6
      <4>2. obj.descs[k].index[2] < obj.descs[l].index[2]
        BY <1>2, <3>2, <3>6 DEF Full, DescsInv, Ranked
      <4> QED
        BY <3>3, <4>1, <4>2
    <3> QED
      BY <1>9, <3>5, <3>6
  <2>6. n + 1 - 1 = n /\ n + 1 <= n + 1
    BY <1>5
  <2>7. Ranked(obj'.descs, own', n + 1)
    BY <1>5, <1>40, <2>3, <2>4, <2>5, <2>6 DEF Ranked
  <2> QED
    BY <1>10, <2>7 DEF DescsInv
<1>13. TableInv'
  BY <1>2 DEF TableInv
<1> QED
  BY <1>3, <1>4, <1>11, <1>12, <1>13 DEF Common, Full

LEMMA KeepsAddOther ==
    ASSUME HeapTyped, Common, Full, AddOther, Built
    PROVE  Common' /\ Full'
<1> DEFINE nd == Len(obj.descs)
           d == [key |-> Name(made), field |-> FALSE, index |-> Internal]
<1>1. /\ NumbersStay /\ ~obj.slow /\ ~obj'.slow /\ own' = own
      /\ obj'.descs = Append(obj.descs, d) /\ obj'.slots = obj.slots /\ obj'.props = obj.props
  BY TypedAddOther
<1>2. NumbersInv' /\ NumbersFine'
  BY <1>1, NumbersKept DEF Common, Full
<1>3. nd \in Nat /\ made \in Nat /\ made' = made + 1
  BY PartsTyped DEF HeapParts, Built
<1>4. /\ Len(obj'.descs) = nd + 1 /\ obj'.descs[nd + 1] = d
      /\ \A k \in 1..nd : obj'.descs[k] = obj.descs[k]
  <2>1. obj.descs \in Seq(Desc)
    BY PartsTyped DEF HeapParts
  <2>2. d \in Desc
    BY <1>3, WordsTyped DEF Desc
  <2>3. obj'.descs = Append(obj.descs, d)
    BY <1>1
  <2> HIDE DEF d
  <2> QED
    BY <2>1, <2>2, <2>3
<1>5. d.field = FALSE
  OBVIOUS
<1> HIDE DEF d, nd
<1>6. Fields(obj'.descs) = Fields(obj.descs)
  <2>1. \A k : k \in 1..(nd + 1) <=> k \in 1..nd \/ k = nd + 1
    BY <1>3
  <2> QED
    BY <1>4, <1>5, <2>1 DEF Fields, nd
<1>7. FieldsInv'
  <2>1. Len(obj.descs) <= made /\ Laid(own, obj.props, obj.slots, nin) /\ Unboxed(own, nin, ver.layout)
    BY <1>1 DEF Common, FieldsInv
  <2>2. Len(obj'.descs) <= made'
    BY <1>3, <1>4, <2>1 DEF nd
  <2> QED
    BY <1>1, <2>1, <2>2 DEF FieldsInv, Built
<1>8. DescsInv'
  <2>1. Ranked(obj.descs, own, NFields)
    BY <1>1 DEF Full, DescsInv
  <2>2. \A k \in Fields(obj.descs) : obj'.descs[k] = obj.descs[k]
    BY <1>4, FieldsFinite DEF nd
  <2>3. Ranked(obj'.descs, own, NFields)
    BY <1>6, <2>1, <2>2 DEF Ranked
  <2>4. NFields' = NFields
    BY <1>6 DEF NFields
  <2> QED
    BY <1>1, <2>3, <2>4 DEF DescsInv
<1>9. NamesInv' /\ OwnFine'
  <2>1. \A j \in 1..Len(own) : \E m \in 0..(made' - 1) : own[j].name = Name(m)
    <3> SUFFICES ASSUME NEW j \in 1..Len(own) PROVE \E m \in 0..(made' - 1) : own[j].name = Name(m)
      OBVIOUS
    <3>1. PICK m \in 0..(made - 1) : own[j].name = Name(m)
      BY DEF Common, NamesInv
    <3>2. m \in 0..(made' - 1)
      BY <1>3
    <3> QED
      BY <3>1, <3>2
  <2> QED
    BY <1>1, <2>1 DEF Common, NamesInv, OwnFine, Fine, Built
<1>10. TableInv'
  BY <1>1 DEF TableInv
<1> QED
  BY <1>2, <1>7, <1>8, <1>9, <1>10 DEF Common, Full

(* Properties that are gone leave the others as they were.                 *)
LEMMA NamesLeft ==
    ASSUME HeapTyped, NamesInv, OwnFine, Built, NEW n \in Nat, NEW e \in [1..n -> 1..Len(own)],
           \A i, j \in 1..n : e[i] = e[j] => i = j,
           Len(own') = n, \A j \in 1..n : own'[j] = own[e[j]]
    PROVE  NamesInv' /\ OwnFine'
<1>1. made \in Nat /\ made' = made + 1
  BY PartsTyped DEF HeapParts, Built
<1>2. \A j \in 1..n : \E m \in 0..(made' - 1) : own'[j].name = Name(m)
  <2> SUFFICES ASSUME NEW j \in 1..n PROVE \E m \in 0..(made' - 1) : own'[j].name = Name(m)
    OBVIOUS
  <2>1. e[j] \in 1..Len(own)
    OBVIOUS
  <2>2. PICK m \in 0..(made - 1) : own[e[j]].name = Name(m)
    BY <2>1 DEF NamesInv
  <2>3. m \in 0..(made' - 1)
    BY <1>1
  <2> QED
    BY <2>2, <2>3
<1>3. \A i, j \in 1..n : own'[i].name = own'[j].name => i = j
  <2> SUFFICES ASSUME NEW i \in 1..n, NEW j \in 1..n, own'[i].name = own'[j].name PROVE i = j
    OBVIOUS
  <2>1. e[i] \in 1..Len(own) /\ e[j] \in 1..Len(own)
    OBVIOUS
  <2>2. e[i] = e[j]
    BY <2>1 DEF NamesInv
  <2> QED
    BY <2>2
<1>4. \A j \in 1..n : Fine(own'[j])
  <2> SUFFICES ASSUME NEW j \in 1..n PROVE Fine(own'[j])
    OBVIOUS
  <2>1. e[j] \in 1..Len(own)
    OBVIOUS
  <2>2. Fine(own[e[j]])
    BY <2>1 DEF OwnFine
  <2> QED
    BY <2>2
<1>5. OwnFine'
  BY <1>4 DEF OwnFine, Fine, Built
<1> QED
  BY <1>2, <1>3, <1>5 DEF NamesInv

LEMMA FirstOnes ==
    ASSUME NEW S, NEW s \in Seq(S), NEW n \in Nat, n <= Len(s)
    PROVE  /\ Len(SubSeq(s, 1, n)) = n
           /\ \A j \in 1..n : SubSeq(s, 1, n)[j] = s[j]
<1>1. Len(SubSeq(s, 1, n)) = n
  BY SubSeqProperties
<1>2. ASSUME NEW j \in 1..n
      PROVE  SubSeq(s, 1, n)[j] = s[j]
  <2>1. SubSeq(s, 1, n)[j] = s[1 + j - 1]
    BY SubSeqProperties
  <2> QED
    BY <2>1
<1> QED
  BY <1>1, <1>2

LEMMA KeepsDeleteField ==
    ASSUME HeapTyped, Common, Full, DeleteField, Built
    PROVE  Common' /\ Full'
<1> DEFINE n == Len(own) - 1
           m == Len(obj.props) - 1
<1>1. /\ NumbersStay /\ ~obj.slow /\ ~obj'.slow /\ obj.props # <<>>
      /\ own' = SubSeq(own, 1, Len(own) - 1)
      /\ obj'.props = SubSeq(obj.props, 1, Len(obj.props) - 1)
      /\ obj'.slots = obj.slots /\ obj'.descs = obj.descs
  BY TypedDeleteField
<1>2. NumbersInv' /\ NumbersFine'
  BY <1>1, NumbersKept DEF Common, Full
<1>3. Laid(own, obj.props, obj.slots, nin) /\ Unboxed(own, nin, ver.layout) /\ Len(obj.descs) <= made
  BY <1>1 DEF Common, FieldsInv
<1>4. /\ own \in Seq(Prop) /\ Len(own) \in Nat /\ obj.props \in Seq(Words) /\ Len(obj.props) \in Nat
      /\ nin \in Nat
  BY PartsTyped DEF HeapParts
<1>5. Len(obj.props) # 0
  BY <1>1, <1>4
<1>6. Len(obj.props) = IF Len(own) > nin THEN Len(own) - nin ELSE 0
  BY <1>3 DEF Laid
<1>7. n \in Nat /\ m \in Nat /\ m = n - nin /\ n >= nin /\ n + 1 = Len(own) /\ m + 1 = Len(obj.props)
  BY <1>4, <1>5, <1>6
<1>70. own' = SubSeq(own, 1, n) /\ obj'.props = SubSeq(obj.props, 1, m)
  BY <1>1
<1>71. n <= Len(own) /\ m <= Len(obj.props)
  BY <1>4
<1> HIDE DEF n, m
<1>8. Len(own') = n /\ \A j \in 1..n : own'[j] = own[j]
  BY <1>4, <1>7, <1>70, <1>71, FirstOnes
<1>9. Len(obj'.props) = m /\ \A j \in 1..m : obj'.props[j] = obj.props[j]
  BY <1>4, <1>7, <1>70, <1>71, FirstOnes
<1>10. \A j \in 1..n : j \in 1..Len(own)
  BY <1>7
<1>11. NamesInv' /\ OwnFine'
  <2> DEFINE e == [j \in 1..n |-> j]
  <2>1. e \in [1..n -> 1..Len(own)] /\ (\A j \in 1..n : e[j] = j)
    BY <1>10
  <2> HIDE DEF e
  <2>2. \A i, j \in 1..n : e[i] = e[j] => i = j
    BY <2>1
  <2>3. \A j \in 1..n : own'[j] = own[e[j]]
    BY <1>8, <2>1
  <2>4. NamesInv /\ OwnFine /\ n \in Nat /\ Len(own') = n
    BY <1>7, <1>8 DEF Common
  <2> QED
    BY <2>1, <2>2, <2>3, <2>4, NamesLeft
<1>12. Laid(own', obj'.props, obj'.slots, nin)
  <2>1. m = IF n > nin THEN n - nin ELSE 0
    BY <1>4, <1>7
  <2>2. \A j \in 1..n : j <= nin => obj'.slots[j] = own'[j].val
    BY <1>1, <1>3, <1>8, <1>10 DEF Laid
  <2>3. \A j \in 1..n : j > nin => obj'.props[j - nin] = own'[j].val
    <3> SUFFICES ASSUME NEW j \in 1..n, j > nin PROVE obj'.props[j - nin] = own'[j].val
      OBVIOUS
    <3>1. j - nin \in 1..m
      BY <1>4, <1>7
    <3>2. obj.props[j - nin] = own[j].val
      BY <1>3, <1>10 DEF Laid
    <3> QED
      BY <1>8, <1>9, <3>1, <3>2
  <2>4. \A j \in 1..nin : j > n => obj'.slots[j] = Undefined
    BY <1>4, <1>7
  <2> QED
    BY <1>4, <1>7, <1>8, <1>9, <2>1, <2>2, <2>3, <2>4 DEF Laid
<1>13. Unboxed(own', nin, ver.layout)
  BY <1>3, <1>8, <1>10 DEF Unboxed
<1>14. FieldsInv'
  <2>1. Len(obj'.descs) <= made'
    BY <1>1, <1>3, PartsTyped DEF HeapParts, Built
  <2> QED
    BY <1>12, <1>13, <2>1 DEF FieldsInv, Built
<1>15. DescsInv'
  <2>1. Ranked(obj.descs, own, NFields)
    BY <1>1 DEF Full, DescsInv
  <2>2. NFields \in Nat
    BY FieldsFinite
  <2>3. \A k \in Fields(obj.descs) : \E r \in 0..(NFields - 1) :
          /\ obj.descs[k].index = Smi(r)
          /\ obj.descs[k].key[1] = "name"
          /\ r < n => obj.descs[k].key = own'[r + 1].name
    <3> SUFFICES ASSUME NEW k \in Fields(obj.descs)
                 PROVE  \E r \in 0..(NFields - 1) :
                           /\ obj.descs[k].index = Smi(r)
                           /\ obj.descs[k].key[1] = "name"
                           /\ r < n => obj.descs[k].key = own'[r + 1].name
      OBVIOUS
    <3>1. PICK r \in 0..(NFields - 1) :
             /\ obj.descs[k].index = Smi(r)
             /\ obj.descs[k].key[1] = "name"
             /\ r < Len(own) => obj.descs[k].key = own[r + 1].name
      BY <2>1 DEF Ranked
    <3>2. r < n => r < Len(own) /\ r + 1 \in 1..n
      BY <1>7, <2>2
    <3> QED
      BY <1>8, <3>1, <3>2
  <2>4. n <= NFields
    BY <1>7, <2>1, <2>2 DEF Ranked
  <2>5. /\ \A r \in 0..(NFields - 1) : \E k \in Fields(obj.descs) : obj.descs[k].index = Smi(r)
        /\ \A k, l \in Fields(obj.descs) : k < l => obj.descs[k].index[2] < obj.descs[l].index[2]
    BY <2>1 DEF Ranked
  <2>6. Ranked(obj.descs, own', NFields)
    BY <1>7, <1>8, <2>2, <2>3, <2>4, <2>5 DEF Ranked
  <2>7. NFields' = NFields
    BY <1>1 DEF NFields
  <2> QED
    BY <1>1, <2>6, <2>7 DEF DescsInv
<1>16. TableInv'
  BY <1>1 DEF TableInv
<1> QED
  BY <1>2, <1>11, <1>14, <1>15, <1>16 DEF Common, Full

-----------------------------------------------------------------------------
(* Dictionaries                                                            *)

LEMMA TableEntry ==
    ASSUME NEW props \in Seq(Prop), NEW j \in 1..TableSize
    PROVE  /\ 2 + 3 * (j - 1) \in Keys
           /\ Table(props)[2 + 3 * (j - 1)] = IF j <= Len(props) THEN props[j].name ELSE Undefined
           /\ j <= Len(props) => Table(props)[2 + 3 * (j - 1) + 1] = props[j].val
<1> DEFINE k == 2 + 3 * (j - 1)
<1>1. TableSize \in Nat /\ j \in Nat /\ j >= 1 /\ j <= TableSize /\ Len(props) \in Nat
  BY SizesTyped
<1>2. k \in Keys
  <2>1. j - 1 \in 0..(TableSize - 1)
    BY <1>1
  <2> QED
    BY <2>1 DEF Keys
<1>3. k \in 1..(1 + 3 * TableSize) /\ k + 1 \in 1..(1 + 3 * TableSize) /\ k # 1 /\ k + 1 # 1
  BY <1>1
<1>4. (k - 2) \div 3 + 1 = j /\ (k - 2) % 3 = 0
  BY <1>1
<1>5. (k + 1 - 2) \div 3 + 1 = j /\ (k + 1 - 2) % 3 = 1
  BY <1>1
<1>6. j \in 1..Len(props) <=> j <= Len(props)
  BY <1>1
<1> HIDE DEF k
<1>7. Table(props)[k] = IF j <= Len(props) THEN props[j].name ELSE Undefined
  BY <1>3, <1>4, <1>6 DEF Table
<1>8. j <= Len(props) => Table(props)[k + 1] = props[j].val
  BY <1>3, <1>5, <1>6 DEF Table
<1> QED
  BY <1>2, <1>7, <1>8 DEF k

LEMMA KeyPlace ==
    ASSUME NEW k \in Keys
    PROVE  \E j \in 1..TableSize : k = 2 + 3 * (j - 1)
<1>1. PICK i \in 0..(TableSize - 1) : k = 2 + 3 * i
  BY DEF Keys
<1>2. i + 1 \in 1..TableSize /\ (i + 1) - 1 = i
  BY SizesTyped
<1> QED
  BY <1>1, <1>2

(* A new dictionary has the properties it is made of.                      *)
LEMMA TableHolds ==
    ASSUME NEW props \in Seq(Prop), Len(props) <= TableSize,
           \A j \in 1..Len(props) : ~Empty(props[j].name),
           \A i, j \in 1..Len(props) : props[i].name = props[j].name => i = j
    PROVE  Entries(Table(props), props)
<1> DEFINE at(j) == 2 + 3 * (j - 1)
           table == Table(props)
<1>1. Len(props) \in Nat /\ TableSize \in Nat
  BY SizesTyped
<1>2. ASSUME NEW j \in 1..TableSize
      PROVE  /\ at(j) \in Keys
             /\ table[at(j)] = IF j \in 1..Len(props) THEN props[j].name ELSE Undefined
             /\ j \in 1..Len(props) => table[at(j) + 1] = props[j].val
  <2>1. j \in 1..Len(props) <=> j <= Len(props)
    BY <1>1
  <2> QED
    BY <2>1, TableEntry
<1>3. ASSUME NEW k \in Keys
      PROVE  \E j \in 1..TableSize : k = at(j)
  BY KeyPlace
<1>4. \A j \in 1..Len(props) : j \in 1..TableSize
  BY <1>1
<1> HIDE DEF at, table
<1>5. \A j \in 1..Len(props) : \E k \in Keys :
         ~Empty(table[k]) /\ table[k] = props[j].name /\ table[k + 1] = props[j].val
  BY <1>2, <1>4
<1>6. ASSUME NEW k \in Keys, ~Empty(table[k])
      PROVE  \E j \in 1..Len(props) : k = at(j) /\ table[k] = props[j].name
  <2>1. PICK j \in 1..TableSize : k = at(j)
    BY <1>3
  <2>2. j \in 1..Len(props)
    BY <1>2, <1>6, <2>1, WordsDiffer
  <2> QED
    BY <1>2, <2>1, <2>2
<1>7. \A k \in Keys : ~Empty(table[k]) => \E j \in 1..Len(props) : table[k] = props[j].name
  BY <1>6
<1>8. \A k, l \in Keys : ~Empty(table[k]) /\ table[k] = table[l] => k = l
  <2> SUFFICES ASSUME NEW k \in Keys, NEW l \in Keys, ~Empty(table[k]), table[k] = table[l]
               PROVE  k = l
    OBVIOUS
  <2>1. PICK i \in 1..Len(props) : k = at(i) /\ table[k] = props[i].name
    BY <1>6
  <2>2. PICK j \in 1..Len(props) : l = at(j) /\ table[l] = props[j].name
    BY <1>6
  <2>3. i = j
    BY <2>1, <2>2
  <2> QED
    BY <2>1, <2>2, <2>3
<1> QED
  BY <1>5, <1>7, <1>8 DEF Entries, table

LEMMA BoxedIs ==
    ASSUME NEW p \in Prop, Fine(p), damage = "none"
    PROVE  /\ Boxed(p).name = p.name /\ Fine(Boxed(p)) /\ ~Boxed(p).double
<1>1. CASE p.double
  <2>1. PICK n \in Nat : p.val = Double(n)
    BY <1>1, WordKinds DEF Fine
  <2>2. Boxed(p) = Property(p.name, Value(n))
    BY <1>1, <2>1, WordKinds DEF Boxed
  <2> QED
    BY <2>2, NewProperty, WordsDiffer
<1>2. CASE ~p.double
  BY <1>2 DEF Boxed
<1> QED
  BY <1>1, <1>2

LEMMA KeepsGoSlow ==
    ASSUME HeapTyped, Common, Full, GoSlow, Built
    PROVE  Common' /\ Full'
<1> DEFINE n == Len(own)
<1>1. /\ NumbersStay /\ obj'.slow /\ n <= TableSize
      /\ own' = [k \in 1..n |-> Boxed(own[k])] /\ own' \in Seq(Prop)
      /\ obj'.props = Table(own')
  BY DoublesAre, TypedGoSlow DEF ObjectKept
<1>2. NumbersInv' /\ NumbersFine'
  BY <1>1, NumbersKept DEF Common, Full
<1>3. damage = "none" /\ damage' = "none" /\ n \in Nat /\ made \in Nat /\ made' = made + 1
      /\ own \in Seq(Prop)
  BY PartsTyped DEF HeapParts, GoSlow, Change, Built
<1>4. Len(own') = n
  BY <1>1, <1>3
<1>5. ASSUME NEW j \in 1..n
      PROVE  own'[j].name = own[j].name /\ Fine(own'[j]) /\ ~own'[j].double
  <2>1. own[j] \in Prop /\ Fine(own[j])
    BY <1>3 DEF Common, OwnFine
  <2>2. own'[j] = Boxed(own[j])
    BY <1>1
  <2> QED
    BY <1>3, <2>1, <2>2, BoxedIs
<1>50. \A j \in 1..n : own'[j].name = own[j].name
  BY <1>5
<1>6. NamesInv' /\ OwnFine'
  <2>1. \A j \in 1..n : \E m \in 0..(made' - 1) : own'[j].name = Name(m)
    <3> SUFFICES ASSUME NEW j \in 1..n PROVE \E m \in 0..(made' - 1) : own'[j].name = Name(m)
      OBVIOUS
    <3>1. PICK m \in 0..(made - 1) : own[j].name = Name(m)
      BY DEF Common, NamesInv
    <3>2. m \in 0..(made' - 1)
      BY <1>3
    <3> QED
      BY <1>50, <3>1, <3>2
  <2>2. \A i, j \in 1..n : own'[i].name = own'[j].name => i = j
    BY <1>50 DEF Common, NamesInv
  <2>3. \A j \in 1..n : Fine(own'[j])
    BY <1>5
  <2>4. NamesInv'
    BY <1>4, <2>1, <2>2 DEF NamesInv
  <2>5. OwnFine'
    BY <1>3, <1>4, <2>3 DEF OwnFine, Fine
  <2> QED
    BY <2>4, <2>5
<1>7. TableInv'
  <2>1. \A j \in 1..Len(own') : ~Empty(own'[j].name)
    BY <1>6, WordsDiffer DEF NamesInv
  <2>2. \A i, j \in 1..Len(own') : own'[i].name = own'[j].name => i = j
    BY <1>6 DEF NamesInv
  <2>3. Len(own') <= TableSize
    BY <1>1, <1>4
  <2>4. Entries(Table(own'), own')
    BY <1>1, <2>1, <2>2, <2>3, TableHolds
  <2>5. \A j \in 1..Len(own') : ~own'[j].double
    BY <1>4, <1>5
  <2> QED
    BY <1>1, <2>4, <2>5 DEF TableInv
<1>8. FieldsInv' /\ DescsInv'
  BY <1>1 DEF FieldsInv, DescsInv
<1> QED
  BY <1>2, <1>6, <1>7, <1>8 DEF Common, Full

LEMMA KeysApart ==
    ASSUME NEW k \in Keys, NEW l \in Keys, k # l
    PROVE  l # k + 1 /\ l + 1 # k /\ l + 1 # k + 1
<1>1. PICK i \in 0..(TableSize - 1) : k = 2 + 3 * i
  BY DEF Keys
<1>2. PICK j \in 0..(TableSize - 1) : l = 2 + 3 * j
  BY DEF Keys
<1>3. i \in Int /\ j \in Int /\ i # j
  BY <1>1, <1>2
<1> QED
  BY <1>1, <1>2, <1>3

LEMMA EntriesAdded ==
    ASSUME NEW table \in Seq(Words), Len(table) = TableLen, NEW props \in Seq(Prop),
           Entries(table, props), NEW k \in Free(table), NEW p \in Prop, ~Empty(p.name),
           \A j \in 1..Len(props) : props[j].name # p.name
    PROVE  Entries(Put(table, k, p), Append(props, p))
<1> DEFINE new == Put(table, k, p)
           n == Len(props)
           props2 == Append(props, p)
<1>1. k \in Keys /\ Empty(table[k])
  BY DEF Free, Empty
<1>2. new[k] = p.name /\ new[k + 1] = p.val
      /\ \A l \in 1..TableLen : l # k /\ l # k + 1 => new[l] = table[l]
  BY <1>1, PutTyped
<1>3. ASSUME NEW l \in Keys, l # k
      PROVE  new[l] = table[l] /\ new[l + 1] = table[l + 1]
  <2>1. l \in 1..TableLen /\ l + 1 \in 1..TableLen
    BY KeysInTable
  <2>2. l # k + 1 /\ l + 1 # k /\ l + 1 # k + 1
    BY <1>1, <1>3, KeysApart
  <2> QED
    BY <1>2, <1>3, <2>1, <2>2
<1>4. n \in Nat /\ Len(props2) = n + 1 /\ props2[n + 1] = p /\ \A j \in 1..n : props2[j] = props[j]
  OBVIOUS
<1> HIDE DEF new, n, props2
<1>5. \A j \in 1..(n + 1) : j = n + 1 \/ j \in 1..n
  BY <1>4
<1>6. \A j \in 1..n : j \in 1..(n + 1)
  BY <1>4
<1>60. n + 1 \in 1..(n + 1)
  BY <1>4
<1>7. \A j \in 1..n : \E l \in Keys :
         ~Empty(table[l]) /\ table[l] = props[j].name /\ table[l + 1] = props[j].val
  BY DEF Entries, n
<1>8. \A l \in Keys : ~Empty(table[l]) => \E j \in 1..n : table[l] = props[j].name
  BY DEF Entries, n
<1>9. \A i, l \in Keys : ~Empty(table[i]) /\ table[i] = table[l] => i = l
  BY DEF Entries
<1>10. \A j \in 1..(n + 1) : \E l \in Keys :
          ~Empty(new[l]) /\ new[l] = props2[j].name /\ new[l + 1] = props2[j].val
  <2> SUFFICES ASSUME NEW j \in 1..(n + 1)
               PROVE  \E l \in Keys :
                         ~Empty(new[l]) /\ new[l] = props2[j].name /\ new[l + 1] = props2[j].val
    OBVIOUS
  <2>1. CASE j = n + 1
    BY <1>1, <1>2, <1>4, <2>1
  <2>2. CASE j \in 1..n
    <3>1. PICK l \in Keys :
             ~Empty(table[l]) /\ table[l] = props[j].name /\ table[l + 1] = props[j].val
      BY <1>7, <2>2
    <3>2. l # k
      BY <1>1, <3>1
    <3> QED
      BY <1>3, <1>4, <2>2, <3>1, <3>2
  <2> QED
    BY <1>5, <2>1, <2>2
<1>11. \A l \in Keys : ~Empty(new[l]) => \E j \in 1..(n + 1) : new[l] = props2[j].name
  <2> SUFFICES ASSUME NEW l \in Keys, ~Empty(new[l])
               PROVE  \E j \in 1..(n + 1) : new[l] = props2[j].name
    OBVIOUS
  <2>1. CASE l = k
    BY <1>2, <1>4, <1>60, <2>1
  <2>2. CASE l # k
    <3>1. PICK j \in 1..n : table[l] = props[j].name
      BY <1>3, <1>8, <2>2
    <3> QED
      BY <1>3, <1>4, <1>6, <2>2, <3>1
  <2> QED
    BY <2>1, <2>2
<1>12. \A i, l \in Keys : ~Empty(new[i]) /\ new[i] = new[l] => i = l
  <2> SUFFICES ASSUME NEW i \in Keys, NEW l \in Keys, ~Empty(new[i]), new[i] = new[l]
               PROVE  i = l
    OBVIOUS
  <2>1. ASSUME NEW m \in Keys, m # k, new[m] = p.name
        PROVE  FALSE
    <3>1. PICK j \in 1..n : table[m] = props[j].name
      BY <1>3, <1>8, <2>1
    <3> QED
      BY <1>3, <2>1, <3>1 DEF n
  <2>2. CASE i = k /\ l # k
    BY <1>2, <2>1, <2>2
  <2>3. CASE i # k /\ l = k
    BY <1>2, <2>1, <2>3
  <2>4. CASE i # k /\ l # k
    BY <1>3, <1>9, <2>4
  <2> QED
    BY <2>2, <2>3, <2>4
<1>13. Entries(new, props2)
  BY <1>4, <1>10, <1>11, <1>12 DEF Entries
<1> QED
  BY <1>13 DEF new, props2

LEMMA KeepsAddSlow ==
    ASSUME HeapTyped, Common, Full, AddSlow, Built
    PROVE  Common' /\ Full'
<1> DEFINE n == Len(own)
           p == Property(Name(made), Value(made))
<1>1. PICK k \in Free(obj.props) : own' = Append(own, p) /\ obj'.props = Put(obj.props, k, p)
  BY TypedAddSlow
<1>2. NumbersStay /\ obj.slow /\ obj'.slow
  BY TypedAddSlow
<1>3. NumbersInv' /\ NumbersFine'
  BY <1>2, NumbersKept DEF Common, Full
<1>4. /\ NamesInv' /\ OwnFine'
      /\ Len(own') = n + 1
      /\ \A j \in 1..n : own'[j] = own[j]
      /\ own'[n + 1].double <=> Value(made) = Double(made)
  BY <1>1, NameAdded DEF Common
<1>40. Len(own') = n + 1
  BY <1>4
<1>41. \A j \in 1..n : own'[j] = own[j]
  BY <1>4
<1>42. ~own'[n + 1].double
  BY <1>4, WordsDiffer
<1>5. /\ n \in Nat /\ made \in Nat /\ own \in Seq(Prop) /\ obj.props \in Seq(Words)
      /\ Len(obj.props) = TableLen
  BY <1>2, PartsTyped DEF HeapParts, HeapTyped
<1>6. p \in Prop /\ p.name = Name(made) /\ ~Empty(p.name)
  BY <1>5, WordsTyped, PropertyTyped, NewProperty, WordsDiffer
<1>7. \A j \in 1..Len(own) : own[j].name # p.name
  <2> SUFFICES ASSUME NEW j \in 1..Len(own) PROVE own[j].name # p.name
    OBVIOUS
  <2>1. PICK m \in 0..(made - 1) : own[j].name = Name(m)
    BY DEF Common, NamesInv
  <2>2. m # made
    BY <1>5
  <2> QED
    BY <1>6, <2>1, <2>2, NamesDiffer
<1>8. Entries(obj.props, own) /\ \A j \in 1..n : ~own[j].double
  BY <1>2 DEF Full, TableInv
<1> HIDE DEF p
<1>9. Entries(obj'.props, own')
  BY <1>1, <1>5, <1>6, <1>7, <1>8, EntriesAdded
<1>50. n \in Nat
  BY <1>5
<1> HIDE DEF n
<1>10. \A j \in 1..Len(own') : ~own'[j].double
  <2>1. \A j \in 1..(n + 1) : j = n + 1 \/ j \in 1..n
    BY <1>50
  <2> QED
    BY <1>8, <1>40, <1>41, <1>42, <2>1
<1>11. TableInv'
  BY <1>2, <1>9, <1>10 DEF TableInv
<1>12. FieldsInv' /\ DescsInv'
  BY <1>2 DEF FieldsInv, DescsInv
<1> QED
  BY <1>3, <1>4, <1>11, <1>12 DEF Common, Full

(* All but one are the others, in their order.                             *)
Leaves(e, props, left, j, n) ==
    /\ \A i \in 1..n : e[i] \in 1..Len(props) /\ left[i] = props[e[i]] /\ e[i] # j
    /\ \A i, l \in 1..n : e[i] = e[l] => i = l
    /\ \A i, l \in 1..n : i < l => e[i] < e[l]
    /\ \A m \in 1..Len(props) : m # j => \E i \in 1..n : e[i] = m

LEMMA WithoutIs ==
    ASSUME NEW props \in Seq(Prop), NEW j \in 1..Len(props)
    PROVE  \E e \in [1..(Len(props) - 1) -> 1..Len(props)] :
              Leaves(e, props, Without(props, j), j, Len(props) - 1)
<1> DEFINE n == Len(props) - 1
           e == [i \in 1..n |-> IF i < j THEN i ELSE i + 1]
<1>1. n \in Nat /\ n + 1 = Len(props) /\ j \in Nat /\ j >= 1 /\ j <= n + 1
  OBVIOUS
<1>2. \A i \in 1..n : Without(props, j)[i] = IF i < j THEN props[i] ELSE props[i + 1]
  BY DEF Without
<1>3. \A i \in 1..n : e[i] = IF i < j THEN i ELSE i + 1
  OBVIOUS
<1>4. e \in [1..n -> 1..Len(props)]
  <2>1. ASSUME NEW i \in 1..n
        PROVE  (IF i < j THEN i ELSE i + 1) \in 1..Len(props)
    BY <1>1
  <2> QED
    BY <2>1
<1> HIDE DEF e, n
<1>5. \A i \in 1..n : Without(props, j)[i] = props[e[i]]
  BY <1>2, <1>3
<1>6. \A i \in 1..n : e[i] # j
  BY <1>1, <1>3
<1>7. \A i, l \in 1..n : e[i] = e[l] => i = l
  BY <1>1, <1>3
<1>8. \A i, l \in 1..n : i < l => e[i] < e[l]
  BY <1>1, <1>3
<1>9. \A m \in 1..Len(props) : m # j => \E i \in 1..n : e[i] = m
  <2> SUFFICES ASSUME NEW m \in 1..Len(props), m # j PROVE \E i \in 1..n : e[i] = m
    OBVIOUS
  <2>1. CASE m < j
    <3>1. m \in 1..n
      BY <1>1, <2>1
    <3> QED
      BY <1>3, <2>1, <3>1
  <2>2. CASE m > j
    <3>1. m - 1 \in 1..n /\ ~(m - 1 < j) /\ (m - 1) + 1 = m
      BY <1>1, <2>2
    <3> QED
      BY <1>3, <3>1
  <2> QED
    BY <2>1, <2>2
<1> QED
  <2>1. \A i \in 1..n : e[i] \in 1..Len(props)
    BY <1>4
  <2>2. Leaves(e, props, Without(props, j), j, n)
    BY <1>5, <1>6, <1>7, <1>8, <1>9, <2>1 DEF Leaves
  <2> QED
    BY <1>4, <2>2 DEF n

LEMMA EntriesRemoved ==
    ASSUME NEW table \in Seq(Words), Len(table) = TableLen, NEW props \in Seq(Prop),
           Entries(table, props), NEW k \in Keys, NEW j \in 1..Len(props), ~Empty(table[k]),
           table[k] = props[j].name,
           \A i, l \in 1..Len(props) : props[i].name = props[l].name => i = l
    PROVE  Entries([table EXCEPT ![k] = Hole], Without(props, j))
<1> DEFINE n == Len(props) - 1
           new == [table EXCEPT ![k] = Hole]
           left == Without(props, j)
<1>1. Len(left) = n
  BY WithoutTyped
<1>20. PICK e \in [1..n -> 1..Len(props)] : Leaves(e, props, left, j, n)
  BY WithoutIs
<1>3. new[k] = Hole /\ \A l \in 1..TableLen : l # k => new[l] = table[l]
  BY KeysInTable
<1>4. ASSUME NEW l \in Keys, l # k
      PROVE  new[l] = table[l] /\ new[l + 1] = table[l + 1]
  <2>1. l \in 1..TableLen /\ l + 1 \in 1..TableLen /\ l + 1 # k
    BY <1>4, KeysInTable, KeysApart
  <2> QED
    BY <1>3, <1>4, <2>1
<1> HIDE DEF new, left, n
<1>2. /\ \A i \in 1..n : e[i] \in 1..Len(props) /\ left[i] = props[e[i]] /\ e[i] # j
      /\ \A m \in 1..Len(props) : m # j => \E i \in 1..n : e[i] = m
  BY <1>20 DEF Leaves
<1>71. \A i \in 1..Len(props) : \E l \in Keys :
         ~Empty(table[l]) /\ table[l] = props[i].name /\ table[l + 1] = props[i].val
  BY DEF Entries
<1>72. \A l \in Keys : ~Empty(table[l]) => \E i \in 1..Len(props) : table[l] = props[i].name
  BY DEF Entries
<1>73. \A i, l \in Keys : ~Empty(table[i]) /\ table[i] = table[l] => i = l
  BY DEF Entries
<1>5. \A i \in 1..n : \E l \in Keys :
         ~Empty(new[l]) /\ new[l] = left[i].name /\ new[l + 1] = left[i].val
  <2> SUFFICES ASSUME NEW i \in 1..n
               PROVE  \E l \in Keys :
                         ~Empty(new[l]) /\ new[l] = left[i].name /\ new[l + 1] = left[i].val
    OBVIOUS
  <2>1. e[i] \in 1..Len(props) /\ left[i] = props[e[i]] /\ e[i] # j
    BY <1>2
  <2>2. PICK l \in Keys : ~Empty(table[l]) /\ table[l] = left[i].name /\ table[l + 1] = left[i].val
    BY <1>71, <2>1
  <2>3. l # k
    BY <2>1, <2>2
  <2> QED
    BY <1>4, <2>2, <2>3
<1>6. ASSUME NEW l \in Keys, ~Empty(new[l])
      PROVE  l # k /\ new[l] = table[l]
  <2>1. l # k
    BY <1>3, <1>6, WordsDiffer
  <2> QED
    BY <1>4, <2>1
<1>7. \A l \in Keys : ~Empty(new[l]) => \E i \in 1..n : new[l] = left[i].name
  <2> SUFFICES ASSUME NEW l \in Keys, ~Empty(new[l])
               PROVE  \E i \in 1..n : new[l] = left[i].name
    OBVIOUS
  <2>1. l # k /\ new[l] = table[l]
    BY <1>6
  <2>2. PICK m \in 1..Len(props) : table[l] = props[m].name
    BY <1>72, <2>1
  <2>3. m # j
    BY <1>73, <2>1, <2>2
  <2>4. PICK i \in 1..n : e[i] = m
    BY <1>2, <2>3
  <2> QED
    BY <1>2, <2>1, <2>2, <2>4
<1>8. \A i, l \in Keys : ~Empty(new[i]) /\ new[i] = new[l] => i = l
  <2> SUFFICES ASSUME NEW i \in Keys, NEW l \in Keys, ~Empty(new[i]), new[i] = new[l]
               PROVE  i = l
    OBVIOUS
  <2>1. new[i] = table[i] /\ new[l] = table[l]
    BY <1>6
  <2> QED
    BY <1>73, <2>1
<1>9. Entries(new, left)
  BY <1>1, <1>5, <1>7, <1>8 DEF Entries
<1> QED
  BY <1>9 DEF new, left

LEMMA KeepsDeleteSlow ==
    ASSUME HeapTyped, Common, Full, DeleteSlow, Built
    PROVE  Common' /\ Full'
<1> DEFINE n == Len(own) - 1
<1>1. PICK k \in Keys \ Free(obj.props), j \in 1..Len(own) :
         /\ own[j].name = obj.props[k]
         /\ own' = Without(own, j)
         /\ obj'.props = [obj.props EXCEPT ![k] = Hole]
  BY TypedDeleteSlow
<1>2. NumbersStay /\ obj.slow /\ obj'.slow
  BY TypedDeleteSlow
<1>3. NumbersInv' /\ NumbersFine'
  BY <1>2, NumbersKept DEF Common, Full
<1>5. own \in Seq(Prop) /\ obj.props \in Seq(Words) /\ Len(obj.props) = TableLen /\ Len(own) \in Nat
  BY <1>2, PartsTyped DEF HeapParts, HeapTyped
<1>6. Entries(obj.props, own) /\ \A i \in 1..Len(own) : ~own[i].double
  BY <1>2 DEF Full, TableInv
<1>7. ~Empty(obj.props[k])
  BY DEF Free, Empty
<1>8. \A i, l \in 1..Len(own) : own[i].name = own[l].name => i = l
  BY DEF Common, NamesInv
<1>9. Entries(obj'.props, own')
  <2>1. Entries([obj.props EXCEPT ![k] = Hole], Without(own, j))
    BY <1>1, <1>5, <1>6, <1>7, <1>8, EntriesRemoved
  <2> QED
    BY <1>1, <2>1
<1>10. Len(own') = n /\ n \in Nat
  BY <1>1, <1>5, WithoutTyped
<1>20. PICK e \in [1..n -> 1..Len(own)] : Leaves(e, own, Without(own, j), j, n)
  BY <1>5, WithoutIs
<1> HIDE DEF n
<1>11. /\ \A i \in 1..n : Without(own, j)[i] = own[e[i]]
       /\ \A i, l \in 1..n : e[i] = e[l] => i = l
  BY <1>20 DEF Leaves
<1>12. \A i \in 1..n : own'[i] = own[e[i]]
  BY <1>1, <1>11
<1>13. NamesInv' /\ OwnFine'
  BY <1>10, <1>11, <1>12, NamesLeft DEF Common
<1>14. \A i \in 1..Len(own') : ~own'[i].double
  <2> SUFFICES ASSUME NEW i \in 1..n PROVE ~own'[i].double
    BY <1>10
  <2>1. e[i] \in 1..Len(own)
    OBVIOUS
  <2> QED
    BY <1>6, <1>12, <2>1
<1>15. TableInv'
  BY <1>2, <1>9, <1>14 DEF TableInv
<1>16. FieldsInv' /\ DescsInv'
  BY <1>2 DEF FieldsInv, DescsInv
<1> QED
  BY <1>3, <1>13, <1>15, <1>16 DEF Common, Full

-----------------------------------------------------------------------------
(* Numbered properties                                                     *)

LEMMA NumbersDiffer ==
    ASSUME HeapTyped, NumbersInv, NEW i \in 1..Len(elements), NEW j \in 1..Len(elements),
           elements[i].name = elements[j].name
    PROVE  i = j
<1>1. PICK r \in Nat : elements[j].name = Smi(r)
  BY DEF NumbersInv
<1>2. elements[i].name[2] = r /\ elements[j].name[2] = r
  BY <1>1, WordKinds
<1>3. ~(i < j) /\ ~(j < i)
  BY <1>2 DEF NumbersInv
<1>4. i \in Nat /\ j \in Nat
  BY PartsTyped DEF HeapParts
<1> QED
  BY <1>3, <1>4

LEMMA ElementAdded ==
    ASSUME HeapTyped, NumbersFine, Built, NEW k \in Nat,
           elements' = Append(elements, Property(Smi(k), Value(made)))
    PROVE  /\ NumbersFine'
           /\ Len(elements') = Len(elements) + 1
           /\ \A j \in 1..Len(elements) : elements'[j] = elements[j]
           /\ elements'[Len(elements) + 1].name = Smi(k)
           /\ elements'[Len(elements) + 1].val = Value(made)
<1> DEFINE p == Property(Smi(k), Value(made))
           n == Len(elements)
<1>1. made \in Nat /\ n \in Nat /\ elements \in Seq(Prop) /\ damage' = damage
  BY PartsTyped DEF HeapParts, Built
<1>2. p.name = Smi(k) /\ p.val = Value(made) /\ ~p.double /\ Fine(p)
  BY <1>1, NewProperty, WordsDiffer
<1>3. p \in Prop
  BY <1>1, WordsTyped, PropertyTyped
<1> HIDE DEF p
<1>4. elements' = Append(elements, p)
  BY DEF p
<1>5. Len(elements') = n + 1 /\ (\A j \in 1..n : elements'[j] = elements[j]) /\ elements'[n + 1] = p
  BY <1>1, <1>3, <1>4
<1>50. n \in Nat
  BY <1>1
<1> HIDE DEF n
<1>51. \A j \in 1..(n + 1) : j = n + 1 \/ j \in 1..n
  BY <1>50
<1>6. ASSUME NEW j \in 1..(n + 1)
      PROVE  Fine(elements'[j]) /\ ~elements'[j].double
  <2>1. CASE j = n + 1
    BY <1>2, <1>5, <2>1
  <2>2. CASE j \in 1..n
    <3>1. Fine(elements[j]) /\ ~elements[j].double
      BY <2>2 DEF NumbersFine, n
    <3> QED
      BY <1>5, <2>2, <3>1
  <2> QED
    BY <1>51, <2>1, <2>2
<1>7. NumbersFine'
  BY <1>1, <1>5, <1>6 DEF NumbersFine, Fine
<1> QED
  BY <1>2, <1>5, <1>7 DEF n

LEMMA KeepsAddElement ==
    ASSUME HeapTyped, Common, Full, AddElement, Built
    PROVE  Common' /\ Full'
<1> DEFINE n == Len(elements)
           L == Len(obj.elts)
<1>1. NamesStay /\ obj'.kind = obj.kind
  BY TypedAddElement
<1>2. NamesInv' /\ OwnFine' /\ FieldsInv' /\ DescsInv' /\ TableInv'
  BY <1>1, NamesKept DEF Common, Full
<1>3. /\ n \in Nat /\ L \in Nat /\ made \in Nat /\ MaxBuild \in Nat /\ made' = made + 1
      /\ elements \in Seq(Prop) /\ obj.elts \in Seq(Words)
  BY PartsTyped, SizesTyped DEF HeapParts, Built
<1>4. ASSUME NEW j \in 1..n
      PROVE  \E r \in Nat :
                /\ elements[j].name = Smi(r) /\ elements[j].name[2] = r
                /\ r < IF obj.kind = "dictionary" THEN MaxBuild + made ELSE L
  BY WordKinds DEF Full, NumbersInv
<1>5. \A i, j \in 1..n : i < j => elements[i].name[2] < elements[j].name[2]
  BY DEF Full, NumbersInv
<1>6. \A j \in 1..(n + 1) : j = n + 1 \/ j \in 1..n
  BY <1>3
<1>7. CASE obj.kind # "dictionary"
  <2>1. elements' = Append(elements, Property(Smi(L), Value(made)))
        /\ obj'.elts = Append(obj.elts, Value(made))
    BY <1>7, TypedAddElement
  <2>2. /\ NumbersFine' /\ Len(elements') = n + 1
        /\ \A j \in 1..n : elements'[j] = elements[j]
        /\ elements'[n + 1].name = Smi(L) /\ elements'[n + 1].val = Value(made)
    BY <1>3, <2>1, ElementAdded DEF Common
  <2>3. Len(obj'.elts) = L + 1 /\ obj'.elts[L + 1] = Value(made)
        /\ \A k \in 1..L : obj'.elts[k] = obj.elts[k]
    <3>1. Value(made) \in Words
      BY <1>3, WordsTyped
    <3> QED
      BY <1>3, <2>1, <3>1
  <2>4. /\ L <= made
        /\ \A j \in 1..n, r \in Nat :
              elements[j].name = Smi(r) => obj.elts[r + 1] = elements[j].val
        /\ \A k \in 1..L : obj.elts[k] # Hole =>
              \E j \in 1..n : elements[j].name = Smi(k - 1)
        /\ obj.kind \in {"fast", "other"} => \A k \in 1..L : obj.elts[k] # Hole
    BY <1>7 DEF Full, NumbersInv
  <2>40. n \in Nat /\ L \in Nat
    BY <1>3
  <2> HIDE DEF n, L
  <2>5. \A j \in 1..(n + 1) : \E r \in Nat : elements'[j].name = Smi(r) /\ r < L + 1
    <3> SUFFICES ASSUME NEW j \in 1..(n + 1)
                 PROVE  \E r \in Nat : elements'[j].name = Smi(r) /\ r < L + 1
      OBVIOUS
    <3>1. CASE j = n + 1
      BY <2>2, <2>40, <3>1
    <3>2. CASE j \in 1..n
      <4>1. PICK r \in Nat : elements[j].name = Smi(r) /\ r < L
        BY <1>4, <1>7, <3>2
      <4>2. r < L + 1
        BY <2>40, <4>1
      <4> QED
        BY <2>2, <3>2, <4>1, <4>2
    <3> QED
      BY <1>6, <3>1, <3>2
  <2>6. \A i, j \in 1..(n + 1) : i < j => elements'[i].name[2] < elements'[j].name[2]
    <3> SUFFICES ASSUME NEW i \in 1..(n + 1), NEW j \in 1..(n + 1), i < j
                 PROVE  elements'[i].name[2] < elements'[j].name[2]
      OBVIOUS
    <3>1. i \in 1..n
      BY <2>40
    <3>2. CASE j = n + 1
      <4>1. PICK r \in Nat : elements[i].name[2] = r /\ r < L
        BY <1>4, <1>7, <3>1
      <4> QED
        BY <2>2, <3>1, <3>2, <4>1, WordKinds
    <3>3. CASE j \in 1..n
      BY <1>5, <2>2, <3>1, <3>3
    <3> QED
      BY <1>6, <3>2, <3>3
  <2>7. ASSUME NEW j \in 1..(n + 1), NEW r \in Nat, elements'[j].name = Smi(r)
        PROVE  obj'.elts[r + 1] = elements'[j].val
    <3>1. CASE j = n + 1
      <4>1. r = L
        BY <2>2, <2>7, <3>1, NamesDiffer
      <4> QED
        BY <2>2, <2>3, <3>1, <4>1
    <3>2. CASE j \in 1..n
      <4>1. PICK q \in Nat : elements[j].name = Smi(q) /\ q < L
        BY <1>4, <1>7, <3>2
      <4>2. elements[j].name = Smi(r) /\ q = r
        BY <2>2, <2>7, <3>2, <4>1, NamesDiffer
      <4>3. r + 1 \in 1..L
        BY <2>40, <4>1, <4>2
      <4>4. obj.elts[r + 1] = elements[j].val
        BY <2>4, <3>2, <4>2
      <4> QED
        BY <2>2, <2>3, <3>2, <4>3, <4>4
    <3> QED
      BY <1>6, <3>1, <3>2
  <2>8. \A k \in 1..(L + 1) : k = L + 1 \/ k \in 1..L
    BY <2>40
  <2>9. \A k \in 1..(L + 1) : obj'.elts[k] # Hole =>
           \E j \in 1..(n + 1) : elements'[j].name = Smi(k - 1)
    <3> SUFFICES ASSUME NEW k \in 1..(L + 1), obj'.elts[k] # Hole
                 PROVE  \E j \in 1..(n + 1) : elements'[j].name = Smi(k - 1)
      OBVIOUS
    <3>1. CASE k = L + 1
      <4>1. n + 1 \in 1..(n + 1) /\ k - 1 = L
        BY <2>40, <3>1
      <4> QED
        BY <2>2, <4>1
    <3>2. CASE k \in 1..L
      <4>1. PICK j \in 1..n : elements[j].name = Smi(k - 1)
        BY <2>3, <2>4, <3>2
      <4>2. j \in 1..(n + 1)
        BY <2>40
      <4> QED
        BY <2>2, <4>1, <4>2
    <3> QED
      BY <2>8, <3>1, <3>2
  <2>10. obj.kind \in {"fast", "other"} => \A k \in 1..(L + 1) : obj'.elts[k] # Hole
    <3>1. Value(made) # Hole
      BY WordKinds, WordsDiffer
    <3> QED
      BY <2>3, <2>4, <2>8, <3>1
  <2>11. L + 1 <= made'
    BY <1>3, <2>4, <2>40
  <2>12. Len(elements') = n + 1 /\ Len(obj'.elts) = L + 1 /\ obj'.kind = obj.kind
    BY <1>1, <2>2, <2>3
  <2>13. NumbersInv'
    BY <1>7, <2>5, <2>6, <2>7, <2>9, <2>10, <2>11, <2>12 DEF NumbersInv
  <2> QED
    BY <1>2, <2>2, <2>13 DEF Common, Full
<1>8. CASE obj.kind = "dictionary"
  <2> DEFINE q == Property(Smi(MaxBuild + made), Value(made))
  <2>1. PICK k \in Free(obj.elts) : elements' = Append(elements, q) /\ obj'.elts = Put(obj.elts, k, q)
    BY <1>8, TypedAddElement
  <2>2. MaxBuild + made \in Nat
    BY <1>3
  <2>3. /\ NumbersFine' /\ Len(elements') = n + 1
        /\ \A j \in 1..n : elements'[j] = elements[j]
        /\ elements'[n + 1].name = Smi(MaxBuild + made)
    BY <2>1, <2>2, ElementAdded DEF Common
  <2>4. q \in Prop /\ q.name = Smi(MaxBuild + made) /\ ~Empty(q.name)
    <3> DEFINE word == Smi(MaxBuild + made)
    <3>1. word \in Words /\ Value(made) \in Words /\ ~Empty(word)
      BY <1>3, <2>2, WordsTyped, WordsDiffer
    <3> HIDE DEF word
    <3>2. q = Property(word, Value(made))
      BY DEF word
    <3>3. q \in Prop /\ q.name = word
      BY <1>3, <3>1, <3>2, PropertyTyped, NewProperty
    <3> QED
      BY <3>1, <3>3 DEF word
  <2>5. \A j \in 1..Len(elements) : elements[j].name # q.name
    <3> SUFFICES ASSUME NEW j \in 1..Len(elements) PROVE elements[j].name # q.name
      OBVIOUS
    <3>1. PICK r \in Nat : elements[j].name = Smi(r) /\ r < MaxBuild + made
      BY <1>4, <1>8
    <3>2. r # MaxBuild + made
      BY <2>2, <3>1
    <3> QED
      BY <2>4, <3>1, <3>2, NamesDiffer
  <2>6. Entries(obj.elts, elements) /\ Len(obj.elts) = TableLen
    BY <1>8 DEF Full, NumbersInv, HeapTyped
  <2> HIDE DEF q
  <2>7. Entries(obj'.elts, elements')
    BY <1>3, <2>1, <2>4, <2>5, <2>6, EntriesAdded
  <2>40. n \in Nat
    BY <1>3
  <2> HIDE DEF n
  <2>8. \A j \in 1..(n + 1) : \E r \in Nat : elements'[j].name = Smi(r) /\ r < MaxBuild + made'
    <3> SUFFICES ASSUME NEW j \in 1..(n + 1)
                 PROVE  \E r \in Nat : elements'[j].name = Smi(r) /\ r < MaxBuild + made'
      OBVIOUS
    <3>1. CASE j = n + 1
      <4>1. MaxBuild + made < MaxBuild + made'
        BY <1>3
      <4> QED
        BY <2>2, <2>3, <3>1, <4>1
    <3>2. CASE j \in 1..n
      <4>1. PICK r \in Nat : elements[j].name = Smi(r) /\ r < MaxBuild + made
        BY <1>4, <1>8, <3>2
      <4>2. r < MaxBuild + made'
        BY <1>3, <4>1
      <4> QED
        BY <2>3, <3>2, <4>1, <4>2
    <3> QED
      BY <1>6, <3>1, <3>2
  <2>9. \A i, j \in 1..(n + 1) : i < j => elements'[i].name[2] < elements'[j].name[2]
    <3> SUFFICES ASSUME NEW i \in 1..(n + 1), NEW j \in 1..(n + 1), i < j
                 PROVE  elements'[i].name[2] < elements'[j].name[2]
      OBVIOUS
    <3>1. i \in 1..n
      BY <2>40
    <3>2. CASE j = n + 1
      <4>1. PICK r \in Nat : elements[i].name[2] = r /\ r < MaxBuild + made
        BY <1>4, <1>8, <3>1
      <4> QED
        BY <2>3, <3>1, <3>2, <4>1, WordKinds
    <3>3. CASE j \in 1..n
      BY <1>5, <2>3, <3>1, <3>3
    <3> QED
      BY <1>6, <3>2, <3>3
  <2>10. NumbersInv'
    BY <1>1, <1>8, <2>3, <2>7, <2>8, <2>9 DEF NumbersInv
  <2> QED
    BY <1>2, <2>3, <2>10 DEF Common, Full
<1> QED
  BY <1>7, <1>8

LEMMA KeepsDeleteElement ==
    ASSUME HeapTyped, Common, Full, DeleteElement, Built
    PROVE  Common' /\ Full'
<1> DEFINE n == Len(elements) - 1
           L == Len(obj.elts)
<1>1. NamesStay /\ obj'.kind = "holey" /\ obj.kind \in {"fast", "holey"}
  BY TypedDeleteElement
<1>2. NamesInv' /\ OwnFine' /\ FieldsInv' /\ DescsInv' /\ TableInv'
  BY <1>1, NamesKept DEF Common, Full
<1>3. PICK j \in 1..Len(elements), k \in 1..L :
         /\ elements[j].name = Smi(k - 1)
         /\ elements' = Without(elements, j)
         /\ obj'.elts = [obj.elts EXCEPT ![k] = Hole]
  BY TypedDeleteElement
<1>4. /\ L \in Nat /\ made \in Nat /\ made' = made + 1 /\ damage' = damage
      /\ elements \in Seq(Prop) /\ obj.elts \in Seq(Words)
  BY PartsTyped DEF HeapParts, Built
<1>5. Len(elements') = n /\ n \in Nat
  <2>1. elements \in Seq(Prop)
    BY <1>4
  <2>2. Len(Without(elements, j)) = Len(elements) - 1
    BY <2>1, WithoutTyped
  <2>3. Len(elements) \in Nat /\ Len(elements) >= 1
    BY <2>1
  <2> QED
    BY <1>3, <2>2, <2>3
<1>6. PICK e \in [1..n -> 1..Len(elements)] : Leaves(e, elements, Without(elements, j), j, n)
  BY <1>4, WithoutIs
<1> HIDE DEF n
<1>7. /\ \A i \in 1..n : e[i] \in 1..Len(elements) /\ elements'[i] = elements[e[i]] /\ e[i] # j
      /\ \A i, l \in 1..n : i < l => e[i] < e[l]
      /\ \A m \in 1..Len(elements) : m # j => \E i \in 1..n : e[i] = m
  BY <1>3, <1>6 DEF Leaves
<1>8. Len(obj'.elts) = L /\ obj'.elts[k] = Hole /\ \A l \in 1..L : l # k => obj'.elts[l] = obj.elts[l]
  BY <1>3, <1>4
<1>9. obj.kind # "dictionary"
  BY <1>1
<1>10. /\ L <= made
       /\ \A i \in 1..Len(elements), r \in Nat :
             elements[i].name = Smi(r) => obj.elts[r + 1] = elements[i].val
       /\ \A l \in 1..L : obj.elts[l] # Hole =>
             \E i \in 1..Len(elements) : elements[i].name = Smi(l - 1)
       /\ \A i \in 1..Len(elements) : \E r \in Nat : elements[i].name = Smi(r) /\ r < L
       /\ \A i, l \in 1..Len(elements) : i < l => elements[i].name[2] < elements[l].name[2]
  BY <1>9 DEF Full, NumbersInv
<1> HIDE DEF L
<1>11. NumbersFine'
  <2>1. \A i \in 1..n : Fine(elements'[i]) /\ ~elements'[i].double
    BY <1>7 DEF Common, NumbersFine
  <2> QED
    BY <1>4, <1>5, <2>1 DEF NumbersFine, Fine
<1>12. \A i \in 1..n : \E r \in Nat : elements'[i].name = Smi(r) /\ r < L
  <2> SUFFICES ASSUME NEW i \in 1..n PROVE \E r \in Nat : elements'[i].name = Smi(r) /\ r < L
    OBVIOUS
  <2>1. e[i] \in 1..Len(elements) /\ elements'[i] = elements[e[i]]
    BY <1>7
  <2>2. \A m \in 1..Len(elements) : \E r \in Nat : elements[m].name = Smi(r) /\ r < L
    BY <1>10
  <2>3. PICK r \in Nat : elements[e[i]].name = Smi(r) /\ r < L
    BY <2>1, <2>2
  <2> QED
    BY <2>1, <2>3
<1>13. \A i, l \in 1..n : i < l => elements'[i].name[2] < elements'[l].name[2]
  <2> SUFFICES ASSUME NEW i \in 1..n, NEW l \in 1..n, i < l
               PROVE  elements'[i].name[2] < elements'[l].name[2]
    OBVIOUS
  <2>1. e[i] \in 1..Len(elements) /\ elements'[i] = elements[e[i]]
    BY <1>7
  <2>2. e[l] \in 1..Len(elements) /\ elements'[l] = elements[e[l]]
    BY <1>7
  <2>3. e[i] < e[l]
    BY <1>7
  <2> QED
    BY <1>10, <2>1, <2>2, <2>3
<1>14. ASSUME NEW i \in 1..n, NEW r \in Nat, elements'[i].name = Smi(r)
       PROVE  obj'.elts[r + 1] = elements'[i].val
  <2>1. e[i] \in 1..Len(elements) /\ elements[e[i]].name = Smi(r) /\ e[i] # j
    BY <1>7, <1>14
  <2>2. PICK q \in Nat : elements[e[i]].name = Smi(q) /\ q < L
    BY <1>10, <2>1
  <2>3. q = r
    BY <2>1, <2>2, NamesDiffer
  <2>4. r + 1 \in 1..L
    BY <1>4, <2>2, <2>3
  <2>5. r + 1 # k
    <3>1. SUFFICES ASSUME r + 1 = k PROVE FALSE
      OBVIOUS
    <3>2. k - 1 = r
      BY <3>1
    <3>3. elements[e[i]].name = elements[j].name
      BY <1>3, <2>1, <3>2
    <3> QED
      BY <2>1, <3>3, NumbersDiffer DEF Full
  <2> QED
    BY <1>7, <1>8, <1>10, <2>1, <2>4, <2>5
<1>15. \A l \in 1..L : obj'.elts[l] # Hole => \E i \in 1..n : elements'[i].name = Smi(l - 1)
  <2> SUFFICES ASSUME NEW l \in 1..L, obj'.elts[l] # Hole
               PROVE  \E i \in 1..n : elements'[i].name = Smi(l - 1)
    OBVIOUS
  <2>1. l # k
    BY <1>8
  <2>2. PICK m \in 1..Len(elements) : elements[m].name = Smi(l - 1)
    BY <1>8, <1>10, <2>1
  <2>3. m # j
    <3>1. SUFFICES ASSUME m = j PROVE FALSE
      OBVIOUS
    <3>2. l - 1 = k - 1
      BY <1>3, <2>2, <3>1, NamesDiffer
    <3> QED
      BY <1>4, <2>1, <3>2
  <2>4. PICK i \in 1..n : e[i] = m
    BY <1>7, <2>3
  <2> QED
    BY <1>7, <2>2, <2>4
<1>16. L <= made'
  BY <1>4, <1>10
<1>17. NumbersInv'
  BY <1>1, <1>5, <1>8, <1>12, <1>13, <1>14, <1>15, <1>16 DEF NumbersInv
<1> QED
  BY <1>2, <1>11, <1>17 DEF Common, Full

LEMMA KeepsSlowElements ==
    ASSUME HeapTyped, Common, Full, SlowElements, Built
    PROVE  Common' /\ Full'
<1>1. NamesStay /\ obj'.kind = "dictionary" /\ obj.kind # "dictionary"
      /\ obj'.elts = Table(elements) /\ elements' = elements /\ Len(elements) <= TableSize
  BY TypedSlowElements
<1>2. NamesInv' /\ OwnFine' /\ FieldsInv' /\ DescsInv' /\ TableInv'
  BY <1>1, NamesKept DEF Common, Full
<1>3. /\ Len(obj.elts) \in Nat /\ made \in Nat /\ made' = made + 1 /\ damage' = damage
      /\ elements \in Seq(Prop) /\ MaxBuild \in Nat
  BY PartsTyped, SizesTyped DEF HeapParts, Built
<1>4. \A j \in 1..Len(elements) : \E r \in Nat : elements[j].name = Smi(r) /\ r < Len(obj.elts)
  BY <1>1 DEF Full, NumbersInv
<1>5. Len(obj.elts) <= made
  BY <1>1 DEF Full, NumbersInv
<1>6. \A j \in 1..Len(elements) : \E r \in Nat : elements[j].name = Smi(r) /\ r < MaxBuild + made'
  <2> SUFFICES ASSUME NEW j \in 1..Len(elements)
               PROVE  \E r \in Nat : elements[j].name = Smi(r) /\ r < MaxBuild + made'
    OBVIOUS
  <2>1. PICK r \in Nat : elements[j].name = Smi(r) /\ r < Len(obj.elts)
    BY <1>4
  <2>2. r < MaxBuild + made'
    BY <1>3, <1>5, <2>1
  <2> QED
    BY <2>1, <2>2
<1>7. \A j \in 1..Len(elements) : ~Empty(elements[j].name)
  BY <1>4, WordsDiffer
<1>8. \A i, j \in 1..Len(elements) : elements[i].name = elements[j].name => i = j
  BY NumbersDiffer DEF Full
<1>9. Entries(obj'.elts, elements)
  BY <1>1, <1>3, <1>7, <1>8, TableHolds
<1>10. \A i, j \in 1..Len(elements) : i < j => elements[i].name[2] < elements[j].name[2]
  BY DEF Full, NumbersInv
<1>11. NumbersInv'
  BY <1>1, <1>6, <1>9, <1>10 DEF NumbersInv
<1>12. NumbersFine'
  BY <1>1, <1>3 DEF Common, NumbersFine, Fine
<1> QED
  BY <1>2, <1>11, <1>12 DEF Common, Full

LEMMA KeepsV8Step ==
    ASSUME HeapTyped, Common, Full, V8Step
    PROVE  HeapTyped' /\ Common' /\ Full' /\ damage' = damage
<1>1. Built
  BY DEF V8Step, Change, Built, AddField, AddOther, DeleteField, GoSlow, AddSlow, DeleteSlow,
         AddElement, DeleteElement, SlowElements
<1>2. HeapTyped'
  BY DoublesAre, TypedV8Step
<1>3. Common' /\ Full'
  BY <1>1, KeepsAddField, KeepsAddOther, KeepsDeleteField, KeepsGoSlow, KeepsAddSlow,
     KeepsDeleteSlow, KeepsAddElement, KeepsDeleteElement, KeepsSlowElements DEF V8Step
<1> QED
  BY <1>1, <1>2, <1>3 DEF Built

-----------------------------------------------------------------------------
(* What damage leaves                                                      *)

LEMMA FullPlaces ==
    ASSUME HeapTyped, Common, Full
    PROVE  PlacesInv
<1>1. ASSUME ~obj.slow, NEW j \in 1..Len(own)
      PROVE  \E k \in Fields(obj.descs) :
                obj.descs[k].key = own[j].name /\ obj.descs[k].index = Smi(j - 1)
  <2>1. Ranked(obj.descs, own, NFields)
    BY <1>1 DEF Full, DescsInv
  <2>2. NFields \in Nat /\ Len(own) \in Nat
    BY FieldsFinite, PartsTyped DEF HeapParts
  <2>3. j - 1 \in 0..(NFields - 1) /\ j - 1 < Len(own) /\ (j - 1) + 1 = j
    BY <2>1, <2>2 DEF Ranked
  <2>4. PICK k \in Fields(obj.descs) : obj.descs[k].index = Smi(j - 1)
    BY <2>1, <2>3 DEF Ranked
  <2>5. PICK r \in 0..(NFields - 1) :
           /\ obj.descs[k].index = Smi(r)
           /\ r < Len(own) => obj.descs[k].key = own[r + 1].name
    BY <2>1 DEF Ranked
  <2>6. r = j - 1
    BY <2>4, <2>5, NamesDiffer
  <2> QED
    BY <2>3, <2>4, <2>5, <2>6
<1>2. ASSUME obj.slow, NEW j \in 1..Len(own)
      PROVE  ~own[j].double /\ \E k \in Keys :
                ~Empty(obj.props[k]) /\ obj.props[k] = own[j].name /\ obj.props[k + 1] = own[j].val
  BY <1>2 DEF Full, TableInv, Entries
<1>3. Indexed
  <2>1. ~obj.slow => \A k \in Fields(obj.descs) : \E r \in 0..(NFields - 1) :
           obj.descs[k].index = Smi(r)
    BY DEF Full, DescsInv, Ranked
  <2>2. \A r \in 0..(NFields - 1) : r \in Nat
    BY FieldsFinite
  <2>3. ~obj.slow => Len(own) <= Len(obj.descs)
    <3>1. ~obj.slow => Len(own) <= NFields
      BY DEF Full, DescsInv, Ranked
    <3>2. NFields \in Nat /\ NFields <= Len(obj.descs) /\ Len(own) \in Nat /\ Len(obj.descs) \in Nat
      BY FieldsFinite, PartsTyped DEF HeapParts
    <3> QED
      BY <3>1, <3>2
  <2> QED
    BY <2>1, <2>2, <2>3 DEF Indexed
<1> QED
  BY <1>1, <1>2, <1>3 DEF PlacesInv

LEMMA CommonStays ==
    ASSUME HeapTyped, Common, damage' # "none", UNCHANGED <<ver, nin, made>>, OwnStays,
           obj'.slow = obj.slow, obj'.slots = obj.slots, Len(obj'.descs) = Len(obj.descs),
           obj'.props = obj.props \/ obj.slow
    PROVE  Common'
<1>1. NamesInv'
  BY DEF Common, NamesInv, OwnStays
<1>2. OwnFine' /\ NumbersFine'
  BY DEF Common, OwnFine, NumbersFine, OwnStays, Fine
<1>3. FieldsInv'
  BY DEF Common, FieldsInv, OwnStays
<1> QED
  BY <1>1, <1>2, <1>3 DEF Common

LEMMA DamageLoses ==
    ASSUME HeapTyped, Common, PlacesInv, LosePart \/ NotAnArray, damage' # "none",
           UNCHANGED <<ver, nin, made>>
    PROVE  Common' /\ PlacesInv'
<1>1. obj' = obj /\ OwnStays
  BY DEF LosePart, NotAnArray, OwnStays
<1>2. Common'
  BY <1>1, CommonStays
<1>3. PlacesInv'
  BY <1>1 DEF PlacesInv, Indexed, OwnStays, Far
<1> QED
  BY <1>2, <1>3

LEMMA DamageCuts ==
    ASSUME HeapTyped, Common, PlacesInv, CutContent, damage' # "none",
           UNCHANGED <<ver, nin, made>>
    PROVE  Common' /\ PlacesInv'
<1>1. NumbersStay /\ NamesStay
  BY TypedCutContent
<1>2. OwnStays
  BY <1>1 DEF NumbersStay, NamesStay, OwnStays
<1>3. Common'
  BY <1>1, <1>2, CommonStays DEF NamesStay
<1>4. PlacesInv'
  BY <1>1 DEF PlacesInv, Indexed, NamesStay, Far
<1> QED
  BY <1>3, <1>4

\* one descriptor changed
LEMMA DescChanged ==
    ASSUME HeapTyped, NEW k \in Fields(obj.descs), NEW d \in Desc, d.field,
           obj'.descs = [obj.descs EXCEPT ![k] = d]
    PROVE  /\ Fields(obj'.descs) = Fields(obj.descs) /\ Len(obj'.descs) = Len(obj.descs)
           /\ obj'.descs[k] = d
           /\ \A l \in Fields(obj.descs) : l # k => obj'.descs[l] = obj.descs[l]
<1>1. obj.descs \in Seq(Desc) /\ k \in 1..Len(obj.descs)
  BY PartsTyped, FieldsFinite DEF HeapParts
<1>2. /\ Len(obj'.descs) = Len(obj.descs) /\ obj'.descs[k] = d
      /\ \A l \in 1..Len(obj.descs) : l # k => obj'.descs[l] = obj.descs[l]
  BY <1>1
<1>3. obj.descs[k].field
  BY DEF Fields
<1>4. \A l \in 1..Len(obj.descs) : obj'.descs[l].field <=> obj.descs[l].field
  BY <1>2, <1>3
<1>5. Fields(obj'.descs) = Fields(obj.descs)
  BY <1>2, <1>4 DEF Fields
<1> QED
  BY <1>2, <1>5, FieldsFinite

LEMMA DamageKey ==
    ASSUME HeapTyped, Common, PlacesInv, RotKey, damage' # "none", UNCHANGED <<ver, nin, made>>
    PROVE  Common' /\ PlacesInv'
<1>1. OwnStays /\ obj'.slots = obj.slots /\ obj'.props = obj.props /\ obj'.slow = obj.slow
  BY TypedRotKey
<1>2. PICK k \in Fields(obj.descs), word \in {Undefined, Garbage} :
         obj'.descs = [obj.descs EXCEPT ![k] = Field(word, obj.descs[k].index)]
  BY TypedRotKey
<1> DEFINE d == Field(word, obj.descs[k].index)
<1>3. d.key = word /\ d.index = obj.descs[k].index /\ d.field /\ d \in Desc
  <2>1. k \in 1..Len(obj.descs) /\ obj.descs \in Seq(Desc)
    BY PartsTyped, FieldsFinite DEF HeapParts
  <2>2. obj.descs[k].index \in Words /\ word \in Words
    BY <2>1, DescIs, WordsTyped
  <2> QED
    BY <2>2 DEF Field, Desc
<1> HIDE DEF d
<1>4. /\ Fields(obj'.descs) = Fields(obj.descs) /\ Len(obj'.descs) = Len(obj.descs)
      /\ obj'.descs[k] = d
      /\ \A l \in Fields(obj.descs) : l # k => obj'.descs[l] = obj.descs[l]
  BY <1>2, <1>3, DescChanged DEF d
<1>5. Common'
  BY <1>1, <1>4, CommonStays
<1>6. ~obj.slow => \A j \in 1..Len(own) : \E l \in Fields(obj.descs) :
          /\ obj'.descs[l].key \in {own[j].name, Undefined, Garbage}
          /\ obj'.descs[l].index \in {Smi(j - 1), Far, Garbage}
  <2> SUFFICES ASSUME ~obj.slow, NEW j \in 1..Len(own)
               PROVE  \E l \in Fields(obj.descs) :
                         /\ obj'.descs[l].key \in {own[j].name, Undefined, Garbage}
                         /\ obj'.descs[l].index \in {Smi(j - 1), Far, Garbage}
    OBVIOUS
  <2>1. PICK l \in Fields(obj.descs) :
           /\ obj.descs[l].key \in {own[j].name, Undefined, Garbage}
           /\ obj.descs[l].index \in {Smi(j - 1), Far, Garbage}
    BY DEF PlacesInv
  <2> QED
    BY <1>3, <1>4, <2>1
<1>7. Indexed'
  BY <1>1, <1>3, <1>4 DEF PlacesInv, Indexed, OwnStays
<1>8. PlacesInv'
  BY <1>1, <1>4, <1>6, <1>7 DEF PlacesInv, OwnStays, Far
<1> QED
  BY <1>5, <1>8

LEMMA DamageIndex ==
    ASSUME HeapTyped, Common, PlacesInv, RotIndex, damage' # "none", UNCHANGED <<ver, nin, made>>
    PROVE  Common' /\ PlacesInv'
<1>1. OwnStays /\ obj'.slots = obj.slots /\ obj'.props = obj.props /\ obj'.slow = obj.slow
  BY TypedRotIndex
<1>2. PICK k \in Fields(obj.descs), word \in {Far, Garbage} :
         obj'.descs = [obj.descs EXCEPT ![k] = Field(obj.descs[k].key, word)]
  <2>1. PICK k \in Fields(obj.descs), word \in {Far} \cup IF ver.indetails THEN {} ELSE {Garbage} :
         obj'.descs = [obj.descs EXCEPT ![k] = Field(obj.descs[k].key, word)]
    BY TypedRotIndex
  <2> QED
    BY <2>1
<1> DEFINE d == Field(obj.descs[k].key, word)
<1>3. d.index = word /\ d.key = obj.descs[k].key /\ d.field /\ d \in Desc
  <2>1. k \in 1..Len(obj.descs) /\ obj.descs \in Seq(Desc)
    BY PartsTyped, FieldsFinite DEF HeapParts
  <2>2. MaxBuild + nin \in Nat
    BY SizesTyped, PartsTyped DEF HeapParts
  <2>3. obj.descs[k].key \in Words /\ word \in Words
    BY <2>1, <2>2, DescIs, WordsTyped DEF Far
  <2> QED
    BY <2>3 DEF Field, Desc
<1> HIDE DEF d
<1>4. /\ Fields(obj'.descs) = Fields(obj.descs) /\ Len(obj'.descs) = Len(obj.descs)
      /\ obj'.descs[k] = d
      /\ \A l \in Fields(obj.descs) : l # k => obj'.descs[l] = obj.descs[l]
  BY <1>2, <1>3, DescChanged DEF d
<1>5. Common'
  BY <1>1, <1>4, CommonStays
<1>6. ~obj.slow => \A j \in 1..Len(own) : \E l \in Fields(obj.descs) :
          /\ obj'.descs[l].key \in {own[j].name, Undefined, Garbage}
          /\ obj'.descs[l].index \in {Smi(j - 1), Far, Garbage}
  <2> SUFFICES ASSUME ~obj.slow, NEW j \in 1..Len(own)
               PROVE  \E l \in Fields(obj.descs) :
                         /\ obj'.descs[l].key \in {own[j].name, Undefined, Garbage}
                         /\ obj'.descs[l].index \in {Smi(j - 1), Far, Garbage}
    OBVIOUS
  <2>1. PICK l \in Fields(obj.descs) :
           /\ obj.descs[l].key \in {own[j].name, Undefined, Garbage}
           /\ obj.descs[l].index \in {Smi(j - 1), Far, Garbage}
    BY DEF PlacesInv
  <2> QED
    BY <1>3, <1>4, <2>1
<1>7. Indexed'
  <2>1. word = Garbage \/ \E r \in Nat : word = Smi(r)
    <3>1. MaxBuild + nin \in Nat
      BY SizesTyped, PartsTyped DEF HeapParts
    <3> QED
      BY <3>1 DEF Far
  <2> QED
    BY <1>1, <1>3, <1>4, <2>1 DEF PlacesInv, Indexed, OwnStays
<1>8. PlacesInv'
  BY <1>1, <1>4, <1>6, <1>7 DEF PlacesInv, OwnStays, Far
<1> QED
  BY <1>5, <1>8

LEMMA DamageTable ==
    ASSUME HeapTyped, Common, PlacesInv, RotTable, damage' # "none", UNCHANGED <<ver, nin, made>>
    PROVE  Common' /\ PlacesInv'
<1>1. OwnStays /\ obj'.slots = obj.slots /\ obj'.descs = obj.descs /\ obj.slow /\ obj'.slow
  BY TypedRotTable
<1>2. PICK k \in Keys, word \in {Internal, Garbage} :
         obj'.props = [obj.props EXCEPT ![k] = word]
  BY TypedRotTable
<1>3. Common'
  BY <1>1, CommonStays
<1>4. obj.props \in Seq(Words) /\ Len(obj.props) = TableLen
  BY <1>1, PartsTyped DEF HeapParts, HeapTyped
<1>5. obj'.props[k] = word /\ \A l \in 1..TableLen : l # k => obj'.props[l] = obj.props[l]
  BY <1>2, <1>4, KeysInTable
<1>6. ASSUME NEW l \in Keys, l # k
      PROVE  obj'.props[l] = obj.props[l] /\ obj'.props[l + 1] = obj.props[l + 1]
  <2>1. l \in 1..TableLen /\ l + 1 \in 1..TableLen /\ l + 1 # k
    BY <1>6, KeysInTable, KeysApart
  <2> QED
    BY <1>5, <1>6, <2>1
<1>7. \A j \in 1..Len(own) : ~own[j].double /\ \E l \in Keys :
          \/ ~Empty(obj'.props[l]) /\ obj'.props[l] = own[j].name /\ obj'.props[l + 1] = own[j].val
          \/ obj'.props[l] \in {Internal, Garbage}
  <2> SUFFICES ASSUME NEW j \in 1..Len(own)
               PROVE  ~own[j].double /\ \E l \in Keys :
                         \/ /\ ~Empty(obj'.props[l]) /\ obj'.props[l] = own[j].name
                            /\ obj'.props[l + 1] = own[j].val
                         \/ obj'.props[l] \in {Internal, Garbage}
    OBVIOUS
  <2>1. PICK l \in Keys :
           \/ ~Empty(obj.props[l]) /\ obj.props[l] = own[j].name /\ obj.props[l + 1] = own[j].val
           \/ obj.props[l] \in {Internal, Garbage}
    BY <1>1 DEF PlacesInv
  <2>2. ~own[j].double
    BY <1>1 DEF PlacesInv
  <2>3. CASE l = k
    BY <1>5, <2>2, <2>3
  <2>4. CASE l # k
    BY <1>6, <2>1, <2>2, <2>4
  <2> QED
    BY <2>3, <2>4
<1>8. PlacesInv'
  BY <1>1, <1>7 DEF PlacesInv, Indexed, OwnStays
<1> QED
  BY <1>3, <1>8

\* a word, and the value of a property, of which one value was collected
Rot(word, n) == IF word = Value(n) THEN Garbage ELSE word

LEMMA RotIs ==
    ASSUME NEW p, Fine(p), p \in Prop, NEW n, damage = "none"
    PROVE  LET q == IF p.val = Value(n) THEN Property(p.name, Garbage) ELSE p
           IN /\ q.name = p.name /\ q.val = Rot(p.val, n)
              /\ (q.double <=> p.double) /\ (q.double <=> q.val[1] = "double")
              /\ q.val = Garbage \/ \E m \in Nat : q.val \in {Value(m), Double(m)}
<1>1. CASE p.val = Value(n)
  <2>1. ~p.double
    BY <1>1, WordKinds DEF Fine
  <2>2. Garbage[1] # "double"
    BY WordKinds
  <2>3. Property(p.name, Garbage).double = (Garbage[1] = "double")
    BY DEF Property
  <2> QED
    BY <1>1, <2>1, <2>2, <2>3 DEF Property, Rot
<1>2. CASE p.val # Value(n)
  BY <1>2 DEF Rot, Fine
<1> QED
  BY <1>1, <1>2

LEMMA RotWordsIs ==
    ASSUME NEW words \in Seq(Words), NEW n, NEW k \in 1..Len(words)
    PROVE  RotWords(words, n)[k] = Rot(words[k], n)
BY DEF RotWords, Rot

LEMMA DamageValue ==
    ASSUME HeapTyped, Common, PlacesInv, RotValue, damage = "none", damage' # "none",
           UNCHANGED <<ver, nin, made>>
    PROVE  Common' /\ PlacesInv'
<1>1. obj'.descs = obj.descs /\ obj'.slow = obj.slow
  BY TypedRotValue
<1>2. PICK n \in Nat :
         /\ own' = RotIn(own, n) /\ elements' = RotIn(elements, n)
         /\ obj'.slots = RotWords(obj.slots, n) /\ obj'.props = RotWords(obj.props, n)
  BY TypedRotValue
<1>3. /\ own \in Seq(Prop) /\ elements \in Seq(Prop) /\ obj.slots \in Seq(Words)
      /\ obj.props \in Seq(Words) /\ Len(obj.slots) = nin /\ nin \in Nat
      /\ Len(own) \in Nat /\ Len(obj.props) \in Nat
  BY PartsTyped DEF HeapParts
<1>4. /\ Len(own') = Len(own) /\ Len(elements') = Len(elements)
      /\ Len(obj'.props) = Len(obj.props)
  BY <1>2, <1>3, RotInTyped, RotWordsTyped
<1>5. ASSUME NEW j \in 1..Len(own)
      PROVE  /\ own'[j].name = own[j].name /\ own'[j].val = Rot(own[j].val, n)
             /\ (own'[j].double <=> own[j].double)
             /\ (own'[j].double <=> own'[j].val[1] = "double")
             /\ own'[j].val = Garbage \/ \E m \in Nat : own'[j].val \in {Value(m), Double(m)}
  <2>1. Fine(own[j]) /\ own[j] \in Prop
    BY <1>3 DEF Common, OwnFine
  <2>2. own'[j] = IF own[j].val = Value(n) THEN Property(own[j].name, Garbage) ELSE own[j]
    BY <1>2 DEF RotIn
  <2> QED
    BY <2>1, <2>2, RotIs
<1>6. ASSUME NEW j \in 1..Len(elements)
      PROVE  /\ (elements'[j].double <=> elements[j].double)
             /\ (elements'[j].double <=> elements'[j].val[1] = "double")
             /\ \/ elements'[j].val = Garbage
                \/ \E m \in Nat : elements'[j].val \in {Value(m), Double(m)}
  <2>1. Fine(elements[j]) /\ elements[j] \in Prop
    BY <1>3 DEF Common, NumbersFine
  <2>2. elements'[j] = IF elements[j].val = Value(n) THEN Property(elements[j].name, Garbage)
                       ELSE elements[j]
    BY <1>2 DEF RotIn
  <2> QED
    BY <2>1, <2>2, RotIs
<1>50. \A j \in 1..Len(own) : own'[j].name = own[j].name
  BY <1>5
<1>51. \A j \in 1..Len(own) : own'[j].val = Rot(own[j].val, n)
  BY <1>5
<1>52. \A j \in 1..Len(own) : own'[j].double => own[j].double
  BY <1>5
<1>7. OwnFine'
  BY <1>4, <1>5 DEF OwnFine, Fine
<1>8. NumbersFine'
  <2>1. \A j \in 1..Len(elements) : ~elements[j].double
    BY DEF Common, NumbersFine
  <2> QED
    BY <1>4, <1>6, <2>1 DEF NumbersFine, Fine
<1>9. NamesInv'
  <2>1. \A j \in 1..Len(own) : \E m \in 0..(made - 1) : own'[j].name = Name(m)
    BY <1>50 DEF Common, NamesInv
  <2>2. \A i, j \in 1..Len(own) : own'[i].name = own'[j].name => i = j
    BY <1>50 DEF Common, NamesInv
  <2> QED
    BY <1>4, <2>1, <2>2 DEF NamesInv
<1>10. FieldsInv'
  <2> SUFFICES ASSUME ~obj.slow
               PROVE  /\ Len(obj.descs) <= made
                      /\ Laid(own', obj'.props, obj'.slots, nin)
                      /\ Unboxed(own', nin, ver.layout)
    BY <1>1 DEF FieldsInv
  <2>1. Len(obj.descs) <= made /\ Laid(own, obj.props, obj.slots, nin) /\ Unboxed(own, nin, ver.layout)
    BY DEF Common, FieldsInv
  <2>2. Unboxed(own', nin, ver.layout)
    BY <1>4, <1>52, <2>1 DEF Unboxed
  <2>3. \A j \in 1..Len(own) : j <= nin => obj'.slots[j] = own'[j].val
    <3> SUFFICES ASSUME NEW j \in 1..Len(own), j <= nin PROVE obj'.slots[j] = own'[j].val
      OBVIOUS
    <3>1. j \in 1..Len(obj.slots)
      BY <1>3
    <3>2. obj'.slots[j] = Rot(obj.slots[j], n)
      BY <1>2, <1>3, <3>1, RotWordsIs
    <3> QED
      BY <1>51, <2>1, <3>2 DEF Laid
  <2>4. \A j \in 1..Len(own) : j > nin => obj'.props[j - nin] = own'[j].val
    <3> SUFFICES ASSUME NEW j \in 1..Len(own), j > nin PROVE obj'.props[j - nin] = own'[j].val
      OBVIOUS
    <3>1. Len(obj.props) = IF Len(own) > nin THEN Len(own) - nin ELSE 0
      BY <2>1 DEF Laid
    <3>2. j - nin \in 1..Len(obj.props)
      BY <1>3, <3>1
    <3>3. obj'.props[j - nin] = Rot(obj.props[j - nin], n)
      BY <1>2, <1>3, <3>2, RotWordsIs
    <3> QED
      BY <1>51, <2>1, <3>3 DEF Laid
  <2>5. \A j \in 1..nin : j > Len(own) => obj'.slots[j] = Undefined
    <3> SUFFICES ASSUME NEW j \in 1..nin, j > Len(own) PROVE obj'.slots[j] = Undefined
      OBVIOUS
    <3>1. obj.slots[j] = Undefined
      BY <2>1 DEF Laid
    <3>2. obj'.slots[j] = Rot(obj.slots[j], n)
      BY <1>2, <1>3, RotWordsIs
    <3>3. Undefined # Value(n)
      BY WordKinds
    <3> QED
      BY <3>1, <3>2, <3>3 DEF Rot
  <2>6. Len(obj'.props) = IF Len(own') > nin THEN Len(own') - nin ELSE 0
    BY <1>4, <2>1 DEF Laid
  <2>7. Laid(own', obj'.props, obj'.slots, nin)
    BY <1>4, <2>3, <2>4, <2>5, <2>6 DEF Laid
  <2> QED
    BY <2>1, <2>2, <2>7
<1>11. ~obj.slow => \A j \in 1..Len(own) : \E k \in Fields(obj.descs) :
          /\ obj.descs[k].key \in {own'[j].name, Undefined, Garbage}
          /\ obj.descs[k].index \in {Smi(j - 1), Far, Garbage}
  BY <1>50 DEF PlacesInv
<1>12. obj.slow => \A j \in 1..Len(own) : ~own'[j].double /\ \E k \in Keys :
          \/ /\ ~Empty(obj'.props[k]) /\ obj'.props[k] = own'[j].name
             /\ obj'.props[k + 1] = own'[j].val
          \/ obj'.props[k] \in {Internal, Garbage}
  <2> SUFFICES ASSUME obj.slow, NEW j \in 1..Len(own)
               PROVE  ~own'[j].double /\ \E k \in Keys :
                         \/ /\ ~Empty(obj'.props[k]) /\ obj'.props[k] = own'[j].name
                            /\ obj'.props[k + 1] = own'[j].val
                         \/ obj'.props[k] \in {Internal, Garbage}
    OBVIOUS
  <2>1. ~own'[j].double
    BY <1>52 DEF PlacesInv
  <2>2. PICK k \in Keys :
          \/ ~Empty(obj.props[k]) /\ obj.props[k] = own[j].name /\ obj.props[k + 1] = own[j].val
          \/ obj.props[k] \in {Internal, Garbage}
    BY DEF PlacesInv
  <2>3. k \in 1..Len(obj.props) /\ k + 1 \in 1..Len(obj.props)
    BY KeysInTable DEF HeapTyped
  <2>4. obj'.props[k] = Rot(obj.props[k], n) /\ obj'.props[k + 1] = Rot(obj.props[k + 1], n)
    BY <1>2, <1>3, <2>3, RotWordsIs
  <2>5. obj.props[k] # Value(n)
    <3>1. Value(n) \notin {Internal, Garbage}
      BY WordKinds
    <3>2. \E m : own[j].name = Name(m)
      BY DEF Common, NamesInv
    <3> QED
      BY <2>2, <3>1, <3>2, WordsDiffer
  <2>6. obj'.props[k] = obj.props[k]
    BY <2>4, <2>5 DEF Rot
  <2> QED
    BY <1>50, <1>51, <2>1, <2>2, <2>4, <2>6
<1>13. PlacesInv'
  BY <1>1, <1>4, <1>11, <1>12 DEF PlacesInv, Indexed, Far
<1> QED
  BY <1>7, <1>8, <1>9, <1>10, <1>13 DEF Common

LEMMA HeapNext ==
    ASSUME HeapInv, [Next]_opvars
    PROVE  HeapInv'
<1>1. CASE V8Step
  <2>1. damage = "none"
    BY <1>1 DEF V8Step, Change, AddField, AddOther, DeleteField, GoSlow, AddSlow, DeleteSlow,
                AddElement, DeleteElement, SlowElements
  <2> QED
    BY <1>1, <2>1, KeepsV8Step DEF HeapInv
<1>2. CASE DamageStep
  <2>1. damage = "none" /\ damage' # "none" /\ UNCHANGED <<ver, nin, made>>
    BY <1>2 DEF DamageStep, Damaged, LosePart, Parts, NotAnArray, RotValue, RotKey, RotIndex,
                RotTable, CutContent
  <2>2. HeapTyped /\ Common /\ PlacesInv
    BY <2>1, FullPlaces DEF HeapInv
  <2>3. HeapTyped'
    BY <1>2, <2>2, TypedDamageStep
  <2>4. Common' /\ PlacesInv'
    BY <1>2, <2>1, <2>2, DamageLoses, DamageCuts, DamageKey, DamageIndex, DamageTable, DamageValue
       DEF DamageStep
  <2> QED
    BY <2>1, <2>3, <2>4 DEF HeapInv
<1>3. CASE UNCHANGED heapvars
  BY <1>3 DEF HeapInv, heapvars, HeapTyped, Common, NamesInv, OwnFine, NumbersFine, Fine, FieldsInv,
       Full, DescsInv, NFields, TableInv, NumbersInv, PlacesInv, Indexed, Far
<1> QED
  BY <1>1, <1>2, <1>3, WalkLeavesMemory DEF Next, opvars

LEMMA HeapAlways == Spec => []HeapInv
<1>1. Init => HeapInv
  BY HeapInit
<1>2. HeapInv /\ [Next]_opvars => HeapInv'
  BY HeapNext
<1> QED
  BY <1>1, <1>2, PTL DEF Spec

-----------------------------------------------------------------------------
(* What the walk reads                                                     *)

\* numbers below a bound, if any, have a largest
LEMMA Largest ==
    ASSUME NEW n \in Nat, NEW T, T \subseteq 0..n, T # {}
    PROVE  \E x \in T : \A y \in T : y <= x
<1> DEFINE R == OpToRel(<, Nat)
           D == {n - x : x \in T}
<1>1. IsWellFoundedOn(R, Nat)
  BY NatLessThanWellFounded
<1>2. \A x, y \in Nat : y < x => <<y, x>> \in R
  BY DEF OpToRel
<1>3. D \subseteq Nat /\ D # {}
  <2>1. \A x \in T : n - x \in Nat
    OBVIOUS
  <2> QED
    BY <2>1
<1> HIDE DEF R
<1>4. PICK d \in D : \A y \in D : ~ (<<y, d>> \in R)
  BY <1>1, <1>3, WFMin
<1>5. PICK x \in T : d = n - x
  OBVIOUS
<1>6. ASSUME NEW y \in T PROVE y <= x
  <2>1. n - y \in D
    OBVIOUS
  <2>2. n - y \in Nat /\ d \in Nat
    BY <1>3, <2>1
  <2>3. ~(n - y < d)
    BY <1>2, <1>4, <2>1, <2>2, Zenon
  <2> QED
    BY <1>5, <2>2, <2>3
<1> QED
  BY <1>6

LEMMA Division ==
    ASSUME NEW k \in Nat, NEW w \in Nat \ {0}
    PROVE  /\ k \div w \in Nat /\ k % w \in 0..(w - 1)
           /\ k = (k \div w) * w + (k % w)
OBVIOUS

LEMMA Quotients ==
    ASSUME NEW a \in Nat, NEW b \in Nat, NEW w \in Nat \ {0}, b <= a
    PROVE  b \div w <= a \div w
<1> DEFINE p == a \div w
           q == b \div w
           r == a % w
           s == b % w
<1>1. p \in Nat /\ q \in Nat /\ r \in 0..(w - 1) /\ s \in 0..(w - 1) /\ a = p * w + r /\ b = q * w + s
  BY Division
<1> HIDE DEF p, q, r, s
<1>2. SUFFICES ASSUME p < q PROVE FALSE
  BY <1>1 DEF p, q
<1>3. PICK e \in Nat : q = p + 1 + e
  <2>1. q - p - 1 \in Nat /\ q = p + 1 + (q - p - 1)
    BY <1>1, <1>2
  <2> QED
    BY <2>1
<1>4. q * w = p * w + w + e * w
  BY <1>1, <1>3
<1>5. e * w \in Nat /\ p * w \in Nat
  BY <1>3, <1>1
<1> QED
  BY <1>1, <1>4, <1>5

(* The bits that are set in a layout descriptor are the words that hold    *)
(* unboxed doubles, whatever the width of its own words.                   *)
LEMMA LayoutBits ==
    ASSUME NEW n \in Nat, NEW untagged, untagged \subseteq 0..n, NEW k \in Nat
    PROVE  /\ k \div WordBits < Len(Layout(untagged))
           /\ k % WordBits \in Layout(untagged)[k \div WordBits + 1]
           <=> k \in untagged
<1> DEFINE w == WordBits
           q == k \div w
           r == k % w
<1>1. w \in Nat \ {0}
  BY SizesTyped
<1>2. q \in Nat /\ r \in 0..(w - 1) /\ k = q * w + r
  BY <1>1, Division
<1>3. CASE untagged = {}
  <2>1. Layout(untagged) = <<{}>>
    BY <1>3 DEF Layout
  <2>2. Len(<<{}>>) = 1 /\ <<{}>>[1] = {}
    OBVIOUS
  <2>3. q < 1 => q + 1 = 1
    BY <1>2
  <2> HIDE DEF q, r
  <2> QED
    BY <1>3, <2>1, <2>2, <2>3 DEF q, r
<1>4. CASE untagged # {}
  <2> DEFINE top == CHOOSE x \in untagged : \A l \in untagged : l <= x
             bits == [i \in 1..(top \div w + 1) |->
                         {b \in 0..(w - 1) : (i - 1) * w + b \in untagged}]
  <2>1. top \in untagged /\ \A l \in untagged : l <= top
    BY <1>4, Largest, Zenon
  <2>2. Layout(untagged) = bits
    BY <1>4 DEF Layout
  <2> HIDE DEF top
  <2>3. top \in Nat
    BY <2>1
  <2>4. top \div w \in Nat
    BY <1>1, <2>3, Division
  <2>5. Len(bits) = top \div w + 1
    BY <2>4
  <2>6. ASSUME q < Len(bits)
        PROVE  r \in bits[q + 1] <=> k \in untagged
    <3>1. q + 1 \in 1..(top \div w + 1) /\ (q + 1) - 1 = q
      BY <1>2, <2>4, <2>5, <2>6
    <3>2. bits[q + 1] = {b \in 0..(w - 1) : q * w + b \in untagged}
      BY <3>1
    <3> HIDE DEF q, r, w, bits
    <3> QED
      BY <1>2, <3>2
  <2>7. k \in untagged => q < Len(bits)
    <3>1. SUFFICES ASSUME k \in untagged PROVE q <= top \div w
      BY <1>2, <2>4, <2>5
    <3>2. k <= top
      BY <2>1, <3>1
    <3> QED
      BY <1>1, <2>3, <3>2, Quotients
  <2> HIDE DEF bits, q, r
  <2> QED
    BY <2>2, <2>6, <2>7 DEF q, r
<1> QED
  BY <1>3, <1>4

LEMMA UntaggedIs ==
    ASSUME HeapTyped, NEW r \in Nat
    PROVE  IsUntagged(r) <=> ver.layout /\ r < nin /\ obj.slots[r + 1][1] = "double"
<1>1. nin \in Nat
  BY DEF HeapTyped
<1>2. Untagged(obj) \subseteq 0..nin
  BY <1>1 DEF Untagged
<1>3. r \in 0..(nin - 1) <=> r < nin
  BY <1>1
<1>4. r \in Untagged(obj) <=> r < nin /\ obj.slots[r + 1][1] = "double"
  BY <1>3 DEF Untagged
<1> QED
  BY <1>1, <1>2, <1>4, LayoutBits DEF IsUntagged

LEMMA PlacesIndexed ==
    ASSUME HeapInv
    PROVE  HeapTyped /\ Common /\ PlacesInv /\ Indexed
<1>1. HeapTyped /\ Common
  BY DEF HeapInv
<1>2. PlacesInv
  BY <1>1, FullPlaces DEF HeapInv
<1> QED
  BY <1>1, <1>2 DEF PlacesInv

(* Where a field with an index is, whichever way the version has it.       *)
LEMMA FieldAt ==
    ASSUME HeapTyped, NEW d \in Desc, NEW r \in Nat, d.index = Smi(r)
    PROVE  /\ InObject(d) <=> r < nin
           /\ ArrayIdx(d) = r - nin
           /\ PropIdx(d) = IF ver.indetails THEN r ELSE r - nin
           /\ r < nin => SlotWord(d) = obj.slots[r + 1]
           /\ IsUntagged(PropIdx(d)) <=> ver.layout /\ r < nin /\ obj.slots[r + 1][1] = "double"
<1>1. d.index[2] = r
  BY WordKinds
<1>2. nin \in Nat /\ obj.slots \in Seq(Words) /\ Len(obj.slots) = nin
  BY PartsTyped DEF HeapParts
<1>3. PropIdx(d) = IF ver.indetails THEN r ELSE r - nin
  BY <1>1 DEF PropIdx
<1>4. InObject(d) <=> r < nin
  BY <1>2, <1>3 DEF InObject
<1>5. ArrayIdx(d) = r - nin
  BY <1>3 DEF ArrayIdx
<1>6. ASSUME r < nin
      PROVE  SlotWord(d) = obj.slots[r + 1]
  <2> DEFINE front == <<Internal, Internal, Internal>>
  <2>1. Len(front) = 3 /\ front \in Seq(Words)
    BY WordsTyped
  <2> HIDE DEF front
  <2>2. ObjWords = front \o obj.slots
    BY DEF ObjWords, front
  <2>3. Len(ObjWords) = 3 + nin
    <3>1. Len(front \o obj.slots) = Len(front) + Len(obj.slots)
      BY <1>2, <2>1, ConcatProperties
    <3> QED
      BY <1>2, <2>1, <2>2, <3>1
  <2>4. 4 + r \in 1..(3 + nin) /\ 4 + r > 3 /\ (4 + r) - 3 = r + 1
    BY <1>2, <1>6
  <2>5. ObjWords[4 + r] = obj.slots[r + 1]
    <3>1. 4 + r \in 1..(Len(front) + Len(obj.slots))
      BY <1>2, <2>1, <2>4
    <3>2. (front \o obj.slots)[4 + r] = IF 4 + r <= Len(front) THEN front[4 + r]
                                        ELSE obj.slots[(4 + r) - Len(front)]
      BY <1>2, <2>1, <3>1, ConcatProperties
    <3>3. ~(4 + r <= 3)
      BY <2>4
    <3> QED
      BY <2>1, <2>2, <2>4, <3>2, <3>3
  <2>6. (1 + IF ver.indetails THEN (3 + nin) - (nin - PropIdx(d)) ELSE (3 + nin) + PropIdx(d)) = 4 + r
    BY <1>2, <1>3
  <2> QED
    BY <2>3, <2>5, <2>6 DEF SlotWord
<1>7. IsUntagged(PropIdx(d)) <=> ver.layout /\ r < nin /\ obj.slots[r + 1][1] = "double"
  <2>1. CASE ~ver.layout
    BY <2>1 DEF IsUntagged
  <2>2. CASE ver.layout
    <3>1. ver.indetails
      BY <2>2, VersionAssumption DEF HeapTyped
    <3>2. PropIdx(d) = r
      BY <1>3, <3>1
    <3> QED
      BY <3>2, UntaggedIs
  <2> QED
    BY <2>1, <2>2
<1> QED
  BY <1>3, <1>4, <1>5, <1>6, <1>7

\* the call for a descriptor
FieldWord(d) == IF InObject(d) THEN SlotWord(d) ELSE obj.props[ArrayIdx(d) + 1]
FieldCalled(k) ==
    [name |-> obj.descs[k].key, val |-> FieldWord(obj.descs[k]),
     double |-> IsUntagged(PropIdx(obj.descs[k]))]
ElementCalled(k) == [name |-> Smi(k - 1), val |-> obj.elts[k], double |-> FALSE]
TableCalled(table, k) == [name |-> table[k], val |-> table[k + 1], double |-> FALSE]

WordAt(r) == IF r < nin THEN obj.slots[r + 1] ELSE obj.props[r - nin + 1]

LEMMA NotPassed ==
    ASSUME HeapTyped, NEW k \in Nat, ~Passes(k)
    PROVE  /\ ver.content => 2 * k - 1 < NContent
           /\ obj.descs[k].field /\ obj.descs[k].key[1] = "name"
           /\ obj.descs[k].index # Garbage
           /\ ~(InObject(obj.descs[k]) /\ damage = "slots")
<1> DEFINE flags == SUBSET {"skipped", "undefname"}
<1>1. \A f \in flags : ~PassOver(k, f)
  BY DEF Passes
<1>2. {"skipped"} \in flags /\ {} \in flags /\ KeyFlags(obj.descs[k].key) \in flags
  BY DEF KeyFlags
<1>3. ~PassOver(k, {"skipped"}) /\ ~PassOver(k, {}) /\ ~PassOver(k, KeyFlags(obj.descs[k].key))
  BY <1>1, <1>2
<1> HIDE DEF flags
<1>4. ~(ver.content /\ 2 * k - 1 >= NContent)
  BY <1>3 DEF PassOver
<1>5. NContent \in Nat
  BY PartsTyped DEF HeapParts, NContent
<1>6. ver.content => 2 * k - 1 < NContent
  BY <1>4, <1>5
<1> QED
  BY <1>3, <1>6 DEF PassOver

LEMMA FieldCalledIs ==
    ASSUME HeapTyped, Indexed, ~obj.slow, NEW k \in 1..Len(obj.descs), ~Passes(k), ~Corrupt(k)
    PROVE  /\ k \in Fields(obj.descs) /\ obj.descs[k].key[1] = "name"
           /\ FieldCalled(k) \in Prop
           /\ \E r \in Nat :
                 /\ obj.descs[k].index = Smi(r)
                 /\ r < nin + Len(obj.props)
                 /\ FieldCalled(k).name = obj.descs[k].key
                 /\ FieldCalled(k).val = WordAt(r)
                 /\ FieldCalled(k).double <=>
                       ver.layout /\ r < nin /\ obj.slots[r + 1][1] = "double"
<1> DEFINE d == obj.descs[k]
<1>1. d.field /\ d.key[1] = "name" /\ d.index # Garbage
  BY NotPassed
<1>2. k \in Fields(obj.descs)
  BY <1>1 DEF Fields
<1>3. PICK r \in Nat : d.index = Smi(r)
  BY <1>1, <1>2 DEF Indexed
<1>4. /\ obj.descs \in Seq(Desc) /\ nin \in Nat /\ obj.slots \in Seq(Words) /\ obj.props \in Seq(Words)
      /\ Len(obj.props) \in Nat /\ Len(obj.slots) = nin
  BY PartsTyped DEF HeapParts
<1>5. d \in Desc
  BY <1>4
<1>6. /\ InObject(d) <=> r < nin
      /\ ArrayIdx(d) = r - nin
      /\ r < nin => SlotWord(d) = obj.slots[r + 1]
      /\ IsUntagged(PropIdx(d)) <=> ver.layout /\ r < nin /\ obj.slots[r + 1][1] = "double"
  BY <1>3, <1>5, FieldAt
<1>7. InObject(d) \/ ~(ArrayIdx(d) >= Len(obj.props))
  BY DEF Corrupt
<1>8. r < nin \/ r - nin < Len(obj.props)
  BY <1>4, <1>6, <1>7
<1>9. r < nin + Len(obj.props)
  BY <1>4, <1>8
<1>10. FieldWord(d) = WordAt(r)
  BY <1>6 DEF FieldWord, WordAt
<1>11. WordAt(r) \in Words
  <2>1. r < nin => r + 1 \in 1..nin
    BY <1>4
  <2>2. ~(r < nin) => r - nin + 1 \in 1..Len(obj.props)
    BY <1>4, <1>8
  <2> QED
    BY <1>4, <2>1, <2>2 DEF WordAt
<1>12. d.key \in Words
  BY <1>5, DescIs
<1>13. FieldCalled(k).name = d.key /\ FieldCalled(k).val = WordAt(r)
       /\ FieldCalled(k).double = IsUntagged(PropIdx(d))
  BY <1>10 DEF FieldCalled
<1>14. IsUntagged(PropIdx(d)) \in BOOLEAN
  BY DEF IsUntagged
<1>15. FieldCalled(k) \in Prop
  BY <1>10, <1>11, <1>12, <1>14 DEF FieldCalled, Prop
<1> HIDE DEF d
<1> QED
  BY <1>1, <1>2, <1>3, <1>6, <1>9, <1>13, <1>15 DEF d

-----------------------------------------------------------------------------
(* The steps of a walk whose callback answers 0                            *)

ElementsStep ==
    /\ pc = "elements" /\ UNCHANGED out
    /\ \/ /\ ii > Len(obj.elts) \/ obj.kind = "other"
          /\ pc' = "shape" /\ NoCall /\ UNCHANGED <<ii, info, rval>>
       \/ /\ ii <= Len(obj.elts) /\ obj.kind = "holey" /\ obj.elts[ii] = Hole
          /\ ii' = ii + 1 /\ NoCall /\ UNCHANGED <<pc, info, rval>>
       \/ /\ ii <= Len(obj.elts) /\ obj.kind # "other"
          /\ ~(obj.kind = "holey" /\ obj.elts[ii] = Hole)
          /\ Call(ElementCalled(ii), 0) /\ info' = info \cup Bad(obj.elts[ii])
          /\ ii' = ii + 1 /\ UNCHANGED <<pc, rval>>

TableStep(table, Finish) ==
    \/ /\ Broken(table)
       /\ Return(-1) /\ Note({}) /\ NoCall
    \/ /\ ~Broken(table) /\ TableEnd(table)
       /\ Finish /\ Note({}) /\ NoCall
    \/ /\ ~Broken(table) /\ ~TableEnd(table) /\ Empty(table[ii])
       /\ ii' = ii + ver.entry /\ Note({}) /\ NoCall /\ UNCHANGED <<pc, rval>>
    \/ /\ ~Broken(table) /\ ~TableEnd(table) /\ ~Empty(table[ii])
       /\ Call(TableCalled(table, ii), 0) /\ Note(Bad(table[ii + 1]))
       /\ ii' = ii + ver.entry /\ UNCHANGED <<pc, rval>>

DescriptorsStep ==
    /\ pc = "descs"
    /\ \/ /\ ii > Len(obj.descs)
          /\ Return(0) /\ Tell(info) /\ NoCall /\ UNCHANGED info
       \/ /\ ii <= Len(obj.descs)
          /\ \E flags \in SUBSET {"skipped", "undefname"} :
                PassOver(ii, flags) /\ info' = info \cup flags
          /\ ii' = ii + 1 /\ NoCall /\ UNCHANGED <<pc, out, rval>>
       \/ /\ ii <= Len(obj.descs) /\ Corrupt(ii)
          /\ Return(-1) /\ NoCall
       \/ /\ ii <= Len(obj.descs) /\ ~Passes(ii) /\ ~Corrupt(ii)
          /\ Call(FieldCalled(ii), 0)
          /\ info' = info \cup {IF InObject(obj.descs[ii]) THEN "inobject" ELSE "props"}
                          \cup (IF FieldCalled(ii).double THEN {} ELSE Bad(FieldCalled(ii).val))
          /\ ii' = ii + 1 /\ UNCHANGED <<pc, out, rval>>

LEMMA ZeroAnswers ==
    ASSUME client # "member"
    PROVE  Answers = {0}
BY DEF Answers

LEMMA StepElements ==
    ASSUME Elements, client # "member"
    PROVE  ElementsStep
<1>1. Answers = {0}
  BY ZeroAnswers
<1>2. pc = "elements" /\ UNCHANGED out
  BY DEF Elements
<1>3. CASE \E rv \in Answers :
              /\ Call(ElementCalled(ii), rv)
              /\ IF rv # 0 THEN Return(-1) /\ UNCHANGED ii
                           ELSE ii' = ii + 1 /\ UNCHANGED <<pc, rval>>
  <2>1. Call(ElementCalled(ii), 0) /\ ii' = ii + 1 /\ UNCHANGED <<pc, rval>>
    BY <1>1, <1>3
  <2> QED
    BY <1>2, <2>1 DEF Elements, ElementsStep
<1>4. CASE ~(\E rv \in Answers :
              /\ Call(ElementCalled(ii), rv)
              /\ IF rv # 0 THEN Return(-1) /\ UNCHANGED ii
                           ELSE ii' = ii + 1 /\ UNCHANGED <<pc, rval>>)
  BY <1>2, <1>4 DEF Elements, ElementsStep, ElementCalled
<1> QED
  BY <1>3, <1>4

LEMMA StepTable ==
    ASSUME NEW STATE table, NEW ACTION Finish, ReadTable(table, Finish), client # "member"
    PROVE  TableStep(table, Finish)
<1>1. Answers = {0}
  BY ZeroAnswers
<1>2. CASE \E rv \in Answers :
              /\ Call(TableCalled(table, ii), rv)
              /\ IF Stops(rv) THEN Return(-1) /\ UNCHANGED ii
                              ELSE ii' = Following(table[ii]) /\ UNCHANGED <<pc, rval>>
  <2>1. ~Stops(0)
    BY DEF Stops
  <2>2. Call(TableCalled(table, ii), 0) /\ ii' = ii + ver.entry /\ UNCHANGED <<pc, rval>>
    BY <1>1, <1>2, <2>1 DEF Following
  <2> QED
    BY <2>2 DEF ReadTable, TableStep, Following
<1>3. CASE ~(\E rv \in Answers :
              /\ Call(TableCalled(table, ii), rv)
              /\ IF Stops(rv) THEN Return(-1) /\ UNCHANGED ii
                              ELSE ii' = Following(table[ii]) /\ UNCHANGED <<pc, rval>>)
  BY <1>3 DEF ReadTable, TableStep, TableCalled, Following
<1> QED
  BY <1>2, <1>3

LEMMA StepDescriptors ==
    ASSUME Descriptors, client # "member"
    PROVE  DescriptorsStep
<1>1. Answers = {0}
  BY ZeroAnswers
<1>2. pc = "descs"
  BY DEF Descriptors
<1>3. CASE /\ ii > Len(obj.descs)
           /\ Return(0) /\ Tell(info) /\ NoCall /\ UNCHANGED <<ii, info>>
  BY <1>2, <1>3 DEF DescriptorsStep
<1>4. CASE /\ ii <= Len(obj.descs)
           /\ \E flags \in SUBSET {"skipped", "undefname"} :
                 PassOver(ii, flags) /\ info' = info \cup flags
           /\ ii' = ii + 1 /\ NoCall /\ UNCHANGED <<pc, out, rval>>
  BY <1>2, <1>4 DEF DescriptorsStep
<1>5. CASE /\ ii <= Len(obj.descs) /\ Corrupt(ii)
           /\ Return(-1) /\ NoCall
  BY <1>2, <1>5 DEF DescriptorsStep
<1>6. ASSUME ii <= Len(obj.descs), ~Passes(ii), ~Corrupt(ii), UNCHANGED out,
             info' = info \cup {IF InObject(obj.descs[ii]) THEN "inobject" ELSE "props"}
                          \cup (IF FieldCalled(ii).double THEN {} ELSE Bad(FieldCalled(ii).val)),
             NEW rv \in Answers, Call(FieldCalled(ii), rv),
             IF rv # 0 THEN Return(-1) /\ UNCHANGED ii ELSE ii' = ii + 1 /\ UNCHANGED <<pc, rval>>
      PROVE  DescriptorsStep
  <2>1. rv = 0
    BY <1>1
  <2> QED
    BY <1>2, <1>6, <2>1 DEF DescriptorsStep
<1>7. CASE /\ ii <= Len(obj.descs) /\ ~Passes(ii) /\ ~Corrupt(ii)
           /\ LET d == obj.descs[ii]
                  word == IF InObject(d) THEN SlotWord(d) ELSE obj.props[ArrayIdx(d) + 1]
                  untagged == IsUntagged(PropIdx(d))
              IN /\ info' = info \cup {IF InObject(d) THEN "inobject" ELSE "props"}
                                 \cup (IF untagged THEN {} ELSE Bad(word))
                 /\ \E rv \in Answers :
                      /\ Call([name |-> d.key, val |-> word, double |-> untagged], rv)
                      /\ IF rv # 0 THEN Return(-1) /\ UNCHANGED ii
                                   ELSE ii' = ii + 1 /\ UNCHANGED <<pc, rval>>
           /\ UNCHANGED out
  <2> DEFINE d == obj.descs[ii]
             word == IF InObject(d) THEN SlotWord(d) ELSE obj.props[ArrayIdx(d) + 1]
             untagged == IsUntagged(PropIdx(d))
  <2>1. /\ info' = info \cup {IF InObject(d) THEN "inobject" ELSE "props"}
                                 \cup (IF untagged THEN {} ELSE Bad(word))
        /\ \E rv \in Answers :
              /\ Call([name |-> d.key, val |-> word, double |-> untagged], rv)
              /\ IF rv # 0 THEN Return(-1) /\ UNCHANGED ii
                           ELSE ii' = ii + 1 /\ UNCHANGED <<pc, rval>>
    BY <1>7
  <2>2. FieldCalled(ii) = [name |-> d.key, val |-> word, double |-> untagged]
    BY DEF FieldCalled, FieldWord
  <2>3. FieldCalled(ii).double = untagged /\ FieldCalled(ii).val = word
    BY <2>2
  <2> HIDE DEF word, untagged
  <2> QED
    BY <1>6, <1>7, <2>1, <2>2, <2>3
<1> QED
  BY <1>3, <1>4, <1>5, <1>7 DEF Descriptors

-----------------------------------------------------------------------------
(* Where such a walk is, and what it calls                                 *)

Finder == client = "finder"
Calling == client # "member"

WalkTyped == Calling =>
    /\ calls \in Seq(Prop)
    /\ pc \in {"elements", "etable", "table", "descs"} => ii \in Nat /\ ii >= 1
    /\ pc = "elements" => HasElements /\ obj.kind # "dictionary"
    /\ pc = "etable" => HasElements /\ obj.kind = "dictionary"
    /\ pc = "table" => obj.slow
    /\ pc = "descs" => ~obj.slow

LEMMA CallTyped ==
    ASSUME calls \in Seq(Prop), NEW STATE p, p \in Prop, Call(p, 0)
    PROVE  calls' \in Seq(Prop)
BY DEF Call

LEMMA TableCalledTyped ==
    ASSUME NEW table \in Seq(Words), NEW k \in Nat, k >= 1, ~(k + 1 > Len(table))
    PROVE  TableCalled(table, k) \in Prop
<1>1. k \in 1..Len(table) /\ k + 1 \in 1..Len(table)
  OBVIOUS
<1>2. table[k] \in Words /\ table[k + 1] \in Words
  BY <1>1
<1> QED
  BY <1>2 DEF TableCalled, Prop

LEMMA TypedTableStep ==
    ASSUME HeapTyped, WalkTyped, Calling, NEW STATE table, table \in Seq(Words), NEW ACTION Finish,
           TableStep(table, Finish), UNCHANGED heapvars, Finish => pc' \in {"shape", "end"},
           pc \in {"etable", "table"}
    PROVE  WalkTyped'
<1>1. /\ calls \in Seq(Prop) /\ ii \in Nat /\ ii >= 1 /\ ver.entry \in Nat
      /\ pc = "etable" => HasElements /\ obj.kind = "dictionary"
      /\ pc = "table" => obj.slow
  <2>1. ver.entry \in Nat
    BY VersionAssumption DEF HeapTyped
  <2> QED
    BY <2>1 DEF WalkTyped
<1>2. CASE (Return(-1) \/ Finish) /\ NoCall
  BY <1>1, <1>2 DEF WalkTyped, Return, NoCall
<1>3. CASE ii' = ii + ver.entry /\ NoCall /\ UNCHANGED <<pc, rval>>
  BY <1>1, <1>3 DEF WalkTyped, NoCall, heapvars, HasElements
<1>4. CASE /\ ~TableEnd(table) /\ Call(TableCalled(table, ii), 0)
           /\ ii' = ii + ver.entry /\ UNCHANGED <<pc, rval>>
  <2>1. TableCalled(table, ii) \in Prop
    BY <1>1, <1>4, TableCalledTyped DEF TableEnd
  <2>2. calls' \in Seq(Prop)
    BY <1>1, <1>4, <2>1, CallTyped
  <2> QED
    BY <1>1, <1>4, <2>2 DEF WalkTyped, heapvars, HasElements
<1> QED
  BY <1>2, <1>3, <1>4 DEF TableStep

LEMMA WalkTypedNext ==
    ASSUME PlaceInv, HeapInv, WalkTyped, [Next]_opvars
    PROVE  WalkTyped'
<1>1. CASE V8Step \/ DamageStep
  <2>1. pc = "build" /\ pc' = pc /\ UNCHANGED <<client, walkvars>>
    BY <1>1 DEF V8Step, Change, AddField, AddOther, DeleteField, GoSlow, AddSlow, DeleteSlow,
       AddElement, DeleteElement, SlowElements, DamageStep, Damaged, LosePart, NotAnArray, RotValue,
       RotKey, RotIndex, RotTable, CutContent, walkvars
  <2> QED
    BY <2>1 DEF WalkTyped, walkvars, Calling
<1>2. CASE Start \/ UNCHANGED opvars \/ SecondPass
  <2>1. <<>> \in Seq(Prop)
    OBVIOUS
  <2> QED
    BY <1>2, <2>1 DEF WalkTyped, Calling, Start, SecondPass, opvars, heapvars, walkvars, HasElements
<1> SUFFICES ASSUME Walk, ~SecondPass, Calling'
             PROVE  WalkTyped'
  BY <1>1, <1>2 DEF Next, WalkTyped
<1>3. UNCHANGED heapvars /\ Calling
  BY WalkLeavesMemory DEF Calling, heapvars
<1>4. HeapTyped /\ Indexed /\ HeapParts
  BY PlacesIndexed, PartsTyped
<1>5. CASE Begin
  <2>1. calls = <<>> /\ pc = "begin" /\ <<>> \in Seq(Prop)
    BY <1>5 DEF Begin, PlaceInv, Fresh
  <2>2. CASE BeginFails
    BY <2>1, <2>2 DEF BeginFails, Return, NoCall, WalkTyped
  <2>3. CASE BadLayout
    <3>1. CASE pc' = "fault" /\ NoCall
      BY <2>1, <3>1 DEF NoCall, WalkTyped
    <3>2. ASSUME NEW rv \in Answers,
                 Call([name |-> Internal, val |-> NoValue, double |-> FALSE], rv), Return(rv)
          PROVE  WalkTyped'
      <4>1. rv = 0
        BY <1>3, ZeroAnswers DEF Calling
      <4>2. [name |-> Internal, val |-> NoValue, double |-> FALSE] \in Prop
        BY WordsTyped DEF Prop
      <4>3. calls' \in Seq(Prop)
        BY <2>1, <3>2, <4>1, <4>2, CallTyped
      <4> QED
        BY <3>2, <4>3 DEF WalkTyped, Return
    <3> QED
      BY <2>3, <3>1, <3>2 DEF BadLayout
  <2>4. CASE BeginWalk
    BY <1>3, <2>1, <2>4 DEF BeginWalk, NoCall, WalkTyped, heapvars, HasElements
  <2> QED
    BY <1>5, <2>2, <2>3, <2>4 DEF Begin
<1>6. CASE Elements
  <2>1. ElementsStep
    BY <1>3, <1>6, StepElements DEF Calling
  <2>2. /\ calls \in Seq(Prop) /\ ii \in Nat /\ ii >= 1
        /\ HasElements /\ obj.kind # "dictionary" /\ pc = "elements"
    BY <1>3, <2>1 DEF WalkTyped, ElementsStep
  <2>3. CASE pc' = "shape" /\ NoCall
    BY <2>2, <2>3 DEF WalkTyped, NoCall
  <2>4. CASE ii' = ii + 1 /\ NoCall /\ UNCHANGED pc
    BY <1>3, <2>2, <2>4 DEF WalkTyped, NoCall, heapvars, HasElements
  <2>5. CASE ii <= Len(obj.elts) /\ Call(ElementCalled(ii), 0) /\ ii' = ii + 1 /\ UNCHANGED pc
    <3>1. ElementCalled(ii) \in Prop
      <4>1. ii - 1 \in Nat /\ ii \in 1..Len(obj.elts)
        BY <1>4, <2>2, <2>5 DEF HeapParts
      <4>2. Smi(ii - 1) \in Words /\ obj.elts[ii] \in Words
        BY <1>4, <4>1, WordsTyped DEF HeapParts
      <4> QED
        BY <4>2 DEF ElementCalled, Prop
    <3>2. calls' \in Seq(Prop)
      BY <2>2, <2>5, <3>1, CallTyped
    <3> QED
      BY <1>3, <2>2, <2>5, <3>2 DEF WalkTyped, heapvars, HasElements
  <2> QED
    BY <2>1, <2>3, <2>4, <2>5 DEF ElementsStep
<1>7. CASE ElementTable
  <2> DEFINE Finish == pc' = "shape" /\ UNCHANGED rval
  <2>1. ReadTable(obj.elts, Finish) /\ pc = "etable"
    BY <1>7 DEF ElementTable
  <2>2. Finish => pc' \in {"shape", "end"}
    OBVIOUS
  <2> HIDE DEF Finish
  <2>3. TableStep(obj.elts, Finish)
    BY <1>3, <2>1, StepTable DEF Calling
  <2> QED
    BY <1>3, <1>4, <2>1, <2>2, <2>3, TypedTableStep DEF HeapParts
<1>8. CASE Shape
  <2>1. calls \in Seq(Prop) /\ pc = "shape"
    BY <1>3, <1>8 DEF WalkTyped, Shape
  <2> QED
    BY <1>3, <1>8, <2>1 DEF Shape, WalkTyped, Return, NoCall, heapvars
<1>9. CASE PropertyTable
  <2>1. pc = "table" /\ calls \in Seq(Prop)
    BY <1>3, <1>9 DEF PropertyTable, WalkTyped
  <2>2. CASE Return(-1) /\ NoCall
    BY <2>1, <2>2 DEF Return, NoCall, WalkTyped
  <2>3. CASE ReadTable(obj.props, Return(0))
    <3>1. TableStep(obj.props, Return(0))
      BY <1>3, <2>3, StepTable DEF Calling
    <3>2. Return(0) => pc' \in {"shape", "end"}
      BY DEF Return
    <3> QED
      BY <1>3, <1>4, <2>1, <3>1, <3>2, TypedTableStep DEF HeapParts
  <2> QED
    BY <1>9, <2>2, <2>3 DEF PropertyTable
<1>10. CASE Descriptors
  <2>1. DescriptorsStep
    BY <1>3, <1>10, StepDescriptors DEF Calling
  <2>2. calls \in Seq(Prop) /\ ii \in Nat /\ ii >= 1 /\ ~obj.slow /\ pc = "descs"
    BY <1>3, <2>1 DEF WalkTyped, DescriptorsStep
  <2>3. CASE (Return(0) \/ Return(-1)) /\ NoCall
    BY <2>2, <2>3 DEF WalkTyped, NoCall, Return
  <2>4. CASE ii' = ii + 1 /\ NoCall /\ UNCHANGED pc
    BY <1>3, <2>2, <2>4 DEF WalkTyped, NoCall, heapvars
  <2>5. CASE /\ ii <= Len(obj.descs) /\ ~Passes(ii) /\ ~Corrupt(ii)
             /\ Call(FieldCalled(ii), 0) /\ ii' = ii + 1 /\ UNCHANGED pc
    <3>1. ii \in 1..Len(obj.descs)
      BY <1>4, <2>2, <2>5 DEF HeapParts
    <3>2. FieldCalled(ii) \in Prop
      BY <1>4, <2>2, <2>5, <3>1, FieldCalledIs
    <3>3. calls' \in Seq(Prop)
      BY <2>2, <2>5, <3>2, CallTyped
    <3> QED
      BY <1>3, <2>2, <2>5, <3>3 DEF WalkTyped, heapvars
  <2> QED
    BY <2>1, <2>3, <2>4, <2>5 DEF DescriptorsStep
<1> QED
  BY <1>5, <1>6, <1>7, <1>8, <1>9, <1>10 DEF Walk

LEMMA WalkTypedAlways == Spec => []WalkTyped
<1>1. Init => WalkTyped
  BY DEF Init, WalkTyped
<1>2. WalkTyped /\ HeapInv /\ PlaceInv /\ [Next]_opvars => WalkTyped'
  BY WalkTypedNext
<1> QED
  BY <1>1, <1>2, HeapAlways, PlaceAlways, PTL DEF Spec

-----------------------------------------------------------------------------
(* Garbage that was reported is flagged, and nothing else is               *)

BadProp(p) == ~p.double /\ MaybeGarbage(p.val)
Told(flags, done) == "badprops" \in flags <=> \E p \in Set(done) : BadProp(p)

GarbageInv == Finder =>
    /\ pc \in {"elements", "etable", "shape", "descs"} => Told(info, calls)
    /\ pc = "table" => Told(out, calls)
    /\ pc = "end" /\ rval = 0 /\ "badlayout" \notin out => Told(out, calls)

LEMMA SetOfAppend ==
    ASSUME NEW S, NEW s \in Seq(S), NEW e \in S
    PROVE  Set(Append(s, e)) = Set(s) \cup {e}
<1> DEFINE t == Append(s, e)
<1>1. /\ Len(s) \in Nat /\ Len(t) = Len(s) + 1 /\ t[Len(s) + 1] = e
      /\ \A k \in 1..Len(s) : t[k] = s[k]
  OBVIOUS
<1>2. \A k : k \in 1..(Len(s) + 1) <=> k \in 1..Len(s) \/ k = Len(s) + 1
  BY <1>1
<1> HIDE DEF t
<1>3. Set(t) = Set(s) \cup {e}
  BY <1>1, <1>2 DEF Set
<1> QED
  BY <1>3 DEF t

LEMMA SetOfNone == Set(<<>>) = {}
BY DEF Set

LEMMA CallTold ==
    ASSUME calls \in Seq(Prop), NEW STATE p, p \in Prop, Call(p, 0), NEW STATE flags,
           NEW ACTION flags2, Told(flags, calls),
           "badprops" \in flags2 <=> "badprops" \in flags \/ BadProp(p)
    PROVE  Told(flags2, calls')
<1>1. calls' = Append(calls, p)
  BY DEF Call
<1>2. Set(calls') = Set(calls) \cup {p}
  BY <1>1, SetOfAppend
<1> QED
  BY <1>2 DEF Told

LEMMA BadFlags ==
    ASSUME NEW word, NEW flags
    PROVE  /\ "badprops" \in flags \cup Bad(word) <=> "badprops" \in flags \/ MaybeGarbage(word)
           /\ Bad(word) \subseteq {"badprops"}
BY DEF Bad

LEMMA GarbageTableStep ==
    ASSUME HeapTyped, WalkTyped, GarbageInv, Finder, NEW STATE table, table \in Seq(Words),
           NEW ACTION Finish, TableStep(table, Finish), UNCHANGED heapvars,
           \/ pc = "etable" /\ (Finish => pc' = "shape")
           \/ pc = "table" /\ (Finish => Return(0))
    PROVE  GarbageInv'
<1>1. calls \in Seq(Prop) /\ ii \in Nat /\ ii >= 1
  BY DEF WalkTyped, Calling, Finder
<1> DEFINE told == IF pc = "etable" THEN info ELSE out
<1>2. Told(told, calls)
  BY DEF GarbageInv
<1>3. client # "walker" /\ client' = client
  BY DEF Finder, heapvars
<1>4. ASSUME NEW flags, Note(flags)
      PROVE  IF pc = "etable" THEN info' = told \cup flags ELSE out' = told \cup flags
  BY <1>3, <1>4 DEF Note, Tell
<1> HIDE DEF told
<1>5. CASE Return(-1)
  BY <1>5 DEF GarbageInv, Return
<1>6. CASE Finish /\ Note({}) /\ NoCall
  <2>1. Told(IF pc = "etable" THEN info' ELSE out', calls')
    BY <1>2, <1>4, <1>6 DEF NoCall, Told
  <2> QED
    BY <1>6, <2>1 DEF GarbageInv, Return
<1>7. CASE Note({}) /\ NoCall /\ UNCHANGED <<pc, rval>>
  <2>1. Told(IF pc = "etable" THEN info' ELSE out', calls')
    BY <1>2, <1>4, <1>7 DEF NoCall, Told
  <2> QED
    BY <1>7, <2>1 DEF GarbageInv
<1>8. CASE /\ ~TableEnd(table) /\ Call(TableCalled(table, ii), 0) /\ Note(Bad(table[ii + 1]))
           /\ UNCHANGED <<pc, rval>>
  <2> DEFINE p == TableCalled(table, ii)
  <2>1. p \in Prop
    BY <1>1, <1>8, TableCalledTyped DEF TableEnd
  <2>2. p.double = FALSE /\ p.val = table[ii + 1]
    BY DEF TableCalled
  <2>3. BadProp(p) <=> MaybeGarbage(table[ii + 1])
    BY <2>2 DEF BadProp
  <2>4. Call(p, 0)
    BY <1>8
  <2> HIDE DEF p
  <2> DEFINE new == told \cup Bad(table[ii + 1])
  <2>5. "badprops" \in new <=> "badprops" \in told \/ BadProp(p)
    BY <2>3, BadFlags
  <2>6. IF pc = "etable" THEN info' = new ELSE out' = new
    BY <1>4, <1>8
  <2> HIDE DEF new
  <2>7. Told(new, calls')
    BY <1>1, <1>2, <2>1, <2>4, <2>5, CallTold
  <2> QED
    BY <1>8, <2>6, <2>7 DEF GarbageInv
<1> QED
  BY <1>5, <1>6, <1>7, <1>8 DEF TableStep

LEMMA GarbageNext ==
    ASSUME PlaceInv, HeapInv, WalkTyped, GarbageInv, [Next]_opvars
    PROVE  GarbageInv'
<1>1. CASE V8Step \/ DamageStep
  <2>1. pc = "build" /\ pc' = pc
    BY <1>1 DEF V8Step, Change, AddField, AddOther, DeleteField, GoSlow, AddSlow, DeleteSlow,
       AddElement, DeleteElement, SlowElements, DamageStep, Damaged, LosePart, NotAnArray, RotValue,
       RotKey, RotIndex, RotTable, CutContent, walkvars
  <2> QED
    BY <2>1 DEF GarbageInv
<1>2. CASE Start \/ UNCHANGED opvars \/ SecondPass
  BY <1>2 DEF GarbageInv, Finder, Start, SecondPass, opvars, heapvars, walkvars
<1> SUFFICES ASSUME Walk, ~SecondPass, Finder'
             PROVE  GarbageInv'
  BY <1>1, <1>2 DEF Next, GarbageInv
<1>3. UNCHANGED heapvars /\ Finder /\ client # "member" /\ client # "walker" /\ client' = client
  BY WalkLeavesMemory DEF Finder, heapvars
<1>4. HeapTyped /\ Indexed /\ HeapParts
  BY PlacesIndexed, PartsTyped
<1>40. calls \in Seq(Prop)
  BY <1>3 DEF WalkTyped, Calling
<1>5. CASE Begin
  <2>1. calls = <<>> /\ info = {}
    BY <1>5 DEF Begin, PlaceInv, Fresh
  <2>2. CASE BeginFails
    BY <2>2 DEF BeginFails, Return, GarbageInv
  <2>3. CASE BadLayout
    BY <1>3, <2>3 DEF BadLayout, Tell, Return, GarbageInv
  <2>4. CASE BeginWalk
    <3>1. "badprops" \notin info' /\ calls' = <<>> /\ pc' \in {"elements", "etable", "shape"}
      BY <2>1, <2>4 DEF BeginWalk, NoCall
    <3>2. Told(info', calls')
      BY <3>1, SetOfNone DEF Told
    <3> QED
      BY <3>1, <3>2 DEF GarbageInv
  <2> QED
    BY <1>5, <2>2, <2>3, <2>4 DEF Begin
<1>6. CASE Elements
  <2>1. ElementsStep
    BY <1>3, <1>6, StepElements
  <2>2. Told(info, calls) /\ ii \in Nat /\ ii >= 1 /\ pc = "elements"
    BY <1>3, <2>1 DEF GarbageInv, ElementsStep, WalkTyped, Calling
  <2>3. CASE pc' \in {"shape", "elements"} /\ NoCall /\ UNCHANGED info
    <3>1. Told(info', calls')
      BY <2>2, <2>3 DEF Told, NoCall
    <3> QED
      BY <2>3, <3>1 DEF GarbageInv
  <2>4. CASE ii <= Len(obj.elts) /\ Call(ElementCalled(ii), 0)
             /\ info' = info \cup Bad(obj.elts[ii]) /\ pc' = pc
    <3>1. ElementCalled(ii) \in Prop
      <4>1. ii - 1 \in Nat /\ ii \in 1..Len(obj.elts)
        BY <1>4, <2>2, <2>4 DEF HeapParts
      <4>2. Smi(ii - 1) \in Words /\ obj.elts[ii] \in Words
        BY <1>4, <4>1, WordsTyped DEF HeapParts
      <4> QED
        BY <4>2 DEF ElementCalled, Prop
    <3>2. "badprops" \in info' <=> "badprops" \in info \/ BadProp(ElementCalled(ii))
      BY <2>4, BadFlags DEF BadProp, ElementCalled
    <3>3. Told(info', calls')
      BY <1>40, <2>2, <2>4, <3>1, <3>2, CallTold
    <3> QED
      BY <2>2, <2>4, <3>3 DEF GarbageInv
  <2> QED
    BY <2>1, <2>2, <2>3, <2>4 DEF ElementsStep
<1>7. CASE ElementTable
  <2> DEFINE Finish == pc' = "shape" /\ UNCHANGED rval
  <2>1. ReadTable(obj.elts, Finish) /\ pc = "etable"
    BY <1>7 DEF ElementTable
  <2>2. Finish => pc' = "shape"
    OBVIOUS
  <2> HIDE DEF Finish
  <2>3. TableStep(obj.elts, Finish)
    BY <1>3, <2>1, StepTable
  <2> QED
    BY <1>3, <1>4, <2>1, <2>2, <2>3, GarbageTableStep DEF HeapParts
<1>8. CASE Shape
  <2>1. Told(info, calls) /\ calls' = calls
    BY <1>3, <1>8 DEF GarbageInv, Shape, NoCall
  <2>2. CASE Return(-1)
    BY <2>2 DEF Return, GarbageInv
  <2>3. CASE info' = info \cup {"dict"} /\ Tell(info') /\ pc' = "table"
    BY <1>3, <2>1, <2>3 DEF Tell, GarbageInv, Told
  <2>4. CASE /\ pc' = "descs"
             /\ info' = info \cup (IF ver.transitions THEN {"transitions"} ELSE {})
                             \cup (IF ver.content THEN {"content"} ELSE {})
    <3>1. "badprops" \in info' <=> "badprops" \in info
      BY <2>4
    <3> QED
      BY <2>1, <2>4, <3>1 DEF GarbageInv, Told
  <2> QED
    BY <1>8, <2>2, <2>3, <2>4 DEF Shape
<1>9. CASE PropertyTable
  <2>1. pc = "table"
    BY <1>9 DEF PropertyTable
  <2>2. CASE Return(-1) /\ NoCall
    BY <2>2 DEF Return, GarbageInv
  <2>3. CASE ReadTable(obj.props, Return(0))
    <3>1. TableStep(obj.props, Return(0))
      BY <1>3, <2>3, StepTable
    <3> QED
      BY <1>3, <1>4, <2>1, <3>1, GarbageTableStep DEF HeapParts
  <2> QED
    BY <1>9, <2>2, <2>3 DEF PropertyTable
<1>10. CASE Descriptors
  <2>1. DescriptorsStep
    BY <1>3, <1>10, StepDescriptors
  <2>2. Told(info, calls) /\ ii \in Nat /\ ii >= 1 /\ ~obj.slow /\ pc = "descs"
    BY <1>3, <2>1 DEF GarbageInv, DescriptorsStep, WalkTyped, Calling
  <2>3. CASE Return(-1)
    BY <2>3 DEF GarbageInv, Return
  <2>4. CASE Return(0) /\ Tell(info) /\ NoCall
    BY <1>3, <2>2, <2>4 DEF GarbageInv, Return, Tell, NoCall, Told
  <2>5. ASSUME NEW flags \in SUBSET {"skipped", "undefname"}, info' = info \cup flags, NoCall,
               pc' = pc
        PROVE  GarbageInv'
    <3>1. "badprops" \in info' <=> "badprops" \in info
      BY <2>5
    <3> QED
      BY <2>2, <2>5, <3>1 DEF GarbageInv, Told, NoCall
  <2>6. CASE /\ ii <= Len(obj.descs) /\ ~Passes(ii) /\ ~Corrupt(ii)
             /\ Call(FieldCalled(ii), 0)
             /\ info' = info \cup {IF InObject(obj.descs[ii]) THEN "inobject" ELSE "props"}
                          \cup (IF FieldCalled(ii).double THEN {} ELSE Bad(FieldCalled(ii).val))
             /\ pc' = pc
    <3>1. ii \in 1..Len(obj.descs)
      BY <1>4, <2>2, <2>6 DEF HeapParts
    <3>2. FieldCalled(ii) \in Prop
      BY <1>4, <2>2, <2>6, <3>1, FieldCalledIs
    <3>3. "badprops" \in info' <=> "badprops" \in info \/ BadProp(FieldCalled(ii))
      BY <2>6 DEF BadProp, Bad
    <3>4. Told(info', calls')
      BY <1>40, <2>2, <2>6, <3>2, <3>3, CallTold
    <3> QED
      BY <2>2, <2>6, <3>4 DEF GarbageInv
  <2> QED
    BY <2>1, <2>3, <2>4, <2>5, <2>6 DEF DescriptorsStep
<1> QED
  BY <1>5, <1>6, <1>7, <1>8, <1>9, <1>10 DEF Walk

LEMMA GarbageAlways == Spec => []GarbageIsFlagged
<1>1. Init => GarbageInv
  BY DEF Init, GarbageInv
<1>2. GarbageInv /\ WalkTyped /\ HeapInv /\ PlaceInv /\ [Next]_opvars => GarbageInv'
  BY GarbageNext
<1>3. GarbageInv => GarbageIsFlagged
  BY DEF GarbageInv, GarbageIsFlagged, Walked, Told, BadProp, Finder
<1> QED
  BY <1>1, <1>2, <1>3, WalkTypedAlways, HeapAlways, PlaceAlways, PTL DEF Spec

-----------------------------------------------------------------------------
(* A walk through a dictionary stops at each key                           *)

Spots == {2 + 3 * k : k \in 0..TableSize}

SpotInv == Calling /\ pc \in {"etable", "table"} => ii \in Spots

LEMMA FirstSpot == 2 \in Spots /\ \A k \in Keys : ~(k < 2)
<1>1. 0 \in 0..TableSize /\ 2 = 2 + 3 * 0
  BY SizesTyped
<1>2. 2 \in Spots
  BY <1>1 DEF Spots
<1>3. \A k \in Keys : ~(k < 2)
  BY SizesTyped DEF Keys
<1> QED
  BY <1>2, <1>3

LEMMA NextSpot ==
    ASSUME NEW s \in Spots, ~(s + 1 > TableLen)
    PROVE  s \in Keys /\ s + 3 \in Spots /\ \A k \in Keys : k < s + 3 <=> k < s \/ k = s
<1>1. PICK i \in 0..TableSize : s = 2 + 3 * i
  BY DEF Spots
<1>2. TableSize \in Nat /\ i \in Nat /\ i < TableSize
  BY <1>1, SizesTyped DEF TableLen
<1>3. s \in Keys
  BY <1>1, <1>2 DEF Keys
<1>4. s + 3 \in Spots
  <2>1. i + 1 \in 0..TableSize /\ s + 3 = 2 + 3 * (i + 1)
    BY <1>1, <1>2
  <2> QED
    BY <2>1 DEF Spots
<1>5. \A k \in Keys : k < s + 3 <=> k < s \/ k = s
  <2> SUFFICES ASSUME NEW k \in Keys PROVE k < s + 3 <=> k < s \/ k = s
    OBVIOUS
  <2>1. PICK j \in 0..(TableSize - 1) : k = 2 + 3 * j
    BY DEF Keys
  <2> QED
    BY <1>1, <1>2, <2>1
<1> QED
  BY <1>3, <1>4, <1>5

LEMMA LastSpot ==
    ASSUME NEW s \in Spots, s + 1 > TableLen
    PROVE  \A k \in Keys : k < s
<1>1. PICK i \in 0..TableSize : s = 2 + 3 * i
  BY DEF Spots
<1> SUFFICES ASSUME NEW k \in Keys PROVE k < s
  OBVIOUS
<1>2. PICK j \in 0..(TableSize - 1) : k = 2 + 3 * j
  BY DEF Keys
<1>3. TableSize \in Nat /\ i \in Nat /\ j \in Nat
  BY SizesTyped
<1> QED
  BY <1>1, <1>2, <1>3 DEF TableLen

(* A version whose entries cannot be read has no dictionary read.          *)
LEMMA EntryIsThree ==
    ASSUME HeapTyped, NEW table, ~Broken(table)
    PROVE  ver.entry = 3
<1>1. ver.entry = 3 \/ ver.entry < 2
  BY VersionAssumption DEF HeapTyped
<1> QED
  BY <1>1 DEF Broken

LEMMA SpotTableStep ==
    ASSUME HeapTyped, SpotInv, Calling, pc \in {"etable", "table"}, NEW STATE table,
           Len(table) = TableLen, NEW ACTION Finish, TableStep(table, Finish),
           Finish => pc' \in {"shape", "end"}
    PROVE  SpotInv'
<1>1. CASE Return(-1) \/ Finish
  BY <1>1 DEF SpotInv, Return
<1>2. CASE ~Broken(table) /\ ~TableEnd(table) /\ ii' = ii + ver.entry
  <2>1. ii \in Spots /\ ~(ii + 1 > TableLen)
    BY <1>2 DEF SpotInv, TableEnd
  <2>2. ii' = ii + 3
    BY <1>2, EntryIsThree
  <2> QED
    BY <2>1, <2>2, NextSpot DEF SpotInv
<1> QED
  BY <1>1, <1>2 DEF TableStep

LEMMA SpotNext ==
    ASSUME PlaceInv, HeapInv, WalkTyped, SpotInv, [Next]_opvars
    PROVE  SpotInv'
<1>1. CASE V8Step \/ DamageStep
  <2>1. pc = "build" /\ pc' = pc
    BY <1>1 DEF V8Step, Change, AddField, AddOther, DeleteField, GoSlow, AddSlow, DeleteSlow,
       AddElement, DeleteElement, SlowElements, DamageStep, Damaged, LosePart, NotAnArray, RotValue,
       RotKey, RotIndex, RotTable, CutContent, walkvars
  <2> QED
    BY <2>1 DEF SpotInv
<1>2. CASE Start \/ UNCHANGED opvars \/ SecondPass
  BY <1>2 DEF SpotInv, Calling, Start, SecondPass, opvars, heapvars, walkvars
<1> SUFFICES ASSUME Walk, ~SecondPass, Calling'
             PROVE  SpotInv'
  BY <1>1, <1>2 DEF Next, SpotInv
<1>3. UNCHANGED heapvars /\ Calling
  BY WalkLeavesMemory DEF Calling, heapvars
<1>4. HeapTyped
  BY PlacesIndexed
<1>5. CASE Begin
  BY <1>5, FirstSpot DEF Begin, BeginFails, BadLayout, BeginWalk, Return, SpotInv
<1>6. CASE Elements
  <2>1. ElementsStep
    BY <1>3, <1>6, StepElements DEF Calling
  <2>2. pc' \in {"shape", "elements"}
    BY <2>1 DEF ElementsStep
  <2> QED
    BY <2>2 DEF SpotInv
<1>7. CASE ElementTable
  <2> DEFINE Finish == pc' = "shape" /\ UNCHANGED rval
  <2>1. ReadTable(obj.elts, Finish) /\ pc = "etable"
    BY <1>7 DEF ElementTable
  <2>2. Finish => pc' \in {"shape", "end"}
    OBVIOUS
  <2> HIDE DEF Finish
  <2>3. TableStep(obj.elts, Finish)
    BY <1>3, <2>1, StepTable DEF Calling
  <2>4. Len(obj.elts) = TableLen
    BY <1>3, <1>4, <2>1 DEF WalkTyped, HeapTyped
  <2> QED
    BY <1>3, <1>4, <2>1, <2>2, <2>3, <2>4, SpotTableStep
<1>8. CASE Shape
  BY <1>8, FirstSpot DEF Shape, Return, SpotInv
<1>9. CASE PropertyTable
  <2>1. pc = "table"
    BY <1>9 DEF PropertyTable
  <2>2. CASE Return(-1) /\ NoCall
    BY <2>2 DEF Return, SpotInv
  <2>3. CASE ReadTable(obj.props, Return(0))
    <3>1. TableStep(obj.props, Return(0))
      BY <1>3, <2>3, StepTable DEF Calling
    <3>2. Len(obj.props) = TableLen
      BY <1>3, <1>4, <2>1 DEF WalkTyped, HeapTyped
    <3>3. Return(0) => pc' \in {"shape", "end"}
      BY DEF Return
    <3> QED
      BY <1>3, <1>4, <2>1, <3>1, <3>2, <3>3, SpotTableStep
  <2> QED
    BY <1>9, <2>2, <2>3 DEF PropertyTable
<1>10. CASE Descriptors
  <2>1. DescriptorsStep
    BY <1>3, <1>10, StepDescriptors DEF Calling
  <2>2. pc' \in {"descs", "end"}
    BY <2>1 DEF DescriptorsStep, Return
  <2> QED
    BY <2>2 DEF SpotInv
<1> QED
  BY <1>5, <1>6, <1>7, <1>8, <1>9, <1>10 DEF Walk

LEMMA SpotAlways == Spec => []SpotInv
<1>1. Init => SpotInv
  BY DEF Init, SpotInv
<1>2. SpotInv /\ WalkTyped /\ HeapInv /\ PlaceInv /\ [Next]_opvars => SpotInv'
  BY SpotNext
<1> QED
  BY <1>1, <1>2, WalkTypedAlways, HeapAlways, PlaceAlways, PTL DEF Spec

-----------------------------------------------------------------------------
(* A property that is not reported is flagged                              *)

LossFlags == {"skipped", "undefname"}

\* descriptor k, perhaps damaged, is the one of property j
FieldOf(k, j) ==
    /\ obj.descs[k].key \in {own[j].name, Undefined, Garbage}
    /\ obj.descs[k].index \in {Smi(j - 1), Far, Garbage}

EntryOf(k, j) ==
    ~Empty(obj.props[k]) /\ obj.props[k] = own[j].name /\ obj.props[k + 1] = own[j].val

LEMMA PropEqual ==
    ASSUME NEW p \in Prop, NEW q \in Prop, p.name = q.name, p.val = q.val, p.double <=> q.double
    PROVE  p = q
<1>1. p.double \in BOOLEAN /\ q.double \in BOOLEAN
  BY PropIs
<1>2. p.double = q.double
  BY <1>1
<1>3. p = [name |-> p.name, val |-> p.val, double |-> p.double]
  BY DEF Prop
<1>4. q = [name |-> q.name, val |-> q.val, double |-> q.double]
  BY DEF Prop
<1> QED
  BY <1>2, <1>3, <1>4

LEMMA IndexedSizes ==
    ASSUME HeapTyped, Common, Indexed, ~obj.slow
    PROVE  /\ Len(own) \in Nat /\ nin \in Nat /\ MaxBuild \in Nat /\ Len(obj.descs) \in Nat
           /\ Len(own) <= MaxBuild /\ Len(obj.descs) <= MaxBuild
           /\ Len(obj.props) = IF Len(own) > nin THEN Len(own) - nin ELSE 0
<1>1. Len(own) \in Nat /\ nin \in Nat /\ MaxBuild \in Nat /\ Len(obj.descs) \in Nat /\ made \in 0..MaxBuild
  BY PartsTyped, SizesTyped DEF HeapParts, HeapTyped
<1>2. Len(own) <= Len(obj.descs) /\ Len(obj.descs) <= made
  BY DEF Indexed, Common, FieldsInv
<1>3. Len(obj.props) = IF Len(own) > nin THEN Len(own) - nin ELSE 0
  BY DEF Common, FieldsInv, Laid
<1> QED
  BY <1>1, <1>2, <1>3

(* Of the reasons to pass over a descriptor only that of a deleted field   *)
(* leaves no flag, and no property has such a descriptor.                  *)
LEMMA PassedLoss ==
    ASSUME HeapTyped, Common, Indexed, ~obj.slow, NEW k \in Fields(obj.descs),
           NEW j \in 1..Len(own), FieldOf(k, j), NEW flags, PassOver(k, flags)
    PROVE  flags \cap LossFlags # {}
<1> DEFINE d == obj.descs[k]
<1>1. d.field
  BY DEF Fields
<1>2. d \in Desc
  BY PartsTyped, FieldsFinite DEF HeapParts
<1>3. CASE flags = {"skipped"} \/ flags = KeyFlags(d.key)
  BY <1>3 DEF LossFlags, KeyFlags
<1>4. CASE /\ d.field /\ d.index # Garbage /\ ~InObject(d) /\ ArrayIdx(d) >= Len(obj.props)
           /\ PropIdx(d) < Len(obj.descs)
  <2>1. PICK r \in Nat : d.index = Smi(r)
    BY <1>4 DEF Indexed
  <2>2. /\ InObject(d) <=> r < nin
        /\ ArrayIdx(d) = r - nin
        /\ PropIdx(d) = IF ver.indetails THEN r ELSE r - nin
    BY <1>2, <2>1, FieldAt
  <2>3. d.index \in {Smi(j - 1), Far}
    BY <1>4 DEF FieldOf
  <2>4. /\ Len(own) \in Nat /\ nin \in Nat /\ MaxBuild \in Nat /\ Len(obj.descs) \in Nat
        /\ Len(own) <= MaxBuild /\ Len(obj.descs) <= MaxBuild
        /\ Len(obj.props) = IF Len(own) > nin THEN Len(own) - nin ELSE 0
    BY IndexedSizes
  <2>5. r = j - 1 \/ r = MaxBuild + nin
    BY <2>1, <2>3, NamesDiffer DEF Far
  <2>6. ~(r < nin) /\ r - nin >= Len(obj.props)
    BY <1>4, <2>2
  <2>7. r # j - 1
    BY <2>4, <2>6
  <2>8. (IF ver.indetails THEN r ELSE r - nin) < Len(obj.descs)
    BY <1>4, <2>2
  <2> HIDE DEF d
  <2> QED
    BY <2>4, <2>5, <2>7, <2>8
<1> QED
  BY <1>1, <1>3, <1>4 DEF PassOver

LEMMA CalledIsOwn ==
    ASSUME HeapTyped, Common, Indexed, ~obj.slow, NEW k \in 1..Len(obj.descs),
           ~Passes(k), ~Corrupt(k), NEW j \in 1..Len(own), FieldOf(k, j)
    PROVE  FieldCalled(k) = own[j]
<1>1. obj.descs[k].key[1] = "name" /\ FieldCalled(k) \in Prop
  BY FieldCalledIs
<1>2. PICK r \in Nat :
         /\ obj.descs[k].index = Smi(r)
         /\ r < nin + Len(obj.props)
         /\ FieldCalled(k).name = obj.descs[k].key
         /\ FieldCalled(k).val = WordAt(r)
         /\ FieldCalled(k).double <=> ver.layout /\ r < nin /\ obj.slots[r + 1][1] = "double"
  BY FieldCalledIs
<1>20. /\ FieldCalled(k).name = obj.descs[k].key
       /\ FieldCalled(k).val = WordAt(r)
  BY <1>2
<1>21. FieldCalled(k).double <=> ver.layout /\ r < nin /\ obj.slots[r + 1][1] = "double"
  BY <1>2
<1>3. obj.descs[k].key = own[j].name
  BY <1>1, WordKinds DEF FieldOf
<1>4. /\ Len(own) \in Nat /\ nin \in Nat /\ MaxBuild \in Nat
      /\ Len(own) <= MaxBuild
      /\ Len(obj.props) = IF Len(own) > nin THEN Len(own) - nin ELSE 0
  BY IndexedSizes
<1>5. r = j - 1
  <2>1. Smi(r) # Garbage
    BY WordsDiffer
  <2>2. r = j - 1 \/ r = MaxBuild + nin
    BY <1>2, <2>1, NamesDiffer DEF FieldOf, Far
  <2>3. ~(MaxBuild + nin < nin + Len(obj.props))
    BY <1>4
  <2> QED
    BY <1>2, <2>2, <2>3
<1>6. j <= nin <=> r < nin
  BY <1>4, <1>5
<1>7. /\ j <= nin => obj.slots[j] = own[j].val
      /\ j > nin => obj.props[j - nin] = own[j].val
  BY DEF Common, FieldsInv, Laid
<1>8. r + 1 = j /\ r - nin + 1 = j - nin /\ (~(r < nin) => j > nin)
  BY <1>4, <1>5
<1>9. WordAt(r) = own[j].val
  BY <1>6, <1>7, <1>8 DEF WordAt
<1>10. Fine(own[j]) /\ own[j] \in Prop
  BY PartsTyped DEF HeapParts, Common, OwnFine
<1>11. own[j].double <=> ver.layout /\ r < nin /\ obj.slots[r + 1][1] = "double"
  <2>1. own[j].double <=> own[j].val[1] = "double"
    BY <1>10 DEF Fine
  <2>2. own[j].double => ver.layout /\ j <= nin
    BY DEF Common, FieldsInv, Unboxed
  <2> QED
    BY <1>6, <1>7, <1>8, <2>1, <2>2
<1>12. FieldCalled(k).double <=> own[j].double
  BY <1>11, <1>21
<1> QED
  BY <1>1, <1>3, <1>9, <1>10, <1>12, <1>20, PropEqual

LossInv == Finder =>
    /\ pc = "descs" => \A j \in 1..Len(own), k \in Fields(obj.descs) :
          FieldOf(k, j) /\ k < ii => own[j] \in Set(calls) \/ info \cap LossFlags # {}
    /\ pc = "table" =>
          /\ \A j \in 1..Len(own), k \in Keys : EntryOf(k, j) /\ k < ii => own[j] \in Set(calls)
          /\ \A k \in Keys : k < ii => obj.props[k] \notin {Internal, Garbage}
    /\ pc = "end" /\ rval = 0 =>
          \/ "badlayout" \in out
          \/ out \cap LossFlags # {}
          \/ \A j \in 1..Len(own) : own[j] \in Set(calls)

LEMMA LossTable ==
    ASSUME HeapInv, WalkTyped, SpotInv, LossInv, Finder, pc = "table", UNCHANGED heapvars,
           TableStep(obj.props, Return(0))
    PROVE  LossInv'
<1>1. HeapTyped /\ Common /\ PlacesInv
  BY PlacesIndexed
<1>2. /\ calls \in Seq(Prop) /\ ii \in Nat /\ ii >= 1 /\ obj.slow /\ Len(obj.props) = TableLen
      /\ obj.props \in Seq(Words) /\ ii \in Spots
  BY <1>1, PartsTyped DEF WalkTyped, Calling, Finder, HeapTyped, HeapParts, SpotInv
<1>3. /\ \A j \in 1..Len(own), k \in Keys : EntryOf(k, j) /\ k < ii => own[j] \in Set(calls)
      /\ \A k \in Keys : k < ii => obj.props[k] \notin {Internal, Garbage}
  BY DEF LossInv
<1>4. own' = own /\ obj' = obj
  BY DEF heapvars
<1>5. \A j \in 1..Len(own) : ~own[j].double /\ \E k \in Keys :
          EntryOf(k, j) \/ obj.props[k] \in {Internal, Garbage}
  BY <1>1, <1>2 DEF PlacesInv, EntryOf
<1>6. CASE Return(-1)
  BY <1>6 DEF LossInv, Return
<1>7. CASE TableEnd(obj.props) /\ Return(0) /\ NoCall
  <2>1. \A k \in Keys : k < ii
    BY <1>2, <1>7, LastSpot DEF TableEnd
  <2>2. \A j \in 1..Len(own) : own[j] \in Set(calls)
    BY <1>3, <1>5, <2>1
  <2> QED
    BY <1>4, <1>7, <2>2 DEF LossInv, Return, NoCall
<1>8. CASE ~Broken(obj.props) /\ ~TableEnd(obj.props) /\ ii' = ii + ver.entry /\ pc' = pc
  <2>1. ii \in Keys /\ \A k \in Keys : k < ii' <=> k < ii \/ k = ii
    BY <1>1, <1>2, <1>8, NextSpot, EntryIsThree DEF TableEnd
  <2>2. obj.props[ii] \notin {Internal, Garbage}
    BY <1>8 DEF Broken
  <2>3. CASE Empty(obj.props[ii]) /\ NoCall
    <3>1. \A j \in 1..Len(own) : ~EntryOf(ii, j)
      BY <2>3 DEF EntryOf
    <3> QED
      BY <1>3, <1>4, <1>8, <2>1, <2>2, <2>3, <3>1 DEF LossInv, EntryOf, NoCall
  <2>4. CASE Call(TableCalled(obj.props, ii), 0)
    <3> DEFINE p == TableCalled(obj.props, ii)
    <3>1. p \in Prop
      BY <1>2, <1>8, TableCalledTyped DEF TableEnd
    <3>2. Set(calls') = Set(calls) \cup {p}
      BY <1>2, <2>4, <3>1, SetOfAppend DEF Call
    <3>3. ASSUME NEW j \in 1..Len(own), EntryOf(ii, j)
          PROVE  own[j] = p
      <4>1. p.name = own[j].name /\ p.val = own[j].val /\ p.double = FALSE
        BY <3>3 DEF EntryOf, TableCalled
      <4>2. own[j] \in Prop
        BY <1>1, PartsTyped DEF HeapParts
      <4>3. ~own[j].double
        BY <1>5
      <4> HIDE DEF p
      <4> QED
        BY <3>1, <4>1, <4>2, <4>3, PropEqual
    <3> HIDE DEF p
    <3>4. \A j \in 1..Len(own), k \in Keys : EntryOf(k, j) /\ k < ii' => own[j] \in Set(calls')
      BY <1>3, <2>1, <3>2, <3>3
    <3> QED
      BY <1>3, <1>4, <1>8, <2>1, <2>2, <3>4 DEF LossInv, EntryOf
  <2> QED
    BY <1>8, <2>3, <2>4 DEF TableStep
<1> QED
  BY <1>6, <1>7, <1>8 DEF TableStep

LEMMA LossDescs ==
    ASSUME HeapInv, WalkTyped, LossInv, Finder, UNCHANGED heapvars, DescriptorsStep
    PROVE  LossInv'
<1>1. HeapTyped /\ Common /\ PlacesInv /\ Indexed
  BY PlacesIndexed
<1>2. calls \in Seq(Prop) /\ ii \in Nat /\ ii >= 1 /\ ~obj.slow /\ pc = "descs"
  BY DEF WalkTyped, Calling, Finder, DescriptorsStep
<1>3. \A j \in 1..Len(own), k \in Fields(obj.descs) :
         FieldOf(k, j) /\ k < ii => own[j] \in Set(calls) \/ info \cap LossFlags # {}
  BY <1>2 DEF LossInv
<1>4. own' = own /\ obj' = obj /\ client # "walker" /\ MaxBuild + nin' = MaxBuild + nin
  BY DEF heapvars, Finder
<1>5. Fields(obj.descs) \subseteq 1..Len(obj.descs) /\ Len(obj.descs) \in Nat
  BY <1>1, FieldsFinite, PartsTyped DEF HeapParts
<1>6. CASE Return(-1)
  BY <1>6 DEF LossInv, Return
<1>7. CASE ii > Len(obj.descs) /\ Return(0) /\ Tell(info) /\ NoCall
  <2>1. \A k \in Fields(obj.descs) : k < ii
    BY <1>2, <1>5, <1>7
  <2>2. \A j \in 1..Len(own) : \E k \in Fields(obj.descs) : FieldOf(k, j)
    BY <1>1, <1>2 DEF PlacesInv, FieldOf
  <2>3. out' \cap LossFlags # {} \/ \A j \in 1..Len(own) : own[j] \in Set(calls)
    BY <1>3, <1>4, <1>7, <2>1, <2>2 DEF Tell
  <2> QED
    BY <1>4, <1>7, <2>3 DEF LossInv, Return, NoCall
<1>8. \A k \in Fields(obj.descs) : k < ii + 1 <=> k < ii \/ k = ii
  BY <1>2, <1>5
<1>9. \A k, j : FieldOf(k, j)' <=> FieldOf(k, j)
  BY <1>4 DEF FieldOf, Far
<1>10. ASSUME NEW flags \in SUBSET {"skipped", "undefname"}, ii <= Len(obj.descs),
              PassOver(ii, flags), info' = info \cup flags, ii' = ii + 1, NoCall, pc' = pc
       PROVE  LossInv'
  <2>1. ASSUME NEW j \in 1..Len(own), NEW k \in Fields(obj.descs), FieldOf(k, j), k < ii'
        PROVE  own[j] \in Set(calls) \/ info' \cap LossFlags # {}
    <3>1. CASE k < ii
      BY <1>3, <1>10, <2>1, <3>1
    <3>2. CASE k = ii
      <4>1. flags \cap LossFlags # {}
        BY <1>1, <1>2, <1>10, <2>1, <3>2, PassedLoss
      <4> QED
        BY <1>10, <4>1
    <3> QED
      BY <1>8, <1>10, <2>1, <3>1, <3>2
  <2> QED
    BY <1>2, <1>4, <1>9, <1>10, <2>1 DEF LossInv, NoCall
<1>11. CASE /\ ii <= Len(obj.descs) /\ ~Passes(ii) /\ ~Corrupt(ii)
            /\ Call(FieldCalled(ii), 0)
            /\ info' = info \cup {IF InObject(obj.descs[ii]) THEN "inobject" ELSE "props"}
                          \cup (IF FieldCalled(ii).double THEN {} ELSE Bad(FieldCalled(ii).val))
            /\ ii' = ii + 1 /\ pc' = pc
  <2>1. ii \in 1..Len(obj.descs)
    BY <1>2, <1>5, <1>11
  <2>2. FieldCalled(ii) \in Prop
    BY <1>1, <1>2, <1>11, <2>1, FieldCalledIs
  <2>3. Set(calls') = Set(calls) \cup {FieldCalled(ii)}
    BY <1>2, <1>11, <2>2, SetOfAppend DEF Call
  <2>4. info \subseteq info'
    BY <1>11
  <2>5. ASSUME NEW j \in 1..Len(own), NEW k \in Fields(obj.descs), FieldOf(k, j), k < ii'
        PROVE  own[j] \in Set(calls') \/ info' \cap LossFlags # {}
    <3>1. CASE k < ii
      BY <1>3, <2>3, <2>4, <2>5, <3>1
    <3>2. CASE k = ii
      <4>1. FieldCalled(ii) = own[j]
        BY <1>1, <1>2, <1>11, <2>1, <2>5, <3>2, CalledIsOwn
      <4> QED
        BY <2>3, <4>1
    <3> QED
      BY <1>8, <1>11, <2>5, <3>1, <3>2
  <2> QED
    BY <1>2, <1>4, <1>9, <1>11, <2>5 DEF LossInv
<1> QED
  BY <1>6, <1>7, <1>10, <1>11 DEF DescriptorsStep

LEMMA LossNext ==
    ASSUME PlaceInv, HeapInv, WalkTyped, SpotInv, LossInv, [Next]_opvars
    PROVE  LossInv'
<1>1. CASE V8Step \/ DamageStep
  <2>1. pc = "build" /\ pc' = pc
    BY <1>1 DEF V8Step, Change, AddField, AddOther, DeleteField, GoSlow, AddSlow, DeleteSlow,
       AddElement, DeleteElement, SlowElements, DamageStep, Damaged, LosePart, NotAnArray, RotValue,
       RotKey, RotIndex, RotTable, CutContent, walkvars
  <2> QED
    BY <2>1 DEF LossInv
<1>2. CASE Start \/ SecondPass
  BY <1>2 DEF LossInv, Start, SecondPass
<1>20. CASE UNCHANGED opvars
  <2>1. UNCHANGED <<ver, nin, obj, own, client, pc, ii, info, out, rval, calls>>
    BY <1>20 DEF opvars, heapvars, walkvars
  <2> QED
    BY <2>1 DEF LossInv, Finder, FieldOf, EntryOf, Far
<1> SUFFICES ASSUME Walk, ~SecondPass, Finder'
             PROVE  LossInv'
  BY <1>1, <1>2, <1>20 DEF Next, LossInv
<1>3. UNCHANGED heapvars /\ Finder /\ client # "member" /\ client # "walker"
  BY WalkLeavesMemory DEF Finder, heapvars
<1>4. HeapTyped /\ Indexed /\ HeapParts
  BY PlacesIndexed, PartsTyped
<1>5. CASE Begin
  <2>1. CASE BeginFails
    BY <2>1 DEF BeginFails, Return, LossInv
  <2>2. CASE BadLayout
    BY <1>3, <2>2 DEF BadLayout, Tell, Return, LossInv
  <2>3. CASE BeginWalk
    BY <2>3 DEF BeginWalk, LossInv
  <2> QED
    BY <1>5, <2>1, <2>2, <2>3 DEF Begin
<1>6. CASE Elements
  <2>1. ElementsStep
    BY <1>3, <1>6, StepElements
  <2>2. pc' \in {"shape", "elements"}
    BY <2>1 DEF ElementsStep
  <2> QED
    BY <2>2 DEF LossInv
<1>7. CASE ElementTable
  <2> DEFINE Finish == pc' = "shape" /\ UNCHANGED rval
  <2>1. ReadTable(obj.elts, Finish) /\ pc = "etable"
    BY <1>7 DEF ElementTable
  <2>2. Finish => pc' = "shape"
    OBVIOUS
  <2> HIDE DEF Finish
  <2>3. TableStep(obj.elts, Finish)
    BY <1>3, <2>1, StepTable
  <2>4. pc' \in {"etable", "shape"} \/ Return(-1)
    BY <2>1, <2>2, <2>3 DEF TableStep
  <2> QED
    BY <2>4 DEF LossInv, Return
<1>8. CASE Shape
  <2>1. CASE Return(-1)
    BY <2>1 DEF Return, LossInv
  <2>2. CASE pc' = "table" /\ ii' = 2
    BY <2>2, FirstSpot DEF LossInv
  <2>3. CASE ~obj.slow /\ pc' = "descs" /\ ii' = 1
    <3>1. \A k \in Fields(obj.descs) : ~(k < 1)
      BY <1>4, FieldsFinite DEF HeapParts
    <3>2. obj' = obj
      BY <1>3 DEF heapvars
    <3> QED
      BY <2>3, <3>1, <3>2 DEF LossInv
  <2> QED
    BY <1>8, <2>1, <2>2, <2>3 DEF Shape
<1>9. CASE PropertyTable
  <2>1. pc = "table"
    BY <1>9 DEF PropertyTable
  <2>2. CASE Return(-1) /\ NoCall
    BY <2>2 DEF Return, LossInv
  <2>3. CASE ReadTable(obj.props, Return(0))
    BY <1>3, <2>1, <2>3, StepTable, LossTable
  <2> QED
    BY <1>9, <2>2, <2>3 DEF PropertyTable
<1>10. CASE Descriptors
  BY <1>3, <1>10, StepDescriptors, LossDescs
<1> QED
  BY <1>5, <1>6, <1>7, <1>8, <1>9, <1>10 DEF Walk

LEMMA LossAlways == Spec => []LossIsFlagged
<1>1. Init => LossInv
  BY DEF Init, LossInv
<1>2. LossInv /\ SpotInv /\ WalkTyped /\ HeapInv /\ PlaceInv /\ [Next]_opvars => LossInv'
  BY LossNext
<1>3. LossInv => LossIsFlagged
  <2> SUFFICES ASSUME LossInv, Walked, rval = 0, ~(Set(own) \subseteq Set(calls))
               PROVE  out \cap {"skipped", "undefname", "badlayout"} # {}
    BY DEF LossIsFlagged
  <2>1. PICK p \in Set(own) : p \notin Set(calls)
    OBVIOUS
  <2>2. PICK j \in 1..Len(own) : p = own[j]
    BY DEF Set
  <2> QED
    BY <2>1, <2>2 DEF LossInv, Walked, Finder, LossFlags
<1> QED
  BY <1>1, <1>2, <1>3, SpotAlways, WalkTypedAlways, HeapAlways, PlaceAlways, PTL DEF Spec

(* Everything that goes wrong in the walk of an object is told to its      *)
(* caller: a named property that is lost, a value that refers to no value, *)
(* a callback that failed.  For every version of V8, every object that V8  *)
(* can have built and every damage that the model has.                     *)
THEOREM TroubleIsAlwaysTold == Spec => []TroubleIsTold
<1>1. LossIsFlagged /\ GarbageIsFlagged /\ StopsAtError => TroubleIsTold
  BY DEF TroubleIsTold
<1> QED
  BY <1>1, LossAlways, GarbageAlways, StopsAlways, PTL


-----------------------------------------------------------------------------
(* Descriptors of fields that V8 has deleted                               *)

(* A field that is gone was not in the object.                             *)
Gone(descs, n) ==
    \A k \in Fields(descs), r \in Nat : descs[k].index = Smi(r) => r < n \/ nin <= n

GoneInv == damage = "none" /\ ~obj.slow => Gone(obj.descs, Len(own))

LEMMA DescAppended ==
    ASSUME NEW descs \in Seq(Desc), NEW d \in Desc, NEW k \in Fields(Append(descs, d))
    PROVE  \/ k \in Fields(descs) /\ Append(descs, d)[k] = descs[k]
           \/ d.field /\ Append(descs, d)[k] = d
<1> DEFINE s == Append(descs, d)
           n == Len(descs)
<1>1. n \in Nat /\ Len(s) = n + 1 /\ s[n + 1] = d /\ \A i \in 1..n : s[i] = descs[i]
  OBVIOUS
<1>2. k \in 1..Len(s) /\ s[k].field
  BY DEF Fields
<1> HIDE DEF s, n
<1>3. k = n + 1 \/ k \in 1..n
  BY <1>1, <1>2
<1>4. k = n + 1 => d.field /\ s[k] = d
  BY <1>1, <1>2
<1>5. k \in 1..n => k \in Fields(descs) /\ s[k] = descs[k]
  BY <1>1, <1>2 DEF Fields, n
<1> QED
  BY <1>3, <1>4, <1>5 DEF s

LEMMA GoneNext ==
    ASSUME HeapInv, GoneInv, [Next]_opvars
    PROVE  GoneInv'
<1>1. CASE UNCHANGED heapvars
  BY <1>1 DEF GoneInv, Gone, heapvars
<1>2. CASE DamageStep
  <2>1. damage' # "none"
    BY <1>2 DEF DamageStep, Damaged, LosePart, Parts, NotAnArray, RotValue, RotKey, RotIndex,
                RotTable, CutContent
  <2> QED
    BY <2>1 DEF GoneInv
<1> SUFFICES ASSUME V8Step, ~obj'.slow
             PROVE  Gone(obj'.descs, Len(own'))
  <2>1. V8Step => nin' = nin
    BY DEF V8Step
  <2>2. Next => V8Step \/ DamageStep \/ UNCHANGED heapvars
    BY WalkLeavesMemory DEF Next
  <2> QED
    BY <1>1, <1>2, <2>1, <2>2 DEF GoneInv, Gone, opvars
<1>3. damage = "none" /\ HeapTyped /\ Common /\ Full
  BY DEF HeapInv, V8Step, Change, AddField, AddOther, DeleteField, GoSlow, AddSlow, DeleteSlow,
         AddElement, DeleteElement, SlowElements
<1>4. nin \in Nat /\ Len(own) \in Nat /\ obj.descs \in Seq(Desc) /\ own \in Seq(Prop) /\ made \in Nat
  BY <1>3, PartsTyped DEF HeapParts
<1>5. ~obj.slow => Gone(obj.descs, Len(own))
  BY <1>3 DEF GoneInv
<1>6. ~obj.slow => \A k \in Fields(obj.descs) : \E r \in 0..(NFields - 1) : obj.descs[k].index = Smi(r)
  BY <1>3 DEF Full, DescsInv, Ranked
<1>7. CASE AddField
  <2>1. PICK v \in {Value(made), Double(made)} :
           /\ own' = Append(own, Property(Name(made), v))
           /\ obj'.descs = Append(obj.descs, Field(Name(made), Smi(Len(own))))
    BY <1>3, <1>7, TypedAddField
  <2>2. ~obj.slow /\ NFields = Len(own)
    BY <1>7 DEF AddField, NFields
  <2> DEFINE d == Field(Name(made), Smi(Len(own)))
  <2>3. d \in Desc /\ d.index = Smi(Len(own))
    BY <1>4, WordsTyped DEF Desc, Field
  <2> HIDE DEF d
  <2>4. Len(own') = Len(own) + 1
    <3>1. Property(Name(made), v) \in Prop
      BY <1>4, WordsTyped, PropertyTyped
    <3> QED
      BY <1>4, <2>1, <3>1
  <2>5. obj'.descs = Append(obj.descs, d)
    BY <2>1 DEF d
  <2>6. ASSUME NEW k \in Fields(obj'.descs), NEW r \in Nat, obj'.descs[k].index = Smi(r)
        PROVE  r < Len(own')
    <3>1. CASE k \in Fields(obj.descs) /\ obj'.descs[k] = obj.descs[k]
      <4>1. PICK q \in 0..(NFields - 1) : obj.descs[k].index = Smi(q)
        BY <1>6, <2>2, <3>1
      <4>2. q = r
        BY <2>6, <3>1, <4>1, NamesDiffer
      <4> QED
        BY <1>4, <2>2, <2>4, <4>1, <4>2
    <3>2. CASE obj'.descs[k] = d
      <4>1. r = Len(own)
        BY <2>3, <2>6, <3>2, NamesDiffer
      <4> QED
        BY <1>4, <2>4, <4>1
    <3>3. k \in Fields(Append(obj.descs, d))
      BY <2>5
    <3>4. \/ k \in Fields(obj.descs) /\ Append(obj.descs, d)[k] = obj.descs[k]
          \/ Append(obj.descs, d)[k] = d
      <4>1. obj.descs \in Seq(Desc) /\ d \in Desc
        BY <1>4, <2>3
      <4> DEFINE s == obj.descs
      <4>2. s \in Seq(Desc) /\ d \in Desc /\ k \in Fields(Append(s, d))
        BY <3>3, <4>1
      <4> HIDE DEF s
      <4>3. \/ k \in Fields(s) /\ Append(s, d)[k] = s[k]
            \/ Append(s, d)[k] = d
        BY <4>2, DescAppended, ZenonT(40)
      <4> QED
        BY <4>3 DEF s
    <3> QED
      BY <2>5, <3>1, <3>2, <3>4
  <2> QED
    BY <2>6 DEF Gone
<1>8. CASE AddOther
  <2> DEFINE d == [key |-> Name(made), field |-> FALSE, index |-> Internal]
  <2>1. obj'.descs = Append(obj.descs, d) /\ own' = own /\ ~obj.slow
    BY <1>3, <1>8, TypedAddOther
  <2>2. d \in Desc /\ ~d.field
    BY <1>4, WordsTyped DEF Desc
  <2> HIDE DEF d
  <2>3. \A k \in Fields(obj'.descs) : k \in Fields(obj.descs) /\ obj'.descs[k] = obj.descs[k]
    BY <1>4, <2>1, <2>2, DescAppended
  <2> QED
    BY <1>5, <2>1, <2>3 DEF Gone
<1>9. CASE DeleteField
  <2>1. /\ obj.props # <<>> /\ ~obj.slow
        /\ own' = SubSeq(own, 1, Len(own) - 1)
    BY <1>3, <1>9, TypedDeleteField
  <2>2. Len(obj.props) # 0
    BY <1>3, <2>1, PartsTyped DEF HeapParts
  <2>3. Len(own) > nin
    BY <1>3, <1>4, <2>1, <2>2 DEF Common, FieldsInv, Laid
  <2>4. Len(own) - 1 \in Nat /\ Len(own) - 1 <= Len(own)
    BY <1>4, <2>3
  <2>5. Len(own') = Len(own) - 1
    BY <1>4, <2>1, <2>4, FirstOnes
  <2>6. nin <= Len(own')
    BY <1>4, <2>3, <2>5
  <2> QED
    BY <2>6 DEF Gone
<1>10. CASE AddElement \/ DeleteElement \/ SlowElements
  <2>1. NamesStay
    BY <1>3, <1>10, TypedAddElement, TypedDeleteElement, TypedSlowElements
  <2> QED
    BY <1>5, <2>1 DEF NamesStay
<1>11. CASE GoSlow \/ AddSlow \/ DeleteSlow
  <2>1. obj'.slow
    <3>1. GoSlow => obj'.slow
      BY <1>3, DoublesAre, TypedGoSlow
    <3> QED
      BY <1>3, <1>11, <3>1, TypedAddSlow, TypedDeleteSlow
  <2> QED
    BY <2>1
<1> QED
  BY <1>7, <1>8, <1>9, <1>10, <1>11 DEF V8Step

LEMMA GoneAlways == Spec => []GoneInv
<1>1. Init => GoneInv
  <2>1. Init => Fields(obj.descs) = {}
    BY DEF Init, NoObject, Fields
  <2> QED
    BY <2>1 DEF GoneInv, Gone
<1>2. GoneInv /\ HeapInv /\ [Next]_opvars => GoneInv'
  BY GoneNext
<1> QED
  BY <1>1, <1>2, HeapAlways, PTL DEF Spec

-----------------------------------------------------------------------------
(* What an object in order is reported as                                  *)

Distinct(s) == \A i, j \in 1..Len(s) : s[i] = s[j] => i = j

\* s is the first n of t
InOrder(s, t, n) == Len(s) = n /\ n <= Len(t) /\ \A i \in 1..n : s[i] = t[i]

LEMMA DistinctAppend ==
    ASSUME NEW S, NEW s \in Seq(S), NEW e \in S, Distinct(s), e \notin Set(s)
    PROVE  Distinct(Append(s, e))
<1> DEFINE t == Append(s, e)
           n == Len(s)
<1>1. n \in Nat /\ Len(t) = n + 1 /\ t[n + 1] = e /\ \A i \in 1..n : t[i] = s[i]
  OBVIOUS
<1>2. \A i \in 1..n : s[i] # e
  BY DEF Set, n
<1>3. \A i, j \in 1..n : s[i] = s[j] => i = j
  BY DEF Distinct, n
<1> HIDE DEF t, n
<1>4. \A i \in 1..(n + 1) : i \in 1..n \/ i = n + 1
  BY <1>1
<1>5. \A i, j \in 1..(n + 1) : t[i] = t[j] => i = j
  BY <1>1, <1>2, <1>3, <1>4
<1> QED
  BY <1>1, <1>5 DEF Distinct, t

LEMMA InOrderAppend ==
    ASSUME NEW S, NEW s \in Seq(S), NEW t \in Seq(S), NEW n \in Nat, InOrder(s, t, n), n + 1 <= Len(t)
    PROVE  InOrder(Append(s, t[n + 1]), t, n + 1)
<1> DEFINE u == Append(s, t[n + 1])
<1>1. Len(s) = n /\ \A i \in 1..n : s[i] = t[i]
  BY DEF InOrder
<1>2. t[n + 1] \in S
  OBVIOUS
<1>3. Len(u) = n + 1 /\ u[n + 1] = t[n + 1] /\ \A i \in 1..n : u[i] = s[i]
  BY <1>1, <1>2
<1> HIDE DEF u
<1>4. \A i \in 1..(n + 1) : i \in 1..n \/ i = n + 1
  OBVIOUS
<1>5. \A i \in 1..(n + 1) : u[i] = t[i]
  BY <1>1, <1>3, <1>4
<1> QED
  BY <1>3, <1>5 DEF InOrder, u

LEMMA InOrderWhole ==
    ASSUME NEW S, NEW s \in Seq(S), NEW t \in Seq(S), InOrder(s, t, Len(t))
    PROVE  s = t
<1>1. Len(s) = Len(t) /\ \A i \in 1..Len(t) : s[i] = t[i]
  BY DEF InOrder
<1> QED
  BY <1>1, SeqEqual

LEMMA ConcatSet ==
    ASSUME NEW S, NEW s \in Seq(S), NEW t \in Seq(S)
    PROVE  /\ s \o t \in Seq(S) /\ Len(s \o t) = Len(s) + Len(t)
           /\ \A i \in 1..Len(s) : (s \o t)[i] = s[i]
           /\ \A i \in 1..Len(t) : (s \o t)[Len(s) + i] = t[i]
           /\ Set(s \o t) = Set(s) \cup Set(t)
<1> DEFINE u == s \o t
           m == Len(s)
           n == Len(t)
<1>1. u \in Seq(S) /\ Len(u) = m + n /\ m \in Nat /\ n \in Nat
  BY ConcatProperties
<1>2. \A i \in 1..(m + n) : u[i] = IF i <= m THEN s[i] ELSE t[i - m]
  BY ConcatProperties
<1> HIDE DEF u, m, n
<1>3. \A i \in 1..m : i \in 1..(m + n) /\ u[i] = s[i]
  BY <1>1, <1>2
<1>4. \A i \in 1..n : m + i \in 1..(m + n) /\ u[m + i] = t[i]
  <2> SUFFICES ASSUME NEW i \in 1..n PROVE m + i \in 1..(m + n) /\ u[m + i] = t[i]
    OBVIOUS
  <2>1. m + i \in 1..(m + n) /\ ~(m + i <= m) /\ (m + i) - m = i
    BY <1>1
  <2> QED
    BY <1>2, <2>1
<1>5. \A i \in 1..(m + n) : i \in 1..m \/ (i - m \in 1..n /\ u[i] = t[i - m])
  BY <1>1, <1>2
<1>6. {u[i] : i \in 1..(m + n)} = {s[i] : i \in 1..m} \cup {t[i] : i \in 1..n}
  BY <1>3, <1>4, <1>5
<1> QED
  BY <1>1, <1>3, <1>4, <1>6 DEF u, m, n, Set

LEMMA ConcatDistinct ==
    ASSUME NEW S, NEW s \in Seq(S), NEW t \in Seq(S), Distinct(s), Distinct(t),
           Set(s) \cap Set(t) = {}
    PROVE  Distinct(s \o t)
<1> DEFINE u == s \o t
           m == Len(s)
           n == Len(t)
<1>1. m \in Nat /\ n \in Nat /\ Len(u) = m + n
  BY ConcatSet
<1>2. \A i \in 1..(m + n) : u[i] = IF i <= m THEN s[i] ELSE t[i - m]
  BY ConcatProperties
<1>3. /\ \A i, j \in 1..m : s[i] = s[j] => i = j
      /\ \A i, j \in 1..n : t[i] = t[j] => i = j
      /\ \A i \in 1..m, j \in 1..n : s[i] # t[j]
  <2>1. \A i \in 1..m, j \in 1..n : s[i] \in Set(s) /\ t[j] \in Set(t)
    BY DEF Set
  <2>2. \A i \in 1..m, j \in 1..n : s[i] # t[j]
    BY <2>1
  <2> QED
    BY <2>2 DEF Distinct
<1> HIDE DEF u, m, n
<1>4. \A i \in 1..(m + n) : (i \in 1..m /\ i <= m) \/ (~(i <= m) /\ i - m \in 1..n)
  BY <1>1
<1> SUFFICES ASSUME NEW i \in 1..(m + n), NEW j \in 1..(m + n), u[i] = u[j]
             PROVE  i = j
  BY <1>1 DEF Distinct, u
<1>5. CASE i <= m /\ j <= m
  BY <1>1, <1>2, <1>3, <1>4, <1>5
<1>6. CASE ~(i <= m) /\ ~(j <= m)
  <2>1. i - m = j - m
    BY <1>2, <1>3, <1>4, <1>6
  <2> QED
    BY <1>1, <2>1
<1>7. CASE i <= m /\ ~(j <= m)
  BY <1>2, <1>3, <1>4, <1>7
<1>8. CASE ~(i <= m) /\ j <= m
  BY <1>2, <1>3, <1>4, <1>8
<1> QED
  BY <1>5, <1>6, <1>7, <1>8

(* Without a repetition a sequence is as long as its set is large.         *)
LEMMA DistinctLength ==
    ASSUME NEW S, NEW s \in Seq(S), Distinct(s)
    PROVE  Cardinality(Set(s)) = Len(s)
<1> DEFINE n == Len(s)
           f == [i \in 1..n |-> s[i]]
<1>1. n \in Nat
  OBVIOUS
<1>2. f \in [1..n -> Set(s)]
  BY DEF Set
<1>3. \A i, j \in 1..n : f[i] = f[j] => i = j
  BY DEF Distinct
<1>4. \A x \in Set(s) : \E i \in 1..n : f[i] = x
  BY DEF Set
<1> HIDE DEF f, n
<1>5. ExistsBijection(1..n, Set(s))
  BY <1>2, <1>3, <1>4 DEF ExistsBijection, Bijection, Injection, Surjection, IsInjective
<1> QED
  BY <1>1, <1>5, FS_CountingElements DEF n

LEMMA SameLength ==
    ASSUME NEW S, NEW s \in Seq(S), NEW t \in Seq(S), Distinct(s), Distinct(t), Set(s) = Set(t)
    PROVE  Len(s) = Len(t)
BY DistinctLength

(* The properties of an object are different ones.                         *)
LEMMA PropertiesApart ==
    ASSUME HeapTyped, Common, Full
    PROVE  /\ elements \in Seq(Prop) /\ own \in Seq(Prop) /\ Numbered \in Seq(Prop)
           /\ Len(elements) \in Nat /\ Len(own) \in Nat /\ Len(Numbered) \in Nat
           /\ Distinct(elements) /\ Distinct(own) /\ Distinct(Numbered)
           /\ \A p \in Set(elements), q \in Set(own) : p.name # q.name
           /\ Set(Numbered) \subseteq Set(elements)
<1>1. elements \in Seq(Prop) /\ own \in Seq(Prop) /\ <<>> \in Seq(Prop)
  BY PartsTyped DEF HeapParts
<1>2. Distinct(elements)
  BY NumbersDiffer DEF Distinct, Full
<1>3. Distinct(own)
  BY DEF Common, NamesInv, Distinct
<1>4. Distinct(<<>>) /\ Set(<<>>) = {}
  BY SetOfNone DEF Distinct
<1>5. ASSUME NEW p \in Set(elements), NEW q \in Set(own)
      PROVE  p.name # q.name
  <2>1. PICK i \in 1..Len(elements) : p = elements[i]
    BY DEF Set
  <2>2. PICK j \in 1..Len(own) : q = own[j]
    BY DEF Set
  <2>3. PICK r \in Nat : elements[i].name = Smi(r)
    BY DEF Full, NumbersInv
  <2>4. PICK m \in 0..(made - 1) : own[j].name = Name(m)
    BY DEF Common, NamesInv
  <2>5. p.name[1] = "smi" /\ q.name[1] = "name"
    BY <2>1, <2>2, <2>3, <2>4, WordKinds
  <2> QED
    BY <2>5
<1>6. Numbered = elements \/ Numbered = <<>>
  BY DEF Numbered
<1>7. Len(elements) \in Nat /\ Len(own) \in Nat /\ Len(<<>>) \in Nat
  BY <1>1
<1> QED
  BY <1>1, <1>2, <1>3, <1>4, <1>5, <1>6, <1>7

(* Nothing to walk is nothing there is.                                    *)
LEMMA NoElements ==
    ASSUME HeapTyped, Full, damage = "none", ~HasElements
    PROVE  Numbered = <<>>
<1>1. CASE ~ver.elements \/ obj.kind = "other"
  BY <1>1 DEF Numbered
<1>2. CASE obj.elts = <<>>
  <2>1. Len(obj.elts) = 0
    BY <1>2
  <2>2. TableLen # 0
    BY SizesTyped DEF TableLen
  <2>3. obj.kind # "dictionary"
    BY <2>1, <2>2 DEF HeapTyped
  <2>4. \A j \in 1..Len(elements) : FALSE
    BY <2>1, <2>3 DEF Full, NumbersInv
  <2>5. elements \in Seq(Prop) /\ Len(elements) \in Nat
    BY PartsTyped DEF HeapParts
  <2>6. Len(elements) = 0
    BY <2>4, <2>5
  <2>7. elements = <<>>
    BY <2>5, <2>6
  <2> QED
    BY <2>7 DEF Numbered
<1> QED
  BY <1>1, <1>2 DEF HasElements

LEMMA OwnDescriptors ==
    ASSUME HeapTyped, Common, Full, ~obj.slow
    PROVE  /\ \A k \in Fields(obj.descs) : \E r \in 0..(NFields - 1) :
                 /\ obj.descs[k].index = Smi(r) /\ obj.descs[k].index[2] = r
                 /\ obj.descs[k].key[1] = "name"
                 /\ r < Len(own) => obj.descs[k].key = own[r + 1].name
           /\ \A r \in 0..(NFields - 1) : \E k \in Fields(obj.descs) : obj.descs[k].index = Smi(r)
           /\ \A k, l \in Fields(obj.descs) : k < l => obj.descs[k].index[2] < obj.descs[l].index[2]
           /\ Len(own) <= NFields /\ NFields <= Len(obj.descs)
           /\ NFields \in Nat /\ Len(obj.descs) \in Nat /\ Len(own) \in Nat /\ nin \in Nat
           /\ Fields(obj.descs) \subseteq 1..Len(obj.descs)
           /\ Len(obj.props) = IF Len(own) > nin THEN Len(own) - nin ELSE 0
<1>1. Ranked(obj.descs, own, NFields)
  BY DEF Full, DescsInv
<1>2. Laid(own, obj.props, obj.slots, nin)
  BY DEF Common, FieldsInv
<1>3. /\ \A k \in Fields(obj.descs) : \E r \in 0..(NFields - 1) :
            /\ obj.descs[k].index = Smi(r)
            /\ obj.descs[k].key[1] = "name"
            /\ r < Len(own) => obj.descs[k].key = own[r + 1].name
      /\ \A r \in 0..(NFields - 1) : \E k \in Fields(obj.descs) : obj.descs[k].index = Smi(r)
      /\ \A k, l \in Fields(obj.descs) : k < l => obj.descs[k].index[2] < obj.descs[l].index[2]
      /\ Len(own) <= NFields
  BY <1>1 DEF Ranked
<1>4. \A d, r : d.index = Smi(r) => d.index[2] = r
  BY WordKinds
<1>5. /\ NFields <= Len(obj.descs)
      /\ NFields \in Nat /\ Len(obj.descs) \in Nat /\ Len(own) \in Nat /\ nin \in Nat
      /\ Fields(obj.descs) \subseteq 1..Len(obj.descs)
  BY FieldsFinite, PartsTyped DEF HeapParts
<1>6. Len(obj.props) = IF Len(own) > nin THEN Len(own) - nin ELSE 0
  BY <1>2 DEF Laid
<1>7. \A k \in Fields(obj.descs) : \E r \in 0..(NFields - 1) :
            /\ obj.descs[k].index = Smi(r) /\ obj.descs[k].index[2] = r
            /\ obj.descs[k].key[1] = "name"
            /\ r < Len(own) => obj.descs[k].key = own[r + 1].name
  <2> TAKE k \in Fields(obj.descs)
  <2>1. PICK r \in 0..(NFields - 1) :
            /\ obj.descs[k].index = Smi(r)
            /\ obj.descs[k].key[1] = "name"
            /\ r < Len(own) => obj.descs[k].key = own[r + 1].name
    BY <1>3
  <2>2. obj.descs[k].index[2] = r
    BY <1>4, <2>1
  <2> QED
    BY <2>1, <2>2
<1> QED
  BY <1>3, <1>5, <1>6, <1>7

(* In an object in order nothing is passed over that is a property, and    *)
(* nothing is taken for corrupt.                                           *)
LEMMA OrderlyPass ==
    ASSUME HeapTyped, Common, Full, damage = "none", ~obj.slow, NEW k \in 1..Len(obj.descs),
           NEW flags, PassOver(k, flags)
    PROVE  /\ flags = {}
           /\ k \in Fields(obj.descs) =>
                 \E r \in Nat : obj.descs[k].index = Smi(r) /\ ~(r < Len(own))
<1> DEFINE d == obj.descs[k]
<1>0. Len(obj.descs) \in Nat /\ k \in Nat /\ k <= Len(obj.descs) /\ d \in Desc
  BY PartsTyped DEF HeapParts
<1>1. ~(2 * k - 1 >= NContent)
  BY <1>0 DEF NContent
<1>2. CASE ~d.field
  <2>1. k \notin Fields(obj.descs)
    BY <1>2 DEF Fields
  <2> QED
    BY <1>1, <1>2, <2>1 DEF PassOver
<1>3. CASE d.field
  <2>1. k \in Fields(obj.descs)
    BY <1>3 DEF Fields
  <2>2. PICK r \in 0..(NFields - 1) : d.index = Smi(r) /\ d.key[1] = "name"
    BY <2>1, OwnDescriptors
  <2>3. r \in Nat /\ nin \in Nat /\ Len(own) \in Nat
        /\ Len(obj.props) = IF Len(own) > nin THEN Len(own) - nin ELSE 0
    BY <2>2, OwnDescriptors
  <2>4. d.index # Garbage
    BY <2>2, WordKinds
  <2>5. (InObject(d) <=> r < nin) /\ ArrayIdx(d) = r - nin
    BY <1>0, <2>2, <2>3, FieldAt
  <2>6. flags = {} /\ ~InObject(d) /\ ArrayIdx(d) >= Len(obj.props)
    BY <1>1, <1>3, <2>2, <2>4 DEF PassOver
  <2>7. ~(r < nin) /\ r - nin >= Len(obj.props)
    BY <2>5, <2>6
  <2>8. ~(r < Len(own))
    BY <2>3, <2>7
  <2> QED
    BY <2>2, <2>3, <2>6, <2>8
<1> QED
  BY <1>2, <1>3

LEMMA OrderlyNotCorrupt ==
    ASSUME HeapTyped, Common, Full, damage = "none", ~obj.slow, NEW k \in 1..Len(obj.descs)
    PROVE  ~Corrupt(k)
<1> SUFFICES ASSUME Corrupt(k) PROVE FALSE
  OBVIOUS
<1> DEFINE d == obj.descs[k]
<1>1. ~Passes(k) /\ ~InObject(d) /\ ArrayIdx(d) >= Len(obj.props)
  BY DEF Corrupt
<1>2. k \in Nat /\ d \in Desc
  BY PartsTyped DEF HeapParts
<1>3. d.field /\ d.key[1] = "name" /\ d.index # Garbage /\ (ver.content => 2 * k - 1 < NContent)
  BY <1>1, <1>2, NotPassed
<1>4. k \in Fields(obj.descs)
  BY <1>3 DEF Fields
<1>5. PICK r \in 0..(NFields - 1) : d.index = Smi(r)
  BY <1>4, OwnDescriptors
<1>6. r \in Nat /\ nin \in Nat /\ r < Len(obj.descs) /\ Len(obj.descs) \in Nat
  BY <1>5, OwnDescriptors
<1>7. PropIdx(d) = IF ver.indetails THEN r ELSE r - nin
  BY <1>2, <1>5, <1>6, FieldAt
<1>8. PropIdx(d) < Len(obj.descs)
  BY <1>6, <1>7
<1>9. PassOver(k, {})
  BY <1>1, <1>3, <1>8 DEF PassOver
<1> QED
  BY <1>1, <1>9 DEF Passes

(* A field that is reported is the one of a property.                      *)
LEMMA OrderlyCalled ==
    ASSUME HeapTyped, Common, Full, GoneInv, damage = "none", ~obj.slow,
           NEW k \in 1..Len(obj.descs), ~Passes(k)
    PROVE  /\ k \in Fields(obj.descs)
           /\ \E r \in 0..(Len(own) - 1) :
                 obj.descs[k].index = Smi(r) /\ FieldCalled(k) = own[r + 1]
<1>1. ~Corrupt(k) /\ PlacesInv /\ Indexed
  BY OrderlyNotCorrupt, FullPlaces DEF PlacesInv
<1>2. k \in Fields(obj.descs)
  BY <1>1, FieldCalledIs
<1>3. PICK r \in Nat : obj.descs[k].index = Smi(r) /\ r < nin + Len(obj.props)
  BY <1>1, FieldCalledIs
<1>4. Gone(obj.descs, Len(own))
  BY DEF GoneInv
<1>5. r < Len(own) \/ nin <= Len(own)
  BY <1>2, <1>3, <1>4 DEF Gone
<1>6. nin \in Nat /\ Len(own) \in Nat /\ Len(obj.props) = IF Len(own) > nin THEN Len(own) - nin ELSE 0
  BY OwnDescriptors
<1>7. r < Len(own)
  BY <1>3, <1>5, <1>6
<1>8. r \in 0..(Len(own) - 1) /\ r + 1 \in 1..Len(own) /\ (r + 1) - 1 = r
  BY <1>6, <1>7
<1>9. PICK q \in 0..(NFields - 1) :
         /\ obj.descs[k].index = Smi(q)
         /\ q < Len(own) => obj.descs[k].key = own[q + 1].name
  BY <1>2, OwnDescriptors
<1>10. q = r
  BY <1>3, <1>9, NamesDiffer
<1>11. FieldOf(k, r + 1)
  BY <1>3, <1>7, <1>8, <1>9, <1>10 DEF FieldOf
<1>12. FieldCalled(k) = own[r + 1]
  BY <1>1, <1>8, <1>11, CalledIsOwn
<1> QED
  BY <1>2, <1>3, <1>8, <1>12

-----------------------------------------------------------------------------
(* An object in order is read to its end unless the version's metadata, or *)
(* the bound of the layout descriptor, leave it unreadable                 *)

Sound(flags) == flags \cap {"skipped", "undefname", "badlayout"} = {}

InOrderly == Finder /\ damage = "none"
TableReadable == HasElements /\ obj.kind = "dictionary" => ver.entry >= 2
ShapeReadable == ~LayoutFails /\ ~(ver.transitions /\ ver.content)

SoundInv == InOrderly =>
    /\ pc \in {"elements", "etable", "shape", "descs"} => Sound(info)
    /\ pc = "table" => Sound(out)
    /\ pc \in {"shape", "table", "descs"} => TableReadable
    /\ pc = "descs" => ShapeReadable
    /\ pc = "end" => /\ rval = 0 <=> Readable
                     /\ rval = 0 => Sound(out)

LEMMA HeapReads ==
    ASSUME UNCHANGED heapvars
    PROVE  /\ InOrderly' <=> InOrderly
           /\ TableReadable' <=> TableReadable
           /\ ShapeReadable' <=> ShapeReadable
           /\ Readable' <=> Readable
           /\ obj' = obj /\ ver' = ver /\ elements' = elements /\ own' = own /\ damage' = damage
           /\ client' = client /\ nin' = nin /\ Numbered' = Numbered
<1>1. /\ obj' = obj /\ ver' = ver /\ elements' = elements /\ own' = own /\ damage' = damage
      /\ client' = client /\ nin' = nin
  BY DEF heapvars
<1>2. HasElements' <=> HasElements
  BY <1>1 DEF HasElements
<1>3. LayoutFails' <=> LayoutFails
  BY <1>1 DEF LayoutFails, Untagged
<1>4. Numbered' = Numbered
  BY <1>1 DEF Numbered
<1>5. TableReadable' <=> TableReadable
  BY <1>1, <1>2 DEF TableReadable
<1>6. ShapeReadable' <=> ShapeReadable
  BY <1>1, <1>3 DEF ShapeReadable
<1>7. Readable' <=> Readable
  BY <1>1, <1>2, <1>3 DEF Readable
<1> QED
  BY <1>1, <1>4, <1>5, <1>6, <1>7 DEF InOrderly, Finder

LEMMA ReadableIs ==
    ASSUME HeapTyped
    PROVE  /\ Readable <=> TableReadable /\ (obj.slow => ver.entry >= 2) /\ (~obj.slow => ShapeReadable)
           /\ ver.entry \in Nat
<1>1. ver.entry \in Nat
  BY VersionAssumption DEF HeapTyped
<1> QED
  BY <1>1 DEF Readable, TableReadable, ShapeReadable

(* Of a dictionary in order every key is one of a property.                *)
LEMMA OrderlyTable ==
    ASSUME HeapTyped, SpotInv, Calling, pc \in {"etable", "table"}, NEW table, NEW props \in Seq(Prop),
           Len(table) = TableLen, Entries(table, props),
           \A j \in 1..Len(props) : \E r : props[j].name \in {Smi(r), Name(r)}
    PROVE  Broken(table) <=> ver.entry < 2
<1> SUFFICES ASSUME ~TableEnd(table), table[ii] \in {Garbage, Internal} PROVE FALSE
  BY DEF Broken
<1>1. ii \in Spots /\ ~(ii + 1 > TableLen)
  BY DEF TableEnd, SpotInv
<1>2. ii \in Keys
  BY <1>1, NextSpot
<1>3. ~Empty(table[ii])
  BY WordsDiffer
<1>4. PICK j \in 1..Len(props) : table[ii] = props[j].name
  BY <1>2, <1>3 DEF Entries
<1>5. PICK r : props[j].name \in {Smi(r), Name(r)}
  OBVIOUS
<1> QED
  BY <1>4, <1>5, WordsDiffer

LEMMA OrderlyBroken ==
    ASSUME HeapTyped, Common, Full, WalkTyped, SpotInv, Calling
    PROVE  /\ pc = "etable" => (Broken(obj.elts) <=> ver.entry < 2)
           /\ pc = "table" => (Broken(obj.props) <=> ver.entry < 2)
<1>1. elements \in Seq(Prop) /\ own \in Seq(Prop)
  BY PartsTyped DEF HeapParts
<1>2. CASE pc = "etable"
  <2>1. Len(obj.elts) = TableLen /\ Entries(obj.elts, elements)
    BY <1>2 DEF WalkTyped, HeapTyped, Full, NumbersInv
  <2>2. \A j \in 1..Len(elements) : \E r : elements[j].name \in {Smi(r), Name(r)}
    BY DEF Full, NumbersInv
  <2>3. Broken(obj.elts) <=> ver.entry < 2
    BY <1>1, <1>2, <2>1, <2>2, OrderlyTable
  <2> QED
    BY <1>2, <2>3
<1>3. CASE pc = "table"
  <2>1. Len(obj.props) = TableLen /\ Entries(obj.props, own)
    BY <1>3 DEF WalkTyped, HeapTyped, Full, TableInv
  <2>2. \A j \in 1..Len(own) : \E r : own[j].name \in {Smi(r), Name(r)}
    BY DEF Common, NamesInv
  <2>3. Broken(obj.props) <=> ver.entry < 2
    BY <1>1, <1>3, <2>1, <2>2, OrderlyTable
  <2> QED
    BY <1>3, <2>3
<1> QED
  BY <1>2, <1>3

LEMMA SoundTold ==
    ASSUME NEW flags, Sound(flags), NEW word
    PROVE  Sound(flags \cup Bad(word)) /\ Sound(flags \cup {"dict"}) /\ Sound(flags \cup {})
BY DEF Sound, Bad

LEMMA SoundNext ==
    ASSUME PlaceInv, HeapInv, WalkTyped, SpotInv, SoundInv, [Next]_opvars
    PROVE  SoundInv'
<1>1. CASE V8Step \/ DamageStep
  <2>1. pc = "build" /\ pc' = pc
    BY <1>1 DEF V8Step, Change, AddField, AddOther, DeleteField, GoSlow, AddSlow, DeleteSlow,
       AddElement, DeleteElement, SlowElements, DamageStep, Damaged, LosePart, NotAnArray, RotValue,
       RotKey, RotIndex, RotTable, CutContent, walkvars
  <2> QED
    BY <2>1 DEF SoundInv
<1>2. CASE UNCHANGED opvars
  <2>1. UNCHANGED heapvars /\ UNCHANGED <<pc, info, out, rval>>
    BY <1>2 DEF opvars, walkvars
  <2> QED
    BY <2>1, HeapReads DEF SoundInv
<1>20. CASE Start \/ SecondPass
  BY <1>20 DEF SoundInv, Start, SecondPass
<1> SUFFICES ASSUME Walk, ~SecondPass, InOrderly'
             PROVE  SoundInv'
  BY <1>1, <1>2, <1>20 DEF Next, SoundInv
<1>3. UNCHANGED heapvars /\ InOrderly /\ Finder /\ Calling /\ client # "walker" /\ client # "member"
      /\ damage = "none"
  BY WalkLeavesMemory, HeapReads DEF InOrderly, Finder, Calling, heapvars
<1>4. HeapTyped /\ Common /\ Full /\ HeapParts
  BY <1>3, PartsTyped DEF HeapInv
<1>30. /\ TableReadable' <=> TableReadable
       /\ ShapeReadable' <=> ShapeReadable
       /\ Readable' <=> Readable
  BY <1>3, HeapReads
<1>31. /\ Readable <=> TableReadable /\ (obj.slow => ver.entry >= 2) /\ (~obj.slow => ShapeReadable)
       /\ ver.entry \in Nat
  BY <1>4, ReadableIs
<1>32. \A flags : Tell(flags) => out' = flags
  BY <1>3 DEF Tell
<1>5. CASE Begin
  <2>1. info = {}
    BY <1>5 DEF Begin, PlaceInv, Fresh
  <2>2. ~BeginFails /\ ~BadLayout
    BY <1>3 DEF BeginFails, BadLayout
  <2>3. BeginWalk
    BY <1>5, <2>2 DEF Begin
  <2>4. CASE HasElements
    <3>1. pc' \in {"elements", "etable"} /\ Sound(info')
      BY <2>3, <2>4 DEF BeginWalk, Sound
    <3> QED
      BY <3>1 DEF SoundInv
  <2>5. CASE ~HasElements
    <3>1. pc' = "shape" /\ Sound(info') /\ TableReadable
      BY <2>1, <2>3, <2>5 DEF BeginWalk, Sound, TableReadable
    <3> QED
      BY <1>30, <3>1 DEF SoundInv
  <2> QED
    BY <2>4, <2>5
<1>6. CASE Elements
  <2>1. ElementsStep
    BY <1>3, <1>6, StepElements
  <2>2. Sound(info) /\ TableReadable
    BY <1>3, <2>1 DEF SoundInv, ElementsStep, WalkTyped, TableReadable
  <2>3. pc' \in {"shape", "elements"} /\ Sound(info')
    BY <2>1, <2>2, SoundTold DEF ElementsStep
  <2> QED
    BY <1>30, <2>2, <2>3 DEF SoundInv
<1>7. CASE ElementTable
  <2> DEFINE Finish == pc' = "shape" /\ UNCHANGED rval
  <2>1. ReadTable(obj.elts, Finish) /\ pc = "etable"
    BY <1>7 DEF ElementTable
  <2>2. Finish => pc' = "shape"
    OBVIOUS
  <2> HIDE DEF Finish
  <2>3. TableStep(obj.elts, Finish)
    BY <1>3, <2>1, StepTable
  <2>4. Sound(info) /\ HasElements /\ obj.kind = "dictionary" /\ (Broken(obj.elts) <=> ver.entry < 2)
    BY <1>3, <1>4, <2>1, OrderlyBroken DEF SoundInv, WalkTyped
  <2>5. CASE Broken(obj.elts) /\ Return(-1)
    <3>1. ~Readable
      BY <1>31, <2>4, <2>5 DEF TableReadable
    <3> QED
      BY <1>30, <2>5, <3>1 DEF SoundInv, Return
  <2>6. CASE ~Broken(obj.elts) /\ Finish /\ Note({})
    <3>1. TableReadable
      BY <1>31, <2>4, <2>6 DEF TableReadable
    <3>2. Sound(info')
      BY <2>1, <2>4, <2>6, SoundTold DEF Note
    <3> QED
      BY <1>30, <2>2, <2>6, <3>1, <3>2 DEF SoundInv
  <2>7. ASSUME NEW word, Note({}) \/ Note(Bad(word)), pc' = pc
        PROVE  SoundInv'
    <3>1. Sound(info')
      BY <2>1, <2>4, <2>7, SoundTold DEF Note
    <3> QED
      BY <2>1, <2>7, <3>1 DEF SoundInv
  <2> QED
    BY <2>3, <2>5, <2>6, <2>7 DEF TableStep
<1>8. CASE Shape
  <2>1. Sound(info) /\ TableReadable
    BY <1>3, <1>8 DEF SoundInv, Shape
  <2>2. CASE ~obj.slow /\ ShapeFails /\ Return(-1)
    <3>1. ~ShapeReadable
      BY <1>3, <2>2 DEF ShapeFails, ShapeReadable
    <3> QED
      BY <1>30, <1>31, <2>2, <3>1 DEF SoundInv, Return
  <2>3. CASE info' = info \cup {"dict"} /\ Tell(info') /\ pc' = "table"
    <3>1. Sound(out')
      BY <1>32, <2>1, <2>3, SoundTold
    <3> QED
      BY <1>30, <2>1, <2>3, <3>1 DEF SoundInv
  <2>4. CASE /\ ~ShapeFails /\ pc' = "descs"
             /\ info' = info \cup (IF ver.transitions THEN {"transitions"} ELSE {})
                             \cup (IF ver.content THEN {"content"} ELSE {})
    <3>1. Sound(info')
      BY <2>1, <2>4 DEF Sound
    <3>2. ShapeReadable
      BY <2>4 DEF ShapeFails, ShapeReadable
    <3> QED
      BY <1>30, <2>1, <2>4, <3>1, <3>2 DEF SoundInv
  <2> QED
    BY <1>3, <1>8, <2>2, <2>3, <2>4 DEF Shape
<1>9. CASE PropertyTable
  <2>1. pc = "table" /\ ReadTable(obj.props, Return(0))
    BY <1>3, <1>9 DEF PropertyTable
  <2>2. TableStep(obj.props, Return(0))
    BY <1>3, <2>1, StepTable
  <2>3. Sound(out) /\ obj.slow /\ TableReadable /\ (Broken(obj.props) <=> ver.entry < 2)
    BY <1>3, <1>4, <2>1, OrderlyBroken DEF SoundInv, WalkTyped
  <2>4. \A flags : Note(flags) => out' = out \cup flags
    BY <1>32, <2>1 DEF Note
  <2>5. CASE Broken(obj.props) /\ Return(-1)
    <3>1. ~Readable
      BY <1>31, <2>3, <2>5
    <3> QED
      BY <1>30, <2>5, <3>1 DEF SoundInv, Return
  <2>6. CASE ~Broken(obj.props) /\ Return(0) /\ Note({})
    <3>1. Readable
      BY <1>31, <2>3, <2>6
    <3>2. Sound(out')
      BY <2>3, <2>4, <2>6, SoundTold
    <3> QED
      BY <1>30, <2>6, <3>1, <3>2 DEF SoundInv, Return
  <2>7. ASSUME NEW word, Note({}) \/ Note(Bad(word)), pc' = pc
        PROVE  SoundInv'
    <3>1. out' = out \cup {} \/ out' = out \cup Bad(word)
      BY <2>4, <2>7
    <3>2. Sound(out \cup {}) /\ Sound(out \cup Bad(word))
      BY <2>3, SoundTold
    <3>3. Sound(out')
      BY <3>1, <3>2
    <3> QED
      BY <1>30, <2>1, <2>3, <2>7, <3>3 DEF SoundInv
  <2> QED
    BY <2>2, <2>5, <2>6, <2>7 DEF TableStep
<1>10. CASE Descriptors
  <2>1. DescriptorsStep
    BY <1>3, <1>10, StepDescriptors
  <2>2. /\ pc = "descs" /\ Sound(info) /\ TableReadable /\ ShapeReadable /\ ~obj.slow
        /\ ii \in Nat /\ ii >= 1
    BY <1>3, <2>1 DEF SoundInv, WalkTyped, DescriptorsStep
  <2>20. Len(obj.descs) \in Nat
    BY <1>4 DEF HeapParts
  <2>3. CASE Return(0) /\ Tell(info)
    <3>1. Readable /\ Sound(out')
      BY <1>31, <1>32, <2>2, <2>3
    <3> QED
      BY <1>30, <2>3, <3>1 DEF SoundInv, Return
  <2>4. CASE /\ ii <= Len(obj.descs) /\ pc' = pc
             /\ \E flags \in SUBSET {"skipped", "undefname"} :
                   PassOver(ii, flags) /\ info' = info \cup flags
    <3>1. PICK flags \in SUBSET {"skipped", "undefname"} : PassOver(ii, flags) /\ info' = info \cup flags
      BY <2>4
    <3>2. ii \in 1..Len(obj.descs)
      BY <2>2, <2>20, <2>4
    <3>3. flags = {}
      BY <1>3, <1>4, <2>2, <3>1, <3>2, OrderlyPass
    <3>4. Sound(info')
      BY <2>2, <3>1, <3>3, SoundTold
    <3> QED
      BY <1>30, <2>2, <2>4, <3>4 DEF SoundInv
  <2>5. CASE ii <= Len(obj.descs) /\ Corrupt(ii)
    <3>1. ii \in 1..Len(obj.descs)
      BY <2>2, <2>20, <2>5
    <3> QED
      BY <1>3, <1>4, <2>2, <2>5, <3>1, OrderlyNotCorrupt
  <2>6. CASE /\ pc' = pc
             /\ info' = info \cup {IF InObject(obj.descs[ii]) THEN "inobject" ELSE "props"}
                          \cup (IF FieldCalled(ii).double THEN {} ELSE Bad(FieldCalled(ii).val))
    <3>1. Sound(info')
      BY <2>2, <2>6 DEF Sound, Bad
    <3> QED
      BY <1>30, <2>2, <2>6, <3>1 DEF SoundInv
  <2> QED
    BY <2>1, <2>3, <2>4, <2>5, <2>6 DEF DescriptorsStep
<1> QED
  BY <1>5, <1>6, <1>7, <1>8, <1>9, <1>10 DEF Walk

LEMMA SoundAlways == Spec => []SoundInv
<1>1. Init => SoundInv
  BY DEF Init, SoundInv
<1>2. SoundInv /\ SpotInv /\ WalkTyped /\ HeapInv /\ PlaceInv /\ [Next]_opvars => SoundInv'
  BY SoundNext
<1> QED
  BY <1>1, <1>2, SpotAlways, WalkTypedAlways, HeapAlways, PlaceAlways, PTL DEF Spec

-----------------------------------------------------------------------------
(* What was reported, wherever the walk is                                 *)

\* the numbered properties below the index the walk is at
AtElements(done, i) == \E n \in 0..Len(elements) :
    /\ InOrder(done, elements, n)
    /\ \A j \in 1..Len(elements) : j <= n <=> elements[j].name[2] < i - 1

\* the properties whose keys are before a word of the table
Part(table, props, i) == {p \in Set(props) : \E k \in Keys : k < i /\ table[k] = p.name}

AtTable(done, base, table, props, i) ==
    Distinct(done) /\ Set(done) = base \cup Part(table, props, i)

NumbersDone(done) ==
    /\ Distinct(done) /\ Set(done) = Set(Numbered)
    /\ obj.kind # "dictionary" => done = Numbered

\* the named properties that have a descriptor before one
AtDescs(done, i) == \E m \in 0..Len(own) :
    /\ Distinct(done)
    /\ Set(done) = Set(Numbered) \cup {own[j] : j \in 1..m}
    /\ obj.kind # "dictionary" => InOrder(done, Numbered \o own, Len(Numbered) + m)
    /\ \A k \in Fields(obj.descs), r \in Nat :
          obj.descs[k].index = Smi(r) /\ r < Len(own) => (k < i <=> r < m)

AllDone(done) ==
    /\ Distinct(done) /\ Set(done) = Set(Numbered \o own)
    /\ ~obj.slow /\ obj.kind # "dictionary" => done = Numbered \o own

ReportInv == InOrderly =>
    /\ pc = "elements" => AtElements(calls, ii) /\ (obj.kind = "other" => calls = <<>>)
    /\ pc = "etable" => AtTable(calls, {}, obj.elts, elements, ii)
    /\ pc = "shape" => NumbersDone(calls)
    /\ pc = "table" => AtTable(calls, Set(Numbered), obj.props, own, ii)
    /\ pc = "descs" => AtDescs(calls, ii)
    /\ pc = "end" /\ rval = 0 => AllDone(calls)

(* An element that is no hole is the next of the numbered properties.      *)
LEMMA NextElement ==
    ASSUME HeapTyped, Common, Full, damage = "none", obj.kind # "dictionary",
           NEW done \in Seq(Prop), NEW i \in 1..Len(obj.elts), AtElements(done, i)
    PROVE  /\ obj.elts[i] = Hole => AtElements(done, i + 1)
           /\ obj.elts[i] # Hole => AtElements(Append(done, ElementCalled(i)), i + 1)
<1> DEFINE N == Len(elements)
           L == Len(obj.elts)
<1>1. N \in Nat /\ L \in Nat /\ i \in Nat /\ elements \in Seq(Prop)
  BY PartsTyped DEF HeapParts
<1>2. \A j \in 1..N : \E r \in Nat : elements[j].name = Smi(r) /\ elements[j].name[2] = r
  BY WordKinds DEF Full, NumbersInv
<1>3. \A j, k \in 1..N : j < k => elements[j].name[2] < elements[k].name[2]
  BY DEF Full, NumbersInv
<1>4. /\ \A j \in 1..N, r \in Nat : elements[j].name = Smi(r) => obj.elts[r + 1] = elements[j].val
      /\ \A k \in 1..L : obj.elts[k] # Hole => \E j \in 1..N : elements[j].name = Smi(k - 1)
  BY DEF Full, NumbersInv
<1>5. PICK n \in 0..N :
         /\ InOrder(done, elements, n)
         /\ \A j \in 1..N : j <= n <=> elements[j].name[2] < i - 1
  BY DEF AtElements
<1> DEFINE num(j) == elements[j].name[2]
<1>6. \A j \in 1..N : num(j) \in Nat
  BY <1>2
<1> HIDE DEF N, L
<1>7. ASSUME obj.elts[i] = Hole
      PROVE  AtElements(done, i + 1)
  <2>1. ASSUME NEW j \in 1..N PROVE num(j) # i - 1
    <3>1. SUFFICES ASSUME num(j) = i - 1 PROVE FALSE
      OBVIOUS
    <3>2. PICK r \in Nat : elements[j].name = Smi(r) /\ num(j) = r
      BY <1>2
    <3>3. r + 1 = i
      BY <1>1, <3>1, <3>2
    <3>4. elements[j].val = Hole
      BY <1>4, <1>7, <3>2, <3>3
    <3>5. Fine(elements[j])
      BY DEF Common, NumbersFine, N
    <3> QED
      BY <3>4, <3>5, WordKinds DEF Fine
  <2>2. \A j \in 1..N : j <= n <=> num(j) < (i + 1) - 1
    <3> SUFFICES ASSUME NEW j \in 1..N PROVE j <= n <=> num(j) < (i + 1) - 1
      OBVIOUS
    <3>1. (j <= n <=> num(j) < i - 1) /\ num(j) \in Nat /\ num(j) # i - 1
      BY <1>5, <1>6, <2>1
    <3> QED
      BY <1>1, <3>1
  <2> QED
    BY <1>5, <2>2 DEF AtElements, N
<1>8. ASSUME obj.elts[i] # Hole
      PROVE  AtElements(Append(done, ElementCalled(i)), i + 1)
  <2>1. PICK j \in 1..N : elements[j].name = Smi(i - 1)
    BY <1>4, <1>8 DEF L
  <2>2. num(j) = i - 1 /\ i - 1 \in Nat
    BY <1>1, <2>1, WordKinds
  <2>3. ~(j <= n)
    BY <1>5, <2>2
  <2>4. j = n + 1
    <3>1. SUFFICES ASSUME n + 1 < j PROVE FALSE
      BY <1>1, <2>3
    <3>2. n + 1 \in 1..N
      BY <1>1, <3>1
    <3>3. num(n + 1) < num(j)
      BY <1>3, <3>1, <3>2
    <3>4. n + 1 <= n
      BY <1>5, <2>2, <3>2, <3>3
    <3> QED
      BY <3>4
  <2>5. ElementCalled(i) = elements[n + 1]
    <3>1. (i - 1) + 1 = i
      BY <1>1
    <3>2. obj.elts[i] = elements[j].val
      BY <1>4, <2>1, <2>2, <3>1
    <3>3. ~elements[j].double
      BY DEF Common, NumbersFine, N
    <3>4. elements[j] \in Prop
      BY <1>1 DEF N
    <3> DEFINE p == ElementCalled(i)
    <3>5. p.name = elements[j].name /\ p.val = elements[j].val /\ p.double = FALSE
      BY <2>1, <3>2 DEF ElementCalled
    <3>6. p \in Prop
      BY <3>2, <3>4, PropIs, <2>2, WordsTyped DEF ElementCalled, Prop
    <3> HIDE DEF p
    <3>7. p = elements[j]
      BY <3>3, <3>4, <3>5, <3>6, PropEqual
    <3> QED
      BY <2>4, <3>7 DEF p
  <2>6. InOrder(Append(done, ElementCalled(i)), elements, n + 1)
    <3>1. n \in Nat /\ n + 1 <= Len(elements)
      BY <1>1, <2>4 DEF N
    <3>2. InOrder(Append(done, elements[n + 1]), elements, n + 1)
      BY <1>1, <1>5, <3>1, InOrderAppend
    <3> QED
      BY <2>5, <3>2
  <2>7. \A k \in 1..N : k <= n + 1 <=> num(k) < (i + 1) - 1
    <3> SUFFICES ASSUME NEW k \in 1..N PROVE k <= n + 1 <=> num(k) < (i + 1) - 1
      OBVIOUS
    <3>1. (k <= n <=> num(k) < i - 1) /\ num(k) \in Nat
      BY <1>5, <1>6
    <3>2. k < j => num(k) < num(j)
      BY <1>3
    <3>3. j < k => num(j) < num(k)
      BY <1>3
    <3>4. k = j => num(k) = num(j)
      OBVIOUS
    <3> HIDE DEF num
    <3> QED
      BY <1>1, <2>2, <2>4, <3>1, <3>2, <3>3, <3>4
  <2>8. n + 1 \in 0..N
    BY <1>1, <2>4
  <2> QED
    BY <2>6, <2>7, <2>8 DEF AtElements, N
<1> QED
  BY <1>7, <1>8

(* Past the last element all the numbered properties are reported.         *)
LEMMA LastElement ==
    ASSUME HeapTyped, Common, Full, ver.elements, obj.kind # "dictionary",
           NEW done \in Seq(Prop), NEW i \in Nat, AtElements(done, i), i > Len(obj.elts),
           obj.kind # "other"
    PROVE  NumbersDone(done)
<1>1. Len(elements) \in Nat /\ Len(obj.elts) \in Nat /\ elements \in Seq(Prop)
  BY PartsTyped DEF HeapParts
<1>2. PICK n \in 0..Len(elements) :
         /\ InOrder(done, elements, n)
         /\ \A j \in 1..Len(elements) : j <= n <=> elements[j].name[2] < i - 1
  BY DEF AtElements
<1>3. ASSUME NEW j \in 1..Len(elements) PROVE j <= n
  <2>1. PICK r \in Nat : elements[j].name = Smi(r) /\ r < Len(obj.elts)
    BY DEF Full, NumbersInv
  <2>2. elements[j].name[2] = r
    BY <2>1, WordKinds
  <2>3. r < i - 1
    BY <1>1, <2>1
  <2> QED
    BY <1>2, <2>2, <2>3
<1>4. n = Len(elements)
  <2>1. Len(elements) # 0 => Len(elements) \in 1..Len(elements)
    BY <1>1
  <2> QED
    BY <1>1, <1>3, <2>1
<1>5. done = elements
  BY <1>1, <1>2, <1>4, InOrderWhole
<1>6. Numbered = elements
  BY DEF Numbered
<1> QED
  BY <1>5, <1>6, PropertiesApart DEF NumbersDone

(* The entry of a dictionary that the walk is at.                          *)
LEMMA NextEntry ==
    ASSUME NEW table \in Seq(Words), Len(table) = TableLen, NEW props \in Seq(Prop),
           Entries(table, props),
           \A i, j \in 1..Len(props) : props[i].name = props[j].name => i = j,
           \A j \in 1..Len(props) : ~props[j].double /\ ~Empty(props[j].name),
           NEW base, \A p \in base, q \in Set(props) : p.name # q.name,
           NEW done \in Seq(Prop), NEW i \in Spots, ~(i + 1 > TableLen),
           AtTable(done, base, table, props, i)
    PROVE  /\ Empty(table[i]) => AtTable(done, base, table, props, i + 3)
           /\ ~Empty(table[i]) =>
                 AtTable(Append(done, TableCalled(table, i)), base, table, props, i + 3)
<1>1. i \in Keys /\ \A k \in Keys : k < i + 3 <=> k < i \/ k = i
  BY NextSpot
<1>10. ~(i < i) /\ i \in Nat /\ i >= 1 /\ ~(i + 1 > Len(table))
  BY <1>1, KeysInTable
<1>2. Distinct(done) /\ Set(done) = base \cup Part(table, props, i)
  BY DEF AtTable
<1>3. CASE Empty(table[i])
  <2>1. \A p \in Set(props) : table[i] # p.name
    BY <1>3 DEF Set
  <2>2. Part(table, props, i + 3) = Part(table, props, i)
    BY <1>1, <2>1 DEF Part
  <2> QED
    BY <1>2, <1>3, <2>2 DEF AtTable
<1>4. CASE ~Empty(table[i])
  <2> DEFINE p == TableCalled(table, i)
  <2>1. PICK j \in 1..Len(props) : table[i] = props[j].name
    BY <1>1, <1>4 DEF Entries
  <2>2. PICK k \in Keys : ~Empty(table[k]) /\ table[k] = props[j].name /\ table[k + 1] = props[j].val
    BY DEF Entries
  <2>3. k = i
    BY <1>1, <1>4, <2>1, <2>2 DEF Entries
  <2>4. p \in Prop /\ props[j] \in Prop
    BY <1>10, TableCalledTyped
  <2>5. p.name = props[j].name /\ p.val = props[j].val /\ p.double = FALSE /\ ~props[j].double
    BY <2>1, <2>2, <2>3 DEF TableCalled
  <2> HIDE DEF p
  <2>6. p = props[j]
    BY <2>4, <2>5, PropEqual
  <2>60. props[j] \in Set(props)
    BY DEF Set
  <2>7. ASSUME NEW q \in Set(props), q.name = props[j].name
        PROVE  q = props[j]
    <3>1. PICK l \in 1..Len(props) : q = props[l]
      BY DEF Set
    <3>2. l = j
      BY <2>7, <3>1
    <3> QED
      BY <3>1, <3>2
  <2>8. Part(table, props, i + 3) = Part(table, props, i) \cup {props[j]}
    <3>1. ASSUME NEW q \in Set(props), NEW l \in Keys, l < i + 3, table[l] = q.name
          PROVE  q \in Part(table, props, i) \cup {props[j]}
      <4>1. CASE l < i
        BY <3>1, <4>1 DEF Part
      <4>2. CASE l = i
        BY <2>1, <2>7, <3>1, <4>2
      <4> QED
        BY <1>1, <3>1, <4>1, <4>2
    <3>2. Part(table, props, i) \subseteq Part(table, props, i + 3)
      BY <1>1 DEF Part
    <3>3. props[j] \in Part(table, props, i + 3)
      BY <1>1, <2>1, <2>60 DEF Part
    <3> QED
      BY <3>1, <3>2, <3>3 DEF Part
  <2>9. p \notin Set(done)
    <3>1. p \notin base
      BY <2>6, <2>60
    <3>2. p \notin Part(table, props, i)
      <4> SUFFICES ASSUME NEW l \in Keys, l < i, table[l] = props[j].name PROVE FALSE
        BY <2>6 DEF Part
      <4>1. l = i
        BY <1>1, <1>4, <2>1 DEF Entries
      <4> QED
        BY <1>10, <4>1
    <3> QED
      BY <1>2, <3>1, <3>2
  <2>10. Distinct(Append(done, p))
    BY <1>2, <2>4, <2>9, DistinctAppend
  <2>11. Set(Append(done, p)) = Set(done) \cup {p}
    BY <2>4, SetOfAppend
  <2>12. Set(Append(done, p)) = base \cup Part(table, props, i + 3)
    BY <1>2, <2>6, <2>8, <2>11
  <2> QED
    BY <1>4, <2>10, <2>12 DEF AtTable, p
<1> QED
  BY <1>3, <1>4

LEMMA FirstEntry ==
    ASSUME NEW table, NEW props
    PROVE  Part(table, props, 2) = {}
BY FirstSpot DEF Part

LEMMA LastEntry ==
    ASSUME NEW table, NEW props \in Seq(Prop), Entries(table, props), NEW i \in Spots, i + 1 > TableLen
    PROVE  Part(table, props, i) = Set(props)
<1>1. \A k \in Keys : k < i
  BY LastSpot
<1>2. ASSUME NEW p \in Set(props)
      PROVE  p \in Part(table, props, i)
  <2>1. PICK j \in 1..Len(props) : p = props[j]
    BY DEF Set
  <2>2. PICK k \in Keys : table[k] = props[j].name
    BY DEF Entries
  <2> QED
    BY <1>1, <2>1, <2>2 DEF Part
<1> QED
  BY <1>2 DEF Part

(* A descriptor that is passed over is no property's, one that is not is   *)
(* the next property's.                                                    *)
LEMMA PassedDesc ==
    ASSUME HeapTyped, Common, Full, ~obj.slow, NEW done, NEW i \in 1..Len(obj.descs),
           AtDescs(done, i),
           i \in Fields(obj.descs) => \E r \in Nat : obj.descs[i].index = Smi(r) /\ ~(r < Len(own))
    PROVE  AtDescs(done, i + 1)
<1>1. PICK m \in 0..Len(own) :
         /\ Distinct(done)
         /\ Set(done) = Set(Numbered) \cup {own[j] : j \in 1..m}
         /\ obj.kind # "dictionary" => InOrder(done, Numbered \o own, Len(Numbered) + m)
         /\ \A k \in Fields(obj.descs), r \in Nat :
               obj.descs[k].index = Smi(r) /\ r < Len(own) => (k < i <=> r < m)
  BY DEF AtDescs
<1>2. Fields(obj.descs) \subseteq 1..Len(obj.descs) /\ Len(obj.descs) \in Nat
  BY OwnDescriptors
<1>3. ASSUME NEW k \in Fields(obj.descs), NEW r \in Nat, obj.descs[k].index = Smi(r), r < Len(own)
      PROVE  k < i + 1 <=> r < m
  <2>1. k < i <=> r < m
    BY <1>1, <1>3
  <2>2. k # i
    <3>1. SUFFICES ASSUME k = i PROVE FALSE
      OBVIOUS
    <3>2. PICK q \in Nat : obj.descs[i].index = Smi(q) /\ ~(q < Len(own))
      BY <1>3, <3>1
    <3>3. q = r
      BY <1>3, <3>1, <3>2, NamesDiffer
    <3> QED
      BY <1>3, <3>2, <3>3
  <2> QED
    BY <1>2, <2>1, <2>2
<1> QED
  BY <1>1, <1>3 DEF AtDescs

LEMMA CalledDesc ==
    ASSUME HeapTyped, Common, Full, ~obj.slow, NEW done \in Seq(Prop), NEW i \in 1..Len(obj.descs),
           AtDescs(done, i), i \in Fields(obj.descs),
           NEW r \in 0..(Len(own) - 1), obj.descs[i].index = Smi(r)
    PROVE  AtDescs(Append(done, own[r + 1]), i + 1)
<1>1. PICK m \in 0..Len(own) :
         /\ Distinct(done)
         /\ Set(done) = Set(Numbered) \cup {own[j] : j \in 1..m}
         /\ obj.kind # "dictionary" => InOrder(done, Numbered \o own, Len(Numbered) + m)
         /\ \A k \in Fields(obj.descs), q \in Nat :
               obj.descs[k].index = Smi(q) /\ q < Len(own) => (k < i <=> q < m)
  BY DEF AtDescs
<1>2. /\ Fields(obj.descs) \subseteq 1..Len(obj.descs) /\ Len(obj.descs) \in Nat
      /\ Len(own) \in Nat /\ NFields \in Nat /\ Len(own) <= NFields
      /\ \A k, l \in Fields(obj.descs) : k < l => obj.descs[k].index[2] < obj.descs[l].index[2]
      /\ \A q \in 0..(NFields - 1) : \E k \in Fields(obj.descs) : obj.descs[k].index = Smi(q)
  BY OwnDescriptors
<1>3. \A d, q : d.index = Smi(q) => d.index[2] = q
  BY WordKinds
<1>4. r \in Nat /\ r < Len(own) /\ i \in Nat /\ m \in Nat
  BY <1>2
<1>5. ~(r < m)
  BY <1>1, <1>4
<1>6. r = m
  <2>1. SUFFICES ASSUME m < r PROVE FALSE
    BY <1>4, <1>5
  <2>2. m \in 0..(NFields - 1) /\ m < Len(own)
    BY <1>2, <1>4, <2>1
  <2>3. PICK k \in Fields(obj.descs) : obj.descs[k].index = Smi(m)
    BY <1>2, <2>2
  <2>4. ~(k < i)
    BY <1>1, <1>4, <2>2, <2>3
  <2>5. ~(i < k)
    <3>1. i < k => obj.descs[i].index[2] < obj.descs[k].index[2]
      BY <1>2, <2>3
    <3>2. obj.descs[i].index[2] = r /\ obj.descs[k].index[2] = m
      BY <1>3, <2>3
    <3> QED
      BY <1>4, <2>1, <3>1, <3>2
  <2>6. k = i
    BY <1>2, <2>4, <2>5
  <2>7. r = m
    BY <2>3, <2>6, NamesDiffer
  <2> QED
    BY <1>4, <2>1, <2>7
<1> DEFINE p == own[m + 1]
           W == Numbered \o own
<1>7. m + 1 \in 1..Len(own) /\ m + 1 \in 0..Len(own)
  BY <1>4, <1>6
<1>8. /\ own \in Seq(Prop) /\ Numbered \in Seq(Prop) /\ Len(Numbered) \in Nat
      /\ Distinct(own) /\ (\A a \in Set(elements), b \in Set(own) : a.name # b.name)
      /\ Set(Numbered) \subseteq Set(elements)
  BY PropertiesApart
<1>9. p \in Prop /\ p \in Set(own)
  BY <1>7, <1>8 DEF Set
<1>10. p \notin Set(done)
  <2>1. p \notin Set(Numbered)
    BY <1>8, <1>9
  <2>2. \A j \in 1..m : own[j] # p
    <3> SUFFICES ASSUME NEW j \in 1..m, own[j] = own[m + 1] PROVE FALSE
      OBVIOUS
    <3>1. j \in 1..Len(own) /\ j # m + 1
      BY <1>4, <1>7
    <3> QED
      BY <1>7, <1>8, <3>1 DEF Distinct
  <2> QED
    BY <1>1, <2>1, <2>2
<1>11. W \in Seq(Prop) /\ Len(W) = Len(Numbered) + Len(own) /\ W[Len(Numbered) + (m + 1)] = p
  <2>1. own \in Seq(Prop) /\ Numbered \in Seq(Prop) /\ m + 1 \in 1..Len(own) /\ p = own[m + 1]
    BY <1>7, <1>8
  <2> HIDE DEF p
  <2> QED
    BY <2>1, ConcatSet
<1> HIDE DEF p, W
<1> DEFINE new == Append(done, p)
<1>12. Distinct(new)
  BY <1>1, <1>9, <1>10, DistinctAppend
<1>13. Set(new) = Set(Numbered) \cup {own[j] : j \in 1..(m + 1)}
  <2>1. Set(new) = Set(done) \cup {p}
    BY <1>9, SetOfAppend
  <2>2. \A j : j \in 1..(m + 1) <=> j \in 1..m \/ j = m + 1
    BY <1>4
  <2>3. {own[j] : j \in 1..(m + 1)} = {own[j] : j \in 1..m} \cup {p}
    BY <2>2 DEF p
  <2> QED
    BY <1>1, <2>1, <2>3
<1>14. obj.kind # "dictionary" => InOrder(new, W, Len(Numbered) + (m + 1))
  <2> SUFFICES ASSUME obj.kind # "dictionary" PROVE InOrder(new, W, Len(Numbered) + (m + 1))
    OBVIOUS
  <2> DEFINE n == Len(Numbered) + m
  <2>1. n \in Nat /\ n + 1 = Len(Numbered) + (m + 1) /\ n + 1 <= Len(W)
    BY <1>4, <1>7, <1>8, <1>11
  <2>2. InOrder(done, W, n)
    BY <1>1 DEF W
  <2> HIDE DEF n, new
  <2>3. InOrder(Append(done, W[n + 1]), W, n + 1)
    BY <1>11, <2>1, <2>2, InOrderAppend
  <2>4. W[n + 1] = p
    BY <1>11, <2>1
  <2> QED
    BY <2>1, <2>3, <2>4 DEF new
<1> HIDE DEF new
<1>15. ASSUME NEW k \in Fields(obj.descs), NEW q \in Nat, obj.descs[k].index = Smi(q), q < Len(own)
       PROVE  k < i + 1 <=> q < m + 1
  <2>1. k < i <=> q < m
    BY <1>1, <1>15
  <2>2. k = i => q = m
    BY <1>6, <1>15, NamesDiffer
  <2>3. q = m => k = i
    <3>1. i < k => obj.descs[i].index[2] < obj.descs[k].index[2]
      BY <1>2
    <3>2. k < i => obj.descs[k].index[2] < obj.descs[i].index[2]
      BY <1>2
    <3>3. obj.descs[i].index[2] = m /\ obj.descs[k].index[2] = q
      BY <1>3, <1>6, <1>15
    <3> QED
      BY <1>2, <1>4, <3>1, <3>2, <3>3
  <2> QED
    BY <1>2, <1>4, <2>1, <2>2, <2>3
<1> QED
  BY <1>6, <1>7, <1>12, <1>13, <1>14, <1>15 DEF AtDescs, new, p, W

(* Before the first descriptor, and past the last.                         *)
LEMMA FirstDesc ==
    ASSUME HeapTyped, Common, Full, ~obj.slow, NEW done \in Seq(Prop), NumbersDone(done)
    PROVE  AtDescs(done, 1)
<1>1. Fields(obj.descs) \subseteq 1..Len(obj.descs) /\ Len(own) \in Nat
  BY OwnDescriptors
<1>2. Numbered \in Seq(Prop) /\ own \in Seq(Prop) /\ Len(Numbered) \in Nat
  BY PropertiesApart
<1>3. obj.kind # "dictionary" => InOrder(done, Numbered \o own, Len(Numbered) + 0)
  <2>1. /\ Len(Numbered \o own) = Len(Numbered) + Len(own)
        /\ \A i \in 1..Len(Numbered) : (Numbered \o own)[i] = Numbered[i]
    BY <1>2, ConcatSet
  <2>2. Len(Numbered) + 0 = Len(Numbered) /\ Len(Numbered) <= Len(Numbered) + Len(own)
    BY <1>1, <1>2
  <2> QED
    BY <2>1, <2>2 DEF InOrder, NumbersDone
<1>4. {own[j] : j \in 1..0} = {}
  OBVIOUS
<1>5. \A k \in Fields(obj.descs), r \in Nat : ~(k < 1) /\ ~(r < 0)
  BY <1>1
<1>6. 0 \in 0..Len(own)
  BY <1>1
<1> QED
  BY <1>3, <1>4, <1>5, <1>6 DEF AtDescs, NumbersDone

LEMMA LastDesc ==
    ASSUME HeapTyped, Common, Full, ~obj.slow, NEW done \in Seq(Prop), NEW i \in Nat,
           i > Len(obj.descs), AtDescs(done, i)
    PROVE  AllDone(done)
<1>1. PICK m \in 0..Len(own) :
         /\ Distinct(done)
         /\ Set(done) = Set(Numbered) \cup {own[j] : j \in 1..m}
         /\ obj.kind # "dictionary" => InOrder(done, Numbered \o own, Len(Numbered) + m)
         /\ \A k \in Fields(obj.descs), q \in Nat :
               obj.descs[k].index = Smi(q) /\ q < Len(own) => (k < i <=> q < m)
  BY DEF AtDescs
<1>2. /\ Fields(obj.descs) \subseteq 1..Len(obj.descs) /\ Len(obj.descs) \in Nat
      /\ Len(own) \in Nat /\ NFields \in Nat /\ Len(own) <= NFields
      /\ \A q \in 0..(NFields - 1) : \E k \in Fields(obj.descs) : obj.descs[k].index = Smi(q)
  BY OwnDescriptors
<1>3. m = Len(own)
  <2>1. SUFFICES ASSUME m < Len(own) PROVE FALSE
    BY <1>2
  <2>2. m \in 0..(NFields - 1) /\ m \in Nat
    BY <1>2, <2>1
  <2>3. PICK k \in Fields(obj.descs) : obj.descs[k].index = Smi(m)
    BY <1>2, <2>2
  <2>4. k < i
    BY <1>2
  <2> QED
    BY <1>1, <2>1, <2>2, <2>3, <2>4
<1>4. Numbered \in Seq(Prop) /\ own \in Seq(Prop)
  BY PropertiesApart
<1>5. /\ Numbered \o own \in Seq(Prop) /\ Len(Numbered \o own) = Len(Numbered) + Len(own)
      /\ Set(Numbered \o own) = Set(Numbered) \cup Set(own)
  BY <1>4, ConcatSet
<1>6. Set(done) = Set(Numbered \o own)
  BY <1>1, <1>3, <1>5 DEF Set
<1>7. obj.kind # "dictionary" => done = Numbered \o own
  BY <1>1, <1>3, <1>5, InOrderWhole
<1> QED
  BY <1>1, <1>6, <1>7 DEF AllDone

LEMMA ReportTableStep ==
    ASSUME HeapTyped, InOrderly, WalkTyped, SpotInv, pc \in {"etable", "table"},
           NEW STATE table, NEW STATE props, NEW STATE base, NEW ACTION Finish,
           TableStep(table, Finish),
           table \in Seq(Words), Len(table) = TableLen, props \in Seq(Prop),
           Entries(table, props),
           \A i, j \in 1..Len(props) : props[i].name = props[j].name => i = j,
           \A j \in 1..Len(props) : ~props[j].double /\ ~Empty(props[j].name),
           \A p \in base, q \in Set(props) : p.name # q.name,
           AtTable(calls, base, table, props, ii)
    PROVE  \/ Return(-1)
           \/ Finish /\ Distinct(calls) /\ Set(calls) = base \cup Set(props) /\ calls' = calls
           \/ pc' = pc /\ AtTable(calls', base, table, props, ii')
<1>1. calls \in Seq(Prop) /\ ii \in Spots
  BY DEF WalkTyped, SpotInv, Calling, InOrderly, Finder
<1>2. CASE TableEnd(table) /\ Finish /\ NoCall
  <2>1. Part(table, props, ii) = Set(props)
    BY <1>1, <1>2, LastEntry DEF TableEnd
  <2> QED
    BY <1>2, <2>1 DEF AtTable, NoCall
<1>3. CASE ~Broken(table) /\ ~TableEnd(table) /\ ii' = ii + ver.entry /\ UNCHANGED <<pc, rval>>
  <2>1. ii' = ii + 3
    BY <1>3, EntryIsThree
  <2> DEFINE i == ii
             done == calls
             new == Append(calls, TableCalled(table, ii))
  <2>2. i \in Spots /\ done \in Seq(Prop) /\ ~(i + 1 > TableLen) /\ AtTable(done, base, table, props, i)
    BY <1>1, <1>3 DEF TableEnd
  <2>3. /\ Empty(table[i]) => AtTable(done, base, table, props, i + 3)
        /\ ~Empty(table[i]) =>
              AtTable(Append(done, TableCalled(table, i)), base, table, props, i + 3)
    <3> HIDE DEF i, done
    <3> QED
      BY <2>2, NextEntry
  <2>4. Empty(table[ii]) /\ NoCall => AtTable(calls', base, table, props, ii')
    BY <2>1, <2>3 DEF NoCall
  <2>5. ~Empty(table[ii]) /\ Call(TableCalled(table, ii), 0) => AtTable(calls', base, table, props, ii')
    BY <2>1, <2>3 DEF Call
  <2> QED
    BY <1>3, <2>4, <2>5 DEF TableStep
<1> QED
  BY <1>2, <1>3 DEF TableStep

LEMMA ReportNext ==
    ASSUME PlaceInv, HeapInv, GoneInv, WalkTyped, SpotInv, ReportInv, [Next]_opvars
    PROVE  ReportInv'
<1>1. CASE V8Step \/ DamageStep
  <2>1. pc = "build" /\ pc' = pc
    BY <1>1 DEF V8Step, Change, AddField, AddOther, DeleteField, GoSlow, AddSlow, DeleteSlow,
       AddElement, DeleteElement, SlowElements, DamageStep, Damaged, LosePart, NotAnArray, RotValue,
       RotKey, RotIndex, RotTable, CutContent, walkvars
  <2> QED
    BY <2>1 DEF ReportInv
<1>2. CASE UNCHANGED opvars
  <2>1. UNCHANGED heapvars /\ UNCHANGED <<pc, ii, rval, calls>>
    BY <1>2 DEF opvars, walkvars
  <2> QED
    BY <2>1, HeapReads DEF ReportInv, AtElements, AtTable, NumbersDone, AtDescs, AllDone
<1>20. CASE Start \/ SecondPass
  BY <1>20 DEF ReportInv, Start, SecondPass
<1> SUFFICES ASSUME Walk, ~SecondPass, InOrderly'
             PROVE  ReportInv'
  BY <1>1, <1>2, <1>20 DEF Next, ReportInv
<1>3. UNCHANGED heapvars /\ InOrderly /\ Finder /\ Calling /\ client # "walker" /\ client # "member"
      /\ damage = "none"
  BY WalkLeavesMemory, HeapReads DEF InOrderly, Finder, Calling, heapvars
<1>4. HeapTyped /\ Common /\ Full /\ HeapParts /\ calls \in Seq(Prop)
  BY <1>3, PartsTyped DEF HeapInv, WalkTyped
<1>30. obj' = obj /\ elements' = elements /\ own' = own /\ Numbered' = Numbered
  BY <1>3, HeapReads
<1>40. /\ elements \in Seq(Prop) /\ own \in Seq(Prop) /\ Numbered \in Seq(Prop)
       /\ Distinct(elements)
       /\ \A p \in Set(elements), q \in Set(own) : p.name # q.name
       /\ Set(Numbered) \subseteq Set(elements)
  BY <1>4, PropertiesApart
<1>5. CASE Begin
  <2>1. calls = <<>>
    BY <1>5 DEF Begin, PlaceInv, Fresh
  <2>2. ~BeginFails /\ ~BadLayout
    BY <1>3 DEF BeginFails, BadLayout
  <2>3. BeginWalk
    BY <1>5, <2>2 DEF Begin
  <2>4. calls' = <<>> /\ Distinct(<<>>) /\ Set(<<>>) = {} /\ Len(<<>>) = 0
    BY <2>1, <2>3, SetOfNone DEF BeginWalk, NoCall, Distinct
  <2>5. CASE pc' = "elements" /\ ii' = 1
    <3>1. \A j \in 1..Len(elements) : ~(j <= 0) /\ ~(elements[j].name[2] < 1 - 1)
      <4> SUFFICES ASSUME NEW j \in 1..Len(elements)
                   PROVE  ~(j <= 0) /\ ~(elements[j].name[2] < 1 - 1)
        OBVIOUS
      <4>1. PICK r \in Nat : elements[j].name = Smi(r)
        BY <1>4 DEF Full, NumbersInv
      <4>2. elements[j].name[2] = r
        BY <4>1, WordKinds
      <4> QED
        BY <1>4, <4>2 DEF HeapParts
    <3>2. InOrder(<<>>, elements, 0) /\ 0 \in 0..Len(elements)
      BY <1>4, <2>4 DEF InOrder, HeapParts
    <3>3. AtElements(<<>>, 1)
      BY <3>1, <3>2 DEF AtElements
    <3> QED
      BY <1>30, <2>4, <2>5, <3>3 DEF ReportInv, AtElements
  <2>6. CASE pc' = "etable" /\ ii' = 2
    BY <1>30, <2>4, <2>6, FirstEntry DEF ReportInv, AtTable
  <2>7. CASE ~HasElements /\ pc' = "shape"
    <3>1. NumbersDone(<<>>)
      BY <1>3, <1>4, <2>4, <2>7, NoElements DEF NumbersDone
    <3> QED
      BY <1>30, <2>4, <2>7, <3>1 DEF ReportInv, NumbersDone
  <2> QED
    BY <2>3, <2>5, <2>6, <2>7 DEF BeginWalk
<1>6. CASE Elements
  <2>1. ElementsStep
    BY <1>3, <1>6, StepElements
  <2>2. /\ AtElements(calls, ii) /\ (obj.kind = "other" => calls = <<>>) /\ ii \in Nat /\ ii >= 1 /\ HasElements /\ obj.kind # "dictionary"
        /\ pc = "elements"
    BY <1>3, <2>1 DEF ReportInv, ElementsStep, WalkTyped
  <2>3. CASE /\ ii > Len(obj.elts) \/ obj.kind = "other"
             /\ pc' = "shape" /\ calls' = calls
    <3>1. NumbersDone(calls)
      <4>1. CASE obj.kind # "other"
        BY <1>4, <2>2, <2>3, <4>1, LastElement DEF HasElements
      <4>2. CASE obj.kind = "other"
        <5>1. Numbered = <<>>
          BY <4>2 DEF Numbered
        <5>2. calls = <<>>
          BY <2>2, <4>2
        <5>3. Distinct(<<>>)
          BY DEF Distinct
        <5> QED
          BY <5>1, <5>2, <5>3 DEF NumbersDone
      <4> QED
        BY <4>1, <4>2
    <3> QED
      BY <1>30, <2>3, <3>1 DEF ReportInv, NumbersDone
  <2>4. CASE /\ ii <= Len(obj.elts) /\ obj.kind = "holey" /\ obj.elts[ii] = Hole
             /\ ii' = ii + 1 /\ calls' = calls /\ pc' = pc
    <3>1. ii \in 1..Len(obj.elts)
      BY <1>4, <2>2, <2>4 DEF HeapParts
    <3>2. AtElements(calls, ii + 1)
      BY <1>3, <1>4, <2>2, <2>4, <3>1, NextElement
    <3> QED
      BY <1>30, <2>2, <2>4, <3>2 DEF ReportInv, AtElements
  <2>5. CASE /\ ii <= Len(obj.elts) /\ obj.kind # "other"
             /\ ~(obj.kind = "holey" /\ obj.elts[ii] = Hole)
             /\ Call(ElementCalled(ii), 0) /\ ii' = ii + 1 /\ pc' = pc
    <3>1. ii \in 1..Len(obj.elts)
      BY <1>4, <2>2, <2>5 DEF HeapParts
    <3>2. obj.elts[ii] # Hole
      BY <1>4, <2>2, <2>5, <3>1 DEF Full, NumbersInv, HeapParts, Kinds
    <3>3. AtElements(Append(calls, ElementCalled(ii)), ii + 1)
      BY <1>3, <1>4, <2>2, <3>1, <3>2, NextElement
    <3>4. calls' = Append(calls, ElementCalled(ii))
      BY <2>5 DEF Call
    <3> QED
      BY <1>30, <2>2, <2>5, <3>3, <3>4 DEF ReportInv, AtElements
  <2> QED
    BY <2>1, <2>3, <2>4, <2>5 DEF ElementsStep, NoCall
<1>7. CASE ElementTable
  <2> DEFINE Finish == pc' = "shape" /\ UNCHANGED rval
  <2>1. ReadTable(obj.elts, Finish) /\ pc = "etable"
    BY <1>7 DEF ElementTable
  <2>2. Finish => pc' = "shape"
    OBVIOUS
  <2> HIDE DEF Finish
  <2>3. TableStep(obj.elts, Finish)
    BY <1>3, <2>1, StepTable
  <2>4. /\ HasElements /\ obj.kind = "dictionary" /\ Len(obj.elts) = TableLen
        /\ obj.elts \in Seq(Words) /\ Entries(obj.elts, elements)
        /\ AtTable(calls, {}, obj.elts, elements, ii)
    BY <1>3, <1>4, <2>1 DEF WalkTyped, HeapTyped, HeapParts, Full, NumbersInv, ReportInv
  <2>5. \A i, j \in 1..Len(elements) : elements[i].name = elements[j].name => i = j
    BY <1>4, NumbersDiffer DEF Full
  <2>6. \A j \in 1..Len(elements) : ~elements[j].double /\ ~Empty(elements[j].name)
    BY <1>4, WordsDiffer DEF Full, NumbersInv, Common, NumbersFine
  <2>7. \/ Return(-1)
        \/ Finish /\ Distinct(calls) /\ Set(calls) = {} \cup Set(elements) /\ calls' = calls
        \/ pc' = pc /\ AtTable(calls', {}, obj.elts, elements, ii')
    BY <1>3, <1>4, <1>40, <2>1, <2>3, <2>4, <2>5, <2>6, ReportTableStep
  <2>8. CASE Return(-1)
    BY <2>8 DEF Return, ReportInv
  <2>9. CASE Finish /\ Distinct(calls) /\ Set(calls) = {} \cup Set(elements) /\ calls' = calls
    <3>1. Numbered = elements
      BY <2>4 DEF Numbered, HasElements
    <3>2. NumbersDone(calls)
      BY <2>4, <2>9, <3>1 DEF NumbersDone
    <3> QED
      BY <1>30, <2>2, <2>9, <3>2 DEF ReportInv, NumbersDone
  <2>10. CASE pc' = pc /\ AtTable(calls', {}, obj.elts, elements, ii')
    BY <1>30, <2>1, <2>10 DEF ReportInv, AtTable
  <2> QED
    BY <2>7, <2>8, <2>9, <2>10
<1>8. CASE Shape
  <2>1. NumbersDone(calls) /\ calls' = calls
    BY <1>3, <1>8 DEF ReportInv, Shape, NoCall
  <2>2. CASE Return(-1)
    BY <2>2 DEF ReportInv, Return
  <2>3. CASE obj.slow /\ pc' = "table" /\ ii' = 2
    <3>1. AtTable(calls, Set(Numbered), obj.props, own, 2)
      BY <2>1, FirstEntry DEF AtTable, NumbersDone
    <3> QED
      BY <1>30, <2>1, <2>3, <3>1 DEF ReportInv, AtTable
  <2>4. CASE ~obj.slow /\ pc' = "descs" /\ ii' = 1
    <3>1. AtDescs(calls, 1)
      BY <1>4, <2>1, <2>4, FirstDesc
    <3> QED
      BY <1>30, <2>1, <2>4, <3>1 DEF ReportInv, AtDescs
  <2> QED
    BY <1>8, <2>2, <2>3, <2>4 DEF Shape
<1>9. CASE PropertyTable
  <2>1. pc = "table" /\ ReadTable(obj.props, Return(0))
    BY <1>3, <1>9 DEF PropertyTable
  <2>2. TableStep(obj.props, Return(0))
    BY <1>3, <2>1, StepTable
  <2>3. /\ obj.slow /\ Len(obj.props) = TableLen
        /\ obj.props \in Seq(Words) /\ Entries(obj.props, own)
        /\ AtTable(calls, Set(Numbered), obj.props, own, ii)
    BY <1>3, <1>4, <2>1 DEF WalkTyped, HeapTyped, HeapParts, Full, TableInv, ReportInv
  <2>4. \A i, j \in 1..Len(own) : own[i].name = own[j].name => i = j
    BY <1>4 DEF Common, NamesInv
  <2>5. \A j \in 1..Len(own) : ~own[j].double /\ ~Empty(own[j].name)
    BY <1>4, <2>3, WordsDiffer DEF Full, TableInv, Common, NamesInv
  <2>6. \A p \in Set(Numbered), q \in Set(own) : p.name # q.name
    BY <1>40
  <2>7. \/ Return(-1)
        \/ Return(0) /\ Distinct(calls) /\ Set(calls) = Set(Numbered) \cup Set(own) /\ calls' = calls
        \/ pc' = pc /\ AtTable(calls', Set(Numbered), obj.props, own, ii')
    BY <1>3, <1>4, <1>40, <2>1, <2>2, <2>3, <2>4, <2>5, <2>6, ReportTableStep
  <2>8. CASE Return(-1)
    BY <2>8 DEF Return, ReportInv
  <2>9. CASE Return(0) /\ Distinct(calls) /\ Set(calls) = Set(Numbered) \cup Set(own) /\ calls' = calls
    <3>1. AllDone(calls)
      BY <1>40, <2>3, <2>9, ConcatSet DEF AllDone
    <3> QED
      BY <1>30, <2>9, <3>1 DEF ReportInv, AllDone, Return
  <2>10. CASE pc' = pc /\ AtTable(calls', Set(Numbered), obj.props, own, ii')
    BY <1>30, <2>1, <2>10 DEF ReportInv, AtTable
  <2> QED
    BY <2>7, <2>8, <2>9, <2>10
<1>10. CASE Descriptors
  <2>1. DescriptorsStep
    BY <1>3, <1>10, StepDescriptors
  <2>10. AtDescs(calls, ii)' <=> AtDescs(calls', ii')
    BY <1>30 DEF AtDescs
  <2>2. /\ pc = "descs" /\ AtDescs(calls, ii) /\ ~obj.slow /\ ii \in Nat /\ ii >= 1
        /\ Len(obj.descs) \in Nat
    BY <1>3, <1>4, <2>1 DEF ReportInv, WalkTyped, DescriptorsStep, HeapParts
  <2>3. CASE Return(-1)
    BY <2>3 DEF ReportInv, Return
  <2>4. CASE ii > Len(obj.descs) /\ Return(0) /\ NoCall
    <3>1. AllDone(calls)
      BY <1>4, <2>2, <2>4, LastDesc
    <3> QED
      BY <1>30, <2>4, <3>1 DEF ReportInv, AllDone, Return, NoCall
  <2>5. CASE /\ ii <= Len(obj.descs) /\ pc' = pc /\ ii' = ii + 1 /\ NoCall
             /\ \E flags \in SUBSET {"skipped", "undefname"} : PassOver(ii, flags)
    <3>1. PICK flags \in SUBSET {"skipped", "undefname"} : PassOver(ii, flags)
      BY <2>5
    <3>2. ii \in 1..Len(obj.descs)
      BY <2>2, <2>5
    <3>3. ii \in Fields(obj.descs) =>
             \E r \in Nat : obj.descs[ii].index = Smi(r) /\ ~(r < Len(own))
      BY <1>3, <1>4, <2>2, <3>1, <3>2, OrderlyPass
    <3>4. AtDescs(calls, ii + 1)
      BY <1>4, <2>2, <3>2, <3>3, PassedDesc
    <3> QED
      BY <2>2, <2>5, <2>10, <3>4 DEF ReportInv, NoCall
  <2>6. CASE /\ ii <= Len(obj.descs) /\ ~Passes(ii) /\ Call(FieldCalled(ii), 0)
             /\ pc' = pc /\ ii' = ii + 1
    <3>1. ii \in 1..Len(obj.descs)
      BY <2>2, <2>6
    <3>2. /\ ii \in Fields(obj.descs)
          /\ \E r \in 0..(Len(own) - 1) :
                obj.descs[ii].index = Smi(r) /\ FieldCalled(ii) = own[r + 1]
      BY <1>3, <1>4, <2>2, <2>6, <3>1, OrderlyCalled
    <3>3. PICK r \in 0..(Len(own) - 1) : obj.descs[ii].index = Smi(r) /\ FieldCalled(ii) = own[r + 1]
      BY <3>2
    <3>4. AtDescs(Append(calls, own[r + 1]), ii + 1)
      BY <1>4, <2>2, <3>1, <3>2, <3>3, CalledDesc
    <3>5. calls' = Append(calls, own[r + 1])
      BY <2>6, <3>3 DEF Call
    <3> QED
      BY <2>2, <2>6, <2>10, <3>4, <3>5 DEF ReportInv
  <2> QED
    BY <2>1, <2>3, <2>4, <2>5, <2>6 DEF DescriptorsStep
<1> QED
  BY <1>5, <1>6, <1>7, <1>8, <1>9, <1>10 DEF Walk

LEMMA ReportAlways == Spec => []ReportInv
<1>1. Init => ReportInv
  BY DEF Init, ReportInv
<1>2. /\ ReportInv /\ GoneInv /\ SpotInv /\ WalkTyped /\ HeapInv /\ PlaceInv /\ [Next]_opvars
      => ReportInv'
  BY ReportNext
<1> QED
  BY <1>1, <1>2, GoneAlways, SpotAlways, WalkTypedAlways, HeapAlways, PlaceAlways, PTL DEF Spec

LEMMA ReportedExactly ==
    ASSUME PlaceInv, HeapInv, WalkTyped, GarbageIsFlagged, SoundInv, ReportInv
    PROVE  ReportsExactly
<1> SUFFICES ASSUME Walked, damage = "none"
             PROVE  /\ rval = 0 <=> Readable
                    /\ rval = 0 =>
                          /\ Set(calls) = Set(Numbered \o own)
                          /\ Len(calls) = Len(Numbered \o own)
                          /\ ~obj.slow /\ obj.kind # "dictionary" => calls = Numbered \o own
                          /\ out \cap {"skipped", "undefname", "badprops"} = {}
  BY DEF ReportsExactly
<1>1. InOrderly /\ pc = "end" /\ calls \in Seq(Prop)
  BY DEF Walked, InOrderly, Finder, WalkTyped, Calling
<1>2. (rval = 0 <=> Readable) /\ (rval = 0 => Sound(out)) /\ (rval = 0 => AllDone(calls))
  BY <1>1 DEF SoundInv, ReportInv
<1>3. HeapTyped /\ Common /\ Full
  BY DEF HeapInv
<1>4. ASSUME rval = 0
      PROVE  /\ Set(calls) = Set(Numbered \o own)
             /\ Len(calls) = Len(Numbered \o own)
             /\ ~obj.slow /\ obj.kind # "dictionary" => calls = Numbered \o own
             /\ out \cap {"skipped", "undefname", "badprops"} = {}
  <2>1. /\ Distinct(calls) /\ Set(calls) = Set(Numbered \o own)
        /\ ~obj.slow /\ obj.kind # "dictionary" => calls = Numbered \o own
    BY <1>2, <1>4 DEF AllDone
  <2>2. /\ Numbered \in Seq(Prop) /\ own \in Seq(Prop) /\ Distinct(Numbered) /\ Distinct(own)
        /\ \A p \in Set(elements), q \in Set(own) : p.name # q.name
        /\ Set(Numbered) \subseteq Set(elements)
    BY <1>3, PropertiesApart
  <2>3. Set(Numbered) \cap Set(own) = {}
    BY <2>2
  <2>4. Numbered \o own \in Seq(Prop) /\ Distinct(Numbered \o own)
        /\ Set(Numbered \o own) = Set(Numbered) \cup Set(own)
    BY <2>2, <2>3, ConcatSet, ConcatDistinct
  <2>5. Len(calls) = Len(Numbered \o own)
    BY <1>1, <2>1, <2>4, SameLength
  <2>6. ASSUME NEW p \in Set(calls), ~p.double
        PROVE  ~MaybeGarbage(p.val)
    <3>1. p \in Set(elements) \/ p \in Set(own)
      BY <2>1, <2>2, <2>4, <2>6
    <3>2. Fine(p)
      BY <1>3, <3>1 DEF Common, OwnFine, NumbersFine, Set
    <3>3. \E n \in Nat : p.val = Value(n)
      BY <2>6, <3>2, WordKinds DEF Fine
    <3> QED
      BY <3>3, WordKinds DEF MaybeGarbage
  <2>7. "badlayout" \notin out /\ "skipped" \notin out /\ "undefname" \notin out
    BY <1>2, <1>4 DEF Sound
  <2>8. "badprops" \notin out
    BY <1>4, <2>6, <2>7 DEF GarbageIsFlagged
  <2> QED
    BY <2>1, <2>5, <2>7, <2>8
<1> QED
  BY <1>2, <1>4

(* An object whose memory is in order is reported as it is: it is read to  *)
(* its end whenever the metadata and the bound of the layout descriptor    *)
(* let it, each property that V8 gave it and did not delete is handed over *)
(* once and with its value, in V8's order where V8 has one, and nothing is *)
(* flagged.  For every version of V8 and every object it can have built.   *)
THEOREM ReportsAreExact == Spec => []ReportsExactly
<1>1. /\ PlaceInv /\ HeapInv /\ WalkTyped /\ GarbageIsFlagged /\ SoundInv /\ ReportInv
      => ReportsExactly
  BY ReportedExactly
<1> QED
  BY <1>1, PlaceAlways, HeapAlways, WalkTypedAlways, GarbageAlways, SoundAlways, ReportAlways, PTL

-----------------------------------------------------------------------------
(* The two passes of walk_jsprop: what the first read the second reads     *)

Walker == client = "walker"

BeginOk == damage \notin {"object", "properties", "type"} /\ (damage = "map" => ~HasElements)

\* no key before word i stops read_heap_dict
KeysOk(table, i) == \A k \in Keys : k < i => table[k] \notin {Garbage, Internal}

TableOk(table) == ver.entry = 3 /\ KeysOk(table, TableLen + 1)

NumbersOk == HasElements /\ obj.kind = "dictionary" => TableOk(obj.elts)

DescsOk(i) == \A k \in 1..Len(obj.descs) : k < i => ~Corrupt(k)

AllOk ==
    /\ BeginOk /\ NumbersOk /\ damage # "map"
    /\ obj.slow => damage # "data" /\ TableOk(obj.props)
    /\ ~obj.slow => ~ShapeFails /\ DescsOk(Len(obj.descs) + 1)

OkInv == Walker =>
    /\ pc \in {"elements", "etable", "shape", "table", "descs"} => BeginOk
    /\ pc = "etable" => KeysOk(obj.elts, ii)
    /\ pc \in {"shape", "table", "descs"} => NumbersOk
    /\ pc \in {"table", "descs"} => damage # "map"
    /\ pc = "table" => KeysOk(obj.props, ii)
    /\ pc = "descs" => ~ShapeFails /\ DescsOk(ii)
    /\ pc = "end" /\ rval = 0 => AllOk
    /\ pass = 2 => AllOk /\ pc # "fault" /\ (pc = "end" => rval = 0)

LEMMA WalkReads ==
    ASSUME UNCHANGED heapvars
    PROVE  /\ Walker' <=> Walker
           /\ BeginOk' <=> BeginOk
           /\ NumbersOk' <=> NumbersOk
           /\ AllOk' <=> AllOk
           /\ ShapeFails' <=> ShapeFails
           /\ \A k : (Corrupt(k)' <=> Corrupt(k)) /\ (Passes(k)' <=> Passes(k))
           /\ \A k : FieldCalled(k)' = FieldCalled(k)
           /\ \A i : DescsOk(i)' <=> DescsOk(i)
<1>1. /\ obj' = obj /\ ver' = ver /\ damage' = damage /\ nin' = nin
      /\ client' = client
  BY DEF heapvars
<1>2. HasElements' <=> HasElements
  BY <1>1 DEF HasElements
<1>3. BeginOk' <=> BeginOk
  BY <1>1, <1>2 DEF BeginOk
<1>4. NumbersOk' <=> NumbersOk
  BY <1>1, <1>2 DEF NumbersOk, TableOk, KeysOk
<1>5. ShapeFails' <=> ShapeFails
  BY <1>1 DEF ShapeFails, LayoutFails, Untagged
<1>6. \A d : PropIdx(d)' = PropIdx(d) /\ ArrayIdx(d)' = ArrayIdx(d) /\ (InObject(d)' <=> InObject(d))
  BY <1>1 DEF PropIdx, ArrayIdx, InObject
<1>7. \A k : Passes(k)' <=> Passes(k)
  BY <1>1, <1>6 DEF Passes, PassOver, NContent, PropIdx, ArrayIdx, InObject
<1>8. \A k : Corrupt(k)' <=> Corrupt(k)
  BY <1>1, <1>6, <1>7 DEF Corrupt, PropIdx, ArrayIdx, InObject
<1>9. \A i : DescsOk(i)' <=> DescsOk(i)
  BY <1>1, <1>8 DEF DescsOk
<1>10. \A k : FieldCalled(k)' = FieldCalled(k)
  BY <1>1 DEF FieldCalled, FieldWord, SlotWord, ObjWords, IsUntagged, Untagged, PropIdx, ArrayIdx, InObject
<1>11. AllOk' <=> AllOk
  BY <1>1, <1>3, <1>4, <1>5, <1>9 DEF AllOk, TableOk, KeysOk
<1> QED
  BY <1>1, <1>3, <1>4, <1>5, <1>7, <1>8, <1>9, <1>10, <1>11 DEF Walker

(* A dictionary whose keys are fine is not taken for broken, and one that  *)
(* was read to its end has fine keys.                                      *)
LEMMA OkTableStep ==
    ASSUME HeapTyped, SpotInv, Calling, pc \in {"etable", "table"},
           NEW STATE table, NEW ACTION Finish, TableStep(table, Finish), Len(table) = TableLen,
           KeysOk(table, ii)
    PROVE  \/ Return(-1) /\ ~TableOk(table)
           \/ Finish /\ TableOk(table)
           \/ pc' = pc /\ ii' \in Spots /\ KeysOk(table, ii')
<1>1. ii \in Spots
  BY DEF SpotInv
<1>2. CASE Broken(table) /\ Return(-1)
  <2>1. CASE ver.entry < 2
    BY <1>2, <2>1 DEF TableOk
  <2>2. CASE ~TableEnd(table) /\ table[ii] \in {Garbage, Internal}
    <3>1. ii \in Keys
      BY <1>1, <2>2, NextSpot DEF TableEnd
    <3>2. ii < TableLen + 1
      BY <3>1, KeysInTable, SizesTyped
    <3>3. ~KeysOk(table, TableLen + 1)
      BY <2>2, <3>1, <3>2 DEF KeysOk
    <3> QED
      BY <1>2, <3>3 DEF TableOk
  <2> QED
    BY <1>2, <2>1, <2>2 DEF Broken
<1>3. CASE ~Broken(table) /\ TableEnd(table) /\ Finish
  <2>1. \A k \in Keys : k < ii
    BY <1>1, <1>3, LastSpot DEF TableEnd
  <2>2. TableOk(table)
    BY <1>3, <2>1, EntryIsThree DEF TableOk, KeysOk
  <2> QED
    BY <1>3, <2>2
<1>4. CASE ~Broken(table) /\ ~TableEnd(table) /\ ii' = ii + ver.entry /\ pc' = pc
  <2>1. ii \in Keys /\ ii + 3 \in Spots /\ \A k \in Keys : k < ii + 3 <=> k < ii \/ k = ii
    BY <1>1, <1>4, NextSpot DEF TableEnd
  <2>2. ii' = ii + 3
    BY <1>4, EntryIsThree
  <2>3. table[ii] \notin {Garbage, Internal}
    BY <1>4 DEF Broken
  <2>4. KeysOk(table, ii + 3)
    BY <2>1, <2>3 DEF KeysOk
  <2> QED
    BY <1>4, <2>1, <2>2, <2>4
<1> QED
  BY <1>2, <1>3, <1>4 DEF TableStep

LEMMA OkNext ==
    ASSUME PlaceInv, HeapInv, WalkTyped, SpotInv, OkInv, [Next]_opvars
    PROVE  OkInv'
<1>1. CASE V8Step \/ DamageStep
  <2>1. pc = "build" /\ pc' = pc /\ pass' = pass
    BY <1>1 DEF V8Step, Change, AddField, AddOther, DeleteField, GoSlow, AddSlow, DeleteSlow,
       AddElement, DeleteElement, SlowElements, DamageStep, Damaged, LosePart, NotAnArray, RotValue,
       RotKey, RotIndex, RotTable, CutContent, walkvars
  <2>2. pass = 1
    BY <2>1 DEF PlaceInv
  <2> QED
    BY <2>1, <2>2 DEF OkInv
<1>2. CASE UNCHANGED opvars
  <2>1. UNCHANGED heapvars /\ UNCHANGED <<pc, ii, rval, pass>> /\ obj' = obj
    BY <1>2 DEF opvars, walkvars, heapvars
  <2>2. damage' = damage
    BY <1>2 DEF opvars, heapvars
  <2>3. \A i : DescsOk(i)' <=> DescsOk(i)
    BY <2>1, WalkReads
  <2>4. DescsOk(ii)' <=> DescsOk(ii)
    BY <2>1, <2>3, WalkReads DEF DescsOk
  <2> QED
    BY <2>1, <2>2, <2>4, WalkReads DEF OkInv, KeysOk
<1>20. CASE Start
  <2>1. pass' = 1
    BY <1>20 DEF Start, PlaceInv
  <2> QED
    BY <1>20, <2>1 DEF OkInv, Start
<1>21. CASE SecondPass
  <2>1. UNCHANGED heapvars /\ pc = "end" /\ rval = 0 /\ Walker /\ pc' = "begin"
    BY <1>21 DEF SecondPass, PlaceInv, Walker
  <2>2. AllOk
    BY <2>1 DEF OkInv
  <2>3. AllOk'
    BY <2>1, <2>2, WalkReads
  <2> QED
    BY <2>1, <2>3 DEF OkInv
<1> SUFFICES ASSUME Walk, ~SecondPass, Walker'
             PROVE  OkInv'
  BY <1>1, <1>2, <1>20, <1>21 DEF Next, OkInv
<1>3. UNCHANGED heapvars /\ Walker /\ Calling /\ client = "walker" /\ obj' = obj /\ damage' = damage
  BY WalkLeavesMemory DEF Walker, Calling, heapvars
<1>4. HeapTyped /\ Indexed /\ HeapParts /\ pass' = pass
  BY PlacesIndexed, PartsTyped DEF Walk, Begin, Elements, ElementTable, Shape, PropertyTable, Descriptors
<1>30. /\ BeginOk' <=> BeginOk
       /\ NumbersOk' <=> NumbersOk
       /\ AllOk' <=> AllOk
       /\ ShapeFails' <=> ShapeFails
  BY <1>3, WalkReads
<1>31. pass = 2 => AllOk
  BY <1>3 DEF OkInv
<1>32. \A table, i : KeysOk(table, i)' <=> KeysOk(table, i)
  BY DEF KeysOk
<1>5. CASE Begin
  <2>1. CASE BeginFails
    <3>1. ~AllOk /\ pc' = "end" /\ rval' = -1
      BY <2>1 DEF BeginFails, AllOk, BeginOk, Return
    <3> QED
      BY <1>31, <1>4, <3>1 DEF OkInv
  <2>2. CASE BadLayout
    <3>1. ~AllOk /\ pc' = "fault"
      BY <1>3, <2>2 DEF BadLayout, AllOk, BeginOk
    <3> QED
      BY <1>31, <1>4, <3>1 DEF OkInv
  <2>3. CASE BeginWalk
    <3>1. BeginOk
      BY <2>3 DEF BeginWalk, BeginOk
    <3>2. CASE HasElements
      <4>1. pc' \in {"elements", "etable"} /\ (pc' = "etable" => ii' = 2)
        BY <2>3, <3>2 DEF BeginWalk
      <4>2. KeysOk(obj.elts, 2)
        BY FirstSpot DEF KeysOk
      <4> QED
        BY <1>3, <1>30, <1>31, <1>4, <3>1, <4>1, <4>2 DEF OkInv, KeysOk
    <3>3. CASE ~HasElements
      <4>1. pc' = "shape" /\ NumbersOk
        BY <2>3, <3>3 DEF BeginWalk, NumbersOk
      <4> QED
        BY <1>30, <1>31, <1>4, <3>1, <4>1 DEF OkInv
    <3> QED
      BY <3>2, <3>3
  <2> QED
    BY <1>5, <2>1, <2>2, <2>3 DEF Begin
<1>6. CASE Elements
  <2>1. ElementsStep
    BY <1>3, <1>6, StepElements DEF Calling
  <2>2. BeginOk /\ NumbersOk
    BY <1>3, <2>1 DEF OkInv, ElementsStep, WalkTyped, NumbersOk
  <2>3. pc' \in {"shape", "elements"}
    BY <2>1 DEF ElementsStep
  <2> QED
    BY <1>30, <1>31, <1>4, <2>2, <2>3 DEF OkInv
<1>7. CASE ElementTable
  <2> DEFINE Finish == pc' = "shape" /\ UNCHANGED rval
  <2>1. ReadTable(obj.elts, Finish) /\ pc = "etable"
    BY <1>7 DEF ElementTable
  <2>2. Finish => pc' = "shape"
    OBVIOUS
  <2> HIDE DEF Finish
  <2>3. TableStep(obj.elts, Finish)
    BY <1>3, <2>1, StepTable DEF Calling
  <2>4. /\ HasElements /\ obj.kind = "dictionary" /\ Len(obj.elts) = TableLen
        /\ KeysOk(obj.elts, ii) /\ BeginOk
    BY <1>3, <1>4, <2>1 DEF WalkTyped, HeapTyped, OkInv
  <2>5. \/ Return(-1) /\ ~TableOk(obj.elts)
        \/ Finish /\ TableOk(obj.elts)
        \/ pc' = pc /\ ii' \in Spots /\ KeysOk(obj.elts, ii')
    BY <1>3, <1>4, <2>1, <2>3, <2>4, OkTableStep
  <2>6. CASE Return(-1) /\ ~TableOk(obj.elts)
    <3>1. ~AllOk
      BY <2>4, <2>6 DEF AllOk, NumbersOk
    <3> QED
      BY <1>31, <1>4, <2>6, <3>1 DEF OkInv, Return
  <2>7. CASE Finish /\ TableOk(obj.elts)
    <3>1. NumbersOk
      BY <2>7 DEF NumbersOk
    <3> QED
      BY <1>30, <1>31, <1>4, <2>2, <2>4, <2>7, <3>1 DEF OkInv
  <2>8. CASE pc' = pc /\ KeysOk(obj.elts, ii')
    BY <1>3, <1>30, <1>31, <1>4, <2>1, <2>4, <2>8 DEF OkInv, KeysOk
  <2> QED
    BY <2>5, <2>6, <2>7, <2>8
<1>8. CASE Shape
  <2>1. BeginOk /\ NumbersOk
    BY <1>3, <1>8 DEF OkInv, Shape
  <2>2. CASE (damage = "map" \/ (~obj.slow /\ ShapeFails)) /\ Return(-1)
    <3>1. ~AllOk
      BY <2>2 DEF AllOk
    <3> QED
      BY <1>31, <1>4, <2>2, <3>1 DEF OkInv, Return
  <2>3. CASE damage # "map" /\ obj.slow /\ pc' = "table" /\ ii' = 2
    <3>1. KeysOk(obj.props, 2)
      BY FirstSpot DEF KeysOk
    <3> QED
      BY <1>3, <1>30, <1>31, <1>4, <2>1, <2>3, <3>1 DEF OkInv, KeysOk
  <2>4. CASE damage # "map" /\ ~obj.slow /\ ~ShapeFails /\ pc' = "descs" /\ ii' = 1
    <3>1. DescsOk(ii)'
      BY <1>4, <2>4 DEF DescsOk, HeapParts
    <3> QED
      BY <1>3, <1>30, <1>31, <1>4, <2>1, <2>4, <3>1 DEF OkInv
  <2> QED
    BY <1>8, <2>2, <2>3, <2>4 DEF Shape
<1>9. CASE PropertyTable
  <2>1. pc = "table" /\ obj.slow /\ Len(obj.props) = TableLen /\ KeysOk(obj.props, ii)
        /\ BeginOk /\ NumbersOk /\ damage # "map"
    BY <1>3, <1>4, <1>9 DEF PropertyTable, WalkTyped, HeapTyped, OkInv
  <2>2. CASE damage = "data" /\ Return(-1)
    <3>1. ~AllOk
      BY <2>1, <2>2 DEF AllOk
    <3> QED
      BY <1>31, <1>4, <2>2, <3>1 DEF OkInv, Return
  <2>3. CASE damage # "data" /\ ReadTable(obj.props, Return(0))
    <3>1. TableStep(obj.props, Return(0))
      BY <1>3, <2>3, StepTable DEF Calling
    <3>2. \/ Return(-1) /\ ~TableOk(obj.props)
          \/ Return(0) /\ TableOk(obj.props)
          \/ pc' = pc /\ ii' \in Spots /\ KeysOk(obj.props, ii')
      BY <1>3, <1>4, <2>1, <3>1, OkTableStep
    <3>3. CASE Return(-1) /\ ~TableOk(obj.props)
      <4>1. ~AllOk
        BY <2>1, <3>3 DEF AllOk
      <4> QED
        BY <1>31, <1>4, <3>3, <4>1 DEF OkInv, Return
    <3>4. CASE Return(0) /\ TableOk(obj.props)
      <4>1. AllOk
        BY <2>1, <2>3, <3>4 DEF AllOk
      <4> QED
        BY <1>30, <1>4, <3>4, <4>1 DEF OkInv, Return
    <3>5. CASE pc' = pc /\ KeysOk(obj.props, ii')
      BY <1>3, <1>30, <1>31, <1>4, <2>1, <3>5 DEF OkInv, KeysOk
    <3> QED
      BY <3>2, <3>3, <3>4, <3>5
  <2> QED
    BY <1>9, <2>2, <2>3 DEF PropertyTable
<1>10. CASE Descriptors
  <2>1. DescriptorsStep
    BY <1>3, <1>10, StepDescriptors DEF Calling
  <2>2. /\ pc = "descs" /\ ~obj.slow /\ ii \in Nat /\ ii >= 1 /\ Len(obj.descs) \in Nat
        /\ BeginOk /\ NumbersOk /\ damage # "map" /\ ~ShapeFails /\ DescsOk(ii)
    BY <1>3, <1>4, <2>1 DEF WalkTyped, OkInv, DescriptorsStep, HeapParts
  <2>3. CASE ii > Len(obj.descs) /\ Return(0)
    <3>1. DescsOk(Len(obj.descs) + 1)
      BY <2>2, <2>3 DEF DescsOk
    <3>2. AllOk
      BY <2>2, <3>1 DEF AllOk
    <3> QED
      BY <1>30, <1>4, <2>3, <3>2 DEF OkInv, Return
  <2>4. CASE ii <= Len(obj.descs) /\ Corrupt(ii) /\ Return(-1)
    <3>1. ~DescsOk(Len(obj.descs) + 1)
      BY <2>2, <2>4 DEF DescsOk
    <3>2. ~AllOk
      BY <2>2, <3>1 DEF AllOk
    <3> QED
      BY <1>31, <1>4, <2>4, <3>2 DEF OkInv, Return
  <2>5. CASE ii <= Len(obj.descs) /\ ~Corrupt(ii) /\ ii' = ii + 1 /\ pc' = pc
    <3>1. \A k \in 1..Len(obj.descs) : k < ii + 1 => ~Corrupt(k)
      BY <2>2, <2>5 DEF DescsOk
    <3>2. \A k : Corrupt(k)' <=> Corrupt(k)
      BY <1>3, WalkReads
    <3>3. DescsOk(ii)'
      BY <1>3, <2>5, <3>1, <3>2 DEF DescsOk
    <3> QED
      BY <1>3, <1>30, <1>31, <1>4, <2>2, <2>5, <3>3 DEF OkInv
  <2>6. \A flags \in SUBSET {"skipped", "undefname"} : PassOver(ii, flags) => ~Corrupt(ii)
    BY DEF Corrupt, Passes
  <2> QED
    BY <2>1, <2>3, <2>4, <2>5, <2>6 DEF DescriptorsStep
<1> QED
  BY <1>5, <1>6, <1>7, <1>8, <1>9, <1>10 DEF Walk

LEMMA OkAlways == Spec => []OkInv
<1>1. Init => OkInv
  BY DEF Init, OkInv
<1>2. OkInv /\ SpotInv /\ WalkTyped /\ HeapInv /\ PlaceInv /\ [Next]_opvars => OkInv'
  BY OkNext
<1> QED
  BY <1>1, <1>2, SpotAlways, WalkTypedAlways, HeapAlways, PlaceAlways, PTL DEF Spec

-----------------------------------------------------------------------------
(* What each pass counts: how many places with a property it has passed    *)

\* the words of a dictionary, an array and a descriptor array that it counts
EntryPlaces(table) == {k \in Keys : ~Empty(table[k])}
ElementPlaces ==
    {k \in 1..Len(obj.elts) : obj.kind # "other" /\ ~(obj.kind = "holey" /\ obj.elts[k] = Hole)}
FieldPlaces == {k \in 1..Len(obj.descs) : ~Passes(k) /\ ~Corrupt(k) /\ ~FieldCalled(k).double}

NumberPlaces ==
    IF ~HasElements THEN {}
    ELSE IF obj.kind = "dictionary" THEN EntryPlaces(obj.elts) ELSE ElementPlaces
NamedPlaces == IF obj.slow THEN EntryPlaces(obj.props) ELSE FieldPlaces

Total == Cardinality(NumberPlaces) + Cardinality(NamedPlaces)

NBefore(places, i) == Cardinality({k \in places : k < i})

CountInv == Walker =>
    /\ pc \in {"elements", "etable"} => count[pass] = NBefore(NumberPlaces, ii)
    /\ pc = "shape" => count[pass] = Cardinality(NumberPlaces)
    /\ pc \in {"table", "descs"} =>
          count[pass] = Cardinality(NumberPlaces) + NBefore(NamedPlaces, ii)
    /\ pc = "end" /\ rval = 0 => count[pass] = Total
    /\ pass = 2 => count[1] = Total

LEMMA BeforeIs ==
    ASSUME NEW S, IsFiniteSet(S), NEW i
    PROVE  /\ IsFiniteSet({k \in S : k < i})
           /\ NBefore(S, i) \in Nat /\ Cardinality(S) \in Nat
           /\ NBefore(S, i) <= Cardinality(S)
           /\ (\A k \in S : k < i) => NBefore(S, i) = Cardinality(S)
           /\ (\A k \in S : ~(k < i)) => NBefore(S, i) = 0
<1> DEFINE T == {k \in S : k < i}
<1>1. T \subseteq S
  OBVIOUS
<1>2. (\A k \in S : k < i) => T = S
  OBVIOUS
<1>3. (\A k \in S : ~(k < i)) => T = {}
  OBVIOUS
<1>4. NBefore(S, i) = Cardinality(T)
  BY DEF NBefore
<1> HIDE DEF T
<1>5. IsFiniteSet(T) /\ Cardinality(T) <= Cardinality(S)
  BY <1>1, FS_Subset
<1>6. Cardinality(T) \in Nat /\ Cardinality(S) \in Nat
  BY <1>5, FS_CardinalityType
<1> QED
  BY <1>2, <1>3, <1>4, <1>5, <1>6, FS_EmptySet DEF T

LEMMA BeforeNext ==
    ASSUME NEW S, IsFiniteSet(S), NEW i \in Nat, NEW j,
           \A k \in S : k < j <=> k < i \/ k = i
    PROVE  NBefore(S, j) = IF i \in S THEN NBefore(S, i) + 1 ELSE NBefore(S, i)
<1> DEFINE T == {k \in S : k < i}
           U == {k \in S : k < j}
<1>1. NBefore(S, i) = Cardinality(T) /\ NBefore(S, j) = Cardinality(U) /\ IsFiniteSet(T)
  BY BeforeIs DEF NBefore
<1>2. i \notin T
  OBVIOUS
<1>3. U = IF i \in S THEN T \cup {i} ELSE T
  OBVIOUS
<1> HIDE DEF T, U
<1> QED
  BY <1>1, <1>2, <1>3, FS_AddElement

LEMMA PlacesFinite ==
    ASSUME HeapTyped
    PROVE  /\ \A table : IsFiniteSet(EntryPlaces(table))
           /\ IsFiniteSet(NumberPlaces) /\ IsFiniteSet(NamedPlaces)
           /\ \A k \in ElementPlaces : k \in 1..Len(obj.elts)
           /\ \A k \in FieldPlaces : k \in 1..Len(obj.descs)
<1>1. Len(obj.elts) \in Nat /\ Len(obj.descs) \in Nat /\ TableLen \in Nat
  BY PartsTyped, SizesTyped DEF HeapParts
<1>2. /\ IsFiniteSet(1..Len(obj.elts)) /\ IsFiniteSet(1..Len(obj.descs))
      /\ IsFiniteSet(1..TableLen)
  <2>1. \A n \in Nat : IsFiniteSet(1..n)
    BY FS_Interval
  <2> QED
    BY <1>1, <2>1
<1>3. Keys \subseteq 1..TableLen
  BY <1>1, KeysInTable
<1>4. \A table : IsFiniteSet(EntryPlaces(table))
  <2> SUFFICES ASSUME NEW table PROVE IsFiniteSet(EntryPlaces(table))
    OBVIOUS
  <2>1. EntryPlaces(table) \subseteq 1..TableLen
    BY <1>3 DEF EntryPlaces
  <2> QED
    BY <1>2, <2>1, FS_Subset
<1>5. ElementPlaces \subseteq 1..Len(obj.elts) /\ FieldPlaces \subseteq 1..Len(obj.descs)
  BY DEF ElementPlaces, FieldPlaces
<1>6. IsFiniteSet(ElementPlaces)
  BY <1>2, <1>5, FS_Subset
<1>7. IsFiniteSet(FieldPlaces)
  BY <1>2, <1>5, FS_Subset
<1>8. IsFiniteSet({})
  BY FS_EmptySet
<1> QED
  BY <1>4, <1>5, <1>6, <1>7, <1>8 DEF NumberPlaces, NamedPlaces

LEMMA PlacesRead ==
    ASSUME UNCHANGED heapvars
    PROVE  /\ NumberPlaces' = NumberPlaces
           /\ NamedPlaces' = NamedPlaces
           /\ Total' = Total
           /\ Walker' <=> Walker
<1>1. obj' = obj /\ (HasElements' <=> HasElements) /\ (Walker' <=> Walker)
  BY DEF heapvars, HasElements, Walker
<1>2. \A k : /\ Corrupt(k)' <=> Corrupt(k)
             /\ Passes(k)' <=> Passes(k)
             /\ FieldCalled(k)' = FieldCalled(k)
  BY WalkReads
<1>3. FieldPlaces' = FieldPlaces
  BY <1>1, <1>2 DEF FieldPlaces
<1>4. ElementPlaces' = ElementPlaces
  BY <1>1 DEF ElementPlaces
<1>5. EntryPlaces(obj.elts)' = EntryPlaces(obj.elts) /\ EntryPlaces(obj.props)' = EntryPlaces(obj.props)
  BY <1>1 DEF EntryPlaces
<1>6. NumberPlaces' = NumberPlaces /\ NamedPlaces' = NamedPlaces
  BY <1>1, <1>3, <1>4, <1>5 DEF NumberPlaces, NamedPlaces
<1> QED
  BY <1>1, <1>6 DEF Total

(* A call counts in its pass, unless for an unboxed double.                *)
LEMMA CallCounts ==
    ASSUME PlaceInv, NEW STATE p, NEW rv, Call(p, rv)
    PROVE  /\ count'[pass] = IF p.double THEN count[pass] ELSE count[pass] + 1
           /\ pass = 2 => count'[1] = count[1]
<1>1. count \in [{1, 2} -> Nat] /\ pass \in {1, 2}
  BY DEF PlaceInv
<1>2. count' = IF ~p.double THEN [count EXCEPT ![pass] = @ + 1] ELSE count
  BY DEF Call, Counted
<1> QED
  BY <1>1, <1>2

LEMMA CountTableStep ==
    ASSUME HeapTyped, PlaceInv, SpotInv, Calling, pc \in {"etable", "table"},
           NEW STATE table, NEW ACTION Finish, TableStep(table, Finish), Len(table) = TableLen
    PROVE  \/ Return(-1) /\ count'[pass] \in Nat /\ (pass = 2 => count'[1] = count[1])
           \/ Finish /\ count' = count
              /\ NBefore(EntryPlaces(table), ii) = Cardinality(EntryPlaces(table))
           \/ /\ pc' = pc /\ (pass = 2 => count'[1] = count[1])
              /\ count'[pass] + NBefore(EntryPlaces(table), ii) =
                    count[pass] + NBefore(EntryPlaces(table), ii')
<1> DEFINE places == EntryPlaces(table)
<1>1. ii \in Spots /\ IsFiniteSet(places) /\ count[pass] \in Nat
  BY PlacesFinite DEF SpotInv, PlaceInv
<1>2. places \subseteq Keys /\ \A k \in Keys : k \in places <=> ~Empty(table[k])
  BY DEF EntryPlaces
<1> HIDE DEF places
<1>3. CASE Return(-1) /\ NoCall
  BY <1>1, <1>3 DEF NoCall
<1>4. CASE TableEnd(table) /\ Finish /\ NoCall
  <2>1. \A k \in places : k < ii
    BY <1>1, <1>2, <1>4, LastSpot DEF TableEnd
  <2>2. NBefore(places, ii) = Cardinality(places)
    BY <1>1, <2>1, BeforeIs
  <2> QED
    BY <1>4, <2>2 DEF NoCall, places
<1>5. CASE ~Broken(table) /\ ~TableEnd(table) /\ ii' = ii + ver.entry /\ UNCHANGED <<pc, rval>>
  <2>1. ii' = ii + 3
    BY <1>5, EntryIsThree
  <2>2. ii \in Keys /\ \A k \in Keys : k < ii + 3 <=> k < ii \/ k = ii
    BY <1>1, <1>5, NextSpot DEF TableEnd
  <2>3. ii \in Nat
    BY <2>2, KeysInTable
  <2>4. \A k \in places : k < ii + 3 <=> k < ii \/ k = ii
    BY <1>2, <2>2
  <2>5. NBefore(places, ii + 3) = IF ii \in places THEN NBefore(places, ii) + 1
                                  ELSE NBefore(places, ii)
    BY <1>1, <2>3, <2>4, BeforeNext
  <2>6. NBefore(places, ii) \in Nat
    BY <1>1, BeforeIs
  <2>7. CASE Empty(table[ii]) /\ NoCall
    <3>1. NBefore(places, ii') = NBefore(places, ii)
      BY <1>2, <2>1, <2>2, <2>5, <2>7
    <3> QED
      BY <1>5, <2>7, <3>1 DEF NoCall, places
  <2>8. CASE ~Empty(table[ii]) /\ Call(TableCalled(table, ii), 0)
    <3>1. NBefore(places, ii') = NBefore(places, ii) + 1
      BY <1>2, <2>1, <2>2, <2>5, <2>8
    <3>2. ~TableCalled(table, ii).double
      BY DEF TableCalled
    <3>3. count'[pass] = count[pass] + 1 /\ (pass = 2 => count'[1] = count[1])
      BY <2>8, <3>2, CallCounts
    <3>4. count'[pass] + NBefore(places, ii) = count[pass] + NBefore(places, ii')
      BY <1>1, <2>6, <3>1, <3>3
    <3> QED
      BY <1>5, <3>3, <3>4 DEF places
  <2> QED
    BY <1>5, <2>7, <2>8 DEF TableStep
<1> QED
  BY <1>3, <1>4, <1>5 DEF TableStep

LEMMA CountNext ==
    ASSUME PlaceInv, HeapInv, WalkTyped, SpotInv, CountInv, [Next]_opvars
    PROVE  CountInv'
<1>1. CASE V8Step \/ DamageStep
  <2>1. pc = "build" /\ pc' = pc /\ pass' = pass
    BY <1>1 DEF V8Step, Change, AddField, AddOther, DeleteField, GoSlow, AddSlow, DeleteSlow,
       AddElement, DeleteElement, SlowElements, DamageStep, Damaged, LosePart, NotAnArray, RotValue,
       RotKey, RotIndex, RotTable, CutContent, walkvars
  <2>2. pass = 1
    BY <2>1 DEF PlaceInv
  <2> QED
    BY <2>1, <2>2 DEF CountInv
<1>2. CASE UNCHANGED opvars
  <2>1. UNCHANGED heapvars /\ UNCHANGED <<pc, ii, rval, pass, count>>
    BY <1>2 DEF opvars, walkvars
  <2> QED
    BY <2>1, PlacesRead DEF CountInv, NBefore
<1>20. CASE Start
  <2>1. pass' = 1
    BY <1>20 DEF Start, PlaceInv
  <2> QED
    BY <1>20, <2>1 DEF CountInv, Start
<1>21. CASE SecondPass
  <2>1. UNCHANGED heapvars /\ pc = "end" /\ rval = 0 /\ Walker /\ pc' = "begin" /\ pass = 1
        /\ count' = count
    BY <1>21 DEF SecondPass, PlaceInv, Walker
  <2>2. count[1] = Total
    BY <2>1 DEF CountInv
  <2> QED
    BY <2>1, <2>2, PlacesRead DEF CountInv
<1> SUFFICES ASSUME Walk, ~SecondPass, Walker'
             PROVE  CountInv'
  BY <1>1, <1>2, <1>20, <1>21 DEF Next, CountInv
<1>3. UNCHANGED heapvars /\ Walker /\ Calling
  BY WalkLeavesMemory DEF Walker, Calling, heapvars
<1>4. HeapTyped /\ HeapParts /\ Indexed /\ pass' = pass /\ pass \in {1, 2} /\ count[pass] \in Nat
  BY PlacesIndexed, PartsTyped
     DEF Walk, Begin, Elements, ElementTable, Shape, PropertyTable, Descriptors, PlaceInv
<1>5. NumberPlaces' = NumberPlaces /\ NamedPlaces' = NamedPlaces /\ Total' = Total
  BY <1>3, PlacesRead
<1>6. pass = 2 => count[1] = Total
  BY <1>3 DEF CountInv
<1>7. /\ IsFiniteSet(NumberPlaces) /\ IsFiniteSet(NamedPlaces)
      /\ \A table : IsFiniteSet(EntryPlaces(table))
  BY <1>4, PlacesFinite
<1> DEFINE numbers == Cardinality(NumberPlaces)
           names == Cardinality(NamedPlaces)
<1>8. numbers \in Nat /\ names \in Nat /\ Total = numbers + names
  BY <1>7, BeforeIs DEF Total
<1>9. \A i : NBefore(NumberPlaces, i) \in Nat /\ NBefore(NamedPlaces, i) \in Nat
  BY <1>7, BeforeIs
<1>10. /\ (Cardinality(NumberPlaces))' = numbers
       /\ \A i : NBefore(NumberPlaces, i)' = NBefore(NumberPlaces, i)
       /\ \A i : NBefore(NamedPlaces, i)' = NBefore(NamedPlaces, i)
  BY <1>5 DEF NBefore
<1>11. /\ NBefore(NumberPlaces, ii)' = NBefore(NumberPlaces, ii')
       /\ NBefore(NamedPlaces, ii)' = NBefore(NamedPlaces, ii')
  BY <1>5 DEF NBefore
<1>12. CASE Return(-1) /\ (pass = 2 => count'[1] = count[1])
  BY <1>4, <1>5, <1>6, <1>12 DEF CountInv, Return
<1>13. CASE Begin
  <2>1. pc = "begin" /\ count[pass] = 0
    BY <1>13 DEF Begin, PlaceInv, Fresh
  <2>2. CASE BeginFails
    BY <1>12, <2>2 DEF BeginFails, NoCall
  <2>3. CASE BadLayout
    <3>1. pc' = "fault" /\ count' = count
      BY <1>3, <2>3 DEF BadLayout, NoCall, Walker
    <3> QED
      BY <1>4, <1>5, <1>6, <3>1 DEF CountInv
  <2>4. CASE BeginWalk
    <3>1. count' = count
      BY <2>4 DEF BeginWalk, NoCall
    <3>2. CASE HasElements
      <4>1. pc' \in {"elements", "etable"}
        BY <2>4, <3>2 DEF BeginWalk
      <4>2. NBefore(NumberPlaces, ii') = 0
        <5>1. CASE obj.kind = "dictionary"
          <6>1. ii' = 2 /\ NumberPlaces \subseteq Keys
            BY <2>4, <3>2, <5>1 DEF BeginWalk, NumberPlaces, EntryPlaces
          <6>2. \A k \in NumberPlaces : ~(k < 2)
            BY <6>1, FirstSpot
          <6> QED
            BY <1>7, <6>1, <6>2, BeforeIs
        <5>2. CASE obj.kind # "dictionary"
          <6>1. ii' = 1 /\ NumberPlaces = ElementPlaces
            BY <2>4, <3>2, <5>2 DEF BeginWalk, NumberPlaces
          <6>2. \A k \in NumberPlaces : ~(k < 1)
            BY <1>4, <6>1, PlacesFinite DEF HeapParts
          <6> QED
            BY <1>7, <6>1, <6>2, BeforeIs
        <5> QED
          BY <5>1, <5>2
      <4> QED
        BY <1>4, <1>5, <1>6, <1>11, <2>1, <3>1, <4>1, <4>2 DEF CountInv
    <3>3. CASE ~HasElements
      <4>1. pc' = "shape" /\ NumberPlaces = {}
        BY <2>4, <3>3 DEF BeginWalk, NumberPlaces
      <4>2. numbers = 0
        BY <4>1, FS_EmptySet
      <4> QED
        BY <1>4, <1>5, <1>6, <1>10, <2>1, <3>1, <4>1, <4>2 DEF CountInv
    <3> QED
      BY <3>2, <3>3
  <2> QED
    BY <1>13, <2>2, <2>3, <2>4 DEF Begin
<1>14. CASE Elements
  <2>1. ElementsStep
    BY <1>3, <1>14, StepElements DEF Calling
  <2>2. /\ pc = "elements" /\ ii \in Nat /\ ii >= 1 /\ Len(obj.elts) \in Nat
        /\ NumberPlaces = ElementPlaces
        /\ count[pass] = NBefore(NumberPlaces, ii)
    BY <1>3, <1>4, <2>1 DEF WalkTyped, ElementsStep, CountInv, NumberPlaces, HeapParts
  <2>3. CASE /\ ii > Len(obj.elts) \/ obj.kind = "other"
             /\ pc' = "shape" /\ NoCall
    <3>1. \A k \in NumberPlaces : k < ii
      BY <2>2, <2>3 DEF ElementPlaces
    <3>2. count[pass] = numbers
      BY <1>7, <2>2, <3>1, BeforeIs
    <3> QED
      BY <1>4, <1>5, <1>6, <1>10, <2>3, <3>2 DEF CountInv, NoCall
  <2>4. CASE ii <= Len(obj.elts) /\ ii' = ii + 1 /\ pc' = pc
    <3>1. \A k \in NumberPlaces : k < ii + 1 <=> k < ii \/ k = ii
      BY <2>2 DEF ElementPlaces
    <3>2. NBefore(NumberPlaces, ii + 1) =
             IF ii \in NumberPlaces THEN NBefore(NumberPlaces, ii) + 1 ELSE NBefore(NumberPlaces, ii)
      BY <1>7, <2>2, <3>1, BeforeNext
    <3>3. ii \in NumberPlaces <=>
             obj.kind # "other" /\ ~(obj.kind = "holey" /\ obj.elts[ii] = Hole)
      BY <2>2, <2>4 DEF ElementPlaces
    <3>4. CASE obj.kind = "holey" /\ obj.elts[ii] = Hole /\ NoCall
      <4>1. count' = count /\ count[pass] = NBefore(NumberPlaces, ii')
        BY <2>2, <2>4, <3>2, <3>3, <3>4 DEF NoCall
      <4> QED
        BY <1>4, <1>5, <1>6, <1>11, <2>2, <2>4, <4>1 DEF CountInv
    <3>5. CASE /\ obj.kind # "other" /\ ~(obj.kind = "holey" /\ obj.elts[ii] = Hole)
               /\ Call(ElementCalled(ii), 0)
      <4>1. ~ElementCalled(ii).double
        BY DEF ElementCalled
      <4>2. count'[pass] = count[pass] + 1 /\ (pass = 2 => count'[1] = count[1])
        BY <3>5, <4>1, CallCounts
      <4>3. count'[pass] = NBefore(NumberPlaces, ii')
        BY <2>2, <2>4, <3>2, <3>3, <3>5, <4>2
      <4> QED
        BY <1>4, <1>5, <1>6, <1>11, <2>2, <2>4, <4>2, <4>3 DEF CountInv
    <3>6. \/ ii > Len(obj.elts) \/ obj.kind = "other"
          \/ obj.kind = "holey" /\ obj.elts[ii] = Hole /\ NoCall
          \/ /\ obj.kind # "other" /\ ~(obj.kind = "holey" /\ obj.elts[ii] = Hole)
             /\ Call(ElementCalled(ii), 0)
      BY <2>1 DEF ElementsStep
    <3> QED
      BY <2>1, <2>2, <2>3, <2>4, <3>4, <3>5, <3>6 DEF ElementsStep
  <2> QED
    BY <2>1, <2>3, <2>4 DEF ElementsStep
<1>15. CASE ElementTable
  <2> DEFINE Finish == pc' = "shape" /\ UNCHANGED rval
  <2>1. ReadTable(obj.elts, Finish) /\ pc = "etable"
    BY <1>15 DEF ElementTable
  <2>2. Finish => pc' = "shape"
    OBVIOUS
  <2> HIDE DEF Finish
  <2>3. TableStep(obj.elts, Finish)
    BY <1>3, <2>1, StepTable DEF Calling
  <2>4. /\ Len(obj.elts) = TableLen /\ NumberPlaces = EntryPlaces(obj.elts)
        /\ count[pass] = NBefore(NumberPlaces, ii)
    BY <1>3, <1>4, <2>1 DEF WalkTyped, HeapTyped, CountInv, NumberPlaces
  <2>5. \/ Return(-1) /\ count'[pass] \in Nat /\ (pass = 2 => count'[1] = count[1])
        \/ Finish /\ count' = count /\ NBefore(NumberPlaces, ii) = numbers
        \/ /\ pc' = pc /\ (pass = 2 => count'[1] = count[1])
           /\ count'[pass] + NBefore(NumberPlaces, ii) = count[pass] + NBefore(NumberPlaces, ii')
    BY <1>3, <1>4, <2>1, <2>3, <2>4, CountTableStep
  <2>6. CASE Finish /\ count' = count /\ NBefore(NumberPlaces, ii) = numbers
    BY <1>4, <1>5, <1>6, <1>10, <2>2, <2>4, <2>6 DEF CountInv
  <2>7. CASE /\ pc' = pc /\ (pass = 2 => count'[1] = count[1])
             /\ count'[pass] + NBefore(NumberPlaces, ii) = count[pass] + NBefore(NumberPlaces, ii')
    <3>1. count'[pass] \in Nat
      BY <1>4, PlaceNext DEF PlaceInv
    <3>2. count'[pass] = NBefore(NumberPlaces, ii')
      BY <1>9, <2>4, <2>7, <3>1
    <3> QED
      BY <1>4, <1>5, <1>6, <1>11, <2>1, <2>7, <3>2 DEF CountInv
  <2> QED
    BY <1>12, <2>5, <2>6, <2>7
<1>16. CASE Shape
  <2>1. count' = count /\ count[pass] = numbers
    BY <1>3, <1>16 DEF CountInv, Shape, NoCall
  <2>2. CASE Return(-1)
    BY <1>12, <2>1, <2>2
  <2>3. CASE obj.slow /\ pc' = "table" /\ ii' = 2
    <3>1. NamedPlaces \subseteq Keys
      BY <2>3 DEF NamedPlaces, EntryPlaces
    <3>2. \A k \in NamedPlaces : ~(k < 2)
      BY <3>1, FirstSpot
    <3>3. NBefore(NamedPlaces, ii') = 0
      BY <1>7, <2>3, <3>2, BeforeIs
    <3>4. count[pass] = numbers + NBefore(NamedPlaces, ii')
      BY <1>8, <2>1, <3>3
    <3> QED
      BY <1>4, <1>5, <1>6, <1>10, <1>11, <2>1, <2>3, <3>4 DEF CountInv
  <2>4. CASE ~obj.slow /\ pc' = "descs" /\ ii' = 1
    <3>1. \A k \in NamedPlaces : ~(k < 1)
      BY <1>4, <2>4, PlacesFinite DEF NamedPlaces, HeapParts
    <3>2. NBefore(NamedPlaces, ii') = 0
      BY <1>7, <2>4, <3>1, BeforeIs
    <3>3. count[pass] = numbers + NBefore(NamedPlaces, ii')
      BY <1>8, <2>1, <3>2
    <3> QED
      BY <1>4, <1>5, <1>6, <1>10, <1>11, <2>1, <2>4, <3>3 DEF CountInv
  <2> QED
    BY <1>16, <2>2, <2>3, <2>4 DEF Shape
<1>17. CASE PropertyTable
  <2>1. /\ pc = "table" /\ obj.slow /\ Len(obj.props) = TableLen
        /\ NamedPlaces = EntryPlaces(obj.props)
        /\ count[pass] = numbers + NBefore(NamedPlaces, ii)
    BY <1>3, <1>4, <1>17 DEF PropertyTable, WalkTyped, HeapTyped, CountInv, NamedPlaces
  <2>2. CASE Return(-1) /\ NoCall
    BY <1>12, <2>2 DEF NoCall
  <2>3. CASE ReadTable(obj.props, Return(0))
    <3>1. TableStep(obj.props, Return(0))
      BY <1>3, <2>3, StepTable DEF Calling
    <3>2. \/ Return(-1) /\ count'[pass] \in Nat /\ (pass = 2 => count'[1] = count[1])
          \/ Return(0) /\ count' = count /\ NBefore(NamedPlaces, ii) = names
          \/ /\ pc' = pc /\ (pass = 2 => count'[1] = count[1])
             /\ count'[pass] + NBefore(NamedPlaces, ii) = count[pass] + NBefore(NamedPlaces, ii')
      BY <1>3, <1>4, <2>1, <3>1, CountTableStep
    <3>3. CASE Return(0) /\ count' = count /\ NBefore(NamedPlaces, ii) = names
      <4>1. count'[pass] = Total
        BY <1>8, <2>1, <3>3
      <4> QED
        BY <1>4, <1>5, <1>6, <3>3, <4>1 DEF CountInv, Return
    <3>4. CASE /\ pc' = pc /\ (pass = 2 => count'[1] = count[1])
               /\ count'[pass] + NBefore(NamedPlaces, ii) = count[pass] + NBefore(NamedPlaces, ii')
      <4>1. count'[pass] \in Nat
        BY <1>4, PlaceNext DEF PlaceInv
      <4>2. count'[pass] = numbers + NBefore(NamedPlaces, ii')
        BY <1>8, <1>9, <2>1, <3>4, <4>1, SMTT(30)
      <4> QED
        BY <1>4, <1>5, <1>6, <1>10, <1>11, <2>1, <3>4, <4>2 DEF CountInv
    <3> QED
      BY <1>12, <3>2, <3>3, <3>4
  <2> QED
    BY <1>17, <2>2, <2>3 DEF PropertyTable
<1>18. CASE Descriptors
  <2>1. DescriptorsStep
    BY <1>3, <1>18, StepDescriptors DEF Calling
  <2>2. /\ pc = "descs" /\ ~obj.slow /\ ii \in Nat /\ ii >= 1 /\ Len(obj.descs) \in Nat
        /\ NamedPlaces = FieldPlaces
        /\ count[pass] = numbers + NBefore(NamedPlaces, ii)
    BY <1>3, <1>4, <2>1 DEF WalkTyped, DescriptorsStep, HeapParts, CountInv, NamedPlaces
  <2>3. CASE ii > Len(obj.descs) /\ Return(0) /\ NoCall
    <3>1. \A k \in NamedPlaces : k < ii
      BY <2>2, <2>3 DEF FieldPlaces
    <3>2. NBefore(NamedPlaces, ii) = names
      BY <1>7, <3>1, BeforeIs
    <3>3. count'[pass] = Total
      BY <1>8, <2>2, <2>3, <3>2 DEF NoCall
    <3> QED
      BY <1>4, <1>5, <1>6, <2>3, <3>3 DEF CountInv, Return, NoCall
  <2>4. CASE Return(-1) /\ NoCall
    BY <1>12, <2>4 DEF NoCall
  <2> DEFINE Passed == /\ \E flags \in SUBSET {"skipped", "undefname"} :
                             PassOver(ii, flags) /\ info' = info \cup flags
                       /\ NoCall
             Called == ~Passes(ii) /\ ~Corrupt(ii) /\ Call(FieldCalled(ii), 0)
  <2>5. CASE ii <= Len(obj.descs) /\ ii' = ii + 1 /\ pc' = pc /\ (Passed \/ Called)
    <3>1. \A k \in NamedPlaces : k < ii + 1 <=> k < ii \/ k = ii
      BY <2>2 DEF FieldPlaces
    <3>2. NBefore(NamedPlaces, ii + 1) =
             IF ii \in NamedPlaces THEN NBefore(NamedPlaces, ii) + 1 ELSE NBefore(NamedPlaces, ii)
      BY <1>7, <2>2, <3>1, BeforeNext
    <3>3. ii \in NamedPlaces <=> ~Passes(ii) /\ ~Corrupt(ii) /\ ~FieldCalled(ii).double
      BY <2>2, <2>5 DEF FieldPlaces
    <3>4. ii' = ii + 1 /\ NBefore(NamedPlaces, ii) \in Nat
      BY <1>9, <2>5
    <3>5. /\ count'[pass] = IF ii \in NamedPlaces THEN count[pass] + 1 ELSE count[pass]
          /\ pass = 2 => count'[1] = count[1]
      <4>1. CASE Passed
        <5>1. Passes(ii) /\ count' = count
          BY <4>1 DEF Passes, NoCall
        <5> QED
          BY <3>3, <5>1
      <4>2. CASE Called
        BY <3>3, <4>2, CallCounts
      <4> QED
        BY <2>5, <4>1, <4>2
    <3>6. count'[pass] = numbers + NBefore(NamedPlaces, ii')
      BY <1>8, <2>2, <3>2, <3>4, <3>5
    <3> QED
      BY <1>4, <1>5, <1>6, <1>10, <1>11, <2>2, <2>5, <3>5, <3>6 DEF CountInv
  <2> QED
    BY <2>1, <2>3, <2>4, <2>5 DEF DescriptorsStep
<1> QED
  BY <1>13, <1>14, <1>15, <1>16, <1>17, <1>18 DEF Walk

LEMMA CountAlways == Spec => []CountInv
<1>1. Init => CountInv
  BY DEF Init, CountInv
<1>2. CountInv /\ SpotInv /\ WalkTyped /\ HeapInv /\ PlaceInv /\ [Next]_opvars => CountInv'
  BY CountNext
<1> QED
  BY <1>1, <1>2, SpotAlways, WalkTypedAlways, HeapAlways, PlaceAlways, PTL DEF Spec

LEMMA CountedExactly ==
    ASSUME PlaceInv, HeapInv, OkInv, CountInv
    PROVE  WalkerExact
<1> SUFFICES ASSUME pass = 2
             PROVE  /\ count[2] <= count[1]
                    /\ pc = "end" => rval = 0 /\ count[2] = count[1]
  BY DEF WalkerExact
<1>1. Walker /\ HeapTyped /\ count[2] \in Nat /\ pc \in Places \ {"build"}
  BY DEF PlaceInv, Walker, HeapInv, Places
<1>2. count[1] = Total /\ pc # "fault" /\ (pc = "end" => rval = 0)
  BY <1>1 DEF OkInv, CountInv
<1> DEFINE numbers == Cardinality(NumberPlaces)
           names == Cardinality(NamedPlaces)
<1>3. numbers \in Nat /\ names \in Nat /\ Total = numbers + names
  BY <1>1, PlacesFinite, BeforeIs DEF Total
<1>4. /\ NBefore(NumberPlaces, ii) \in Nat /\ NBefore(NumberPlaces, ii) <= numbers
      /\ NBefore(NamedPlaces, ii) \in Nat /\ NBefore(NamedPlaces, ii) <= names
  BY <1>1, PlacesFinite, BeforeIs
<1>5. CASE pc = "begin"
  <2>1. count[2] = 0
    BY <1>5 DEF PlaceInv, Fresh
  <2> QED
    BY <1>2, <1>3, <1>5, <2>1
<1>6. CASE pc \in {"elements", "etable"}
  BY <1>1, <1>2, <1>3, <1>4, <1>6 DEF CountInv
<1>7. CASE pc = "shape"
  BY <1>1, <1>2, <1>3, <1>7 DEF CountInv
<1>8. CASE pc \in {"table", "descs"}
  BY <1>1, <1>2, <1>3, <1>4, <1>8 DEF CountInv
<1>9. CASE pc = "end"
  BY <1>1, <1>2, <1>3, <1>9 DEF CountInv
<1> QED
  BY <1>1, <1>2, <1>5, <1>6, <1>7, <1>8, <1>9 DEF Places

(* walk_jsprop_init's array: the walk that fills it writes no pointer past *)
(* those that the first counted, ends, and fills them all.  Whatever the   *)
(* memory of the object, what the first pass got through the second does.  *)
THEOREM WalkersAreExact == Spec => []WalkerExact
<1>1. PlaceInv /\ HeapInv /\ OkInv /\ CountInv => WalkerExact
  BY CountedExactly
<1> QED
  BY <1>1, PlaceAlways, HeapAlways, OkAlways, CountAlways, PTL
=============================================================================
