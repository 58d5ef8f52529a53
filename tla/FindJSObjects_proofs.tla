------------------------ MODULE FindJSObjects_proofs ------------------------
(***************************************************************************)
(* Proofs about FindJSObjects, for every heap and every set of command     *)
(* lines, wherever the operator interrupts.                                *)
(***************************************************************************)
EXTENDS FindJSObjects, FiniteSetTheorems, TLAPS

-----------------------------------------------------------------------------
(* Lemmas about the operators of the model.                                *)

(* What HeapAssumption says of one word, field by field.                   *)
LEMMA WordType ==
    ASSUME NEW a \in Addr
    PROVE  /\ Heap[a].garbage \in BOOLEAN
           /\ Heap[a].ctor \in Names
           /\ Heap[a].length \in Nat
           /\ Heap[a].shared \in Names
           /\ Len(Heap[a].slots) \in Nat
           /\ DOMAIN Heap[a].slots = 1..Len(Heap[a].slots)
           /\ \A i \in 1..Len(Heap[a].slots) : Heap[a].slots[i].desc \in Names
<1>1. Heap[a] \in Word
  BY HeapAssumption
<1> DEFINE R == [desc : Names, val : Addr \cup {NULL}]
<1>2. Heap[a].slots \in Seq(R)
  BY <1>1 DEF Word
<1>3. \A r \in R : r.desc \in Names
  OBVIOUS
<1> HIDE DEF R
<1>4. /\ Len(Heap[a].slots) \in Nat
      /\ DOMAIN Heap[a].slots = 1..Len(Heap[a].slots)
      /\ \A i \in 1..Len(Heap[a].slots) : Heap[a].slots[i] \in R
  BY <1>2
<1>5. /\ Heap[a].garbage \in BOOLEAN
      /\ Heap[a].ctor \in Names
      /\ Heap[a].length \in Nat
      /\ Heap[a].shared \in Names
  BY <1>1 DEF Word
<1> QED BY <1>3, <1>4, <1>5

(* A signature has the type of a signature.                                *)
LEMMA SignatureType ==
    ASSUME NEW a \in Addr
    PROVE  Signature(a) \in Sig
<1> DEFINE sl == Heap[a].slots
           bad == \/ Heap[a].garbage
                  \/ /\ Len(sl) = 1
                     /\ sl[1].val = NULL
                     /\ sl[1].desc \in Oddly
           names == [i \in DOMAIN sl |-> sl[i].desc]
<1>1. /\ Heap[a].ctor \in Names /\ Heap[a].length \in Nat
      /\ Len(sl) \in Nat /\ names \in Seq(Names)
  <2>1. names \in [1..Len(sl) -> Names]
    BY WordType
  <2> QED BY <2>1, WordType
<1>2. bad \in BOOLEAN
  BY WordType
<1>3. "Array" \in Names
  BY HeapAssumption
<1>6. <<>> \in Seq(Names)
  OBVIOUS
<1>4. CASE Heap[a].kind = "array"
  <2>1. Signature(a) = [malformed |-> FALSE, props |-> <<>>,
                        nprops |-> Heap[a].length, ctor |-> "Array"]
    BY <1>4 DEF Signature
  <2> QED BY <2>1, <1>1, <1>3, <1>6 DEF Sig
<1>5. CASE Heap[a].kind # "array"
  <2>1. Signature(a) = [malformed |-> bad, props |-> names,
                        nprops |-> Len(sl), ctor |-> Heap[a].ctor]
    BY <1>5 DEF Signature
  <2> HIDE DEF sl, bad, names
  <2> QED BY <2>1, <1>1, <1>2 DEF Sig
<1> QED BY <1>4, <1>5

(* The slots with a value are finitely many, and references are typed.     *)
LEMMA SlotsType ==
    ASSUME NEW a \in Addr, NEW t
    PROVE  /\ Cardinality(SlotsWith(a, t)) \in Nat
           /\ Refs(a, t) \subseteq [from : Addr, desc : Names]
<1>1. SlotsWith(a, t) \subseteq 1..Len(Heap[a].slots)
  BY WordType DEF SlotsWith
<1>2. IsFiniteSet(1..Len(Heap[a].slots))
  BY WordType, FS_Interval
<1>3. Cardinality(SlotsWith(a, t)) \in Nat
  BY <1>1, <1>2, FS_Subset, FS_CardinalityType
<1>4. \A i \in SlotsWith(a, t) : Heap[a].slots[i].desc \in Names
  BY <1>1, WordType
<1>5. Refs(a, t) \subseteq [from : Addr, desc : Names]
  BY <1>4 DEF Refs
<1> QED BY <1>3, <1>5

(* Filing an address in a table keeps the table a table.                   *)
LEMMA FileType ==
    ASSUME NEW t, NEW key, NEW a \in Addr, t \in [DOMAIN t -> Entry]
    PROVE  /\ DOMAIN File(t, key, a) = DOMAIN t \cup {key}
           /\ File(t, key, a) \in [DOMAIN t \cup {key} -> Entry]
<1>1. CASE key \in DOMAIN t
  <2>1. t[key] \in Entry
    BY <1>1
  <2>2. File(t, key, a) = [t EXCEPT ![key] = [rep |-> t[key].rep,
                                              insts |-> t[key].insts \cup {a},
                                              n |-> t[key].n + 1]]
    BY <1>1, <2>1 DEF File, Entry
  <2>3. [rep |-> t[key].rep, insts |-> t[key].insts \cup {a}, n |-> t[key].n + 1] \in Entry
    BY <2>1 DEF Entry
  <2> QED BY <1>1, <2>2, <2>3
<1>2. CASE key \notin DOMAIN t
  <2>1. NewEntry(a) \in Entry
    BY DEF NewEntry, Entry
  <2>2. File(t, key, a) = [k \in DOMAIN t \cup {key} |-> IF k = key THEN NewEntry(a) ELSE t[k]]
    BY <1>2 DEF File
  <2> QED BY <2>1, <2>2
<1> QED BY <1>1, <1>2

(* A rearranged list has the same elements.                                *)
LEMMA RearrangementsType ==
    ASSUME NEW S, NEW l \in Seq(S), NEW l2 \in Rearrangements(l)
    PROVE  /\ l2 \in Seq(S)
           /\ DOMAIN l2 = DOMAIN l
           /\ {l2[i] : i \in DOMAIN l2} = {l[i] : i \in DOMAIN l}
<1>1. PICK p \in [DOMAIN l -> DOMAIN l] :
            /\ \A i \in DOMAIN l : \E j \in DOMAIN l : p[j] = i
            /\ l2 = [i \in DOMAIN l |-> l[p[i]]]
  BY DEF Rearrangements
<1>2. Len(l) \in Nat /\ DOMAIN l = 1..Len(l) /\ \A i \in DOMAIN l : l[i] \in S
  OBVIOUS
<1>3. l2 \in [1..Len(l) -> S]
  BY <1>1, <1>2
<1>4. l2 \in Seq(S)
  BY <1>2, <1>3
<1>5. {l2[i] : i \in DOMAIN l2} \subseteq {l[i] : i \in DOMAIN l}
  BY <1>1
<1>6. {l[i] : i \in DOMAIN l} \subseteq {l2[i] : i \in DOMAIN l2}
  BY <1>1
<1> QED BY <1>1, <1>4, <1>5, <1>6

(* The representative, the instances and the count of a group are typed.   *)
LEMMA InstsType ==
    ASSUME TableOK
    PROVE  /\ Insts(tree) \subseteq Addr
           /\ InList \subseteq DOMAIN tree
           /\ AllInstances \subseteq Addr
           /\ \A a : UNION {tree[s].insts : s \in GroupOf(a)} \subseteq Addr
<1>1. \A s \in DOMAIN tree : tree[s].insts \subseteq Addr
  BY DEF TableOK, Entry
<1>2. InList \subseteq DOMAIN tree
  BY DEF TableOK, InList
<1> QED BY <1>1, <1>2 DEF Insts, AllInstances, GroupOf

(* mdb's release of UM_GC memory leaves the referents in place.            *)
LEMMA ReleaseType ==
    ASSUME ReferOK
    PROVE  /\ DOMAIN Release(referents) = DOMAIN referents
           /\ Release(referents) \in [DOMAIN referents -> Referent]
<1>1. \A t \in DOMAIN referents : referents[t] \in Referent
  BY DEF ReferOK
<1>2. \A r \in Referent : [r EXCEPT !.freed = @ \/ r.n > 0] \in Referent
  BY DEF Referent
<1> QED BY <1>1, <1>2 DEF Release
-----------------------------------------------------------------------------
(* Type correctness                                                        *)

LEMMA InitType == Init => TypeOK
<1> SUFFICES ASSUME Init PROVE TypeOK
  OBVIOUS
<1>1. Len(Words) \in Nat /\ MaxCmds \in Nat
  BY HeapAssumption, SessionAssumption
<1>2. ControlOK
  BY <1>1 DEF Init, ControlOK, Level, ScanPcs
<1>3. FlagsOK
  BY Zenon DEF Init, FlagsOK
<1>4. NoMap \in [{} -> Entry] /\ NoMap \in [{} -> Referent] /\ DOMAIN NoMap = {}
  BY DEF NoMap
<1>5. tree = NoMap /\ funcs = NoMap /\ list = <<>> /\ referents = NoMap
      /\ fjsAddr = NULL /\ todo = {}
  BY Zenon DEF Init
<1>6. TableOK
  BY <1>4, <1>5 DEF TableOK
<1>7. ReferOK
  BY <1>4, <1>5 DEF ReferOK
<1> QED BY <1>2, <1>3, <1>6, <1>7 DEF TypeOK

(* The flags of the static state stay Booleans.                            *)
LEMMA FlagsStep == TypeOK /\ [Next]_vars => FlagsOK'
<1> SUFFICES ASSUME FlagsOK, [Next]_vars PROVE FlagsOK'
  BY DEF TypeOK
<1>1. \/ brk' \in BOOLEAN /\ finished' = finished
      \/ finished' = TRUE /\ brk' = brk
      \/ brk' = brk /\ finished' = finished
  <2>1. ASSUME NEW c \in Commands, Start(c) \/ StartFails(c)
        PROVE  brk' \in BOOLEAN /\ finished' = finished
    <3>1. brk' = IF c.dcmd = "findjsobjects" THEN "b" \in c.opts ELSE brk
      BY <2>1, Zenon DEF Start, StartFails
    <3>2. CASE c.dcmd = "findjsobjects"
      <4>1. brk' = ("b" \in c.opts)
        BY <3>1, <3>2
      <4>2. ("b" \in c.opts) \in BOOLEAN
        OBVIOUS
      <4> QED BY <2>1, <4>1, <4>2, Zenon DEF Start, StartFails, table
    <3>3. CASE c.dcmd # "findjsobjects"
      <4>1. brk' = brk
        BY <3>1, <3>3
      <4> QED BY <2>1, <4>1, Zenon DEF Start, StartFails, table, FlagsOK
    <3> QED BY <3>2, <3>3
  <2>2. CASE ScanStep
    BY <2>2, Zenon DEF ScanStep, IterFails, ScanSkip, ScanFunction, FileFunction, GiveUp, FileOrSkip, ScanArray,
         ScanObject, ReadConstructor, InsertObject, EndScan, table
  <2>3. CASE AnswerStep
    <3>1. Quiet
      BY <2>3, Zenon DEF AnswerStep, OptsError, ListRepresentatives, Match, ListLike, PrintTable,
                FunctionsError, ListClosures, PrintFunctions
    <3> QED BY <3>1, Zenon DEF Quiet, table
  <2>4. CASE ReferStep
    BY <2>4, Zenon DEF ReferStep, StartMark, EndMark, StartReferences, EndTraverse, Report,
         ReportFaults, AddReferent, AlreadyMarked, AssertFails, Traverse, TraverseFaults,
         Wild, Quiet, table
  <2>5. CASE Interrupt
    BY <2>5, Zenon DEF Interrupt, Quiet, table
  <2>6. CASE UNCHANGED vars
    BY <2>6, Zenon DEF vars, table
  <2> QED BY <2>1, <2>2, <2>3, <2>4, <2>5, <2>6, Zenon DEF Next, DcmdStep
<1> QED BY <1>1, Zenon DEF FlagsOK

(* Every step keeps the control variables within their types.              *)
LEMMA ControlStep == TypeOK /\ [Next]_vars => ControlOK'
<1> SUFFICES ASSUME TypeOK, [Next]_vars PROVE ControlOK'
  OBVIOUS
<1>0. Len(Words) \in Nat /\ MaxCmds \in Nat /\ Commands \subseteq Command
  BY HeapAssumption, SessionAssumption
<1> USE <1>0 DEF TypeOK, ControlOK, Level, ScanPcs
<1>1. ASSUME NEW c \in Commands, Start(c) PROVE ControlOK'
  BY <1>1 DEF Start, Mute
<1>2. ASSUME NEW c \in Commands, StartFails(c) PROVE ControlOK'
  BY <1>2 DEF StartFails
<1>3. CASE ScanStep
  <2>1. CASE IterFails
    BY <2>1 DEF IterFails, Unmute, Error, Finish
  <2>2. CASE ScanSkip
    BY <2>2 DEF ScanSkip, InScan
  <2>3. CASE ScanFunction
    BY <2>3 DEF ScanFunction, InScan, Mute
  <2>4. CASE FileFunction
    BY <2>4 DEF FileFunction, GiveUp, FileOrSkip, Unmute
  <2>5. CASE ScanArray
    BY <2>5 DEF ScanArray, InScan
  <2>6. CASE ScanObject
    BY <2>6 DEF ScanObject, InScan, Mute
  <2>7. CASE ReadConstructor
    BY <2>7 DEF ReadConstructor, Unmute
  <2>8. CASE InsertObject
    BY <2>8 DEF InsertObject
  <2>9. CASE EndScan
    BY <2>9 DEF EndScan, Unmute
  <2> QED BY <1>3, <2>1, <2>2, <2>3, <2>4, <2>5, <2>6, <2>7, <2>8, <2>9 DEF ScanStep
<1>4. CASE AnswerStep
  <2>1. \E k, d : Finish(k, d)
    BY <1>4 DEF AnswerStep, OptsError, ListRepresentatives, Match, ListLike, PrintTable,
                FunctionsError, ListClosures, PrintFunctions, Error
  <2>2. Quiet /\ pc = "opts"
    BY <1>4 DEF AnswerStep, OptsError, ListRepresentatives, Match, ListLike, PrintTable,
                FunctionsError, ListClosures, PrintFunctions, Finder, Functions, Work
  <2> QED BY <2>1, <2>2 DEF Finish, Quiet
<1>5. CASE ReferStep
  <2>1. CASE StartMark
    BY <2>1 DEF StartMark, Work, Finder
  <2>2. CASE EndMark
    BY <2>2 DEF EndMark, Finish, Quiet
  <2>3. CASE StartReferences
    BY <2>3 DEF StartReferences, Work, Finder, Mute
  <2>4. CASE EndTraverse
    BY <2>4 DEF EndTraverse, Unmute
  <2>5. CASE Report
    BY <2>5 DEF Report, Finish
  <2>6. CASE ReportFaults
    BY <2>6 DEF ReportFaults, Wild
  <2>7. ASSUME NEW a \in todo, AddReferent(a) PROVE ControlOK'
    BY <2>7 DEF AddReferent
  <2>8. ASSUME NEW a \in todo, AlreadyMarked(a) PROVE ControlOK'
    BY <2>8 DEF AlreadyMarked
  <2>9. ASSUME NEW a \in todo, AssertFails(a) PROVE ControlOK'
    BY <2>9 DEF AssertFails
  <2>10. ASSUME NEW a \in todo, Traverse(a) PROVE ControlOK'
    BY <2>10 DEF Traverse
  <2>11. ASSUME NEW a \in todo, TraverseFaults(a) PROVE ControlOK'
    BY <2>11 DEF TraverseFaults, Wild
  <2> QED BY <1>5, <2>1, <2>2, <2>3, <2>4, <2>5, <2>6, <2>7, <2>8, <2>9, <2>10, <2>11
          DEF ReferStep
<1>6. CASE Interrupt
  BY <1>6 DEF Interrupt, Finish, Quiet
<1>7. CASE UNCHANGED vars
  BY <1>7 DEF vars
<1> QED BY <1>1, <1>2, <1>3, <1>4, <1>5, <1>6, <1>7 DEF Next, DcmdStep

(* While a word is being examined, it is an address of the target.         *)
LEMMA CurrentWord ==
    ASSUME ControlOK, pc \in {"func", "insert"}
    PROVE  Words[pos] \in Addr
<1>1. Words \in Seq(Addr) /\ Len(Words) \in Nat
  BY HeapAssumption
<1>2. pos \in 1..Len(Words)
  BY <1>1 DEF ControlOK
<1> QED BY <1>1, <1>2

(* Only filing an object or a closure, and the final sort, change the      *)
(* table of the scan; all other steps leave it alone.                      *)
LEMMA TableFrame ==
    [Next]_vars => \/ UNCHANGED <<tree, list, funcs>>
                   \/ FileFunction \/ InsertObject \/ EndScan
<1> SUFFICES ASSUME [Next]_vars, ~FileFunction, ~InsertObject, ~EndScan
             PROVE  UNCHANGED <<tree, list, funcs>>
  BY Zenon
<1>1. ASSUME NEW c \in Commands, Start(c) \/ StartFails(c)
      PROVE  UNCHANGED <<tree, list, funcs>>
  BY <1>1, Zenon DEF Start, StartFails, table
<1>2. CASE ScanStep
  BY <1>2, Zenon DEF ScanStep, IterFails, ScanSkip, ScanFunction, ScanArray,
       ScanObject, ReadConstructor, table
<1>3. CASE AnswerStep
  <2>1. Quiet
    BY <1>3, Zenon DEF AnswerStep, OptsError, ListRepresentatives, Match, ListLike, PrintTable,
              FunctionsError, ListClosures, PrintFunctions
  <2> QED BY <2>1, Zenon DEF Quiet, table
<1>4. CASE ReferStep
  BY <1>4, Zenon DEF ReferStep, StartMark, EndMark, StartReferences, EndTraverse, Report,
       ReportFaults, AddReferent, AlreadyMarked, AssertFails, Traverse, TraverseFaults,
       Wild, Quiet, table
<1>5. CASE Interrupt
  BY <1>5, Zenon DEF Interrupt, Quiet, table
<1>6. CASE UNCHANGED vars
  BY <1>6, Zenon DEF vars
<1> QED BY <1>1, <1>2, <1>3, <1>4, <1>5, <1>6, Zenon DEF Next, DcmdStep

(* Every step keeps the two tables and the list within their types.        *)
LEMMA TableStep == TypeOK /\ [Next]_vars => TableOK'
<1> SUFFICES ASSUME TypeOK, [Next]_vars PROVE TableOK'
  OBVIOUS
<1> USE DEF TypeOK
<1>1. CASE UNCHANGED <<tree, list, funcs>>
  BY <1>1 DEF TableOK
<1>2. CASE FileFunction
  <2>1. Words[pos] \in Addr
    BY <1>2, CurrentWord DEF FileFunction, GiveUp, FileOrSkip
  <2> DEFINE f == Heap[Words[pos]].shared
  <2>2. f \in Names
    BY <2>1, WordType
  <2>5. funcs' = funcs \/ funcs' = File(funcs, f, Words[pos])
    BY <1>2 DEF FileFunction, GiveUp, FileOrSkip
  <2> HIDE DEF f
  <2>3. DOMAIN funcs' \subseteq Names /\ funcs' \in [DOMAIN funcs' -> Entry]
    <3>1. funcs \in [DOMAIN funcs -> Entry] /\ DOMAIN funcs \subseteq Names
      BY DEF TableOK
    <3>2. CASE funcs' = funcs
      BY <3>1, <3>2
    <3>3. CASE funcs' = File(funcs, f, Words[pos])
      <4>1. /\ DOMAIN funcs' = DOMAIN funcs \cup {f}
            /\ funcs' \in [DOMAIN funcs \cup {f} -> Entry]
        BY <3>1, <3>3, <2>1, FileType
      <4> QED BY <3>1, <4>1, <2>2
    <3> QED BY <2>5, <3>2, <3>3
  <2>4. tree' = tree /\ list' = list
    BY <1>2 DEF FileFunction, GiveUp, FileOrSkip
  <2> QED BY <2>3, <2>4 DEF TableOK
<1>3. CASE InsertObject
  <2> DEFINE s == Signature(Words[pos])
  <2>1. Words[pos] \in Addr
    BY <1>3, CurrentWord DEF InsertObject
  <2>2. s \in Sig
    BY <2>1, SignatureType
  <2>3. /\ tree' = File(tree, s, Words[pos])
        /\ list' = IF s \in DOMAIN tree THEN list ELSE <<s>> \o list
        /\ funcs' = funcs
    BY <1>3 DEF InsertObject
  <2> HIDE DEF s
  <2>4. /\ tree \in [DOMAIN tree -> Entry] /\ DOMAIN tree \subseteq Sig
        /\ list \in Seq(DOMAIN tree)
    BY DEF TableOK
  <2>5. DOMAIN tree' = DOMAIN tree \cup {s} /\ tree' \in [DOMAIN tree' -> Entry]
    BY <2>1, <2>3, <2>4, FileType
  <2>6. list' \in Seq(DOMAIN tree')
    <3>1. list \in Seq(DOMAIN tree \cup {s})
      BY <2>4
    <3>2. <<s>> \o list \in Seq(DOMAIN tree \cup {s})
      BY <3>1
    <3> QED BY <2>3, <2>5, <3>1, <3>2
  <2> QED BY <2>2, <2>3, <2>4, <2>5, <2>6 DEF TableOK
<1>4. CASE EndScan
  <2>1. PICK l \in Rearrangements(list) : list' = l
    BY <1>4 DEF EndScan
  <2>2. l \in Seq(DOMAIN tree)
    BY <2>1, RearrangementsType DEF TableOK
  <2> QED BY <1>4, <2>1, <2>2 DEF EndScan, TableOK
<1> QED BY <1>1, <1>2, <1>3, <1>4, TableFrame

(* Every step keeps the marks, their references and the loops over them    *)
(* within their types.                                                     *)
LEMMA ReferTypeStep == TypeOK /\ [Next]_vars => ReferOK'
<1> SUFFICES ASSUME TypeOK, [Next]_vars PROVE ReferOK'
  OBVIOUS
<1> USE DEF TypeOK
<1>1. CASE UNCHANGED <<referents, fjsAddr, todo>>
  BY <1>1 DEF ReferOK
<1>2. CASE referents' = Release(referents) /\ UNCHANGED <<fjsAddr, todo>>
  BY <1>2, ReleaseType DEF ReferOK
<1>3. ASSUME NEW c \in Commands, Start(c) \/ StartFails(c) PROVE ReferOK'
  BY <1>1, <1>3, Zenon DEF Start, StartFails
<1>4. CASE ScanStep
  BY <1>1, <1>2, <1>4, Zenon DEF ScanStep, IterFails, ScanSkip, ScanFunction, FileFunction, GiveUp, FileOrSkip,
       ScanArray, ScanObject, ReadConstructor, InsertObject, EndScan
<1>5. CASE AnswerStep
  <2>1. Quiet
    BY <1>5, Zenon DEF AnswerStep, OptsError, ListRepresentatives, Match, ListLike, PrintTable,
              FunctionsError, ListClosures, PrintFunctions
  <2> QED BY <1>2, <2>1, Zenon DEF Quiet
<1>6. CASE ReferStep
  <2>1. CASE StartMark
    <3>1. cmd.addr \in Addr
      BY <2>1, InstsType DEF StartMark, BadOptions, Work, Finder, Sel, ListAll, AddrSpec
    <3>2. todo' \subseteq Addr
      BY <2>1, <3>1, InstsType DEF StartMark
    <3> QED BY <2>1, <3>2 DEF StartMark, ReferOK
  <2>2. CASE EndMark
    BY <1>2, <2>2 DEF EndMark, Quiet
  <2>3. CASE StartReferences
    BY <2>3, InstsType DEF StartReferences, ReferOK
  <2>4. CASE EndTraverse
    BY <2>4 DEF EndTraverse, ReferOK
  <2>5. CASE Report
    BY <2>5 DEF Report, ReferOK, NoMap
  <2>6. CASE ReportFaults
    BY <2>6 DEF ReportFaults, Wild, ReferOK
  <2>7. ASSUME NEW a \in todo, AddReferent(a) PROVE ReferOK'
    <3>1. a \in Addr /\ todo' \subseteq Addr /\ fjsAddr' = fjsAddr
      BY <2>7 DEF ReferOK, AddReferent, Advance
    <3>2. [refs |-> {}, n |-> 0, freed |-> FALSE] \in Referent
      BY DEF Referent
    <3>3. referents' = [t \in DOMAIN referents \cup {a} |->
                          IF t = a THEN [refs |-> {}, n |-> 0, freed |-> FALSE]
                                   ELSE referents[t]]
      BY <2>7 DEF AddReferent
    <3>4. /\ DOMAIN referents' = DOMAIN referents \cup {a}
          /\ referents' \in [DOMAIN referents \cup {a} -> Referent]
      BY <3>2, <3>3 DEF ReferOK
    <3> QED BY <3>1, <3>4 DEF ReferOK
  <2>8. ASSUME NEW a \in todo, AlreadyMarked(a) PROVE ReferOK'
    BY <2>8 DEF AlreadyMarked, Advance, ReferOK
  <2>9. ASSUME NEW a \in todo, AssertFails(a) PROVE ReferOK'
    BY <2>9 DEF AssertFails, ReferOK
  <2>10. ASSUME NEW a \in todo, Traverse(a) PROVE ReferOK'
    <3>1. a \in Addr /\ todo' \subseteq Addr /\ fjsAddr' \in Addr
      BY <2>10 DEF ReferOK, Traverse, Advance
    <3>2. ASSUME NEW t \in DOMAIN referents
          PROVE  [refs  |-> referents[t].refs \cup Refs(a, t),
                  n     |-> referents[t].n + Cardinality(SlotsWith(a, t)),
                  freed |-> referents[t].freed] \in Referent
      <4>1. referents[t] \in Referent
        BY DEF ReferOK
      <4>2. /\ Refs(a, t) \subseteq [from : Addr, desc : Names]
            /\ Cardinality(SlotsWith(a, t)) \in Nat
        BY <3>1, SlotsType
      <4> QED BY <4>1, <4>2 DEF Referent
    <3>3. referents' = [t \in DOMAIN referents |->
                          [refs  |-> referents[t].refs \cup Refs(a, t),
                           n     |-> referents[t].n + Cardinality(SlotsWith(a, t)),
                           freed |-> referents[t].freed]]
      BY <2>10 DEF Traverse
    <3>4. DOMAIN referents' = DOMAIN referents /\ referents' \in [DOMAIN referents' -> Referent]
      BY <3>2, <3>3
    <3> QED BY <3>1, <3>4 DEF ReferOK
  <2>11. ASSUME NEW a \in todo, TraverseFaults(a) PROVE ReferOK'
    BY <2>11 DEF TraverseFaults, Wild, ReferOK
  <2> QED BY <1>6, <2>1, <2>2, <2>3, <2>4, <2>5, <2>6, <2>7, <2>8, <2>9, <2>10, <2>11
          DEF ReferStep
<1>7. CASE Interrupt
  BY <1>2, <1>7, Zenon DEF Interrupt, Quiet
<1>8. CASE UNCHANGED vars
  BY <1>1, <1>8, Zenon DEF vars
<1> QED BY <1>3, <1>4, <1>5, <1>6, <1>7, <1>8, Zenon DEF Next, DcmdStep

(* Type correctness of every state of every session.                       *)
THEOREM TypeCorrect == Spec => []TypeOK
<1>1. TypeOK /\ [Next]_vars => TypeOK'
  BY ControlStep, FlagsStep, TableStep, ReferTypeStep DEF TypeOK
<1> QED BY InitType, <1>1, PTL DEF Spec
-----------------------------------------------------------------------------
(* The scan                                                                *)

(* Filing an object adds it, and nothing else, to what the table holds.    *)
LEMMA FileInsts ==
    ASSUME NEW t, NEW key, NEW a \in Addr, t \in [DOMAIN t -> Entry]
    PROVE  Insts(File(t, key, a)) = Insts(t) \cup {a}
<1> DEFINE t2 == File(t, key, a)
<1> SUFFICES Insts(t2) = Insts(t) \cup {a}
  OBVIOUS
<1>1. DOMAIN t2 = DOMAIN t \cup {key}
  BY FileType
<1>2. \A k \in DOMAIN t : k # key => t2[k].insts = t[k].insts
  BY DEF File
<1>3. t2[key].insts = (IF key \in DOMAIN t THEN t[key].insts ELSE {}) \cup {a}
  <2>1. CASE key \in DOMAIN t
    <3>1. t[key] \in Entry
      BY <2>1
    <3> QED BY <2>1, <3>1 DEF File
  <2>2. CASE key \notin DOMAIN t
    BY <2>2 DEF File, NewEntry
  <2> QED BY <2>1, <2>2
<1> HIDE DEF t2
<1>4. \A x : x \in Insts(t2) <=> \E k \in DOMAIN t2 : x \in t2[k].insts
  BY DEF Insts
<1>5. \A x : x \in Insts(t) <=> \E k \in DOMAIN t : x \in t[k].insts
  BY DEF Insts
<1>6. ASSUME NEW x PROVE x \in Insts(t2) <=> x \in Insts(t) \/ x = a
  <2>1. CASE key \in DOMAIN t
    <3>1. t2[key].insts = t[key].insts \cup {a} /\ DOMAIN t2 = DOMAIN t
      BY <1>1, <1>3, <2>1
    <3> QED BY <1>2, <1>4, <1>5, <2>1, <3>1
  <2>2. CASE key \notin DOMAIN t
    <3>1. t2[key].insts = {a}
      BY <1>3, <2>2
    <3> QED BY <1>1, <1>2, <1>4, <1>5, <2>2, <3>1
  <2> QED BY <2>1, <2>2
<1> QED BY <1>6

(* What the scan has passed grows by one word at a time.                   *)
LEMMA PrefixStep ==
    ASSUME NEW p \in 1..Len(Words)
    PROVE  /\ Prefix(p + 1) = Prefix(p) \cup {Words[p]}
           /\ Words[p] \notin Prefix(p)
           /\ Words[p] \in Addr
<1>1. Words \in Seq(Addr) /\ Len(Words) \in Nat
  BY HeapAssumption
<1>2. p + 1 - 1 = p /\ 1..p = 1..(p - 1) \cup {p}
  BY <1>1
<1>3. Prefix(p + 1) = Prefix(p) \cup {Words[p]}
  BY <1>2 DEF Prefix
<1>4. Words[p] \notin Prefix(p)
  <2>1. \A i \in 1..(p - 1) : i \in 1..Len(Words) /\ i # p
    BY <1>1
  <2> QED BY <2>1, HeapAssumption DEF Prefix
<1> QED BY <1>1, <1>3, <1>4

(* Steps other than those of a scan leave the table alone, and are not in  *)
(* one afterwards.                                                         *)
LEMMA OtherSteps ==
    [Next]_vars =>
       \/ \E c \in Commands : Start(c)
       \/ ScanSkip \/ ScanFunction \/ FileFunction \/ ScanArray \/ ScanObject
       \/ ReadConstructor \/ InsertObject \/ EndScan
       \/ UNCHANGED table /\ pc' \notin ScanPcs
       \/ UNCHANGED vars
<1> USE DEF ScanPcs
<1>1. ASSUME NEW c \in Commands, StartFails(c) PROVE UNCHANGED table /\ pc' \notin ScanPcs
  BY <1>1 DEF StartFails
<1>2. IterFails => UNCHANGED table /\ pc' \notin ScanPcs
  BY DEF IterFails, Error, Finish
<1>3. AnswerStep => UNCHANGED table /\ pc' \notin ScanPcs
  <2> SUFFICES ASSUME AnswerStep PROVE UNCHANGED table /\ pc' \notin ScanPcs
    OBVIOUS
  <2>1. Quiet /\ \E k, d : Finish(k, d)
    BY Zenon DEF AnswerStep, OptsError, ListRepresentatives, Match, ListLike, PrintTable,
       FunctionsError, ListClosures, PrintFunctions, Error
  <2> QED BY <2>1 DEF Quiet, Finish
<1>4. ReferStep => UNCHANGED table /\ pc' \notin ScanPcs
  <2>1. StartMark => UNCHANGED table /\ pc' \notin ScanPcs
    BY DEF StartMark
  <2>2. EndMark => UNCHANGED table /\ pc' \notin ScanPcs
    BY DEF EndMark, Finish, Quiet
  <2>3. StartReferences => UNCHANGED table /\ pc' \notin ScanPcs
    BY DEF StartReferences
  <2>4. EndTraverse => UNCHANGED table /\ pc' \notin ScanPcs
    BY DEF EndTraverse
  <2>5. Report => UNCHANGED table /\ pc' \notin ScanPcs
    BY DEF Report, Finish
  <2>6. ReportFaults => UNCHANGED table /\ pc' \notin ScanPcs
    BY DEF ReportFaults, Wild
  <2>7. \A a : \/ AddReferent(a) \/ AlreadyMarked(a) \/ AssertFails(a)
               \/ Traverse(a) \/ TraverseFaults(a)
               => UNCHANGED table /\ pc' \notin ScanPcs
    BY DEF AddReferent, AlreadyMarked, AssertFails, Traverse, TraverseFaults, Wild
  <2> QED BY <2>1, <2>2, <2>3, <2>4, <2>5, <2>6, <2>7, Zenon DEF ReferStep
<1>5. Interrupt => UNCHANGED table /\ pc' \notin ScanPcs
  BY DEF Interrupt, Finish, Quiet
<1> QED BY <1>1, <1>2, <1>3, <1>4, <1>5, Zenon DEF Next, DcmdStep, ScanStep

(* No later scan is narrowed by the fjs_addr an interrupted -r leaves.     *)
LEMMA FocusStep == TypeOK /\ FocusInv /\ [Next]_vars => FocusInv'
<1> SUFFICES ASSUME TypeOK, FocusInv, [Next]_vars PROVE FocusInv'
  OBVIOUS
<1>1. DOMAIN tree # {} => DOMAIN tree' # {}
  <2>1. CASE InsertObject
    <3>1. Words[pos] \in Addr
      BY <2>1, CurrentWord DEF InsertObject, TypeOK
    <3>2. PICK s : tree' = File(tree, s, Words[pos])
      BY <2>1 DEF InsertObject
    <3>3. tree \in [DOMAIN tree -> Entry]
      BY DEF TypeOK, TableOK
    <3>4. DOMAIN tree' = DOMAIN tree \cup {s}
      BY <3>1, <3>2, <3>3, FileType
    <3> QED BY <3>4
  <2>2. CASE FileFunction \/ EndScan
    BY <2>2 DEF FileFunction, GiveUp, FileOrSkip, EndScan
  <2> QED BY <2>1, <2>2, TableFrame
<1>2. (pc \in ScanPcs => fjsAddr = NULL)' /\ (fjsAddr # NULL => DOMAIN tree # {})'
  <2>1. CASE UNCHANGED table /\ pc' \notin ScanPcs
    <3>1. UNCHANGED fjsAddr \/ fjsAddr' = NULL
          \/ (pc = "trav" /\ \E a \in todo : fjsAddr' = a)
      <4>1. ASSUME NEW c \in Commands, Start(c) \/ StartFails(c) PROVE UNCHANGED fjsAddr
        BY <4>1, Zenon DEF Start, StartFails
      <4>2. ScanStep => UNCHANGED fjsAddr
        BY Zenon DEF ScanStep, IterFails, ScanSkip, ScanFunction, FileFunction, GiveUp, FileOrSkip, ScanArray,
           ScanObject, ReadConstructor, InsertObject, EndScan
      <4>3. AnswerStep \/ Interrupt => Quiet
        BY Zenon DEF AnswerStep, OptsError, ListRepresentatives, Match, ListLike, PrintTable,
           FunctionsError, ListClosures, PrintFunctions, Interrupt
      <4>4. Quiet => UNCHANGED fjsAddr
        BY DEF Quiet
      <4>5. StartMark \/ EndMark \/ StartReferences \/ Report \/ ReportFaults => UNCHANGED fjsAddr
        BY <4>4, Zenon DEF StartMark, EndMark, StartReferences, Report, ReportFaults, Wild
      <4>6. EndTraverse => fjsAddr' = NULL
        BY DEF EndTraverse
      <4>7. ASSUME NEW a \in todo,
                   \/ AddReferent(a) \/ AlreadyMarked(a) \/ AssertFails(a)
                   \/ Traverse(a) \/ TraverseFaults(a)
            PROVE  UNCHANGED fjsAddr \/ (pc = "trav" /\ fjsAddr' = a)
        BY <4>7, Zenon DEF AddReferent, AlreadyMarked, AssertFails, Traverse, TraverseFaults, Wild
      <4>8. UNCHANGED vars => UNCHANGED fjsAddr
        BY DEF vars
      <4> QED BY <4>1, <4>2, <4>3, <4>4, <4>5, <4>6, <4>7, <4>8, Zenon
              DEF Next, DcmdStep, ReferStep
    <3>2. ASSUME pc = "trav", NEW a \in todo PROVE DOMAIN tree # {}
      BY <3>2 DEF FocusInv, Insts
    <3> QED BY <1>1, <2>1, <3>1, <3>2 DEF FocusInv
  <2>2. ASSUME NEW c \in Commands, Start(c)
        PROVE (pc \in ScanPcs => fjsAddr = NULL)' /\ (fjsAddr # NULL => DOMAIN tree # {})'
    BY <2>2 DEF Start, MustScan, FocusInv, ScanPcs, table
  <2>3. CASE \/ ScanSkip \/ ScanFunction \/ FileFunction \/ ScanArray \/ ScanObject
             \/ ReadConstructor \/ InsertObject \/ EndScan
    <3>1. pc \in ScanPcs /\ UNCHANGED fjsAddr
      BY <2>3 DEF ScanSkip, InScan, ScanFunction, FileFunction, GiveUp, FileOrSkip, ScanArray, ScanObject,
         ReadConstructor, InsertObject, EndScan, ScanPcs
    <3> QED BY <1>1, <3>1 DEF FocusInv
  <2>4. CASE UNCHANGED vars
    BY <2>4 DEF vars, FocusInv, ScanPcs
  <2> QED BY <2>1, <2>2, <2>3, <2>4, OtherSteps
<1>3. (pc = "trav" => todo \subseteq Insts(tree))'
  <2> SUFFICES ASSUME pc' = "trav" PROVE todo' \subseteq Insts(tree)'
    OBVIOUS
  <2>1. \/ StartReferences
        \/ pc = "trav" /\ todo' \subseteq todo /\ UNCHANGED tree
    <3>1. \A c : ~Start(c)
      BY DEF Start
    <3>2. \A c : StartFails(c) => UNCHANGED <<pc, todo, tree>>
      BY DEF StartFails, table
    <3>3. ~ScanStep
      BY DEF ScanStep, IterFails, Error, Finish, ScanSkip, InScan, ScanFunction, FileFunction, GiveUp, FileOrSkip,
         ScanArray, ScanObject, ReadConstructor, InsertObject, EndScan
    <3>4. ~AnswerStep
      <4>1. AnswerStep => \E k, d : Finish(k, d)
        BY Zenon DEF AnswerStep, OptsError, ListRepresentatives, Match, ListLike, PrintTable,
           FunctionsError, ListClosures, PrintFunctions, Error
      <4> QED BY <4>1 DEF Finish
    <3>5. ~Interrupt /\ ~StartMark /\ ~EndMark /\ ~EndTraverse /\ ~Report /\ ~ReportFaults
      BY DEF Interrupt, StartMark, EndMark, EndTraverse, Report, ReportFaults, Wild, Finish
    <3>6. ASSUME NEW a \in todo,
                 \/ AddReferent(a) \/ AlreadyMarked(a) \/ AssertFails(a)
                 \/ Traverse(a) \/ TraverseFaults(a)
          PROVE  pc = "trav" /\ todo' \subseteq todo /\ UNCHANGED tree
      BY <3>6 DEF AddReferent, AlreadyMarked, AssertFails, Traverse, TraverseFaults, Wild,
         Advance, table
    <3>7. UNCHANGED vars => UNCHANGED <<pc, todo, tree>>
      BY DEF vars
    <3>8. UNCHANGED <<pc, todo, tree>> => pc = "trav" /\ todo' \subseteq todo /\ UNCHANGED tree
      OBVIOUS
    <3> QED BY <3>1, <3>2, <3>3, <3>4, <3>5, <3>6, <3>7, <3>8, Zenon DEF Next, DcmdStep, ReferStep
  <2>2. CASE StartReferences
    <3>1. InList \subseteq DOMAIN tree
      BY InstsType DEF TypeOK
    <3> QED BY <2>2, <3>1 DEF StartReferences, AllInstances, Insts, table
  <2>3. CASE pc = "trav" /\ todo' \subseteq todo /\ UNCHANGED tree
    BY <2>3 DEF FocusInv, Insts
  <2> QED BY <2>1, <2>2, <2>3
<1> QED BY <1>2, <1>3 DEF FocusInv

(* No scan is narrowed by fjs_addr.                                        *)
THEOREM ScansUnfocused == Spec => []NoFocusedScan
<1>1. Init => FocusInv
  BY DEF Init, FocusInv, ScanPcs
<1>2. FocusInv => NoFocusedScan
  BY DEF FocusInv, NoFocusedScan
<1> QED BY <1>1, <1>2, FocusStep, TypeCorrect, PTL DEF Spec
-----------------------------------------------------------------------------
(* What the table holds                                                    *)

\* the objects among the first words of a scan
Found(p, b) == {a \in Prefix(p) : IsObject(a) /\ Scanned(a, b)}

(* The table holds what the scan has found so far.                         *)
LEMMA ScanStepInv == TypeOK /\ FocusInv /\ ScanInv /\ [Next]_vars => ScanInv'
<1> SUFFICES ASSUME TypeOK, FocusInv, ScanInv, [Next]_vars PROVE ScanInv'
  OBVIOUS
<1> DEFINE w == Words[pos]
<1>0. /\ tree \in [DOMAIN tree -> Entry]
      /\ Len(Words) \in Nat /\ pos \in 1..(Len(Words) + 1)
  BY HeapAssumption DEF TypeOK, TableOK, ControlOK
<1>1. ASSUME pc \in ScanPcs, pos <= Len(Words)
      PROVE  /\ Seen(w) <=> Scanned(w, brk)
             /\ Prefix(pos + 1) = Prefix(pos) \cup {w}
             /\ w \in Addr
  BY <1>0, <1>1, PrefixStep DEF FocusInv, Seen, InFocus
<1>2. ASSUME NEW c \in Commands, Start(c) PROVE ScanInv'
  <2>1. CASE MustScan
    <3>1. Insts(tree') = {} /\ pc' = "scan" /\ pos' = 1
      BY <1>2, <2>1 DEF Start, MustScan, Insts, table
    <3>2. Prefix(1) = {}
      BY DEF Prefix
    <3> QED BY <3>1, <3>2 DEF ScanInv
  <2>2. CASE ~MustScan
    BY <1>2, <2>2 DEF Start, ScanInv, ScanPcs
  <2> QED BY <2>1, <2>2
<1>3. CASE ScanSkip \/ FileFunction
  <2>1. /\ pc \in ScanPcs /\ pos <= Len(Words) /\ pc' = "scan"
        /\ pos' = pos + 1 /\ tree' = tree /\ brk' = brk
    BY <1>3 DEF ScanSkip, InScan, FileFunction, GiveUp, FileOrSkip, TypeOK, ControlOK, table, ScanPcs
  <2>2. ~(IsObject(w) /\ Scanned(w, brk))
    <3>1. CASE ScanSkip
      BY <1>1, <2>1, <3>1 DEF ScanSkip, IsObject
    <3>2. CASE FileFunction
      BY <3>2 DEF FileFunction, GiveUp, FileOrSkip, ScanInv, IsObject
    <3> QED BY <1>3, <3>1, <3>2
  <2>3. Found(pos + 1, brk) = Found(pos, brk)
    BY <1>1, <2>1, <2>2 DEF Found
  <2>4. Insts(tree) = Found(pos, brk)
    BY <2>1 DEF ScanInv, Found
  <2>5. Insts(tree') = Found(pos', brk')
    BY <2>1, <2>3, <2>4
  <2> QED BY <2>1, <2>5 DEF ScanInv, Found
<1>4. CASE ScanFunction \/ ScanArray \/ ScanObject \/ ReadConstructor
  <2>1. pc \in ScanPcs /\ tree' = tree /\ brk' = brk /\ pos' = pos
    BY <1>4 DEF ScanFunction, ScanArray, ScanObject, ReadConstructor, InScan, table, ScanPcs
  <2>2. pc' \in {"ctor", "insert"} => IsObject(w) /\ Scanned(w, brk)
    <3>1. CASE ScanFunction
      BY <3>1 DEF ScanFunction
    <3>2. CASE ScanArray
      BY <1>1, <2>1, <3>2 DEF ScanArray, InScan, IsObject
    <3>3. CASE ScanObject
      BY <1>1, <2>1, <3>3 DEF ScanObject, InScan, IsObject
    <3>4. CASE ReadConstructor
      BY <3>4 DEF ReadConstructor, ScanInv
    <3> QED BY <1>4, <3>1, <3>2, <3>3, <3>4
  <2>3. pc' = "func" => Heap[w].kind = "function"
    BY <1>4 DEF ScanFunction, ScanArray, ScanObject, ReadConstructor
  <2> QED BY <2>1, <2>2, <2>3 DEF ScanInv
<1>5. CASE InsertObject
  <2>1. /\ pc = "insert" /\ pc' = "scan" /\ pos' = pos + 1 /\ brk' = brk
        /\ tree' = File(tree, Signature(w), w)
    BY <1>5 DEF InsertObject
  <2>2. pc \in ScanPcs /\ pos <= Len(Words)
    BY <2>1 DEF TypeOK, ControlOK, ScanPcs
  <2>3. Insts(tree') = Insts(tree) \cup {w}
    BY <1>0, <1>1, <2>1, <2>2, FileInsts
  <2>4. IsObject(w) /\ Scanned(w, brk)
    BY <2>1 DEF ScanInv
  <2>5. Found(pos + 1, brk) = Found(pos, brk) \cup {w}
    BY <1>1, <2>2, <2>4 DEF Found
  <2>6. Insts(tree) = Found(pos, brk)
    BY <2>2 DEF ScanInv, Found
  <2>7. Insts(tree') = Found(pos', brk')
    BY <2>1, <2>3, <2>5, <2>6
  <2> QED BY <2>1, <2>7 DEF ScanInv, Found
<1>6. CASE EndScan
  BY <1>6 DEF EndScan, ScanInv, ScanPcs
<1>7. CASE pc' \notin ScanPcs
  BY <1>7 DEF ScanInv, ScanPcs
<1>8. CASE UNCHANGED vars
  BY <1>8 DEF vars, ScanInv, Insts
<1> QED BY <1>2, <1>3, <1>4, <1>5, <1>6, <1>7, <1>8, OtherSteps

\* sound groups that are finite, so that their count can be their cardinality
TableInv == TableSound /\ \A s \in DOMAIN tree : IsFiniteSet(tree[s].insts)

(* Filing an object keeps the groups sound: it is a word of the scan that  *)
(* was not in the table.                                                   *)
LEMMA TableStepInv ==
    TypeOK /\ ScanInv /\ TableInv /\ [Next]_vars => TableInv'
<1> SUFFICES ASSUME TypeOK, ScanInv, TableInv, [Next]_vars PROVE TableInv'
  OBVIOUS
<1>1. CASE UNCHANGED <<tree, list, funcs>> \/ FileFunction \/ EndScan
  BY <1>1 DEF FileFunction, GiveUp, FileOrSkip, EndScan, TableInv, TableSound
<1>2. CASE InsertObject
  <2> DEFINE w == Words[pos]
             k == Signature(w)
  <2>1. pc = "insert" /\ tree' = File(tree, k, w)
    BY <1>2 DEF InsertObject
  <2>2. pos \in 1..Len(Words)
    BY <2>1, HeapAssumption DEF TypeOK, ControlOK
  <2>3. w \in Addr /\ IsObject(w) /\ w \notin Insts(tree)
    BY <2>1, <2>2, PrefixStep DEF ScanInv, ScanPcs
  <2>4. tree \in [DOMAIN tree -> Entry]
    BY DEF TypeOK, TableOK
  <2> HIDE DEF w
  <2>5. DOMAIN tree' = DOMAIN tree \cup {k} /\ Signature(w) = k
    BY <2>1, <2>3, <2>4, FileType
  <2> HIDE DEF k
  <2>6. ASSUME NEW s \in DOMAIN tree', s # k
        PROVE  s \in DOMAIN tree /\ tree'[s] = tree[s]
    BY <2>1, <2>5, <2>6 DEF File
  <2>7. /\ tree'[k].rep \in tree'[k].insts
        /\ tree'[k].n = Cardinality(tree'[k].insts)
        /\ IsFiniteSet(tree'[k].insts)
        /\ \A a \in tree'[k].insts : IsObject(a) /\ Signature(a) = k
    <3>1. CASE k \in DOMAIN tree
      <4>1. tree[k] \in Entry
        BY <2>4, <3>1
      <4>2. tree'[k] = [rep |-> tree[k].rep, insts |-> tree[k].insts \cup {w},
                        n |-> tree[k].n + 1]
        BY <2>1, <3>1 DEF File
      <4>3. w \notin tree[k].insts
        BY <2>3, <3>1 DEF Insts
      <4>4. /\ IsFiniteSet(tree[k].insts)
            /\ tree[k].rep \in tree[k].insts
            /\ tree[k].n = Cardinality(tree[k].insts)
            /\ \A a \in tree[k].insts : IsObject(a) /\ Signature(a) = k
        BY <3>1 DEF TableInv, TableSound
      <4>5. /\ IsFiniteSet(tree[k].insts \cup {w})
            /\ Cardinality(tree[k].insts \cup {w}) = Cardinality(tree[k].insts) + 1
        BY <4>3, <4>4, FS_AddElement
      <4> QED BY <2>3, <2>5, <4>2, <4>4, <4>5
    <3>2. CASE k \notin DOMAIN tree
      <4>1. tree'[k] = [rep |-> w, insts |-> {w}, n |-> 1]
        BY <2>1, <2>5, <3>2 DEF File, NewEntry
      <4>2. IsFiniteSet({w}) /\ Cardinality({w}) = 1
        BY FS_Singleton
      <4>3. tree'[k].rep = w /\ tree'[k].insts = {w} /\ tree'[k].n = 1
        BY <4>1
      <4> QED BY <2>3, <2>5, <4>2, <4>3
    <3> QED BY <3>1, <3>2
  <2>8. ASSUME NEW s \in DOMAIN tree'
        PROVE  /\ tree'[s].rep \in tree'[s].insts
               /\ tree'[s].n = Cardinality(tree'[s].insts)
               /\ IsFiniteSet(tree'[s].insts)
               /\ \A a \in tree'[s].insts : IsObject(a) /\ Signature(a) = s
    BY <2>6, <2>7 DEF TableInv, TableSound
  <2> QED BY <2>8 DEF TableInv, TableSound
<1> QED BY <1>1, <1>2, TableFrame

(* #OBJECTS counts each object once, among those of its own signature.     *)
THEOREM GroupsSound == Spec => []TableSound
<1>1. Init => FocusInv /\ ScanInv /\ TableInv
  BY DEF Init, FocusInv, ScanInv, ScanPcs, TableInv, TableSound, NoMap
<1>2. TableInv => TableSound
  BY DEF TableInv
<1> QED BY <1>1, <1>2, FocusStep, ScanStepInv, TableStepInv, TypeCorrect, PTL DEF Spec

(* The list has the nodes of the tree, each once, and keeps them when it   *)
(* is rearranged.                                                          *)
LEMMA ListStepInv == TypeOK /\ ListIsTree /\ [Next]_vars => ListIsTree'
<1> SUFFICES ASSUME TypeOK, ListIsTree, [Next]_vars PROVE ListIsTree'
  OBVIOUS
<1>0. /\ list \in Seq(DOMAIN tree) /\ tree \in [DOMAIN tree -> Entry]
      /\ Len(list) \in Nat /\ DOMAIN list = 1..Len(list)
  BY DEF TypeOK, TableOK
<1>1. CASE UNCHANGED <<tree, list, funcs>> \/ FileFunction
  BY <1>1 DEF FileFunction, GiveUp, FileOrSkip, ListIsTree, InList
<1>2. CASE EndScan
  <2>1. tree' = tree /\ list' \in Rearrangements(list)
    BY <1>2 DEF EndScan
  <2>3. PICK p \in [DOMAIN list -> DOMAIN list] :
              /\ \A i \in DOMAIN list : \E j \in DOMAIN list : p[j] = i
              /\ list' = [i \in DOMAIN list |-> list[p[i]]]
    BY <2>1 DEF Rearrangements
  <2>2. InList' = InList /\ DOMAIN list' = DOMAIN list
    <3>1. DOMAIN list' = DOMAIN list /\ \A i \in DOMAIN list : list'[i] = list[p[i]]
      BY <2>3
    <3>2. \A x : x \in InList' => x \in InList
      BY <2>3, <3>1 DEF InList
    <3>3. \A x : x \in InList => x \in InList'
      BY <2>3, <3>1 DEF InList
    <3> QED BY <3>1, <3>2, <3>3
  <2>4. \A i, j \in DOMAIN list : p[i] = p[j] => i = j
    <3>1. IsFiniteSet(DOMAIN list)
      <4>1. IsFiniteSet(1..Len(list))
        <5>1. 1 \in Int /\ Len(list) \in Int
          BY <1>0
        <5> QED BY <5>1, FS_Interval
      <4> QED BY <1>0, <4>1
    <3>2. p \in Surjection(DOMAIN list, DOMAIN list)
      BY <2>3 DEF Surjection
    <3>3. p \in Injection(DOMAIN list, DOMAIN list)
      BY <3>1, <3>2, FS_SurjSameCardinalityImpliesInj
    <3> QED BY <3>3 DEF Injection, IsInjective
  <2>5. \A i, j \in DOMAIN list' : list'[i] = list'[j] => i = j
    BY <2>2, <2>3, <2>4 DEF ListIsTree
  <2> QED BY <2>1, <2>2, <2>5 DEF ListIsTree
<1>3. CASE InsertObject
  <2> DEFINE s == Signature(Words[pos])
  <2>1. Words[pos] \in Addr
    BY <1>3, CurrentWord DEF InsertObject, TypeOK
  <2>2. /\ tree' = File(tree, s, Words[pos])
        /\ list' = IF s \in DOMAIN tree THEN list ELSE <<s>> \o list
    BY <1>3 DEF InsertObject
  <2> HIDE DEF s
  <2>3. DOMAIN tree' = DOMAIN tree \cup {s}
    BY <1>0, <2>1, <2>2, FileType
  <2>4. CASE s \in DOMAIN tree
    BY <2>2, <2>3, <2>4 DEF ListIsTree, InList
  <2>5. CASE s \notin DOMAIN tree
    <3>1. /\ DOMAIN list' = 1..(Len(list) + 1)
          /\ list'[1] = s
          /\ \A i \in 1..Len(list) : list'[i + 1] = list[i]
      <4>1. list \in Seq(DOMAIN tree \cup {s}) /\ list' = <<s>> \o list
        BY <1>0, <2>2, <2>5
      <4> QED BY <4>1
    <3>2. \A i \in 2..(Len(list) + 1) : i - 1 \in 1..Len(list) /\ list'[i] = list[i - 1]
      <4>1. \A i \in 2..(Len(list) + 1) : i - 1 \in 1..Len(list) /\ (i - 1) + 1 = i
        BY <1>0
      <4> QED BY <3>1, <4>1
    <3>3. \A x : x \in InList' <=> x = s \/ x \in InList
      <4>1. \A x : x \in InList' <=> \E i \in 1..(Len(list) + 1) : x = list'[i]
        BY <3>1 DEF InList
      <4>2. \A x : x \in InList <=> \E i \in 1..Len(list) : x = list[i]
        BY <1>0 DEF InList
      <4>3. ASSUME NEW x PROVE x \in InList' => x = s \/ x \in InList
        <5>1. \A i \in 1..(Len(list) + 1) : i = 1 \/ i \in 2..(Len(list) + 1)
          BY <1>0
        <5> QED BY <3>1, <3>2, <4>1, <4>2, <5>1
      <4>4. ASSUME NEW x PROVE x = s \/ x \in InList => x \in InList'
        <5>1. \A i \in 1..Len(list) : i + 1 \in 1..(Len(list) + 1)
          BY <1>0
        <5>2. 1 \in 1..(Len(list) + 1)
          BY <1>0
        <5> QED BY <3>1, <4>1, <4>2, <5>1, <5>2
      <4> QED BY <4>3, <4>4
    <3>4. InList' = DOMAIN tree'
      BY <2>3, <3>3 DEF ListIsTree
    <3>5. ASSUME NEW i \in DOMAIN list', NEW j \in DOMAIN list', list'[i] = list'[j]
          PROVE  i = j
      <4>1. \A m \in 1..Len(list) : list[m] # s
        BY <1>0, <2>5
      <4>2. i \in 1..(Len(list) + 1) /\ j \in 1..(Len(list) + 1)
        BY <3>1
      <4>3. CASE i = 1
        BY <1>0, <3>1, <3>2, <3>5, <4>1, <4>2, <4>3
      <4>4. CASE j = 1
        BY <1>0, <3>1, <3>2, <3>5, <4>1, <4>2, <4>4
      <4>5. CASE i # 1 /\ j # 1
        <5>1. i \in 2..(Len(list) + 1) /\ j \in 2..(Len(list) + 1)
          BY <1>0, <4>2, <4>5
        <5>2. list[i - 1] = list[j - 1] /\ i - 1 \in DOMAIN list /\ j - 1 \in DOMAIN list
          BY <1>0, <3>2, <3>5, <5>1
        <5>3. i - 1 = j - 1
          BY <5>2 DEF ListIsTree
        <5> QED BY <4>2, <5>3
      <4> QED BY <4>3, <4>4, <4>5
    <3> QED BY <3>4, <3>5 DEF ListIsTree
  <2> QED BY <2>4, <2>5
<1> QED BY <1>1, <1>2, <1>3, TableFrame

(* A walk along fjs_objects meets every group of the tree once.            *)
THEOREM ListComplete == Spec => []ListIsTree
<1>1. Init => ListIsTree
  BY DEF Init, ListIsTree, InList, NoMap
<1> QED BY <1>1, ListStepInv, TypeCorrect, PTL DEF Spec
-----------------------------------------------------------------------------
(* Complete answers                                                        *)

(* A target with an object outside the brk heap is scanned once: the cache *)
(* is finished when, and only when, it holds all that a scan finds.        *)
LEMMA CompleteStep ==
    ASSUME AnonObjects
    PROVE  TypeOK /\ ScanInv /\ CompleteInv /\ [Next]_vars => CompleteInv'
<1> SUFFICES ASSUME TypeOK, ScanInv, CompleteInv, [Next]_vars PROVE CompleteInv'
  OBVIOUS
<1>1. \A b \in BOOLEAN : ScanObjects(b) # {}
  BY AnonObjects DEF AnonObjects, ScanObjects, Scanned
<1>2. finished => DOMAIN tree # {}
  BY <1>1 DEF CompleteInv, Insts
<1>3. (finished => \E b \in BOOLEAN : Insts(tree) = ScanObjects(b))'
  <2>1. CASE EndScan
    <3>1. Insts(tree) = Found(pos, brk) /\ pos = Len(Words) + 1
      BY <2>1, HeapAssumption DEF EndScan, ScanInv, ScanPcs, Found, TypeOK, ControlOK
    <3>2. Prefix(Len(Words) + 1) = WordSet
      <4>1. Len(Words) \in Nat /\ DOMAIN Words = 1..Len(Words) /\ Len(Words) + 1 - 1 = Len(Words)
        BY HeapAssumption
      <4> QED BY <4>1 DEF Prefix, WordSet
    <3>3. Insts(tree) = ScanObjects(brk)
      BY <3>1, <3>2 DEF Found, ScanObjects
    <3>4. tree' = tree
      BY <2>1 DEF EndScan
    <3>5. brk \in BOOLEAN
      BY DEF TypeOK, FlagsOK
    <3> QED BY <3>3, <3>4, <3>5
  <2>2. CASE InsertObject \/ FileFunction
    <3>1. ~finished'
      BY <2>2 DEF InsertObject, FileFunction, GiveUp, FileOrSkip, CompleteInv, ScanPcs
    <3> QED BY <3>1
  <2>3. CASE UNCHANGED <<tree, list, funcs>> /\ ~EndScan
    <3>1. finished' => finished
      <4>1. \A c : Start(c) => finished' = finished
        BY DEF Start, table
      <4>2. ScanSkip \/ ScanFunction \/ FileFunction \/ ScanArray \/ ScanObject
            \/ ReadConstructor \/ InsertObject => finished' = finished
        BY DEF ScanSkip, ScanFunction, FileFunction, GiveUp, FileOrSkip, ScanArray, ScanObject,
           ReadConstructor, InsertObject, table
      <4>3. UNCHANGED table \/ UNCHANGED vars => finished' = finished
        BY DEF table, vars
      <4> QED BY <2>3, <4>1, <4>2, <4>3, OtherSteps, Zenon
    <3> QED BY <2>3, <3>1 DEF CompleteInv
  <2> QED BY <2>1, <2>2, <2>3, TableFrame, Zenon
<1>4. (pc \in ScanPcs => ~finished)'
  <2>1. ASSUME NEW c \in Commands, Start(c) PROVE (pc \in ScanPcs => ~finished)'
    BY <1>2, <2>1 DEF Start, MustScan, table, ScanPcs
  <2>2. CASE ScanSkip \/ ScanFunction \/ FileFunction \/ ScanArray \/ ScanObject
             \/ ReadConstructor \/ InsertObject
    <3>1. pc \in ScanPcs /\ finished' = finished
      BY <2>2 DEF ScanSkip, InScan, ScanFunction, FileFunction, GiveUp, FileOrSkip, ScanArray, ScanObject,
         ReadConstructor, InsertObject, table, ScanPcs
    <3> QED BY <3>1 DEF CompleteInv
  <2>3. CASE EndScan \/ pc' \notin ScanPcs
    BY <2>3 DEF EndScan, ScanPcs
  <2>4. CASE UNCHANGED vars
    BY <2>4 DEF vars, CompleteInv, ScanPcs
  <2> QED BY <2>1, <2>2, <2>3, <2>4, OtherSteps
<1>5. (pc \in {"mark", "trav", "report"} => finished)'
  <2> SUFFICES ASSUME pc' \in {"mark", "trav", "report"} PROVE finished'
    OBVIOUS
  <2>1. ~(pc' \in {"idle", "opts", "abort", "fault"} \cup ScanPcs)
    BY DEF ScanPcs
  <2>2. finished /\ UNCHANGED table
    <3>1. UNCHANGED table \/ UNCHANGED vars
      <4>1. \A c : ~Start(c)
        BY <2>1 DEF Start
      <4>2. ~(ScanSkip \/ ScanFunction \/ FileFunction \/ ScanArray \/ ScanObject
             \/ ReadConstructor \/ InsertObject \/ EndScan)
        BY <2>1 DEF ScanSkip, InScan, ScanFunction, FileFunction, GiveUp, FileOrSkip, ScanArray, ScanObject,
           ReadConstructor, InsertObject, EndScan, ScanPcs
      <4> QED BY <4>1, <4>2, OtherSteps, Zenon
    <3>2. \/ StartMark \/ StartReferences \/ pc \in {"mark", "trav", "report"}
      <4>1. \A c : ~Start(c) /\ (StartFails(c) => pc' = pc)
        BY <2>1 DEF Start, StartFails
      <4>2. ~ScanStep
        BY <2>1 DEF ScanStep, IterFails, Error, Finish, ScanSkip, InScan, ScanFunction,
           FileFunction, GiveUp, FileOrSkip, ScanArray, ScanObject, ReadConstructor, InsertObject, EndScan, ScanPcs
      <4>3. ~AnswerStep
        <5>1. AnswerStep => \E k, d : Finish(k, d)
          BY Zenon DEF AnswerStep, OptsError, ListRepresentatives, Match, ListLike, PrintTable,
             FunctionsError, ListClosures, PrintFunctions, Error
        <5> QED BY <2>1, <5>1 DEF Finish
      <4>4. ~Interrupt /\ ~EndMark /\ ~Report /\ ~ReportFaults
        BY <2>1 DEF Interrupt, EndMark, Report, ReportFaults, Wild, Finish
      <4>5. EndTraverse => pc = "trav"
        BY DEF EndTraverse
      <4>6. \A a : \/ AddReferent(a) \/ AlreadyMarked(a) \/ AssertFails(a)
                   \/ Traverse(a) \/ TraverseFaults(a)
                   => pc \in {"mark", "trav", "report"}
        BY DEF AddReferent, AlreadyMarked, AssertFails, Traverse, TraverseFaults
      <4>7. UNCHANGED vars => pc' = pc
        BY DEF vars
      <4>8. pc' = pc => pc \in {"mark", "trav", "report"}
        OBVIOUS
      <4>9. EndTraverse => pc \in {"mark", "trav", "report"}
        BY <4>5
      <4> QED BY <4>1, <4>2, <4>3, <4>4, <4>6, <4>7, <4>8, <4>9, Zenon
              DEF Next, DcmdStep, ReferStep
    <3>3. StartMark \/ StartReferences => finished \/ pc \in {"mark", "trav", "report"}
      BY DEF StartMark, StartReferences, BadOptions, Incomplete
    <3>4. UNCHANGED vars => UNCHANGED table
      BY DEF vars, table
    <3> QED BY <3>1, <3>2, <3>3, <3>4 DEF CompleteInv
  <2> QED BY <2>2 DEF table
<1> QED BY <1>3, <1>4, <1>5 DEF CompleteInv

(* Issue #91 in CHANGES.md: whatever is interrupted and whenever, a dcmd   *)
(* that goes on to answer has all objects of the target in its table -- if *)
(* the target has an object outside the brk heap.                          *)
THEOREM CompleteAnswers == ASSUME AnonObjects PROVE Spec => []AnswersComplete
<1>1. Init => FocusInv /\ ScanInv /\ CompleteInv
  BY DEF Init, FocusInv, ScanInv, CompleteInv, ScanPcs
<1>2. CompleteInv => AnswersComplete
  BY DEF CompleteInv, AnswersComplete, Answering, BadOptions, BadFunctions, Incomplete
<1>3. TypeOK /\ ScanInv /\ CompleteInv /\ [Next]_vars => CompleteInv'
  BY CompleteStep
<1> QED BY <1>1, <1>2, <1>3, FocusStep, ScanStepInv, TypeCorrect, PTL DEF Spec

(* "Once run, subsequent calls to ::findjsobjects use cached data."        *)
THEOREM CacheStays == ASSUME AnonObjects PROVE Spec => CacheKept
<1>1. Init => FocusInv /\ ScanInv /\ CompleteInv
  BY DEF Init, FocusInv, ScanInv, CompleteInv, ScanPcs
<1>2. TypeOK /\ CompleteInv /\ [Next]_vars => [finished /\ DOMAIN tree # {} => UNCHANGED table]_vars
  <2> SUFFICES ASSUME CompleteInv, [Next]_vars, finished PROVE UNCHANGED table
    OBVIOUS
  <2>1. pc \notin ScanPcs
    BY DEF CompleteInv
  <2>2. ~(ScanSkip \/ ScanFunction \/ FileFunction \/ ScanArray \/ ScanObject
          \/ ReadConstructor \/ InsertObject \/ EndScan)
    BY <2>1 DEF ScanSkip, InScan, ScanFunction, FileFunction, GiveUp, FileOrSkip, ScanArray, ScanObject,
       ReadConstructor, InsertObject, EndScan, ScanPcs
  <2>3. \A c : Start(c) => UNCHANGED table
    BY DEF Start
  <2>4. UNCHANGED vars => UNCHANGED table
    BY DEF vars, table
  <2> QED BY <2>2, <2>3, <2>4, OtherSteps, Zenon
<1>3. TypeOK /\ ScanInv /\ CompleteInv /\ [Next]_vars => CompleteInv'
  BY CompleteStep
<1> QED BY <1>1, <1>2, <1>3, FocusStep, ScanStepInv, TypeCorrect, PTL DEF Spec, CacheKept
-----------------------------------------------------------------------------
(* Marks                                                                   *)

(* An object stays marked until a -r has reported on it, wherever the      *)
(* dcmds in between fail or are interrupted (fjs_referents is static).     *)
THEOREM MarksStay == Spec => MarksKept
<1>1. [Next]_vars =>
         [\A t \in DOMAIN referents :
             t \notin DOMAIN referents' => \E l \in out'.data : out'.kind = "refs" /\ l.to = t]_vars
  <2> SUFFICES ASSUME [Next]_vars, NEW t \in DOMAIN referents, t \notin DOMAIN referents'
               PROVE  \E l \in out'.data : out'.kind = "refs" /\ l.to = t
    OBVIOUS
  <2>1. ~UNCHANGED referents
    OBVIOUS
  <2>2. referents' # Release(referents)
    BY DEF Release
  <2>3. ASSUME NEW c \in Commands, Start(c) \/ StartFails(c) PROVE FALSE
    BY <2>1, <2>3, Zenon DEF Start, StartFails
  <2>4. ~ScanStep
    BY <2>1, <2>2, Zenon DEF ScanStep, IterFails, ScanSkip, ScanFunction, FileFunction, GiveUp, FileOrSkip,
       ScanArray, ScanObject, ReadConstructor, InsertObject, EndScan
  <2>5. ~AnswerStep /\ ~Interrupt
    <3>1. AnswerStep \/ Interrupt => Quiet
      BY Zenon DEF AnswerStep, OptsError, ListRepresentatives, Match, ListLike, PrintTable,
         FunctionsError, ListClosures, PrintFunctions, Interrupt
    <3> QED BY <2>2, <3>1 DEF Quiet
  <2>6. ~(StartMark \/ EndMark \/ StartReferences \/ EndTraverse \/ ReportFaults)
    BY <2>1, <2>2, Zenon DEF StartMark, EndMark, StartReferences, EndTraverse, ReportFaults,
       Wild, Quiet
  <2>7. ASSUME NEW a \in todo,
               \/ AddReferent(a) \/ AlreadyMarked(a) \/ AssertFails(a)
               \/ Traverse(a) \/ TraverseFaults(a)
        PROVE  FALSE
    <3>1. AddReferent(a) \/ Traverse(a)
      BY <2>1, <2>7, Zenon DEF AlreadyMarked, AssertFails, TraverseFaults, Wild
    <3>2. DOMAIN referents \subseteq DOMAIN referents'
      BY <3>1 DEF AddReferent, Traverse
    <3> QED BY <3>2
  <2>8. Report
    <3>1. ~UNCHANGED vars
      BY <2>1 DEF vars
    <3> QED BY <2>3, <2>4, <2>5, <2>6, <2>7, <3>1, Zenon DEF Next, DcmdStep, ReferStep
  <2> DEFINE l == [to |-> t, refs |-> referents[t].refs, n |-> referents[t].n]
  <2>9. out'.kind = "refs" /\ l \in out'.data /\ l.to = t
    BY <2>8 DEF Report, Finish
  <2> QED BY <2>9
<1> QED BY <1>1, PTL DEF Spec, MarksKept

(* A session whose dcmds are never interrupted while they scan or follow   *)
(* references: nothing that a referent points to has been freed, and one   *)
(* that waits for a -r has no references yet.                              *)
CalmSession == IntrAt \subseteq {"opts", "mark"}

MarksInv ==
    /\ \A t \in DOMAIN referents : ~referents[t].freed
    /\ pc \notin {"trav", "report"} =>
          \A t \in DOMAIN referents : referents[t].refs = {} /\ referents[t].n = 0

LEMMA MarksStep == ASSUME CalmSession PROVE TypeOK /\ MarksInv /\ [Next]_vars => MarksInv'
<1> SUFFICES ASSUME TypeOK, MarksInv, [Next]_vars PROVE MarksInv'
  OBVIOUS
<1>1. ASSUME UNCHANGED referents, pc \notin {"trav", "report"} \/ pc' \in {"trav", "report"}
      PROVE  MarksInv'
  BY <1>1 DEF MarksInv
<1>2. ASSUME referents' = Release(referents), pc \notin {"trav", "report"} PROVE MarksInv'
  <2>1. \A t \in DOMAIN referents : /\ referents[t] \in Referent
                                    /\ ~(referents[t].n > 0)
                                    /\ ~referents[t].freed
                                    /\ referents[t].refs = {} /\ referents[t].n = 0
    BY <1>2 DEF MarksInv, TypeOK, ReferOK
  <2>2. DOMAIN referents' = DOMAIN referents
    BY <1>2 DEF Release
  <2>3. ASSUME NEW t \in DOMAIN referents
        PROVE  ~referents'[t].freed /\ referents'[t].refs = {} /\ referents'[t].n = 0
    <3>1. referents'[t] = [referents[t] EXCEPT !.freed = @ \/ referents[t].n > 0]
      BY <1>2 DEF Release
    <3> QED BY <2>1, <3>1 DEF Referent
  <2> QED BY <2>2, <2>3 DEF MarksInv
<1>3. ASSUME NEW c \in Commands, Start(c) \/ StartFails(c) PROVE MarksInv'
  <2>1. UNCHANGED referents /\ pc = "idle"
    BY <1>3, Zenon DEF Start, StartFails
  <2> QED BY <1>1, <2>1
<1>4. CASE ScanStep
  <2>1. pc \notin {"trav", "report"}
    BY <1>4 DEF ScanStep, IterFails, ScanSkip, InScan, ScanFunction, FileFunction, GiveUp, FileOrSkip, ScanArray,
       ScanObject, ReadConstructor, InsertObject, EndScan
  <2>2. UNCHANGED referents \/ referents' = Release(referents)
    BY <1>4, Zenon DEF ScanStep, IterFails, ScanSkip, ScanFunction, FileFunction, GiveUp, FileOrSkip, ScanArray,
       ScanObject, ReadConstructor, InsertObject, EndScan
  <2> QED BY <1>1, <1>2, <2>1, <2>2
<1>5. CASE AnswerStep
  <2>1. Quiet /\ pc = "opts"
    BY <1>5, Zenon DEF AnswerStep, OptsError, ListRepresentatives, Match, ListLike, PrintTable,
       FunctionsError, ListClosures, PrintFunctions, Finder, Functions, Work
  <2> QED BY <1>2, <2>1 DEF Quiet
<1>6. CASE Interrupt
  <2>1. Quiet /\ pc \in {"opts", "mark"}
    BY <1>6 DEF Interrupt, CalmSession
  <2> QED BY <1>2, <2>1 DEF Quiet
<1>7. CASE StartMark \/ EndMark \/ StartReferences
  <2>1. pc \in {"opts", "mark"}
    BY <1>7 DEF StartMark, EndMark, StartReferences, Work, Finder
  <2>2. UNCHANGED referents \/ referents' = Release(referents)
    BY <1>7, Zenon DEF StartMark, EndMark, StartReferences, Quiet
  <2> QED BY <1>1, <1>2, <2>1, <2>2
<1>8. CASE EndTraverse \/ ReportFaults
  <2>1. ~ReportFaults
    BY DEF ReportFaults, MarksInv
  <2> QED BY <1>1, <1>8, <2>1 DEF EndTraverse
<1>9. CASE Report
  BY <1>9 DEF Report, Finish, NoMap, MarksInv
<1>10. ASSUME NEW a \in todo, AddReferent(a) PROVE MarksInv'
  <2> DEFINE new == [refs |-> {}, n |-> 0, freed |-> FALSE]
  <2>1. /\ pc = "mark" /\ pc' = pc
        /\ referents' = [t \in DOMAIN referents \cup {a} |-> IF t = a THEN new ELSE referents[t]]
    BY <1>10 DEF AddReferent
  <2>2. new.refs = {} /\ new.n = 0 /\ new.freed = FALSE
    OBVIOUS
  <2> HIDE DEF new
  <2> QED BY <2>1, <2>2 DEF MarksInv
<1>11. ASSUME NEW a \in todo, AlreadyMarked(a) \/ AssertFails(a) PROVE MarksInv'
  <2>1. UNCHANGED referents /\ pc = "mark"
    BY <1>11, Zenon DEF AlreadyMarked, AssertFails
  <2> QED BY <1>1, <2>1
<1>12. ASSUME NEW a \in todo, Traverse(a) PROVE MarksInv'
  BY <1>12 DEF Traverse, MarksInv
<1>13. ASSUME NEW a \in todo, TraverseFaults(a) PROVE FALSE
  BY <1>13 DEF TraverseFaults, TouchesFreed, MarksInv
<1>14. CASE UNCHANGED vars
  <2>1. UNCHANGED referents /\ UNCHANGED pc
    BY <1>14 DEF vars
  <2> QED BY <1>1, <2>1
<1> QED BY <1>3, <1>4, <1>5, <1>6, <1>7, <1>8, <1>9, <1>10, <1>11, <1>12, <1>13, <1>14
        DEF Next, DcmdStep, ReferStep

LEMMA SilentStep ==
    ASSUME CalmSession
    PROVE  MarksInv /\ SilentBalanced /\ [Next]_vars => SilentBalanced'
<1> SUFFICES ASSUME MarksInv, SilentBalanced, [Next]_vars PROVE SilentBalanced'
  OBVIOUS
<1> USE DEF SilentBalanced, Level
<1>1. ASSUME NEW c \in Commands, Start(c) PROVE SilentBalanced'
  BY <1>1 DEF Start, Mute
<1>2. ASSUME NEW c \in Commands, StartFails(c) PROVE SilentBalanced'
  BY <1>2 DEF StartFails
<1>3. CASE ScanStep
  <2>1. CASE IterFails
    BY <2>1 DEF IterFails, Unmute, Error, Finish
  <2>2. CASE ScanSkip \/ ScanArray \/ InsertObject
    BY <2>2 DEF ScanSkip, ScanArray, InsertObject, InScan
  <2>3. CASE ScanFunction \/ ScanObject
    BY <2>3 DEF ScanFunction, ScanObject, InScan, Mute
  <2>4. CASE FileFunction \/ ReadConstructor \/ EndScan
    BY <2>4 DEF FileFunction, GiveUp, FileOrSkip, ReadConstructor, EndScan, Unmute
  <2> QED BY <1>3, <2>1, <2>2, <2>3, <2>4 DEF ScanStep
<1>4. CASE AnswerStep
  <2>1. \E k, d : Finish(k, d)
    BY <1>4, Zenon DEF AnswerStep, OptsError, ListRepresentatives, Match, ListLike, PrintTable,
       FunctionsError, ListClosures, PrintFunctions, Error
  <2>2. Quiet /\ pc = "opts"
    BY <1>4, Zenon DEF AnswerStep, OptsError, ListRepresentatives, Match, ListLike, PrintTable,
       FunctionsError, ListClosures, PrintFunctions, Finder, Functions, Work
  <2> QED BY <2>1, <2>2 DEF Finish, Quiet
<1>5. CASE Interrupt
  <2>1. pc \in {"opts", "mark"} /\ pc' = "idle" /\ silent' = silent
    BY <1>5 DEF Interrupt, CalmSession, Finish, Quiet
  <2> QED BY <2>1
<1>6. CASE StartMark \/ EndMark \/ StartReferences \/ EndTraverse \/ Report
  BY <1>6 DEF StartMark, EndMark, StartReferences, EndTraverse, Report, Finish, Quiet, Work,
     Finder, Mute, Unmute
<1>7. ~ReportFaults
  BY DEF ReportFaults, MarksInv
<1>8. ASSUME NEW a \in todo,
             \/ AddReferent(a) \/ AlreadyMarked(a) \/ AssertFails(a)
             \/ Traverse(a) \/ TraverseFaults(a)
      PROVE  SilentBalanced'
  <2>1. ~TraverseFaults(a)
    BY DEF TraverseFaults, TouchesFreed, MarksInv
  <2> QED BY <1>8, <2>1 DEF AddReferent, AlreadyMarked, AssertFails, Traverse
<1>9. CASE UNCHANGED vars
  BY <1>9 DEF vars
<1> QED BY <1>1, <1>2, <1>3, <1>4, <1>5, <1>6, <1>7, <1>8, <1>9 DEF Next, DcmdStep, ReferStep

LEMMA MarksAlways == ASSUME CalmSession PROVE Spec => []MarksInv
<1>1. Init => MarksInv
  BY DEF Init, MarksInv, NoMap
<1>2. TypeOK /\ MarksInv /\ [Next]_vars => MarksInv'
  BY MarksStep
<1> QED BY <1>1, <1>2, TypeCorrect, PTL DEF Spec

(* On every path through the dcmds, errors included, v8_silent goes down   *)
(* as often as up -- if no interrupt falls between the two.                *)
THEOREM SilenceEnds == ASSUME CalmSession PROVE Spec => []SilentBalanced
<1>1. Init => SilentBalanced
  BY DEF Init, SilentBalanced, Level
<1>2. MarksInv /\ SilentBalanced /\ [Next]_vars => SilentBalanced'
  BY SilentStep
<1>3. Spec => []MarksInv
  BY MarksAlways
<1> QED BY <1>1, <1>2, <1>3, PTL DEF Spec
-----------------------------------------------------------------------------
(* What the table of closures holds                                        *)

Counted(t) ==
    \A k \in DOMAIN t : /\ t[k].rep \in t[k].insts
                        /\ IsFiniteSet(t[k].insts)
                        /\ t[k].n = Cardinality(t[k].insts)

(* Filing an address that is not in a table yet counts it.                 *)
LEMMA FileCounted ==
    ASSUME NEW t, NEW key, NEW a \in Addr, t \in [DOMAIN t -> Entry],
           Counted(t), a \notin Insts(t)
    PROVE  /\ Counted(File(t, key, a))
           /\ \A k \in DOMAIN File(t, key, a) : \A x \in File(t, key, a)[k].insts :
                 (k \in DOMAIN t /\ x \in t[k].insts) \/ (k = key /\ x = a)
<1> DEFINE t2 == File(t, key, a)
<1>1. DOMAIN t2 = DOMAIN t \cup {key}
  BY FileType
<1>2. ASSUME NEW k \in DOMAIN t2, k # key PROVE k \in DOMAIN t /\ t2[k] = t[k]
  BY <1>1, <1>2 DEF File
<1>3. CASE key \in DOMAIN t
  <2>1. t[key] \in Entry /\ a \notin t[key].insts
    BY <1>3 DEF Insts
  <2>2. t2[key] = [rep |-> t[key].rep, insts |-> t[key].insts \cup {a}, n |-> t[key].n + 1]
    BY <1>3 DEF File
  <2>3. /\ IsFiniteSet(t[key].insts) /\ t[key].rep \in t[key].insts
        /\ t[key].n = Cardinality(t[key].insts)
    BY <1>3 DEF Counted
  <2>4. /\ IsFiniteSet(t[key].insts \cup {a})
        /\ Cardinality(t[key].insts \cup {a}) = Cardinality(t[key].insts) + 1
    BY <2>1, <2>3, FS_AddElement
  <2>5. /\ t2[key].rep = t[key].rep /\ t2[key].insts = t[key].insts \cup {a}
        /\ t2[key].n = t[key].n + 1
    BY <2>2
  <2> HIDE DEF t2
  <2> QED BY <1>1, <1>2, <1>3, <2>3, <2>4, <2>5 DEF Counted, t2
<1>4. CASE key \notin DOMAIN t
  <2>1. t2[key] = [rep |-> a, insts |-> {a}, n |-> 1]
    BY <1>1, <1>4 DEF File, NewEntry
  <2>2. IsFiniteSet({a}) /\ Cardinality({a}) = 1
    BY FS_Singleton
  <2>3. t2[key].rep = a /\ t2[key].insts = {a} /\ t2[key].n = 1
    BY <2>1
  <2> HIDE DEF t2
  <2>4. \A k \in DOMAIN t2 : \A x \in t2[k].insts :
           (k \in DOMAIN t /\ x \in t[k].insts) \/ (k = key /\ x = a)
    BY <1>2, <2>3
  <2>5. Counted(t2)
    BY <1>1, <1>2, <2>2, <2>3 DEF Counted
  <2> QED BY <2>4, <2>5 DEF t2
<1> QED BY <1>3, <1>4

\* the closures among the first words of a scan
FoundFunctions(p, b) == {a \in Prefix(p) : IsFunction(a) /\ Scanned(a, b)}

(* The closures are filed once each, by their definition; and there are    *)
(* none left over when a scan begins.                                      *)
FuncsInv ==
    /\ Counted(funcs)
    /\ \A f \in DOMAIN funcs : \A a \in funcs[f].insts : Heap[a].shared = f
    /\ pc \in ScanPcs => Insts(funcs) = FoundFunctions(pos, brk)
    /\ pc = "func" => Scanned(Words[pos], brk)
    /\ pc \notin ScanPcs /\ DOMAIN tree = {} => DOMAIN funcs = {}
    /\ finished => \E b \in BOOLEAN : Insts(funcs) = ScanFunctions(b)

\* at the end of the scan the words passed are all the words
LEMMA PrefixEnds == Prefix(Len(Words) + 1) = WordSet
<1>1. Len(Words) \in Nat /\ DOMAIN Words = 1..Len(Words) /\ Len(Words) + 1 - 1 = Len(Words)
  BY HeapAssumption
<1> QED BY <1>1 DEF Prefix, WordSet

LEMMA FuncsStep ==
    ASSUME AnonObjects, CalmSession
    PROVE  TypeOK /\ FocusInv /\ ScanInv /\ TableInv /\ CompleteInv /\ FuncsInv /\ [Next]_vars
              => FuncsInv'
<1> SUFFICES ASSUME TypeOK, FocusInv, ScanInv, TableInv, CompleteInv, FuncsInv, [Next]_vars
             PROVE  FuncsInv'
  OBVIOUS
<1> DEFINE w == Words[pos]
<1>0. /\ funcs \in [DOMAIN funcs -> Entry]
      /\ Len(Words) \in Nat /\ pos \in 1..(Len(Words) + 1)
  BY HeapAssumption DEF TypeOK, TableOK, ControlOK
<1>1. ASSUME pc \in ScanPcs, pos <= Len(Words)
      PROVE  /\ Seen(w) <=> Scanned(w, brk)
             /\ Prefix(pos + 1) = Prefix(pos) \cup {w}
             /\ w \in Addr /\ w \notin Prefix(pos)
  BY <1>0, <1>1, PrefixStep DEF FocusInv, Seen, InFocus
<1>2. \A b \in BOOLEAN : ScanObjects(b) # {}
  BY AnonObjects DEF AnonObjects, ScanObjects, Scanned
<1>3. ASSUME NEW c \in Commands, Start(c) PROVE FuncsInv'
  <2>1. UNCHANGED <<tree, funcs, finished>> /\ pc = "idle"
    BY <1>3 DEF Start, table
  <2>2. CASE MustScan
    <3>1. pc' = "scan" /\ pos' = 1 /\ DOMAIN funcs = {}
      BY <1>3, <2>1, <2>2 DEF Start, MustScan, FuncsInv, ScanPcs
    <3>2. Insts(funcs) = {} /\ Prefix(1) = {}
      BY <3>1 DEF Insts, Prefix
    <3>3. Insts(funcs)' = FoundFunctions(pos, brk)'
      BY <2>1, <3>1, <3>2 DEF FoundFunctions, Insts
    <3> QED BY <2>1, <3>1, <3>3 DEF FuncsInv, ScanPcs, Insts, Counted
  <2>3. CASE ~MustScan
    BY <1>3, <2>1, <2>3 DEF Start, FuncsInv, ScanPcs, MustScan, Counted, Insts
  <2> QED BY <2>2, <2>3
<1>4. CASE ScanSkip \/ InsertObject
  <2>1. /\ pc \in ScanPcs /\ pos <= Len(Words) /\ pc' = "scan" /\ pos' = pos + 1
        /\ UNCHANGED <<funcs, finished, brk>>
    BY <1>4 DEF ScanSkip, InScan, InsertObject, TypeOK, ControlOK, table, ScanPcs
  <2>2. ~(IsFunction(w) /\ Scanned(w, brk))
    <3>1. CASE ScanSkip
      BY <1>1, <2>1, <3>1 DEF ScanSkip, IsFunction
    <3>2. CASE InsertObject
      BY <3>2 DEF InsertObject, ScanInv, IsObject, IsFunction
    <3> QED BY <1>4, <3>1, <3>2
  <2>3. FoundFunctions(pos + 1, brk) = FoundFunctions(pos, brk)
    BY <1>1, <2>1, <2>2 DEF FoundFunctions
  <2>4. Insts(funcs) = FoundFunctions(pos, brk)
    BY <2>1 DEF FuncsInv
  <2>5. Insts(funcs') = FoundFunctions(pos', brk')
    BY <2>1, <2>3, <2>4
  <2> QED BY <2>1, <2>5 DEF FuncsInv, ScanPcs, Counted, Insts, FoundFunctions
<1>5. CASE FileFunction
  <2> DEFINE f == Heap[w].shared
  <2>1. /\ pc = "func" /\ pc' = "scan" /\ pos' = pos + 1
        /\ UNCHANGED <<finished, brk, tree>>
        /\ funcs' = IF Heap[w].loads THEN File(funcs, f, w) ELSE funcs
    BY <1>5 DEF FileFunction, GiveUp, FileOrSkip
  <2>2. pc \in ScanPcs /\ pos <= Len(Words)
    BY <2>1 DEF TypeOK, ControlOK, ScanPcs
  <2>3. Scanned(w, brk) /\ Heap[w].kind = "function"
    BY <2>1 DEF FuncsInv, ScanInv
  <2>4. Insts(funcs) = FoundFunctions(pos, brk) /\ Counted(funcs)
        /\ \A g \in DOMAIN funcs : \A a \in funcs[g].insts : Heap[a].shared = g
    BY <2>2 DEF FuncsInv
  <2>5. ~finished /\ pc' \in ScanPcs /\ pc' # "func"
    BY <2>1, <2>2 DEF CompleteInv, ScanPcs
  <2>6. CASE Heap[w].loads
    <3>1. FoundFunctions(pos + 1, brk) = FoundFunctions(pos, brk) \cup {w}
      BY <1>1, <2>2, <2>3, <2>6 DEF FoundFunctions, IsFunction
    <3>2. w \notin Insts(funcs) /\ w \in Addr
      BY <1>1, <2>2, <2>4 DEF FoundFunctions
    <3>3. funcs' = File(funcs, f, w)
      BY <2>1, <2>6
    <3>4. Insts(funcs') = Insts(funcs) \cup {w}
      BY <1>0, <3>2, <3>3, FileInsts
    <3>5. Counted(funcs')
          /\ \A k \in DOMAIN funcs' : \A x \in funcs'[k].insts :
                (k \in DOMAIN funcs /\ x \in funcs[k].insts) \/ (k = f /\ x = w)
      BY <1>0, <2>4, <3>2, <3>3, FileCounted
    <3>6. \A k \in DOMAIN funcs' : \A x \in funcs'[k].insts : Heap[x].shared = k
      BY <2>4, <3>5
    <3>7. Insts(funcs') = FoundFunctions(pos', brk')
      BY <2>1, <2>4, <3>1, <3>4
    <3> QED BY <2>1, <2>5, <3>5, <3>6, <3>7 DEF FuncsInv, Counted, Insts, FoundFunctions
  <2>7. CASE ~Heap[w].loads
    <3>1. FoundFunctions(pos + 1, brk) = FoundFunctions(pos, brk)
      BY <1>1, <2>2, <2>7 DEF FoundFunctions, IsFunction
    <3>2. funcs' = funcs
      BY <2>1, <2>7
    <3>3. Insts(funcs') = FoundFunctions(pos', brk')
      BY <2>1, <2>4, <3>1, <3>2
    <3> QED BY <2>1, <2>4, <2>5, <3>2, <3>3 DEF FuncsInv, Counted, Insts, FoundFunctions
  <2> QED BY <2>6, <2>7
<1>6. CASE ScanFunction \/ ScanArray \/ ScanObject \/ ReadConstructor
  <2>1. pc \in ScanPcs /\ pc' \in ScanPcs /\ UNCHANGED <<tree, funcs, finished, brk, pos>>
    BY <1>6 DEF ScanFunction, ScanArray, ScanObject, ReadConstructor, InScan, table, ScanPcs
  <2>2. pc' = "func" => Scanned(w, brk)
    BY <1>1, <1>6, <2>1 DEF ScanFunction, ScanArray, ScanObject, ReadConstructor, InScan
  <2> QED BY <2>1, <2>2 DEF FuncsInv, Counted, Insts, FoundFunctions
<1>7. CASE EndScan
  <2>1. /\ pc = "scan" /\ pos = Len(Words) + 1 /\ pc' = "opts"
        /\ UNCHANGED <<tree, funcs, brk>>
    BY <1>0, <1>7 DEF EndScan
  <2>2. Insts(funcs) = ScanFunctions(brk) /\ brk \in BOOLEAN
    BY <2>1, PrefixEnds DEF FuncsInv, ScanPcs, FoundFunctions, ScanFunctions, TypeOK, FlagsOK
  <2>3. Insts(tree) = ScanObjects(brk)
    BY <2>1, PrefixEnds DEF ScanInv, ScanPcs, ScanObjects
  <2>4. DOMAIN tree # {}
    BY <1>2, <2>2, <2>3 DEF Insts
  <2>5. Counted(funcs)' /\ (\A f \in DOMAIN funcs : \A a \in funcs[f].insts : Heap[a].shared = f)'
    BY <2>1 DEF FuncsInv, Counted
  <2>6. (\E b \in BOOLEAN : Insts(funcs) = ScanFunctions(b))'
    BY <2>1, <2>2 DEF Insts
  <2> QED BY <2>1, <2>4, <2>5, <2>6 DEF FuncsInv, ScanPcs
<1>8. CASE UNCHANGED table /\ pc' \notin ScanPcs
  <2>1. UNCHANGED <<tree, funcs, finished>>
    BY <1>8 DEF table
  <2>2. pc \in ScanPcs => DOMAIN funcs = {}
    <3> SUFFICES ASSUME pc \in ScanPcs PROVE DOMAIN funcs = {}
      OBVIOUS
    <3>1. IterFails
      <4>1. \A c : ~Start(c) /\ ~StartFails(c)
        BY DEF Start, StartFails, ScanPcs
      <4>2. ~AnswerStep /\ ~ReferStep
        BY DEF AnswerStep, OptsError, ListRepresentatives, Match, ListLike, PrintTable,
           FunctionsError, ListClosures, PrintFunctions, Finder, Functions, Work, ScanPcs,
           ReferStep, StartMark, EndMark, StartReferences, EndTraverse, Report, ReportFaults,
           AddReferent, AlreadyMarked, AssertFails, Traverse, TraverseFaults
      <4>3. ~Interrupt
        BY DEF Interrupt, CalmSession, ScanPcs
      <4>4. ~UNCHANGED vars
        BY <1>8 DEF vars
      <4>5. ~(ScanSkip \/ ScanFunction \/ FileFunction \/ ScanArray \/ ScanObject
              \/ ReadConstructor \/ InsertObject \/ EndScan)
        <5>1. ScanSkip \/ ScanFunction \/ FileFunction \/ ScanArray \/ ScanObject
              \/ ReadConstructor \/ InsertObject => pc' \in ScanPcs
          BY DEF ScanSkip, InScan, ScanFunction, FileFunction, GiveUp, FileOrSkip, ScanArray, ScanObject,
             ReadConstructor, InsertObject, ScanPcs
        <5>2. EndScan => finished' = TRUE
          BY DEF EndScan
        <5>3. ~finished
          BY DEF CompleteInv
        <5> QED BY <1>8, <2>1, <5>1, <5>2, <5>3
      <4> QED BY <4>1, <4>2, <4>3, <4>4, <4>5, Zenon DEF Next, DcmdStep, ScanStep
    <3>2. Insts(funcs) = {}
      BY <3>1 DEF IterFails, FuncsInv, FoundFunctions, Prefix
    <3>3. \A f \in DOMAIN funcs : funcs[f].rep \in funcs[f].insts
      BY DEF FuncsInv, Counted
    <3>4. \A f \in DOMAIN funcs : funcs[f].rep \in Insts(funcs)
      BY <3>3 DEF Insts
    <3> QED BY <3>2, <3>4
  <2>3. Counted(funcs)' /\ (\A f \in DOMAIN funcs : \A a \in funcs[f].insts : Heap[a].shared = f)'
    BY <2>1 DEF FuncsInv, Counted
  <2>4. (finished => \E b \in BOOLEAN : Insts(funcs) = ScanFunctions(b))'
    BY <2>1 DEF FuncsInv, Insts
  <2>5. (DOMAIN tree = {} => DOMAIN funcs = {})'
    BY <2>1, <2>2 DEF FuncsInv
  <2> QED BY <1>8, <2>3, <2>4, <2>5 DEF FuncsInv, ScanPcs
<1>9. CASE UNCHANGED vars
  BY <1>9 DEF vars, FuncsInv, Counted, Insts, FoundFunctions
<1> QED BY <1>3, <1>4, <1>5, <1>6, <1>7, <1>8, <1>9, OtherSteps
-----------------------------------------------------------------------------
(* What a walk over the table finds                                        *)

\* the references that some objects hold to t, and the slots they are in
AllRefs(S, t) == UNION {Refs(a, t) : a \in S}
AllSlots(S, t) == UNION {{a} \X SlotsWith(a, t) : a \in S}

(* The referents have gathered what the instances passed so far hold, and  *)
(* there is something to report on.                                        *)
RefsInv ==
    /\ pc = "mark" => todo \subseteq Insts(tree) /\ (todo # {} \/ DOMAIN referents # {})
    /\ pc = "trav" => todo \subseteq Insts(tree)
    /\ pc = "report" => todo = {}
    /\ pc \in {"trav", "report"} =>
          /\ DOMAIN referents # {}
          /\ \A t \in DOMAIN referents :
                LET S == Insts(tree) \ todo IN
                /\ referents[t].refs = AllRefs(S, t)
                /\ IsFiniteSet(AllSlots(S, t))
                /\ referents[t].n = Cardinality(AllSlots(S, t))

(* One more instance adds the references in its own slots.                 *)
LEMMA SlotsAdd ==
    ASSUME NEW S, NEW a \in Addr, a \notin S, NEW t, IsFiniteSet(AllSlots(S, t))
    PROVE  /\ AllRefs(S \cup {a}, t) = AllRefs(S, t) \cup Refs(a, t)
           /\ IsFiniteSet(AllSlots(S \cup {a}, t))
           /\ Cardinality(AllSlots(S \cup {a}, t)) =
                 Cardinality(AllSlots(S, t)) + Cardinality(SlotsWith(a, t))
<1>1. AllRefs(S \cup {a}, t) = AllRefs(S, t) \cup Refs(a, t)
  BY DEF AllRefs
<1> DEFINE P == {a} \X SlotsWith(a, t)
<1>2. AllSlots(S \cup {a}, t) = AllSlots(S, t) \cup P
  BY DEF AllSlots
<1>3. AllSlots(S, t) \cap P = {}
  BY DEF AllSlots
<1>4. IsFiniteSet(SlotsWith(a, t)) /\ Cardinality(SlotsWith(a, t)) \in Nat
  <2>1. SlotsWith(a, t) \subseteq 1..Len(Heap[a].slots)
    BY WordType DEF SlotsWith
  <2>2. IsFiniteSet(1..Len(Heap[a].slots))
    BY WordType, FS_Interval
  <2> QED BY <2>1, <2>2, FS_Subset, FS_CardinalityType
<1>5. IsFiniteSet({a}) /\ Cardinality({a}) = 1
  BY FS_Singleton
<1>6. IsFiniteSet(P) /\ Cardinality(P) = 1 * Cardinality(SlotsWith(a, t))
  BY <1>4, <1>5, FS_Product
<1> HIDE DEF P
<1>7. /\ IsFiniteSet(AllSlots(S, t) \cup P)
      /\ Cardinality(AllSlots(S, t) \cup P) =
            Cardinality(AllSlots(S, t)) + Cardinality(P) - Cardinality({})
  BY <1>3, <1>6, FS_Union
<1>8. Cardinality({}) = 0 /\ Cardinality(AllSlots(S, t)) \in Nat
  BY FS_EmptySet, FS_CardinalityType
<1>9. Cardinality(P) = Cardinality(SlotsWith(a, t)) /\ Cardinality(P) \in Nat
  BY <1>4, <1>6
<1>10. Cardinality(AllSlots(S, t) \cup P) = Cardinality(AllSlots(S, t)) + Cardinality(P)
  BY <1>7, <1>8, <1>9
<1> QED BY <1>1, <1>2, <1>7, <1>9, <1>10, Zenon

(* The list of the groups leads to every instance of the table.            *)
LEMMA ListInsts ==
    ASSUME TypeOK, ListIsTree
    PROVE  /\ AllInstances = Insts(tree)
           /\ \A a \in Insts(tree) : \E s \in DOMAIN tree : s \in GroupOf(a)
           /\ \A a : GroupOf(a) \subseteq DOMAIN tree
  BY DEF ListIsTree, AllInstances, Insts, GroupOf

LEMMA RefsStep ==
    ASSUME CalmSession
    PROVE  TypeOK /\ ListIsTree /\ MarksInv /\ RefsInv /\ [Next]_vars => RefsInv'
<1> SUFFICES ASSUME TypeOK, ListIsTree, MarksInv, RefsInv, [Next]_vars PROVE RefsInv'
  OBVIOUS
<1>1. ASSUME pc' \notin {"mark", "trav", "report"} PROVE RefsInv'
  BY <1>1 DEF RefsInv
<1>2. ASSUME UNCHANGED <<pc, tree, referents, todo>> PROVE RefsInv'
  BY <1>2 DEF RefsInv, Insts
<1>3. ASSUME NEW c \in Commands, Start(c) \/ StartFails(c) PROVE RefsInv'
  BY <1>1, <1>3 DEF Start, StartFails
<1>4. CASE ScanStep
  BY <1>1, <1>4 DEF ScanStep, IterFails, Error, Finish, ScanSkip, InScan, ScanFunction,
     FileFunction, GiveUp, FileOrSkip, ScanArray, ScanObject, ReadConstructor, InsertObject, EndScan
<1>5. CASE AnswerStep
  <2>1. \E k, d : Finish(k, d)
    BY <1>5, Zenon DEF AnswerStep, OptsError, ListRepresentatives, Match, ListLike, PrintTable,
       FunctionsError, ListClosures, PrintFunctions, Error
  <2> QED BY <1>1, <2>1 DEF Finish
<1>6. CASE Interrupt \/ EndMark \/ Report \/ ReportFaults
  BY <1>1, <1>6 DEF Interrupt, EndMark, Report, ReportFaults, Finish, Wild
<1>7. CASE StartMark
  <2>1. cmd.addr \in Insts(tree)
    BY <1>7 DEF StartMark, BadOptions, Work, AddrSpec
  <2>2. PICK s \in DOMAIN tree : s \in GroupOf(cmd.addr)
    BY <2>1, ListInsts
  <2>3. cmd.addr \in tree[s].insts
    BY <2>2 DEF GroupOf
  <2>4. pc' = "mark" /\ UNCHANGED tree
    BY <1>7 DEF StartMark, table
  <2>5. todo' \subseteq Insts(tree)
    <3>1. UNION {tree[g].insts : g \in GroupOf(cmd.addr)} \subseteq Insts(tree)
      BY ListInsts DEF Insts
    <3> QED BY <1>7, <2>1, <3>1 DEF StartMark
  <2>6. todo' # {}
    BY <1>7, <2>2, <2>3 DEF StartMark
  <2> QED BY <2>4, <2>5, <2>6 DEF RefsInv, Insts
<1>8. CASE StartReferences
  <2>1. /\ pc' = "trav" /\ UNCHANGED <<tree, referents>>
        /\ todo' = Insts(tree)
        /\ pc \in {"mark", "opts"}
    BY <1>8, ListInsts DEF StartReferences, table, Work, Finder
  <2>2. DOMAIN referents # {}
    <3>1. CASE pc = "mark" /\ todo = {}
      BY <3>1 DEF RefsInv
    <3>2. CASE Work /\ ~BadOptions /\ ~AddrSpec /\ Has("r")
      BY <3>2 DEF BadOptions, Work, Finder
    <3> QED BY <1>8, <3>1, <3>2 DEF StartReferences
  <2>3. \A t : AllRefs({}, t) = {} /\ AllSlots({}, t) = {}
    BY DEF AllRefs, AllSlots
  <2>4. \A t \in DOMAIN referents : referents[t].refs = {} /\ referents[t].n = 0
    BY <2>1 DEF MarksInv
  <2>5. Insts(tree)' \ todo' = {}
    BY <2>1 DEF Insts
  <2>6. Insts(tree)' = Insts(tree)
    BY <2>1 DEF Insts
  <2>7. \A t \in DOMAIN referents' :
           LET S == Insts(tree)' \ todo' IN
           /\ referents'[t].refs = AllRefs(S, t)
           /\ IsFiniteSet(AllSlots(S, t))
           /\ referents'[t].n = Cardinality(AllSlots(S, t))
    BY <2>1, <2>3, <2>4, <2>5, FS_EmptySet
  <2> QED BY <2>1, <2>2, <2>6, <2>7 DEF RefsInv
<1>9. CASE EndTraverse
  <2>1. pc = "trav" /\ todo = {} /\ pc' = "report" /\ UNCHANGED <<tree, referents, todo>>
    BY <1>9 DEF EndTraverse, table
  <2> QED BY <2>1 DEF RefsInv, Insts
<1>10. ASSUME NEW a \in todo, AddReferent(a) \/ AlreadyMarked(a) PROVE RefsInv'
  <2>1. pc = "mark" /\ pc' = "mark" /\ UNCHANGED tree /\ todo' \subseteq todo
    BY <1>10 DEF AddReferent, AlreadyMarked, Advance, table
  <2>2. DOMAIN referents' # {}
    <3>1. CASE AddReferent(a)
      <4>1. DOMAIN referents' = DOMAIN referents \cup {a}
        BY <3>1 DEF AddReferent
      <4> QED BY <4>1
    <3>2. CASE AlreadyMarked(a)
      BY <3>2 DEF AlreadyMarked
    <3> QED BY <1>10, <3>1, <3>2
  <2> QED BY <2>1, <2>2 DEF RefsInv, Insts
<1>11. ASSUME NEW a \in todo, AssertFails(a) PROVE RefsInv'
  BY <1>1, <1>11 DEF AssertFails
<1>12. ASSUME NEW a \in todo, Traverse(a) PROVE RefsInv'
  <2>1. pc = "trav" /\ pc' = "trav" /\ UNCHANGED tree /\ todo' = todo \ {a}
    BY <1>12 DEF Traverse, Advance, table
  <2>2. referents' = [t \in DOMAIN referents |->
                        [refs  |-> referents[t].refs \cup Refs(a, t),
                         n     |-> referents[t].n + Cardinality(SlotsWith(a, t)),
                         freed |-> referents[t].freed]]
    BY <1>12 DEF Traverse
  <2>3. a \in Addr /\ a \in Insts(tree)
    BY <2>1, InstsType DEF RefsInv, TypeOK
  <2> DEFINE S == Insts(tree) \ todo
  <2>4. Insts(tree)' \ todo' = S \cup {a} /\ a \notin S
    BY <2>1, <2>3 DEF Insts
  <2> HIDE DEF S
  <2>5. ASSUME NEW t \in DOMAIN referents'
        PROVE  /\ referents'[t].refs = AllRefs(S \cup {a}, t)
               /\ IsFiniteSet(AllSlots(S \cup {a}, t))
               /\ referents'[t].n = Cardinality(AllSlots(S \cup {a}, t))
    <3>1. t \in DOMAIN referents
      BY <2>2
    <3>2. /\ referents[t].refs = AllRefs(S, t)
          /\ IsFiniteSet(AllSlots(S, t))
          /\ referents[t].n = Cardinality(AllSlots(S, t))
      BY <2>1, <3>1 DEF RefsInv, S
    <3>3. /\ referents'[t].refs = referents[t].refs \cup Refs(a, t)
          /\ referents'[t].n = referents[t].n + Cardinality(SlotsWith(a, t))
      BY <2>2, <3>1
    <3>4. /\ AllRefs(S \cup {a}, t) = AllRefs(S, t) \cup Refs(a, t)
          /\ IsFiniteSet(AllSlots(S \cup {a}, t))
          /\ Cardinality(AllSlots(S \cup {a}, t)) =
                Cardinality(AllSlots(S, t)) + Cardinality(SlotsWith(a, t))
      BY <2>3, <2>4, <3>2, SlotsAdd
    <3> QED BY <3>2, <3>3, <3>4, Zenon
  <2>6. DOMAIN referents' # {}
    BY <2>1, <2>2 DEF RefsInv
  <2>7. todo' \subseteq Insts(tree)'
    BY <2>1 DEF RefsInv, Insts
  <2> QED BY <2>1, <2>4, <2>5, <2>6, <2>7 DEF RefsInv
<1>13. ASSUME NEW a \in todo, TraverseFaults(a) PROVE RefsInv'
  BY <1>1, <1>13 DEF TraverseFaults, Wild
<1>14. CASE UNCHANGED vars
  BY <1>2, <1>14 DEF vars
<1> QED BY <1>3, <1>4, <1>5, <1>6, <1>7, <1>8, <1>9, <1>10, <1>11, <1>12, <1>13, <1>14
        DEF Next, DcmdStep, ReferStep
-----------------------------------------------------------------------------
(* The dcmds implement HeapQueries                                         *)

SessionInv ==
    /\ TypeOK /\ FocusInv /\ ScanInv /\ TableInv /\ ListIsTree /\ CompleteInv
    /\ FuncsInv /\ MarksInv /\ RefsInv

LEMMA SameCardinality == ASSUME NEW S PROVE Queries!Cardinality(S) = Cardinality(S)
  BY DEF Queries!Cardinality, Cardinality

(* A group is what the table holds of one signature.                       *)
LEMMA GroupIsClass ==
    ASSUME TableInv, NEW s \in DOMAIN tree
    PROVE  /\ tree[s].insts = {a \in Insts(tree) : Signature(a) = s}
           /\ tree[s].rep \in Insts(tree) /\ Signature(tree[s].rep) = s
           /\ tree[s].n = Cardinality(tree[s].insts)
<1>1. \A g \in DOMAIN tree : \A a \in tree[g].insts : Signature(a) = g
  BY DEF TableInv, TableSound
<1>2. tree[s].rep \in tree[s].insts /\ tree[s].n = Cardinality(tree[s].insts)
  BY DEF TableInv, TableSound
<1>3. \A a : a \in Insts(tree) <=> \E g \in DOMAIN tree : a \in tree[g].insts
  BY DEF Insts
<1> QED BY <1>1, <1>2, <1>3

LEMMA ClosuresAreClass ==
    ASSUME FuncsInv, NEW f \in DOMAIN funcs
    PROVE  /\ funcs[f].insts = {a \in Insts(funcs) : Heap[a].shared = f}
           /\ funcs[f].rep \in Insts(funcs) /\ Heap[funcs[f].rep].shared = f
           /\ funcs[f].n = Cardinality(funcs[f].insts)
<1>1. \A g \in DOMAIN funcs : \A a \in funcs[g].insts : Heap[a].shared = g
  BY DEF FuncsInv
<1>2. funcs[f].rep \in funcs[f].insts /\ funcs[f].n = Cardinality(funcs[f].insts)
  BY DEF FuncsInv, Counted
<1>3. \A a : a \in Insts(funcs) <=> \E g \in DOMAIN funcs : a \in funcs[g].insts
  BY DEF Insts
<1> QED BY <1>1, <1>2, <1>3

(* What is known when a dcmd answers.                                      *)
LEMMA Known ==
    ASSUME AnonObjects, SessionInv, finished
    PROVE  /\ Insts(tree) # {}
           /\ \E b \in BOOLEAN : Insts(tree) = ScanObjects(b)
           /\ \E b \in BOOLEAN : Insts(funcs) = ScanFunctions(b)
<1>1. \A b \in BOOLEAN : ScanObjects(b) # {}
  BY AnonObjects DEF AnonObjects, ScanObjects, Scanned
<1> QED BY <1>1 DEF SessionInv, CompleteInv, FuncsInv

LEMMA StutterStep ==
    ASSUME UNCHANGED <<tree, finished, out>>, DOMAIN referents' = DOMAIN referents
    PROVE  UNCHANGED Queries!qvars
  BY DEF Queries!qvars, Insts

LEMMA RefuseStep ==
    ASSUME UNCHANGED <<tree, finished>>, DOMAIN referents' = DOMAIN referents,
           NEW k \in {"error", "interrupted"}, out' = [kind |-> k, data |-> {}]
    PROVE  Queries!QNext
<1>1. out' \in [kind : {"error", "interrupted"}, data : {{}}]
  OBVIOUS
<1>2. Queries!Refuse
  BY <1>1 DEF Queries!Refuse, Insts
<1> QED BY <1>2 DEF Queries!QNext

(* What a dcmd leaves as it was when it answers.                           *)
LEMMA AnswerFrame ==
    ASSUME Quiet
    PROVE  UNCHANGED <<tree, funcs, finished>> /\ DOMAIN referents' = DOMAIN referents
  BY DEF Quiet, table, Release

LEMMA ReplyStep ==
    ASSUME AnonObjects, SessionInv, finished, Quiet, NEW k, NEW d, Finish(k, d)
    PROVE  Queries!Reply(k) /\ out'.data = d
<1>1. out'.kind = k /\ out'.data = d
  BY DEF Finish
<1>2. UNCHANGED <<tree, finished>>
  BY AnswerFrame
<1>3. Insts(tree) # {}
  BY Known
<1> QED BY <1>1, <1>2, <1>3 DEF Queries!Reply, Insts

(* ::findjsobjects: one line for each signature, with its count.           *)
LEMMA GroupsStep ==
    ASSUME AnonObjects, SessionInv, PrintTable
    PROVE  Queries!QNext
<1>1. /\ Quiet /\ finished
      /\ Finish("groups", {[rep |-> tree[s].rep, n |-> tree[s].n, sig |-> s] : s \in Shown})
  BY DEF PrintTable, BadOptions, Incomplete
<1> DEFINE d == {[rep |-> tree[s].rep, n |-> tree[s].n, sig |-> s] : s \in Shown}
<1>2. Queries!Reply("groups") /\ out'.data = d
  BY <1>1, ReplyStep
<1>3. DOMAIN referents' = DOMAIN referents
  BY <1>1, AnswerFrame
<1>4. Shown = {s \in DOMAIN tree : Has("a") \/ ~s.malformed}
  BY DEF Shown, SessionInv, ListIsTree
<1>5. {Signature(a) : a \in Insts(tree)} = DOMAIN tree
  <2>1. \A s \in DOMAIN tree : tree[s].rep \in Insts(tree) /\ Signature(tree[s].rep) = s
    BY GroupIsClass DEF SessionInv
  <2>2. \A a \in Insts(tree) : Signature(a) \in DOMAIN tree
    BY DEF Insts, SessionInv, TableInv, TableSound
  <2> QED BY <2>1, <2>2
<1>6. {l.sig : l \in d} = Shown
  <2>1. \A l \in d : l.sig \in Shown
    OBVIOUS
  <2>2. ASSUME NEW s \in Shown PROVE \E l \in d : l.sig = s
    <3> DEFINE l == [rep |-> tree[s].rep, n |-> tree[s].n, sig |-> s]
    <3>1. l \in d /\ l.sig = s
      OBVIOUS
    <3> QED BY <3>1
  <2> HIDE DEF d
  <2> QED BY <2>1, <2>2
<1>7. \E all \in BOOLEAN :
         {l.sig : l \in d} = {s \in {Signature(a) : a \in Insts(tree)} : all \/ ~s.malformed}
  <2>1. CASE Has("a")
    BY <1>4, <1>5, <1>6, <2>1
  <2>2. CASE ~Has("a")
    BY <1>4, <1>5, <1>6, <2>2
  <2> QED BY <2>1, <2>2
<1>8. ASSUME NEW l \in d
      PROVE  /\ l.rep \in Insts(tree) /\ Signature(l.rep) = l.sig
             /\ l.n = Cardinality({a \in Insts(tree) : Signature(a) = l.sig})
             /\ \A m \in d : m.sig = l.sig => m = l
  <2>1. PICK s \in DOMAIN tree : l = [rep |-> tree[s].rep, n |-> tree[s].n, sig |-> s]
    BY <1>4
  <2>2. l.rep = tree[s].rep /\ l.n = tree[s].n /\ l.sig = s
    BY <2>1
  <2>3. \A m \in d : m.sig = s => m = l
    BY <2>1
  <2> HIDE DEF d
  <2> QED BY <2>2, <2>3, GroupIsClass DEF SessionInv
<1> HIDE DEF d
<1>9. Queries!Groups
  BY <1>1, <1>2, <1>3, <1>7, <1>8, SameCardinality DEF Queries!Groups
<1> QED BY <1>9 DEF Queries!QNext

(* -l, -p, -c, -k: the representatives of some of the groups.              *)
LEMMA RepresentativesStep ==
    ASSUME AnonObjects, SessionInv, ListRepresentatives \/ Match
    PROVE  Queries!QNext
<1>1. PICK X \in SUBSET DOMAIN tree : Finish("reps", {tree[s].rep : s \in X})
  <2>1. Shown \subseteq DOMAIN tree /\ GroupOf(cmd.addr) \subseteq DOMAIN tree
    BY DEF Shown, GroupOf, SessionInv, ListIsTree
  <2>2. CASE ListRepresentatives
    BY <2>1, <2>2 DEF ListRepresentatives
  <2>3. CASE Match
    <3> DEFINE S == IF AddrSpec THEN GroupOf(cmd.addr) ELSE Shown
    <3>1. Finish("reps", {tree[s].rep : s \in {g \in S : Hits(g)}})
      BY <2>3 DEF Match
    <3>2. {g \in S : Hits(g)} \subseteq DOMAIN tree
      BY <2>1
    <3> QED BY <3>1, <3>2
  <2> QED BY <2>2, <2>3
<1>2. Quiet /\ finished
  BY DEF ListRepresentatives, Match, BadOptions, Incomplete
<1> DEFINE d == {tree[s].rep : s \in X}
<1>3. Queries!Reply("reps") /\ out'.data = d
  BY <1>1, <1>2, ReplyStep
<1>4. DOMAIN referents' = DOMAIN referents
  BY <1>2, AnswerFrame
<1>5. \A s \in DOMAIN tree : tree[s].rep \in Insts(tree) /\ Signature(tree[s].rep) = s
  BY GroupIsClass DEF SessionInv
<1>6. d \subseteq Insts(tree) /\ \A a, c \in d : Signature(a) = Signature(c) => a = c
  BY <1>5
<1> HIDE DEF d
<1>7. Queries!Representatives
  BY <1>2, <1>3, <1>4, <1>6 DEF Queries!Representatives
<1> QED BY <1>7 DEF Queries!QNext

(* An object's class, or a definition's closures.                          *)
ClassOrClosures(d) ==
    \/ \E a \in Insts(tree) : d = {c \in Insts(tree) : Signature(c) = Signature(a)}
    \/ \E a \in Insts(funcs) : d = {c \in Insts(funcs) : Heap[c].shared = Heap[a].shared}
    \/ d = {}

LEMMA MembersStep ==
    ASSUME AnonObjects, SessionInv, ListLike \/ ListClosures
    PROVE  Queries!QNext
<1>1. PICK d : Finish("list", d) /\ ClassOrClosures(d)
  <2>1. CASE ListLike
    <3>1. cmd.addr \in Insts(tree)
      BY <2>1 DEF ListLike, Work, BadOptions
    <3>2. PICK s \in DOMAIN tree : s \in GroupOf(cmd.addr)
      BY <3>1, ListInsts DEF SessionInv
    <3>3. \A g \in GroupOf(cmd.addr) : g \in DOMAIN tree /\ cmd.addr \in tree[g].insts
      BY DEF GroupOf, SessionInv, ListIsTree
    <3>4. \A g \in GroupOf(cmd.addr) : g = Signature(cmd.addr)
      BY <3>3 DEF SessionInv, TableInv, TableSound
    <3>5. GroupOf(cmd.addr) = {s} /\ s = Signature(cmd.addr)
      BY <3>2, <3>4
    <3>6. UNION {tree[g].insts : g \in GroupOf(cmd.addr)} = tree[s].insts
      BY <3>5
    <3>7. tree[s].insts = {c \in Insts(tree) : Signature(c) = Signature(cmd.addr)}
      BY <3>5, GroupIsClass DEF SessionInv
    <3>8. ClassOrClosures(tree[s].insts)
      BY <3>1, <3>7 DEF ClassOrClosures
    <3> QED BY <2>1, <3>6, <3>8 DEF ListLike
  <2>2. CASE ListClosures
    <3> DEFINE G == {g \in DOMAIN funcs : funcs[g].rep = cmd.addr}
    <3>1. Finish("list", UNION {funcs[f].insts : f \in G})
      BY <2>2 DEF ListClosures
    <3>2. CASE G = {}
      <4>1. UNION {funcs[f].insts : f \in G} = {}
        BY <3>2
      <4>2. ClassOrClosures({})
        BY DEF ClassOrClosures
      <4> HIDE DEF G
      <4> QED BY <3>1, <4>1, <4>2
    <3>3. CASE G # {}
      <4>1. PICK f \in G : TRUE
        BY <3>3
      <4>2. \A g \in DOMAIN funcs : Heap[funcs[g].rep].shared = g
        BY ClosuresAreClass DEF SessionInv
      <4>3. G = {f}
        BY <4>1, <4>2
      <4>4. UNION {funcs[g].insts : g \in G} = funcs[f].insts
        BY <4>3
      <4>5. /\ funcs[f].insts = {c \in Insts(funcs) : Heap[c].shared = f}
            /\ funcs[f].rep \in Insts(funcs) /\ Heap[funcs[f].rep].shared = f
        BY <4>1, ClosuresAreClass DEF SessionInv
      <4>6. ClassOrClosures(funcs[f].insts)
        BY <4>5 DEF ClassOrClosures
      <4> HIDE DEF G
      <4> QED BY <3>1, <4>4, <4>6
    <3> QED BY <3>2, <3>3
  <2> QED BY <2>1, <2>2
<1>2. Quiet /\ finished
  BY DEF ListLike, ListClosures, BadOptions, BadFunctions, Incomplete
<1>3. Queries!Reply("list") /\ out'.data = d
  <2>1. Finish("list", d)
    BY <1>1
  <2> QED BY <1>2, <2>1, ReplyStep
<1>4. DOMAIN referents' = DOMAIN referents
  BY <1>2, AnswerFrame
<1>5. PICK b \in BOOLEAN : Insts(funcs) = ScanFunctions(b)
  BY <1>2, Known
<1>6. Queries!Members
  <2>1. CASE \E a \in Insts(tree) : d = {c \in Insts(tree) : Signature(c) = Signature(a)}
    BY <1>2, <1>3, <1>4, <2>1 DEF Queries!Members
  <2>2. CASE \E a \in Insts(funcs) : d = {c \in Insts(funcs) : Heap[c].shared = Heap[a].shared}
    <3>1. \E F \in {ScanFunctions(x) : x \in BOOLEAN} : \E a \in F :
             d = {c \in F : Heap[c].shared = Heap[a].shared}
      BY <1>5, <2>2
    <3> QED BY <1>3, <1>4, <3>1 DEF Queries!Members
  <2>3. CASE d = {}
    BY <1>3, <1>4, <2>3 DEF Queries!Members
  <2> QED BY <1>1, <2>1, <2>2, <2>3 DEF ClassOrClosures
<1> QED BY <1>6 DEF Queries!QNext

(* ::jsfunctions: one line for each definition, with its count.            *)
LEMMA FunctionsStep ==
    ASSUME AnonObjects, SessionInv, PrintFunctions
    PROVE  Queries!QNext
<1> DEFINE d == {[rep |-> funcs[f].rep, n |-> funcs[f].n, shared |-> f]
                    : f \in {g \in DOMAIN funcs : FuncShown(g)}}
<1>1. Quiet /\ finished /\ Finish("funcs", d)
  BY DEF PrintFunctions, BadFunctions, Incomplete
<1>2. Queries!Reply("funcs") /\ out'.data = d
  BY <1>1, ReplyStep
<1>3. DOMAIN referents' = DOMAIN referents
  BY <1>1, AnswerFrame
<1>4. PICK b \in BOOLEAN : Insts(funcs) = ScanFunctions(b)
  BY <1>1, Known
<1> DEFINE F == ScanFunctions(b)
<1>5. ASSUME NEW l \in d
      PROVE  /\ l.rep \in F
             /\ l.n = Cardinality({c \in F : Heap[c].shared = Heap[l.rep].shared})
             /\ \A m \in d : Heap[m.rep].shared = Heap[l.rep].shared => m = l
  <2>1. PICK f \in DOMAIN funcs : l = [rep |-> funcs[f].rep, n |-> funcs[f].n, shared |-> f]
    OBVIOUS
  <2>2. l.rep = funcs[f].rep /\ l.n = funcs[f].n
    BY <2>1
  <2>3. \A g \in DOMAIN funcs :
           /\ funcs[g].insts = {a \in Insts(funcs) : Heap[a].shared = g}
           /\ funcs[g].rep \in Insts(funcs) /\ Heap[funcs[g].rep].shared = g
           /\ funcs[g].n = Cardinality(funcs[g].insts)
    BY ClosuresAreClass DEF SessionInv
  <2>4. \A m \in d : Heap[m.rep].shared = f => m = l
    BY <2>1, <2>3
  <2> HIDE DEF d, F
  <2>5. Insts(funcs) = F
    BY <1>4 DEF F
  <2>6. Heap[l.rep].shared = f /\ l.rep \in F
    BY <2>2, <2>3, <2>5
  <2>7. funcs[f].insts = {c \in F : Heap[c].shared = f}
    BY <2>3, <2>5
  <2>8. l.n = Cardinality({c \in F : Heap[c].shared = Heap[l.rep].shared})
    <3>1. {c \in F : Heap[c].shared = Heap[l.rep].shared} = funcs[f].insts
      BY <2>6, <2>7
    <3>2. l.n = Cardinality(funcs[f].insts)
      BY <2>2, <2>3
    <3> QED BY <3>1, <3>2, Zenon
  <2> QED BY <2>4, <2>6, <2>8
<1>6. F \in {ScanFunctions(x) : x \in BOOLEAN}
  OBVIOUS
<1> HIDE DEF d, F
<1>7. Queries!Functions
  BY <1>2, <1>3, <1>5, <1>6, SameCardinality DEF Queries!Functions
<1> QED BY <1>7 DEF Queries!QNext

(* -r: each referent with all the references to it.                        *)
LEMMA ReferencesStep ==
    ASSUME AnonObjects, SessionInv, Report
    PROVE  Queries!QNext
<1> DEFINE d == {[to |-> t, refs |-> referents[t].refs, n |-> referents[t].n]
                    : t \in DOMAIN referents}
<1>1. /\ pc = "report" /\ Finish("refs", d)
      /\ referents' = NoMap /\ UNCHANGED <<tree, finished>>
  BY DEF Report, table
<1>2. finished /\ todo = {} /\ DOMAIN referents # {}
  BY <1>1 DEF SessionInv, CompleteInv, RefsInv
<1>3. Queries!Reply("refs") /\ out'.data = d
  <2>1. out'.kind = "refs" /\ out'.data = d
    BY <1>1 DEF Finish
  <2>2. Insts(tree) # {}
    BY <1>2, Known
  <2> HIDE DEF d
  <2> QED BY <1>1, <1>2, <2>1, <2>2 DEF Queries!Reply, Insts
<1>4. DOMAIN referents' = {}
  BY <1>1 DEF NoMap
<1>5. ASSUME NEW l \in d
      PROVE  /\ l.to \in DOMAIN referents
             /\ l.refs = UNION {Refs(a, l.to) : a \in Insts(tree)}
             /\ l.n = Cardinality(UNION {{a} \X SlotsWith(a, l.to) : a \in Insts(tree)})
  <2>1. PICK t \in DOMAIN referents : l = [to |-> t, refs |-> referents[t].refs, n |-> referents[t].n]
    OBVIOUS
  <2>2. l.to = t /\ l.refs = referents[t].refs /\ l.n = referents[t].n
    BY <2>1
  <2>3. Insts(tree) \ todo = Insts(tree)
    BY <1>2
  <2>4. /\ referents[t].refs = AllRefs(Insts(tree), t)
        /\ referents[t].n = Cardinality(AllSlots(Insts(tree), t))
    BY <1>1, <2>3 DEF SessionInv, RefsInv
  <2> HIDE DEF d
  <2> QED BY <2>2, <2>4 DEF AllRefs, AllSlots
<1>6. {l.to : l \in d} = DOMAIN referents
  <2>1. ASSUME NEW t \in DOMAIN referents PROVE \E l \in d : l.to = t
    <3> DEFINE l == [to |-> t, refs |-> referents[t].refs, n |-> referents[t].n]
    <3>1. l \in d /\ l.to = t
      OBVIOUS
    <3> QED BY <3>1
  <2> HIDE DEF d
  <2>2. \A l \in d : l.to \in DOMAIN referents
    BY <1>5
  <2> QED BY <2>1, <2>2
<1> HIDE DEF d
<1>7. Queries!References
  BY <1>2, <1>3, <1>4, <1>5, <1>6, SameCardinality DEF Queries!References
<1> QED BY <1>7 DEF Queries!QNext

(* A scan makes the objects known at once, when its last step declares the *)
(* cache complete; until then they are not.                                *)
LEMMA ScanQuery ==
    ASSUME AnonObjects, SessionInv, ScanStep
    PROVE  Queries!QNext \/ UNCHANGED Queries!qvars
<1>1. CASE IterFails
  <2>1. /\ UNCHANGED <<tree, finished>> /\ out' = [kind |-> "error", data |-> {}]
        /\ DOMAIN referents' = DOMAIN referents
    BY <1>1 DEF IterFails, Error, Finish, table, Release
  <2> QED BY <2>1, RefuseStep
<1>2. CASE ScanSkip \/ ScanFunction \/ FileFunction \/ ScanArray \/ ScanObject \/ ReadConstructor
  <2>1. UNCHANGED <<tree, finished, out, referents>>
    BY <1>2 DEF ScanSkip, ScanFunction, FileFunction, GiveUp, FileOrSkip, ScanArray, ScanObject, ReadConstructor, table
  <2> QED BY <2>1, StutterStep
<1>3. CASE InsertObject
  <2>1. finished = FALSE /\ UNCHANGED <<finished, out, referents>>
    BY <1>3 DEF InsertObject, SessionInv, CompleteInv, ScanPcs, TypeOK, FlagsOK
  <2> QED BY <2>1 DEF Queries!qvars
<1>4. CASE EndScan
  <2>1. /\ finished = FALSE /\ finished' = TRUE /\ UNCHANGED <<tree, out, referents>>
        /\ pc \in ScanPcs /\ pos = Len(Words) + 1
    BY <1>4, HeapAssumption
       DEF EndScan, SessionInv, CompleteInv, ScanPcs, TypeOK, FlagsOK, ControlOK
  <2>2. Insts(tree) = ScanObjects(brk) /\ brk \in BOOLEAN
    BY <2>1, PrefixEnds DEF SessionInv, ScanInv, ScanObjects, TypeOK, FlagsOK
  <2>3. Insts(tree)' = Insts(tree)
    BY <2>1 DEF Insts
  <2>4. Queries!Load
    BY <2>1, <2>2, <2>3 DEF Queries!Load
  <2> QED BY <2>4 DEF Queries!QNext
<1> QED BY <1>1, <1>2, <1>3, <1>4 DEF ScanStep

LEMMA AnswerQuery ==
    ASSUME AnonObjects, SessionInv, AnswerStep
    PROVE  Queries!QNext
<1>1. CASE OptsError \/ FunctionsError
  <2>1. /\ UNCHANGED <<tree, finished>> /\ out' = [kind |-> "error", data |-> {}]
        /\ DOMAIN referents' = DOMAIN referents
    BY <1>1, AnswerFrame DEF OptsError, FunctionsError, Error, Finish
  <2> QED BY <2>1, RefuseStep
<1>2. CASE ListRepresentatives \/ Match
  BY <1>2, RepresentativesStep
<1>3. CASE ListLike \/ ListClosures
  BY <1>3, MembersStep
<1>4. CASE PrintTable
  BY <1>4, GroupsStep
<1>5. CASE PrintFunctions
  BY <1>5, FunctionsStep
<1> QED BY <1>1, <1>2, <1>3, <1>4, <1>5 DEF AnswerStep

LEMMA ReferQuery ==
    ASSUME AnonObjects, SessionInv, ReferStep
    PROVE  Queries!QNext \/ UNCHANGED Queries!qvars
<1>1. CASE StartMark \/ StartReferences \/ EndTraverse \/ ReportFaults
  <2>1. UNCHANGED <<tree, finished, out, referents>>
    BY <1>1 DEF StartMark, StartReferences, EndTraverse, ReportFaults, Wild, table
  <2> QED BY <2>1, StutterStep
<1>2. CASE EndMark
  <2>1. finished /\ Quiet /\ Finish("marked", {})
    BY <1>2 DEF EndMark, SessionInv, CompleteInv
  <2>2. Queries!Reply("marked") /\ out'.data = {}
    BY <2>1, ReplyStep
  <2>3. DOMAIN referents' = DOMAIN referents
    BY <2>1, AnswerFrame
  <2>4. Queries!MarkReply
    BY <2>2, <2>3 DEF Queries!MarkReply
  <2> QED BY <2>4 DEF Queries!QNext
<1>3. CASE Report
  BY <1>3, ReferencesStep
<1>4. ASSUME NEW a \in todo, AddReferent(a) PROVE Queries!QNext
  <2>1. /\ pc = "mark" /\ UNCHANGED <<tree, finished, out>>
        /\ DOMAIN referents' = DOMAIN referents \cup {a}
    BY <1>4 DEF AddReferent, table
  <2>2. finished /\ a \in Insts(tree)
    BY <2>1 DEF SessionInv, CompleteInv, RefsInv
  <2>3. Queries!Mark
    BY <2>1, <2>2 DEF Queries!Mark, Insts
  <2> QED BY <2>3 DEF Queries!QNext
<1>5. ASSUME NEW a \in todo, AlreadyMarked(a) \/ AssertFails(a) \/ TraverseFaults(a)
      PROVE  UNCHANGED Queries!qvars
  <2>1. UNCHANGED <<tree, finished, out, referents>>
    BY <1>5 DEF AlreadyMarked, AssertFails, TraverseFaults, Wild, table
  <2> QED BY <2>1, StutterStep
<1>6. ASSUME NEW a \in todo, Traverse(a) PROVE UNCHANGED Queries!qvars
  <2>1. UNCHANGED <<tree, finished, out>> /\ DOMAIN referents' = DOMAIN referents
    BY <1>6 DEF Traverse, table
  <2> QED BY <2>1, StutterStep
<1> QED BY <1>1, <1>2, <1>3, <1>4, <1>5, <1>6 DEF ReferStep

LEMMA QueryStep ==
    ASSUME AnonObjects
    PROVE  SessionInv /\ [Next]_vars => [Queries!QNext]_(Queries!qvars)
<1> SUFFICES ASSUME SessionInv, [Next]_vars PROVE Queries!QNext \/ UNCHANGED Queries!qvars
  OBVIOUS
<1>1. ASSUME NEW c \in Commands, Start(c) PROVE UNCHANGED Queries!qvars
  <2>1. UNCHANGED <<tree, finished, out, referents>>
    BY <1>1 DEF Start, table
  <2> QED BY <2>1, StutterStep
<1>2. ASSUME NEW c \in Commands, StartFails(c) PROVE Queries!QNext
  <2>1. UNCHANGED <<tree, finished, referents>> /\ out' = [kind |-> "error", data |-> {}]
    BY <1>2 DEF StartFails, table
  <2> QED BY <2>1, RefuseStep
<1>3. CASE Interrupt
  <2>1. /\ UNCHANGED <<tree, finished>> /\ out' = [kind |-> "interrupted", data |-> {}]
        /\ DOMAIN referents' = DOMAIN referents
    BY <1>3, AnswerFrame DEF Interrupt, Finish
  <2> QED BY <2>1, RefuseStep
<1>4. CASE UNCHANGED vars
  <2>1. UNCHANGED <<tree, finished, out, referents>>
    BY <1>4 DEF vars
  <2> QED BY <2>1, StutterStep
<1> QED BY <1>1, <1>2, <1>3, <1>4, ScanQuery, AnswerQuery, ReferQuery DEF Next, DcmdStep

LEMMA SessionStep ==
    ASSUME AnonObjects, CalmSession
    PROVE  SessionInv /\ [Next]_vars => SessionInv'
<1> SUFFICES ASSUME SessionInv, [Next]_vars PROVE SessionInv'
  OBVIOUS
<1>1. TypeOK'
  BY ControlStep, FlagsStep, TableStep, ReferTypeStep DEF SessionInv, TypeOK
<1>2. FocusInv' /\ ScanInv' /\ TableInv'
  BY FocusStep, ScanStepInv, TableStepInv DEF SessionInv
<1>3. ListIsTree' /\ CompleteInv'
  BY ListStepInv, CompleteStep DEF SessionInv
<1>4. FuncsInv' /\ MarksInv' /\ RefsInv'
  BY FuncsStep, MarksStep, RefsStep DEF SessionInv
<1> QED BY <1>1, <1>2, <1>3, <1>4 DEF SessionInv

LEMMA SessionInit == Init => SessionInv /\ Queries!QInit
<1> SUFFICES ASSUME Init PROVE SessionInv /\ Queries!QInit
  OBVIOUS
<1>1. /\ pc = "idle" /\ tree = NoMap /\ list = <<>> /\ funcs = NoMap /\ finished = FALSE
      /\ referents = NoMap /\ fjsAddr = NULL /\ out = [kind |-> "none", data |-> {}]
  BY DEF Init
<1>2. FocusInv /\ ScanInv /\ TableInv /\ ListIsTree /\ CompleteInv
  BY <1>1 DEF FocusInv, ScanInv, ScanPcs, TableInv, TableSound, ListIsTree, InList, CompleteInv,
     NoMap
<1>3. FuncsInv /\ MarksInv /\ RefsInv
  BY <1>1 DEF FuncsInv, Counted, ScanPcs, MarksInv, RefsInv, NoMap
<1>4. Queries!QInit
  BY <1>1 DEF Queries!QInit, NoMap
<1> QED BY <1>2, <1>3, <1>4, InitType DEF SessionInv

(* ::findjsobjects and ::jsfunctions, with a scan that takes many steps, a *)
(* cache that outlives the dcmds and referents that are freed when a dcmd  *)
(* ends, implement the promise of HeapQueries: every answer is one that    *)
(* follows from all the objects of the target, and marks are kept.         *)
THEOREM QueriesImplemented ==
    ASSUME AnonObjects, CalmSession
    PROVE  Spec => ImplementsQueries
<1>1. Init => SessionInv /\ Queries!QInit
  BY SessionInit
<1>2. SessionInv /\ [Next]_vars => SessionInv'
  BY SessionStep
<1>3. SessionInv /\ [Next]_vars => [Queries!QNext]_(Queries!qvars)
  BY QueryStep
<1> QED BY <1>1, <1>2, <1>3, PTL DEF Spec, ImplementsQueries, Queries!QSpec
=============================================================================
