--------------------------- MODULE Inspect_proofs ---------------------------
(***************************************************************************)
(* Inspect: what one session is told of frames, source lines, memory and   *)
(* closures is right for every target, whatever the target has in its      *)
(* tables, on its stack and in its contexts.                               *)
(*                                                                         *)
(* The parts, in order: the search for a line ends and finds the line; a   *)
(* session frees what it takes (LeavesInv); every line printed of a frame  *)
(* is of that frame and of an argument it has (PrintInv); the frames of    *)
(* the stack are each printed, or left out in silence or by an elision     *)
(* that counts them (AccountInv); of each of them all that was asked for   *)
(* is told once, or an error reported (TellInv); and a closure's variables *)
(* are printed with the values of its own context, each once, in order     *)
(* (VarsInv).                                                              *)
(*                                                                         *)
(* The search first.  The position is kept past the entry before lower and *)
(* not past the one at upper; so lower cannot pass upper, and the loop     *)
(* ends at a line and in no other way.                                     *)
(***************************************************************************)
EXTENDS Inspect, SequenceTheorems, FiniteSetTheorems, WellFoundedInduction, TLAPS

(* The table and the position of a search, and the range it has left.      *)
Bracket ==
    /\ size > 0
    /\ lower \in 0..(size - 1) /\ upper \in 1..(size - 1)
    /\ tokpos <= Data(upper)
    /\ tokpos > Data(0)
    /\ lower > 0 => tokpos > Data(lower - 1)
    /\ lower <= upper

SearchInv ==
    /\ table \in Seq(Nat) /\ tokpos \in Nat
    /\ lower \in Int /\ upper \in Int /\ ii \in Int
    /\ Searching => Bracket
    /\ LineRight
    /\ SearchInBounds

(* What a turn of the loop finds between lower and upper: an index it may  *)
(* read, and, unless the position is past it, one before it to read.       *)
LEMMA MiddleInTable ==
    ASSUME table \in Seq(Nat), tokpos \in Nat, Bracket
    PROVE  /\ Middle \in 0..(size - 1)
           /\ lower <= Middle /\ Middle <= upper
           /\ Middle = 0 => tokpos > Data(0)
<1>1. size \in Nat
  BY DEF size
<1>2. Middle \in Int /\ lower <= Middle /\ Middle <= upper
  BY <1>1 DEF Middle, Bracket
<1> QED
  BY <1>1, <1>2 DEF Bracket

(* Without a search the range is the one of no table.                      *)
LEMMA NoSearchTyped ==
    ASSUME NEW r, NoSearch(r)
    PROVE  lower' \in Int /\ upper' \in Int /\ ii' \in Int /\ search' = r
BY DEF NoSearch

(* The step that begins: a position past the first entry and not past the  *)
(* last brackets the whole table, or the answer is there at once.          *)
LEMMA BeginBrackets ==
    ASSUME NEW c \in Callers, NEW t \in Tables \cup {Undefined}, NEW p \in Nat,
           SearchInv, BeginSearch(c, t, p)
    PROVE  SearchInv'
<1>1. p \in Nat /\ tokpos' = p
  BY DEF BeginSearch
<1>2. CASE t \notin {Undefined, <<>>} /\ Compare(t, p)
  <2>1. t \in Seq(Nat) /\ table' = t /\ t # <<>>
    BY <1>2, SearchAssumption DEF BeginSearch
  <2>2. Len(t) \in Nat /\ Len(t) > 0
    BY <2>1
  <2>3. t[1] \in Nat /\ t[Len(t)] \in Nat
    BY <2>1, <2>2
  <2>4. lower' = 0 /\ upper' = Len(t) - 1 /\ ii' = 0
    BY <1>2 DEF Compare
  <2>5. /\ table' \in Seq(Nat) /\ tokpos' \in Nat
        /\ lower' \in Int /\ upper' \in Int /\ ii' \in Int
    BY <1>1, <2>1, <2>2, <2>4
  <2>6. CASE p > t[Len(t)]
    <3>1. search' = "out of range"
      BY <1>2, <2>6 DEF Compare
    <3> QED
      BY <2>5, <3>1 DEF SearchInv, Searching, LineRight, SearchInBounds
  <2>7. CASE ~(p > t[Len(t)]) /\ p <= t[1]
    <3>1. search' = "line"
      BY <1>2, <2>7 DEF Compare
    <3>2. LineRight'
      BY <1>1, <2>1, <2>2, <2>4, <2>7 DEF LineRight, Data, size
    <3> QED
      BY <2>5, <3>1, <3>2 DEF SearchInv, Searching, SearchInBounds
  <2>8. CASE ~(p > t[Len(t)]) /\ ~(p <= t[1])
    <3>1. search' = "loop"
      BY <1>2, <2>8 DEF Compare
    <3>2. p <= t[Len(t)] /\ p > t[1] /\ Len(t) # 1
      BY <1>1, <2>3, <2>8
    <3>3. Bracket'
      BY <1>1, <2>1, <2>2, <2>3, <2>4, <3>2 DEF Bracket, Data, size
    <3> QED
      BY <2>5, <3>1, <3>3 DEF SearchInv, Searching, LineRight, SearchInBounds
  <2> QED
    BY <2>6, <2>7, <2>8
<1>3. CASE \E r \in EmptyTable(c) : t = <<>> /\ NoSearch(r)
  <2>1. table' = <<>>
    BY <1>3 DEF BeginSearch
  <2>2. PICK r \in {"out of range", "failed", "fault"} : NoSearch(r)
    BY <1>3 DEF EmptyTable
  <2>3. /\ table' \in Seq(Nat) /\ tokpos' \in Nat /\ size' = 0
        /\ lower' \in Int /\ upper' \in Int /\ ii' \in Int
    <3>1. lower' \in Int /\ upper' \in Int /\ ii' \in Int
      BY <2>2, NoSearchTyped
    <3>2. <<>> \in Seq(Nat) /\ Len(<<>>) = 0
      BY EmptySeq
    <3> QED
      BY <1>1, <2>1, <3>1, <3>2 DEF size
  <2>4. search' # "line" /\ search' # "loop"
    BY <2>2, NoSearchTyped
  <2> QED
    BY <2>3, <2>4 DEF SearchInv, Searching, LineRight, SearchInBounds
<1>4. CASE \/ t = Undefined /\ NoSearch(IF p = NoPosition THEN "unknown position" ELSE "position")
           \/ t # Undefined /\ NoSearch("failed")
  <2>1. table' \in Seq(Nat)
    <3>1. CASE t = Undefined
      <4>1. table' = <<>>
        BY <3>1 DEF BeginSearch
      <4> QED
        BY <4>1
    <3>2. CASE t # Undefined
      BY <3>2, SearchAssumption DEF BeginSearch
    <3> QED
      BY <3>1, <3>2
  <2>2. PICK r \in {"unknown position", "position", "failed"} : NoSearch(r)
    BY <1>4
  <2>3. tokpos' \in Nat /\ lower' \in Int /\ upper' \in Int /\ ii' \in Int
    BY <1>1, <2>2, NoSearchTyped
  <2>4. search' # "line" /\ search' # "loop" /\ search' # "fault"
    BY <2>2, NoSearchTyped
  <2> QED
    BY <2>1, <2>3, <2>4 DEF SearchInv, Searching, LineRight, SearchInBounds
<1> QED
  BY <1>2, <1>3, <1>4 DEF BeginSearch

(* A turn of the loop keeps the bracket and makes it smaller.              *)
LEMMA NarrowKeeps ==
    ASSUME SearchInv, Narrow
    PROVE  /\ SearchInv'
           /\ Searching' => upper' - lower' < upper - lower
<1>1. /\ table \in Seq(Nat) /\ tokpos \in Nat /\ Bracket
      /\ table' = table /\ tokpos' = tokpos /\ ii' = Middle
  BY DEF SearchInv, Narrow
<1>2. /\ size \in Nat /\ size' = size
      /\ \A i \in 0..(size - 1) : Data(i) \in Nat
  BY <1>1 DEF size, Data
<1>3. /\ Middle \in 0..(size - 1)
      /\ lower <= Middle /\ Middle <= upper
      /\ Middle = 0 => tokpos > Data(0)
  BY <1>1, MiddleInTable
<1>4. /\ Data(Middle) \in Nat
      /\ ~Past(Middle) => tokpos <= Data(Middle)
      /\ Past(Middle) => tokpos > Data(Middle)
  BY <1>1, <1>2, <1>3 DEF Past
<1>5. CASE Past(Middle) /\ lower' = Above(Middle) /\ UNCHANGED <<upper, search>>
  <2>0. lower' = Middle + 1 /\ upper' = upper
    BY <1>5 DEF Above
  <2>1. Middle # upper
    BY <1>1, <1>4, <1>5 DEF Bracket
  <2>2. Bracket'
    <3>1. lower' - 1 = Middle
      BY <1>3, <2>0
    <3>2. (tokpos > Data(lower - 1))'
      BY <1>1, <1>4, <1>5, <2>0, <3>1 DEF Data
    <3>3. /\ lower' \in 0..(size' - 1) /\ upper' \in 1..(size' - 1)
          /\ lower' <= upper' /\ size' > 0
      BY <1>1, <1>2, <1>3, <1>5, <2>0, <2>1 DEF Bracket
    <3>4. (tokpos <= Data(upper))' /\ (tokpos > Data(0))'
      BY <1>1, <1>5, <2>0 DEF Bracket, Data
    <3> QED
      BY <3>2, <3>3, <3>4 DEF Bracket
  <2>3. upper' - lower' < upper - lower
    BY <1>1, <1>2, <1>3, <1>5, <2>0 DEF Bracket
  <2> QED
    BY <1>1, <1>2, <1>3, <1>5, <2>0, <2>2, <2>3
       DEF SearchInv, Narrow, Searching, LineRight, SearchInBounds, Bracket
<1>6. CASE /\ Middle \in 1..(size - 1) /\ ~Past(Middle) /\ ~Past(Middle - 1)
           /\ upper' = Middle - 1 /\ UNCHANGED <<lower, search>>
  <2>1. Data(Middle - 1) \in Nat /\ tokpos <= Data(Middle - 1)
    BY <1>1, <1>2, <1>6 DEF Past
  <2>2. Middle # 1
    BY <1>1, <1>6, <2>1 DEF Bracket
  <2>3. lower < Middle
    <3> SUFFICES ASSUME lower = Middle PROVE FALSE
      BY <1>1, <1>2, <1>3 DEF Bracket
    <3> QED
      BY <1>1, <1>6, <2>1 DEF Bracket
  <2>4. Bracket'
    <3>1. (tokpos <= Data(upper))'
      BY <1>1, <1>6, <2>1 DEF Data
    <3>2. (tokpos > Data(0))' /\ (lower > 0 => tokpos > Data(lower - 1))'
      BY <1>1, <1>6 DEF Bracket, Data
    <3>3. /\ lower' \in 0..(size' - 1) /\ upper' \in 1..(size' - 1)
          /\ lower' <= upper' /\ size' > 0
      BY <1>1, <1>2, <1>3, <1>6, <2>2, <2>3 DEF Bracket
    <3> QED
      BY <3>1, <3>2, <3>3 DEF Bracket
  <2>5. upper' - lower' < upper - lower
    BY <1>1, <1>2, <1>3, <1>6 DEF Bracket
  <2> QED
    BY <1>1, <1>2, <1>3, <1>6, <2>4, <2>5
       DEF SearchInv, Narrow, Searching, LineRight, SearchInBounds, Bracket
<1>7. CASE /\ Middle \in 1..(size - 1) /\ ~Past(Middle) /\ Past(Middle - 1)
           /\ search' = "line" /\ UNCHANGED <<lower, upper>>
  <2>1. (ii \in 0..(size - 1) /\ tokpos <= Data(ii) /\ (ii > 0 => Data(ii - 1) < tokpos))'
    <3>1. Data(Middle - 1) < tokpos
      BY <1>1, <1>2, <1>7 DEF Past
    <3> QED
      BY <1>1, <1>2, <1>3, <1>4, <1>7, <3>1 DEF Data
  <2> QED
    BY <1>1, <1>3, <1>7, <2>1, <1>2
       DEF SearchInv, Searching, LineRight, SearchInBounds
<1>8. ~(Middle = 0 /\ ~Past(0))
  BY <1>1, <1>2, <1>3 DEF Bracket, Past
<1> QED
  BY <1>1, <1>2, <1>3, <1>4, <1>5, <1>6, <1>7, <1>8 DEF Narrow

(* The invariant, step by step.                                            *)
LEMMA SearchInductive == SearchInv /\ [SearchNext]_searchvars => SearchInv'
<1> SUFFICES ASSUME SearchInv, [SearchNext]_searchvars PROVE SearchInv'
  OBVIOUS
<1>1. ASSUME NEW c \in Callers, NEW t \in Tables \cup {Undefined}, NEW p \in Positions,
             BeginSearch(c, t, p)
      PROVE  SearchInv'
  BY <1>1, BeginBrackets, SearchAssumption
<1>2. CASE Narrow
  BY <1>2, NarrowKeeps
<1>3. CASE LoopEnds
  BY <1>3 DEF LoopEnds, SearchInv, Searching, Bracket, LineRight, SearchInBounds, size, Data
<1>4. CASE EndSearch
  BY <1>4 DEF EndSearch, SearchInv, Searching, LineRight, SearchInBounds, size
<1>5. CASE UNCHANGED searchvars
  BY <1>5 DEF searchvars, SearchInv, Searching, Bracket, LineRight, SearchInBounds, size, Data
<1> QED
  BY <1>1, <1>2, <1>3, <1>4, <1>5 DEF SearchNext, SearchStep

LEMMA SearchInvariant == SearchSpec => []SearchInv
<1>1. SearchInit => SearchInv
  BY DEF SearchInit, SearchInv, Searching, LineRight, SearchInBounds, size
<1> QED
  BY <1>1, SearchInductive, PTL DEF SearchSpec

(* The line printed for a function is one its position is on, for every    *)
(* table of line endings, whatever its order (jsfunc_lineno,               *)
(* v8funcinfo_definition_location).                                        *)
THEOREM SearchFindsLine == SearchSpec => []LineRight
<1>1. SearchInv => LineRight
  BY DEF SearchInv
<1> QED
  BY <1>1, SearchInvariant, PTL

(* No table makes the search read beside it, but the empty one, which      *)
(* jsfunc_lineno does not test for.                                        *)
THEOREM SearchReadsTable == SearchSpec => []SearchInBounds
<1>1. SearchInv => SearchInBounds
  BY DEF SearchInv
<1> QED
  BY <1>1, SearchInvariant, PTL

(* Both together are what the commands that print a line rely on.          *)
THEOREM SearchAlwaysRight == SearchSpec => []SearchRight
<1>1. LineRight /\ SearchInBounds => SearchRight
  BY DEF SearchRight
<1> QED
  BY <1>1, SearchFindsLine, SearchReadsTable, PTL

(* The loop ends for every table: the range it has left gets smaller.      *)
THEOREM SearchEndsAlways == SearchSpec => SearchNarrows
<1>1. SearchInv /\ [SearchNext]_searchvars
         => [Searching /\ Searching' => upper' - lower' < upper - lower]_searchvars
  <2> SUFFICES ASSUME SearchInv, SearchNext, Searching, Searching'
               PROVE  upper' - lower' < upper - lower
    BY DEF searchvars
  <2>1. CASE Narrow
    BY <2>1, NarrowKeeps
  <2>2. CASE LoopEnds
    BY <2>2 DEF LoopEnds, Searching
  <2>3. CASE EndSearch
    BY <2>3 DEF EndSearch, Searching
  <2>4. ASSUME NEW c \in Callers, NEW t \in Tables \cup {Undefined}, NEW p \in Positions,
               BeginSearch(c, t, p)
        PROVE  FALSE
    BY <2>4 DEF BeginSearch, Searching
  <2> QED
    BY <2>1, <2>2, <2>3, <2>4 DEF SearchNext, SearchStep
<1> QED
  BY <1>1, SearchInvariant, PTL DEF SearchSpec, SearchNarrows
-----------------------------------------------------------------------------
(***************************************************************************)
(* The session.                                                            *)
(***************************************************************************)

(* The commands there are, and where each of them may be.                  *)
FunctionCommand ==
    {c \in [name : DOMAIN Steps, layout : Layouts, target : Targets] :
        c.layout.bound \/ c.target.kind # "JSBoundFunction"}

StackCommand ==
    {c \in [name : {"jsstack", "jsframe"}, options : Options, addr : BOOLEAN, broken : BOOLEAN] :
        c.name = "jsframe" => c.addr}

FunctionPlaces ==
    [jsclosure |-> {"idle", "function", "context", "context_scopeinfo", "closure_vars"},
     jsfunction |-> {"idle", "bound", "function", "funcinfo", "strbuf", "name", "path", "location",
                     "searching", "out"},
     v8function |-> {"idle", "function", "context", "funcinfo", "code", "strbuf", "name", "path",
                     "location", "searching", "scopeinfo", "instructions", "out"},
     v8scopeinfo |-> {"idle", "scopeinfo", "params", "stack", "ctx"},
     v8context |-> {"idle", "context", "slots"},
     v8code |-> {"idle", "code", "instructions", "out"}]

StackPlaces == {"idle", "registers", "walk", "frame", "file", "searching", "arguments"}

InFunction == cmd \in FunctionCommand /\ doing \in FunctionPlaces[cmd.name]
InStack == cmd \in StackCommand /\ doing \in StackPlaces

FunctionNames == {"jsclosure", "jsfunction", "v8function", "v8scopeinfo", "v8context", "v8code"}

LEMMA NamesOfSteps == DOMAIN Steps = FunctionNames /\ DOMAIN FunctionPlaces = FunctionNames
BY DEF Steps, FunctionNames, FunctionPlaces

(* What a step's place in a list of different steps says of the one after. *)
LEMMA AfterPlace ==
    ASSUME NEW step, NEW i \in DOMAIN Steps[cmd.name], Steps[cmd.name][i] = step,
           \A j \in DOMAIN Steps[cmd.name] : Steps[cmd.name][j] = step => j = i
    PROVE  After(step) = IF i = Len(Steps[cmd.name]) THEN "return" ELSE Steps[cmd.name][i + 1]
<1>1. (CHOOSE j \in DOMAIN Steps[cmd.name] : Steps[cmd.name][j] = step) = i
  OBVIOUS
<1> QED
  BY <1>1 DEF After

LEMMA AfterInClosure ==
    ASSUME cmd.name = "jsclosure"
    PROVE  /\ After("function") = "context"
           /\ After("context") = "context_scopeinfo"
           /\ After("context_scopeinfo") = "closure_vars"
<1>1. Steps[cmd.name] = <<"function", "context", "context_scopeinfo", "closure_vars">>
  BY DEF Steps
<1>2. After("function") = "context"
  BY <1>1, AfterPlace
<1>3. After("context") = "context_scopeinfo"
  BY <1>1, AfterPlace
<1>4. After("context_scopeinfo") = "closure_vars"
  BY <1>1, AfterPlace
<1> QED
  BY <1>2, <1>3, <1>4

LEMMA AfterInFunction ==
    ASSUME cmd.name = "jsfunction"
    PROVE  /\ After("bound") = "function"
           /\ After("function") = "funcinfo"
           /\ After("funcinfo") = "strbuf"
           /\ After("strbuf") = "name"
           /\ After("name") = "path"
           /\ After("path") = "location"
           /\ After("location") = "out"
<1>1. Steps[cmd.name] = <<"bound", "function", "funcinfo", "strbuf", "name", "path",
                         "location", "out">>
  BY DEF Steps
<1>2. After("bound") = "function"
  BY <1>1, AfterPlace
<1>3. After("function") = "funcinfo"
  BY <1>1, AfterPlace
<1>4. After("funcinfo") = "strbuf"
  BY <1>1, AfterPlace
<1>5. After("strbuf") = "name"
  BY <1>1, AfterPlace
<1>6. After("name") = "path"
  BY <1>1, AfterPlace
<1>7. After("path") = "location"
  BY <1>1, AfterPlace
<1>8. After("location") = "out"
  BY <1>1, AfterPlace
<1> QED
  BY <1>2, <1>3, <1>4, <1>5, <1>6, <1>7, <1>8

LEMMA AfterInV8Function ==
    ASSUME cmd.name = "v8function"
    PROVE  /\ After("function") = "context"
           /\ After("context") = "funcinfo"
           /\ After("funcinfo") = "code"
           /\ After("code") = "strbuf"
           /\ After("strbuf") = "name"
           /\ After("name") = "path"
           /\ After("path") = "location"
           /\ After("location") = "scopeinfo"
           /\ After("scopeinfo") = "instructions"
           /\ After("instructions") = "out"
<1>1. Steps[cmd.name] = <<"function", "context", "funcinfo", "code", "strbuf", "name",
                         "path", "location", "scopeinfo", "instructions", "out">>
  BY DEF Steps
<1>2. After("function") = "context"
  BY <1>1, AfterPlace
<1>3. After("context") = "funcinfo"
  BY <1>1, AfterPlace
<1>4. After("funcinfo") = "code"
  BY <1>1, AfterPlace
<1>5. After("code") = "strbuf"
  BY <1>1, AfterPlace
<1>6. After("strbuf") = "name"
  BY <1>1, AfterPlace
<1>7. After("name") = "path"
  BY <1>1, AfterPlace
<1>8. After("path") = "location"
  BY <1>1, AfterPlace
<1>9. After("location") = "scopeinfo"
  BY <1>1, AfterPlace
<1>10. After("scopeinfo") = "instructions"
  BY <1>1, AfterPlace
<1>11. After("instructions") = "out"
  BY <1>1, AfterPlace
<1> QED
  BY <1>2, <1>3, <1>4, <1>5, <1>6, <1>7, <1>8, <1>9, <1>10, <1>11

LEMMA AfterInScopeInfo ==
    ASSUME cmd.name = "v8scopeinfo"
    PROVE  /\ After("scopeinfo") = "params"
           /\ After("params") = "stack"
           /\ After("stack") = "ctx"
           /\ After("ctx") = "return"
<1>1. Steps[cmd.name] = <<"scopeinfo", "params", "stack", "ctx">>
  BY DEF Steps
<1>2. After("scopeinfo") = "params"
  BY <1>1, AfterPlace
<1>3. After("params") = "stack"
  BY <1>1, AfterPlace
<1>4. After("stack") = "ctx"
  BY <1>1, AfterPlace
<1>5. After("ctx") = "return"
  BY <1>1, AfterPlace
<1> QED
  BY <1>2, <1>3, <1>4, <1>5

LEMMA AfterInContext ==
    ASSUME cmd.name = "v8context"
    PROVE  After("context") = "slots"
<1>1. Steps[cmd.name] = <<"context", "slots">>
  BY DEF Steps
<1>2. After("context") = "slots"
  BY <1>1, AfterPlace
<1> QED
  BY <1>2

LEMMA AfterInCode ==
    ASSUME cmd.name = "v8code"
    PROVE  /\ After("code") = "instructions"
           /\ After("instructions") = "out"
<1>1. Steps[cmd.name] = <<"code", "instructions", "out">>
  BY DEF Steps
<1>2. After("code") = "instructions"
  BY <1>1, AfterPlace
<1>3. After("instructions") = "out"
  BY <1>1, AfterPlace
<1> QED
  BY <1>2, <1>3

LEMMA WhoHasOut ==
    ASSUME cmd.name \in FunctionNames
    PROVE  HasOut(cmd) <=> cmd.name \in {"jsfunction", "v8function", "v8code"}
<1> DEFINE List == Steps[cmd.name]
<1>1. CASE cmd.name = "jsfunction"
  <2>1. List = <<"bound", "function", "funcinfo", "strbuf", "name", "path", "location", "out">>
    BY <1>1 DEF Steps
  <2>2. 8 \in DOMAIN List /\ List[8] = "out"
    BY <2>1
  <2> QED
    BY <1>1, <2>2 DEF HasOut
<1>2. CASE cmd.name = "v8function"
  <2>1. List = <<"function", "context", "funcinfo", "code", "strbuf", "name", "path",
                 "location", "scopeinfo", "instructions", "out">>
    BY <1>2 DEF Steps
  <2>2. 11 \in DOMAIN List /\ List[11] = "out"
    BY <2>1
  <2> QED
    BY <1>2, <2>2 DEF HasOut
<1>3. CASE cmd.name = "v8code"
  <2>1. List = <<"code", "instructions", "out">>
    BY <1>3 DEF Steps
  <2>2. 3 \in DOMAIN List /\ List[3] = "out"
    BY <2>1
  <2> QED
    BY <1>3, <2>2 DEF HasOut
<1>4. CASE cmd.name = "jsclosure"
  <2>1. List = <<"function", "context", "context_scopeinfo", "closure_vars">>
    BY <1>4 DEF Steps
  <2>2. \A i \in DOMAIN List : List[i] # "out"
    BY <2>1
  <2> QED
    BY <1>4, <2>2 DEF HasOut
<1>5. CASE cmd.name = "v8scopeinfo"
  <2>1. List = <<"scopeinfo", "params", "stack", "ctx">>
    BY <1>5 DEF Steps
  <2>2. \A i \in DOMAIN List : List[i] # "out"
    BY <2>1
  <2> QED
    BY <1>5, <2>2 DEF HasOut
<1>6. CASE cmd.name = "v8context"
  <2>1. List = <<"context", "slots">>
    BY <1>6 DEF Steps
  <2>2. \A i \in DOMAIN List : List[i] # "out"
    BY <2>1
  <2> QED
    BY <1>6, <2>2 DEF HasOut
<1> QED
  BY <1>1, <1>2, <1>3, <1>4, <1>5, <1>6 DEF FunctionNames

(* The place after a step that is not the last.                            *)
LEMMA NextPlace ==
    ASSUME InFunction,
           doing \notin {"idle", "searching", "out", "closure_vars", "ctx", "slots"}
    PROVE  /\ After(doing) \in FunctionPlaces[cmd.name] \ {"idle", "bound"}
           /\ After(doing) = "function" => doing = "bound"
<1>1. cmd.name \in FunctionNames
  BY NamesOfSteps DEF InFunction, FunctionCommand
<1>2. CASE cmd.name = "jsclosure"
  BY <1>2, AfterInClosure DEF InFunction, FunctionPlaces
<1>3. CASE cmd.name = "jsfunction"
  BY <1>3, AfterInFunction DEF InFunction, FunctionPlaces
<1>4. CASE cmd.name = "v8function"
  BY <1>4, AfterInV8Function DEF InFunction, FunctionPlaces
<1>5. CASE cmd.name = "v8scopeinfo"
  BY <1>5, AfterInScopeInfo DEF InFunction, FunctionPlaces
<1>6. CASE cmd.name = "v8context"
  BY <1>6, AfterInContext DEF InFunction, FunctionPlaces
<1>7. CASE cmd.name = "v8code"
  BY <1>7, AfterInCode DEF InFunction, FunctionPlaces
<1> QED
  BY <1>1, <1>2, <1>3, <1>4, <1>5, <1>6, <1>7 DEF FunctionNames
-----------------------------------------------------------------------------
(***************************************************************************)
(* What a command leaves behind.                                           *)
(***************************************************************************)

(* The blocks a command on functions may hold, and the one that stays when *)
(* a stack is printed: its source.                                         *)
Handles == {"code", "funcinfo", "scopeinfo", "scopeinfo elements", "context",
            "context elements", "function", "strbuf", "strbuf bytes"}
SourceBlock == [of |-> "source", gc |-> FALSE]

FunctionHolds ==
    /\ atstart.held \subseteq held
    /\ \A b \in held : b \in atstart.held \/ b \in Blocks(Handles, Collects(cmd))
    /\ doing = "idle" => held = atstart.held

(* v8_warnings is raised from the loading of the function to the end.      *)
Raised == Raises(cmd) /\ doing \notin {"idle", "bound", "function"}

DamagedBound ==
    /\ cmd.name = "jsfunction" /\ cmd.layout.bound
    /\ target.lost # {} \/ target.bindings = "gone"

FunctionLeaves ==
    /\ FunctionHolds
    /\ v8_warnings = IF Raised THEN 1 ELSE 0
    /\ indent = atstart.indent
    /\ misfreed \in BOOLEAN
    /\ misfreed # atstart.misfreed => DamagedBound

StartHolds == atstart.held \subseteq {SourceBlock}

FunctionInv == InFunction /\ FunctionLeaves /\ StartHolds

(* What is collected at the end of a command, and what it frees itself.    *)
LEMMA CollectedAll ==
    ASSUME InFunction, StartHolds, FunctionHolds, Collects(cmd)
    PROVE  Collected(held) = atstart.held
BY DEF Collected, FunctionHolds, StartHolds, SourceBlock, Blocks

LEMMA FreedAll ==
    ASSUME InFunction, StartHolds, FunctionHolds, ~Collects(cmd)
    PROVE  /\ Collected(maybefree(Freed, Collects(cmd))) = atstart.held
           /\ ~FreesCollected(Freed, Collects(cmd))
<1>1. cmd.name = "v8function"
  BY DEF Collects
<1>2. Freed = Handles
  BY <1>1 DEF Freed, Handles
<1>3. \A b \in atstart.held : b.of = "source" /\ ~b.gc /\ "source" \notin Handles
  BY DEF StartHolds, SourceBlock, Handles
<1>4. \A b \in held : b \in atstart.held \/ (b.of \in Handles /\ b.gc = FALSE)
  BY DEF FunctionHolds, Blocks
<1>5. maybefree(Freed, Collects(cmd)) = atstart.held
  BY <1>2, <1>3, <1>4 DEF maybefree, FunctionHolds
<1> QED
  BY <1>2, <1>3, <1>4, <1>5 DEF Collected, FreesCollected

LEMMA FreedCollected ==
    ASSUME InFunction, StartHolds, FunctionHolds, Collects(cmd)
    PROVE  /\ Collected(maybefree(Freed, Collects(cmd))) = atstart.held
           /\ ~FreesCollected(Freed, Collects(cmd))
BY CollectedAll DEF maybefree, FreesCollected

(* A handle is loaded, or the command ends or goes on at its frees.        *)
LEMMA LoadKeeps ==
    ASSUME FunctionInv, NEW blocks \in SUBSET Handles,
           doing \notin {"idle", "searching", "out", "closure_vars", "ctx", "slots", "bound"},
           UNCHANGED <<functionvars, misfreed>>,
           \/ Goto(After(doing)) /\ held' = held \cup Blocks(blocks, Collects(cmd))
           \/ Fails,
           v8_warnings' = IF Raises(cmd) /\ doing = "function" THEN v8_warnings + 1 ELSE v8_warnings
    PROVE  FunctionInv'
<1>1. /\ InFunction /\ FunctionLeaves /\ StartHolds /\ FunctionHolds
      /\ v8_warnings = IF Raised THEN 1 ELSE 0
      /\ cmd.name \in FunctionNames
  BY NamesOfSteps DEF FunctionInv, FunctionLeaves, InFunction, FunctionCommand
<1>2. cmd' = cmd /\ atstart' = atstart /\ indent' = indent /\ misfreed' = misfreed
  BY DEF functionvars
<1>3. StartHolds' /\ (indent = atstart.indent)' /\ (misfreed # atstart.misfreed => DamagedBound)'
  BY <1>1, <1>2 DEF StartHolds, FunctionLeaves, DamagedBound, target
<1>4. CASE Goto(After(doing)) /\ held' = held \cup Blocks(blocks, Collects(cmd))
  <2>1. doing' \in FunctionPlaces[cmd.name] \ {"idle", "bound", "function"}
    BY <1>1, <1>4, NextPlace DEF Goto
  <2>2. InFunction'
    BY <1>1, <1>2, <2>1 DEF InFunction
  <2>3. Blocks(blocks, Collects(cmd)) \subseteq Blocks(Handles, Collects(cmd))
    BY DEF Blocks
  <2>4. FunctionHolds'
    BY <1>1, <1>2, <1>4, <2>1, <2>3 DEF FunctionHolds, Collects, Blocks
  <2>5. (v8_warnings = IF Raised THEN 1 ELSE 0)'
    BY <1>1, <1>2, <2>1 DEF Raised, Raises
  <2> QED
    BY <1>2, <1>3, <2>2, <2>4, <2>5 DEF FunctionInv, FunctionLeaves
<1>5. CASE Fails /\ HasOut(cmd)
  <2>1. doing' = "out" /\ held' = held
    BY <1>5 DEF Fails
  <2>2. InFunction'
    BY <1>1, <1>2, <1>5, <2>1, WhoHasOut DEF InFunction, FunctionPlaces
  <2>3. FunctionHolds'
    BY <1>1, <1>2, <2>1 DEF FunctionHolds, Collects
  <2>4. (v8_warnings = IF Raised THEN 1 ELSE 0)'
    BY <1>1, <1>2, <2>1 DEF Raised, Raises
  <2> QED
    BY <1>2, <1>3, <2>2, <2>3, <2>4 DEF FunctionInv, FunctionLeaves
<1>6. CASE Fails /\ ~HasOut(cmd)
  <2>1. doing' = "idle" /\ held' = Collected(held)
    BY <1>6 DEF Fails, Return
  <2>2. cmd.name \in {"jsclosure", "v8scopeinfo", "v8context"}
    BY <1>1, <1>6, WhoHasOut DEF FunctionNames
  <2>3. InFunction'
    BY <1>1, <1>2, <2>1, <2>2 DEF InFunction, FunctionPlaces
  <2>4. FunctionHolds'
    BY <1>1, <1>2, <2>1, <2>2, CollectedAll DEF FunctionHolds, Collects
  <2>5. (v8_warnings = IF Raised THEN 1 ELSE 0)'
    BY <1>1, <1>2, <2>1, <2>2 DEF Raised, Raises
  <2> QED
    BY <1>2, <1>3, <2>3, <2>4, <2>5 DEF FunctionInv, FunctionLeaves
<1> QED
  BY <1>4, <1>5, <1>6

(* A command is over without the frees at its end: its blocks are all      *)
(* collected.                                                              *)
LEMMA ReturnKeeps ==
    ASSUME FunctionInv, NEW rv, Return(rv), Collects(cmd), ~Raised,
           UNCHANGED <<functionvars, misfreed, v8_warnings>>
    PROVE  FunctionInv'
<1>1. /\ InFunction /\ FunctionLeaves /\ StartHolds /\ FunctionHolds
      /\ v8_warnings = 0
      /\ cmd.name \in FunctionNames
  BY NamesOfSteps DEF FunctionInv, FunctionLeaves, InFunction, FunctionCommand
<1>2. cmd' = cmd /\ atstart' = atstart /\ indent' = indent /\ misfreed' = misfreed
  BY DEF functionvars
<1>3. doing' = "idle" /\ held' = atstart.held
  BY <1>1, CollectedAll DEF Return
<1>4. InFunction'
  BY <1>1, <1>2, <1>3 DEF InFunction, FunctionPlaces, FunctionNames
<1>5. FunctionHolds' /\ StartHolds'
  BY <1>1, <1>2, <1>3 DEF FunctionHolds, StartHolds
<1>6. (v8_warnings = IF Raised THEN 1 ELSE 0)'
  BY <1>1, <1>3 DEF Raised
<1> QED
  BY <1>1, <1>2, <1>4, <1>5, <1>6 DEF FunctionInv, FunctionLeaves, DamagedBound, target

(* A step that goes on with what it has.                                   *)
LEMMA GoesOnKeeps ==
    ASSUME FunctionInv, doing' \in FunctionPlaces[cmd.name] \ {"idle"},
           doing \in {"bound", "function"} <=> doing' \in {"bound", "function"},
           doing # "idle",
           UNCHANGED <<cmd, indent, atstart, held, v8_warnings>>,
           misfreed' \in BOOLEAN, misfreed' # misfreed => DamagedBound
    PROVE  FunctionInv'
<1>1. InFunction /\ FunctionLeaves /\ StartHolds /\ FunctionHolds
  BY DEF FunctionInv, FunctionLeaves
<1>2. InFunction' /\ FunctionHolds' /\ StartHolds'
  BY <1>1 DEF InFunction, FunctionHolds, StartHolds, Collects
<1>3. (v8_warnings = IF Raised THEN 1 ELSE 0)'
  BY <1>1 DEF FunctionLeaves, Raised, Raises
<1>4. (misfreed # atstart.misfreed => DamagedBound)'
  BY <1>1 DEF FunctionLeaves, DamagedBound, target
<1> QED
  BY <1>1, <1>2, <1>3, <1>4 DEF FunctionInv, FunctionLeaves

(* The frees at the end of a command.                                      *)
LEMMA OutKeeps ==
    ASSUME FunctionInv, out_label
    PROVE  FunctionInv'
<1>1. /\ InFunction /\ FunctionLeaves /\ StartHolds /\ FunctionHolds
      /\ cmd.name \in {"jsfunction", "v8function", "v8code"}
  BY NamesOfSteps
     DEF FunctionInv, FunctionLeaves, InFunction, FunctionCommand, out_label, FunctionPlaces,
         FunctionNames
<1>2. cmd' = cmd /\ atstart' = atstart /\ indent' = indent /\ doing' = "idle"
  BY DEF out_label, functionvars
<1>3. held' = atstart.held /\ (misfreed' = (misfreed \/ FALSE))
  <2>1. CASE Collects(cmd)
    BY <1>1, <2>1, FreedCollected DEF out_label
  <2>2. CASE ~Collects(cmd)
    BY <1>1, <2>2, FreedAll DEF out_label
  <2> QED
    BY <2>1, <2>2
<1>4. InFunction' /\ FunctionHolds' /\ StartHolds'
  BY <1>1, <1>2, <1>3 DEF InFunction, FunctionHolds, StartHolds, FunctionPlaces
<1>5. (v8_warnings = IF Raised THEN 1 ELSE 0)'
  BY <1>1, <1>2 DEF FunctionLeaves, Raised, Raises, out_label
<1>6. misfreed' \in BOOLEAN /\ (misfreed # atstart.misfreed => DamagedBound)'
  BY <1>1, <1>2, <1>3 DEF FunctionLeaves, DamagedBound, target
<1> QED
  BY <1>1, <1>2, <1>4, <1>5, <1>6 DEF FunctionInv, FunctionLeaves

LEMMA RangeOfVarTypes == Range(VarTypes) = {"params", "stack", "ctx"}
<1>1. DOMAIN VarTypes = 1..3 /\ VarTypes = <<"params", "stack", "ctx">>
  BY DEF VarTypes
<1>2. Range(VarTypes) = {VarTypes[i] : i \in 1..3}
  BY <1>1 DEF Range
<1>3. VarTypes[1] = "params" /\ VarTypes[2] = "stack" /\ VarTypes[3] = "ctx"
  BY <1>1
<1>4. \A i \in 1..3 : VarTypes[i] \in {"params", "stack", "ctx"}
  <2> SUFFICES ASSUME NEW i \in 1..3 PROVE VarTypes[i] \in {"params", "stack", "ctx"}
    OBVIOUS
  <2>1. i = 1 \/ i = 2 \/ i = 3
    OBVIOUS
  <2> QED
    BY <1>3, <2>1
<1>5. "params" \in Range(VarTypes) /\ "stack" \in Range(VarTypes) /\ "ctx" \in Range(VarTypes)
  <2>1. 1 \in 1..3 /\ 2 \in 1..3 /\ 3 \in 1..3
    OBVIOUS
  <2> QED
    BY <1>2, <1>3, <2>1
<1> QED
  BY <1>2, <1>4, <1>5

(* Every step of a command on functions.                                   *)
LEMMA FunctionKeeps ==
    ASSUME FunctionInv, FunctionStep
    PROVE  FunctionInv' /\ cmd' = cmd /\ atstart' = atstart
<1>0. /\ InFunction /\ FunctionLeaves /\ cmd.name \in FunctionNames
      /\ misfreed \in BOOLEAN
  BY NamesOfSteps DEF FunctionInv, FunctionLeaves, InFunction, FunctionCommand
<1>1. CASE v8function_load
  <2>1. doing = "function" /\ {"function"} \in SUBSET Handles
    BY <1>1 DEF v8function_load, Load, Handles
  <2> QED
    BY <1>1, <2>1, LoadKeeps DEF v8function_load, Load, functionvars
<1>2. CASE v8function_context
  <2>1. doing = "context" /\ {"context", "context elements"} \in SUBSET Handles
    BY <1>2 DEF v8function_context, Load, Handles
  <2> QED
    BY <1>2, <2>1, LoadKeeps DEF v8function_context, Load, functionvars
<1>3. CASE v8funcinfo_load
  <2>1. doing = "funcinfo" /\ {"funcinfo"} \in SUBSET Handles
    BY <1>3 DEF v8funcinfo_load, Load, Handles
  <2> QED
    BY <1>3, <2>1, LoadKeeps DEF v8funcinfo_load, Load, functionvars
<1>4. CASE v8code_load
  <2>1. doing = "code" /\ {"code"} \in SUBSET Handles
    BY <1>4 DEF v8code_load, Load, Handles
  <2> QED
    BY <1>4, <2>1, LoadKeeps DEF v8code_load, Load, functionvars
<1>5. CASE mdbv8_strbuf_alloc
  <2>1. doing = "strbuf" /\ {"strbuf", "strbuf bytes"} \in SUBSET Handles
    BY <1>5 DEF mdbv8_strbuf_alloc, Load, Handles
  <2> QED
    BY <1>5, <2>1, LoadKeeps DEF mdbv8_strbuf_alloc, Load, functionvars
<1>6. CASE v8context_scopeinfo
  <2>1. doing = "context_scopeinfo" /\ {"scopeinfo", "scopeinfo elements"} \in SUBSET Handles
    BY <1>6 DEF v8context_scopeinfo, Load, Handles
  <2> QED
    BY <1>6, <2>1, LoadKeeps DEF v8context_scopeinfo, Load, functionvars
<1>7. CASE v8scopeinfo_load
  <2>1. doing = "scopeinfo" /\ {"scopeinfo", "scopeinfo elements"} \in SUBSET Handles
    BY <1>7 DEF v8scopeinfo_load, Load, Handles
  <2> QED
    BY <1>7, <2>1, LoadKeeps DEF v8scopeinfo_load, Load, functionvars
<1>8. CASE v8function_scopeinfo
  <2>1. doing = "scopeinfo" /\ {"scopeinfo", "scopeinfo elements"} \in SUBSET Handles
    BY <1>8 DEF v8function_scopeinfo, Handles
  <2>2. \/ held' = held \cup Blocks({"scopeinfo", "scopeinfo elements"}, Collects(cmd))
        \/ held' = held \cup Blocks({}, Collects(cmd))
    BY <1>8 DEF v8function_scopeinfo, Collects, Blocks
  <2>3. {} \in SUBSET Handles
    OBVIOUS
  <2> QED
    BY <1>8, <2>1, <2>2, <2>3, LoadKeeps DEF v8function_scopeinfo, functionvars
<1>9. CASE v8boundfunction_load
  <2>1. doing = "bound" /\ cmd.name = "jsfunction" /\ UNCHANGED functionvars
    BY <1>0, <1>9 DEF v8boundfunction_load, InFunction, FunctionPlaces, FunctionNames
  <2>2. CASE Return("ok") /\ UNCHANGED <<misfreed, v8_warnings>>
    BY <2>1, <2>2, ReturnKeeps DEF Collects, Raised, functionvars
  <2>3. CASE /\ Goto(After(doing)) /\ UNCHANGED <<held, v8_warnings>>
             /\ misfreed' = (misfreed \/ (cmd.layout.bound /\ target.kind = "JSBoundFunction"))
             /\ ~(IF cmd.layout.bound THEN LoadsDirect ELSE LoadsBindings)
    <3>1. doing' = "function"
      BY <2>1, <2>3, AfterInFunction DEF Goto
    <3>2. misfreed' # misfreed => DamagedBound
      <4> SUFFICES ASSUME misfreed' # misfreed PROVE DamagedBound
        OBVIOUS
      <4>1. cmd.layout.bound /\ target.kind = "JSBoundFunction" /\ ~LoadsDirect
        BY <2>3, <1>0
      <4>2. ~BoundArray.ok \/ target.lost # {}
        BY <4>1 DEF LoadsDirect
      <4>3. ~BoundArray.ok => target.bindings = "gone"
        BY <4>1 DEF BoundArray, NoArray, Array
      <4> QED
        BY <2>1, <4>1, <4>2, <4>3 DEF DamagedBound
    <3>3. doing' \in FunctionPlaces[cmd.name] \ {"idle"}
      BY <2>1, <3>1 DEF FunctionPlaces
    <3> QED
      BY <1>0, <2>1, <2>3, <3>1, <3>2, <3>3, GoesOnKeeps DEF functionvars
  <2> QED
    BY <1>9, <2>1, <2>2, <2>3 DEF v8boundfunction_load
<1>10. CASE v8funcinfo_funcname
  <2>1. doing = "name" /\ UNCHANGED functionvars
    BY <1>10 DEF v8funcinfo_funcname
  <2>2. \/ Fails
        \/ Goto(After(doing)) /\ held' = held \cup Blocks({}, Collects(cmd))
    BY <1>10 DEF v8funcinfo_funcname, Blocks
  <2>3. {} \in SUBSET Handles
    OBVIOUS
  <2> QED
    BY <1>10, <2>1, <2>2, <2>3, LoadKeeps DEF v8funcinfo_funcname, functionvars
<1>11. CASE v8funcinfo_scriptpath
  <2>1. doing = "path" /\ UNCHANGED functionvars
    BY <1>11 DEF v8funcinfo_scriptpath
  <2>2. After(doing) \in FunctionPlaces[cmd.name] \ {"idle", "bound", "function"}
    BY <1>0, <2>1, NextPlace
  <2> QED
    BY <1>0, <1>11, <2>1, <2>2, GoesOnKeeps DEF v8funcinfo_scriptpath, Goto, functionvars
<1>12. CASE v8funcinfo_definition_location
  <2>1. doing = "location" /\ doing' = "searching"
    BY <1>12 DEF v8funcinfo_definition_location, Goto
  <2>2. doing' \in FunctionPlaces[cmd.name] \ {"idle"}
    BY <1>0, <2>1 DEF InFunction, FunctionPlaces, FunctionNames
  <2> QED
    BY <1>0, <1>12, <2>1, <2>2, GoesOnKeeps DEF v8funcinfo_definition_location
<1>13. CASE located
  <2>1. doing = "searching" /\ doing' \in {"out", "scopeinfo"}
        /\ cmd.name \in {"jsfunction", "v8function"}
        /\ (doing' = "scopeinfo" => cmd.name = "v8function")
    BY <1>13, AfterInFunction, AfterInV8Function DEF located, Goto
  <2>2. doing' \in FunctionPlaces[cmd.name] \ {"idle"}
    BY <2>1 DEF FunctionPlaces
  <2> QED
    BY <1>0, <1>13, <2>1, <2>2, GoesOnKeeps DEF located
<1>14. CASE do_v8code
  <2>1. doing = "instructions" /\ doing' = "out" /\ UNCHANGED functionvars
    BY <1>14 DEF do_v8code
  <2>2. doing' \in FunctionPlaces[cmd.name] \ {"idle"}
    BY <1>0, <2>1 DEF InFunction, FunctionPlaces, FunctionNames
  <2> QED
    BY <1>0, <1>14, <2>1, <2>2, GoesOnKeeps DEF do_v8code, functionvars
<1>15. CASE out_label
  BY <1>15, OutKeeps DEF out_label, functionvars
<1>16. CASE jsclosure
  <2>1. doing = "closure_vars" /\ cmd.name = "jsclosure"
    BY <1>0, <1>16 DEF jsclosure, InFunction, FunctionPlaces, FunctionNames
  <2>2. PICK rv : Return(rv)
    BY <1>16 DEF jsclosure
  <2> QED
    BY <1>16, <2>1, <2>2, ReturnKeeps DEF jsclosure, functionvars, Collects, Raised, Raises
<1>17. CASE do_v8scopeinfo_vartype_print
  <2>1. doing \in {"params", "stack", "ctx"} /\ cmd.name = "v8scopeinfo"
    <3>1. doing \in {"params", "stack", "ctx"}
      BY <1>17, RangeOfVarTypes DEF do_v8scopeinfo_vartype_print
    <3> QED
      BY <1>0, <3>1 DEF InFunction, FunctionPlaces, FunctionNames
  <2>2. UNCHANGED <<functionvars, misfreed, v8_warnings>> /\ Collects(cmd) /\ ~Raised
    BY <1>17, <2>1 DEF do_v8scopeinfo_vartype_print, Collects, Raised, Raises
  <2>3. \/ \E rv : Return(rv)
        \/ Goto(After(doing)) /\ UNCHANGED held /\ After(doing) # "return"
    BY <1>17 DEF do_v8scopeinfo_vartype_print
  <2>4. CASE \E rv : Return(rv)
    BY <2>2, <2>4, ReturnKeeps DEF functionvars
  <2>5. CASE Goto(After(doing)) /\ UNCHANGED held /\ After(doing) # "return"
    <3>1. doing' \in {"stack", "ctx"}
      BY <2>1, <2>5, AfterInScopeInfo DEF Goto
    <3>2. doing' \in FunctionPlaces[cmd.name] \ {"idle"}
      BY <2>1, <3>1 DEF FunctionPlaces
    <3> QED
      BY <1>0, <2>1, <2>2, <2>5, <3>1, <3>2, GoesOnKeeps DEF functionvars
  <2> QED
    BY <2>3, <2>4, <2>5
<1>18. CASE v8context
  <2>1. doing = "slots" /\ cmd.name = "v8context"
    BY <1>0, <1>18 DEF v8context, InFunction, FunctionPlaces, FunctionNames
  <2> QED
    BY <1>18, <2>1, ReturnKeeps DEF v8context, functionvars, Collects, Raised, Raises
<1> QED
  BY <1>1, <1>2, <1>3, <1>4, <1>5, <1>6, <1>7, <1>8, <1>9, <1>10, <1>11, <1>12, <1>13, <1>14,
     <1>15, <1>16, <1>17, <1>18 DEF FunctionStep

(* The frames of a stack, and what ::jsstack and ::jsframe leave.          *)
StackTyped ==
    /\ stack \in Stacks /\ at \in DOMAIN stack
    /\ fails \subseteq DOMAIN stack
    /\ doing = "registers" => at = 1

Indented == IF doing \in {"searching", "arguments"} /\ o.prop = NULL THEN 10 ELSE 0

StackLeaves ==
    /\ atstart.held \subseteq held /\ held \subseteq {SourceBlock}
    /\ held # atstart.held => \E i \in DOMAIN stack : stack[i].end = "beyond"
    /\ v8_warnings = 0
    /\ misfreed = atstart.misfreed /\ misfreed \in BOOLEAN
    /\ indent \in Int /\ atstart.indent \in Int
    /\ \/ \E i \in fails : "line ends" \in stack[i].lost
       \/ indent = atstart.indent + Indented

StackInv == InStack /\ StackTyped /\ StackLeaves

LEMMA StacksTyped ==
    ASSUME NEW s \in Stacks
    PROVE  /\ s \in Seq(Frame) /\ Len(s) \in Nat \ {0} /\ DOMAIN s = 1..Len(s)
           /\ \A i \in DOMAIN s : s[i] \in Frame /\ Len(s[i].pushed) <= Len(Args) + 1
<1>1. s \in Seq(Frame) /\ s # <<>>
  BY FramesAssumption
<1>2. Len(s) \in Nat \ {0} /\ DOMAIN s = 1..Len(s)
  BY <1>1, EmptySeq, LenProperties
<1>3. \A i \in DOMAIN s : s[i] \in Frame
  BY <1>1, <1>2, ElementOfSeq
<1> QED
  BY <1>1, <1>2, <1>3, FramesAssumption

(* What the end of a frame does but for what it prints.                    *)
LEMMA FrameEndsAt ==
    ASSUME StackInv, NEW rv, NEW lines, NEW skipped, FrameEnds(rv, lines, skipped)
    PROVE  /\ doing' \in {"idle", "walk"}
           /\ UNCHANGED <<cmd, commands, misfreed, v8_warnings, atstart, stack, at>>
           /\ fails' = IF rv = "error" THEN fails \cup {at} ELSE fails
           /\ InStack' /\ StackTyped'
<1>1. /\ doing' \in {"idle", "walk"}
      /\ UNCHANGED <<cmd, commands, misfreed, v8_warnings, atstart, stack, at>>
      /\ fails' = IF rv = "error" THEN fails \cup {at} ELSE fails
  BY DEF FrameEnds, unchangedHere
<1>2. InStack'
  BY <1>1 DEF StackInv, InStack, StackPlaces
<1>3. StackTyped'
  BY <1>1 DEF StackInv, StackTyped
<1> QED
  BY <1>1, <1>2, <1>3

(* A step that leaves things as they are, but for the failures.            *)
LEMMA StackSame ==
    ASSUME StackInv, InStack', StackTyped', Indented' = Indented,
           fails \subseteq fails',
           UNCHANGED <<cmd, held, misfreed, v8_warnings, atstart, stack, indent>>
    PROVE  StackInv'
<1>1. (held # atstart.held => \E i \in DOMAIN stack : stack[i].end = "beyond")'
  BY DEF StackInv, StackLeaves
<1>2. (\/ \E i \in fails : "line ends" \in stack[i].lost
       \/ indent = atstart.indent + Indented)'
  BY DEF StackInv, StackLeaves
<1> QED
  BY <1>1, <1>2 DEF StackInv, StackLeaves

LEMMA DoJsframeKeeps ==
    ASSUME StackInv, do_jsframe
    PROVE  StackInv' /\ cmd' = cmd /\ atstart' = atstart
<1>1. /\ doing = "frame" /\ UNCHANGED <<held, indent, searchvars>> /\ InStack
  BY DEF do_jsframe, StackInv
<1>2. CASE \E rv, lines, skipped : FrameEnds(rv, lines, skipped)
  <2>1. PICK rv, lines, skipped : FrameEnds(rv, lines, skipped)
    BY <1>2
  <2>2. /\ doing' \in {"idle", "walk"}
        /\ UNCHANGED <<cmd, commands, misfreed, v8_warnings, atstart, stack, at>>
        /\ fails \subseteq fails'
        /\ InStack' /\ StackTyped'
    BY <2>1, FrameEndsAt
  <2>3. Indented = 0 /\ Indented' = 0
    BY <1>1, <2>2 DEF Indented
  <2> QED
    BY <1>1, <2>2, <2>3, StackSame
<1>3. CASE /\ doing' = "file"
           /\ UNCHANGED <<unchangedHere, at, topskipped, fails, result>>
  <2>1. InStack' /\ StackTyped' /\ Indented = 0 /\ Indented' = 0
    BY <1>1, <1>3 DEF InStack, StackPlaces, StackTyped, Indented, unchangedHere, StackInv
  <2> QED
    BY <1>1, <1>3, <2>1, StackSame DEF unchangedHere
<1> QED
  BY <1>2, <1>3 DEF do_jsframe

LEMMA PositionKeeps ==
    ASSUME StackInv, Position
    PROVE  StackInv' /\ cmd' = cmd /\ atstart' = atstart
<1>1. doing = "file" /\ UNCHANGED held /\ InStack /\ StackTyped /\ StackLeaves /\ Indented = 0
  BY DEF Position, StackInv, Indented
<1>2. CASE \E rv, lines, skipped : FrameEnds(rv, lines, skipped) /\ UNCHANGED indent
  <2>1. PICK rv, lines, skipped : FrameEnds(rv, lines, skipped) /\ UNCHANGED indent
    BY <1>2
  <2>2. /\ doing' \in {"idle", "walk"}
        /\ UNCHANGED <<cmd, commands, misfreed, v8_warnings, atstart, stack, at>>
        /\ fails \subseteq fails'
        /\ InStack' /\ StackTyped'
    BY <2>1, FrameEndsAt
  <2>3. Indented' = 0
    BY <2>2 DEF Indented
  <2> QED
    BY <1>1, <2>1, <2>2, <2>3, StackSame
<1>3. CASE /\ indent' = IF o.prop = NULL THEN indent + 10 ELSE indent
           /\ "line ends" \in f.lost
           /\ \E lines, skipped : FrameEnds("error", lines, skipped)
  <2>1. PICK lines, skipped : FrameEnds("error", lines, skipped)
    BY <1>3
  <2>2. /\ doing' \in {"idle", "walk"}
        /\ UNCHANGED <<cmd, commands, misfreed, v8_warnings, atstart, stack, at>>
        /\ fails' = fails \cup {at}
        /\ InStack' /\ StackTyped'
    BY <2>1, FrameEndsAt
  <2>3. \E i \in fails' : "line ends" \in stack'[i].lost
    BY <1>3, <2>2 DEF f
  <2>0. indent \in Int
    BY <1>1 DEF StackLeaves
  <2>4. indent' \in Int
    <3>1. indent' = indent \/ indent' = indent + 10
      BY <1>3
    <3> QED
      BY <2>0, <3>1
  <2> QED
    BY <1>1, <2>2, <2>3, <2>4 DEF StackInv, StackLeaves
<1>4. CASE /\ indent' = IF o.prop = NULL THEN indent + 10 ELSE indent
           /\ doing' = "searching"
           /\ UNCHANGED <<unchangedHere, at, nskipped, topskipped, fails, result>>
  <2>1. InStack' /\ StackTyped' /\ Indented' = IF o.prop = NULL THEN 10 ELSE 0
    BY <1>1, <1>4 DEF InStack, StackPlaces, StackTyped, Indented, unchangedHere, o
  <2>0. /\ indent \in Int /\ atstart.indent \in Int
        /\ \/ \E i \in fails : "line ends" \in stack[i].lost
           \/ indent = atstart.indent + 0
    BY <1>1 DEF StackLeaves
  <2>2. indent' \in Int
    <3>1. indent' = indent \/ indent' = indent + 10
      BY <1>4
    <3>2. indent \in Int
      BY <2>0
    <3> QED
      BY <3>1, <3>2
  <2>4. indent = atstart.indent + 0 => indent' = atstart.indent + Indented'
    <3>1. CASE o.prop = NULL
      BY <1>4, <2>0, <2>1, <3>1
    <3>2. CASE o.prop # NULL
      BY <1>4, <2>0, <2>1, <3>2
    <3> QED
      BY <3>1, <3>2
  <2>3. (\/ \E i \in fails : "line ends" \in stack[i].lost
         \/ indent = atstart.indent + Indented)'
    BY <1>4, <2>0, <2>4 DEF unchangedHere
  <2> QED
    BY <1>1, <1>4, <2>1, <2>2, <2>3 DEF StackInv, StackLeaves, unchangedHere
<1> QED
  BY <1>2, <1>3, <1>4 DEF Position

LEMMA PlacedKeeps ==
    ASSUME StackInv, Placed
    PROVE  StackInv' /\ cmd' = cmd /\ atstart' = atstart
<1>1. doing = "searching" /\ UNCHANGED <<held, indent>> /\ InStack /\ StackTyped /\ StackLeaves
  BY DEF Placed, StackInv
<1>2. CASE o.prop = "posn" /\ FrameEnds("ok", Line("posn", Found), nskipped)
  <2>1. /\ doing' \in {"idle", "walk"}
        /\ UNCHANGED <<cmd, commands, misfreed, v8_warnings, atstart, stack, at>>
        /\ fails \subseteq fails'
        /\ InStack' /\ StackTyped'
    BY <1>2, FrameEndsAt
  <2>2. o.prop # NULL
    BY <1>2, FramesAssumption
  <2>3. Indented = 0 /\ Indented' = 0
    BY <2>1, <2>2 DEF Indented
  <2> QED
    BY <1>1, <2>1, <2>3, StackSame
<1>3. CASE /\ doing' = "arguments"
           /\ UNCHANGED <<unchangedHere, at, nskipped, topskipped, fails, result>>
  <2>1. InStack' /\ StackTyped' /\ Indented' = Indented
    BY <1>1, <1>3 DEF InStack, StackPlaces, StackTyped, Indented, unchangedHere, o
  <2> QED
    BY <1>1, <1>3, <2>1, StackSame DEF unchangedHere
<1> QED
  BY <1>2, <1>3 DEF Placed

LEMMA ArgumentsKeeps ==
    ASSUME StackInv, Arguments
    PROVE  StackInv' /\ cmd' = cmd /\ atstart' = atstart
<1>1. doing = "arguments" /\ InStack /\ StackTyped /\ StackLeaves
  BY DEF Arguments, StackInv
<1>2. \E rv, lines, skipped : FrameEnds(rv, lines, skipped)
  BY DEF Arguments
<1>3. /\ doing' \in {"idle", "walk"} /\ Indented' = 0
      /\ UNCHANGED <<cmd, commands, misfreed, v8_warnings, atstart, stack, at>>
      /\ fails \subseteq fails'
      /\ InStack' /\ StackTyped'
  <2>1. PICK rv, lines, skipped : FrameEnds(rv, lines, skipped)
    BY <1>2
  <2> QED
    BY <2>1, FrameEndsAt DEF Indented
<1>4. CASE o.prop = NULL /\ Lines /\ indent' = indent - 10
  <2>1. held' = held \/ (f.end = "beyond" /\ held' = held \cup {SourceBlock})
    BY <1>4 DEF Lines, SourceBlock
  <2>2. /\ atstart'.held \subseteq held' /\ held' \subseteq {SourceBlock}
        /\ held' # atstart'.held => \E i \in DOMAIN stack' : stack'[i].end = "beyond"
    BY <1>1, <1>3, <2>1 DEF StackLeaves, StackTyped, f
  <2>3. Indented = 10
    BY <1>1, <1>4 DEF Indented
  <2>4. /\ indent' \in Int /\ atstart'.indent \in Int
        /\ \/ \E i \in fails' : "line ends" \in stack'[i].lost
           \/ indent' = atstart'.indent + Indented'
    <3>1. /\ indent \in Int /\ atstart.indent \in Int
          /\ \/ \E i \in fails : "line ends" \in stack[i].lost
             \/ indent = atstart.indent + 10
      BY <1>1, <2>3 DEF StackLeaves
    <3>2. indent' \in Int /\ (indent = atstart.indent + 10 => indent' = atstart.indent + 0)
      <4>1. indent' = indent - 10
        BY <1>4
      <4>2. indent \in Int /\ atstart.indent \in Int
        BY <3>1
      <4> QED
        BY <4>1, <4>2
    <3> QED
      BY <1>3, <3>1, <3>2
  <2> QED
    BY <1>1, <1>3, <2>2, <2>4 DEF StackInv, StackLeaves
<1>5. CASE o.prop # NULL /\ UNCHANGED <<held, indent>>
  <2>1. Indented = 0
    BY <1>5 DEF Indented
  <2> QED
    BY <1>3, <1>5, <2>1, StackSame
<1> QED
  BY <1>4, <1>5 DEF Arguments

(* Every step of a command on a stack.                                     *)
LEMMA StackKeeps ==
    ASSUME StackInv, FrameStep
    PROVE  StackInv' /\ cmd' = cmd /\ atstart' = atstart
<1>1. CASE do_jsframe
  BY <1>1, DoJsframeKeeps
<1>2. CASE Position
  BY <1>2, PositionKeeps
<1>3. CASE Placed
  BY <1>3, PlacedKeeps
<1>4. CASE Arguments
  BY <1>4, ArgumentsKeeps
<1>5. CASE walk_jsframes_step
  <2>1. /\ doing = "walk" /\ doing' = "frame" /\ at < Len(stack) /\ at' = at + 1
        /\ UNCHANGED <<cmd, held, indent, misfreed, v8_warnings, atstart, stack, fails>>
    BY <1>5 DEF walk_jsframes_step, unchangedHere
  <2>2. StackTyped'
    BY <2>1, StacksTyped DEF StackInv, StackTyped
  <2>3. InStack' /\ Indented = 0 /\ Indented' = 0
    BY <2>1 DEF StackInv, InStack, StackPlaces, Indented
  <2> QED
    BY <2>1, <2>2, <2>3, StackSame
<1>6. CASE walk_done
  <2>1. /\ doing = "walk" /\ doing' = "idle"
        /\ UNCHANGED <<cmd, held, indent, misfreed, v8_warnings, atstart, stack, fails, at>>
    BY <1>6 DEF walk_done, unchangedHere
  <2>2. InStack' /\ StackTyped' /\ Indented = 0 /\ Indented' = 0
    BY <2>1 DEF StackInv, InStack, StackPlaces, Indented, StackTyped
  <2> QED
    BY <2>1, <2>2, StackSame
<1>7. CASE load_current_context
  <2>1. /\ doing = "registers" /\ doing' \in {"frame", "idle"}
        /\ UNCHANGED <<cmd, held, indent, misfreed, v8_warnings, atstart, stack, fails, at>>
    BY <1>7 DEF load_current_context, unchangedHere
  <2>2. InStack' /\ StackTyped' /\ Indented = 0 /\ Indented' = 0
    BY <2>1 DEF StackInv, InStack, StackPlaces, Indented, StackTyped
  <2> QED
    BY <2>1, <2>2, StackSame
<1> QED
  BY <1>1, <1>2, <1>3, <1>4, <1>5, <1>6, <1>7 DEF FrameStep

(* All that is known of what commands leave: while one runs, and between   *)
(* two of them.                                                            *)
LeavesInv ==
    /\ \/ cmd = NULL /\ doing = "idle" /\ out = <<>>
       \/ FunctionInv
       \/ StackInv
    /\ doing = "idle" => held \subseteq {SourceBlock} /\ v8_warnings = 0
    /\ indent \in Int /\ misfreed \in BOOLEAN

LEMMA StepOfFunction ==
    ASSUME LeavesInv, FunctionStep
    PROVE  FunctionInv /\ doing # "idle"
<1>1. doing # "idle" /\ doing \notin StackPlaces \ {"searching"}
  BY RangeOfVarTypes
     DEF FunctionStep, v8function_load, v8function_context, v8funcinfo_load, v8code_load,
         mdbv8_strbuf_alloc, v8context_scopeinfo, v8scopeinfo_load, v8function_scopeinfo, Load,
         v8boundfunction_load, v8funcinfo_funcname, v8funcinfo_scriptpath,
         v8funcinfo_definition_location, located, do_v8code, out_label,
         jsclosure, do_v8scopeinfo_vartype_print, v8context, StackPlaces
<1>2. ASSUME StackInv PROVE FALSE
  <2>1. doing = "searching" /\ cmd.name \in {"jsstack", "jsframe"}
    BY <1>1, <1>2 DEF StackInv, InStack, StackCommand
  <2>2. located
    BY <2>1, RangeOfVarTypes
       DEF FunctionStep, v8function_load, v8function_context, v8funcinfo_load, v8code_load,
           mdbv8_strbuf_alloc, v8context_scopeinfo, v8scopeinfo_load, v8function_scopeinfo, Load,
           v8boundfunction_load, v8funcinfo_funcname, v8funcinfo_scriptpath,
           v8funcinfo_definition_location, do_v8code, out_label,
           jsclosure, do_v8scopeinfo_vartype_print, v8context
  <2> QED
    BY <2>1, <2>2 DEF located
<1> QED
  BY <1>1, <1>2 DEF LeavesInv

LEMMA StepOfStack ==
    ASSUME LeavesInv, FrameStep
    PROVE  StackInv /\ doing # "idle"
<1>1. doing \in StackPlaces \ {"idle"}
  BY DEF FrameStep, do_jsframe, Position, Placed, Arguments, walk_jsframes_step, walk_done,
         load_current_context, StackPlaces
<1>2. ASSUME FunctionInv PROVE FALSE
  <2>1. doing = "searching" /\ cmd.name \in FunctionNames
    BY <1>1, <1>2, NamesOfSteps
       DEF FunctionInv, InFunction, FunctionCommand, FunctionPlaces, FunctionNames, StackPlaces
  <2>2. Placed
    BY <2>1 DEF FrameStep, do_jsframe, Position, Arguments, walk_jsframes_step, walk_done,
         load_current_context
  <2> QED
    BY <2>1, <2>2 DEF Placed, FunctionNames
<1> QED
  BY <1>1, <1>2 DEF LeavesInv

(* A command begins with what the commands before it have left.            *)
LEMMA FunctionBegins ==
    ASSUME LeavesInv, FunctionCommands, UNCHANGED framevars
    PROVE  FunctionInv' /\ doing' # "idle" /\ result' = "none" /\ out' = <<>>
<1>1. PICK name \in DOMAIN Steps, L \in Layouts, t \in Targets :
         /\ L.bound \/ t.kind # "JSBoundFunction"
         /\ Begin([name |-> name, layout |-> L, target |-> t], Steps[name][1])
  BY DEF FunctionCommands
<1> DEFINE c == [name |-> name, layout |-> L, target |-> t]
<1>2. /\ cmd' = c /\ doing' = Steps[name][1] /\ result' = "none" /\ out' = <<>>
      /\ atstart' = [held |-> held, indent |-> indent, misfreed |-> misfreed]
      /\ UNCHANGED <<held, misfreed, indent, v8_warnings>> /\ doing = "idle"
  BY <1>1 DEF Begin, Ready
<1>3. c \in FunctionCommand /\ c.name = name /\ name \in FunctionNames
  BY <1>1, NamesOfSteps DEF FunctionCommand
<1>4. /\ Steps[name][1] \in FunctionPlaces[name] \ {"idle"}
      /\ name \in {"v8function", "jsfunction"} => Steps[name][1] \in {"bound", "function"}
  <2>1. CASE name = "jsclosure"
    BY <2>1 DEF Steps, FunctionPlaces
  <2>2. CASE name = "jsfunction"
    BY <2>2 DEF Steps, FunctionPlaces
  <2>3. CASE name = "v8function"
    BY <2>3 DEF Steps, FunctionPlaces
  <2>4. CASE name = "v8scopeinfo"
    BY <2>4 DEF Steps, FunctionPlaces
  <2>5. CASE name = "v8context"
    BY <2>5 DEF Steps, FunctionPlaces
  <2>6. CASE name = "v8code"
    BY <2>6 DEF Steps, FunctionPlaces
  <2> QED
    BY <1>3, <2>1, <2>2, <2>3, <2>4, <2>5, <2>6 DEF FunctionNames
<1>5. InFunction'
  BY <1>2, <1>3, <1>4 DEF InFunction
<1>6. StartHolds' /\ FunctionHolds'
  BY <1>2, <1>4 DEF LeavesInv, StartHolds, FunctionHolds
<1>7. ~Raised'
  BY <1>2, <1>3, <1>4 DEF Raised, Raises
<1> QED
  BY <1>2, <1>4, <1>5, <1>6, <1>7 DEF LeavesInv, FunctionInv, FunctionLeaves

LEMMA StackBegins ==
    ASSUME LeavesInv, FrameCommands
    PROVE  /\ StackInv' /\ doing' \in {"walk", "registers"} /\ result' = "none" /\ out' = <<>>
           /\ at' = 1 /\ fails' = {} /\ nskipped' = 0 /\ topskipped' = 0
           /\ doing' = IF cmd'.addr THEN "walk" ELSE "registers"
<1>1. PICK name \in {"jsstack", "jsframe"}, s \in Stacks, opts \in Options,
           addr \in BOOLEAN, broken \in BOOLEAN :
        /\ name = "jsframe" => addr
        /\ Begin([name |-> name, options |-> opts, addr |-> addr, broken |-> broken],
                 IF addr THEN "walk" ELSE "registers")
        /\ stack' = s /\ at' = 1
        /\ nskipped' = 0 /\ topskipped' = 0 /\ fails' = {}
  BY DEF FrameCommands
<1> DEFINE c == [name |-> name, options |-> opts, addr |-> addr, broken |-> broken]
<1>2. /\ cmd' = c /\ result' = "none" /\ out' = <<>> /\ c.addr = addr
      /\ doing' = IF addr THEN "walk" ELSE "registers"
      /\ atstart' = [held |-> held, indent |-> indent, misfreed |-> misfreed]
      /\ UNCHANGED <<held, misfreed, indent, v8_warnings>> /\ doing = "idle"
  BY <1>1 DEF Begin, Ready
<1>3. InStack'
  BY <1>1, <1>2 DEF InStack, StackCommand, StackPlaces
<1>4. StackTyped'
  BY <1>1, <1>2, StacksTyped DEF StackTyped
<1>5. Indented' = 0
  BY <1>2 DEF Indented
<1>6. indent' \in Int /\ atstart'.indent \in Int /\ indent' = atstart'.indent + 0
  <2>1. indent \in Int
    BY DEF LeavesInv
  <2> QED
    BY <1>2, <2>1
<1>7. StackLeaves'
  BY <1>2, <1>5, <1>6 DEF LeavesInv, StackLeaves
<1> QED
  BY <1>1, <1>2, <1>3, <1>4, <1>7 DEF StackInv

LEMMA LeavesInductive == LeavesInv /\ [Next]_vars => LeavesInv'
<1> SUFFICES ASSUME LeavesInv, [Next]_vars PROVE LeavesInv'
  OBVIOUS
<1>1. ASSUME FunctionInv' PROVE LeavesInv'
  <2>1. (doing = "idle" => held \subseteq {SourceBlock} /\ v8_warnings = 0)'
    BY <1>1 DEF FunctionInv, FunctionLeaves, FunctionHolds, StartHolds, Raised
  <2>2. misfreed' \in BOOLEAN /\ indent' = atstart'.indent
    BY <1>1 DEF FunctionInv, FunctionLeaves
  <2>3. indent' \in Int
    <3>1. CASE FunctionStep
      <4>1. indent = atstart.indent /\ atstart' = atstart /\ indent \in Int
        BY <3>1, StepOfFunction, FunctionKeeps DEF FunctionInv, FunctionLeaves, LeavesInv
      <4> QED
        BY <2>2, <4>1
    <3>2. CASE FunctionCommands
      BY <3>2 DEF FunctionCommands, Begin, LeavesInv
    <3>3. CASE FrameStep \/ FrameCommands
      BY <3>3, StepOfStack, StackKeeps, StackBegins DEF StackInv, StackLeaves
    <3>4. CASE Search \/ UNCHANGED vars
      BY <3>4 DEF Search, vars, sessionvars, LeavesInv
    <3> QED
      BY <3>1, <3>2, <3>3, <3>4 DEF Next, Step
  <2> QED
    BY <1>1, <2>1, <2>2, <2>3 DEF LeavesInv
<1>2. ASSUME StackInv' PROVE LeavesInv'
  BY <1>2 DEF LeavesInv, StackInv, StackLeaves
<1>3. CASE FunctionStep /\ UNCHANGED framevars
  BY <1>1, <1>3, StepOfFunction, FunctionKeeps
<1>4. CASE FrameStep
  BY <1>2, <1>4, StepOfStack, StackKeeps
<1>5. CASE FunctionCommands /\ UNCHANGED framevars
  BY <1>1, <1>5, FunctionBegins
<1>6. CASE FrameCommands
  BY <1>2, <1>6, StackBegins
<1>7. CASE \/ Search /\ UNCHANGED framevars
           \/ UNCHANGED vars
  <2>1. UNCHANGED <<session, out, held, indent, framevars>>
    BY <1>7 DEF Search, vars, sessionvars
  <2>2. UNCHANGED <<cmd, doing, misfreed, v8_warnings, atstart, out, held, indent, stack, at, fails>>
    BY <2>1 DEF session, framevars
  <2>3. CASE FunctionInv
    <3>1. FunctionInv'
      BY <2>2, <2>3 DEF FunctionInv, InFunction, FunctionLeaves, FunctionHolds, StartHolds, Raised,
                        DamagedBound, target
    <3> QED
      BY <1>1, <3>1
  <2>4. CASE StackInv
    <3>1. StackInv'
      BY <2>2, <2>4 DEF StackInv, InStack, StackLeaves, StackTyped, Indented, o
    <3> QED
      BY <1>2, <3>1
  <2> QED
    BY <2>2, <2>3, <2>4 DEF LeavesInv
<1> QED
  BY <1>3, <1>4, <1>5, <1>6, <1>7 DEF Next, Step

LEMMA LeavesInvariant == Spec => []LeavesInv
<1>1. ASSUME Init PROVE LeavesInv
  <2>1. cmd = NULL /\ doing = "idle" /\ out = <<>> /\ held = {} /\ v8_warnings = 0
    BY <1>1 DEF Init, SessionInit
  <2>2. indent = 0 /\ misfreed = FALSE
    BY <1>1 DEF Init, SessionInit
  <2>3. indent \in Int /\ misfreed \in BOOLEAN
    <3>1. 0 \in Int /\ FALSE \in BOOLEAN
      OBVIOUS
    <3> QED
      BY <2>2, <3>1, Zenon
  <2> QED
    BY <2>1, <2>3 DEF LeavesInv
<1> QED
  BY <1>1, LeavesInductive, PTL DEF Spec

(* A command leaves nothing behind, however it ends and whatever the       *)
(* commands before it have left: its blocks are collected or freed, but    *)
(* for the source of a function that ends after it (jsfunc_lines);         *)
(* v8_warnings is as it was, and so is the indentation, unless a frame     *)
(* lacked its line endings (do_jsframe); nothing that is collected is      *)
(* freed, but for a damaged JSBoundFunction (v8boundfunction_load_direct). *)
THEOREM NothingLeft == Spec => []LeavesNothing
<1>1. LeavesInv => LeavesNothing
  <2> SUFFICES ASSUME LeavesInv, doing = "idle", cmd # NULL PROVE LeavesNothing
    BY DEF LeavesNothing
  <2>1. held \subseteq {SourceBlock} /\ v8_warnings = 0
    BY DEF LeavesInv
  <2>2. {b \in held : b.of # "source"} = {}
    BY <2>1 DEF SourceBlock
  <2>3. CASE FunctionInv
    BY <2>1, <2>2, <2>3 DEF LeavesNothing, FunctionInv, FunctionLeaves, FunctionHolds, DamagedBound
  <2>4. CASE StackInv
    <3>1. Indented = 0
      BY DEF Indented
    <3>2. indent \in Int /\ atstart.indent \in Int
      BY <2>4 DEF StackInv, StackLeaves
    <3>3. \/ indent = atstart.indent + Indented
          \/ \E i \in fails : "line ends" \in stack[i].lost
      BY <2>4 DEF StackInv, StackLeaves
    <3>4. atstart.indent + 0 = atstart.indent
      BY <3>2
    <3>5. indent # atstart.indent => \E i \in fails : "line ends" \in stack[i].lost
      BY <3>1, <3>3, <3>4
    <3> QED
      BY <2>1, <2>2, <2>4, <3>5 DEF LeavesNothing, StackInv, StackLeaves
  <2> QED
    BY <2>3, <2>4 DEF LeavesInv
<1> QED
  BY <1>1, LeavesInvariant, PTL
-----------------------------------------------------------------------------
(* The search in the session: a command begins one on the table of its     *)
(* function, and ends it before it goes on.                                *)
LEMMA SearchIsOver == SearchInv /\ EndSearch => SearchInv'
BY DEF EndSearch, SearchInv, Searching, LineRight, SearchInBounds, size

LEMMA SearchSame == SearchInv /\ UNCHANGED searchvars => SearchInv'
BY DEF searchvars, SearchInv, Searching, Bracket, LineRight, SearchInBounds, size, Data

LEMMA SearchGoesOn == SearchInv /\ SearchStep => SearchInv'
BY NarrowKeeps
   DEF SearchStep, LoopEnds, SearchInv, Searching, Bracket, LineRight, SearchInBounds, size, Data

LEMMA FunctionSearches ==
    ASSUME SearchInv, FunctionInv, FunctionStep
    PROVE  SearchInv'
<1>1. CASE located
  BY <1>1, SearchIsOver DEF located
<1>2. CASE v8funcinfo_definition_location
  <2>1. BeginSearch("definition_location", target.ends, target.position)
    BY <1>2 DEF v8funcinfo_definition_location
  <2>2. target \in Target
    BY ClosuresAssumption DEF FunctionInv, InFunction, FunctionCommand, target
  <2>3. target.ends \in Tables \cup {Undefined} /\ target.position \in Nat
    BY <2>2, SearchAssumption DEF Target
  <2> QED
    BY <2>1, <2>3, BeginBrackets DEF Callers
<1>3. CASE ~located /\ ~v8funcinfo_definition_location
  <2>1. UNCHANGED searchvars
    BY <1>3
       DEF FunctionStep, v8function_load, v8function_context, v8funcinfo_load, v8code_load,
           mdbv8_strbuf_alloc, v8context_scopeinfo, v8scopeinfo_load, v8function_scopeinfo, Load,
           v8boundfunction_load, v8funcinfo_funcname, v8funcinfo_scriptpath, do_v8code, out_label,
           jsclosure, do_v8scopeinfo_vartype_print, v8context, functionvars
  <2> QED
    BY <2>1, SearchSame
<1> QED
  BY <1>1, <1>2, <1>3

LEMMA StackSearches ==
    ASSUME SearchInv, StackInv, FrameStep
    PROVE  SearchInv'
<1>1. CASE Placed
  BY <1>1, SearchIsOver DEF Placed
<1>2. CASE Position
  <2>1. CASE BeginSearch("jsfunc_lineno", f.ends, f.position)
    <3>1. f \in Frame
      BY StacksTyped DEF StackInv, StackTyped, f
    <3>2. f.ends \in Tables \cup {Undefined} /\ f.position \in Nat
      BY <3>1, SearchAssumption DEF Frame
    <3> QED
      BY <2>1, <3>2, BeginBrackets DEF Callers
  <2>2. CASE UNCHANGED searchvars
    BY <2>2, SearchSame
  <2> QED
    BY <1>2, <2>1, <2>2 DEF Position
<1>3. CASE ~Placed /\ ~Position
  <2>1. UNCHANGED searchvars
    BY <1>3
       DEF FrameStep, do_jsframe, Arguments, walk_jsframes_step, walk_done, load_current_context
  <2> QED
    BY <2>1, SearchSame
<1> QED
  BY <1>1, <1>2, <1>3

LEMMA SearchesInductive == LeavesInv /\ SearchInv /\ [Next]_vars => SearchInv'
<1> SUFFICES ASSUME LeavesInv, SearchInv, [Next]_vars PROVE SearchInv'
  OBVIOUS
<1>1. CASE FunctionStep
  BY <1>1, StepOfFunction, FunctionSearches
<1>2. CASE FrameStep
  BY <1>2, StepOfStack, StackSearches
<1>3. CASE Search
  BY <1>3, SearchGoesOn DEF Search
<1>4. CASE FunctionCommands \/ FrameCommands \/ UNCHANGED vars
  <2>1. UNCHANGED searchvars
    BY <1>4 DEF FunctionCommands, FrameCommands, Begin, vars, sessionvars
  <2> QED
    BY <2>1, SearchSame
<1> QED
  BY <1>1, <1>2, <1>3, <1>4 DEF Next, Step

LEMMA SearchesInvariant == Spec => []SearchInv
<1>1. Init => SearchInv
  BY DEF Init, SessionInit, SearchInit, SearchInv, Searching, LineRight, SearchInBounds, size
<1> QED
  BY <1>1, LeavesInvariant, SearchesInductive, PTL DEF Spec

(* In a session, too, every search that a command makes is right about     *)
(* what it says and reads, with the table and the position its function    *)
(* has (jsfunc_lineno, v8funcinfo_definition_location).                    *)
THEOREM SessionSearchesRight == Spec => []SearchRight
<1>1. SearchInv => SearchRight
  BY DEF SearchInv, SearchRight
<1> QED
  BY <1>1, SearchesInvariant, PTL
-----------------------------------------------------------------------------
(***************************************************************************)
(* What ::jsstack and ::jsframe print.                                     *)
(***************************************************************************)
Whats == {"frame", "js", "file", "posn", "this", "elided"} \cup {Args[i] : i \in DOMAIN Args}
Places == [what : {"posn"}, result : Results \cup {"idle"}, at : Int]

PrintedLine ==
    {l \in [what : Whats, frame : Nat, value : STRING \cup {NULL} \cup Nat \cup Places] :
        l.what = "elided" => l.value \in Nat}

(* A line is about the frame that it names: an argument has the value that *)
(* was pushed for it, and with -p there is nothing but what was asked for. *)
Right(l) ==
    /\ l.what = "this" => l.value = stack[l.frame].pushed[1]
    /\ \A k \in DOMAIN Args : l.what = Args[k] => l.value = stack[l.frame].pushed[k + 1]
    /\ o.prop # NULL => l.what = o.prop /\ l.what \notin {"frame", "js", "elided"}

RightLines == {l \in PrintedLine : Right(l)}

(* The frame that is looked at when there is more to print for it.         *)
InFrame == {"file", "searching", "arguments"}

PrintInv ==
    /\ out \in Seq(RightLines)
    /\ nskipped = 0 /\ topskipped \in Nat
    /\ o.prop # NULL => topskipped = 0
    /\ doing \in InFrame =>
          /\ f.slot = "JSFunction" /\ f.lost \cap {"shared", "name"} = {}
          /\ o.func # NULL => f.name = o.func

(* The frames that ::jsstack has been at, without the one it is to handle. *)
First == IF cmd.addr THEN 2 ELSE 1
Handled == First..(IF doing \in {"registers", "frame"} THEN at - 1 ELSE at)

(* Every frame of those is shown, elided or failed.                        *)
Counts(lines, top, failed, frames) ==
    /\ InOrder(lines)
    /\ ShownFrames(lines) \cup failed \subseteq frames
    /\ o.func = NULL /\ o.prop = NULL =>
          Cardinality(ShownFrames(lines) \cup failed) + (ElidedIn(lines) + top) = Cardinality(frames)
    /\ o.func # NULL /\ o.prop = NULL =>
          ShownFrames(lines) = {i \in frames : IsAskedFor(stack[i])}

AccountInv ==
    cmd.name = "jsstack" =>
        /\ doing # "idle" => result = "none"
        /\ doing = "idle" => \/ result = "ok" /\ at = Len(stack) /\ topskipped = 0
                             \/ result = "error"
        /\ result # "error" =>
              /\ doing \in {"registers", "frame"} \cup InFrame => at >= First
              /\ at = 1 /\ doing # "walk" => topskipped = 0
              /\ Counts(out, topskipped, fails, Handled)
              /\ doing \in InFrame /\ o.prop = NULL => at \in ShownFrames(out)

\* a set of natural numbers has a smallest element
LEMMA Least ==
    ASSUME NEW T, T \subseteq Nat, T # {}
    PROVE  \E x \in T : \A y \in T : x <= y
<1> DEFINE R == OpToRel(<, Nat)
<1>1. IsWellFoundedOn(R, Nat)
  BY NatLessThanWellFounded
<1>2. \A x, y \in Nat : y < x => <<y, x>> \in R
  BY DEF OpToRel
<1> HIDE DEF R
<1>3. PICK x \in T : \A y \in T : ~ (<<y, x>> \in R)
  BY <1>1, WFMin
<1>4. \A y \in T : ~ (y < x)
  BY <1>2, <1>3, Zenon
<1> QED
  BY <1>4

\* g takes the first n steps of a recursion from base
Unfolds(g, base, step, n) == g[0] = base /\ \A i \in 1..n : g[i] = step[i][g[i - 1]]

(* A recursion over the first natural numbers, whose steps are functions.  *)
LEMMA Recursion ==
    ASSUME NEW V, NEW N \in Nat, NEW base \in V, NEW step \in [1..N -> [V -> V]]
    PROVE  \E g \in [0..N -> V] : Unfolds(g, base, step, N)
<1> DEFINE T == {j \in 0..N : ~ \E g \in [0..N -> V] : Unfolds(g, base, step, j)}
<1> SUFFICES ASSUME T # {} PROVE FALSE
  <2>1. N \in 0..N
    OBVIOUS
  <2> QED
    BY <2>1
<1>0. T \subseteq Nat
  OBVIOUS
<1>1. PICK j \in T : \A k \in T : j <= k
  BY <1>0, Least
<1>2. j \in 0..N /\ j \in Nat /\ ~ \E g \in [0..N -> V] : Unfolds(g, base, step, j)
  OBVIOUS
<1>3. CASE j = 0
  <2> DEFINE g == [i \in 0..N |-> base]
  <2>1. g \in [0..N -> V] /\ Unfolds(g, base, step, 0)
    BY DEF Unfolds
  <2> QED
    BY <1>2, <1>3, <2>1
<1>4. CASE j # 0
  <2>1. j - 1 \in 0..N /\ ~(j <= j - 1) /\ j \in 1..N
    BY <1>2, <1>4
  <2>2. PICK g \in [0..N -> V] : Unfolds(g, base, step, j - 1)
    BY <1>1, <2>1
  <2> DEFINE h == [i \in 0..N |-> IF i = j THEN step[j][g[j - 1]] ELSE g[i]]
  <2>3. h \in [0..N -> V]
    BY <1>2, <2>1
  <2>4. h[0] = base
    BY <1>4, <2>2 DEF Unfolds
  <2>5. ASSUME NEW i \in 1..j PROVE h[i] = step[i][h[i - 1]]
    <3>1. i \in 0..N /\ i - 1 \in 0..N /\ i - 1 # j
      BY <1>2
    <3>2. CASE i = j
      BY <3>1, <3>2
    <3>3. CASE i # j
      <4>1. i \in 1..(j - 1)
        BY <1>2, <3>3
      <4>2. g[i] = step[i][g[i - 1]]
        BY <2>2, <4>1 DEF Unfolds
      <4> QED
        BY <3>1, <3>3, <4>2
    <3> QED
      BY <3>2, <3>3
  <2> QED
    BY <1>2, <2>3, <2>4, <2>5 DEF Unfolds
<1> QED
  BY <1>3, <1>4

\* what a line adds to the number of frames that are elided
ElidedBy(l) == IF l.what = "elided" THEN l.value ELSE 0

(* LET Upto ... of ElidedIn is a function that adds them up.               *)
LEMMA ElidedSums ==
    ASSUME NEW lines \in Seq(PrintedLine)
    PROVE  \E u \in [0..Len(lines) -> Nat] :
              /\ u[0] = 0
              /\ \A n \in 1..Len(lines) : u[n] = u[n - 1] + ElidedBy(lines[n])
              /\ ElidedIn(lines) = u[Len(lines)]
<1> DEFINE N == Len(lines)
           Up(g) == [n \in 0..N |->
                        IF n = 0 THEN 0
                        ELSE g[n - 1] + IF lines[n].what = "elided" THEN lines[n].value ELSE 0]
           step == [n \in 1..N |-> [v \in Nat |-> v + ElidedBy(lines[n])]]
<1>1. N \in Nat /\ \A n \in 1..N : ElidedBy(lines[n]) \in Nat
  <2>1. N \in Nat /\ \A n \in 1..N : lines[n] \in PrintedLine
    OBVIOUS
  <2> QED
    BY <2>1 DEF ElidedBy, PrintedLine
<1>2. step \in [1..N -> [Nat -> Nat]]
  BY <1>1
<1> HIDE DEF step
<1>3. PICK g \in [0..N -> Nat] : Unfolds(g, 0, step, N)
  BY <1>1, <1>2, Recursion
<1>4. g[0] = 0 /\ \A n \in 1..N : g[n] = g[n - 1] + ElidedBy(lines[n])
  <2>1. ASSUME NEW n \in 1..N PROVE g[n] = g[n - 1] + ElidedBy(lines[n])
    <3>1. n - 1 \in 0..N
      BY <1>1
    <3>2. g[n] = step[n][g[n - 1]] /\ g[n - 1] \in Nat
      BY <1>3, <3>1 DEF Unfolds
    <3> QED
      BY <3>2 DEF step
  <2> QED
    BY <1>3, <2>1 DEF Unfolds
<1>5. g = Up(g)
  <2>1. ASSUME NEW n \in 0..N
        PROVE  g[n] = IF n = 0 THEN 0
                      ELSE g[n - 1] + IF lines[n].what = "elided" THEN lines[n].value ELSE 0
    BY <1>4 DEF ElidedBy
  <2> QED
    BY <1>3, <2>1
<1> DEFINE u == CHOOSE h : h = Up(h)
<1>6. u = Up(u)
  BY <1>5, Zenon
<1>7. ElidedIn(lines) = u[N]
  BY DEF ElidedIn
<1> HIDE DEF u
<1>8. u[0] = 0 /\ \A n \in 1..N : u[n] = u[n - 1] + ElidedBy(lines[n])
  BY <1>1, <1>6 DEF ElidedBy
<1> DEFINE T == {n \in 0..N : u[n] # g[n]}
<1>9. T = {}
  <2> SUFFICES ASSUME T # {} PROVE FALSE
    OBVIOUS
  <2>1. T \subseteq Nat
    OBVIOUS
  <2>2. PICK n \in T : \A m \in T : n <= m
    BY <2>1, Least
  <2>3. n # 0 /\ n \in 0..N /\ u[n] # g[n]
    BY <1>4, <1>8
  <2>4. n \in 1..N /\ n - 1 \in 0..N /\ ~(n <= n - 1)
    BY <2>3
  <2>5. u[n - 1] = g[n - 1]
    BY <2>2, <2>4
  <2> QED
    BY <1>4, <1>8, <2>3, <2>4, <2>5
<1>10. u = g
  BY <1>1, <1>3, <1>6, <1>9
<1> QED
  BY <1>3, <1>4, <1>7, <1>10

LEMMA ElidedInNothing == ElidedIn(<<>>) = 0 /\ <<>> \in Seq(PrintedLine)
<1>1. <<>> \in Seq(PrintedLine) /\ Len(<<>>) = 0
  BY EmptySeq
<1> QED
  BY <1>1, ElidedSums

(* More lines: those that elide nothing, or one that elides some frames.   *)
LEMMA ElidedMore ==
    ASSUME NEW s \in Seq(PrintedLine), NEW t \in Seq(PrintedLine)
    PROVE  /\ ElidedIn(s) \in Nat
           /\ (\A i \in 1..Len(t) : t[i].what # "elided") => ElidedIn(s \o t) = ElidedIn(s)
           /\ Len(t) = 1 => ElidedIn(s \o t) = ElidedIn(s) + ElidedBy(t[1])
<1> DEFINE r == s \o t
<1>1. /\ r \in Seq(PrintedLine) /\ Len(r) = Len(s) + Len(t) /\ Len(s) \in Nat /\ Len(t) \in Nat
      /\ \A i \in 1..Len(s) : r[i] = s[i]
      /\ \A i \in 1..Len(t) : r[Len(s) + i] = t[i]
  BY ConcatProperties
<1> HIDE DEF r
<1>2. PICK u \in [0..Len(s) -> Nat] :
              /\ u[0] = 0
              /\ \A n \in 1..Len(s) : u[n] = u[n - 1] + ElidedBy(s[n])
              /\ ElidedIn(s) = u[Len(s)]
  BY ElidedSums
<1>3. PICK w \in [0..Len(r) -> Nat] :
              /\ w[0] = 0
              /\ \A n \in 1..Len(r) : w[n] = w[n - 1] + ElidedBy(r[n])
              /\ ElidedIn(r) = w[Len(r)]
  BY <1>1, ElidedSums
<1>4. w[Len(s)] = u[Len(s)]
  <2> DEFINE T == {n \in 0..Len(s) : w[n] # u[n]}
  <2> SUFFICES ASSUME T # {} PROVE FALSE
    <3>1. Len(s) \in 0..Len(s)
      BY <1>1
    <3> QED
      BY <3>1
  <2>1. T \subseteq Nat
    BY <1>1
  <2>2. PICK n \in T : \A m \in T : n <= m
    BY <2>1, Least
  <2>3. n \in 0..Len(s) /\ w[n] # u[n] /\ n # 0
    BY <1>2, <1>3
  <2>4. n \in 1..Len(s) /\ n \in 1..Len(r) /\ n - 1 \in 0..Len(s) /\ ~(n <= n - 1)
    BY <1>1, <2>3
  <2>5. w[n - 1] = u[n - 1] /\ r[n] = s[n]
    BY <1>1, <2>2, <2>4
  <2> QED
    BY <1>2, <1>3, <2>3, <2>4, <2>5
<1>5. ElidedIn(s) \in Nat
  BY <1>1, <1>2
<1>6. ASSUME \A i \in 1..Len(t) : t[i].what # "elided" PROVE ElidedIn(r) = ElidedIn(s)
  <2> DEFINE T == {n \in Len(s)..Len(r) : w[n] # w[Len(s)]}
  <2>1. T = {}
    <3> SUFFICES ASSUME T # {} PROVE FALSE
      OBVIOUS
    <3>1. T \subseteq Nat
      BY <1>1
    <3>2. PICK n \in T : \A m \in T : n <= m
      BY <3>1, Least
    <3>3. n \in Len(s)..Len(r) /\ w[n] # w[Len(s)] /\ n # Len(s)
      OBVIOUS
    <3>4. n - 1 \in Len(s)..Len(r) /\ ~(n <= n - 1) /\ n \in 1..Len(r) /\ n - Len(s) \in 1..Len(t)
          /\ n - 1 \in 0..Len(r) /\ Len(s) + (n - Len(s)) = n
      BY <1>1, <3>3
    <3>5. w[n - 1] = w[Len(s)]
      BY <3>2, <3>4
    <3>6. ElidedBy(r[n]) = 0
      BY <1>1, <1>6, <3>4 DEF ElidedBy
    <3>7. w[n] = w[n - 1] + 0 /\ w[n - 1] \in Nat
      BY <1>3, <3>4, <3>6
    <3> QED
      BY <3>3, <3>5, <3>7
  <2>2. Len(r) \in Len(s)..Len(r)
    BY <1>1
  <2>3. w[Len(r)] = w[Len(s)]
    BY <2>1, <2>2
  <2> QED
    BY <1>2, <1>3, <1>4, <2>3
<1>7. ASSUME Len(t) = 1 PROVE ElidedIn(r) = ElidedIn(s) + ElidedBy(t[1])
  <2>1. Len(r) = Len(s) + 1 /\ r[Len(s) + 1] = t[1] /\ Len(r) \in 1..Len(r) /\ Len(r) - 1 = Len(s)
    BY <1>1, <1>7
  <2>2. w[Len(r)] = w[Len(s)] + ElidedBy(t[1])
    BY <1>3, <2>1
  <2> QED
    BY <1>2, <1>3, <1>4, <2>2
<1> QED
  BY <1>5, <1>6, <1>7 DEF r

LEMMA OneLine ==
    ASSUME NEW S, NEW l \in S
    PROVE  <<l>> \in Seq(S) /\ Len(<<l>>) = 1 /\ <<l>>[1] = l
OBVIOUS

LEMMA NoLines == \A S : <<>> \in Seq(S)
BY EmptySeq

LEMMA RightLinesSame ==
    ASSUME UNCHANGED <<cmd, stack>>
    PROVE  RightLines' = RightLines
BY DEF RightLines, Right, o

LEMMA LineRecord ==
    ASSUME NEW what \in Whats, NEW value \in STRING \cup {NULL} \cup Nat \cup Places, at \in Nat,
           what = "elided" => value \in Nat
    PROVE  [what |-> what, frame |-> at, value |-> value] \in PrintedLine
BY DEF PrintedLine

\* the lines about the receiver and the arguments
AboutCall == {l \in RightLines : l.what \notin {"frame", "js", "elided"}}

LEMMA FrameTyped ==
    ASSUME StackInv
    PROVE  /\ f \in Frame /\ at \in Nat /\ Len(f.pushed) \in Nat
           /\ f.slot = "JSFunction" => nargs \in 0..Len(Args)
           /\ \A i \in 1..Len(f.pushed) : f.pushed[i] \in STRING \cup {NULL}
<1>1. stack \in Stacks /\ at \in DOMAIN stack
  BY DEF StackInv, StackTyped
<1>2. f \in Frame /\ at \in Nat /\ Len(f.pushed) <= Len(Args) + 1
      /\ (f.slot = "JSFunction" => f.pushed # <<>>)
  BY <1>1, StacksTyped, FramesAssumption DEF f
<1>3. f.pushed \in Seq(STRING \cup {NULL})
  BY <1>2 DEF Frame
<1>4. Len(f.pushed) \in Nat /\ Len(Args) \in Nat
  BY <1>3, LenProperties, FramesAssumption
<1>5. f.pushed # <<>> => Len(f.pushed) # 0
  BY <1>3, EmptySeq
<1>6. f.slot = "JSFunction" => nargs \in 0..Len(Args)
  BY <1>2, <1>4, <1>5 DEF nargs
<1> QED
  BY <1>2, <1>3, <1>4, <1>6

LEMMA ArgWhats ==
    ASSUME NEW k \in DOMAIN Args
    PROVE  /\ Args[k] \in Whats /\ DOMAIN Args = 1..Len(Args) /\ Len(Args) \in Nat
           /\ Args[k] \notin {NULL, "frame", "js", "file", "posn", "this", "elided"}
           /\ \A i \in DOMAIN Args : Args[i] = Args[k] => i = k
<1>1. Args \in Seq(STRING)
  BY FramesAssumption
<1>2. DOMAIN Args = 1..Len(Args) /\ Len(Args) \in Nat
  BY <1>1, LenProperties
<1>3. Args[k] \in Whats
  BY DEF Whats
<1> QED
  BY <1>2, <1>3, FramesAssumption

LEMMA ThisLineRight ==
    ASSUME StackInv, f.slot = "JSFunction"
    PROVE  ThisLine \in Seq(AboutCall)
<1>1. CASE Asked("this") /\ SlotReads(nargs) /\ ArgSlot(nargs) # NULL
  <2> DEFINE l == [what |-> "this", frame |-> at, value |-> ArgSlot(nargs)]
  <2>1. Len(f.pushed) - nargs = 1 /\ 1 \in 1..Len(f.pushed)
    BY FrameTyped DEF nargs
  <2>2. ArgSlot(nargs) = f.pushed[1] /\ ArgSlot(nargs) \in STRING \cup {NULL} /\ at \in Nat
    BY <2>1, FrameTyped DEF ArgSlot
  <2>3. l \in PrintedLine
    BY <2>2, LineRecord DEF Whats
  <2>4. Right(l)
    <3>1. \A k \in DOMAIN Args : l.what # Args[k]
      BY FramesAssumption
    <3>2. o.prop # NULL => l.what = o.prop
      BY <1>1 DEF Asked
    <3> QED
      BY <2>2, <3>1, <3>2 DEF Right, f
  <2>5. l \in AboutCall
    BY <2>3, <2>4 DEF AboutCall, RightLines
  <2> QED
    BY <1>1, <2>5, OneLine DEF ThisLine, Line
<1>2. CASE ~(Asked("this") /\ SlotReads(nargs) /\ ArgSlot(nargs) # NULL)
  <2>1. ThisLine = <<>>
    BY <1>2, Zenon DEF ThisLine
  <2> QED
    BY <2>1, NoLines
<1> QED
  BY <1>1, <1>2

LEMMA SlotOfArgument ==
    ASSUME NEW len \in Nat, NEW n \in Nat, n = len - 1, NEW i \in 1..n
    PROVE  len - (n - i) = i + 1 /\ i + 1 \in 1..len
OBVIOUS

LEMMA ArgLineRight ==
    ASSUME StackInv, f.slot = "JSFunction", NEW i \in 1..nargs
    PROVE  ArgLine(i) \in Seq(AboutCall)
<1>1. CASE Asked(Args[i]) /\ SlotReads(nargs - i)
  <2> DEFINE l == [what |-> Args[i], frame |-> at, value |-> ArgSlot(nargs - i)]
  <2>1. /\ Len(f.pushed) - (nargs - i) = i + 1 /\ i + 1 \in 1..Len(f.pushed)
        /\ nargs \in 0..Len(Args) /\ i \in 1..Len(Args)
    <3>2. Len(Args) \in Nat
      BY FramesAssumption, LenProperties
    <3>1. nargs \in 0..Len(Args) /\ nargs \in Nat /\ Len(f.pushed) \in Nat
      BY <3>2, FrameTyped
    <3>3. i \in Nat /\ 1 <= i /\ i <= nargs /\ i \in 1..Len(Args)
      BY <3>1, <3>2
    <3>4. nargs = Len(f.pushed) - 1
      BY DEF nargs
    <3>5. Len(f.pushed) - (nargs - i) = i + 1 /\ i + 1 \in 1..Len(f.pushed)
      BY <3>1, <3>4, SlotOfArgument
    <3> QED
      BY <3>1, <3>3, <3>5
  <2>2. /\ ArgSlot(nargs - i) = f.pushed[i + 1] /\ ArgSlot(nargs - i) \in STRING \cup {NULL}
        /\ at \in Nat
    BY <2>1, FrameTyped DEF ArgSlot
  <2>3. i \in DOMAIN Args
    BY <2>1, FramesAssumption
  <2>4. l \in PrintedLine
    BY <2>2, <2>3, ArgWhats, LineRecord
  <2>5. Right(l)
    <3>1. l.what # "this"
      BY <2>3, ArgWhats
    <3>2. \A k \in DOMAIN Args : l.what = Args[k] => k = i
      BY <2>3, ArgWhats
    <3>3. o.prop # NULL => l.what = o.prop /\ l.what \notin {"frame", "js", "elided"}
      BY <1>1, <2>3, ArgWhats DEF Asked
    <3> QED
      BY <2>2, <3>1, <3>2, <3>3 DEF Right, f
  <2>6. l \in AboutCall
    BY <2>3, <2>4, <2>5, ArgWhats DEF AboutCall, RightLines
  <2> QED
    BY <1>1, <2>6, OneLine DEF ArgLine, Line
<1>2. CASE ~(Asked(Args[i]) /\ SlotReads(nargs - i))
  <2>1. ArgLine(i) = <<>>
    BY <1>2, Zenon DEF ArgLine
  <2> QED
    BY <2>1, NoLines
<1> QED
  BY <1>1, <1>2

(* LET Upto ... of ArgLines is a function that adds the lines one by one.  *)
AddsLines(u) ==
    /\ \A n \in 0..nargs : u[n] \in Seq(AboutCall)
    /\ u[0] = ThisLine
    /\ \A n \in 1..nargs : u[n] = u[n - 1] \o ArgLine(n)

LEMMA ArgLinesUnfold ==
    ASSUME StackInv, f.slot = "JSFunction", "length" \notin f.lost
    PROVE  \E u : AddsLines(u) /\ ArgLines = u[nargs]
<1> DEFINE V == Seq(AboutCall)
           Up(g) == [n \in 0..nargs |-> IF n = 0 THEN ThisLine ELSE g[n - 1] \o ArgLine(n)]
           step == [n \in 1..nargs |-> [v \in V |-> v \o ArgLine(n)]]
<1>1. nargs \in Nat /\ ThisLine \in V /\ \A n \in 1..nargs : ArgLine(n) \in V
  BY FrameTyped, ThisLineRight, ArgLineRight
<1>2. \A n \in 1..nargs, v \in V : v \o ArgLine(n) \in V
  BY <1>1, ConcatProperties
<1> HIDE DEF V
<1>3. step \in [1..nargs -> [V -> V]]
  BY <1>2
<1>4. \A n \in 1..nargs, v \in V : step[n][v] = v \o ArgLine(n)
  OBVIOUS
<1> HIDE DEF step
<1>5. PICK g \in [0..nargs -> V] : Unfolds(g, ThisLine, step, nargs)
  BY <1>1, <1>3, Recursion
<1>6. g = Up(g)
  <2>1. ASSUME NEW n \in 0..nargs
        PROVE  g[n] = IF n = 0 THEN ThisLine ELSE g[n - 1] \o ArgLine(n)
    <3>1. CASE n = 0
      BY <1>5, <3>1 DEF Unfolds
    <3>2. CASE n # 0
      <4>1. n \in 1..nargs /\ n - 1 \in 0..nargs
        BY <1>1, <3>2
      <4>2. g[n] = step[n][g[n - 1]] /\ g[n - 1] \in V
        BY <1>5, <4>1 DEF Unfolds
      <4> QED
        BY <1>4, <3>2, <4>1, <4>2
    <3> QED
      BY <3>1, <3>2
  <2> QED
    BY <1>5, <2>1
<1> DEFINE u == CHOOSE h : h = Up(h)
<1>7. u = Up(u)
  BY <1>6, Zenon
<1>8. "length" \notin f.lost => ArgLines = u[nargs]
  BY DEF ArgLines
<1> HIDE DEF u
<1>9. \A n \in 0..nargs : u[n] = IF n = 0 THEN ThisLine ELSE u[n - 1] \o ArgLine(n)
  BY <1>7
<1> DEFINE T == {n \in 0..nargs : u[n] \notin V}
<1>10. T = {}
  <2> SUFFICES ASSUME T # {} PROVE FALSE
    OBVIOUS
  <2>1. T \subseteq Nat
    OBVIOUS
  <2>2. PICK n \in T : \A m \in T : n <= m
    BY <2>1, Least
  <2>3. n \in 0..nargs /\ u[n] \notin V
    OBVIOUS
  <2>4. n # 0
    BY <1>1, <1>9, <2>3
  <2>5. n \in 1..nargs /\ n - 1 \in 0..nargs /\ ~(n <= n - 1)
    BY <1>1, <2>3, <2>4
  <2>6. u[n - 1] \in V
    BY <2>2, <2>5
  <2>7. u[n] = u[n - 1] \o ArgLine(n)
    BY <1>9, <2>3, <2>4
  <2> QED
    BY <1>2, <2>3, <2>5, <2>6, <2>7
<1>11. u[0] = ThisLine /\ \A n \in 1..nargs : u[n] = u[n - 1] \o ArgLine(n)
  <2>1. nargs \in Nat
    BY <1>1
  <2>2. u[0] = ThisLine
    BY <2>1, <1>9
  <2>3. ASSUME NEW n \in 1..nargs PROVE u[n] = u[n - 1] \o ArgLine(n)
    <3>1. n \in 0..nargs /\ n # 0
      BY <2>1
    <3> QED
      BY <3>1, <1>9, Zenon
  <2> QED
    BY <2>2, <2>3
<1>12. \A n \in 0..nargs : u[n] \in V
  BY <1>10
<1>13. AddsLines(u)
  BY <1>11, <1>12 DEF V, AddsLines
<1> QED
  BY <1>8, <1>13

(* The receiver and the arguments are what the function was called with.   *)
LEMMA ArgLinesRight ==
    ASSUME StackInv, f.slot = "JSFunction"
    PROVE  ArgLines \in Seq(AboutCall)
<1>1. CASE "length" \in f.lost
  <2>1. ArgLines = <<>>
    BY <1>1, Zenon DEF ArgLines
  <2> QED
    BY <2>1, NoLines
<1>2. CASE "length" \notin f.lost
  <2>1. nargs \in Nat /\ nargs \in 0..nargs
    BY FrameTyped
  <2> QED
    BY <1>2, <2>1, ArgLinesUnfold DEF AddsLines
<1> QED
  BY <1>1, <1>2

(* What becomes of a frame, by what was asked for.                         *)
LEMMA Treated ==
    ASSUME StackInv
    PROVE  /\ Treatment \in {"nothing", "error", "skipped", "shown", "function"}
           /\ Treatment \in {"skipped", "shown"} => o.func = NULL /\ o.prop = NULL
           /\ Treatment = "nothing" => o.prop # NULL \/ (o.func # NULL /\ ~IsAskedFor(f))
           /\ Treatment = "error" => o.func = NULL \/ ~IsAskedFor(f)
           /\ Treatment = "function" =>
                 /\ f.slot = "JSFunction" /\ f.lost \cap {"shared", "name"} = {}
                 /\ o.func # NULL => f.name = o.func
<1>1. f.slot \in {"unreadable", "no type", "Code", "other", "JSFunction"}
  BY FrameTyped DEF Frame
<1>2. \A named \in BOOLEAN :
         /\ Hidden(named) \in {"nothing", "skipped", "shown"}
         /\ Hidden(named) = "nothing" => o.func # NULL \/ o.prop # NULL
         /\ Hidden(named) # "nothing" => o.func = NULL /\ o.prop = NULL
  BY DEF Hidden
<1>3. CASE Special /\ f.special = "native"
  <2>1. Treatment = IF o.prop # NULL THEN "nothing" ELSE "shown"
    BY <1>3 DEF Treatment
  <2> QED
    BY <1>3, <2>1 DEF Special
<1>4. CASE Special /\ f.special # "native"
  <2>1. Treatment = Hidden(f.special # "unnamed")
    BY <1>4 DEF Treatment
  <2>2. (f.special # "unnamed") \in BOOLEAN /\ o.func = NULL
    BY <1>4 DEF Special
  <2>3. /\ Treatment \in {"nothing", "skipped", "shown"}
        /\ Treatment = "nothing" => o.func # NULL \/ o.prop # NULL
        /\ Treatment # "nothing" => o.func = NULL /\ o.prop = NULL
    BY <1>2, <2>1, <2>2
  <2> QED
    BY <2>2, <2>3
<1>5. CASE ~Special /\ f.slot = "unreadable"
  <2>1. Treatment = "error"
    BY <1>5 DEF Treatment
  <2> QED
    BY <1>5, <2>1 DEF IsAskedFor
<1>6. CASE ~Special /\ f.slot \in {"no type", "Code", "other"}
  <2>1. Treatment = Hidden(TRUE)
    BY <1>6 DEF Treatment
  <2>2. ~IsAskedFor(f)
    BY <1>6 DEF IsAskedFor
  <2>3. /\ Treatment \in {"nothing", "skipped", "shown"}
        /\ Treatment = "nothing" => o.func # NULL \/ o.prop # NULL
        /\ Treatment # "nothing" => o.func = NULL /\ o.prop = NULL
    BY <1>2, <2>1
  <2> QED
    BY <2>2, <2>3
<1>7. CASE ~Special /\ f.slot = "JSFunction"
  <2>1. Treatment = IF f.lost \cap {"shared", "name"} # {} THEN "error"
                    ELSE IF o.func # NULL /\ o.func # f.name THEN "nothing"
                    ELSE "function"
    BY <1>7 DEF Treatment
  <2> QED
    BY <1>7, <2>1 DEF IsAskedFor
<1> QED
  BY <1>1, <1>3, <1>4, <1>5, <1>6, <1>7

LEMMA RightLine ==
    ASSUME NEW what \in {"frame", "js", "file", "posn"},
           NEW value \in STRING \cup {NULL} \cup Nat \cup Places, at \in Nat,
           o.prop \in {NULL, what}, what \in {"frame", "js"} => o.prop = NULL
    PROVE  /\ Line(what, value) \in Seq(RightLines)
           /\ Line(what, value) = <<[what |-> what, frame |-> at, value |-> value]>>
<1> DEFINE l == [what |-> what, frame |-> at, value |-> value]
<1>1. l \in PrintedLine
  BY LineRecord DEF Whats
<1>2. \A k \in DOMAIN Args : l.what # Args[k]
  BY FramesAssumption
<1>3. Right(l)
  BY <1>2 DEF Right
<1>4. l \in RightLines
  BY <1>1, <1>3 DEF RightLines
<1> QED
  BY <1>4, OneLine DEF Line

LEMMA ElidedRight ==
    ASSUME NEW n \in Nat, o.prop # NULL => n = 0
    PROVE  /\ Elided(n) \in Seq(RightLines)
           /\ n # 0 => Elided(n) = <<[what |-> "elided", frame |-> 0, value |-> n]>>
           /\ n = 0 => Elided(n) = <<>>
<1>1. CASE n = 0
  BY <1>1, NoLines DEF Elided
<1>2. CASE n # 0
  <2> DEFINE l == [what |-> "elided", frame |-> 0, value |-> n]
  <2>1. l \in PrintedLine
    BY DEF PrintedLine, Whats
  <2>2. \A k \in DOMAIN Args : l.what # Args[k]
    BY FramesAssumption
  <2>3. l \in RightLines
    BY <1>2, <2>1, <2>2 DEF RightLines, Right
  <2> QED
    BY <1>2, <2>3, OneLine DEF Elided
<1> QED
  BY <1>1, <1>2

LEMMA LinesJoined ==
    ASSUME NEW s \in Seq(RightLines), NEW t \in Seq(RightLines)
    PROVE  s \o t \in Seq(RightLines)
BY ConcatProperties

LEMMA NothingJoined ==
    ASSUME NEW s \in Seq(RightLines)
    PROVE  s \o <<>> = s /\ <<>> \o s = s
BY ConcatEmptySeq

\* lines about a call are right lines
LEMMA AboutCallRight == Seq(AboutCall) \subseteq Seq(RightLines)
<1> SUFFICES ASSUME NEW s \in Seq(AboutCall) PROVE s \in Seq(RightLines)
  OBVIOUS
<1>1. AboutCall \subseteq RightLines
  BY DEF AboutCall
<1>2. Len(s) \in Nat /\ s \in [1..Len(s) -> AboutCall]
  BY LenProperties
<1>3. s \in [1..Len(s) -> RightLines]
  BY <1>1, <1>2
<1> QED
  BY <1>2, <1>3, SeqDef

(* The end of a frame prints the lines of the frame and what was elided.   *)
LEMMA FrameEndsPrints ==
    ASSUME StackInv, PrintInv, NEW lines \in Seq(RightLines), NEW skipped \in Nat,
           o.prop # NULL => skipped = 0, NEW rv, FrameEnds(rv, lines, skipped)
    PROVE  PrintInv'
<1>1. /\ doing' \in {"idle", "walk"}
      /\ UNCHANGED <<cmd, commands, misfreed, v8_warnings, atstart, stack, at>>
  BY FrameEndsAt
<1>2. out \in Seq(RightLines) /\ topskipped \in Nat /\ (o.prop # NULL => topskipped = 0)
  BY DEF PrintInv
<1>3. out' \in Seq(RightLines)
  <2>1. out \o lines \in Seq(RightLines)
    BY <1>2, LinesJoined
  <2>2. (IF rv = "ok" THEN Elided(skipped) ELSE <<>>) \in Seq(RightLines)
    BY ElidedRight, NoLines
  <2>3. lines \o (IF rv = "ok" THEN Elided(skipped) ELSE <<>>) \in Seq(RightLines)
    BY <2>2, LinesJoined
  <2>4. out \o (lines \o (IF rv = "ok" THEN Elided(skipped) ELSE <<>>)) \in Seq(RightLines)
    BY <1>2, <2>3, LinesJoined
  <2>5. (out \o lines) \o (IF rv = "ok" THEN Elided(skipped) ELSE <<>>) \in Seq(RightLines)
    BY <2>1, <2>2, LinesJoined
  <2> QED
    BY <2>1, <2>4, <2>5 DEF FrameEnds
<1>4. nskipped' = 0 /\ topskipped' \in {skipped, topskipped}
  BY DEF FrameEnds
<1>5. o' = o /\ doing' \notin InFrame
  BY <1>1 DEF o, InFrame
<1> QED
  BY <1>1, <1>2, <1>3, <1>4, <1>5, RightLinesSame DEF PrintInv

(* A step that goes on with the frame it is at.                            *)
LEMMA GoesOnPrints ==
    ASSUME StackInv, PrintInv, NEW lines \in Seq(RightLines), out' = out \o lines,
           UNCHANGED <<cmd, stack, at, topskipped>>, nskipped' = 0,
           doing' \in InFrame =>
              /\ f.slot = "JSFunction" /\ f.lost \cap {"shared", "name"} = {}
              /\ o.func # NULL => f.name = o.func
    PROVE  PrintInv'
<1>1. out' \in Seq(RightLines)
  BY LinesJoined DEF PrintInv
<1>2. o' = o /\ f' = f
  BY DEF o, f
<1> QED
  BY <1>1, <1>2, RightLinesSame DEF PrintInv

LEMMA ValuesOfFrame ==
    ASSUME StackInv
    PROVE  {f.special, f.name} \subseteq STRING \cup {NULL}
BY FrameTyped DEF Frame

\* the first line about a frame comes without any that were elided
LEMMA NoneElided ==
    ASSUME PrintInv, NEW lines \in Seq(RightLines)
    PROVE  Elided(nskipped) = <<>> /\ Elided(nskipped) \o lines = lines /\ out \o <<>> = out
<1>1. Elided(nskipped) = <<>> /\ out \in Seq(RightLines)
  BY DEF PrintInv, Elided
<1> QED
  BY <1>1, NothingJoined

LEMMA DoJsframePrints ==
    ASSUME StackInv, PrintInv, do_jsframe
    PROVE  PrintInv'
<1>0. at \in Nat /\ nskipped = 0 /\ doing = "frame"
      /\ {f.special, f.name} \subseteq STRING \cup {NULL}
  BY FrameTyped, ValuesOfFrame DEF PrintInv, do_jsframe
<1>1. CASE Treatment \in {"nothing", "error"} /\ \E rv : FrameEnds(rv, <<>>, nskipped)
  BY <1>0, <1>1, NoLines, FrameEndsPrints
<1>2. CASE Treatment = "skipped" /\ FrameEnds("ok", <<>>, nskipped + 1)
  <2>1. o.prop = NULL /\ nskipped + 1 \in Nat
    BY <1>0, <1>2, Treated
  <2> QED
    BY <1>2, <2>1, NoLines, FrameEndsPrints
<1>3. CASE /\ Treatment = "shown"
           /\ FrameEnds("ok", Elided(nskipped) \o Line("frame", f.special), 0)
  <2>1. o.prop = NULL
    BY <1>3, Treated
  <2>2. Line("frame", f.special) \in Seq(RightLines)
    BY <1>0, <2>1, RightLine
  <2>3. Elided(nskipped) \o Line("frame", f.special) \in Seq(RightLines)
    BY <2>2, NoneElided
  <2> QED
    BY <1>3, <2>3, FrameEndsPrints
<1>4. CASE /\ Treatment = "function" /\ o.prop = NULL
           /\ FrameEnds("ok", Elided(nskipped) \o Line("js", f.name), 0)
  <2>1. Line("js", f.name) \in Seq(RightLines)
    BY <1>0, <1>4, RightLine
  <2>2. Elided(nskipped) \o Line("js", f.name) \in Seq(RightLines)
    BY <2>1, NoneElided
  <2> QED
    BY <1>4, <2>2, FrameEndsPrints
<1>5. CASE /\ Treatment = "function"
           /\ doing' = "file" /\ nskipped' = 0
           /\ Say(Elided(nskipped) \o IF o.prop = NULL THEN Line("js", f.name) ELSE <<>>)
           /\ UNCHANGED <<unchangedHere, at, topskipped, fails, result>>
  <2>1. (IF o.prop = NULL THEN Line("js", f.name) ELSE <<>>) \in Seq(RightLines)
    <3>1. CASE o.prop = NULL
      <4>1. Line("js", f.name) \in Seq(RightLines)
        BY <1>0, <3>1, RightLine
      <4> QED
        BY <3>1, <4>1
    <3>2. CASE o.prop # NULL
      BY <3>2, NoLines
    <3> QED
      BY <3>1, <3>2
  <2>2. Elided(nskipped) \o (IF o.prop = NULL THEN Line("js", f.name) ELSE <<>>) \in Seq(RightLines)
    BY <2>1, NoneElided
  <2>3. out' = out \o (Elided(nskipped) \o IF o.prop = NULL THEN Line("js", f.name) ELSE <<>>)
    BY <1>5 DEF Say
  <2> QED
    BY <1>5, <2>2, <2>3, GoesOnPrints, Treated DEF unchangedHere
<1> QED
  BY <1>1, <1>2, <1>3, <1>4, <1>5 DEF do_jsframe

LEMMA FileLine ==
    ASSUME StackInv
    PROVE  /\ (IF o.prop = NULL THEN Line("file", f.name) ELSE <<>>) \in Seq(RightLines)
           /\ o.prop = "file" => Line("file", f.name) \in Seq(RightLines)
<1>1. at \in Nat /\ f.name \in STRING \cup {NULL}
  BY FrameTyped, ValuesOfFrame
<1>2. ASSUME o.prop \in {NULL, "file"} PROVE Line("file", f.name) \in Seq(RightLines)
  BY <1>1, <1>2, RightLine
<1> QED
  BY <1>2, NoLines

LEMMA PositionPrints ==
    ASSUME StackInv, PrintInv, Position
    PROVE  PrintInv'
<1> DEFINE file == IF o.prop = NULL THEN Line("file", f.name) ELSE <<>>
<1>0. /\ nskipped = 0 /\ doing = "file" /\ file \in Seq(RightLines)
      /\ f.slot = "JSFunction" /\ f.lost \cap {"shared", "name"} = {}
      /\ o.func # NULL => f.name = o.func
  BY FileLine DEF PrintInv, Position, InFrame
<1>1. CASE FrameEnds("error", <<>>, nskipped) \/ FrameEnds("error", file, nskipped)
  BY <1>0, <1>1, NoLines, FrameEndsPrints
<1>2. CASE o.prop = "file" /\ FrameEnds("ok", Line("file", f.name), nskipped)
  <2>1. Line("file", f.name) \in Seq(RightLines)
    BY <1>2, FileLine
  <2> QED
    BY <1>0, <1>2, <2>1, FrameEndsPrints
<1>3. CASE /\ doing' = "searching" /\ Say(file)
           /\ UNCHANGED <<unchangedHere, at, nskipped, topskipped, fails, result>>
  <2>1. out' = out \o file
    BY <1>3 DEF Say
  <2> QED
    BY <1>0, <1>3, <2>1, GoesOnPrints DEF unchangedHere
<1> QED
  BY <1>1, <1>2, <1>3 DEF Position

LEMMA PosnLine ==
    ASSUME StackInv, SearchInv, EndSearch
    PROVE  /\ (IF o.prop = NULL THEN Line("posn", Found) ELSE <<>>) \in Seq(RightLines)
           /\ o.prop = "posn" => Line("posn", Found) \in Seq(RightLines)
<1>1. at \in Nat
  BY FrameTyped
<1>2. Found \in Places
  <2>1. search \in Results \cup {"idle"} /\ ii \in Int
    BY DEF EndSearch, SearchInv
  <2>2. (IF search = "line" THEN ii + 1 ELSE 0) \in Int
    BY <2>1
  <2> QED
    BY <2>1, <2>2 DEF Found, Places
<1>3. ASSUME o.prop \in {NULL, "posn"} PROVE Line("posn", Found) \in Seq(RightLines)
  BY <1>1, <1>2, <1>3, RightLine
<1> QED
  BY <1>3, NoLines

LEMMA PlacedPrints ==
    ASSUME StackInv, PrintInv, SearchInv, Placed
    PROVE  PrintInv'
<1> DEFINE posn == IF o.prop = NULL THEN Line("posn", Found) ELSE <<>>
<1>0. /\ nskipped = 0 /\ doing = "searching" /\ posn \in Seq(RightLines)
      /\ f.slot = "JSFunction" /\ f.lost \cap {"shared", "name"} = {}
      /\ o.func # NULL => f.name = o.func
  BY PosnLine DEF PrintInv, Placed, InFrame
<1>1. CASE o.prop = "posn" /\ FrameEnds("ok", Line("posn", Found), nskipped)
  <2>1. Line("posn", Found) \in Seq(RightLines)
    BY <1>1, PosnLine DEF Placed
  <2> QED
    BY <1>0, <1>1, <2>1, FrameEndsPrints
<1>2. CASE /\ doing' = "arguments" /\ Say(posn)
           /\ UNCHANGED <<unchangedHere, at, nskipped, topskipped, fails, result>>
  <2>1. out' = out \o posn
    BY <1>2 DEF Say
  <2> QED
    BY <1>0, <1>2, <2>1, GoesOnPrints DEF unchangedHere
<1> QED
  BY <1>1, <1>2 DEF Placed

LEMMA ArgumentsPrints ==
    ASSUME StackInv, PrintInv, Arguments
    PROVE  PrintInv'
<1>1. f.slot = "JSFunction" /\ nskipped = 0
  BY DEF PrintInv, Arguments, InFrame
<1>2. ArgLines \in Seq(RightLines)
  BY <1>1, ArgLinesRight, AboutCallRight
<1>3. \E rv : FrameEnds(rv, ArgLines, nskipped)
  BY DEF Arguments
<1> QED
  BY <1>1, <1>2, <1>3, FrameEndsPrints

LEMMA StackPrints ==
    ASSUME StackInv, PrintInv, SearchInv, FrameStep
    PROVE  PrintInv'
<1>1. CASE do_jsframe
  BY <1>1, DoJsframePrints
<1>2. CASE Position
  BY <1>2, PositionPrints
<1>3. CASE Placed
  BY <1>3, PlacedPrints
<1>4. CASE Arguments
  BY <1>4, ArgumentsPrints
<1>5. CASE walk_jsframes_step \/ load_current_context
  <2>1. /\ UNCHANGED <<cmd, stack, out, topskipped>> /\ nskipped' = 0 /\ doing' \notin InFrame
    BY <1>5 DEF walk_jsframes_step, load_current_context, unchangedHere, InFrame, PrintInv
  <2> QED
    BY <2>1, RightLinesSame DEF PrintInv, o
<1>6. CASE walk_done
  <2>1. /\ UNCHANGED <<cmd, stack, nskipped>> /\ doing' \notin InFrame
        /\ \/ UNCHANGED <<out, topskipped>>
           \/ out' = out \o Elided(topskipped) /\ topskipped' = 0
    BY <1>6 DEF walk_done, unchangedHere, InFrame, Say
  <2>2. out' \in Seq(RightLines)
    <3>1. Elided(topskipped) \in Seq(RightLines) /\ out \in Seq(RightLines)
      BY ElidedRight DEF PrintInv
    <3>2. out \o Elided(topskipped) \in Seq(RightLines)
      BY <3>1, LinesJoined
    <3> QED
      BY <2>1, <3>1, <3>2
  <2> QED
    BY <2>1, <2>2, RightLinesSame DEF PrintInv, o
<1> QED
  BY <1>1, <1>2, <1>3, <1>4, <1>5, <1>6 DEF FrameStep

LEMMA FunctionsNotStacks ==
    /\ FunctionInv => cmd \notin StackCommand /\ cmd.name \notin {"jsstack", "jsframe"}
    /\ StackInv => cmd \in StackCommand
<1>1. ASSUME FunctionInv PROVE cmd.name \notin {"jsstack", "jsframe"}
  BY <1>1, NamesOfSteps DEF FunctionInv, InFunction, FunctionCommand, FunctionNames
<1> QED
  BY <1>1 DEF StackCommand, StackInv, InStack

LEMMA NotBothNext ==
    ASSUME FunctionInv', StackInv'
    PROVE  FALSE
<1>1. cmd'.name \in FunctionNames
  BY NamesOfSteps DEF FunctionInv, InFunction, FunctionCommand
<1>2. cmd'.name \in {"jsstack", "jsframe"}
  BY DEF StackInv, InStack, StackCommand
<1> QED
  BY <1>1, <1>2 DEF FunctionNames

PrintedInv == StackInv => PrintInv

LEMMA PrintsInductive == LeavesInv /\ SearchInv /\ PrintedInv /\ [Next]_vars => PrintedInv'
<1> SUFFICES ASSUME LeavesInv, SearchInv, PrintedInv, [Next]_vars, StackInv'
             PROVE  PrintInv'
  BY DEF PrintedInv
<1>1. CASE FunctionStep
  <2>1. FunctionInv'
    BY <1>1, StepOfFunction, FunctionKeeps
  <2> QED
    BY <2>1, NotBothNext
<1>2. CASE FrameStep
  BY <1>2, StepOfStack, StackPrints DEF PrintedInv
<1>3. CASE FunctionCommands /\ UNCHANGED framevars
  <2>1. FunctionInv'
    BY <1>3, FunctionBegins
  <2> QED
    BY <2>1, NotBothNext
<1>4. CASE FrameCommands
  <2>1. out' = <<>> /\ nskipped' = 0 /\ topskipped' = 0 /\ doing' \in {"walk", "registers"}
    BY <1>4, StackBegins
  <2>2. out' \in Seq(RightLines')
    BY <2>1, NoLines
  <2> QED
    BY <2>1, <2>2 DEF PrintInv, InFrame
<1>5. CASE (Search /\ UNCHANGED framevars) \/ UNCHANGED vars
  <2>1. UNCHANGED <<session, out, held, indent, framevars>>
    BY <1>5 DEF Search, vars, sessionvars
  <2>2. /\ UNCHANGED <<cmd, doing, misfreed, v8_warnings, atstart, out, held, indent>>
        /\ UNCHANGED <<stack, at, fails, nskipped, topskipped>>
    BY <2>1 DEF session, framevars
  <2>3. StackInv
    BY <2>2 DEF StackInv, InStack, StackLeaves, StackTyped, Indented, o
  <2> QED
    BY <2>2, <2>3, RightLinesSame DEF PrintedInv, PrintInv, o, f
<1> QED
  BY <1>1, <1>2, <1>3, <1>4, <1>5 DEF Next, Step

LEMMA PrintsInvariant == Spec => []PrintedInv
<1>1. Init => PrintedInv
  <2> SUFFICES ASSUME Init PROVE ~StackInv
    BY DEF PrintedInv
  <2>1. stack = <<>> /\ at = 0
    BY DEF Init, FramesInit
  <2>2. DOMAIN stack = {}
    BY <2>1
  <2> QED
    BY <2>2 DEF StackInv, StackTyped
<1> QED
  BY <1>1, LeavesInvariant, SearchesInvariant, PrintsInductive, PTL DEF Spec
-----------------------------------------------------------------------------
(* The frames that are shown, elided or failed.                            *)
LEMMA RightArePrinted == Seq(RightLines) \subseteq Seq(PrintedLine)
<1> SUFFICES ASSUME NEW s \in Seq(RightLines) PROVE s \in Seq(PrintedLine)
  OBVIOUS
<1>1. RightLines \subseteq PrintedLine
  BY DEF RightLines
<1>2. Len(s) \in Nat /\ s \in [1..Len(s) -> RightLines]
  BY LenProperties
<1>3. s \in [1..Len(s) -> PrintedLine]
  BY <1>1, <1>2
<1> QED
  BY <1>2, <1>3, SeqDef

LEMMA ShownMore ==
    ASSUME NEW s \in Seq(PrintedLine), NEW t \in Seq(PrintedLine),
           \A i \in 1..Len(t) : t[i].what \notin {"frame", "js"}
    PROVE  /\ ShownFrames(s \o t) = ShownFrames(s)
           /\ InOrder(s) => InOrder(s \o t)
<1> DEFINE r == s \o t
<1>1. /\ DOMAIN r = 1..Len(r) /\ DOMAIN s = 1..Len(s)
      /\ Len(r) = Len(s) + Len(t) /\ Len(s) \in Nat /\ Len(t) \in Nat
      /\ \A i \in 1..Len(s) : r[i] = s[i]
      /\ \A i \in 1..Len(t) : r[Len(s) + i] = t[i]
  BY ConcatProperties, LenProperties
<1> HIDE DEF r
<1>2. Shown(r) = Shown(s)
  <2>1. ASSUME NEW i \in Shown(r) PROVE i \in Shown(s)
    <3>1. i \in 1..Len(r) /\ r[i].what \in {"frame", "js"}
      BY <1>1 DEF Shown
    <3>2. ASSUME i \notin 1..Len(s) PROVE FALSE
      <4>1. i - Len(s) \in 1..Len(t) /\ Len(s) + (i - Len(s)) = i
        BY <1>1, <3>1, <3>2
      <4>2. r[i] = t[i - Len(s)]
        BY <1>1, <4>1
      <4> QED
        BY <3>1, <4>1, <4>2
    <3> QED
      BY <1>1, <3>1, <3>2 DEF Shown
  <2>2. ASSUME NEW i \in Shown(s) PROVE i \in Shown(r)
    BY <1>1 DEF Shown
  <2> QED
    BY <2>1, <2>2
<1>3. \A i \in Shown(s) : r[i] = s[i]
  BY <1>1 DEF Shown
<1>4. ShownFrames(r) = ShownFrames(s)
  BY <1>2, <1>3 DEF ShownFrames
<1>5. InOrder(s) => InOrder(r)
  BY <1>2, <1>3 DEF InOrder
<1> QED
  BY <1>4, <1>5 DEF r

LEMMA ShownOne ==
    ASSUME NEW s \in Seq(PrintedLine), NEW l \in PrintedLine, l.what \in {"frame", "js"}
    PROVE  /\ ShownFrames(s \o <<l>>) = ShownFrames(s) \cup {l.frame}
           /\ InOrder(s) /\ (\A i \in ShownFrames(s) : i < l.frame) => InOrder(s \o <<l>>)
<1> DEFINE r == s \o <<l>>
           n == Len(s) + 1
<1>1. /\ DOMAIN r = 1..n /\ DOMAIN s = 1..Len(s) /\ Len(s) \in Nat
      /\ \A i \in 1..Len(s) : r[i] = s[i]
      /\ r[n] = l
  <2>1. <<l>> \in Seq(PrintedLine) /\ Len(<<l>>) = 1 /\ <<l>>[1] = l
    BY OneLine
  <2>2. r \in Seq(PrintedLine) /\ Len(r) = Len(s) + 1 /\ r[Len(s) + 1] = l
        /\ \A i \in 1..Len(s) : r[i] = s[i]
    BY <2>1, ConcatProperties
  <2> QED
    BY <2>2, LenProperties
<1> HIDE DEF r
<1>2. Shown(r) = Shown(s) \cup {n}
  <2>1. ASSUME NEW i \in Shown(r) PROVE i \in Shown(s) \cup {n}
    <3>1. i \in 1..n /\ r[i].what \in {"frame", "js"}
      BY <1>1 DEF Shown
    <3>2. i = n \/ i \in 1..Len(s)
      BY <1>1, <3>1
    <3> QED
      BY <1>1, <3>1, <3>2 DEF Shown
  <2>2. ASSUME NEW i \in Shown(s) \cup {n} PROVE i \in Shown(r)
    <3>1. n \in 1..n /\ \A j \in 1..Len(s) : j \in 1..n
      BY <1>1
    <3>2. CASE i \in Shown(s)
      BY <1>1, <3>1, <3>2 DEF Shown
    <3>3. CASE i = n
      BY <1>1, <3>1, <3>3 DEF Shown
    <3> QED
      BY <3>2, <3>3
  <2> QED
    BY <2>1, <2>2
<1>3. \A i \in Shown(s) : r[i] = s[i] /\ i \in 1..Len(s) /\ s[i].frame \in ShownFrames(s)
  BY <1>1 DEF Shown, ShownFrames
<1>4. ShownFrames(r) = ShownFrames(s) \cup {l.frame}
  <2>1. ASSUME NEW x \in ShownFrames(r) PROVE x \in ShownFrames(s) \cup {l.frame}
    <3>1. PICK i \in Shown(r) : x = r[i].frame
      BY DEF ShownFrames
    <3> QED
      BY <1>1, <1>2, <1>3, <3>1
  <2>2. ASSUME NEW x \in ShownFrames(s) \cup {l.frame} PROVE x \in ShownFrames(r)
    <3>1. n \in Shown(r) /\ r[n].frame = l.frame
      BY <1>1, <1>2
    <3>2. CASE x \in ShownFrames(s)
      <4>1. PICK i \in Shown(s) : x = s[i].frame
        BY <3>2 DEF ShownFrames
      <4> QED
        BY <1>2, <1>3, <4>1 DEF ShownFrames
    <3>3. CASE x = l.frame
      BY <3>1, <3>3 DEF ShownFrames
    <3> QED
      BY <3>2, <3>3
  <2> QED
    BY <2>1, <2>2
<1>5. ASSUME InOrder(s), \A i \in ShownFrames(s) : i < l.frame PROVE InOrder(r)
  <2> SUFFICES ASSUME NEW i \in Shown(r), NEW j \in Shown(r), i < j
               PROVE  r[i].frame < r[j].frame
    BY DEF InOrder
  <2>1. i # n
    <3>1. j \in 1..n
      BY <1>1 DEF Shown
    <3> QED
      BY <1>1, <3>1
  <2>2. i \in Shown(s)
    BY <1>2, <2>1
  <2>3. CASE j = n
    BY <1>1, <1>3, <1>5, <2>2, <2>3
  <2>4. CASE j \in Shown(s)
    BY <1>3, <1>5, <2>2, <2>4 DEF InOrder
  <2> QED
    BY <1>2, <2>3, <2>4
<1> QED
  BY <1>4, <1>5 DEF r

LEMMA OneMore ==
    \A c, e, h \in Nat :
       /\ c + e = h => (c + 1) + e = h + 1 /\ c + (e + 1) = h + 1
       /\ (c + e) + 0 = c + e
OBVIOUS

(* The frame that was counted already: nothing is added but for a failure. *)
LEMMA CountsSame ==
    ASSUME NEW lines, NEW lines2, NEW top, NEW top2, NEW failed, NEW failed2, NEW H, NEW x \in H,
           Counts(lines, top, failed, H),
           ShownFrames(lines2) = ShownFrames(lines), InOrder(lines2),
           ElidedIn(lines2) + top2 = ElidedIn(lines) + top,
           failed \subseteq failed2, failed2 \subseteq failed \cup {x},
           o.prop = NULL => x \in ShownFrames(lines)
    PROVE  Counts(lines2, top2, failed2, H)
<1>1. ShownFrames(lines2) \cup failed2 \subseteq H
  BY DEF Counts
<1>2. ASSUME o.prop = NULL
      PROVE  ShownFrames(lines2) \cup failed2 = ShownFrames(lines) \cup failed
  BY <1>2
<1> QED
  BY <1>1, <1>2 DEF Counts

(* A frame more: it is shown, it fails, it is elided, or it is none of     *)
(* those that were asked for.                                              *)
Reported(x, lines, lines2, e, e2, failed, failed2) ==
    \/ /\ ShownFrames(lines2) = ShownFrames(lines) \cup {x} /\ e2 = e /\ failed2 = failed
       /\ o.func # NULL => IsAskedFor(stack[x])
    \/ /\ ShownFrames(lines2) = ShownFrames(lines) /\ e2 = e /\ failed2 = failed \cup {x}
       /\ o.func # NULL => ~IsAskedFor(stack[x])
    \/ /\ ShownFrames(lines2) = ShownFrames(lines) /\ e2 = e + 1 /\ failed2 = failed
       /\ o.func = NULL
    \/ /\ ShownFrames(lines2) = ShownFrames(lines) /\ e2 = e /\ failed2 = failed
       /\ o.prop # NULL \/ (o.func # NULL /\ ~IsAskedFor(stack[x]))

LEMMA CountsMore ==
    ASSUME NEW lines, NEW lines2, NEW top, NEW top2, NEW failed, NEW failed2, NEW H, NEW x,
           x \notin H, IsFiniteSet(H), ElidedIn(lines) + top \in Nat,
           Counts(lines, top, failed, H), InOrder(lines2),
           Reported(x, lines, lines2, ElidedIn(lines) + top, ElidedIn(lines2) + top2, failed, failed2)
    PROVE  Counts(lines2, top2, failed2, H \cup {x})
<1> DEFINE S == ShownFrames(lines)
           S2 == ShownFrames(lines2)
           e == ElidedIn(lines) + top
           e2 == ElidedIn(lines2) + top2
<1>1. S \cup failed \subseteq H /\ x \notin S /\ x \notin failed /\ e \in Nat
  BY DEF Counts
<1>2. Reported(x, lines, lines2, e, e2, failed, failed2)
  OBVIOUS
<1>3. S2 \cup failed2 \subseteq H \cup {x}
  BY <1>1, <1>2 DEF Reported
<1>4. ASSUME o.func = NULL, o.prop = NULL
      PROVE  Cardinality(S2 \cup failed2) + e2 = Cardinality(H \cup {x})
  <2>1. IsFiniteSet(S \cup failed) /\ Cardinality(S \cup failed) \in Nat /\ Cardinality(H) \in Nat
    BY <1>1, FS_Subset, FS_CardinalityType
  <2>2. Cardinality(S \cup failed) + e = Cardinality(H)
    BY <1>4 DEF Counts
  <2>3. Cardinality(H \cup {x}) = Cardinality(H) + 1
    BY FS_AddElement
  <2>4. Cardinality((S \cup failed) \cup {x}) = Cardinality(S \cup failed) + 1
    BY <1>1, <2>1, FS_AddElement
  <2>5. \/ S2 \cup failed2 = (S \cup failed) \cup {x} /\ e2 = e
        \/ S2 \cup failed2 = S \cup failed /\ e2 = e + 1
    <3> HIDE DEF S, S2, e, e2
    <3>1. \/ S2 = S \cup {x} /\ e2 = e /\ failed2 = failed
          \/ S2 = S /\ e2 = e /\ failed2 = failed \cup {x}
          \/ S2 = S /\ e2 = e + 1 /\ failed2 = failed
      BY <1>2, <1>4 DEF Reported, S, S2, e, e2
    <3> QED
      BY <3>1
  <2> HIDE DEF S, S2, e, e2
  <2>6. CASE S2 \cup failed2 = (S \cup failed) \cup {x} /\ e2 = e
    <3>1. (Cardinality(S \cup failed) + 1) + e = Cardinality(H) + 1
      BY <1>1, <2>1, <2>2, OneMore
    <3> QED
      BY <2>3, <2>4, <2>6, <3>1, Zenon
  <2>7. CASE S2 \cup failed2 = S \cup failed /\ e2 = e + 1
    <3>1. Cardinality(S \cup failed) + (e + 1) = Cardinality(H) + 1
      BY <1>1, <2>1, <2>2, OneMore
    <3> QED
      BY <2>3, <2>7, <3>1, Zenon
  <2> QED
    BY <2>5, <2>6, <2>7
<1>5. ASSUME o.func # NULL, o.prop = NULL
      PROVE  S2 = {i \in H \cup {x} : IsAskedFor(stack[i])}
  <2>1. S = {i \in H : IsAskedFor(stack[i])}
    BY <1>5 DEF Counts
  <2>2. \/ S2 = S \cup {x} /\ IsAskedFor(stack[x])
        \/ S2 = S /\ ~IsAskedFor(stack[x])
    BY <1>2, <1>5 DEF Reported
  <2> HIDE DEF S, S2
  <2> QED
    BY <2>1, <2>2
<1> QED
  BY <1>3, <1>4, <1>5 DEF Counts

(* What the end of a frame adds up to in ::jsstack.                        *)
LEMMA FrameEndsCounts ==
    ASSUME StackInv, PrintInv, NEW lines \in Seq(RightLines), NEW skipped \in Nat,
           NEW rv \in {"ok", "error"}, rv = "error" => skipped = 0, o.prop # NULL => skipped = 0,
           at = 1 => topskipped = 0, FrameEnds(rv, lines, skipped),
           cmd.name = "jsstack", result' # "error"
    PROVE  /\ ShownFrames(out') = ShownFrames(out \o lines)
           /\ InOrder(out \o lines) => InOrder(out')
           /\ ElidedIn(out') + topskipped' = (ElidedIn(out \o lines) + topskipped) + skipped
           /\ doing' = "walk" /\ result' = result
<1>1. out \in Seq(RightLines) /\ topskipped \in Nat
  BY DEF PrintInv
<1>2. out \o lines \in Seq(RightLines) /\ out \o lines \in Seq(PrintedLine)
  BY <1>1, LinesJoined, RightArePrinted
<1>3. ElidedIn(out \o lines) \in Nat
  BY <1>2, ElidedMore
<1>4. CASE at = 1
  <2>1. out' = out \o lines /\ topskipped' = skipped /\ doing' = "walk" /\ result' = result
    BY <1>4 DEF FrameEnds
  <2>2. topskipped = 0
    BY <1>4
  <2> QED
    BY <1>1, <1>3, <2>1, <2>2
<1>5. CASE at # 1
  <2>1. /\ out' = (out \o lines) \o (IF rv = "ok" THEN Elided(skipped) ELSE <<>>)
        /\ topskipped' = topskipped /\ doing' = "walk" /\ result' = result
    BY <1>5 DEF FrameEnds
  <2>2. CASE skipped = 0
    <3>1. (IF rv = "ok" THEN Elided(skipped) ELSE <<>>) = <<>>
      BY <2>2, ElidedRight
    <3>2. out' = out \o lines
      BY <1>2, <2>1, <3>1, NothingJoined
    <3> QED
      <4>1. (ElidedIn(out \o lines) + topskipped) + 0 = ElidedIn(out \o lines) + topskipped
        BY <1>1, <1>3, OneMore
      <4>2. ElidedIn(out') + topskipped' = (ElidedIn(out \o lines) + topskipped) + skipped
        BY <2>1, <2>2, <3>2, <4>1
      <4> QED
        BY <2>1, <3>2, <4>2
  <2>3. CASE skipped # 0
    <3> DEFINE l == [what |-> "elided", frame |-> 0, value |-> skipped]
    <3>1. rv = "ok" /\ Elided(skipped) = <<l>> /\ Elided(skipped) \in Seq(RightLines)
      BY <2>3, ElidedRight
    <3>2. out' = (out \o lines) \o <<l>> /\ <<l>> \in Seq(PrintedLine)
      BY <2>1, <3>1, RightArePrinted
    <3>3. Len(<<l>>) = 1 /\ <<l>>[1] = l /\ l.what = "elided" /\ l.value = skipped
      OBVIOUS
    <3>4. \A i \in 1..Len(<<l>>) : <<l>>[i].what \notin {"frame", "js"}
      BY <3>3
    <3>5. ElidedIn(out') = ElidedIn(out \o lines) + skipped
      BY <1>2, <3>2, <3>3, ElidedMore DEF ElidedBy
    <3>6. /\ ShownFrames(out') = ShownFrames(out \o lines)
          /\ InOrder(out \o lines) => InOrder(out')
      BY <1>2, <3>2, <3>4, ShownMore
    <3> QED
      BY <1>1, <1>3, <2>1, <3>5, <3>6
  <2> QED
    BY <2>2, <2>3
<1> QED
  BY <1>4, <1>5

LEMMA FirstTyped ==
    ASSUME StackInv
    PROVE  First \in {1, 2} /\ at \in Nat /\ at >= 1 /\ Len(stack) \in Nat
<1>1. stack \in Stacks /\ at \in DOMAIN stack
  BY DEF StackInv, StackTyped
<1> QED
  BY <1>1, StacksTyped DEF First

LEMMA CountsNext ==
    ASSUME UNCHANGED <<cmd, stack>>, Counts(out', topskipped', fails', Handled')
    PROVE  Counts(out, topskipped, fails, Handled)'
<1>1. o' = o
  BY DEF o
<1>2. \A i : IsAskedFor(stack[i])' <=> IsAskedFor(stack[i])
  BY <1>1 DEF IsAskedFor
<1>3. o'.func # NULL /\ o'.prop = NULL =>
          ShownFrames(out') = {i \in Handled' : IsAskedFor(stack[i])'}
  BY <1>1, <1>2 DEF Counts
<1> QED
  BY <1>1, <1>3 DEF Counts

\* the frame that is looked at is the next one to be handled
LEMMA HandledMore ==
    ASSUME StackInv, PrintInv, doing = "frame", at >= First
    PROVE  /\ First..at = Handled \cup {at} /\ at \notin Handled /\ IsFiniteSet(Handled)
           /\ \A i \in Handled : i < at
           /\ ElidedIn(out) + topskipped \in Nat /\ ElidedIn(out) \in Nat /\ topskipped \in Nat
<1>1. First \in Nat /\ at \in Nat
  BY FirstTyped
<1>2. Handled = First..(at - 1)
  BY DEF Handled
<1>3. IsFiniteSet(Handled)
  BY <1>1, <1>2, FS_Interval
<1>4. /\ First..at = Handled \cup {at} /\ at \notin Handled
      /\ \A i \in Handled : i < at
  BY <1>1, <1>2
<1>5. ElidedIn(out) \in Nat /\ topskipped \in Nat
  BY RightArePrinted, ElidedMore DEF PrintInv
<1>6. ElidedIn(out) + topskipped \in Nat
  BY <1>5
<1> QED
  BY <1>3, <1>4, <1>5, <1>6

(* The end of a frame that was not counted before.                         *)
LEMMA FrameEndsMore ==
    ASSUME StackInv, PrintInv, AccountInv, cmd.name = "jsstack", doing = "frame",
           NEW lines \in Seq(RightLines), NEW skipped \in Nat, NEW rv \in {"ok", "error"},
           rv = "error" => skipped = 0, o.prop # NULL => skipped = 0,
           FrameEnds(rv, lines, skipped),
           InOrder(out) => InOrder(out \o lines),
           Reported(at, out, out \o lines, ElidedIn(out) + topskipped,
                    (ElidedIn(out \o lines) + topskipped) + skipped, fails, fails')
    PROVE  AccountInv'
<1>0. /\ result = "none" /\ at >= First /\ (at = 1 => topskipped = 0)
      /\ Counts(out, topskipped, fails, Handled)
  BY DEF AccountInv
<1>1. /\ doing' \in {"idle", "walk"} /\ at' = at /\ cmd' = cmd /\ stack' = stack
  BY FrameEndsAt
<1>2. CASE result' = "error"
  <2>1. doing' = "idle"
    BY <1>0, <1>2 DEF FrameEnds
  <2> QED
    BY <1>2, <2>1 DEF AccountInv
<1>3. CASE result' # "error"
  <2>1. /\ ShownFrames(out') = ShownFrames(out \o lines)
        /\ InOrder(out \o lines) => InOrder(out')
        /\ ElidedIn(out') + topskipped' = (ElidedIn(out \o lines) + topskipped) + skipped
        /\ doing' = "walk" /\ result' = result
    BY <1>0, <1>3, FrameEndsCounts
  <2>2. InOrder(out')
    BY <1>0, <2>1 DEF Counts
  <2>3. Reported(at, out, out', ElidedIn(out) + topskipped, ElidedIn(out') + topskipped',
                 fails, fails')
    BY <2>1 DEF Reported
  <2>4. Counts(out', topskipped', fails', Handled \cup {at})
    BY <1>0, <2>2, <2>3, HandledMore, CountsMore
  <2>5. Handled' = Handled \cup {at}
    <3>1. Handled' = First'..at' /\ First' = First
      BY <1>1, <2>1 DEF Handled, First
    <3> QED
      BY <1>0, <1>1, <3>1, HandledMore
  <2>6. Counts(out, topskipped, fails, Handled)'
    BY <1>1, <2>4, <2>5, CountsNext
  <2> QED
    BY <1>0, <1>1, <2>1, <2>6 DEF AccountInv, InFrame
<1> QED
  BY <1>2, <1>3

(* The end of a frame that is counted already.                             *)
LEMMA FrameEndsSame ==
    ASSUME StackInv, PrintInv, AccountInv, cmd.name = "jsstack", doing \in InFrame,
           NEW lines \in Seq(RightLines), NEW rv \in {"ok", "error"},
           \A i \in 1..Len(lines) : lines[i].what \notin {"frame", "js", "elided"},
           FrameEnds(rv, lines, 0)
    PROVE  AccountInv'
<1>0. /\ result = "none" /\ at >= First /\ (at = 1 => topskipped = 0)
      /\ Counts(out, topskipped, fails, Handled)
      /\ o.prop = NULL => at \in ShownFrames(out)
  BY DEF AccountInv, InFrame
<1>1. /\ doing' \in {"idle", "walk"} /\ at' = at /\ cmd' = cmd /\ stack' = stack
      /\ fails \subseteq fails' /\ fails' \subseteq fails \cup {at}
  BY FrameEndsAt
<1>2. CASE result' = "error"
  <2>1. doing' = "idle"
    BY <1>0, <1>2 DEF FrameEnds
  <2> QED
    BY <1>2, <2>1 DEF AccountInv
<1>3. CASE result' # "error"
  <2>1. /\ ShownFrames(out') = ShownFrames(out \o lines)
        /\ InOrder(out \o lines) => InOrder(out')
        /\ ElidedIn(out') + topskipped' = (ElidedIn(out \o lines) + topskipped) + 0
        /\ doing' = "walk" /\ result' = result
    BY <1>0, <1>3, FrameEndsCounts
  <2>2. out \in Seq(PrintedLine) /\ lines \in Seq(PrintedLine) /\ topskipped \in Nat
    BY RightArePrinted DEF PrintInv
  <2>3. /\ ShownFrames(out \o lines) = ShownFrames(out) /\ (InOrder(out) => InOrder(out \o lines))
        /\ ElidedIn(out \o lines) = ElidedIn(out) /\ ElidedIn(out) \in Nat
    BY <2>2, ShownMore, ElidedMore
  <2>4. ElidedIn(out') + topskipped' = ElidedIn(out) + topskipped
    <3>1. (ElidedIn(out) + topskipped) + 0 = ElidedIn(out) + topskipped
      BY <2>2, <2>3, OneMore
    <3> QED
      BY <2>1, <2>3, <3>1
  <2>5. InOrder(out') /\ ShownFrames(out') = ShownFrames(out)
    BY <1>0, <2>1, <2>3 DEF Counts
  <2>6. Handled = First..at /\ Handled' = First..at /\ at \in First..at
    <3>1. First \in Nat /\ at \in Nat
      BY FirstTyped
    <3>2. Handled = First..at
      BY DEF Handled, InFrame
    <3>3. Handled' = First..at
      BY <1>1, <2>1 DEF Handled, First
    <3> QED
      BY <1>0, <3>1, <3>2, <3>3
  <2>7. Counts(out', topskipped', fails', Handled)
    BY <1>0, <1>1, <2>4, <2>5, <2>6, CountsSame
  <2>8. Counts(out, topskipped, fails, Handled)'
    BY <1>1, <2>6, <2>7, CountsNext
  <2> QED
    BY <1>0, <1>1, <2>1, <2>8 DEF AccountInv, InFrame
<1> QED
  BY <1>2, <1>3

\* a line about the frame that is looked at shows it, after those before it
LEMMA ShowsFrame ==
    ASSUME StackInv, PrintInv, AccountInv, cmd.name = "jsstack", doing = "frame",
           NEW what \in {"frame", "js"}, NEW value \in STRING \cup {NULL}, o.prop = NULL
    PROVE  /\ Line(what, value) \in Seq(RightLines)
           /\ InOrder(out) => InOrder(out \o Line(what, value))
           /\ ShownFrames(out \o Line(what, value)) = ShownFrames(out) \cup {at}
           /\ ElidedIn(out \o Line(what, value)) = ElidedIn(out)
<1> DEFINE l == [what |-> what, frame |-> at, value |-> value]
<1>1. at \in Nat /\ at >= First
  BY FirstTyped DEF AccountInv
<1>2. Line(what, value) \in Seq(RightLines) /\ Line(what, value) = <<l>>
  BY <1>1, RightLine
<1>3. l \in PrintedLine /\ l.what \in {"frame", "js"} /\ l.frame = at
  BY <1>1, LineRecord DEF Whats
<1>4. out \in Seq(PrintedLine) /\ <<l>> \in Seq(PrintedLine)
  BY <1>2, RightArePrinted DEF PrintInv
<1>5. \A i \in ShownFrames(out) : i < at
  BY <1>1, HandledMore DEF AccountInv, Counts
<1>6. /\ ShownFrames(out \o <<l>>) = ShownFrames(out) \cup {at}
      /\ InOrder(out) => InOrder(out \o <<l>>)
  BY <1>3, <1>4, <1>5, ShownOne
<1>7. ElidedIn(out \o <<l>>) = ElidedIn(out)
  <2>1. Len(<<l>>) = 1 /\ <<l>>[1] = l
    OBVIOUS
  <2>2. \A i \in 1..Len(<<l>>) : <<l>>[i].what # "elided"
    BY <1>3, <2>1
  <2> QED
    BY <1>4, <2>2, ElidedMore
<1> QED
  BY <1>2, <1>6, <1>7

LEMMA DoJsframeCounts ==
    ASSUME StackInv, PrintInv, AccountInv, cmd.name = "jsstack", do_jsframe
    PROVE  AccountInv'
<1> DEFINE e == ElidedIn(out) + topskipped
<1>0. /\ doing = "frame" /\ nskipped = 0 /\ f = stack[at]
      /\ at >= First /\ result = "none"
  BY DEF do_jsframe, PrintInv, f, AccountInv
<1>1. /\ <<>> \in Seq(RightLines) /\ out \o <<>> = out
      /\ \A lines \in Seq(RightLines) : Elided(nskipped) \o lines = lines
      /\ {f.special, f.name} \subseteq STRING \cup {NULL}
  BY NoLines, NoneElided, ValuesOfFrame
<1>2. e \in Nat /\ e + 0 = e
  BY <1>0, HandledMore
<1>3. CASE Treatment = "nothing" /\ FrameEnds("ok", <<>>, nskipped)
  <2>1. fails' = fails
    BY <1>3, FrameEndsAt
  <2>2. Reported(at, out, out \o <<>>, e, (ElidedIn(out \o <<>>) + topskipped) + 0, fails, fails')
    BY <1>0, <1>1, <1>2, <1>3, <2>1, Treated DEF Reported
  <2> QED
    BY <1>0, <1>1, <1>3, <2>2, FrameEndsMore
<1>4. CASE Treatment = "error" /\ FrameEnds("error", <<>>, nskipped)
  <2>1. fails' = fails \cup {at}
    BY <1>4, FrameEndsAt
  <2>2. Reported(at, out, out \o <<>>, e, (ElidedIn(out \o <<>>) + topskipped) + 0, fails, fails')
    BY <1>0, <1>1, <1>2, <1>4, <2>1, Treated DEF Reported
  <2> QED
    BY <1>0, <1>1, <1>4, <2>2, FrameEndsMore
<1>5. CASE Treatment = "skipped" /\ FrameEnds("ok", <<>>, nskipped + 1)
  <2>1. fails' = fails /\ o.func = NULL /\ o.prop = NULL /\ nskipped + 1 = 1
    BY <1>0, <1>5, FrameEndsAt, Treated
  <2>2. Reported(at, out, out \o <<>>, e, (ElidedIn(out \o <<>>) + topskipped) + 1, fails, fails')
    BY <1>1, <2>1 DEF Reported
  <2> QED
    BY <1>0, <1>1, <1>5, <2>1, <2>2, FrameEndsMore
<1>6. CASE /\ Treatment = "shown"
           /\ FrameEnds("ok", Elided(nskipped) \o Line("frame", f.special), 0)
  <2>1. fails' = fails /\ o.func = NULL /\ o.prop = NULL
    BY <1>6, FrameEndsAt, Treated
  <2> DEFINE lines == Line("frame", f.special)
  <2>2. /\ lines \in Seq(RightLines)
        /\ InOrder(out) => InOrder(out \o lines)
        /\ ShownFrames(out \o lines) = ShownFrames(out) \cup {at}
        /\ ElidedIn(out \o lines) = ElidedIn(out)
    BY <1>0, <1>1, <2>1, ShowsFrame
  <2>3. FrameEnds("ok", lines, 0)
    BY <1>1, <1>6, <2>2
  <2>4. Reported(at, out, out \o lines, e, (ElidedIn(out \o lines) + topskipped) + 0, fails, fails')
    BY <1>2, <2>1, <2>2 DEF Reported
  <2> HIDE DEF lines
  <2> QED
    BY <1>0, <2>2, <2>3, <2>4, FrameEndsMore
<1>7. CASE /\ Treatment = "function" /\ o.prop = NULL
           /\ FrameEnds("ok", Elided(nskipped) \o Line("js", f.name), 0)
  <2>1. fails' = fails /\ (o.func # NULL => IsAskedFor(stack[at]))
    BY <1>0, <1>7, FrameEndsAt, Treated DEF IsAskedFor
  <2> DEFINE lines == Line("js", f.name)
  <2>2. /\ lines \in Seq(RightLines)
        /\ InOrder(out) => InOrder(out \o lines)
        /\ ShownFrames(out \o lines) = ShownFrames(out) \cup {at}
        /\ ElidedIn(out \o lines) = ElidedIn(out)
    BY <1>0, <1>1, <1>7, ShowsFrame
  <2>3. FrameEnds("ok", lines, 0)
    BY <1>1, <1>7, <2>2
  <2>4. Reported(at, out, out \o lines, e, (ElidedIn(out \o lines) + topskipped) + 0, fails, fails')
    BY <1>2, <2>1, <2>2 DEF Reported
  <2> HIDE DEF lines
  <2> QED
    BY <1>0, <2>2, <2>3, <2>4, FrameEndsMore
<1>8. CASE /\ Treatment = "function" /\ doing' = "file"
           /\ Say(Elided(nskipped) \o IF o.prop = NULL THEN Line("js", f.name) ELSE <<>>)
           /\ UNCHANGED <<unchangedHere, at, topskipped, fails, result>>
  <2>0. UNCHANGED <<cmd, stack, at, topskipped, fails, result>>
    BY <1>8 DEF unchangedHere
  <2>1. /\ Counts(out, topskipped, fails, Handled) /\ (at = 1 => topskipped = 0)
        /\ o.func # NULL => IsAskedFor(stack[at])
    BY <1>0, <1>8, Treated DEF AccountInv, IsAskedFor
  <2>2. /\ InOrder(out) => InOrder(out')
        /\ Reported(at, out, out', e, ElidedIn(out') + topskipped', fails, fails')
        /\ o.prop = NULL => at \in ShownFrames(out')
    <3>1. CASE o.prop = NULL
      <4> DEFINE lines == Line("js", f.name)
      <4>1. /\ lines \in Seq(RightLines)
            /\ InOrder(out) => InOrder(out \o lines)
            /\ ShownFrames(out \o lines) = ShownFrames(out) \cup {at}
            /\ ElidedIn(out \o lines) = ElidedIn(out)
        BY <1>0, <1>1, <3>1, ShowsFrame
      <4>2. out' = out \o lines
        BY <1>1, <1>8, <3>1, <4>1 DEF Say
      <4> HIDE DEF lines
      <4> QED
        BY <2>0, <2>1, <4>1, <4>2 DEF Reported
    <3>2. CASE o.prop # NULL
      <4>1. out' = out \o (Elided(nskipped) \o <<>>)
        BY <1>8, <3>2 DEF Say
      <4>2. out' = out
        BY <1>1, <4>1
      <4> QED
        BY <2>0, <3>2, <4>2 DEF Reported
    <3> QED
      BY <3>1, <3>2
  <2>3. InOrder(out')
    BY <2>1, <2>2 DEF Counts
  <2>4. Counts(out', topskipped', fails', Handled \cup {at})
    BY <1>0, <2>1, <2>2, <2>3, HandledMore, CountsMore
  <2>5. Handled' = Handled \cup {at}
    <3>1. Handled' = First..at
      BY <1>8, <2>0 DEF Handled, First
    <3> QED
      BY <1>0, <3>1, HandledMore
  <2>6. Counts(out, topskipped, fails, Handled)'
    BY <2>0, <2>4, <2>5, CountsNext
  <2>7. First' = First /\ o' = o
    BY <2>0 DEF First, o
  <2> QED
    BY <1>0, <1>8, <2>0, <2>1, <2>2, <2>6, <2>7 DEF AccountInv, InFrame
<1> QED
  BY <1>3, <1>4, <1>5, <1>6, <1>7, <1>8 DEF do_jsframe

LEMMA GoesOnCounts ==
    ASSUME StackInv, PrintInv, AccountInv, cmd.name = "jsstack", doing \in InFrame,
           doing' \in InFrame, NEW lines \in Seq(RightLines),
           \A i \in 1..Len(lines) : lines[i].what \notin {"frame", "js", "elided"},
           out' = out \o lines, UNCHANGED <<cmd, stack, at, topskipped, fails, result>>
    PROVE  AccountInv'
<1>0. /\ result = "none" /\ at >= First /\ (at = 1 => topskipped = 0)
      /\ Counts(out, topskipped, fails, Handled)
      /\ o.prop = NULL => at \in ShownFrames(out)
  BY DEF AccountInv, InFrame
<1>1. out \in Seq(PrintedLine) /\ lines \in Seq(PrintedLine)
  BY RightArePrinted DEF PrintInv
<1>2. /\ ShownFrames(out') = ShownFrames(out) /\ (InOrder(out) => InOrder(out'))
      /\ ElidedIn(out') = ElidedIn(out)
  BY <1>1, ShownMore, ElidedMore
<1>3. Handled = First..at /\ Handled' = First..at /\ o' = o /\ First' = First
  BY DEF Handled, First, o, InFrame
<1>4. Counts(out', topskipped', fails', Handled')
  BY <1>0, <1>2, <1>3 DEF Counts
<1>5. Counts(out, topskipped, fails, Handled)'
  BY <1>4, CountsNext
<1> QED
  BY <1>0, <1>2, <1>3, <1>5 DEF AccountInv, InFrame

\* a line about the file or the position is quiet
LEMMA QuietLine ==
    ASSUME NEW what \in {"file", "posn"}, NEW value
    PROVE  \A i \in 1..Len(Line(what, value)) :
              Line(what, value)[i].what \notin {"frame", "js", "elided"}
<1> DEFINE l == [what |-> what, frame |-> at, value |-> value]
<1>1. Line(what, value) = <<l>> /\ l.what = what
  BY DEF Line
<1>2. \A i \in 1..Len(<<l>>) : <<l>>[i] = l
  OBVIOUS
<1> QED
  BY <1>1, <1>2

LEMMA PositionCounts ==
    ASSUME StackInv, PrintInv, AccountInv, cmd.name = "jsstack", Position
    PROVE  AccountInv'
<1> DEFINE file == IF o.prop = NULL THEN Line("file", f.name) ELSE <<>>
<1>0. /\ nskipped = 0 /\ doing = "file" /\ file \in Seq(RightLines) /\ <<>> \in Seq(RightLines)
      /\ doing \in InFrame
  BY FileLine, NoLines DEF PrintInv, Position, InFrame
<1>1. /\ \A i \in 1..Len(<<>>) : <<>>[i].what \notin {"frame", "js", "elided"}
      /\ \A i \in 1..Len(file) : file[i].what \notin {"frame", "js", "elided"}
  <2>1. \A i \in 1..Len(<<>>) : <<>>[i].what \notin {"frame", "js", "elided"}
    OBVIOUS
  <2>2. CASE o.prop = NULL
    BY <2>1, <2>2, QuietLine
  <2>3. CASE o.prop # NULL
    BY <2>1, <2>3
  <2> QED
    BY <2>1, <2>2, <2>3
<1> HIDE DEF file
<1>2. CASE FrameEnds("error", <<>>, nskipped) \/ FrameEnds("error", file, nskipped)
  BY <1>0, <1>1, <1>2, FrameEndsSame
<1>3. CASE o.prop = "file" /\ FrameEnds("ok", Line("file", f.name), nskipped)
  <2>1. Line("file", f.name) \in Seq(RightLines)
    BY <1>3, FileLine
  <2> DEFINE lines == Line("file", f.name)
  <2>2. \A i \in 1..Len(lines) : lines[i].what \notin {"frame", "js", "elided"}
    BY QuietLine
  <2> HIDE DEF lines
  <2>3. FrameEnds("ok", lines, 0) /\ lines \in Seq(RightLines)
    BY <1>0, <1>3, <2>1 DEF lines
  <2> QED
    BY <1>0, <2>2, <2>3, FrameEndsSame
<1>4. CASE /\ doing' = "searching" /\ Say(file)
           /\ UNCHANGED <<unchangedHere, at, nskipped, topskipped, fails, result>>
  <2>1. /\ out' = out \o file /\ doing' \in InFrame
        /\ UNCHANGED <<cmd, stack, at, topskipped, fails, result>>
    BY <1>4 DEF Say, InFrame, unchangedHere
  <2> QED
    BY <1>0, <1>1, <2>1, GoesOnCounts
<1> QED
  BY <1>2, <1>3, <1>4 DEF Position, file

LEMMA PlacedCounts ==
    ASSUME StackInv, PrintInv, AccountInv, SearchInv, cmd.name = "jsstack", Placed
    PROVE  AccountInv'
<1> DEFINE posn == IF o.prop = NULL THEN Line("posn", Found) ELSE <<>>
<1>0. nskipped = 0 /\ doing = "searching" /\ posn \in Seq(RightLines) /\ doing \in InFrame
  BY PosnLine DEF PrintInv, Placed, InFrame
<1>1. \A i \in 1..Len(posn) : posn[i].what \notin {"frame", "js", "elided"}
  <2>1. \A i \in 1..Len(<<>>) : <<>>[i].what \notin {"frame", "js", "elided"}
    OBVIOUS
  <2>2. CASE o.prop = NULL
    BY <2>2, QuietLine
  <2>3. CASE o.prop # NULL
    BY <2>1, <2>3
  <2> QED
    BY <2>2, <2>3
<1> HIDE DEF posn
<1>2. CASE o.prop = "posn" /\ FrameEnds("ok", Line("posn", Found), nskipped)
  <2> DEFINE lines == Line("posn", Found)
  <2>1. \A i \in 1..Len(lines) : lines[i].what \notin {"frame", "js", "elided"}
    BY QuietLine
  <2>2. lines \in Seq(RightLines)
    BY <1>2, PosnLine DEF Placed
  <2> HIDE DEF lines
  <2>3. FrameEnds("ok", lines, 0)
    BY <1>0, <1>2 DEF lines
  <2> QED
    BY <1>0, <2>1, <2>2, <2>3, FrameEndsSame
<1>3. CASE /\ doing' = "arguments" /\ Say(posn)
           /\ UNCHANGED <<unchangedHere, at, nskipped, topskipped, fails, result>>
  <2>1. /\ out' = out \o posn /\ doing' \in InFrame
        /\ UNCHANGED <<cmd, stack, at, topskipped, fails, result>>
    BY <1>3 DEF Say, InFrame, unchangedHere
  <2> QED
    BY <1>0, <1>1, <2>1, GoesOnCounts
<1> QED
  BY <1>2, <1>3 DEF Placed, posn

LEMMA ArgumentsCounts ==
    ASSUME StackInv, PrintInv, AccountInv, cmd.name = "jsstack", Arguments
    PROVE  AccountInv'
<1>1. f.slot = "JSFunction" /\ nskipped = 0 /\ doing \in InFrame
  BY DEF PrintInv, Arguments, InFrame
<1>2. ArgLines \in Seq(AboutCall) /\ ArgLines \in Seq(RightLines)
  BY <1>1, ArgLinesRight, AboutCallRight
<1>3. \A i \in 1..Len(ArgLines) : ArgLines[i].what \notin {"frame", "js", "elided"}
  <2>1. \A i \in 1..Len(ArgLines) : ArgLines[i] \in AboutCall
    BY <1>2, ElementOfSeq
  <2> QED
    BY <2>1 DEF AboutCall
<1>4. \E rv \in {"ok", "error"} : FrameEnds(rv, ArgLines, nskipped)
  BY DEF Arguments
<1> QED
  BY <1>1, <1>2, <1>3, <1>4, FrameEndsSame

LEMMA StackCounts ==
    ASSUME StackInv, PrintInv, AccountInv, SearchInv, FrameStep
    PROVE  AccountInv'
<1>0. cmd' = cmd
  BY StackKeeps
<1> SUFFICES ASSUME cmd.name = "jsstack" PROVE AccountInv'
  BY <1>0 DEF AccountInv
<1>1. CASE do_jsframe
  BY <1>1, DoJsframeCounts
<1>2. CASE Position
  BY <1>2, PositionCounts
<1>3. CASE Placed
  BY <1>3, PlacedCounts
<1>4. CASE Arguments
  BY <1>4, ArgumentsCounts
<1>5. CASE walk_jsframes_step
  <2>1. /\ UNCHANGED <<cmd, stack, out, topskipped, fails, result>>
        /\ doing = "walk" /\ doing' = "frame" /\ at' = at + 1
    BY <1>5 DEF walk_jsframes_step, unchangedHere
  <2>2. result = "none" /\ Counts(out, topskipped, fails, Handled)
    BY <2>1 DEF AccountInv
  <2>3. First \in {1, 2} /\ at \in Nat /\ at >= 1
    BY FirstTyped
  <2>4. First' = First /\ Handled = First..at /\ Handled' = First..(at' - 1) /\ at' - 1 = at
    BY <2>1, <2>3 DEF First, Handled
  <2>5. Counts(out, topskipped, fails, Handled)'
    BY <2>1, <2>2, <2>4, CountsNext
  <2>6. at' >= First' /\ at' # 1
    BY <2>1, <2>3, <2>4
  <2> QED
    BY <2>1, <2>2, <2>5, <2>6 DEF AccountInv, InFrame
<1>6. CASE walk_done
  <2>1. /\ UNCHANGED <<cmd, stack, at, fails>>
        /\ doing = "walk" /\ doing' = "idle" /\ at = Len(stack)
        /\ \/ result' = "error"
           \/ result' = "ok" /\ out' = out \o Elided(topskipped) /\ topskipped' = 0
    BY <1>6 DEF walk_done, unchangedHere, Say
  <2>2. CASE result' = "error"
    BY <2>1, <2>2 DEF AccountInv
  <2>3. CASE result' = "ok" /\ out' = out \o Elided(topskipped) /\ topskipped' = 0
    <3>1. result = "none" /\ Counts(out, topskipped, fails, Handled)
      BY <2>1 DEF AccountInv
    <3>2. Handled = First..at /\ Handled' = First..at
      BY <2>1 DEF First, Handled
    <3>3. /\ out \in Seq(PrintedLine) /\ topskipped \in Nat /\ out \in Seq(RightLines)
          /\ o.prop # NULL => topskipped = 0
      BY RightArePrinted DEF PrintInv
    <3>4. ElidedIn(out) \in Nat
      BY <3>3, ElidedMore
    <3>5. /\ ShownFrames(out') = ShownFrames(out) /\ (InOrder(out) => InOrder(out'))
          /\ ElidedIn(out') + topskipped' = ElidedIn(out) + topskipped
      <4>1. CASE topskipped = 0
        <5>1. out' = out
          BY <2>3, <3>3, <4>1, ElidedRight, NothingJoined
        <5> QED
          BY <2>3, <4>1, <5>1
      <4>2. CASE topskipped # 0
        <5> DEFINE l == [what |-> "elided", frame |-> 0, value |-> topskipped]
        <5>1. Elided(topskipped) = <<l>> /\ <<l>> \in Seq(PrintedLine)
          BY <3>3, <4>2, ElidedRight, RightArePrinted
        <5>2. Len(<<l>>) = 1 /\ <<l>>[1] = l /\ l.what = "elided" /\ l.value = topskipped
          OBVIOUS
        <5>3. \A i \in 1..Len(<<l>>) : <<l>>[i].what \notin {"frame", "js"}
          BY <5>2
        <5>4. ElidedIn(out') = ElidedIn(out) + topskipped
          BY <2>3, <3>3, <5>1, <5>2, ElidedMore DEF ElidedBy
        <5>5. /\ ShownFrames(out') = ShownFrames(out)
              /\ InOrder(out) => InOrder(out')
          BY <2>3, <3>3, <5>1, <5>3, ShownMore
        <5>6. ElidedIn(out') + topskipped' = ElidedIn(out) + topskipped
          <6>1. (ElidedIn(out) + topskipped) + 0 = ElidedIn(out) + topskipped
            BY <3>3, <3>4, OneMore
          <6> QED
            BY <2>3, <5>4, <6>1
        <5> QED
          BY <5>5, <5>6
      <4> QED
        BY <4>1, <4>2
    <3>6. Counts(out', topskipped', fails', Handled')
      BY <2>1, <3>1, <3>2, <3>5 DEF Counts
    <3>7. Counts(out, topskipped, fails, Handled)'
      BY <2>1, <3>6, CountsNext
    <3> QED
      BY <2>1, <2>3, <3>7 DEF AccountInv, InFrame
  <2> QED
    BY <2>1, <2>2, <2>3
<1>7. CASE load_current_context
  <2>1. /\ UNCHANGED <<cmd, stack, out, topskipped, fails, at>>
        /\ doing = "registers"
        /\ \/ doing' = "frame" /\ result' = result
           \/ doing' = "idle" /\ result' = "error"
    BY <1>7 DEF load_current_context, unchangedHere
  <2>2. CASE doing' = "idle" /\ result' = "error"
    BY <2>1, <2>2 DEF AccountInv
  <2>3. CASE doing' = "frame" /\ result' = result
    <3>1. /\ result = "none" /\ Counts(out, topskipped, fails, Handled)
          /\ at >= First /\ (at = 1 => topskipped = 0)
      BY <2>1 DEF AccountInv
    <3>2. Handled' = Handled /\ First' = First
      BY <2>1, <2>3 DEF Handled, First
    <3>3. Counts(out, topskipped, fails, Handled)'
      BY <2>1, <3>1, <3>2, CountsNext
    <3> QED
      BY <2>1, <2>3, <3>1, <3>2, <3>3 DEF AccountInv, InFrame
  <2> QED
    BY <2>1, <2>2, <2>3
<1> QED
  BY <1>1, <1>2, <1>3, <1>4, <1>5, <1>6, <1>7 DEF FrameStep

LEMMA NothingShown ==
    ShownFrames(<<>>) = {} /\ InOrder(<<>>) /\ ElidedIn(<<>>) = 0
<1>1. DOMAIN <<>> = {}
  OBVIOUS
<1>2. Shown(<<>>) = {}
  BY <1>1 DEF Shown
<1> QED
  BY <1>2, ElidedInNothing DEF ShownFrames, InOrder

LEMMA StackBeginsCounts ==
    ASSUME LeavesInv, FrameCommands
    PROVE  AccountInv'
<1>1. /\ StackInv' /\ result' = "none" /\ out' = <<>>
      /\ at' = 1 /\ fails' = {} /\ topskipped' = 0
      /\ doing' = IF cmd'.addr THEN "walk" ELSE "registers"
  BY StackBegins
<1>2. Handled' = {}
  <2>1. CASE cmd'.addr
    <3>1. First' = 2 /\ Handled' = First'..at'
      BY <1>1, <2>1 DEF First, Handled
    <3> QED
      BY <1>1, <3>1
  <2>2. CASE ~cmd'.addr
    <3>1. First' = 1 /\ Handled' = First'..(at' - 1)
      BY <1>1, <2>2 DEF First, Handled
    <3> QED
      BY <1>1, <3>1
  <2> QED
    BY <2>1, <2>2
<1>3. doing' \in {"registers", "frame"} => at' >= First'
  <2>1. doing' = "registers" => First' = 1
    BY <1>1 DEF First
  <2>2. doing' # "frame"
    BY <1>1
  <2> QED
    BY <1>1, <2>1, <2>2
<1>4. Cardinality({}) = 0
  BY FS_EmptySet
<1>5. Counts(out, topskipped, fails, Handled)'
  <2>1. ShownFrames(out') \cup fails' = {} /\ InOrder(out') /\ ShownFrames(out') = {}
    BY <1>1, NothingShown
  <2>2. Cardinality(ShownFrames(out') \cup fails') + (ElidedIn(out') + topskipped')
           = Cardinality(Handled')
    <3>1. 0 + (0 + 0) = 0
      OBVIOUS
    <3>2. ElidedIn(out') = 0 /\ topskipped' = 0
      BY <1>1, NothingShown
    <3> QED
      BY <1>2, <1>4, <2>1, <3>1, <3>2, Zenon
  <2> QED
    BY <1>2, <2>1, <2>2 DEF Counts
<1> QED
  BY <1>1, <1>3, <1>5 DEF AccountInv, InFrame

AccountedInv == StackInv => AccountInv

LEMMA AccountedInductive ==
    LeavesInv /\ SearchInv /\ PrintedInv /\ AccountedInv /\ [Next]_vars => AccountedInv'
<1> SUFFICES ASSUME LeavesInv, SearchInv, PrintedInv, AccountedInv, [Next]_vars, StackInv'
             PROVE  AccountInv'
  BY DEF AccountedInv
<1>1. CASE FunctionStep
  <2>1. FunctionInv'
    BY <1>1, StepOfFunction, FunctionKeeps
  <2> QED
    BY <2>1, NotBothNext
<1>2. CASE FrameStep
  BY <1>2, StepOfStack, StackCounts DEF PrintedInv, AccountedInv
<1>3. CASE FunctionCommands /\ UNCHANGED framevars
  <2>1. FunctionInv'
    BY <1>3, FunctionBegins
  <2> QED
    BY <2>1, NotBothNext
<1>4. CASE FrameCommands
  BY <1>4, StackBeginsCounts
<1>5. CASE (Search /\ UNCHANGED framevars) \/ UNCHANGED vars
  <2>1. UNCHANGED <<session, out, held, indent, framevars>>
    BY <1>5 DEF Search, vars, sessionvars
  <2>2. /\ UNCHANGED <<cmd, doing, result, misfreed, v8_warnings, atstart, out, held, indent>>
        /\ UNCHANGED <<stack, at, fails, nskipped, topskipped>>
    BY <2>1 DEF session, framevars
  <2>3. StackInv
    BY <2>2 DEF StackInv, InStack, StackLeaves, StackTyped, Indented, o
  <2>4. Handled' = Handled /\ First' = First /\ o' = o
    BY <2>2 DEF Handled, First, o
  <2>5. Counts(out, topskipped, fails, Handled) => Counts(out, topskipped, fails, Handled)'
    BY <2>2, <2>4, CountsNext
  <2> QED
    BY <2>2, <2>3, <2>4, <2>5 DEF AccountedInv, AccountInv
<1> QED
  BY <1>1, <1>2, <1>3, <1>4, <1>5 DEF Next, Step

LEMMA AccountedInvariant == Spec => []AccountedInv
<1>1. Init => AccountedInv
  <2> SUFFICES ASSUME Init PROVE ~StackInv
    BY DEF AccountedInv
  <2>1. stack = <<>>
    BY DEF Init, FramesInit
  <2>2. DOMAIN stack = {}
    BY <2>1
  <2> QED
    BY <2>2 DEF StackInv, StackTyped
<1> QED
  BY <1>1, LeavesInvariant, SearchesInvariant, PrintsInvariant, AccountedInductive, PTL DEF Spec

LEMMA CountOfFrames ==
    ASSUME NEW first \in {1, 2}, NEW len \in Nat, len >= 1
    PROVE  Cardinality(first..len) = len - first + 1
<1>1. Cardinality(first..len) = IF first > len THEN 0 ELSE len - first + 1
  BY FS_Interval
<1> QED
  BY <1>1

(* ::jsstack loses no frame and handles none twice: each frame up to the   *)
(* end of the walk is shown, in the order of the stack, or is counted by   *)
(* one of the lines that say how many were elided, or has failed; with -f  *)
(* those that are shown are the readable frames of the function, on stacks *)
(* of any length (do_jsframe, dcmd_jsstack, walk_jsframes_step).           *)
THEOREM FramesAreAccounted == Spec => []FramesAccounted
<1>1. LeavesInv /\ PrintedInv /\ AccountedInv => FramesAccounted
  <2> SUFFICES ASSUME LeavesInv, PrintedInv, AccountedInv, Over("jsstack"), result = "ok"
               PROVE  /\ InOrder(out)
                      /\ ShownFrames(out) \cup fails \subseteq First..Len(stack)
                      /\ o.func = NULL /\ o.prop = NULL =>
                            Cardinality(ShownFrames(out) \cup fails) + ElidedIn(out)
                               = Len(stack) - First + 1
                      /\ o.func # NULL /\ o.prop = NULL =>
                            ShownFrames(out) = {i \in First..Len(stack) : IsAskedFor(stack[i])}
    BY DEF FramesAccounted, First
  <2>1. StackInv
    BY FunctionsNotStacks DEF LeavesInv, Over
  <2>2. at = Len(stack) /\ topskipped = 0 /\ doing = "idle" /\ Counts(out, topskipped, fails, Handled)
    BY <2>1 DEF AccountedInv, AccountInv, Over
  <2>3. Handled = First..Len(stack)
    BY <2>2 DEF Handled
  <2>4. Cardinality(Handled) = Len(stack) - First + 1
    <3>1. First \in {1, 2} /\ Len(stack) \in Nat /\ Len(stack) >= 1
      BY <2>1, <2>2, FirstTyped
    <3> QED
      BY <2>3, <3>1, CountOfFrames
  <2>5. ASSUME o.func = NULL, o.prop = NULL
        PROVE  Cardinality(ShownFrames(out) \cup fails) + ElidedIn(out) = Len(stack) - First + 1
    <3>1. ElidedIn(out) \in Nat
      BY <2>1, RightArePrinted, ElidedMore DEF PrintedInv, PrintInv
    <3>2. ElidedIn(out) + topskipped = ElidedIn(out)
      BY <2>2, <3>1
    <3>3. Cardinality(ShownFrames(out) \cup fails) + (ElidedIn(out) + topskipped)
             = Cardinality(Handled)
      BY <2>2, <2>5 DEF Counts
    <3> QED
      BY <2>4, <3>2, <3>3
  <2> QED
    BY <2>2, <2>3, <2>5 DEF Counts
<1> QED
  BY <1>1, LeavesInvariant, PrintsInvariant, AccountedInvariant, PTL
-----------------------------------------------------------------------------
(***************************************************************************)
(* What is told of the frames.                                             *)
(***************************************************************************)
(* The frames that the command is done with.                               *)
Finished == First..(IF doing \in {"walk", "idle"} THEN at ELSE at - 1)

(* What has been said of the frame that it is at.                          *)
SaidHere ==
    {part \in {"file", "posn"} :
        o.prop = NULL /\ (doing = "arguments" \/ (doing = "searching" /\ part = "file"))}

About(frame, parts) == {<<frame, part>> : part \in parts}

ToldSoFar ==
    /\ Once(out)
    /\ Told(out) = ToSay(Finished) \cup About(at, SaidHere)
    /\ fails = {i \in Finished : Lacking(stack[i])}

TellInv ==
    /\ doing = "registers" => First = 1
    /\ doing \in {"frame"} \cup InFrame => at >= First
    /\ doing \in InFrame => Examined(f) /\ (o.verbose \/ o.prop # NULL)
    /\ doing \in {"searching", "arguments"} =>
          f.lost \cap {"position", "script", "line ends"} = {} /\ o.prop # "file"
    /\ doing = "arguments" => o.prop # "posn"
    /\ cmd.name = "jsframe" =>
          /\ doing # "idle" => at = IF doing = "walk" THEN 1 ELSE 2
          /\ doing = "idle" /\ at > 1 => (result = "ok" <=> fails = {})
    /\ cmd.name = "jsstack" /\ 1 \in fails => doing = "idle" /\ result = "error"
    /\ doing # "idle" \/ result = "ok" \/ fails # {} \/ at > 1 => ToldSoFar

LEMMA PartsKnown ==
    /\ Parts \cap {"frame", "js", "elided"} = {} /\ {"file", "posn", "this"} \subseteq Parts
    /\ \A k \in DOMAIN Args : Args[k] \in Parts
    /\ Whats = Parts \cup {"frame", "js", "elided"} /\ NULL \notin Parts
<1>1. Range(Args) = {Args[k] : k \in DOMAIN Args}
  BY DEF Range
<1> QED
  BY <1>1, FramesAssumption DEF Parts, Whats

LEMMA ToldHas ==
    ASSUME NEW s \in Seq(PrintedLine), NEW x
    PROVE  x \in Told(s) <=>
              \E i \in 1..Len(s) : s[i].what \in Parts /\ x = <<s[i].frame, s[i].what>>
<1>1. DOMAIN s = 1..Len(s)
  BY LenProperties
<1> QED
  BY <1>1 DEF Told

LEMMA ToldMore ==
    ASSUME NEW s \in Seq(PrintedLine), NEW t \in Seq(PrintedLine)
    PROVE  /\ s \o t \in Seq(PrintedLine) /\ Told(s \o t) = Told(s) \cup Told(t)
           /\ Once(s) /\ Once(t) /\ Told(s) \cap Told(t) = {} => Once(s \o t)
<1> DEFINE r == s \o t
<1>1. /\ DOMAIN r = 1..Len(r) /\ DOMAIN s = 1..Len(s) /\ DOMAIN t = 1..Len(t)
      /\ Len(r) = Len(s) + Len(t) /\ Len(s) \in Nat /\ Len(t) \in Nat
      /\ r \in Seq(PrintedLine)
      /\ \A i \in 1..Len(s) : r[i] = s[i]
      /\ \A i \in 1..Len(t) : r[Len(s) + i] = t[i]
  BY ConcatProperties, LenProperties
<1> HIDE DEF r
<1>2. \A i \in 1..Len(r) : i \in 1..Len(s) \/ (i - Len(s) \in 1..Len(t) /\ Len(s) + (i - Len(s)) = i)
  BY <1>1
<1>3. \A i \in 1..Len(r) : \/ i \in 1..Len(s) /\ r[i] = s[i]
                           \/ i - Len(s) \in 1..Len(t) /\ r[i] = t[i - Len(s)]
  BY <1>1, <1>2
<1>4. /\ \A i \in 1..Len(s) : i \in 1..Len(r)
      /\ \A i \in 1..Len(t) : Len(s) + i \in 1..Len(r)
  BY <1>1
<1>5. Told(r) = Told(s) \cup Told(t)
  <2>1. ASSUME NEW x \in Told(r) PROVE x \in Told(s) \cup Told(t)
    <3>1. PICK i \in 1..Len(r) : r[i].what \in Parts /\ x = <<r[i].frame, r[i].what>>
      BY <1>1, ToldHas
    <3>2. CASE i \in 1..Len(s) /\ r[i] = s[i]
      BY <3>1, <3>2, ToldHas
    <3>3. CASE i - Len(s) \in 1..Len(t) /\ r[i] = t[i - Len(s)]
      BY <3>1, <3>3, ToldHas
    <3> QED
      BY <1>3, <3>2, <3>3
  <2>2. ASSUME NEW x \in Told(s) PROVE x \in Told(r)
    <3>1. PICK i \in 1..Len(s) : s[i].what \in Parts /\ x = <<s[i].frame, s[i].what>>
      BY ToldHas
    <3> QED
      BY <1>1, <1>4, <3>1, ToldHas
  <2>3. ASSUME NEW x \in Told(t) PROVE x \in Told(r)
    <3>1. PICK i \in 1..Len(t) : t[i].what \in Parts /\ x = <<t[i].frame, t[i].what>>
      BY ToldHas
    <3> QED
      BY <1>1, <1>4, <3>1, ToldHas
  <2> QED
    BY <2>1, <2>2, <2>3
<1>6. ASSUME Once(s), Once(t), Told(s) \cap Told(t) = {} PROVE Once(r)
  <2> SUFFICES ASSUME NEW i \in 1..Len(r), NEW j \in 1..Len(r), r[i].what \in Parts, i # j,
                      <<r[i].frame, r[i].what>> = <<r[j].frame, r[j].what>>
               PROVE  FALSE
    BY <1>1 DEF Once
  <2>0. r[j].what \in Parts
    OBVIOUS
  <2>1. \A k \in 1..Len(s) : s[k].what \in Parts => <<s[k].frame, s[k].what>> \in Told(s)
    BY ToldHas
  <2>2. \A k \in 1..Len(t) : t[k].what \in Parts => <<t[k].frame, t[k].what>> \in Told(t)
    BY ToldHas
  <2>5. \A k, m \in 1..Len(s) :
           s[k].what \in Parts /\ k # m => <<s[k].frame, s[k].what>> # <<s[m].frame, s[m].what>>
    BY <1>1, <1>6, Zenon DEF Once
  <2>6. \A k, m \in 1..Len(t) :
           t[k].what \in Parts /\ k # m => <<t[k].frame, t[k].what>> # <<t[m].frame, t[m].what>>
    BY <1>1, <1>6, Zenon DEF Once
  <2>3. CASE i \in 1..Len(s) /\ r[i] = s[i]
    <3>1. CASE j \in 1..Len(s) /\ r[j] = s[j]
      BY <2>3, <2>5, <3>1
    <3>2. CASE j - Len(s) \in 1..Len(t) /\ r[j] = t[j - Len(s)]
      BY <1>6, <2>0, <2>1, <2>2, <2>3, <3>2
    <3> QED
      BY <1>3, <3>1, <3>2
  <2>4. CASE i - Len(s) \in 1..Len(t) /\ r[i] = t[i - Len(s)]
    <3>1. CASE j \in 1..Len(s) /\ r[j] = s[j]
      BY <1>6, <2>0, <2>1, <2>2, <2>4, <3>1
    <3>2. CASE j - Len(s) \in 1..Len(t) /\ r[j] = t[j - Len(s)]
      <4>1. \A n \in Nat, a, b \in Int : a # b => a - n # b - n
        OBVIOUS
      <4>2. i - Len(s) # j - Len(s)
        BY <1>1, <4>1
      <4> QED
        BY <2>4, <2>6, <3>2, <4>2
    <3> QED
      BY <1>3, <3>1, <3>2
  <2> QED
    BY <1>3, <2>3, <2>4
<1> QED
  BY <1>1, <1>5, <1>6 DEF r

LEMMA ToldNothing ==
    /\ <<>> \in Seq(PrintedLine) /\ Told(<<>>) = {} /\ Once(<<>>)
    /\ \A l \in PrintedLine :
          /\ <<l>> \in Seq(PrintedLine) /\ Once(<<l>>)
          /\ l.what \in Parts => Told(<<l>>) = {<<l.frame, l.what>>}
          /\ l.what \notin Parts => Told(<<l>>) = {}
<1>1. <<>> \in Seq(PrintedLine) /\ DOMAIN <<>> = {}
  BY NoLines
<1>2. Told(<<>>) = {} /\ Once(<<>>)
  BY <1>1 DEF Told, Once
<1>3. ASSUME NEW l \in PrintedLine
      PROVE  /\ <<l>> \in Seq(PrintedLine) /\ Once(<<l>>)
             /\ l.what \in Parts => Told(<<l>>) = {<<l.frame, l.what>>}
             /\ l.what \notin Parts => Told(<<l>>) = {}
  <2>1. <<l>> \in Seq(PrintedLine) /\ Len(<<l>>) = 1 /\ <<l>>[1] = l
    BY OneLine
  <2>2. DOMAIN <<l>> = {1}
    OBVIOUS
  <2>3. Once(<<l>>)
    BY <2>2 DEF Once
  <2>4. Told(<<l>>) = {<<l.frame, l.what>> : i \in {j \in {1} : l.what \in Parts}}
    BY <2>1, <2>2 DEF Told
  <2> QED
    BY <2>1, <2>3, <2>4
<1> QED
  BY <1>1, <1>2, <1>3

(* The end of a frame: what has been printed of it is what there is to say *)
(* of it.                                                                  *)
LEMMA ElidedTold ==
    ASSUME NEW n \in Nat, o.prop # NULL => n = 0
    PROVE  Elided(n) \in Seq(PrintedLine) /\ Told(Elided(n)) = {} /\ Once(Elided(n))
<1>1. CASE n = 0
  BY <1>1, ElidedRight, ToldNothing
<1>2. CASE n # 0
  <2> DEFINE l == [what |-> "elided", frame |-> 0, value |-> n]
  <2>1. Elided(n) = <<l>>
    BY <1>2, ElidedRight
  <2>2. l \in PrintedLine /\ l.what \notin Parts
    BY PartsKnown DEF PrintedLine, Whats
  <2> QED
    BY <2>1, <2>2, ToldNothing
<1> QED
  BY <1>1, <1>2

LEMMA TellNext ==
    ASSUME UNCHANGED <<cmd, stack>>
    PROVE  /\ o' = o /\ First' = First
           /\ \A frame : /\ Examined(frame)' <=> Examined(frame)
                         /\ Lacking(frame)' <=> Lacking(frame)
           /\ \A part : Wanted(part)' <=> Wanted(part)
<1>1. o' = o /\ First' = First
  BY DEF o, First
<1>2. \A frame : Examined(frame)' <=> Examined(frame)
  BY <1>1 DEF Examined, TakenForJS
<1>3. \A frame : Lacking(frame)' <=> Lacking(frame)
  BY <1>1, <1>2 DEF Lacking, TakenForJS
<1> QED
  BY <1>1, <1>2, <1>3 DEF Wanted

LEMMA ToldNext ==
    ASSUME UNCHANGED <<cmd, stack>>, Once(out'),
           Told(out') = ToSay(Finished') \cup About(at', SaidHere'),
           fails' = {i \in Finished' : Lacking(stack[i])}
    PROVE  ToldSoFar'
<1>1. ToSay(Finished)' = ToSay(Finished')
  BY TellNext DEF ToSay
<1>2. {i \in Finished : Lacking(stack[i])}' = {i \in Finished' : Lacking(stack[i])}
  BY TellNext
<1> QED
  BY <1>1, <1>2 DEF ToldSoFar

\* what is to be said of the frames with one more among them
LEMMA OneMoreToSay ==
    ASSUME NEW H, NEW x
    PROVE  /\ ToSay(H \cup {x}) =
                ToSay(H) \cup About(x, {p \in Parts : Wanted(p) /\ Examined(stack[x]) /\ Has(stack[x], p)})
           /\ x \notin H => \A S : ToSay(H) \cap About(x, S) = {}
<1> DEFINE P(i, p) == Wanted(p) /\ Examined(stack[i]) /\ Has(stack[i], p)
<1>1. \A G, y : y \in ToSay(G) <=> \E i \in G, p \in Parts : y = <<i, p>> /\ P(i, p)
  BY DEF ToSay
<1> HIDE DEF P
<1>2. \A S, y : y \in About(x, S) <=> \E p \in S : y = <<x, p>>
  BY DEF About
<1>3. ToSay(H \cup {x}) = ToSay(H) \cup About(x, {p \in Parts : P(x, p)})
  <2>1. \A y \in ToSay(H \cup {x}) : y \in ToSay(H) \cup About(x, {p \in Parts : P(x, p)})
    BY <1>1, <1>2
  <2>2. \A y \in ToSay(H) \cup About(x, {p \in Parts : P(x, p)}) : y \in ToSay(H \cup {x})
    BY <1>1, <1>2
  <2> QED
    BY <2>1, <2>2
<1>4. ASSUME x \notin H, NEW S, NEW y \in ToSay(H), y \in About(x, S) PROVE FALSE
  BY <1>1, <1>2, <1>4
<1> QED
  BY <1>3, <1>4 DEF P

LEMMA FinishedMore ==
    ASSUME StackInv, TellInv, doing \in {"frame"} \cup InFrame
    PROVE  First..at = Finished \cup {at} /\ at \notin Finished
<1>1. First \in Nat /\ at \in Nat /\ at >= First
  <2>1. at >= First
    BY DEF TellInv
  <2> QED
    BY <2>1, FirstTyped
<1>2. Finished = First..(at - 1)
  BY DEF Finished, InFrame
<1> QED
  BY <1>1, <1>2

LEMMA FrameEndsTells ==
    ASSUME StackInv, PrintInv, TellInv, doing \in {"frame"} \cup InFrame,
           NEW lines \in Seq(RightLines), NEW skipped \in Nat, o.prop # NULL => skipped = 0,
           NEW rv \in {"ok", "error"}, FrameEnds(rv, lines, skipped),
           NEW S, Once(lines), Told(lines) = About(at, S), S \cap SaidHere = {},
           S \cup SaidHere = {p \in Parts : Wanted(p) /\ Examined(f) /\ Has(f, p)},
           rv = "error" <=> Lacking(f)
    PROVE  TellInv'
<1>1. /\ doing' \in {"idle", "walk"}
      /\ UNCHANGED <<cmd, stack, at>>
      /\ fails' = IF rv = "error" THEN fails \cup {at} ELSE fails
  BY FrameEndsAt
<1>2. /\ Once(out) /\ Told(out) = ToSay(Finished) \cup About(at, SaidHere)
      /\ fails = {i \in Finished : Lacking(stack[i])}
  BY DEF TellInv, ToldSoFar, InFrame
<1>3. /\ out \in Seq(PrintedLine) /\ lines \in Seq(PrintedLine)
  BY RightArePrinted DEF PrintInv
<1>4. First..at = Finished \cup {at} /\ at \notin Finished /\ Finished' = First..at /\ SaidHere' = {}
  <2>1. Finished' = First..at
    BY <1>1, TellNext DEF Finished
  <2>2. SaidHere' = {}
    BY <1>1 DEF SaidHere
  <2> QED
    BY <2>1, <2>2, FinishedMore
<1> DEFINE all == out \o lines
           elided == IF rv = "ok" THEN Elided(skipped) ELSE <<>>
<1>5. all \in Seq(PrintedLine) /\ Told(all) = Told(out) \cup About(at, S) /\ Once(all)
  <2>1. Told(out) \cap About(at, S) = {}
    <3>1. ToSay(Finished) \cap About(at, S) = {}
      BY <1>4, OneMoreToSay
    <3>2. About(at, SaidHere) \cap About(at, S) = {}
      BY DEF About
    <3> QED
      BY <1>2, <3>1, <3>2
  <2> QED
    BY <1>2, <1>3, <2>1, ToldMore
<1>6. elided \in Seq(PrintedLine) /\ Told(elided) = {} /\ Once(elided)
  BY ElidedTold, ToldNothing
<1>7. out' = all \/ out' = all \o elided
  BY DEF FrameEnds
<1> HIDE DEF all, elided
<1>8. Told(out') = Told(out) \cup About(at, S) /\ Once(out')
  <2>1. Told(all \o elided) = Told(all) \cup Told(elided) /\ Once(all \o elided)
    BY <1>5, <1>6, ToldMore
  <2> QED
    BY <1>5, <1>6, <1>7, <2>1
<1>9. Told(out') = ToSay(Finished') \cup About(at', SaidHere')
  <2>1. ToSay(Finished \cup {at}) = ToSay(Finished) \cup About(at, S \cup SaidHere)
    BY OneMoreToSay DEF f
  <2>2. About(at, S \cup SaidHere) = About(at, S) \cup About(at, SaidHere) /\ About(at', {}) = {}
    BY DEF About
  <2> QED
    BY <1>2, <1>4, <1>8, <2>1, <2>2
<1>10. fails' = {i \in Finished' : Lacking(stack[i])}
  BY <1>1, <1>2, <1>4 DEF f
<1>11. ToldSoFar'
  BY <1>1, <1>8, <1>9, <1>10, ToldNext
<1>12. ASSUME cmd.name = "jsframe"
       PROVE  /\ doing' = "idle" /\ result' = rv
              /\ result' = "ok" <=> fails' = {}
  <2>1. doing' = "idle" /\ result' = rv
    BY <1>12 DEF FrameEnds
  <2>2. fails = {}
    <3>1. at = 2 /\ First = 2 /\ Finished = First..(at - 1)
      BY <1>12, FunctionsNotStacks DEF TellInv, InFrame, First, StackCommand, Finished
    <3> QED
      BY <1>2, <3>1
  <2> QED
    BY <1>1, <2>1, <2>2
<1>13. ASSUME cmd.name = "jsstack", 1 \in fails' PROVE doing' = "idle" /\ result' = "error"
  <2>1. 1 \notin fails
    BY <1>13 DEF TellInv, InFrame
  <2>2. at = 1 /\ rv = "error"
    BY <1>1, <1>13, <2>1
  <2> QED
    BY <1>13, <2>2 DEF FrameEnds
<1> QED
  BY <1>1, <1>11, <1>12, <1>13 DEF TellInv, InFrame

LEMMA AboutParts ==
    ASSUME NEW x, NEW S, NEW T
    PROVE  /\ S \cap T = {} => About(x, S) \cap About(x, T) = {}
           /\ About(x, S \cup T) = About(x, S) \cup About(x, T)
<1>1. \A R, y : y \in About(x, R) <=> \E p \in R : y = <<x, p>>
  BY DEF About
<1>2. ASSUME S \cap T = {}, NEW y \in About(x, S), y \in About(x, T) PROVE FALSE
  BY <1>1, <1>2
<1>3. \A y : y \in About(x, S \cup T) <=> y \in About(x, S) \cup About(x, T)
  BY <1>1
<1> QED
  BY <1>2, <1>3

(* A step that goes on with the frame it is at.                            *)
LEMMA GoesOnTells ==
    ASSUME StackInv, PrintInv, TellInv, doing \in {"frame"} \cup InFrame, doing' \in InFrame,
           NEW lines \in Seq(RightLines), out' = out \o lines,
           UNCHANGED <<cmd, stack, at, fails, result>>,
           NEW S, Once(lines), Told(lines) = About(at, S), S \cap SaidHere = {},
           SaidHere' = SaidHere \cup S,
           Examined(f), o.verbose \/ o.prop # NULL,
           doing' \in {"searching", "arguments"} =>
              f.lost \cap {"position", "script", "line ends"} = {} /\ o.prop # "file",
           doing' = "arguments" => o.prop # "posn"
    PROVE  TellInv'
<1>1. /\ Once(out) /\ Told(out) = ToSay(Finished) \cup About(at, SaidHere)
      /\ fails = {i \in Finished : Lacking(stack[i])}
  BY DEF TellInv, ToldSoFar, InFrame
<1>2. /\ out \in Seq(PrintedLine) /\ lines \in Seq(PrintedLine)
  BY RightArePrinted DEF PrintInv
<1>3. Told(out) \cap About(at, S) = {}
  <2>1. ToSay(Finished) \cap About(at, S) = {}
    BY FinishedMore, OneMoreToSay
  <2>2. About(at, SaidHere) \cap About(at, S) = {}
    BY AboutParts
  <2> QED
    BY <1>1, <2>1, <2>2
<1>4. Told(out') = Told(out) \cup About(at, S) /\ Once(out')
  BY <1>1, <1>2, <1>3, ToldMore
<1>5. Finished' = Finished
  BY TellNext DEF Finished, InFrame
<1>6. About(at', SaidHere') = About(at, SaidHere) \cup About(at, S)
  BY AboutParts
<1>7. Told(out') = ToSay(Finished') \cup About(at', SaidHere')
  BY <1>1, <1>4, <1>5, <1>6
<1>8. fails' = {i \in Finished' : Lacking(stack[i])}
  BY <1>1, <1>5
<1>9. ToldSoFar'
  BY <1>4, <1>7, <1>8, ToldNext
<1>10. o' = o /\ First' = First /\ f' = f /\ Examined(f)'
  <2>1. f' = f
    BY DEF f
  <2> QED
    BY <2>1, TellNext DEF Examined, TakenForJS
<1>11. (cmd.name = "jsframe" => at = 2) /\ (cmd.name = "jsstack" => 1 \notin fails) /\ at >= First
  BY DEF TellInv, InFrame
<1> QED
  BY <1>9, <1>10, <1>11 DEF TellInv, InFrame

LEMMA TreatmentTells ==
    ASSUME StackInv
    PROVE  /\ Treatment = "function" => Examined(f)
           /\ Treatment = "error" => Lacking(f) /\ ~Examined(f)
           /\ Treatment \in {"nothing", "skipped", "shown"} => ~Lacking(f) /\ ~Examined(f)
<1>1. f.slot \in {"unreadable", "no type", "Code", "other", "JSFunction"}
  BY FrameTyped DEF Frame
<1>2. TakenForJS(f) <=> ~Special
  BY DEF TakenForJS, Special
<1>3. Hidden(TRUE) \in {"nothing", "skipped", "shown"} /\ Hidden(FALSE) \in {"nothing", "skipped", "shown"}
  BY DEF Hidden
<1>4. CASE Special
  <2>1. ~Lacking(f) /\ ~Examined(f)
    BY <1>2, <1>4 DEF Lacking, Examined
  <2>2. Treatment \in {"nothing", "skipped", "shown"}
    <3>1. CASE f.special = "native"
      <4>1. Treatment = IF o.prop # NULL THEN "nothing" ELSE "shown"
        BY <1>4, <3>1 DEF Treatment
      <4> QED
        BY <4>1
    <3>2. CASE f.special # "native"
      <4>1. Treatment = Hidden(f.special # "unnamed")
        BY <1>4, <3>2 DEF Treatment
      <4>2. (f.special # "unnamed") = TRUE \/ (f.special # "unnamed") = FALSE
        OBVIOUS
      <4> QED
        BY <1>3, <4>1, <4>2
    <3> QED
      BY <3>1, <3>2
  <2> QED
    BY <2>1, <2>2
<1>5. CASE ~Special /\ f.slot = "unreadable"
  <2>1. Treatment = "error"
    BY <1>5 DEF Treatment
  <2> QED
    BY <1>2, <1>5, <2>1 DEF Lacking, Examined
<1>6. CASE ~Special /\ f.slot \in {"no type", "Code", "other"}
  <2>1. Treatment = Hidden(TRUE)
    BY <1>6 DEF Treatment
  <2>2. ~Lacking(f) /\ ~Examined(f)
    BY <1>6 DEF Lacking, Examined
  <2> QED
    BY <1>3, <2>1, <2>2
<1>7. CASE ~Special /\ f.slot = "JSFunction"
  <2>1. Treatment = IF f.lost \cap {"shared", "name"} # {} THEN "error"
                    ELSE IF o.func # NULL /\ o.func # f.name THEN "nothing"
                    ELSE "function"
    BY <1>7 DEF Treatment
  <2>2. CASE f.lost \cap {"shared", "name"} # {}
    BY <1>2, <1>7, <2>1, <2>2 DEF Lacking, Examined
  <2>3. CASE f.lost \cap {"shared", "name"} = {} /\ o.func # NULL /\ o.func # f.name
    <3>1. ~Examined(f) /\ Treatment = "nothing"
      BY <2>1, <2>3 DEF Examined
    <3> QED
      BY <1>7, <2>3, <3>1 DEF Lacking
  <2>4. CASE f.lost \cap {"shared", "name"} = {} /\ ~(o.func # NULL /\ o.func # f.name)
    BY <1>2, <1>7, <2>1, <2>4 DEF Examined
  <2> QED
    BY <2>2, <2>3, <2>4
<1> QED
  BY <1>1, <1>4, <1>5, <1>6, <1>7

LEMMA ToldLine ==
    ASSUME StackInv, NEW what \in {"frame", "js", "file", "posn"},
           NEW value \in STRING \cup {NULL} \cup Nat \cup Places
    PROVE  /\ Once(Line(what, value))
           /\ what \in {"frame", "js"} => Told(Line(what, value)) = About(at, {})
           /\ what \in {"file", "posn"} => Told(Line(what, value)) = About(at, {what})
<1> DEFINE l == [what |-> what, frame |-> at, value |-> value]
<1>1. Line(what, value) = <<l>> /\ l.what = what /\ l.frame = at
  BY DEF Line
<1>2. at \in Nat /\ what \in Whats
  BY FrameTyped DEF Whats
<1>3. l \in PrintedLine
  BY <1>2, LineRecord
<1> HIDE DEF l
<1> QED
  BY <1>1, <1>3, ToldNothing, PartsKnown DEF About

\* the function is examined and nothing more was asked for
LEMMA NotLacking ==
    ASSUME Examined(f), o.prop = NULL \/ Has(f, o.prop),
           o.prop = NULL /\ o.verbose => Has(f, "posn")
    PROVE  ~Lacking(f)
BY DEF Lacking, Examined

LEMMA IsLacking ==
    ASSUME Examined(f), o.prop # NULL => ~Has(f, o.prop),
           o.prop = NULL => o.verbose /\ ~Has(f, "posn")
    PROVE  Lacking(f)
BY DEF Lacking

LEMMA DoJsframeTells ==
    ASSUME StackInv, PrintInv, TellInv, do_jsframe
    PROVE  TellInv'
<1> DEFINE ToSayHere == {p \in Parts : Wanted(p) /\ Examined(f) /\ Has(f, p)}
<1>0. /\ at \in Nat /\ nskipped = 0 /\ doing = "frame" /\ SaidHere = {}
      /\ {f.special, f.name} \subseteq STRING \cup {NULL}
      /\ About(at, {}) = {}
  BY FrameTyped, ValuesOfFrame DEF PrintInv, do_jsframe, SaidHere, About
<1>1. <<>> \in Seq(RightLines) /\ Told(<<>>) = About(at, {}) /\ Once(<<>>)
  BY <1>0, NoLines, ToldNothing
<1>2. ~Examined(f) => ToSayHere = {}
  OBVIOUS
<1>3. CASE Treatment = "nothing" /\ FrameEnds("ok", <<>>, nskipped)
  BY <1>0, <1>1, <1>2, <1>3, TreatmentTells, FrameEndsTells
<1>4. CASE Treatment = "error" /\ FrameEnds("error", <<>>, nskipped)
  BY <1>0, <1>1, <1>2, <1>4, TreatmentTells, FrameEndsTells
<1>5. CASE Treatment = "skipped" /\ FrameEnds("ok", <<>>, nskipped + 1)
  <2>1. o.prop = NULL /\ nskipped + 1 \in Nat
    BY <1>0, <1>5, Treated
  <2> QED
    BY <1>0, <1>1, <1>2, <1>5, <2>1, TreatmentTells, FrameEndsTells
<1>6. CASE /\ Treatment = "shown"
           /\ FrameEnds("ok", Elided(nskipped) \o Line("frame", f.special), 0)
  <2>1. o.prop = NULL
    BY <1>6, Treated
  <2>2. Line("frame", f.special) \in Seq(RightLines)
    BY <1>0, <2>1, RightLine
  <2> DEFINE lines == Line("frame", f.special)
  <2>3. FrameEnds("ok", lines, 0) /\ Once(lines) /\ Told(lines) = About(at, {})
    BY <1>0, <1>6, <2>2, NoneElided, ToldLine
  <2> HIDE DEF lines
  <2> QED
    BY <1>0, <1>2, <1>6, <2>2, <2>3, TreatmentTells, FrameEndsTells DEF lines
<1>7. CASE /\ Treatment = "function" /\ ~o.verbose /\ o.prop = NULL
           /\ FrameEnds("ok", Elided(nskipped) \o Line("js", f.name), 0)
  <2>1. Line("js", f.name) \in Seq(RightLines)
    BY <1>0, <1>7, RightLine
  <2> DEFINE lines == Line("js", f.name)
  <2>2. FrameEnds("ok", lines, 0) /\ Once(lines) /\ Told(lines) = About(at, {})
    BY <1>0, <1>7, <2>1, NoneElided, ToldLine
  <2>3. ToSayHere = {}
    BY <1>7, PartsKnown DEF Wanted
  <2>4. ~Lacking(f)
    BY <1>7, TreatmentTells, NotLacking
  <2> HIDE DEF lines
  <2> QED
    BY <1>0, <1>7, <2>1, <2>2, <2>3, <2>4, FrameEndsTells DEF lines
<1>8. CASE /\ Treatment = "function" /\ (o.verbose \/ o.prop # NULL)
           /\ doing' = "file"
           /\ Say(Elided(nskipped) \o IF o.prop = NULL THEN Line("js", f.name) ELSE <<>>)
           /\ nskipped' = 0
           /\ UNCHANGED <<unchangedHere, at, topskipped, fails, result>>
  <2> DEFINE lines == IF o.prop = NULL THEN Line("js", f.name) ELSE <<>>
  <2>1. lines \in Seq(RightLines) /\ Once(lines) /\ Told(lines) = About(at, {})
    <3>1. CASE o.prop = NULL
      <4>1. Line("js", f.name) \in Seq(RightLines)
        BY <1>0, <3>1, RightLine
      <4> QED
        BY <1>0, <3>1, <4>1, ToldLine
    <3>2. CASE o.prop # NULL
      BY <1>1, <3>2
    <3> QED
      BY <3>1, <3>2
  <2>2. out' = out \o lines
    <3>1. out' = out \o (Elided(nskipped) \o lines)
      BY <1>8 DEF Say
    <3> HIDE DEF lines
    <3> QED
      BY <2>1, <3>1, NoneElided
  <2> HIDE DEF lines
  <2>3. SaidHere' = {} /\ doing' \in InFrame
    BY <1>8 DEF SaidHere, InFrame
  <2>4. Examined(f) /\ UNCHANGED <<cmd, stack, at, fails, result>>
    BY <1>8, TreatmentTells DEF unchangedHere
  <2> QED
    BY <1>0, <1>8, <2>1, <2>2, <2>3, <2>4, GoesOnTells
<1> QED
  BY <1>3, <1>4, <1>5, <1>6, <1>7, <1>8 DEF do_jsframe

\* the position of the function in its file is known
Located(frame) == frame.lost \cap {"position", "script", "line ends"} = {}

\* what can be said, once the position has been found
LEMMA HasMore ==
    ASSUME Located(f)
    PROVE  /\ Has(f, "file") /\ Has(f, "posn")
           /\ Has(f, "this") <=>
                 "length" \notin f.lost /\ f.pushed[1] \notin {NULL, "unreadable"}
           /\ \A k \in DOMAIN Args :
                 Has(f, Args[k]) <=> /\ "length" \notin f.lost
                                     /\ k + 1 \in DOMAIN f.pushed /\ f.pushed[k + 1] # "unreadable"
<1>1. \A k \in DOMAIN Args : Args[k] \notin {"file", "posn", "this"}
  BY FramesAssumption
<1>2. \A k, j \in DOMAIN Args : Args[k] = Args[j] => k = j
  BY FramesAssumption
<1>3. Has(f, "file") /\ Has(f, "posn")
  BY <1>1, PartsKnown DEF Has, Located
<1>4. Has(f, "this") <=> "length" \notin f.lost /\ f.pushed[1] \notin {NULL, "unreadable"}
  BY <1>1, PartsKnown DEF Has, Located
<1>5. ASSUME NEW k \in DOMAIN Args
      PROVE  Has(f, Args[k]) <=> /\ "length" \notin f.lost
                                 /\ k + 1 \in DOMAIN f.pushed /\ f.pushed[k + 1] # "unreadable"
  <2>1. Args[k] \in Parts
    BY PartsKnown
  <2> QED
    BY <1>1, <1>2, <2>1 DEF Has, Located
<1> QED
  BY <1>3, <1>4, <1>5

LEMMA PositionTells ==
    ASSUME StackInv, PrintInv, TellInv, Position
    PROVE  TellInv'
<1> DEFINE ToSayHere == {p \in Parts : Wanted(p) /\ Examined(f) /\ Has(f, p)}
           known == f.lost \cap {"position", "script"} = {}
           file == IF o.prop = NULL THEN Line("file", f.name) ELSE <<>>
           S == IF o.prop = NULL THEN {"file"} ELSE {}
<1>0. /\ nskipped = 0 /\ doing = "file" /\ SaidHere = {} /\ doing \in InFrame
      /\ f.name \in STRING \cup {NULL}
      /\ Examined(f) /\ (o.verbose \/ o.prop # NULL)
  BY ValuesOfFrame DEF PrintInv, Position, SaidHere, TellInv, InFrame
<1>1. <<>> \in Seq(RightLines) /\ Told(<<>>) = About(at, {}) /\ Once(<<>>)
  BY NoLines, ToldNothing DEF About
<1>2. file \in Seq(RightLines) /\ Once(file) /\ Told(file) = About(at, S)
  <2>1. CASE o.prop = NULL
    BY <1>0, <2>1, FileLine, ToldLine
  <2>2. CASE o.prop # NULL
    BY <1>1, <2>2
  <2> QED
    BY <2>1, <2>2
<1>3. CASE ~known /\ FrameEnds("error", <<>>, nskipped)
  <2>1. \A p : ~Has(f, p)
    BY <1>3 DEF Has
  <2>2. ToSayHere = {} /\ Lacking(f)
    BY <1>0, <2>1, IsLacking
  <2> QED
    BY <1>0, <1>1, <1>3, <2>2, FrameEndsTells
<1>4. \A k \in DOMAIN Args : Args[k] # "file"
  BY FramesAssumption
<1>5. known => Has(f, "file")
  BY <1>4, PartsKnown DEF Has
<1>6. CASE known /\ o.prop = "file" /\ FrameEnds("ok", Line("file", f.name), nskipped)
  <2> DEFINE lines == Line("file", f.name)
  <2>1. lines \in Seq(RightLines) /\ Once(lines) /\ Told(lines) = About(at, {"file"})
    BY <1>0, <1>6, FileLine, ToldLine
  <2>2. ToSayHere = {"file"}
    BY <1>0, <1>5, <1>6, PartsKnown DEF Wanted
  <2>3. ~Lacking(f)
    BY <1>0, <1>5, <1>6, PartsKnown, NotLacking
  <2>4. FrameEnds("ok", lines, 0) /\ {"file"} \cap SaidHere = {} /\ {"file"} \cup SaidHere = ToSayHere
    BY <1>0, <1>6, <2>2
  <2> HIDE DEF lines
  <2> QED
    BY <1>0, <2>1, <2>3, <2>4, FrameEndsTells
<1>7. CASE /\ known /\ o.prop # "file" /\ "line ends" \in f.lost
           /\ FrameEnds("error", file, nskipped)
  <2>1. \A p : Has(f, p) => p = "file"
    BY <1>7 DEF Has
  <2>2. ToSayHere = S
    BY <1>0, <1>5, <1>7, <2>1, PartsKnown DEF Wanted
  <2>3. Lacking(f)
    BY <1>0, <1>7, <2>1, IsLacking
  <2>4. FrameEnds("error", file, 0) /\ S \cap SaidHere = {} /\ S \cup SaidHere = ToSayHere
    BY <1>0, <1>7, <2>2
  <2> HIDE DEF file, S
  <2> QED
    BY <1>0, <1>2, <2>3, <2>4, FrameEndsTells
<1>8. CASE /\ known /\ o.prop # "file" /\ "line ends" \notin f.lost
           /\ doing' = "searching" /\ Say(file)
           /\ UNCHANGED <<unchangedHere, at, nskipped, topskipped, fails, result>>
  <2>1. UNCHANGED <<cmd, stack, at, fails, result>> /\ out' = out \o file
    BY <1>8 DEF unchangedHere, Say
  <2>2. SaidHere' = SaidHere \cup S /\ S \cap SaidHere = {} /\ doing' \in InFrame
    BY <1>0, <1>8, <2>1, TellNext DEF SaidHere, InFrame
  <2>3. f.lost \cap {"position", "script", "line ends"} = {}
    BY <1>8
  <2> HIDE DEF file, S
  <2> QED
    BY <1>0, <1>2, <1>8, <2>1, <2>2, <2>3, GoesOnTells
<1> QED
  BY <1>3, <1>6, <1>7, <1>8 DEF Position

LEMMA PlacedTells ==
    ASSUME StackInv, PrintInv, SearchInv, TellInv, Placed
    PROVE  TellInv'
<1> DEFINE ToSayHere == {p \in Parts : Wanted(p) /\ Examined(f) /\ Has(f, p)}
           posn == IF o.prop = NULL THEN Line("posn", Found) ELSE <<>>
           S == IF o.prop = NULL THEN {"posn"} ELSE {}
<1>0. /\ nskipped = 0 /\ doing = "searching" /\ doing \in InFrame
      /\ Examined(f) /\ (o.verbose \/ o.prop # NULL) /\ o.prop # "file"
      /\ f.lost \cap {"position", "script", "line ends"} = {} /\ Located(f)
  BY DEF PrintInv, Placed, TellInv, InFrame, Located
<1>1. <<>> \in Seq(RightLines) /\ Told(<<>>) = About(at, {}) /\ Once(<<>>)
  BY NoLines, ToldNothing DEF About
<1>2. Found \in STRING \cup {NULL} \cup Nat \cup Places
  <2>1. search \in Results \cup {"idle"} /\ ii \in Int
    BY DEF Placed, EndSearch, SearchInv
  <2>2. (IF search = "line" THEN ii + 1 ELSE 0) \in Int
    BY <2>1
  <2> QED
    BY <2>1, <2>2 DEF Found, Places
<1>3. posn \in Seq(RightLines) /\ Once(posn) /\ Told(posn) = About(at, S)
  <2>1. CASE o.prop = NULL
    BY <1>2, <2>1, PosnLine, ToldLine DEF Placed
  <2>2. CASE o.prop # NULL
    BY <1>1, <2>2
  <2> QED
    BY <2>1, <2>2
<1>4. CASE o.prop = "posn" /\ FrameEnds("ok", Line("posn", Found), nskipped)
  <2> DEFINE lines == Line("posn", Found)
  <2>1. lines \in Seq(RightLines) /\ Once(lines) /\ Told(lines) = About(at, {"posn"})
    BY <1>2, <1>4, PosnLine, ToldLine DEF Placed
  <2>2. SaidHere = {}
    BY <1>4, PartsKnown DEF SaidHere
  <2>3. ToSayHere = {"posn"}
    BY <1>0, <1>4, HasMore, PartsKnown DEF Wanted
  <2>4. ~Lacking(f)
    BY <1>0, <1>4, HasMore, PartsKnown, NotLacking
  <2>5. FrameEnds("ok", lines, 0) /\ {"posn"} \cap SaidHere = {} /\ {"posn"} \cup SaidHere = ToSayHere
    BY <1>0, <1>4, <2>2, <2>3
  <2> HIDE DEF lines
  <2> QED
    BY <1>0, <2>1, <2>4, <2>5, FrameEndsTells
<1>5. CASE /\ o.prop # "posn" /\ doing' = "arguments" /\ Say(posn)
           /\ UNCHANGED <<unchangedHere, at, nskipped, topskipped, fails, result>>
  <2>1. UNCHANGED <<cmd, stack, at, fails, result>> /\ out' = out \o posn
    BY <1>5 DEF unchangedHere, Say
  <2>2. SaidHere' = SaidHere \cup S /\ S \cap SaidHere = {} /\ doing' \in InFrame
    BY <1>0, <1>5, <2>1, TellNext DEF SaidHere, InFrame
  <2> HIDE DEF posn, S
  <2> QED
    BY <1>0, <1>3, <1>5, <2>1, <2>2, GoesOnTells
<1> QED
  BY <1>4, <1>5 DEF Placed

LEMMA NargsTyped ==
    ASSUME StackInv, f.slot = "JSFunction"
    PROVE  /\ nargs \in Nat /\ Len(f.pushed) \in Nat /\ nargs = Len(f.pushed) - 1 /\ at \in Nat
           /\ DOMAIN f.pushed = 1..Len(f.pushed) /\ \A i \in 1..nargs : i \in DOMAIN Args
<1>1. f.pushed \in Seq(STRING \cup {NULL}) /\ Args \in Seq(STRING)
  BY FrameTyped, FramesAssumption DEF Frame
<1>2. Len(Args) \in Nat /\ DOMAIN Args = 1..Len(Args) /\ DOMAIN f.pushed = 1..Len(f.pushed)
  BY <1>1, LenProperties
<1>3. nargs \in 0..Len(Args) /\ Len(f.pushed) \in Nat /\ at \in Nat
  BY FrameTyped
<1>4. nargs \in Nat /\ \A i \in 1..nargs : i \in DOMAIN Args
  BY <1>2, <1>3
<1> QED
  BY <1>2, <1>3, <1>4 DEF nargs

LEMMA ThisLineTold ==
    ASSUME StackInv, f.slot = "JSFunction", "length" \notin f.lost,
           Located(f)
    PROVE  Once(ThisLine) /\ Told(ThisLine) = About(at, {p \in {"this"} : Asked(p) /\ Has(f, p)})
<1>1. nargs \in Nat /\ nargs = Len(f.pushed) - 1 /\ Len(f.pushed) \in Nat /\ at \in Nat
  BY NargsTyped
<1>2. Len(f.pushed) - nargs = 1 /\ nargs < Len(f.pushed) /\ 1 \in 1..Len(f.pushed)
  <2>1. \A n, m \in Nat : n = m - 1 => m - n = 1 /\ n < m /\ 1 \in 1..m
    OBVIOUS
  <2> QED
    BY <1>1, <2>1
<1>3. /\ SlotReads(nargs) <=> f.pushed[1] # "unreadable"
      /\ ArgSlot(nargs) = f.pushed[1] /\ f.pushed[1] \in STRING \cup {NULL}
  BY <1>2, FrameTyped DEF SlotReads, ArgSlot
<1>4. Has(f, "this") <=> SlotReads(nargs) /\ ArgSlot(nargs) # NULL
  BY <1>3, HasMore
<1>5. CASE Asked("this") /\ SlotReads(nargs) /\ ArgSlot(nargs) # NULL
  <2> DEFINE l == [what |-> "this", frame |-> at, value |-> ArgSlot(nargs)]
  <2>1. ThisLine = <<l>>
    BY <1>5 DEF ThisLine, Line
  <2>2. l \in PrintedLine /\ l.what \in Parts /\ l.what = "this" /\ l.frame = at
    BY <1>1, <1>3, LineRecord, PartsKnown
  <2> HIDE DEF l
  <2>3. Once(ThisLine) /\ Told(ThisLine) = {<<at, "this">>}
    BY <2>1, <2>2, ToldNothing
  <2>4. {p \in {"this"} : Asked(p) /\ Has(f, p)} = {"this"}
    BY <1>4, <1>5
  <2> QED
    BY <2>3, <2>4 DEF About
<1>6. CASE ~(Asked("this") /\ SlotReads(nargs) /\ ArgSlot(nargs) # NULL)
  <2>1. ThisLine = <<>>
    BY <1>6, Zenon DEF ThisLine
  <2>2. {p \in {"this"} : Asked(p) /\ Has(f, p)} = {}
    BY <1>4, <1>6
  <2> QED
    BY <2>1, <2>2, ToldNothing DEF About
<1> QED
  BY <1>5, <1>6

LEMMA ArgLineTold ==
    ASSUME StackInv, f.slot = "JSFunction", "length" \notin f.lost,
           Located(f), NEW i \in 1..nargs
    PROVE  /\ i \in DOMAIN Args
           /\ Once(ArgLine(i)) /\ Told(ArgLine(i)) = About(at, {p \in {Args[i]} : Asked(p) /\ Has(f, p)})
<1>1. /\ nargs \in Nat /\ nargs = Len(f.pushed) - 1 /\ Len(f.pushed) \in Nat /\ at \in Nat
      /\ DOMAIN f.pushed = 1..Len(f.pushed)
  BY NargsTyped
<1>2. Len(f.pushed) - (nargs - i) = i + 1 /\ i + 1 \in 1..Len(f.pushed)
  BY <1>1, SlotOfArgument
<1>3. nargs - i < Len(f.pushed)
  <2>1. \A n, m \in Nat, k \in Int : 1 <= k /\ n = m - 1 => n - k < m
    OBVIOUS
  <2>2. i \in Int /\ 1 <= i
    BY <1>1
  <2> QED
    BY <1>1, <2>1, <2>2
<1>4. i \in DOMAIN Args
  BY NargsTyped
<1>5. /\ SlotReads(nargs - i) <=> f.pushed[i + 1] # "unreadable"
      /\ ArgSlot(nargs - i) = f.pushed[i + 1] /\ f.pushed[i + 1] \in STRING \cup {NULL}
  BY <1>2, <1>3, FrameTyped DEF SlotReads, ArgSlot
<1>6. Has(f, Args[i]) <=> SlotReads(nargs - i)
  BY <1>1, <1>2, <1>4, <1>5, HasMore
<1>7. CASE Asked(Args[i]) /\ SlotReads(nargs - i)
  <2> DEFINE l == [what |-> Args[i], frame |-> at, value |-> ArgSlot(nargs - i)]
  <2>1. ArgLine(i) = <<l>>
    BY <1>7 DEF ArgLine, Line
  <2>2. l \in PrintedLine /\ l.what \in Parts /\ l.what = Args[i] /\ l.frame = at
    BY <1>1, <1>4, <1>5, LineRecord, ArgWhats, PartsKnown
  <2> HIDE DEF l
  <2>3. Once(ArgLine(i)) /\ Told(ArgLine(i)) = {<<at, Args[i]>>}
    BY <2>1, <2>2, ToldNothing
  <2>4. {p \in {Args[i]} : Asked(p) /\ Has(f, p)} = {Args[i]}
    BY <1>6, <1>7
  <2> QED
    BY <1>4, <2>3, <2>4 DEF About
<1>8. CASE ~(Asked(Args[i]) /\ SlotReads(nargs - i))
  <2>1. ArgLine(i) = <<>>
    BY <1>8, Zenon DEF ArgLine
  <2>2. {p \in {Args[i]} : Asked(p) /\ Has(f, p)} = {}
    BY <1>6, <1>8
  <2> QED
    BY <1>4, <2>1, <2>2, ToldNothing DEF About
<1> QED
  BY <1>7, <1>8

(* The receiver and the arguments: all that can be said of the call, once. *)
LEMMA ArgLinesTold ==
    ASSUME StackInv, f.slot = "JSFunction", Located(f)
    PROVE  /\ Once(ArgLines)
           /\ Told(ArgLines) = About(at, {p \in Parts \ {"file", "posn"} : Asked(p) /\ Has(f, p)})
<1> DEFINE Of(n) == {p \in {"this"} \cup {Args[k] : k \in 1..n} : Asked(p) /\ Has(f, p)}
           All == {p \in Parts \ {"file", "posn"} : Asked(p) /\ Has(f, p)}
<1>1. CASE "length" \in f.lost
  <2>1. ArgLines = <<>>
    BY <1>1, Zenon DEF ArgLines
  <2>2. All = {}
    BY <1>1 DEF Has
  <2> QED
    BY <2>1, <2>2, ToldNothing DEF About
<1>2. CASE "length" \notin f.lost
  <2>0. PICK u : AddsLines(u) /\ ArgLines = u[nargs]
    BY <1>2, ArgLinesUnfold
  <2>1. /\ \A n \in 0..nargs : u[n] \in Seq(AboutCall)
        /\ u[0] = ThisLine
        /\ \A n \in 1..nargs : u[n] = u[n - 1] \o ArgLine(n)
        /\ ArgLines = u[nargs]
    BY <2>0, Zenon DEF AddsLines
  <2>2. nargs \in Nat /\ \A n \in 1..nargs : n \in DOMAIN Args
    BY NargsTyped
  <2>3. \A n \in 0..nargs : u[n] \in Seq(PrintedLine)
    BY <2>1, AboutCallRight, RightArePrinted
  <2>4. \A n \in 1..nargs : ArgLine(n) \in Seq(PrintedLine)
    BY ArgLineRight, AboutCallRight, RightArePrinted
  <2> DEFINE T == {n \in 0..nargs : ~(Once(u[n]) /\ Told(u[n]) = About(at, Of(n)))}
  <2>5. T = {}
    <3> SUFFICES ASSUME T # {} PROVE FALSE
      OBVIOUS
    <3>1. T \subseteq Nat
      OBVIOUS
    <3>2. PICK n \in T : \A m \in T : n <= m
      BY <3>1, Least
    <3>3. n \in 0..nargs /\ ~(Once(u[n]) /\ Told(u[n]) = About(at, Of(n)))
      OBVIOUS
    <3>4. n # 0
      <4>1. Of(0) = {p \in {"this"} : Asked(p) /\ Has(f, p)}
        OBVIOUS
      <4> HIDE DEF Of
      <4>2. Once(u[0]) /\ Told(u[0]) = About(at, Of(0))
        BY <1>2, <2>1, <4>1, ThisLineTold
      <4> QED
        BY <3>3, <4>2
    <3>5. n \in 1..nargs /\ n - 1 \in 0..nargs /\ ~(n <= n - 1)
      BY <2>2, <3>3, <3>4
    <3> DEFINE one == {p \in {Args[n]} : Asked(p) /\ Has(f, p)}
    <3>6. Once(u[n - 1]) /\ Told(u[n - 1]) = About(at, Of(n - 1))
      BY <3>2, <3>5
    <3>7. Once(ArgLine(n)) /\ Told(ArgLine(n)) = About(at, one)
      BY <1>2, <3>5, ArgLineTold
    <3>8. Of(n) = Of(n - 1) \cup one
      <4>1. 1..n = 1..(n - 1) \cup {n}
        BY <2>2, <3>5
      <4> QED
        BY <4>1
    <3>9. Of(n - 1) \cap one = {}
      <4>1. \A k \in 1..(n - 1) : k \in DOMAIN Args /\ k # n
        BY <2>2, <3>5
      <4>2. n \in DOMAIN Args /\ Args[n] # "this"
        BY <2>2, <3>5, FramesAssumption
      <4> QED
        BY <4>1, <4>2, FramesAssumption
    <3> HIDE DEF Of, one
    <3>10. Once(u[n]) /\ Told(u[n]) = About(at, Of(n))
      <4>1. u[n] = u[n - 1] \o ArgLine(n) /\ u[n - 1] \in Seq(PrintedLine)
        BY <2>1, <2>3, <3>5
      <4>2. Told(u[n - 1]) \cap Told(ArgLine(n)) = {}
        <5>1. About(at, Of(n - 1)) \cap About(at, one) = {}
          BY <3>9, AboutParts
        <5> QED
          BY <3>6, <3>7, <5>1
      <4>3. Told(u[n]) = Told(u[n - 1]) \cup Told(ArgLine(n)) /\ Once(u[n])
        BY <2>4, <3>5, <3>6, <3>7, <4>1, <4>2, ToldMore
      <4> QED
        BY <3>6, <3>7, <3>8, <4>3, AboutParts
    <3> QED
      BY <3>3, <3>10
  <2>6. Of(nargs) = All
    <3>1. \A p \in Of(nargs) : p \in All
      BY <2>2, PartsKnown, FramesAssumption
    <3>2. ASSUME NEW p \in All PROVE p \in Of(nargs)
      <4>1. p = "this" \/ \E k \in DOMAIN Args : p = Args[k]
        BY DEF Parts, Range
      <4>2. ASSUME NEW k \in DOMAIN Args, p = Args[k] PROVE k \in 1..nargs
        <5>1. k + 1 \in DOMAIN f.pushed
          BY <4>2, HasMore
        <5>2. k \in Nat /\ 1 <= k
          <6>1. Args \in Seq(STRING)
            BY FramesAssumption
          <6>2. DOMAIN Args = 1..Len(Args) /\ Len(Args) \in Nat
            BY <6>1, LenProperties
          <6> QED
            BY <6>2
        <5>3. \A n, m \in Nat : n = m - 1 /\ k + 1 \in 1..m => k \in 1..n
          BY <5>2
        <5> QED
          BY <5>1, <5>3, NargsTyped
      <4> QED
        BY <4>1, <4>2
    <3> QED
      BY <3>1, <3>2
  <2>7. nargs \in 0..nargs
    BY <2>2
  <2> HIDE DEF Of, All
  <2> QED
    BY <2>1, <2>5, <2>6, <2>7 DEF All
<1> QED
  BY <1>1, <1>2

LEMMA ArgumentsTells ==
    ASSUME StackInv, PrintInv, TellInv, Arguments
    PROVE  TellInv'
<1> DEFINE ToSayHere == {p \in Parts : Wanted(p) /\ Examined(f) /\ Has(f, p)}
           S == {p \in Parts \ {"file", "posn"} : Asked(p) /\ Has(f, p)}
<1>0. /\ nskipped = 0 /\ doing = "arguments" /\ doing \in InFrame
      /\ Examined(f) /\ (o.verbose \/ o.prop # NULL) /\ o.prop \notin {"file", "posn"}
      /\ f.slot = "JSFunction" /\ Located(f)
  BY DEF PrintInv, Arguments, TellInv, InFrame, Located
<1>1. ArgLines \in Seq(RightLines) /\ Once(ArgLines) /\ Told(ArgLines) = About(at, S)
  BY <1>0, ArgLinesRight, AboutCallRight, ArgLinesTold
<1>2. SaidHere = IF o.prop = NULL THEN {"file", "posn"} ELSE {}
  BY <1>0 DEF SaidHere
<1>3. S \cap SaidHere = {} /\ S \cup SaidHere = ToSayHere
  <2>1. CASE o.prop = NULL
    <3>1. \A p \in Parts : Wanted(p) /\ Asked(p)
      BY <1>0, <2>1 DEF Wanted, Asked
    <3>2. Has(f, "file") /\ Has(f, "posn") /\ {"file", "posn"} \subseteq Parts
      BY <1>0, HasMore, PartsKnown
    <3> QED
      BY <1>0, <1>2, <2>1, <3>1, <3>2
  <2>2. CASE o.prop # NULL
    <3>1. \A p \in Parts : (Wanted(p) <=> p = o.prop) /\ (Asked(p) <=> p = o.prop)
      BY <2>2, PartsKnown DEF Wanted, Asked
    <3> QED
      BY <1>0, <1>2, <2>2, <3>1
  <2> QED
    BY <2>1, <2>2
<1>4. CASE o.prop = NULL /\ FrameEnds("ok", ArgLines, nskipped)
  <2>1. ~Lacking(f)
    BY <1>0, <1>4, HasMore, NotLacking
  <2> HIDE DEF S
  <2> QED
    BY <1>0, <1>1, <1>3, <1>4, <2>1, FrameEndsTells
<1>5. CASE o.prop # NULL /\ FrameEnds(IF ArgLines = <<>> THEN "error" ELSE "ok", ArgLines, nskipped)
  <2>1. ArgLines = <<>> <=> S = {}
    <3>1. ASSUME ArgLines = <<>> PROVE S = {}
      BY <1>1, <3>1, ToldNothing DEF About
    <3>2. ASSUME ArgLines # <<>> PROVE S # {}
      <4>1. ArgLines \in Seq(AboutCall) /\ ArgLines \in Seq(PrintedLine)
        BY <1>0, ArgLinesRight, AboutCallRight, RightArePrinted
      <4>2. 1 \in 1..Len(ArgLines) /\ ArgLines[1] \in AboutCall
        BY <3>2, <4>1, EmptySeq, LenProperties, ElementOfSeq
      <4>3. ArgLines[1].what \in Parts
        BY <4>2, PartsKnown DEF AboutCall, RightLines, PrintedLine
      <4>4. <<ArgLines[1].frame, ArgLines[1].what>> \in Told(ArgLines)
        BY <4>1, <4>2, <4>3, ToldHas
      <4> QED
        BY <1>1, <4>4 DEF About
    <3> QED
      BY <3>1, <3>2
  <2>2. S = {} <=> ~Has(f, o.prop)
    <3>1. Has(f, o.prop) => o.prop \in Parts
      BY DEF Has
    <3> QED
      BY <1>0, <1>5, <3>1 DEF Asked
  <2>3. S = {} <=> Lacking(f)
    BY <1>0, <1>5, <2>2, IsLacking, NotLacking
  <2> DEFINE rv == IF ArgLines = <<>> THEN "error" ELSE "ok"
  <2>4. rv \in {"ok", "error"} /\ (rv = "error" <=> Lacking(f)) /\ FrameEnds(rv, ArgLines, 0)
    BY <1>0, <1>5, <2>1, <2>3
  <2> HIDE DEF S, rv
  <2> QED
    BY <1>0, <1>1, <1>3, <2>4, FrameEndsTells
<1> QED
  BY <1>4, <1>5 DEF Arguments

LEMMA StackTells ==
    ASSUME StackInv, PrintInv, SearchInv, TellInv, FrameStep
    PROVE  TellInv'
<1>0. cmd \in StackCommand /\ First \in {1, 2} /\ at \in Nat /\ at >= 1
  BY FunctionsNotStacks, FirstTyped
<1>1. CASE do_jsframe
  BY <1>1, DoJsframeTells
<1>2. CASE Position
  BY <1>2, PositionTells
<1>3. CASE Placed
  BY <1>3, PlacedTells
<1>4. CASE Arguments
  BY <1>4, ArgumentsTells
<1>5. CASE walk_jsframes_step
  <2>1. /\ UNCHANGED <<cmd, stack, out, fails, result>>
        /\ doing = "walk" /\ doing' = "frame" /\ at' = at + 1
    BY <1>5 DEF walk_jsframes_step, unchangedHere
  <2>2. SaidHere = {} /\ SaidHere' = {}
    BY <2>1 DEF SaidHere
  <2>3. Finished = First..at /\ Finished' = First..(at' - 1) /\ at' - 1 = at /\ First' = First
    BY <1>0, <2>1, TellNext DEF Finished
  <2>4. About(at, {}) = {} /\ About(at', {}) = {}
    BY DEF About
  <2>5. ToldSoFar
    BY <2>1 DEF TellInv
  <2>6. ToldSoFar'
    BY <2>1, <2>2, <2>3, <2>4, <2>5, ToldNext DEF ToldSoFar
  <2>7. (cmd.name = "jsframe" => at' = 2) /\ (cmd.name = "jsstack" => 1 \notin fails) /\ at' >= First
    BY <1>0, <2>1 DEF TellInv
  <2> QED
    BY <2>1, <2>3, <2>6, <2>7 DEF TellInv, InFrame
<1>6. CASE walk_done
  <2>1. /\ UNCHANGED <<cmd, stack, at, fails>> /\ doing = "walk" /\ doing' = "idle"
        /\ out' = out \/ out' = out \o Elided(topskipped)
    BY <1>6 DEF walk_done, unchangedHere, Say
  <2>2. SaidHere = {} /\ SaidHere' = {} /\ Finished' = Finished
    BY <2>1, TellNext DEF SaidHere, Finished
  <2>3. ToldSoFar
    BY <2>1 DEF TellInv
  <2>4. Told(out') = Told(out) /\ Once(out')
    <3>1. out \in Seq(PrintedLine) /\ topskipped \in Nat /\ (o.prop # NULL => topskipped = 0)
      BY RightArePrinted DEF PrintInv
    <3>2. /\ Elided(topskipped) \in Seq(PrintedLine) /\ Told(Elided(topskipped)) = {}
          /\ Once(Elided(topskipped))
      BY <3>1, ElidedTold
    <3>3. Told(out \o Elided(topskipped)) = Told(out) /\ Once(out \o Elided(topskipped))
      BY <2>3, <3>1, <3>2, ToldMore DEF ToldSoFar
    <3> QED
      BY <2>1, <2>3, <3>3 DEF ToldSoFar
  <2>5. ToldSoFar'
    BY <2>1, <2>2, <2>3, <2>4, ToldNext DEF ToldSoFar
  <2>6. (cmd.name = "jsframe" => at = 1) /\ (cmd.name = "jsstack" => 1 \notin fails)
    BY <2>1 DEF TellInv
  <2> QED
    BY <2>1, <2>5, <2>6 DEF TellInv, InFrame
<1>7. CASE load_current_context
  <2>1. /\ UNCHANGED <<cmd, stack, out, fails, at>> /\ doing = "registers" /\ at = 1 /\ First = 1
        /\ \/ doing' = "frame" /\ result' = result
           \/ doing' = "idle" /\ result' = "error"
    BY <1>7 DEF load_current_context, unchangedHere, TellInv, StackInv, StackTyped
  <2>2. First' = First /\ Finished = {} /\ cmd.name = "jsstack"
    BY <1>0, <2>1, TellNext DEF Finished, First, StackCommand
  <2>3. ToldSoFar /\ fails = {} /\ SaidHere = {} /\ SaidHere' = {}
    BY <2>1, <2>2 DEF TellInv, ToldSoFar, SaidHere
  <2>4. doing' = "frame" => ToldSoFar'
    <3> SUFFICES ASSUME doing' = "frame" PROVE ToldSoFar'
      OBVIOUS
    <3>1. Finished' = Finished
      BY <2>1, <2>2 DEF Finished
    <3> QED
      BY <2>1, <2>3, <3>1, ToldNext DEF ToldSoFar
  <2>5. CASE doing' = "frame"
    BY <2>1, <2>2, <2>3, <2>4, <2>5 DEF TellInv, InFrame
  <2>6. CASE doing' = "idle"
    BY <2>1, <2>2, <2>3, <2>6 DEF TellInv, InFrame
  <2> QED
    BY <2>1, <2>5, <2>6
<1> QED
  BY <1>1, <1>2, <1>3, <1>4, <1>5, <1>6, <1>7 DEF FrameStep

LEMMA StackBeginsTells ==
    ASSUME LeavesInv, FrameCommands
    PROVE  TellInv'
<1>1. /\ StackInv' /\ result' = "none" /\ out' = <<>>
      /\ at' = 1 /\ fails' = {}
      /\ doing' = IF cmd'.addr THEN "walk" ELSE "registers"
  BY StackBegins
<1>2. Finished' = {} /\ SaidHere' = {} /\ (doing' = "registers" => First' = 1)
  <2>1. CASE cmd'.addr
    <3>1. First' = 2 /\ Finished' = First'..at'
      BY <1>1, <2>1 DEF First, Finished
    <3> QED
      BY <1>1, <2>1, <3>1 DEF SaidHere
  <2>2. CASE ~cmd'.addr
    <3>1. First' = 1 /\ Finished' = First'..(at' - 1)
      BY <1>1, <2>2 DEF First, Finished
    <3> QED
      BY <1>1, <2>2, <3>1 DEF SaidHere
  <2> QED
    BY <2>1, <2>2
<1>3. ToSay({}) = {} /\ \A x : About(x, {}) = {}
  BY DEF ToSay, About
<1>4. ToldSoFar'
  <2>1. ToSay(Finished)' = {}
    BY <1>2 DEF ToSay
  <2> QED
    BY <1>1, <1>2, <1>3, <2>1, ToldNothing DEF ToldSoFar
<1>5. cmd'.name = "jsframe" => doing' = "walk"
  BY <1>1 DEF StackInv, InStack, StackCommand
<1> QED
  BY <1>1, <1>2, <1>4, <1>5 DEF TellInv, InFrame

ToldInv == StackInv => TellInv

LEMMA TellsInductive ==
    LeavesInv /\ SearchInv /\ PrintedInv /\ ToldInv /\ [Next]_vars => ToldInv'
<1> SUFFICES ASSUME LeavesInv, SearchInv, PrintedInv, ToldInv, [Next]_vars, StackInv'
             PROVE  TellInv'
  BY DEF ToldInv
<1>1. CASE FunctionStep
  <2>1. FunctionInv'
    BY <1>1, StepOfFunction, FunctionKeeps
  <2> QED
    BY <2>1, NotBothNext
<1>2. CASE FrameStep
  BY <1>2, StepOfStack, StackTells DEF PrintedInv, ToldInv
<1>3. CASE FunctionCommands /\ UNCHANGED framevars
  <2>1. FunctionInv'
    BY <1>3, FunctionBegins
  <2> QED
    BY <2>1, NotBothNext
<1>4. CASE FrameCommands
  BY <1>4, StackBeginsTells
<1>5. CASE (Search /\ UNCHANGED framevars) \/ UNCHANGED vars
  <2>1. UNCHANGED <<session, out, held, indent, framevars>>
    BY <1>5 DEF Search, vars, sessionvars
  <2>2. /\ UNCHANGED <<cmd, doing, result, misfreed, v8_warnings, atstart, out, held, indent>>
        /\ UNCHANGED <<stack, at, fails, nskipped, topskipped>>
    BY <2>1 DEF session, framevars
  <2>3. StackInv
    BY <2>2 DEF StackInv, InStack, StackLeaves, StackTyped, Indented, o
  <2>4. /\ o' = o /\ First' = First /\ f' = f /\ (Examined(f)' <=> Examined(f))
        /\ Finished' = Finished /\ SaidHere' = SaidHere
    <3>1. o' = o /\ First' = First /\ f' = f
      BY <2>2 DEF o, First, f
    <3> QED
      BY <2>2, <3>1 DEF Finished, SaidHere, Examined, TakenForJS
  <2>5. ToldSoFar => ToldSoFar'
    BY <2>2, <2>4, ToldNext DEF ToldSoFar
  <2>6. TellInv
    BY <2>3 DEF ToldInv
  <2> QED
    BY <2>2, <2>4, <2>5, <2>6 DEF TellInv
<1> QED
  BY <1>1, <1>2, <1>3, <1>4, <1>5 DEF Next, Step

LEMMA TellsInvariant == Spec => []ToldInv
<1>1. Init => ToldInv
  <2> SUFFICES ASSUME Init PROVE ~StackInv
    BY DEF ToldInv
  <2>1. stack = <<>>
    BY DEF Init, FramesInit
  <2>2. DOMAIN stack = {}
    BY <2>1
  <2> QED
    BY <2>2 DEF StackInv, StackTyped
<1> QED
  BY <1>1, LeavesInvariant, SearchesInvariant, PrintsInvariant, TellsInductive, PTL DEF Spec

(* ::jsstack and ::jsframe say of each frame what there is to say: an      *)
(* argument is shown as what the frame was called with; when the command   *)
(* is over, every part that -v or -p asks for has been printed, once, for  *)
(* the frames it has reached that have it, and nothing else has; and the   *)
(* frames without it are exactly those that were reported with an error    *)
(* (do_jsframe, dcmd_jsframe).                                             *)
THEOREM ArgumentsAreRight == Spec => []ArgumentsRight
<1>1. LeavesInv /\ PrintedInv /\ ToldInv => ArgumentsRight
  <2> SUFFICES ASSUME LeavesInv, PrintedInv, ToldInv, cmd # NULL, cmd.name \in {"jsstack", "jsframe"}
               PROVE  ArgumentsRight
    BY DEF ArgumentsRight
  <2>1. StackInv
    BY FunctionsNotStacks DEF LeavesInv
  <2>2. ASSUME NEW i \in DOMAIN out PROVE Right(out[i])
    <3>1. out \in Seq(RightLines)
      BY <2>1 DEF PrintedInv, PrintInv
    <3>2. out[i] \in RightLines
      BY <3>1, LenProperties, ElementOfSeq
    <3> QED
      BY <3>2 DEF RightLines
  <2> DEFINE reached == (IF cmd.addr THEN 2 ELSE 1)..at
  <2>3. ASSUME doing = "idle", result = "ok" \/ fails # {} \/ at > 1
        PROVE  /\ Once(out) /\ Told(out) = ToSay(reached)
               /\ fails = {i \in reached : Lacking(stack[i])}
               /\ cmd.name = "jsframe" /\ at > 1 => (result = "ok" <=> fails = {})
               /\ cmd.name = "jsstack" /\ 1 \in fails => result = "error"
    <3>1. TellInv
      BY <2>1 DEF ToldInv
    <3>2. Finished = reached /\ SaidHere = {} /\ About(at, {}) = {}
      BY <2>3 DEF Finished, First, SaidHere, About
    <3>3. ToldSoFar
      BY <2>3, <3>1 DEF TellInv
    <3> HIDE DEF reached
    <3> QED
      BY <2>3, <3>1, <3>2, <3>3 DEF TellInv, ToldSoFar
  <2> QED
    BY <2>2, <2>3 DEF ArgumentsRight, Right
<1> QED
  BY <1>1, LeavesInvariant, PrintsInvariant, TellsInvariant, PTL
-----------------------------------------------------------------------------
(***************************************************************************)
(* The variables of a ScopeInfo.                                           *)
(***************************************************************************)

(* An element of an array, and the parts that a ScopeInfo is put together  *)
(* from: its static part, and what comes before the names of the stack     *)
(* locals.                                                                 *)
Element == [smi : BOOLEAN, n : Int, ref : STRING \cup {""}]

Static(L, decl) ==
    [i \in 1..L.first |->
        CASE i = L.idx.params + 1 -> Smi(Len(decl.params))
          [] i = L.idx.stack + 1 -> Smi(Len(decl.stack))
          [] i = L.idx.ctx + 1 -> Smi(Len(decl.ctx))
          [] OTHER -> Smi(0)]

Gap(L) == IF L.offset.stack = 1 THEN <<Smi(7)>> ELSE <<>>

(* Where the names of each type begin, whatever stands in the array.       *)
Begins(L, decl) ==
    [params |-> L.first,
     stack |-> L.first + Len(decl.params) + Len(Gap(L)),
     ctx |-> L.first + Len(decl.params) + Len(Gap(L)) + Len(decl.stack)]

Types == {"params", "stack", "ctx"}

(* What can be read of a ScopeInfo that may be cut short, or may count     *)
(* some context variables too many.                                        *)
Readable(array, L, decl) ==
    /\ array.ok /\ array.nelts \in Nat
    /\ array.nelts <= Begins(L, decl)["ctx"] + Len(decl.ctx)
    /\ array.at[L.idx.params] = Smi(Len(decl.params))
    /\ array.at[L.idx.stack] = Smi(Len(decl.stack))
    /\ \E more \in {0, 1} : array.at[L.idx.ctx] = Smi(Len(decl.ctx) + more)
    /\ \A type \in Types, j \in Nat :
          j < Len(decl[type]) /\ Begins(L, decl)[type] + j < array.nelts =>
             array.at[Begins(L, decl)[type] + j] = Ref(decl[type][j + 1])

LEMMA Joined ==
    ASSUME NEW X, NEW s \in Seq(X), NEW t \in Seq(X), NEW st, st = s \o t
    PROVE  /\ st \in Seq(X) /\ Len(st) = Len(s) + Len(t)
           /\ \A i \in 1..Len(s) : st[i] = s[i]
           /\ \A i \in 1..Len(t) : st[Len(s) + i] = t[i]
OBVIOUS

LEMMA RefIs == \A x : ~Ref(x).smi /\ Ref(x).ref = x /\ (x \in STRING => Ref(x) \in Element)
<1>1. ASSUME NEW x \in STRING PROVE Ref(x) \in Element
  <2> DEFINE refs == STRING \cup {""}
  <2>1. x \in refs
    OBVIOUS
  <2> HIDE DEF refs
  <2>2. [smi |-> FALSE, n |-> 0, ref |-> x] \in [smi : BOOLEAN, n : Int, ref : refs]
    BY <2>1
  <2> QED
    BY <2>2 DEF Ref, Element, refs
<1> QED
  BY <1>1 DEF Ref

LEMMA NamesAre ==
    ASSUME NEW names \in Seq(STRING)
    PROVE  /\ Names(names) \in Seq(Element) /\ Len(Names(names)) = Len(names)
           /\ \A i \in 1..Len(names) : Names(names)[i] = Ref(names[i])
<1>1. Names(names) = [i \in 1..Len(names) |-> Ref(names[i])]
  BY DEF Names
<1>2. \A i \in 1..Len(names) : Ref(names[i]) \in Element
  <2> SUFFICES ASSUME NEW i \in 1..Len(names) PROVE Ref(names[i]) \in Element
    OBVIOUS
  <2>1. names[i] \in STRING
    OBVIOUS
  <2> QED
    BY <2>1, RefIs
<1>3. Len(names) \in Nat
  OBVIOUS
<1> QED
  BY <1>1, <1>2, <1>3

LEMMA SmiIs == \A n \in Int : Smi(n) \in Element /\ Smi(n).smi /\ Smi(n).n = n
BY DEF Smi, Element

LEMMA StaticIs ==
    ASSUME NEW L \in Layouts, NEW decl \in Declared
    PROVE  /\ Static(L, decl) \in Seq(Element) /\ Len(Static(L, decl)) = L.first
           /\ Static(L, decl)[L.idx.params + 1] = Smi(Len(decl.params))
           /\ Static(L, decl)[L.idx.stack + 1] = Smi(Len(decl.stack))
           /\ Static(L, decl)[L.idx.ctx + 1] = Smi(Len(decl.ctx))
<1>1. /\ L.first \in Nat /\ L.idx.params \in Nat /\ L.idx.stack \in Nat /\ L.idx.ctx \in Nat
      /\ L.idx.params # L.idx.stack /\ L.idx.stack # L.idx.ctx /\ L.idx.ctx # L.idx.params
      /\ L.idx.params < L.first /\ L.idx.stack < L.first /\ L.idx.ctx < L.first
  BY ClosuresAssumption DEF Layout
<1>2. Len(decl.params) \in Int /\ Len(decl.stack) \in Int /\ Len(decl.ctx) \in Int /\ 0 \in Int
  BY DEF Declared
<1> DEFINE e(i) == CASE i = L.idx.params + 1 -> Smi(Len(decl.params))
                     [] i = L.idx.stack + 1 -> Smi(Len(decl.stack))
                     [] i = L.idx.ctx + 1 -> Smi(Len(decl.ctx))
                     [] OTHER -> Smi(0)
<1>3. \A i \in 1..L.first : e(i) \in Element
  <2>1. Smi(Len(decl.params)) \in Element /\ Smi(Len(decl.stack)) \in Element
        /\ Smi(Len(decl.ctx)) \in Element /\ Smi(0) \in Element
    BY <1>2, SmiIs
  <2> QED
    BY <1>1, <2>1
<1>4. /\ e(L.idx.params + 1) = Smi(Len(decl.params))
      /\ e(L.idx.stack + 1) = Smi(Len(decl.stack))
      /\ e(L.idx.ctx + 1) = Smi(Len(decl.ctx))
  BY <1>1
<1>5. Static(L, decl) = [i \in 1..L.first |-> e(i)]
  BY DEF Static
<1>6. /\ L.idx.params + 1 \in 1..L.first /\ L.idx.stack + 1 \in 1..L.first
      /\ L.idx.ctx + 1 \in 1..L.first
  BY <1>1
<1> HIDE DEF e
<1>7. Static(L, decl) \in Seq(Element) /\ Len(Static(L, decl)) = L.first
  BY <1>1, <1>3, <1>5
<1>8. \A i \in 1..L.first : Static(L, decl)[i] = e(i)
  BY <1>5
<1> QED
  BY <1>4, <1>6, <1>7, <1>8

LEMMA GapIs ==
    ASSUME NEW L \in Layouts
    PROVE  /\ Gap(L) \in Seq(Element) /\ Len(Gap(L)) \in {0, 1}
           /\ Offset(L, "stack") = Len(Gap(L)) /\ Offset(L, "params") = 0 /\ Offset(L, "ctx") = 0
<1>1. L.offset.stack \in {-1, 1} /\ L.offset.params = -1 /\ L.offset.ctx = -1
  BY ClosuresAssumption DEF Layout
<1>2. Smi(7) \in Element
  BY SmiIs
<1>3. CASE L.offset.stack = 1
  BY <1>1, <1>2, <1>3 DEF Gap, Offset
<1>4. CASE L.offset.stack = -1
  BY <1>1, <1>4 DEF Gap, Offset
<1> QED
  BY <1>1, <1>3, <1>4

(* Five sequences, one after the other, and where each of them begins.     *)
LEMMA FiveJoined ==
    ASSUME NEW X, NEW A \in Seq(X), NEW B \in Seq(X), NEW G \in Seq(X), NEW S \in Seq(X),
           NEW C \in Seq(X), NEW all, all = A \o B \o G \o S \o C
    PROVE  /\ all \in Seq(X)
           /\ Len(all) = Len(A) + Len(B) + Len(G) + Len(S) + Len(C)
           /\ \A i \in 1..Len(A) : all[i] = A[i]
           /\ \A i \in 1..Len(B) : all[Len(A) + i] = B[i]
           /\ \A i \in 1..Len(S) : all[Len(A) + Len(B) + Len(G) + i] = S[i]
           /\ \A i \in 1..Len(C) : all[Len(A) + Len(B) + Len(G) + Len(S) + i] = C[i]
<1>0. Len(A) \in Nat /\ Len(B) \in Nat /\ Len(G) \in Nat /\ Len(S) \in Nat /\ Len(C) \in Nat
  OBVIOUS
<1>1. PICK AB : AB = A \o B
  OBVIOUS
<1>2. /\ AB \in Seq(X) /\ Len(AB) = Len(A) + Len(B)
      /\ \A i \in 1..Len(A) : AB[i] = A[i]
      /\ \A i \in 1..Len(B) : AB[Len(A) + i] = B[i]
  BY <1>1, Joined
<1>3. PICK ABG : ABG = AB \o G
  OBVIOUS
<1>4. /\ ABG \in Seq(X) /\ Len(ABG) = Len(AB) + Len(G)
      /\ \A i \in 1..Len(AB) : ABG[i] = AB[i]
  <2>1. AB \in Seq(X)
    BY <1>2
  <2> QED
    BY <2>1, <1>3, Joined
<1>5. PICK ABGS : ABGS = ABG \o S
  OBVIOUS
<1>6. /\ ABGS \in Seq(X) /\ Len(ABGS) = Len(ABG) + Len(S)
      /\ \A i \in 1..Len(ABG) : ABGS[i] = ABG[i]
      /\ \A i \in 1..Len(S) : ABGS[Len(ABG) + i] = S[i]
  <2>1. ABG \in Seq(X)
    BY <1>4
  <2> QED
    BY <2>1, <1>5, Joined
<1>7. all = ABGS \o C
  BY <1>1, <1>3, <1>5
<1>8. /\ all \in Seq(X) /\ Len(all) = Len(ABGS) + Len(C)
      /\ \A i \in 1..Len(ABGS) : all[i] = ABGS[i]
      /\ \A i \in 1..Len(C) : all[Len(ABGS) + i] = C[i]
  <2>1. ABGS \in Seq(X)
    BY <1>6
  <2> QED
    BY <2>1, <1>7, Joined
<1>9. /\ Len(AB) = Len(A) + Len(B) /\ Len(ABG) = Len(A) + Len(B) + Len(G)
      /\ Len(ABGS) = Len(A) + Len(B) + Len(G) + Len(S)
      /\ Len(all) = Len(A) + Len(B) + Len(G) + Len(S) + Len(C)
  BY <1>2, <1>4, <1>6, <1>8
<1>10. \A i \in 1..Len(A) : all[i] = A[i]
  <2> SUFFICES ASSUME NEW i \in 1..Len(A) PROVE all[i] = A[i]
    OBVIOUS
  <2>1. i \in 1..Len(AB) /\ i \in 1..Len(ABG) /\ i \in 1..Len(ABGS)
    BY <1>0, <1>9
  <2> QED
    BY <2>1, <1>2, <1>4, <1>6, <1>8, Zenon
<1>11. \A i \in 1..Len(B) : all[Len(A) + i] = B[i]
  <2> SUFFICES ASSUME NEW i \in 1..Len(B) PROVE all[Len(A) + i] = B[i]
    OBVIOUS
  <2>1. /\ Len(A) + i \in 1..Len(AB) /\ Len(A) + i \in 1..Len(ABG)
        /\ Len(A) + i \in 1..Len(ABGS)
    BY <1>0, <1>9
  <2> QED
    BY <2>1, <1>2, <1>4, <1>6, <1>8, SMTT(30)
<1>12. \A i \in 1..Len(S) : all[Len(A) + Len(B) + Len(G) + i] = S[i]
  <2> SUFFICES ASSUME NEW i \in 1..Len(S) PROVE all[Len(A) + Len(B) + Len(G) + i] = S[i]
    OBVIOUS
  <2>1. Len(ABG) + i \in 1..Len(ABGS)
    BY <1>0, <1>9
  <2>2. all[Len(ABG) + i] = S[i]
    BY <2>1, <1>6, <1>8, Zenon
  <2> QED
    BY <2>2, <1>9, Zenon
<1>13. \A i \in 1..Len(C) : all[Len(A) + Len(B) + Len(G) + Len(S) + i] = C[i]
  BY <1>8, <1>9, Zenon
<1> QED
  BY <1>8, <1>9, <1>10, <1>11, <1>12, <1>13, Zenon

(* A place in a part of an array, counted from 0 and from 1.               *)
LEMMA PlaceInPart ==
    ASSUME NEW begin \in Nat, NEW n \in Nat, NEW len \in Nat, begin + n <= len,
           NEW j \in Nat, j < n
    PROVE  /\ begin + (j + 1) \in 1..len /\ begin + j \in Nat
           /\ (begin + j) + 1 = begin + (j + 1) /\ j + 1 \in 1..n
OBVIOUS

LEMMA PartsFit ==
    ASSUME NEW first \in Nat, NEW p \in Nat, NEW g \in Nat, NEW s \in Nat, NEW c \in Nat
    PROVE  /\ first + p + g + s + c \in Nat
           /\ first + p + g \in Nat /\ first + p + g + s \in Nat
           /\ first + p <= first + p + g + s + c
           /\ (first + p + g) + s <= first + p + g + s + c
           /\ (first + p + g + s) + c <= first + p + g + s + c
           /\ \A n \in Nat : n < first => /\ n + 1 \in 1..first
                                         /\ n + 1 \in 1..(first + p + g + s + c)
OBVIOUS

(* A ScopeInfo as V8 writes it has at each place what is said of it.       *)
LEMMA ScopeInfoIs ==
    ASSUME NEW L \in Layouts, NEW decl \in Declared
    PROVE  LET array == ScopeInfo(L, decl)
           IN /\ Readable(array, L, decl)
              /\ array.nelts = Begins(L, decl)["ctx"] + Len(decl.ctx)
              /\ array.at[L.idx.ctx] = Smi(Len(decl.ctx))
              /\ array = [ok |-> TRUE, nelts |-> array.nelts, at |-> array.at]
              /\ DOMAIN array.at = 0..(array.nelts - 1)
<1> DEFINE A == Static(L, decl)
           B == Names(decl.params)
           G == Gap(L)
           S == Names(decl.stack)
           C == Names(decl.ctx)
           all == A \o B \o G \o S \o C
           array == ScopeInfo(L, decl)
<1>1. decl.params \in Seq(STRING) /\ decl.stack \in Seq(STRING) /\ decl.ctx \in Seq(STRING)
  BY DEF Declared
<1>2. /\ A \in Seq(Element) /\ Len(A) = L.first
      /\ A[L.idx.params + 1] = Smi(Len(decl.params))
      /\ A[L.idx.stack + 1] = Smi(Len(decl.stack))
      /\ A[L.idx.ctx + 1] = Smi(Len(decl.ctx))
  BY StaticIs
<1>3. /\ B \in Seq(Element) /\ Len(B) = Len(decl.params)
      /\ \A i \in 1..Len(decl.params) : B[i] = Ref(decl.params[i])
  BY <1>1, NamesAre
<1>4. /\ S \in Seq(Element) /\ Len(S) = Len(decl.stack)
      /\ \A i \in 1..Len(decl.stack) : S[i] = Ref(decl.stack[i])
  BY <1>1, NamesAre
<1>5. /\ C \in Seq(Element) /\ Len(C) = Len(decl.ctx)
      /\ \A i \in 1..Len(decl.ctx) : C[i] = Ref(decl.ctx[i])
  BY <1>1, NamesAre
<1>6. G \in Seq(Element) /\ Len(G) \in Nat
  BY GapIs
<1>7. array = Array(all)
  BY DEF ScopeInfo, Static, Gap
<1>8. /\ L.first \in Nat /\ L.idx.params \in Nat /\ L.idx.stack \in Nat /\ L.idx.ctx \in Nat
      /\ L.idx.params < L.first /\ L.idx.stack < L.first /\ L.idx.ctx < L.first
  BY ClosuresAssumption DEF Layout
<1>9. Len(decl.params) \in Nat /\ Len(decl.stack) \in Nat /\ Len(decl.ctx) \in Nat
  BY <1>1
<1> HIDE DEF A, B, G, S, C
<1>10. all = A \o B \o G \o S \o C
  OBVIOUS
<1> HIDE DEF all
<1>11. /\ all \in Seq(Element)
       /\ Len(all) = Len(A) + Len(B) + Len(G) + Len(S) + Len(C)
       /\ \A i \in 1..Len(A) : all[i] = A[i]
       /\ \A i \in 1..Len(B) : all[Len(A) + i] = B[i]
       /\ \A i \in 1..Len(S) : all[Len(A) + Len(B) + Len(G) + i] = S[i]
       /\ \A i \in 1..Len(C) : all[Len(A) + Len(B) + Len(G) + Len(S) + i] = C[i]
  <2>1. /\ A \in Seq(Element) /\ B \in Seq(Element) /\ G \in Seq(Element) /\ S \in Seq(Element)
        /\ C \in Seq(Element)
    BY <1>2, <1>3, <1>4, <1>5, <1>6
  <2> QED
    BY <2>1, <1>10, FiveJoined, SMTT(60)
<1> DEFINE p == Len(decl.params)
           g == Len(G)
           s == Len(decl.stack)
           c == Len(decl.ctx)
           len == Len(all)
<1>12. /\ L.first \in Nat /\ p \in Nat /\ g \in Nat /\ s \in Nat /\ c \in Nat
       /\ len = L.first + p + g + s + c
  BY <1>2, <1>3, <1>4, <1>5, <1>6, <1>8, <1>9, <1>11, Zenon
<1>12a. /\ len \in Nat /\ L.first + p + g \in Nat /\ L.first + p + g + s \in Nat
        /\ L.first + p <= len /\ (L.first + p + g) + s <= len
        /\ (L.first + p + g + s) + c <= len
        /\ \A n \in Nat : n < L.first => n + 1 \in 1..L.first /\ n + 1 \in 1..len
  <2> HIDE DEF p, g, s, c, len
  <2> QED
    BY <1>12, PartsFit
<1>13. /\ Begins(L, decl)["params"] = L.first
       /\ Begins(L, decl)["stack"] = L.first + p + g
       /\ Begins(L, decl)["ctx"] = L.first + p + g + s
  BY DEF Begins, G
<1>14. /\ \A i \in 1..L.first : all[i] = A[i]
       /\ \A i \in 1..p : all[L.first + i] = Ref(decl.params[i])
       /\ \A i \in 1..s : all[(L.first + p + g) + i] = Ref(decl.stack[i])
       /\ \A i \in 1..c : all[(L.first + p + g + s) + i] = Ref(decl.ctx[i])
  BY <1>2, <1>3, <1>4, <1>5, <1>11, Zenon
<1>21. /\ array = [ok |-> TRUE, nelts |-> array.nelts, at |-> array.at]
       /\ DOMAIN array.at = 0..(array.nelts - 1)
  BY <1>7 DEF Array
<1>22. /\ array.ok /\ array.nelts = len
       /\ \A i \in 0..(len - 1) : array.at[i] = all[i + 1]
  BY <1>7 DEF Array
<1> HIDE DEF array, p, g, s, c, len
<1>23. \A n \in Nat, i \in 1..len : n + 1 = i => array.at[n] = all[i]
  <2> SUFFICES ASSUME NEW n \in Nat, NEW i \in 1..len, n + 1 = i PROVE array.at[n] = all[i]
    OBVIOUS
  <2>1. len \in Nat
    BY <1>12
  <2>2. n \in 0..(len - 1)
    BY <2>1
  <2> QED
    BY <2>2, <1>22, Zenon
<1>24. /\ array.at[L.idx.params] = Smi(p)
       /\ array.at[L.idx.stack] = Smi(s)
       /\ array.at[L.idx.ctx] = Smi(c)
  <2>1. \A n \in Nat : n < L.first => n + 1 \in 1..L.first /\ n + 1 \in 1..len
    BY <1>12a
  <2>2. \A n \in Nat : n < L.first => array.at[n] = A[n + 1]
    BY <2>1, <1>14, <1>23, Zenon
  <2> QED
    BY <2>2, <1>2, <1>8, Zenon DEF p, s, c
<1>25. \A j \in Nat : j < p => array.at[L.first + j] = Ref(decl.params[j + 1])
  <2> SUFFICES ASSUME NEW j \in Nat, j < p
               PROVE  array.at[L.first + j] = Ref(decl.params[j + 1])
    OBVIOUS
  <2>1. /\ L.first + (j + 1) \in 1..len /\ L.first + j \in Nat
        /\ (L.first + j) + 1 = L.first + (j + 1) /\ j + 1 \in 1..p
    BY <1>12, <1>12a, PlaceInPart
  <2> QED
    BY <2>1, <1>14, <1>23, Zenon
<1>26. \A j \in Nat : j < s => array.at[(L.first + p + g) + j] = Ref(decl.stack[j + 1])
  <2> SUFFICES ASSUME NEW j \in Nat, j < s
               PROVE  array.at[(L.first + p + g) + j] = Ref(decl.stack[j + 1])
    OBVIOUS
  <2>1. /\ (L.first + p + g) + (j + 1) \in 1..len /\ (L.first + p + g) + j \in Nat
        /\ ((L.first + p + g) + j) + 1 = (L.first + p + g) + (j + 1) /\ j + 1 \in 1..s
    BY <1>12, <1>12a, PlaceInPart
  <2> QED
    BY <2>1, <1>14, <1>23, Zenon
<1>27. \A j \in Nat : j < c => array.at[(L.first + p + g + s) + j] = Ref(decl.ctx[j + 1])
  <2> SUFFICES ASSUME NEW j \in Nat, j < c
               PROVE  array.at[(L.first + p + g + s) + j] = Ref(decl.ctx[j + 1])
    OBVIOUS
  <2>1. /\ (L.first + p + g + s) + (j + 1) \in 1..len /\ (L.first + p + g + s) + j \in Nat
        /\ ((L.first + p + g + s) + j) + 1 = (L.first + p + g + s) + (j + 1) /\ j + 1 \in 1..c
    BY <1>12, <1>12a, PlaceInPart
  <2> QED
    BY <2>1, <1>14, <1>23, Zenon
<1>28. /\ \A j \in Nat : j < Len(decl["params"]) =>
            array.at[Begins(L, decl)["params"] + j] = Ref(decl["params"][j + 1])
       /\ \A j \in Nat : j < Len(decl["stack"]) =>
            array.at[Begins(L, decl)["stack"] + j] = Ref(decl["stack"][j + 1])
       /\ \A j \in Nat : j < Len(decl["ctx"]) =>
            array.at[Begins(L, decl)["ctx"] + j] = Ref(decl["ctx"][j + 1])
  BY <1>13, <1>25, <1>26, <1>27, Zenon DEF p, s, c
<1>29. array.nelts = Begins(L, decl)["ctx"] + Len(decl.ctx) /\ array.nelts \in Nat
  BY <1>12, <1>13, <1>22 DEF c
<1>30. array.nelts <= Begins(L, decl)["ctx"] + Len(decl.ctx)
  BY <1>29
<1>31. \E more \in {0, 1} : array.at[L.idx.ctx] = Smi(Len(decl.ctx) + more)
  <2>1. Len(decl.ctx) + 0 = Len(decl.ctx) /\ 0 \in {0, 1}
    BY <1>9
  <2> QED
    BY <2>1, <1>24, Zenon DEF c
<1>32. Readable(array, L, decl)
  BY <1>22, <1>24, <1>28, <1>29, <1>30, <1>31, Zenon DEF Readable, Types, p, s
<1> QED
  BY <1>21, <1>24, <1>29, <1>32, Zenon DEF array, c

LEMMA Modulo ==
    ASSUME NEW w \in Nat, NEW n \in Nat, n < w
    PROVE  n % w = n
OBVIOUS

LEMMA BeginsSum ==
    ASSUME NEW first \in Nat, NEW p \in Nat, NEW g \in {0, 1}, NEW s \in Nat, NEW c \in Nat,
           NEW w \in Nat, first + 2 + (p + s + c) < w
    PROVE  /\ p < w /\ s < w /\ c < w /\ c + 1 < w
           /\ first < w /\ first + p + g < w /\ first + p + g + s < w
           /\ first + p < w
           /\ first + p + g + s + c < w /\ first + p + g + s + c + 1 < w
           /\ first + p + g \in Nat /\ first + p + g + s \in Nat
           /\ first + (0 + 0) = first
           /\ first + (0 + (p + (g + 0))) = first + p + g
           /\ first + (0 + (p + (g + (s + (0 + 0))))) = first + p + g + s
OBVIOUS

(* The numbers of a target fit in a word.                                  *)
LEMMA TargetFits ==
    ASSUME NEW L \in Layouts, NEW t \in Targets
    PROVE  /\ t.decl \in Declared /\ L.first \in Nat /\ Word \in Nat
           /\ Len(t.decl.params) \in Nat /\ Len(t.decl.stack) \in Nat /\ Len(t.decl.ctx) \in Nat
           /\ Len(Gap(L)) \in {0, 1} /\ Len(Gap(L)) \in Nat
           /\ L.first + 2 + (Len(t.decl.params) + Len(t.decl.stack) + Len(t.decl.ctx)) < Word
<1>1. t.decl \in Declared /\ L.first \in Nat /\ Word \in Nat
  BY ClosuresAssumption DEF Target, Layout
<1>2. L.first + 2 + Size(t.decl) < Word
  <2>1. /\ L.first + 2 + Size(t.decl) < Smis /\ Smis \in Nat /\ Smis <= Word /\ Word \in Nat
        /\ L.first \in Nat /\ t.decl \in Declared
    BY <1>1, ClosuresAssumption
  <2>2. Size(t.decl) \in Nat
    <3>1. /\ t.decl.params \in Seq(STRING) /\ t.decl.stack \in Seq(STRING)
          /\ t.decl.ctx \in Seq(STRING)
      BY <2>1, Zenon DEF Declared
    <3> DEFINE p == Len(t.decl.params)
               k == Len(t.decl.stack)
               c == Len(t.decl.ctx)
               z == Size(t.decl)
    <3>2. p \in Nat /\ k \in Nat /\ c \in Nat
      BY <3>1
    <3>3. z = p + k + c
      BY Zenon DEF Size
    <3> HIDE DEF p, k, c, z
    <3>4. z \in Nat
      BY <3>2, <3>3
    <3> QED
      BY <3>4 DEF z
  <2> QED
    BY <2>1, <2>2
<1>3. /\ t.decl.params \in Seq(STRING) /\ t.decl.stack \in Seq(STRING)
      /\ t.decl.ctx \in Seq(STRING)
  BY <1>1 DEF Declared
<1>4. /\ Len(t.decl.params) \in Nat /\ Len(t.decl.stack) \in Nat /\ Len(t.decl.ctx) \in Nat
  BY <1>3
<1>5. Len(Gap(L)) \in {0, 1} /\ Len(Gap(L)) \in Nat
  <2>1. Len(Gap(L)) \in {0, 1}
    BY GapIs
  <2> QED
    BY <2>1
<1> QED
  BY <1>1, <1>2, <1>4, <1>5, Zenon DEF Size

(* The counts fit in a small integer, the wrong one of a damaged target too.*)
LEMMA CountsFit ==
    ASSUME NEW L \in Layouts, NEW t \in Targets
    PROVE  /\ Smis \in Nat
           /\ Len(t.decl.params) < Smis /\ Len(t.decl.stack) < Smis
           /\ Len(t.decl.ctx) < Smis /\ Len(t.decl.ctx) + 1 < Smis
<1> DEFINE p == Len(t.decl.params)
           s == Len(t.decl.stack)
           c == Len(t.decl.ctx)
<1>1. p \in Nat /\ s \in Nat /\ c \in Nat /\ L.first \in Nat
  BY TargetFits, Zenon
<1>2. Smis \in Nat /\ L.first + 2 + (p + s + c) < Smis
  BY ClosuresAssumption DEF Size
<1> HIDE DEF p, s, c
<1>3. p < Smis /\ s < Smis /\ c < Smis /\ c + 1 < Smis
  BY <1>1, <1>2
<1> QED
  BY <1>2, <1>3 DEF p, s, c

LEMMA BeginsAre ==
    ASSUME NEW L \in Layouts, NEW t \in Targets
    PROVE  LET begin == Begins(L, t.decl)
           IN /\ begin["params"] \in Nat /\ begin["stack"] \in Nat /\ begin["ctx"] \in Nat
              /\ L.first <= begin["params"] /\ L.first <= begin["stack"]
              /\ L.first <= begin["ctx"]
              /\ begin["params"] + Len(t.decl.params) <= begin["stack"]
              /\ begin["stack"] + Len(t.decl.stack) <= begin["ctx"]
              /\ begin["ctx"] + Len(t.decl.ctx) + 1 < Word
<1> DEFINE p == Len(t.decl.params)
           g == Len(Gap(L))
           s == Len(t.decl.stack)
           c == Len(t.decl.ctx)
           begin == Begins(L, t.decl)
<1>1. /\ p \in Nat /\ s \in Nat /\ c \in Nat /\ g \in {0, 1} /\ g \in Nat
      /\ L.first \in Nat /\ Word \in Nat /\ L.first + 2 + (p + s + c) < Word
  BY TargetFits, Zenon
<1>2. /\ begin["params"] = L.first /\ begin["stack"] = L.first + p + g
      /\ begin["ctx"] = L.first + p + g + s
  BY DEF Begins
<1> HIDE DEF begin, p, g, s, c
<1>3. /\ begin["params"] \in Nat /\ begin["stack"] \in Nat /\ begin["ctx"] \in Nat
      /\ L.first <= begin["params"] /\ L.first <= begin["stack"]
      /\ L.first <= begin["ctx"]
      /\ begin["params"] + p <= begin["stack"]
      /\ begin["stack"] + s <= begin["ctx"]
      /\ begin["ctx"] + c + 1 < Word
  BY <1>1, <1>2
<1> QED
  BY <1>3, Zenon DEF begin, p, g, s, c

(* Where the names of a type are looked for is where they begin: the       *)
(* entries that are passed are those of the types before it.               *)
LEMMA SkipIs ==
    ASSUME NEW L \in Layouts, NEW t \in Targets, NEW array, Readable(array, L, t.decl),
           NEW type \in Types
    PROVE  Skip(array, L, type) = Begins(L, t.decl)[type]
<1> DEFINE p == Len(t.decl.params)
           g == Len(Gap(L))
           s == Len(t.decl.stack)
           c == Len(t.decl.ctx)
<1>1. /\ p \in Nat /\ s \in Nat /\ c \in Nat /\ g \in {0, 1} /\ L.first \in Nat /\ Word \in Nat
      /\ L.first + 2 + (p + s + c) < Word
  BY TargetFits
<1>2. NVars(array, L, "params") = p /\ NVars(array, L, "stack") = s
  <2>1. array.at[L.idx.params].n = p /\ array.at[L.idx.stack].n = s
    BY <1>1, SmiIs DEF Readable
  <2>2. p % Smis = p /\ s % Smis = s
    <3>1. p < Smis /\ s < Smis /\ Smis \in Nat
      BY CountsFit, Zenon
    <3> HIDE DEF p, s, c, g
    <3> QED
      BY <1>1, <3>1, Modulo
  <2> QED
    BY <2>1, <2>2, Zenon DEF NVars
<1>3. Offset(L, "params") = 0 /\ Offset(L, "stack") = g /\ Offset(L, "ctx") = 0
  BY GapIs
<1>4. /\ Begins(L, t.decl)["params"] = L.first
      /\ Begins(L, t.decl)["stack"] = L.first + p + g
      /\ Begins(L, t.decl)["ctx"] = L.first + p + g + s
  BY DEF Begins
<1>5. /\ L.idx.params # L.idx.stack /\ L.idx.stack # L.idx.ctx /\ L.idx.ctx # L.idx.params
  BY ClosuresAssumption
<1> HIDE DEF p, g, s, c
<1> DEFINE E(i, x) == Offset(L, VarTypes[i])
                        + IF SameType(L, VarTypes[i], type) THEN 0
                          ELSE NVars(array, L, VarTypes[i]) + x
           Body(r) == [i \in 1..(Len(VarTypes) + 1) |->
                          IF i > Len(VarTypes) THEN 0 ELSE E(i, r[i + 1])]
           r == CHOOSE h : h = Body(h)
<1>6. Skip(array, L, type) = (L.first + r[1]) % Word
  BY DEF Skip
<1>7. Len(VarTypes) = 3 /\ VarTypes[1] = "params" /\ VarTypes[2] = "stack" /\ VarTypes[3] = "ctx"
  BY DEF VarTypes
<1>8. \A x : /\ E(1, x) = 0 + IF type = "params" THEN 0 ELSE p + x
             /\ E(2, x) = g + IF type = "stack" THEN 0 ELSE s + x
             /\ type = "ctx" => E(3, x) = 0 + 0
  <2>1. /\ SameType(L, "params", type) <=> type = "params"
        /\ SameType(L, "stack", type) <=> type = "stack"
        /\ SameType(L, "ctx", type) <=> type = "ctx"
    BY <1>5 DEF SameType, Types
  <2> QED
    BY <1>2, <1>3, <1>7, <2>1
<1> HIDE DEF E
<1>9. \E h : h = Body(h)
  <2> DEFINE h == [i \in 1..(Len(VarTypes) + 1) |->
                      IF i > Len(VarTypes) THEN 0
                      ELSE IF i = 3 THEN E(3, 0)
                      ELSE IF i = 2 THEN E(2, E(3, 0)) ELSE E(1, E(2, E(3, 0)))]
  <2>1. h[4] = 0 /\ h[3] = E(3, 0) /\ h[2] = E(2, E(3, 0)) /\ h[1] = E(1, E(2, E(3, 0)))
    BY <1>7
  <2>2. ASSUME NEW i \in 1..(Len(VarTypes) + 1)
        PROVE  h[i] = IF i > Len(VarTypes) THEN 0 ELSE E(i, h[i + 1])
    <3>1. i = 1 \/ i = 2 \/ i = 3 \/ i = 4
      BY <1>7
    <3>2. 1 + 1 = 2 /\ 2 + 1 = 3 /\ 3 + 1 = 4
      OBVIOUS
    <3> HIDE DEF h
    <3>3. CASE i = 4
      BY <1>7, <2>1, <3>3
    <3>4. CASE i = 3
      BY <1>7, <2>1, <3>2, <3>4
    <3>5. CASE i = 2
      BY <1>7, <2>1, <3>2, <3>5
    <3>6. CASE i = 1
      BY <1>7, <2>1, <3>2, <3>6
    <3> QED
      BY <3>1, <3>3, <3>4, <3>5, <3>6
  <2>3. h = Body(h)
    BY <2>2
  <2> QED
    BY <2>3
<1>10. r = Body(r)
  BY <1>9, Zenon
<1> HIDE DEF r
<1>11. r[1] = E(1, r[2]) /\ r[2] = E(2, r[3]) /\ r[3] = E(3, r[4])
  <2>1. 1 + 1 = 2 /\ 2 + 1 = 3 /\ 3 + 1 = 4
    OBVIOUS
  <2>2. \A i \in 1..3 : r[i] = E(i, r[i + 1])
    BY <1>7, <1>10
  <2>3. 1 \in 1..3 /\ 2 \in 1..3 /\ 3 \in 1..3
    OBVIOUS
  <2> QED
    BY <2>1, <2>2, <2>3
<1>12. L.first + r[1] = Begins(L, t.decl)[type]
  <2>1. CASE type = "params"
    BY <1>1, <1>4, <1>8, <1>11, <2>1, BeginsSum
  <2>2. CASE type = "stack"
    <3>1. r[1] = 0 + (p + (g + 0))
      BY <1>8, <1>11, <2>2
    <3> QED
      BY <1>1, <1>4, <2>2, <3>1, BeginsSum
  <2>3. CASE type = "ctx"
    <3>1. r[1] = 0 + (p + (g + (s + (0 + 0))))
      BY <1>8, <1>11, <2>3
    <3> QED
      BY <1>1, <1>4, <2>3, <3>1, BeginsSum
  <2> QED
    BY <2>1, <2>2, <2>3 DEF Types
<1>13. Begins(L, t.decl)[type] \in Nat /\ Begins(L, t.decl)[type] < Word
  BY <1>1, <1>4, BeginsSum DEF Types
<1> QED
  BY <1>1, <1>6, <1>12, <1>13, Modulo

(* A ScopeInfo that can be loaded can be read, even if it is cut short or  *)
(* counts a context variable too many.                                     *)
LEMMA DamagedReadable ==
    ASSUME NEW L \in Layouts, NEW t \in Targets, NEW damage \in {"none", "cut", "many"},
           NEW array, array = Damaged(ScopeInfo(L, t.decl), L, damage), ScopeInfoLoads(array, L)
    PROVE  /\ Readable(array, L, t.decl)
           /\ damage = "none" =>
                 /\ array.nelts = Begins(L, t.decl)["ctx"] + Len(t.decl.ctx)
                 /\ array.at[L.idx.ctx] = Smi(Len(t.decl.ctx))
<1> DEFINE whole == ScopeInfo(L, t.decl)
           c == Len(t.decl.ctx)
           begin == Begins(L, t.decl)
<1>1. /\ t.decl \in Declared /\ L.first \in Nat /\ c \in Nat
      /\ Len(t.decl.params) \in Nat /\ Len(t.decl.stack) \in Nat /\ Len(Gap(L)) \in Nat
  BY TargetFits, Zenon
<1>2. /\ Readable(whole, L, t.decl) /\ whole.nelts = begin["ctx"] + c
      /\ whole.at[L.idx.ctx] = Smi(c)
      /\ whole = [ok |-> TRUE, nelts |-> whole.nelts, at |-> whole.at]
      /\ DOMAIN whole.at = 0..(whole.nelts - 1)
  BY <1>1, ScopeInfoIs
<1> HIDE DEF whole
<1>3. /\ L.idx.params \in Nat /\ L.idx.stack \in Nat /\ L.idx.ctx \in Nat
      /\ L.idx.params # L.idx.stack /\ L.idx.stack # L.idx.ctx /\ L.idx.ctx # L.idx.params
      /\ L.idx.params < L.first /\ L.idx.stack < L.first /\ L.idx.ctx < L.first
  BY ClosuresAssumption DEF Layout
<1>4. /\ begin["params"] \in Nat /\ begin["stack"] \in Nat /\ begin["ctx"] \in Nat
      /\ L.first <= begin["params"] /\ L.first <= begin["stack"] /\ L.first <= begin["ctx"]
  BY BeginsAre
<1> HIDE DEF begin, c
<1>5. CASE damage = "none"
  <2>1. array = whole
    BY <1>5 DEF Damaged, whole
  <2> QED
    BY <1>2, <2>1 DEF begin, c
<1>6. CASE damage = "cut"
  <2>1. array = Cut(whole, 1)
    BY <1>6 DEF Damaged, whole
  <2>2. /\ array.ok /\ array.nelts = whole.nelts - 1
        /\ \A i \in 0..(whole.nelts - 1 - 1) : array.at[i] = whole.at[i]
    BY <2>1 DEF Cut
  <2>3. whole.nelts \in Nat /\ L.first <= array.nelts
    BY <1>2 DEF ScopeInfoLoads, Readable
  <2>4. array.nelts \in Nat /\ array.nelts <= whole.nelts
    BY <1>1, <2>2, <2>3
  <2>5. \A i \in Nat : i < array.nelts => array.at[i] = whole.at[i]
    BY <2>2, <2>3
  <2>6. /\ array.at[L.idx.params] = whole.at[L.idx.params]
        /\ array.at[L.idx.stack] = whole.at[L.idx.stack]
        /\ array.at[L.idx.ctx] = whole.at[L.idx.ctx]
    BY <1>1, <1>3, <2>3, <2>4, <2>5
  <2>7. ASSUME NEW type \in Types, NEW j \in Nat, j < Len(t.decl[type]),
               begin[type] + j < array.nelts
        PROVE  array.at[begin[type] + j] = Ref(t.decl[type][j + 1])
    <3>1. begin[type] + j \in Nat /\ begin[type] + j < whole.nelts
      BY <1>4, <2>3, <2>4, <2>7 DEF Types
    <3>2. whole.at[begin[type] + j] = Ref(t.decl[type][j + 1])
      BY <1>2, <2>7, <3>1, Zenon DEF Readable, begin
    <3> QED
      BY <2>5, <2>7, <3>1, <3>2
  <2>8. array.nelts <= begin["ctx"] + c
    BY <1>2, <2>4
  <2> QED
    BY <1>2, <1>6, <2>2, <2>4, <2>6, <2>7, <2>8 DEF Readable, begin, c
<1>7. CASE damage = "many"
  <2> DEFINE more == Smi(whole.at[L.idx.ctx].n + 1)
  <2>1. array = [whole EXCEPT !.at[L.idx.ctx] = more]
    BY <1>7 DEF Damaged, whole, Count
  <2> HIDE DEF more
  <2>2. array.ok /\ array.nelts = whole.nelts /\ array.at = [whole.at EXCEPT ![L.idx.ctx] = more]
    BY <1>2, <2>1
  <2>3. whole.nelts \in Nat /\ L.first <= whole.nelts
    BY <1>1, <1>2, <1>4, SMTT(30) DEF Readable, c
  <2>4. \A i \in Nat : i < whole.nelts /\ i # L.idx.ctx => array.at[i] = whole.at[i]
    BY <1>2, <2>2, <2>3
  <2>5. array.at[L.idx.ctx] = Smi(c + 1)
    <3>1. L.idx.ctx \in DOMAIN whole.at
      BY <1>1, <1>2, <1>3, <2>3
    <3>2. array.at[L.idx.ctx] = more
      BY <2>2, <3>1
    <3>3. more = Smi(c + 1)
      BY <1>1, <1>2, SmiIs DEF more, c
    <3> QED
      BY <3>2, <3>3
  <2>6. /\ array.at[L.idx.params] = whole.at[L.idx.params]
        /\ array.at[L.idx.stack] = whole.at[L.idx.stack]
    BY <1>1, <1>3, <2>3, <2>4
  <2>7. ASSUME NEW type \in Types, NEW j \in Nat, j < Len(t.decl[type]),
               begin[type] + j < array.nelts
        PROVE  array.at[begin[type] + j] = Ref(t.decl[type][j + 1])
    <3>1. begin[type] + j \in Nat /\ begin[type] + j < whole.nelts /\ begin[type] + j # L.idx.ctx
      BY <1>1, <1>3, <1>4, <2>2, <2>3, <2>7, SMTT(30) DEF Types
    <3>2. whole.at[begin[type] + j] = Ref(t.decl[type][j + 1])
      BY <1>2, <2>7, <3>1, Zenon DEF Readable, begin
    <3> QED
      BY <2>4, <3>1, <3>2
  <2>8. array.nelts <= begin["ctx"] + c
    BY <1>2, <2>2, <2>3
  <2> QED
    BY <1>2, <1>7, <2>2, <2>3, <2>5, <2>6, <2>7, <2>8 DEF Readable, begin, c
<1> QED
  BY <1>5, <1>6, <1>7

(* One with nothing wrong can be loaded.                                   *)
LEMMA WholeLoads ==
    ASSUME NEW L \in Layouts, NEW t \in Targets
    PROVE  ScopeInfoLoads(Damaged(ScopeInfo(L, t.decl), L, "none"), L)
<1> DEFINE whole == ScopeInfo(L, t.decl)
<1>1. /\ t.decl \in Declared /\ L.first \in Nat
      /\ Len(t.decl.params) \in Nat /\ Len(t.decl.stack) \in Nat /\ Len(Gap(L)) \in Nat
      /\ Len(t.decl.ctx) \in Nat
  BY TargetFits, Zenon
<1>2. /\ Readable(whole, L, t.decl) /\ whole.at[L.idx.ctx] = Smi(Len(t.decl.ctx))
      /\ whole.nelts = Begins(L, t.decl)["ctx"] + Len(t.decl.ctx)
  BY <1>1, ScopeInfoIs
<1>3. Damaged(ScopeInfo(L, t.decl), L, "none") = whole
  BY DEF Damaged
<1> HIDE DEF whole
<1>4. whole.ok /\ whole.nelts >= L.first
  <2>1. Begins(L, t.decl)["ctx"] \in Nat /\ L.first <= Begins(L, t.decl)["ctx"]
    BY BeginsAre
  <2> QED
    BY <1>1, <1>2, <2>1 DEF Readable
<1>5. whole.at[L.idx.params].smi /\ whole.at[L.idx.stack].smi /\ whole.at[L.idx.ctx].smi
  BY <1>1, <1>2, SmiIs DEF Readable
<1>6. DOMAIN L.idx = {"params", "stack", "ctx"}
  <2>1. L.idx \in [params : Nat, stack : Nat, ctx : Nat]
    BY ClosuresAssumption DEF Layout
  <2> QED
    BY <2>1
<1>7. /\ whole.at[L.idx["params"]].smi /\ whole.at[L.idx["stack"]].smi
      /\ whole.at[L.idx["ctx"]].smi
  BY <1>5
<1>8. \A i \in DOMAIN L.idx : whole.at[L.idx[i]].smi
  BY <1>6, <1>7
<1> QED
  BY <1>3, <1>4, <1>8 DEF ScopeInfoLoads

LEMMA FirstStop ==
    ASSUME NEW n \in Nat, NEW T, n \in T
    PROVE  \E k \in 0..n : k \in T /\ \A j \in 0..(k - 1) : j \notin T
<1> DEFINE U == {k \in 0..n : k \in T}
<1>1. U \subseteq Nat /\ U # {}
  OBVIOUS
<1>2. PICK k \in U : \A j \in U : k <= j
  BY <1>1, Least
<1>3. ASSUME NEW j \in 0..(k - 1), j \in T PROVE FALSE
  <2>1. j \in 0..n /\ ~(k <= j)
    BY <1>2
  <2> QED
    BY <1>2, <1>3, <2>1
<1> QED
  BY <1>2, <1>3

LEMMA VariableIs ==
    ASSUME NEW L \in Layouts, NEW t \in Targets, NEW array, Readable(array, L, t.decl),
           NEW type \in Types, NEW j \in Nat, j <= Len(t.decl[type])
    PROVE  Variable(array, L, type, j) = Begins(L, t.decl)[type] + j
<1> DEFINE b == Begins(L, t.decl)[type]
<1>1. Skip(array, L, type) = b
  BY SkipIs
<1>2. b \in Nat /\ b + j < Word /\ Word \in Nat
  <2> DEFINE begin == Begins(L, t.decl)
  <2>1. /\ begin["params"] \in Nat /\ begin["stack"] \in Nat /\ begin["ctx"] \in Nat
        /\ begin["params"] + Len(t.decl.params) <= begin["stack"]
        /\ begin["stack"] + Len(t.decl.stack) <= begin["ctx"]
        /\ begin["ctx"] + Len(t.decl.ctx) + 1 < Word
    BY BeginsAre, Zenon
  <2>2. Word \in Nat /\ Len(t.decl.params) \in Nat /\ Len(t.decl.stack) \in Nat
        /\ Len(t.decl.ctx) \in Nat
    BY TargetFits, Zenon
  <2> DEFINE b1 == begin["params"]
             b2 == begin["stack"]
             b3 == begin["ctx"]
             p == Len(t.decl.params)
             s == Len(t.decl.stack)
             c == Len(t.decl.ctx)
  <2>3. (type = "params" /\ j <= p) \/ (type = "stack" /\ j <= s) \/ (type = "ctx" /\ j <= c)
    BY DEF Types
  <2> HIDE DEF begin, b1, b2, b3, p, s, c
  <2>4. /\ b1 \in Nat /\ b2 \in Nat /\ b3 \in Nat /\ p \in Nat /\ s \in Nat /\ c \in Nat
        /\ b1 + p <= b2 /\ b2 + s <= b3 /\ b3 + c + 1 < Word /\ Word \in Nat
    BY <2>1, <2>2, Zenon DEF b1, b2, b3, p, s, c
  <2>5. /\ j <= p => b1 + j < Word
        /\ j <= s => b2 + j < Word
        /\ j <= c => b3 + j < Word
    BY <2>4
  <2>6. begin[type] \in Nat /\ begin[type] + j < Word
    BY <2>3, <2>4, <2>5, Zenon DEF b1, b2, b3
  <2> QED
    BY <2>2, <2>6 DEF begin
<1> HIDE DEF b
<1>3. b + j \in Nat
  BY <1>2
<1>4. (b + j) % Word = b + j
  BY <1>2, <1>3, Modulo
<1> QED
  BY <1>1, <1>4 DEF Variable, b

(* Two sequences, whatever is in them, and the one that joins them.        *)
Listed(s, n) == s = [i \in 1..n |-> s[i]]
Join(s, t) == s \o t

LEMMA AnyJoined ==
    ASSUME NEW m \in Nat, NEW n \in Nat, NEW s, NEW t, Listed(s, m), Listed(t, n)
    PROVE  /\ Len(Join(s, t)) = m + n /\ Listed(Join(s, t), m + n)
           /\ \A i \in 1..m : Join(s, t)[i] = s[i]
           /\ \A i \in 1..n : Join(s, t)[m + i] = t[i]
<1> DEFINE st == Join(s, t)
<1>0. st = s \o t
  BY DEF Join
<1> HIDE DEF st
<1> DEFINE X == {s[i] : i \in 1..m} \cup {t[i] : i \in 1..n}
<1>1. s \in Seq(X) /\ t \in Seq(X) /\ Len(s) = m /\ Len(t) = n
  <2>1. s \in [1..m -> X] /\ t \in [1..n -> X]
    BY DEF Listed
  <2> HIDE DEF X
  <2> QED
    BY <2>1
<1> HIDE DEF X
<1>2. /\ st \in Seq(X) /\ Len(st) = Len(s) + Len(t)
      /\ \A i \in 1..Len(s) : st[i] = s[i]
      /\ \A i \in 1..Len(t) : st[Len(s) + i] = t[i]
  <2>1. s \in Seq(X) /\ t \in Seq(X)
    BY <1>1
  <2> QED
    BY <1>0, <2>1, Joined
<1>3. Len(st) = m + n
  BY <1>1, <1>2
<1>4. Listed(st, m + n)
  <2>1. st \in Seq(X) /\ Len(st) = m + n
    BY <1>2, <1>3
  <2> QED
    BY <2>1 DEF Listed
<1>5. /\ \A i \in 1..m : st[i] = s[i]
      /\ \A i \in 1..n : st[m + i] = t[i]
  BY <1>1, <1>2
<1> QED
  BY <1>3, <1>4, <1>5, Zenon DEF st

LEMMA FirstSaid ==
    ASSUME NEW n \in Nat, NEW t, Listed(t, n)
    PROVE  <<>> \o t = t
<1> DEFINE X == {t[i] : i \in 1..n}
<1>1. t \in [1..n -> X]
  BY DEF Listed
<1> HIDE DEF X
<1>2. t \in Seq(X)
  BY <1>1
<1> QED
  BY <1>2

(* A Context as V8 writes it, and what is left of one that is cut short.   *)
LEMMA ContextIs ==
    ASSUME NEW L, NEW values \in Seq(STRING), NEW damage \in {"none", "gone", "cut", "tiny"},
           NEW context, context = Damaged(Context(values), L, damage)
    PROVE  /\ ContextLoads(context) =>
                 /\ context.nelts \in Nat
                 /\ \A i \in Nat : HasValue(context, i) =>
                       i < Len(values) /\ Value(context, i) = Ref(values[i + 1])
           /\ damage = "none" => ContextLoads(context) /\ context.nelts = 4 + Len(values)
<1> DEFINE head == <<Ref("closure"), Ref("previous"), Ref("extension"), Ref("native")>>
           all == head \o Names(values)
           whole == Context(values)
           len == Len(values)
<1>1. len \in Nat
  OBVIOUS
<1>2. Listed(head, 4)
  BY DEF Listed
<1>3. Listed(Names(values), len) /\ \A i \in 1..len : Names(values)[i] = Ref(values[i])
  BY DEF Names, Listed
<1>4. whole = Array(all)
  BY DEF Context
<1> HIDE DEF head, whole
<1>5. all = head \o Names(values)
  OBVIOUS
<1> HIDE DEF all
<1>6. /\ Len(all) = 4 + len
      /\ \A i \in 1..len : all[4 + i] = Names(values)[i]
  <2> HIDE DEF len
  <2> DEFINE m == 4
             names == Names(values)
  <2>1. m \in Nat /\ Listed(head, m) /\ Listed(names, len) /\ all = Join(head, names)
    BY <1>2, <1>3, <1>5 DEF Join
  <2> HIDE DEF m, names
  <2>2. Len(all) = m + len /\ \A i \in 1..len : all[m + i] = names[i]
    BY <1>1, <2>1, AnyJoined
  <2> QED
    BY <2>2 DEF m, names
<1>7. /\ whole.ok /\ whole.nelts = 4 + len
      /\ \A i \in 0..(4 + len - 1) : whole.at[i] = all[i + 1]
  BY <1>4, <1>6 DEF Array
<1> HIDE DEF len
<1>8. ASSUME NEW i \in Nat, i + 4 < 4 + len
      PROVE  i < len /\ i + 4 \in 0..(4 + len - 1) /\ whole.at[i + 4] = Ref(values[i + 1])
  <2>1. i < len /\ i + 4 \in 0..(4 + len - 1) /\ i + 1 \in 1..len /\ (i + 4) + 1 = 4 + (i + 1)
    BY <1>1, <1>8
  <2> QED
    BY <2>1, <1>3, <1>6, <1>7
<1>9. CASE damage = "none"
  <2>1. context = whole
    BY <1>9 DEF Damaged, whole
  <2>2. /\ context.nelts = 4 + len /\ context.nelts \in Nat
        /\ ContextLoads(context)
    BY <1>1, <1>7, <2>1 DEF ContextLoads, Common
  <2>3. ASSUME NEW i \in Nat, HasValue(context, i)
        PROVE  i < len /\ Value(context, i) = Ref(values[i + 1])
    <3>1. i + 4 < 4 + len
      BY <2>2, <2>3 DEF HasValue, Common
    <3>2. i < len /\ whole.at[i + 4] = Ref(values[i + 1])
      BY <3>1, <1>8
    <3> QED
      BY <3>2, <2>1 DEF Value, Common
  <2> QED
    BY <2>2, <2>3 DEF len
<1>10. CASE damage = "gone"
  BY <1>10 DEF Damaged, NoArray, ContextLoads
<1>11. ASSUME NEW k \in Nat, context = Cut(whole, k), ContextLoads(context)
       PROVE  /\ context.nelts \in Nat
              /\ \A i \in Nat : HasValue(context, i) =>
                    i < len /\ Value(context, i) = Ref(values[i + 1])
  <2>1. /\ context.nelts = 4 + len - k
        /\ \A i \in 0..(4 + len - k - 1) : context.at[i] = whole.at[i]
    <3>1. context.nelts = whole.nelts - k /\ whole.nelts = 4 + len
      BY <1>7, <1>11 DEF Cut
    <3>2. \A i \in 0..(whole.nelts - k - 1) : context.at[i] = whole.at[i]
      BY <1>11 DEF Cut
    <3>3. context.nelts = 4 + len - k
      BY <1>1, <3>1
    <3>4. whole.nelts - k - 1 = 4 + len - k - 1
      BY <1>1, <3>1
    <3> QED
      BY <3>2, <3>3, <3>4
  <2>2. context.nelts \in Nat
    BY <1>1, <1>11, <2>1 DEF ContextLoads, Common
  <2>3. ASSUME NEW i \in Nat, HasValue(context, i)
        PROVE  i < len /\ Value(context, i) = Ref(values[i + 1])
    <3>1. i + 4 < 4 + len /\ i + 4 \in 0..(4 + len - k - 1)
      BY <1>1, <2>1, <2>3 DEF HasValue, Common
    <3> QED
      BY <3>1, <2>1, <1>8 DEF Value, Common
  <2> QED
    BY <2>2, <2>3
<1>12. CASE damage = "cut"
  <2>1. context = Cut(whole, 1)
    BY <1>12 DEF Damaged, whole
  <2> QED
    BY <1>11, <1>12, <2>1 DEF len
<1>13. CASE damage = "tiny"
  <2>1. context = Cut(whole, whole.nelts - 2)
    BY <1>13 DEF Damaged, whole
  <2>2. whole.nelts - 2 \in Nat
    BY <1>1, <1>7
  <2> QED
    BY <1>11, <1>13, <2>1, <2>2 DEF len
<1> QED
  BY <1>9, <1>10, <1>12, <1>13
-----------------------------------------------------------------------------
(***************************************************************************)
(* What the commands on functions print.                                   *)
(***************************************************************************)

LEMMA CountOfContext ==
    ASSUME NEW L \in Layouts, NEW t \in Targets, NEW array, Readable(array, L, t.decl)
    PROVE  /\ NVars(array, L, "ctx") \in {Len(t.decl.ctx), Len(t.decl.ctx) + 1}
           /\ array.at[L.idx.ctx] = Smi(Len(t.decl.ctx)) =>
                 NVars(array, L, "ctx") = Len(t.decl.ctx)
<1> DEFINE c == Len(t.decl.ctx)
           k == array.at[L.idx.ctx].n
<1>1. c \in Nat
  BY TargetFits, Zenon
<1>2. Smis \in Nat /\ c < Smis /\ c + 1 < Smis
  BY CountsFit, Zenon
<1>3. k = c \/ k = c + 1
  BY <1>1, SmiIs DEF Readable
<1>4. array.at[L.idx.ctx] = Smi(c) => k = c
  BY <1>1, SmiIs
<1>5. NVars(array, L, "ctx") = k % Smis
  BY DEF NVars
<1> HIDE DEF c, k
<1>6. c % Smis = c /\ (c + 1) % Smis = c + 1
  <2>1. c \in Nat /\ c + 1 \in Nat /\ Smis \in Nat /\ c < Smis /\ c + 1 < Smis
    BY <1>1, <1>2
  <2> QED
    BY <2>1, Modulo
<1>7. k % Smis \in {c, c + 1} /\ (k = c => k % Smis = c)
  BY <1>3, <1>6
<1> QED
  BY <1>4, <1>5, <1>7 DEF c

(* ::jsclosure pairs the variables that it gets to with their values.      *)
LEMMA ClosurePrints ==
    ASSUME NEW L \in Layouts, NEW t \in Targets, cmd.layout = L, target = t,
           t.scope \in {"none", "cut", "many"},
           ScopeInfoLoads(ScopeArray(t.decl), L), ContextLoads(ContextArray)
    PROVE  LET vars_ == VarsOf(ScopeArray(t.decl), L, "ctx", jsclosure_iter_var)
           IN /\ vars_.n \in Nat /\ vars_.n <= Len(t.decl.ctx)
              /\ \A i \in 1..vars_.n : /\ vars_.name[i] = Ref(t.decl.ctx[i])
                                       /\ Value(ContextArray, i - 1) = Ref(t.values[i])
              /\ vars_.rv = 0 => vars_.n = Len(t.decl.ctx)
              /\ /\ t.scope = "none" /\ t.context = "none" /\ "unprintable" \notin Range(t.values)
                 => vars_.rv = 0
<1> DEFINE array == ScopeArray(t.decl)
           begin == Begins(L, t.decl)["ctx"]
           c == Len(t.decl.ctx)
           nvars == NVars(array, L, "ctx")
           Var(i) == Variable(array, L, "ctx", i)
           Stops(i) == \/ i = nvars
                       \/ Var(i) >= array.nelts
                       \/ ~jsclosure_iter_var(array.at[Var(i)], i)
           n == CHOOSE k \in 0..nvars : Stops(k) /\ \A j \in 0..(k - 1) : ~Stops(j)
<1>1. VarsOf(ScopeArray(t.decl), L, "ctx", jsclosure_iter_var)
         = [n |-> n, rv |-> IF n = nvars THEN 0 ELSE -1,
            name |-> [i \in 1..n |-> array.at[Var(i - 1)]]]
  BY DEF VarsOf
<1>2. /\ Readable(array, L, t.decl)
      /\ t.scope = "none" => /\ array.nelts = begin + c
                             /\ array.at[L.idx.ctx] = Smi(c)
  BY DamagedReadable DEF ScopeArray
<1>3. /\ nvars \in {c, c + 1} /\ (t.scope = "none" => nvars = c)
      /\ c \in Nat /\ begin \in Nat
      /\ array.nelts \in Nat /\ array.nelts <= begin + c
  BY <1>2, CountOfContext, TargetFits, BeginsAre DEF Readable
<1>4. \A i \in Nat : i <= c => Var(i) = begin + i
  BY <1>2, VariableIs DEF Types
<1>5. \A i \in Nat : i < c /\ begin + i < array.nelts => array.at[begin + i] = Ref(t.decl.ctx[i + 1])
  BY <1>2 DEF Readable, Types
<1>6. t \in Target /\ Len(t.values) = c
  BY ClosuresAssumption
<1>7. /\ ContextArray = Damaged(Context(t.values), L, t.context)
      /\ t.context \in {"none", "gone", "cut", "tiny"} /\ t.values \in Seq(STRING)
  BY <1>6 DEF ContextArray, Target
<1>8. /\ \A i \in Nat : HasValue(ContextArray, i) =>
            i < c /\ Value(ContextArray, i) = Ref(t.values[i + 1])
      /\ t.context = "none" => ContextArray.nelts = 4 + c
  BY <1>6, <1>7, ContextIs
<1> HIDE DEF array, begin, c, nvars, Var
<1>9. Stops(c)
  BY <1>3, <1>4
<1>10. n \in 0..nvars /\ Stops(n) /\ \A j \in 0..(n - 1) : ~Stops(j)
  <2>1. nvars \in Nat
    BY <1>3
  <2> DEFINE T == {i \in 0..nvars : Stops(i)}
  <2>2. nvars \in T
    BY <2>1
  <2>3. \E k \in 0..nvars : k \in T /\ \A j \in 0..(k - 1) : j \notin T
    BY <2>1, <2>2, FirstStop
  <2>4. \E k \in 0..nvars : Stops(k) /\ \A j \in 0..(k - 1) : ~Stops(j)
    <3>1. PICK k \in 0..nvars : k \in T /\ \A j \in 0..(k - 1) : j \notin T
      BY <2>3
    <3>2. \A j \in 0..(k - 1) : j \in 0..nvars
      BY <2>1
    <3> HIDE DEF Stops
    <3> QED
      BY <3>1, <3>2
  <2> HIDE DEF Stops
  <2> QED
    BY <2>4
<1> HIDE DEF n
<1>11. n \in Nat /\ n <= c
  BY <1>3, <1>9, <1>10
<1>12. ASSUME NEW i \in 1..n
       PROVE  /\ array.at[Var(i - 1)] = Ref(t.decl.ctx[i])
              /\ Value(ContextArray, i - 1) = Ref(t.values[i])
  <2>1. i - 1 \in Nat /\ i - 1 \in 0..(n - 1) /\ i - 1 < c /\ i - 1 <= c /\ (i - 1) + 1 = i
    BY <1>3, <1>11
  <2>2. ~Stops(i - 1)
    BY <1>10, <2>1
  <2>3. Var(i - 1) = begin + (i - 1)
    BY <1>4, <2>1
  <2>4. ~(Var(i - 1) >= array.nelts) /\ HasValue(ContextArray, i - 1)
    BY <2>2 DEF jsclosure_iter_var
  <2>5. begin + (i - 1) < array.nelts
    BY <1>3, <2>1, <2>3, <2>4
  <2>6. array.at[begin + (i - 1)] = Ref(t.decl.ctx[(i - 1) + 1])
    BY <1>5, <2>1, <2>5
  <2>7. Value(ContextArray, i - 1) = Ref(t.values[(i - 1) + 1])
    BY <1>8, <2>1, <2>4
  <2> QED
    BY <2>1, <2>3, <2>6, <2>7
<1>13. n = nvars => n = c
  BY <1>3, <1>11
<1>14. ASSUME t.scope = "none", t.context = "none", "unprintable" \notin Range(t.values)
       PROVE  n = nvars
  <2> SUFFICES ASSUME n # nvars PROVE FALSE
    OBVIOUS
  <2>1. n < c /\ nvars = c /\ n <= c
    BY <1>3, <1>11, <1>14
  <2>2. Var(n) = begin + n /\ begin + n < array.nelts
    BY <1>2, <1>3, <1>4, <1>11, <1>14, <2>1 DEF c, begin
  <2>3. ~(Var(n) >= array.nelts)
    BY <1>3, <1>11, <2>2
  <2>4. array.at[Var(n)] = Ref(t.decl.ctx[n + 1])
    BY <1>5, <1>11, <2>1, <2>2
  <2>5. HasValue(ContextArray, n)
    BY <1>3, <1>8, <1>11, <1>14, <2>1 DEF HasValue, Common
  <2>6. Value(ContextArray, n) = Ref(t.values[n + 1])
    BY <1>8, <1>11, <2>5
  <2>7. n + 1 \in DOMAIN t.values
    BY <1>6, <1>7, <1>11, <2>1
  <2>8. t.values[n + 1] # "unprintable"
    BY <1>14, <2>7 DEF Range
  <2>9. jsclosure_iter_var(array.at[Var(n)], n)
    BY <2>4, <2>5, <2>6, <2>8, RefIs DEF jsclosure_iter_var
  <2> QED
    BY <1>10, <2>3, <2>9
<1> DEFINE v == VarsOf(ScopeArray(t.decl), L, "ctx", jsclosure_iter_var)
<1>15. /\ v.n = n /\ (v.rv = 0 <=> n = nvars)
       /\ v.name = [i \in 1..n |-> array.at[Var(i - 1)]]
  <2> DEFINE names == [i \in 1..n |-> array.at[Var(i - 1)]]
             rv == IF n = nvars THEN 0 ELSE -1
  <2>1. v = [n |-> n, rv |-> rv, name |-> names]
    BY <1>1, Zenon
  <2>2. rv = 0 <=> n = nvars
    OBVIOUS
  <2> HIDE DEF v, rv, names
  <2>3. v.n = n /\ v.rv = rv /\ v.name = names
    BY <2>1
  <2> QED
    BY <2>2, <2>3, Zenon DEF names
<1> HIDE DEF v
<1>16. \A i \in 1..n : v.name[i] = Ref(t.decl.ctx[i])
  BY <1>12, <1>15
<1> QED
  BY <1>11, <1>12, <1>13, <1>14, <1>15, <1>16, Zenon DEF v, c

(* ::v8scopeinfo gets to every variable of each type.                      *)
LEMMA InfoReads ==
    ASSUME NEW L \in Layouts, NEW t \in Targets, NEW array, Readable(array, L, t.decl),
           array.nelts = Begins(L, t.decl)["ctx"] + Len(t.decl.ctx),
           array.at[L.idx.ctx] = Smi(Len(t.decl.ctx)), NEW type \in Types
    PROVE  LET vars_ == VarsOf(array, L, type, LAMBDA name, i : TRUE)
               c == Len(t.decl[type])
           IN /\ c \in Nat /\ vars_.n = c /\ vars_.rv = 0 /\ NVars(array, L, type) = c
              /\ \A i \in 1..c : vars_.name[i] = Ref(t.decl[type][i])
<1> DEFINE begin == Begins(L, t.decl)[type]
           c == Len(t.decl[type])
           nvars == NVars(array, L, type)
           Var(i) == Variable(array, L, type, i)
           Stops(i) == \/ i = nvars
                       \/ Var(i) >= array.nelts
                       \/ ~TRUE
           n == CHOOSE k \in 0..nvars : Stops(k) /\ \A j \in 0..(k - 1) : ~Stops(j)
<1>1. VarsOf(array, L, type, LAMBDA name, i : TRUE)
         = [n |-> n, rv |-> IF n = nvars THEN 0 ELSE -1,
            name |-> [i \in 1..n |-> array.at[Var(i - 1)]]]
  BY DEF VarsOf
<1>2. c \in Nat /\ begin \in Nat /\ begin + c <= array.nelts /\ c < Word /\ Word \in Nat
  <2> DEFINE b1 == Begins(L, t.decl)["params"]
             b2 == Begins(L, t.decl)["stack"]
             b3 == Begins(L, t.decl)["ctx"]
             p == Len(t.decl.params)
             s == Len(t.decl.stack)
             k == Len(t.decl.ctx)
  <2>1. /\ b1 \in Nat /\ b2 \in Nat /\ b3 \in Nat
        /\ b1 + p <= b2 /\ b2 + s <= b3 /\ b3 + k + 1 < Word
    BY BeginsAre, Zenon
  <2>2. p \in Nat /\ s \in Nat /\ k \in Nat /\ Word \in Nat
    BY TargetFits, Zenon
  <2>3. \/ begin = b1 /\ c = p
        \/ begin = b2 /\ c = s
        \/ begin = b3 /\ c = k
    BY DEF Types
  <2>4. array.nelts = b3 + k
    OBVIOUS
  <2> HIDE DEF b1, b2, b3, p, s, k, begin, c
  <2>5. /\ b1 + p <= b3 + k /\ b2 + s <= b3 + k /\ b3 + k <= b3 + k
        /\ p < Word /\ s < Word /\ k < Word
    BY <2>1, <2>2
  <2> QED
    BY <2>1, <2>2, <2>3, <2>4, <2>5, Zenon
<1>3. nvars = c
  <2> DEFINE count == array.at[L.idx[type]].n
  <2>1. count = c
    <3>1. /\ array.at[L.idx["params"]] = Smi(Len(t.decl["params"]))
          /\ array.at[L.idx["stack"]] = Smi(Len(t.decl["stack"]))
          /\ array.at[L.idx["ctx"]] = Smi(Len(t.decl["ctx"]))
      BY DEF Readable
    <3>2. array.at[L.idx[type]] = Smi(c)
      BY <3>1 DEF Types
    <3> QED
      BY <1>2, <3>2, SmiIs
  <2>2. nvars = count % Smis
    BY DEF NVars
  <2>3. c < Smis /\ Smis \in Nat
    BY CountsFit DEF Types
  <2> HIDE DEF count, nvars, c
  <2>4. c % Smis = c
    BY <1>2, <2>3, Modulo
  <2> QED
    BY <2>1, <2>2, <2>4
<1>4. \A i \in Nat : i < c => Var(i) = begin + i
  <2> SUFFICES ASSUME NEW i \in Nat, i < c PROVE Var(i) = begin + i
    OBVIOUS
  <2>1. i <= Len(t.decl[type])
    BY <1>2
  <2> QED
    BY <2>1, VariableIs
<1>5. \A i \in Nat : i < c /\ begin + i < array.nelts =>
         array.at[begin + i] = Ref(t.decl[type][i + 1])
  BY DEF Readable
<1> DEFINE numelts == array.nelts
<1>6. numelts \in Nat /\ begin + c <= numelts
  BY <1>2 DEF Readable
<1> HIDE DEF begin, c, nvars, Var, numelts
<1>7. \A i \in Nat : i < c => begin + i < numelts /\ ~(begin + i >= numelts)
  BY <1>2, <1>6
<1>8. ASSUME NEW i \in Nat, i < c
      PROVE  ~Stops(i) /\ array.at[Var(i)] = Ref(t.decl[type][i + 1])
  <2>1. Var(i) = begin + i /\ begin + i < numelts /\ ~(Var(i) >= numelts)
    BY <1>4, <1>7, <1>8
  <2>2. i # nvars
    BY <1>2, <1>3, <1>8
  <2> QED
    BY <1>5, <1>8, <2>1, <2>2 DEF numelts
<1>9. n = c
  <2>1. Stops(c) /\ c \in 0..nvars
    BY <1>2, <1>3
  <2>2. \A j \in 0..(c - 1) : ~Stops(j)
    BY <1>2, <1>8
  <2> HIDE DEF Stops
  <2>3. n \in 0..nvars /\ Stops(n) /\ \A j \in 0..(n - 1) : ~Stops(j)
    BY <2>1, <2>2
  <2> HIDE DEF n
  <2>4. ~(n < c)
    BY <1>2, <1>3, <2>2, <2>3
  <2> QED
    BY <1>2, <1>3, <2>3, <2>4
<1> HIDE DEF n
<1>10. \A i \in 1..c : array.at[Var(i - 1)] = Ref(t.decl[type][i])
  <2> SUFFICES ASSUME NEW i \in 1..c PROVE array.at[Var(i - 1)] = Ref(t.decl[type][i])
    OBVIOUS
  <2>1. i - 1 \in Nat /\ i - 1 < c /\ (i - 1) + 1 = i
    BY <1>2
  <2>2. array.at[Var(i - 1)] = Ref(t.decl[type][(i - 1) + 1])
    BY <1>8, <2>1
  <2> QED
    BY <2>1, <2>2
<1> DEFINE v == VarsOf(array, L, type, LAMBDA name, i : TRUE)
           names == [i \in 1..n |-> array.at[Var(i - 1)]]
           rv == IF n = nvars THEN 0 ELSE -1
<1>11. v = [n |-> n, rv |-> rv, name |-> names]
  BY <1>1, Zenon
<1>12. rv = 0
  BY <1>3, <1>9
<1>13. \A i \in 1..c : names[i] = Ref(t.decl[type][i])
  BY <1>9, <1>10
<1> HIDE DEF v, rv, names
<1>14. v.n = n /\ v.rv = rv /\ v.name = names
  BY <1>11
<1> QED
  BY <1>2, <1>3, <1>9, <1>12, <1>13, <1>14, Zenon DEF v, c, nvars

LEMMA ListingIs ==
    ASSUME NEW names \in Seq(STRING), NEW type
    PROVE  Listed(Listing(type, names), 1 + Len(names))
<1> DEFINE head == <<<<type, Len(names)>>>>
           rest == [i \in DOMAIN names |-> <<Ref(names[i]), i - 1>>]
           m == 1
           n == Len(names)
<1>1. m \in Nat /\ n \in Nat /\ DOMAIN names = 1..n
  OBVIOUS
<1>2. Listed(head, m)
  BY DEF Listed
<1>3. Listed(rest, n)
  BY <1>1 DEF Listed
<1>4. Listing(type, names) = Join(head, rest)
  BY DEF Listing, Join
<1> HIDE DEF head, rest, m, n
<1>5. Listed(Join(head, rest), m + n)
  BY <1>1, <1>2, <1>3, AnyJoined
<1> QED
  BY <1>4, <1>5 DEF m, n

LEMMA InfoPrints ==
    ASSUME InFunction, cmd.name = "v8scopeinfo", target.scope = "none",
           do_v8scopeinfo_vartype_print
    PROVE  /\ doing \in Types
           /\ out' = out \o Listing(doing, target.decl[doing])
           /\ doing # "ctx" => doing' = After(doing) /\ UNCHANGED result
           /\ doing = "ctx" => doing' = "idle" /\ result' = "ok"
<1> DEFINE L == cmd.layout
           array == ScopeArray(target.decl)
           v == VarsOf(array, L, doing, LAMBDA name, i : TRUE)
           c == Len(target.decl[doing])
<1>1. L \in Layouts /\ target \in Targets
  BY DEF InFunction, FunctionCommand, target
<1>2. doing \in Types
  BY RangeOfVarTypes DEF do_v8scopeinfo_vartype_print, Types
<1>3. array = Damaged(ScopeInfo(L, target.decl), L, "none")
  BY DEF ScopeArray
<1>4. /\ Readable(array, L, target.decl)
      /\ array.nelts = Begins(L, target.decl)["ctx"] + Len(target.decl.ctx)
      /\ array.at[L.idx.ctx] = Smi(Len(target.decl.ctx))
  <2>1. ScopeInfoLoads(array, L)
    BY <1>1, <1>3, WholeLoads
  <2> QED
    BY <1>1, <1>3, <2>1, DamagedReadable
<1>5. /\ c \in Nat /\ v.n = c /\ v.rv = 0 /\ NVars(array, L, doing) = c
      /\ \A i \in 1..c : v.name[i] = Ref(target.decl[doing][i])
  <2> HIDE DEF array, L
  <2> QED
    BY <1>1, <1>2, <1>4, InfoReads
<1>6. /\ out' = out \o (<<<<doing, NVars(array, L, doing)>>>>
                          \o [i \in 1..v.n |-> <<v.name[i], i - 1>>])
      /\ IF v.rv # 0 \/ After(doing) = "return"
            THEN Return(IF v.rv = 0 THEN "ok" ELSE "error")
            ELSE Goto(After(doing)) /\ UNCHANGED held
  BY DEF do_v8scopeinfo_vartype_print, Say
<1>7. DOMAIN target.decl[doing] = 1..c
  <2>1. target.decl \in Declared
    BY <1>1, ClosuresAssumption DEF Target
  <2>2. target.decl[doing] \in Seq(STRING)
    BY <1>2, <2>1 DEF Declared, Types
  <2> QED
    BY <2>2
<1> HIDE DEF v, array, L, c
<1>8. [i \in 1..v.n |-> <<v.name[i], i - 1>>]
         = [i \in DOMAIN target.decl[doing] |-> <<Ref(target.decl[doing][i]), i - 1>>]
  BY <1>5, <1>7
<1>9. out' = out \o Listing(doing, target.decl[doing])
  BY <1>5, <1>6, <1>8 DEF Listing, c
<1>10. After(doing) = "return" <=> doing = "ctx"
  BY <1>2, AfterInScopeInfo DEF Types
<1> QED
  BY <1>2, <1>5, <1>6, <1>9, <1>10 DEF Return, Goto

(* What the four commands have printed and returned, at each place.        *)
ClosureShown ==
    target.scope \in {"none", "cut", "many"} =>
       /\ IsPrefixOf(out, Pairs(target))
       /\ result = "ok" => out = Pairs(target)
       /\ /\ target.scope = "none" /\ target.context = "none" /\ target.lost = {}
          /\ target.kind = "JSFunction" /\ "unprintable" \notin Range(target.values)
          => result = "ok"

ClosureInv ==
    cmd.name = "jsclosure" =>
       /\ doing # "idle" => out = <<>>
       /\ doing \in {"context_scopeinfo", "closure_vars"} => ContextLoads(ContextArray)
       /\ doing = "closure_vars" => ScopeInfoLoads(ScopeArray(target.decl), cmd.layout)
       /\ doing = "idle" => ClosureShown

InfoListed ==
    CASE doing \in {"scopeinfo", "params"} -> <<>>
      [] doing = "stack" -> Listing("params", target.decl.params)
      [] doing = "ctx" -> Listing("params", target.decl.params)
                            \o Listing("stack", target.decl.stack)
      [] OTHER -> Listing("params", target.decl.params) \o Listing("stack", target.decl.stack)
                     \o Listing("ctx", target.decl.ctx)

InfoInv ==
    cmd.name = "v8scopeinfo" /\ target.scope = "none" =>
       /\ out = InfoListed
       /\ doing = "idle" => result = "ok"

IsBound ==
    /\ target.bound # NULL /\ target.bindings = "none" /\ target.lost = {}
    /\ cmd.layout.bound <=> target.kind = "JSBoundFunction"

BoundInv ==
    cmd.name = "jsfunction" /\ IsBound =>
       \/ doing = "bound" /\ out = <<>>
       \/ /\ doing = "idle" /\ result = "ok"
          /\ out = <<Ref(target.bound.target), Ref(target.bound.this)>> \o Names(target.bound.args)

ContextShown ==
    /\ [i \in DOMAIN out |-> out[i][2]] = [i \in DOMAIN out |-> ContextArray.at[i - 1]]
    /\ Len(out) = ContextArray.nelts

ContextInv ==
    cmd.name = "v8context" /\ target.context = "none" =>
       /\ doing # "idle" => out = <<>>
       /\ doing = "idle" => result = "ok" /\ ContextShown

ShownInv == ClosureInv /\ InfoInv /\ BoundInv /\ ContextInv

VarsInv == cmd # NULL /\ InFunction => ShownInv

LEMMA CommandIs ==
    ASSUME InFunction
    PROVE  /\ cmd.layout \in Layouts /\ target \in Targets /\ target \in Target
           /\ cmd.layout.bound \/ target.kind # "JSBoundFunction"
           /\ cmd.name \in FunctionNames
           /\ cmd.name \in {"jsclosure", "v8scopeinfo", "v8context"} => ~HasOut(cmd) /\ ~MayFail(cmd)
<1>1. cmd.layout \in Layouts /\ target \in Targets /\ cmd.name \in FunctionNames
      /\ (cmd.layout.bound \/ target.kind # "JSBoundFunction")
  BY NamesOfSteps DEF InFunction, FunctionCommand, target
<1>2. cmd.name \in {"jsclosure", "v8scopeinfo", "v8context"} => ~HasOut(cmd) /\ ~MayFail(cmd)
  BY <1>1, WhoHasOut DEF MayFail
<1> QED
  BY <1>1, <1>2, ClosuresAssumption

LEMMA PairsAre ==
    ASSUME NEW t \in Target, Len(t.values) = Len(t.decl.ctx)
    PROVE  /\ Len(t.decl.ctx) \in Nat /\ Pairs(t) \in Seq({Pairs(t)[i] : i \in DOMAIN t.decl.ctx})
           /\ Len(Pairs(t)) = Len(t.decl.ctx)
           /\ \A i \in 1..Len(t.decl.ctx) : Pairs(t)[i] = <<Ref(t.decl.ctx[i]), Ref(t.values[i])>>
<1>1. t.decl.ctx \in Seq(STRING)
  BY DEF Target, Declared
<1> DEFINE n == Len(t.decl.ctx)
           X == {Pairs(t)[i] : i \in DOMAIN t.decl.ctx}
<1>2. n \in Nat /\ DOMAIN t.decl.ctx = 1..n
  BY <1>1
<1>3. Pairs(t) = [i \in 1..n |-> <<Ref(t.decl.ctx[i]), Ref(t.values[i])>>]
  BY <1>2 DEF Pairs
<1>4. Pairs(t) \in [1..n -> X]
  BY <1>2, <1>3
<1> HIDE DEF X, n
<1>5. Pairs(t) \in Seq(X) /\ Len(Pairs(t)) = n
  BY <1>2, <1>4
<1> QED
  BY <1>2, <1>3, <1>5 DEF X, n

LEMMA PrefixIs ==
    ASSUME NEW X, NEW s \in Seq(X), NEW n \in Nat, n <= Len(s)
    PROVE  /\ IsPrefixOf([i \in 1..n |-> s[i]], s)
           /\ n = Len(s) => [i \in 1..n |-> s[i]] = s
<1> DEFINE t == [i \in 1..n |-> s[i]]
<1>1. Len(t) = n
  OBVIOUS
<1>2. SubSeq(s, 1, n) = t
  OBVIOUS
<1> QED
  BY <1>1, <1>2 DEF IsPrefixOf

LEMMA ClosureEnds ==
    ASSUME InFunction, ClosureInv, cmd.name = "jsclosure", jsclosure
    PROVE  ClosureInv'
<1> DEFINE L == cmd.layout
           t == target
           v == VarsOf(ScopeArray(t.decl), L, "ctx", jsclosure_iter_var)
           lines == [i \in 1..v.n |-> <<v.name[i], Value(ContextArray, i - 1)>>]
<1>1. /\ out' = out \o lines /\ doing' = "idle"
      /\ result' = IF v.rv = 0 THEN "ok" ELSE "error"
      /\ cmd' = cmd /\ doing = "closure_vars"
  BY DEF jsclosure, Say, Return, functionvars
<1>2. out = <<>> /\ ContextLoads(ContextArray) /\ ScopeInfoLoads(ScopeArray(t.decl), L)
  BY <1>1 DEF ClosureInv
<1>3. L \in Layouts /\ t \in Targets /\ t \in Target /\ Len(t.values) = Len(t.decl.ctx)
  BY CommandIs, ClosuresAssumption
<1> SUFFICES ASSUME t.scope \in {"none", "cut", "many"} PROVE ClosureShown'
  BY <1>1 DEF ClosureInv, ClosureShown, target
<1>4. /\ v.n \in Nat /\ v.n <= Len(t.decl.ctx)
      /\ \A i \in 1..v.n : /\ v.name[i] = Ref(t.decl.ctx[i])
                           /\ Value(ContextArray, i - 1) = Ref(t.values[i])
      /\ v.rv = 0 => v.n = Len(t.decl.ctx)
      /\ /\ t.scope = "none" /\ t.context = "none" /\ "unprintable" \notin Range(t.values)
         => v.rv = 0
  BY <1>2, <1>3, ClosurePrints
<1> DEFINE X == {Pairs(t)[i] : i \in DOMAIN t.decl.ctx}
<1>5. /\ Pairs(t) \in Seq(X) /\ Len(Pairs(t)) = Len(t.decl.ctx)
      /\ \A i \in 1..Len(t.decl.ctx) : Pairs(t)[i] = <<Ref(t.decl.ctx[i]), Ref(t.values[i])>>
      /\ Len(t.decl.ctx) \in Nat
  BY <1>3, PairsAre
<1>6. lines = [i \in 1..v.n |-> Pairs(t)[i]]
  <2>1. \A i \in 1..v.n : i \in 1..Len(t.decl.ctx)
    BY <1>4, <1>5
  <2> HIDE DEF v
  <2> QED
    BY <1>4, <1>5, <2>1
<1> HIDE DEF v, lines, X
<1>7. IsPrefixOf(lines, Pairs(t)) /\ (v.n = Len(Pairs(t)) => lines = Pairs(t))
  BY <1>4, <1>5, <1>6, PrefixIs
<1>8. out' = lines
  <2>1. Listed(lines, v.n)
    BY <1>6 DEF Listed
  <2>2. <<>> \o lines = lines
    BY <1>4, <2>1, FirstSaid
  <2> QED
    BY <1>1, <1>2, <2>2
<1>9. target' = t
  BY <1>1 DEF target
<1>10. (result' = "ok" <=> v.rv = 0)
  BY <1>1
<1> HIDE DEF t
<1> QED
  BY <1>4, <1>5, <1>7, <1>8, <1>9, <1>10 DEF ClosureShown, Pairs, IsPrefixOf

LEMMA ClosureKeeps ==
    ASSUME InFunction, ClosureInv, cmd.name = "jsclosure", FunctionStep
    PROVE  ClosureInv'
<1>1. ~HasOut(cmd) /\ ~MayFail(cmd)
  BY CommandIs
<1>2. doing \in {"idle", "function", "context", "context_scopeinfo", "closure_vars"}
  BY DEF InFunction, FunctionPlaces
<1>3. CASE jsclosure
  BY <1>3, ClosureEnds
<1>4. ASSUME UNCHANGED <<cmd, out>>, doing # "idle",
             \/ doing' # "idle" /\ doing' \notin {"context_scopeinfo", "closure_vars"}
             \/ doing' = "context_scopeinfo" /\ ContextLoads(ContextArray)
             \/ /\ doing' = "closure_vars" /\ doing = "context_scopeinfo"
                /\ ScopeInfoLoads(ScopeArray(target.decl), cmd.layout)
      PROVE  ClosureInv'
  BY <1>4 DEF ClosureInv, ContextArray, ScopeArray, target
<1>5. ASSUME UNCHANGED <<cmd, out>>, doing # "idle", doing' = "idle", result' = "error",
             ~ /\ target.scope = "none" /\ target.context = "none" /\ target.lost = {}
               /\ target.kind = "JSFunction"
      PROVE  ClosureInv'
  <2>1. out = <<>> /\ target' = target
    BY <1>5 DEF ClosureInv, target
  <2>2. IsPrefixOf(<<>>, Pairs(target))
    <3> DEFINE s == Pairs(target)
               X == {s[i] : i \in DOMAIN target.decl.ctx}
    <3>1. target \in Target /\ Len(target.values) = Len(target.decl.ctx)
      BY CommandIs, ClosuresAssumption
    <3>2. s \in Seq(X)
      BY <3>1, PairsAre
    <3> HIDE DEF s, X
    <3>3. IsPrefixOf(<<>>, s)
      BY <3>2 DEF IsPrefixOf
    <3> QED
      BY <3>3 DEF s
  <2> QED
    BY <1>5, <2>1, <2>2 DEF ClosureInv, ClosureShown, Pairs, IsPrefixOf
<1>6. CASE v8function_load
  <2>1. /\ doing = "function" /\ UNCHANGED <<cmd, out>>
        /\ \/ doing' = After("function")
           \/ ~IsFunction /\ doing' = "idle" /\ result' = "error"
    BY <1>1, <1>6 DEF v8function_load, Load, Fails, Return, Goto, functionvars
  <2> QED
    BY <1>4, <1>5, <2>1, AfterInClosure DEF IsFunction
<1>7. CASE v8function_context
  <2>1. /\ doing = "context" /\ UNCHANGED <<cmd, out>>
        /\ \/ doing' = After("context") /\ ContextLoads(ContextArray)
           \/ /\ ~("context" \notin target.lost /\ ContextLoads(ContextArray))
              /\ doing' = "idle" /\ result' = "error"
    BY <1>1, <1>7 DEF v8function_context, Load, Fails, Return, Goto, functionvars
  <2>2. target.context = "none" => ContextLoads(ContextArray)
    <3>1. target.values \in Seq(STRING) /\ target.context \in {"none", "gone", "cut", "tiny"}
      BY CommandIs DEF Target
    <3> QED
      BY <3>1, ContextIs DEF ContextArray
  <2> QED
    BY <1>4, <1>5, <2>1, <2>2, AfterInClosure
<1>8. CASE v8context_scopeinfo
  <2>1. /\ doing = "context_scopeinfo" /\ UNCHANGED <<cmd, out>>
        /\ \/ /\ doing' = After("context_scopeinfo")
              /\ ScopeInfoLoads(ScopeArray(target.decl), cmd.layout)
           \/ /\ ~ /\ "closure" \notin target.lost
                   /\ ScopeInfoLoads(ScopeArray(target.decl), cmd.layout)
              /\ doing' = "idle" /\ result' = "error"
    BY <1>1, <1>8 DEF v8context_scopeinfo, Load, Fails, Return, Goto, functionvars
  <2>2. target.scope = "none" => ScopeInfoLoads(ScopeArray(target.decl), cmd.layout)
    BY CommandIs, WholeLoads DEF ScopeArray
  <2> QED
    BY <1>4, <1>5, <2>1, <2>2, AfterInClosure
<1> QED
  BY <1>2, <1>3, <1>6, <1>7, <1>8, RangeOfVarTypes
     DEF FunctionStep, v8funcinfo_load, v8code_load, mdbv8_strbuf_alloc, v8scopeinfo_load,
         v8function_scopeinfo, Load, v8boundfunction_load, v8funcinfo_funcname,
         v8funcinfo_scriptpath, v8funcinfo_definition_location, located, do_v8code, out_label,
         do_v8scopeinfo_vartype_print, v8context

LEMMA InfoKeeps ==
    ASSUME InFunction, InfoInv, cmd.name = "v8scopeinfo", FunctionStep
    PROVE  InfoInv'
<1> SUFFICES ASSUME target.scope = "none", UNCHANGED cmd PROVE InfoInv'
  <2>1. UNCHANGED cmd
    BY DEF FunctionStep, v8function_load, v8function_context, v8funcinfo_load, v8code_load,
           mdbv8_strbuf_alloc, v8context_scopeinfo, v8scopeinfo_load, v8function_scopeinfo, Load,
           v8boundfunction_load, v8funcinfo_funcname, v8funcinfo_scriptpath,
           v8funcinfo_definition_location, located, do_v8code, out_label,
           jsclosure, do_v8scopeinfo_vartype_print, v8context, functionvars
  <2> QED
    BY <2>1 DEF InfoInv, target
<1>1. ~HasOut(cmd) /\ ~MayFail(cmd)
  BY CommandIs
<1>2. doing \in {"idle", "scopeinfo", "params", "stack", "ctx"}
  BY DEF InFunction, FunctionPlaces
<1>3. target' = target
  BY DEF target
<1> DEFINE P == Listing("params", target.decl.params)
           S == Listing("stack", target.decl.stack)
           C == Listing("ctx", target.decl.ctx)
<1>4. CASE v8scopeinfo_load
  <2>1. ScopeInfoLoads(ScopeArray(target.decl), cmd.layout)
    BY CommandIs, WholeLoads DEF ScopeArray
  <2>2. doing = "scopeinfo" /\ doing' = After("scopeinfo") /\ out' = out
    BY <1>1, <1>4, <2>1 DEF v8scopeinfo_load, Load, Goto, functionvars
  <2>3. out = <<>>
    BY <2>2 DEF InfoInv, InfoListed
  <2> QED
    BY <2>2, <2>3, AfterInScopeInfo DEF InfoInv, InfoListed
<1>5. CASE do_v8scopeinfo_vartype_print
  <2>1. /\ doing \in Types
        /\ out' = out \o Listing(doing, target.decl[doing])
        /\ doing # "ctx" => doing' = After(doing)
        /\ doing = "ctx" => doing' = "idle" /\ result' = "ok"
    BY <1>5, InfoPrints
  <2>2. CASE doing = "params"
    <3>1. out = <<>> /\ out' = <<>> \o P /\ doing' = "stack"
      BY <2>1, <2>2, AfterInScopeInfo DEF InfoInv, InfoListed
    <3>2. target.decl.params \in Seq(STRING) /\ Len(target.decl.params) + 1 \in Nat
          /\ 1 + Len(target.decl.params) \in Nat
      <4>1. target.decl.params \in Seq(STRING)
        BY CommandIs DEF Target, Declared
      <4> QED
        BY <4>1
    <3>3. <<>> \o P = P
      BY <3>2, ListingIs, FirstSaid
    <3> QED
      BY <1>3, <3>1, <3>3 DEF InfoInv, InfoListed
  <2>3. CASE doing = "stack"
    <3>1. out = P /\ out' = P \o S /\ doing' = "ctx"
      BY <2>1, <2>3, AfterInScopeInfo DEF InfoInv, InfoListed
    <3> QED
      BY <1>3, <3>1 DEF InfoInv, InfoListed
  <2>4. CASE doing = "ctx"
    <3>1. out = P \o S /\ out' = P \o S \o C /\ doing' = "idle" /\ result' = "ok"
      BY <2>1, <2>4 DEF InfoInv, InfoListed
    <3> QED
      BY <1>3, <3>1 DEF InfoInv, InfoListed
  <2> QED
    BY <2>1, <2>2, <2>3, <2>4 DEF Types
<1> QED
  BY <1>2, <1>4, <1>5
     DEF FunctionStep, v8function_load, v8function_context, v8funcinfo_load, v8code_load,
         mdbv8_strbuf_alloc, v8context_scopeinfo, v8function_scopeinfo, Load,
         v8boundfunction_load, v8funcinfo_funcname, v8funcinfo_scriptpath,
         v8funcinfo_definition_location, located, do_v8code, out_label, jsclosure, v8context

LEMMA ContextKeeps ==
    ASSUME InFunction, ContextInv, cmd.name = "v8context", FunctionStep
    PROVE  ContextInv'
<1> SUFFICES ASSUME target.context = "none", UNCHANGED cmd PROVE ContextInv'
  <2>1. UNCHANGED cmd
    BY DEF FunctionStep, v8function_load, v8function_context, v8funcinfo_load, v8code_load,
           mdbv8_strbuf_alloc, v8context_scopeinfo, v8scopeinfo_load, v8function_scopeinfo, Load,
           v8boundfunction_load, v8funcinfo_funcname, v8funcinfo_scriptpath,
           v8funcinfo_definition_location, located, do_v8code, out_label,
           jsclosure, do_v8scopeinfo_vartype_print, v8context, functionvars
  <2> QED
    BY <2>1 DEF ContextInv, target
<1>1. ~HasOut(cmd) /\ ~MayFail(cmd)
  BY CommandIs
<1>2. doing \in {"idle", "context", "slots"}
  BY DEF InFunction, FunctionPlaces
<1>3. ContextArray' = ContextArray /\ target' = target
  BY DEF ContextArray, target
<1>4. ContextLoads(ContextArray) /\ ContextArray.nelts = 4 + Len(target.values)
      /\ Len(target.values) \in Nat
  <2>1. target.values \in Seq(STRING) /\ target.context \in {"none", "gone", "cut", "tiny"}
    BY CommandIs DEF Target
  <2>2. Len(target.values) \in Nat
    BY <2>1
  <2> QED
    BY <2>1, <2>2, ContextIs DEF ContextArray
<1>5. CASE v8function_context
  <2>1. doing = "context" /\ doing' = "slots" /\ out' = out
    BY <1>1, <1>4, <1>5, AfterInContext DEF v8function_context, Load, Goto, functionvars
  <2> QED
    BY <2>1 DEF ContextInv
<1>6. CASE v8context
  <2> DEFINE elts == ContextArray.at
             n == ContextArray.nelts - Common
             last == IF cmd.layout.native THEN "native context" ELSE "global object"
             slots == [i \in DOMAIN StaticSlots |-> <<StaticSlots[i], elts[i - 1]>>]
             global == <<<<last, elts[3]>>>>
             m == 3
             one == 1
             st == Join(slots, global)
             dyn == DynamicLines
             all == Join(st, dyn)
             k == m + one
  <2>1. doing = "slots" /\ doing' = "idle" /\ result' = "ok" /\ out' = out \o (StaticLines \o DynamicLines)
    BY <1>6 DEF v8context, Say, Return
  <2>2. out = <<>>
    BY <2>1 DEF ContextInv
  <2>3. StaticLines = st /\ out' = out \o all
    BY <2>1 DEF StaticLines, Join
  <2>4. n \in Nat /\ n = Len(target.values)
    BY <1>4 DEF Common
  <2>5. /\ Listed(slots, m) /\ m \in Nat
        /\ \A i \in 1..m : slots[i][2] = elts[i - 1]
    BY DEF Listed, StaticSlots
  <2>6. Listed(global, one) /\ one \in Nat /\ global[1][2] = elts[3]
    BY DEF Listed
  <2>7. /\ Listed(dyn, n)
        /\ \A i \in 1..n : dyn[i][2] = elts[(i - 1) + 4]
    BY DEF DynamicLines, Listed, Value, Common
  <2> HIDE DEF elts, n, last, slots, global, one, dyn, m
  <2>8. /\ Listed(st, k) /\ k \in Nat
        /\ \A i \in 1..m : st[i] = slots[i]
        /\ \A i \in 1..one : st[m + i] = global[i]
    <3>1. k \in Nat
      BY <2>5, <2>6
    <3> QED
      BY <2>5, <2>6, <3>1, AnyJoined
  <2> HIDE DEF st, k
  <2>9. /\ Listed(all, k + n) /\ Len(all) = k + n
        /\ \A i \in 1..k : all[i] = st[i]
        /\ \A i \in 1..n : all[k + i] = dyn[i]
    BY <2>4, <2>7, <2>8, AnyJoined
  <2> HIDE DEF all
  <2>10. k = 4 /\ m = 3 /\ one = 1
    BY DEF k, m, one
  <2>11. out' = all
    <3>1. k + n \in Nat
      BY <2>4, <2>10
    <3>2. <<>> \o all = all
      BY <2>9, <3>1, FirstSaid
    <3> QED
      BY <2>2, <2>3, <3>2
  <2>12. \A i \in 1..(k + n) : all[i][2] = elts[i - 1]
    <3> SUFFICES ASSUME NEW i \in 1..(k + n) PROVE all[i][2] = elts[i - 1]
      OBVIOUS
    <3>1. CASE i \in 1..3
      BY <2>5, <2>8, <2>9, <2>10, <3>1
    <3>2. CASE i = 4
      <4>1. all[4] = st[4] /\ st[3 + 1] = global[1]
        BY <2>8, <2>9, <2>10
      <4> QED
        BY <2>6, <3>2, <4>1
    <3>3. CASE i > 4
      <4>1. i - 4 \in 1..n /\ 4 + (i - 4) = i /\ ((i - 4) - 1) + 4 = i - 1
        BY <2>4, <2>10, <3>3
      <4>2. all[4 + (i - 4)] = dyn[i - 4]
        BY <2>9, <2>10, <4>1
      <4>3. dyn[i - 4][2] = elts[((i - 4) - 1) + 4]
        BY <2>7, <4>1
      <4> QED
        BY <4>1, <4>2, <4>3
    <3> QED
      BY <2>4, <2>10, <3>1, <3>2, <3>3
  <2>13. DOMAIN all = 1..(k + n)
    BY <2>9 DEF Listed
  <2>14. Len(all) = ContextArray.nelts
    BY <1>4, <2>4, <2>9, <2>10
  <2>15. ContextShown'
    BY <1>3, <2>11, <2>12, <2>13, <2>14 DEF ContextShown, elts
  <2> QED
    BY <2>1, <2>15 DEF ContextInv
<1> QED
  BY <1>2, <1>5, <1>6, RangeOfVarTypes
     DEF FunctionStep, v8function_load, v8funcinfo_load, v8code_load,
         mdbv8_strbuf_alloc, v8context_scopeinfo, v8scopeinfo_load, v8function_scopeinfo, Load,
         v8boundfunction_load, v8funcinfo_funcname, v8funcinfo_scriptpath,
         v8funcinfo_definition_location, located, do_v8code, out_label, jsclosure,
         do_v8scopeinfo_vartype_print

(* A bound function, in either of its forms, has what was bound.           *)
LEMMA BoundPrints ==
    ASSUME InFunction, cmd.name = "jsfunction", IsBound
    PROVE  /\ IF cmd.layout.bound THEN LoadsDirect ELSE LoadsBindings
           /\ BoundLines = <<Ref(target.bound.target), Ref(target.bound.this)>>
                             \o Names(target.bound.args)
           /\ \E n \in Nat : Listed(BoundLines, n)
<1> DEFINE args == target.bound.args
           head == <<Ref(target.bound.target), Ref(target.bound.this)>>
           names == Names(args)
           len == Len(args)
           two == 2
           k == two + len
<1>1. /\ target.kind \in {"JSFunction", "JSBoundFunction"}
      /\ args \in Seq(STRING)
  BY CommandIs, ClosuresAssumption DEF IsBound, Target
<1>2. len \in Nat /\ DOMAIN args = 1..len
  BY <1>1
<1>3. names = [i \in 1..len |-> Ref(args[i])]
  BY <1>2 DEF Names
<1>4. Listed(names, len)
  BY <1>3 DEF Listed
<1>5. Listed(head, two) /\ two \in Nat
  BY DEF Listed
<1>6. head \o names = Join(head, names)
  BY DEF Join
<1>7. head[1] = Ref(target.bound.target) /\ head[2] = Ref(target.bound.this)
  OBVIOUS
<1>8. CASE cmd.layout.bound
  <2>1. BoundArray = Array(names) /\ arg0 = 0
    BY <1>8 DEF BoundArray, IsBound, arg0
  <2>2. Len(names) = len
    BY <1>2, <1>3
  <2>3. BoundArray.ok /\ BoundArray.nelts = len
        /\ \A i \in 0..(len - 1) : BoundArray.at[i] = names[i + 1]
    BY <2>1, <2>2 DEF Array
  <2>4. LoadsDirect
    BY <1>8, <2>3 DEF LoadsDirect, IsBound
  <2> HIDE DEF names, len, args
  <2>5. \A i \in 1..len : BoundArray.at[0 + i - 1] = names[i]
    <3> SUFFICES ASSUME NEW i \in 1..len PROVE BoundArray.at[0 + i - 1] = names[i]
      OBVIOUS
    <3>1. 0 + i - 1 = i - 1 /\ i - 1 \in 0..(len - 1) /\ (i - 1) + 1 = i
      BY <1>2
    <3> QED
      BY <2>3, <3>1
  <2>6. [i \in 1..(BoundArray.nelts - 0) |-> BoundArray.at[0 + i - 1]] = names
    <3>1. BoundArray.nelts - 0 = len
      BY <1>2, <2>3
    <3> QED
      BY <1>4, <2>5, <3>1 DEF Listed
  <2>7. BoundLines = head \o [i \in 1..(BoundArray.nelts - arg0) |-> BoundArray.at[arg0 + i - 1]]
    BY <1>8 DEF BoundLines
  <2>8. BoundLines = head \o names
    BY <2>1, <2>6, <2>7
  <2>9. Listed(head \o names, k) /\ k \in Nat
    <3> HIDE DEF head, two
    <3>1. Listed(Join(head, names), two + len) /\ two + len \in Nat
      BY <1>2, <1>4, <1>5, AnyJoined
    <3> QED
      BY <1>6, <3>1
  <2> QED
    BY <1>8, <2>4, <2>8, <2>9 DEF names, args
<1>9. CASE ~cmd.layout.bound
  <2> DEFINE start == [i \in 1..2 |-> Ref(<<target.bound.target, target.bound.this>>[i])]
             all == Join(start, names)
  <2>1. BoundArray = Array(all) /\ arg0 = 2
    BY <1>9 DEF BoundArray, Bindings, IsBound, arg0, Join
  <2>2. Listed(start, two) /\ start[1] = head[1] /\ start[2] = head[2]
    BY DEF Listed
  <2> HIDE DEF names, len, args, start, head
  <2>3. /\ Len(all) = two + len
        /\ \A i \in 1..two : all[i] = start[i]
        /\ \A i \in 1..len : all[two + i] = names[i]
    <3> HIDE DEF two
    <3> QED
      BY <1>2, <1>4, <1>5, <2>2, AnyJoined
  <2> HIDE DEF all
  <2>4. /\ BoundArray.ok /\ BoundArray.nelts = 2 + len
        /\ \A i \in 0..(2 + len - 1) : BoundArray.at[i] = all[i + 1]
    <3>1. BoundArray.ok /\ BoundArray.nelts = Len(all)
          /\ \A i \in 0..(Len(all) - 1) : BoundArray.at[i] = all[i + 1]
      BY <2>1 DEF Array
    <3>2. Len(all) = 2 + len
      BY <2>3
    <3> QED
      BY <1>2, <3>1, <3>2
  <2>5. LoadsBindings
    <3>1. target.kind = "JSFunction"
      BY <1>1, <1>9 DEF IsBound
    <3>2. 2 + len >= 2
      BY <1>2
    <3> QED
      BY <2>4, <3>1, <3>2 DEF LoadsBindings, IsFunction, IsBound
  <2>6. BoundArray.at[0] = head[1] /\ BoundArray.at[1] = head[2]
    BY <1>2, <2>2, <2>3, <2>4
  <2>7. \A i \in 1..len : BoundArray.at[2 + i - 1] = names[i]
    <3> SUFFICES ASSUME NEW i \in 1..len PROVE BoundArray.at[2 + i - 1] = names[i]
      OBVIOUS
    <3>1. 2 + i - 1 \in 0..(2 + len - 1) /\ (2 + i - 1) + 1 = 2 + i
      BY <1>2
    <3> QED
      BY <2>3, <2>4, <3>1
  <2>8. [i \in 1..(BoundArray.nelts - 2) |-> BoundArray.at[2 + i - 1]] = names
    <3>1. BoundArray.nelts - 2 = len
      BY <1>2, <2>4
    <3> QED
      BY <1>4, <2>7, <3>1 DEF Listed
  <2>9. BoundLines = <<BoundArray.at[0], BoundArray.at[1]>>
                        \o [i \in 1..(BoundArray.nelts - arg0) |-> BoundArray.at[arg0 + i - 1]]
    BY <1>9 DEF BoundLines
  <2>10. <<BoundArray.at[0], BoundArray.at[1]>> = head
    BY <1>7, <2>6 DEF head
  <2>11. BoundLines = head \o names
    BY <2>1, <2>8, <2>9, <2>10
  <2>12. Listed(head \o names, k) /\ k \in Nat
    <3> HIDE DEF two
    <3>1. Listed(Join(head, names), two + len) /\ two + len \in Nat
      BY <1>2, <1>4, <1>5, AnyJoined
    <3> QED
      BY <1>6, <3>1
  <2> QED
    BY <1>9, <2>5, <2>11, <2>12 DEF names, args, head
<1> QED
  BY <1>8, <1>9

LEMMA BoundKeeps ==
    ASSUME InFunction, BoundInv, cmd.name = "jsfunction", FunctionStep
    PROVE  BoundInv'
<1>0. UNCHANGED cmd
  BY DEF FunctionStep, v8function_load, v8function_context, v8funcinfo_load, v8code_load,
         mdbv8_strbuf_alloc, v8context_scopeinfo, v8scopeinfo_load, v8function_scopeinfo, Load,
         v8boundfunction_load, v8funcinfo_funcname, v8funcinfo_scriptpath,
         v8funcinfo_definition_location, located, do_v8code, out_label,
         jsclosure, do_v8scopeinfo_vartype_print, v8context, functionvars
<1> SUFFICES ASSUME IsBound PROVE BoundInv'
  BY <1>0 DEF BoundInv, IsBound, target
<1>1. doing \in {"idle", "bound"} /\ (doing = "bound" => out = <<>>)
  BY DEF BoundInv
<1>2. CASE v8boundfunction_load
  <2>1. Say(BoundLines) /\ Return("ok") /\ doing = "bound"
    BY <1>2, BoundPrints DEF v8boundfunction_load
  <2>2. doing' = "idle" /\ result' = "ok" /\ out' = <<>> \o BoundLines
    BY <1>1, <2>1 DEF Say, Return
  <2>3. <<>> \o BoundLines = BoundLines
    BY BoundPrints, FirstSaid
  <2> QED
    BY <1>0, <2>2, <2>3, BoundPrints DEF BoundInv, target
<1> QED
  BY <1>1, <1>2, RangeOfVarTypes
     DEF FunctionStep, v8function_load, v8function_context, v8funcinfo_load, v8code_load,
         mdbv8_strbuf_alloc, v8context_scopeinfo, v8scopeinfo_load, v8function_scopeinfo, Load,
         v8funcinfo_funcname, v8funcinfo_scriptpath,
         v8funcinfo_definition_location, located, do_v8code, out_label,
         jsclosure, do_v8scopeinfo_vartype_print, v8context

LEMMA ShownKeeps ==
    ASSUME InFunction, ShownInv, FunctionStep, cmd' = cmd
    PROVE  ShownInv'
<1>1. ClosureInv'
  BY ClosureKeeps DEF ShownInv, ClosureInv
<1>2. InfoInv'
  BY InfoKeeps DEF ShownInv, InfoInv
<1>3. BoundInv'
  BY BoundKeeps DEF ShownInv, BoundInv
<1>4. ContextInv'
  BY ContextKeeps DEF ShownInv, ContextInv
<1> QED
  BY <1>1, <1>2, <1>3, <1>4 DEF ShownInv

LEMMA ShownBegins ==
    ASSUME FunctionCommands
    PROVE  ShownInv'
<1>1. PICK name \in DOMAIN Steps, L \in Layouts, t \in Targets :
         Begin([name |-> name, layout |-> L, target |-> t], Steps[name][1])
  BY DEF FunctionCommands
<1>2. cmd'.name = name /\ doing' = Steps[name][1] /\ out' = <<>>
  BY <1>1 DEF Begin
<1>3. ClosureInv'
  BY <1>2 DEF ClosureInv, Steps
<1>4. InfoInv'
  BY <1>2 DEF InfoInv, InfoListed, Steps
<1>5. BoundInv'
  BY <1>2 DEF BoundInv, Steps
<1>6. ContextInv'
  BY <1>2 DEF ContextInv, Steps
<1> QED
  BY <1>3, <1>4, <1>5, <1>6 DEF ShownInv

LEMMA ShownSame ==
    ASSUME ShownInv, UNCHANGED <<cmd, doing, out, result>>
    PROVE  ShownInv'
<1>1. /\ cmd' = cmd /\ doing' = doing /\ out' = out /\ result' = result
      /\ ClosureInv /\ InfoInv /\ BoundInv /\ ContextInv
  BY DEF ShownInv
<1>2. ClosureInv'
  BY <1>1, ZenonT(40) DEF ClosureInv, ClosureShown, ContextArray, ScopeArray, target, Pairs,
                                Listing, IsPrefixOf
<1>3. InfoInv'
  BY <1>1, ZenonT(40) DEF InfoInv, InfoListed, target, Listing
<1>4. BoundInv'
  BY <1>1, ZenonT(40) DEF BoundInv, IsBound, target
<1>5. ContextInv'
  BY <1>1, ZenonT(40) DEF ContextInv, ContextShown, ContextArray, target, Pairs
<1> QED
  BY <1>2, <1>3, <1>4, <1>5 DEF ShownInv

LEMMA VarsInductive == LeavesInv /\ VarsInv /\ [Next]_vars => VarsInv'
<1> SUFFICES ASSUME LeavesInv, VarsInv, [Next]_vars, InFunction', cmd' # NULL
               PROVE  ShownInv'
  BY DEF VarsInv
<1>1. CASE FunctionStep
  <2>1. FunctionInv /\ InFunction
    BY <1>1, StepOfFunction DEF FunctionInv
  <2> QED
    BY <1>1, <2>1, FunctionKeeps, ShownKeeps DEF VarsInv
<1>2. CASE FrameStep \/ FrameCommands
  <2>1. StackInv'
    BY <1>2, StepOfStack, StackKeeps, StackBegins
  <2>2. cmd'.name \in FunctionNames /\ cmd'.name \in {"jsstack", "jsframe"}
    BY <2>1, NamesOfSteps DEF InFunction, FunctionCommand, StackInv, InStack, StackCommand
  <2> QED
    BY <2>2 DEF FunctionNames
<1>3. CASE FunctionCommands
  BY <1>3, ShownBegins
<1>4. CASE Search \/ UNCHANGED vars
  <2>1. UNCHANGED <<cmd, doing, out, result>>
    BY <1>4 DEF Search, vars, sessionvars, session
  <2>2. InFunction
    BY <2>1 DEF InFunction
  <2> QED
    BY <2>1, <2>2, ShownSame DEF VarsInv
<1> QED
  BY <1>1, <1>2, <1>3, <1>4 DEF Next, Step

LEMMA VarsInvariant == Spec => []VarsInv
<1>1. Init => VarsInv
  BY DEF Init, SessionInit, VarsInv
<1> QED
  BY <1>1, LeavesInvariant, VarsInductive, PTL DEF Spec

(* ::jsclosure, ::v8scopeinfo, ::jsfunction and ::v8context are exact for  *)
(* every layout of the versions of V8 and every target: each variable is   *)
(* paired with its own value and listed under its type, however many there *)
(* are, and a damaged ScopeInfo or Context cuts the list short but never   *)
(* shifts it (v8scopeinfo_iter_vars, v8context_var_value); a bound         *)
(* function is shown with what was bound, in either of its forms.          *)
THEOREM VariablesAreExact == Spec => []VariablesExact
<1>1. LeavesInv /\ VarsInv => VariablesExact
  <2> SUFFICES ASSUME LeavesInv, VarsInv, doing = "idle", cmd # NULL PROVE VariablesExact
    BY DEF VariablesExact, Over
  <2>1. CASE InFunction
    <3>1. ShownInv
      BY <2>1 DEF VarsInv
    <3>2. Over("jsclosure") /\ target.scope \in {"none", "cut", "many"} => ClosureShown
      BY <3>1 DEF ShownInv, ClosureInv, Over, ClosureShown
    <3> QED
      BY <3>1, <3>2
         DEF VariablesExact, ShownInv, InfoInv, InfoListed, BoundInv, IsBound, ContextInv,
             ContextShown, ClosureShown, Over
  <2>2. CASE ~InFunction
    <3>1. cmd.name \in {"jsstack", "jsframe"}
      BY <2>2 DEF LeavesInv, FunctionInv, StackInv, InStack, StackCommand
    <3> QED
      BY <3>1 DEF VariablesExact, Over
  <2> QED
    BY <2>1, <2>2
<1> QED
  BY <1>1, LeavesInvariant, VarsInvariant, PTL
=============================================================================
