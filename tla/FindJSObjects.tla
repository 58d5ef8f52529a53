--------------------------- MODULE FindJSObjects ---------------------------
(***************************************************************************)
(* The object finder of mdb_v8: ::findjsobjects and ::jsfunctions.  Both   *)
(* dcmds share one static findjsobjects_state_t that outlives them.  The   *)
(* first of them scans the target's mappings word by word and files every  *)
(* JavaScript object under its signature (constructor and property names)  *)
(* and every closure under its SharedFunctionInfo; later ones answer from  *)
(* that cache.  Objects can be marked, and a -r command walks the table to *)
(* report who refers to the marked objects.                                *)
(*                                                                         *)
(* The operator can interrupt a dcmd (Ctrl-C): mdb jumps out of it,        *)
(* releases its UM_GC memory and leaves every static variable as it was.   *)
(* One action is one iteration of a loop of the code, or what a dcmd does  *)
(* between two loops; an interrupt falls between two actions.              *)
(***************************************************************************)
EXTENDS Integers, Sequences, FiniteSets

CONSTANTS
    Addr,        \* heap-object addresses of the target
    NULL,        \* no address, no command
    Names,       \* names of properties, constructors and definitions
    Words,       \* the addresses the scan meets, in the order of the mappings
    Heap,        \* what the target's memory holds at each address
    Anon,        \* mappings without a name
    BrkMaps,     \* named mappings that are the brk heap (MA_BREAK)
    Readable,    \* mappings that mdb_vread can read as a whole
    Oddly,       \* property descriptions that begin with '<'
    SearchProp,  \* the name given with -p
    SearchCtor,  \* the name given with -c
    Commands,    \* the command lines the operator types
    IntrAt,      \* the values of pc at which the operator may interrupt
    MaxCmds      \* bound: commands in one debugging session

(* A word of the target's memory, as the scan sees it.  slots are the      *)
(* values the object holds, each with the name or index it is found under; *)
(* val is NULL where the code has no address (a bad layout, a double), hit *)
(* says that -k (for a closure: -n, -s or -x) selects it.                  *)
Word == [map     : Anon \cup BrkMaps \cup {"file"},
         kind    : {"object", "array", "function", "other"},
         loads   : BOOLEAN,
         garbage : BOOLEAN,
         hit     : BOOLEAN,
         ctor    : Names,
         length  : Nat,
         slots   : Seq([desc : Names, val : Addr \cup {NULL}]),
         shared  : Names]

Command == [dcmd : {"findjsobjects", "jsfunctions"},
            addr : Addr \cup {NULL},
            opts : SUBSET {"a", "b", "c", "k", "l", "m", "n", "p", "r"}]

(* The addresses are distinct words of the scan, and the target does not   *)
(* change: a core file, or a stopped process.                              *)
ASSUME HeapAssumption ==
    /\ NULL \notin Addr
    /\ "Array" \in Names
    /\ Words \in Seq(Addr)
    /\ \A i, j \in 1..Len(Words) : Words[i] = Words[j] => i = j
    /\ Heap \in [Addr -> Word]
    /\ Readable \subseteq Anon \cup BrkMaps \cup {"file"}

ASSUME SessionAssumption ==
    /\ Commands \subseteq Command
    /\ MaxCmds \in Nat

VARIABLES
    pc,         \* where the running dcmd is; "idle" between dcmds
    cmd,        \* the command line being executed, or NULL
    brk,        \* fjs_brk
    tree,       \* fjs_tree: signature -> its findjsobjects_obj_t
    list,       \* fjs_objects: the signatures in list order
    funcs,      \* fjs_funcinfo: SharedFunctionInfo -> findjsobjects_func_t
    finished,   \* fjs_finished
    silent,     \* v8_silent
    pos,        \* next word of the scan
    referents,  \* fjs_referents: marked address -> the references found
    fjsAddr,    \* fjs_addr
    todo,       \* instances the running loop has still to visit
    out,        \* what the last dcmd printed
    ncmds       \* commands started so far

vars == <<pc, cmd, brk, tree, list, funcs, finished, silent, pos,
          referents, fjsAddr, todo, out, ncmds>>

table == <<tree, list, funcs, finished>>
-----------------------------------------------------------------------------
(* What the scan makes of a word.                                          *)

NoMap == [x \in {} |-> x]

\* findjsobjects_mapping: which mappings a scan looks into
Scanned(a, b) ==
    /\ Heap[a].map \in Anon \/ (b /\ Heap[a].map \in BrkMaps)
    /\ Heap[a].map \in Readable

\* the filter on fjs_addr of the same function
InFocus(a, f) == f # NULL => Heap[f].map = Heap[a].map

IsObject(a) == Heap[a].kind \in {"object", "array"} /\ Heap[a].loads

IsFunction(a) == Heap[a].kind = "function" /\ Heap[a].loads

(* The signature findjsobjects_prop, the garbage test and                  *)
(* findjsobjects_constructor build up: findjsobjects_prop overwrites       *)
(* fjso_malformed at each property, so only a sole "<...>" leaves it set.  *)
Signature(a) ==
    LET w == Heap[a] IN
    IF w.kind = "array"
    THEN [malformed |-> FALSE, props |-> <<>>, nprops |-> w.length,
          ctor |-> "Array"]
    ELSE [malformed |-> \/ w.garbage
                        \/ /\ Len(w.slots) = 1
                           /\ w.slots[1].val = NULL
                           /\ w.slots[1].desc \in Oddly,
          props  |-> [i \in DOMAIN w.slots |-> w.slots[i].desc],
          nprops |-> Len(w.slots),
          ctor   |-> w.ctor]

(* Both trees: the first address becomes the representative (NewEntry), a  *)
(* later one is one more instance.  n is the count the code keeps.         *)
NewEntry(a) == [rep |-> a, insts |-> {a}, n |-> 1]

FileUncounted(t, key, a) ==
    IF key \in DOMAIN t
    THEN [t EXCEPT ![key].insts = @ \cup {a}]
    ELSE [k \in DOMAIN t \cup {key} |->
             IF k = key THEN NewEntry(a) ELSE t[k]]

File(t, key, a) ==
    IF key \in DOMAIN t
    THEN [t EXCEPT ![key] = [rep |-> @.rep, insts |-> @.insts \cup {a}, n |-> @.n + 1]]
    ELSE [k \in DOMAIN t \cup {key} |->
             IF k = key THEN NewEntry(a) ELSE t[k]]

Insts(t) == UNION {t[s].insts : s \in DOMAIN t}

\* findjsobjects_cmp_ninstances, on signatures of the table t
Before(t, s1, s2) ==
    LET p1 == t[s1].n * s1.nprops
        p2 == t[s2].n * s2.nprops
    IN  \/ p1 < p2
        \/ p1 = p2 /\ t[s1].n < t[s2].n
        \/ p1 = p2 /\ t[s1].n = t[s2].n /\ s1.nprops <= s2.nprops

\* qsort: some rearrangement of the list that is ascending
RearrangementsLossy(l) ==
    {[i \in DOMAIN l |-> l[p[i]]] : p \in [DOMAIN l -> DOMAIN l]}

Rearrangements(l) ==
    LET R == {p \in [DOMAIN l -> DOMAIN l] :
                 \A i \in DOMAIN l : \E j \in DOMAIN l : p[j] = i}
    IN  {[i \in DOMAIN l |-> l[p[i]]] : p \in R}

Ascending(t, l) ==
    \A i, j \in DOMAIN l : i < j => Before(t, l[i], l[j])
-----------------------------------------------------------------------------
Init ==
    /\ pc = "idle"
    /\ cmd = NULL
    /\ brk = FALSE
    /\ tree = NoMap
    /\ list = <<>>
    /\ funcs = NoMap
    /\ finished = FALSE
    /\ silent = 0
    /\ pos = 1
    /\ referents = NoMap
    /\ fjsAddr = NULL
    /\ todo = {}
    /\ out = [kind |-> "none", data |-> {}]
    /\ ncmds = 0

Has(o) == o \in cmd.opts

(* mdb frees the UM_GC memory of a dcmd when it ends, however it ends: the *)
(* references hung off a referent that is still there are freed with it.   *)
ReleaseAll(r) == NoMap
Release(r) == [t \in DOMAIN r |-> [r[t] EXCEPT !.freed = @ \/ r[t].n > 0]]

\* a dcmd ends, having printed d
Finish(k, d) ==
    /\ pc' = "idle"
    /\ cmd' = NULL
    /\ out' = [kind |-> k, data |-> d]
    /\ UNCHANGED ncmds

\* v8_silent++ and v8_silent--
Mute == silent' = silent + 1

UnmuteNever == UNCHANGED silent
UnmuteTwice == silent' = silent - 2
Unmute == silent' = silent - 1

Error == Finish("error", {})
-----------------------------------------------------------------------------
(* findjsobjects_run                                                       *)

\* the table is only built when it is empty
MustScanAgain == TRUE
MustScan == DOMAIN tree = {}

(* A dcmd starts.  ::findjsobjects resets the options in the static state  *)
(* first, ::jsfunctions does not: it scans with what it finds in fjs_brk.  *)
(* There is a scan if there is no object in the tree.                      *)
Start(c) ==
    /\ pc = "idle"
    /\ ncmds < MaxCmds
    /\ ncmds' = ncmds + 1
    /\ cmd' = c
    /\ brk' = IF c.dcmd = "findjsobjects" THEN "b" \in c.opts ELSE brk
    /\ IF MustScan
       THEN pc' = "scan" /\ pos' = 1 /\ Mute
       ELSE pc' = "opts" /\ UNCHANGED <<pos, silent>>
    /\ UNCHANGED <<table, referents, fjsAddr, todo, out>>

(* The arguments after the options are wrong: the static options are       *)
(* already set.  Or there is no process handle to scan with.               *)
StartFails(c) ==
    /\ pc = "idle"
    /\ ncmds < MaxCmds
    /\ ncmds' = ncmds + 1
    /\ brk' = IF c.dcmd = "findjsobjects" THEN "b" \in c.opts ELSE brk
    /\ out' = [kind |-> "error", data |-> {}]
    /\ UNCHANGED <<pc, cmd, table, silent, pos, referents, fjsAddr, todo>>

\* Pmapping_iter fails before it has called back
IterFails ==
    /\ pc = "scan"
    /\ pos = 1
    /\ Unmute
    /\ Error
    /\ referents' = Release(referents)
    /\ UNCHANGED <<brk, table, pos, fjsAddr, todo>>

InScan == pc = "scan" /\ pos <= Len(Words)

Seen(a) == Scanned(a, brk) /\ InFocus(a, fjsAddr)

\* the words the scan passes over
ScanSkip ==
    /\ InScan
    /\ \/ ~Seen(Words[pos])
       \/ Heap[Words[pos]].kind = "other"
       \/ Heap[Words[pos]].kind \in {"object", "array"} /\ ~Heap[Words[pos]].loads
    /\ pos' = pos + 1
    /\ UNCHANGED <<pc, cmd, brk, table, silent, referents, fjsAddr, todo, out, ncmds>>

\* entry of findjsobjects_jsfunc
ScanFunction ==
    /\ InScan
    /\ Seen(Words[pos])
    /\ Heap[Words[pos]].kind = "function"
    /\ pc' = "func"
    /\ Mute
    /\ UNCHANGED <<cmd, brk, table, pos, referents, fjsAddr, todo, out, ncmds>>

\* the rest of findjsobjects_jsfunc: a function that cannot be read is given up
\* at once; one that can is filed, unless its names cannot be printed
GiveUpSilent == ~Heap[Words[pos]].loads /\ UNCHANGED <<silent, funcs>>
GiveUp == ~Heap[Words[pos]].loads /\ Unmute /\ UNCHANGED funcs

FileOrSkip ==
    /\ Unmute
    /\ funcs' = IF Heap[Words[pos]].loads
                THEN File(funcs, Heap[Words[pos]].shared, Words[pos])
                ELSE funcs

FileFunction ==
    /\ pc = "func"
    /\ pc' = "scan"
    /\ GiveUp \/ FileOrSkip
    /\ pos' = pos + 1
    /\ UNCHANGED <<cmd, brk, tree, list, finished, referents, fjsAddr, todo, out, ncmds>>

\* an array needs no constructor; a JSObject or JSTypedArray has one read
ScanArray ==
    /\ InScan
    /\ Seen(Words[pos])
    /\ Heap[Words[pos]].kind = "array"
    /\ Heap[Words[pos]].loads
    /\ pc' = "insert"
    /\ UNCHANGED <<cmd, brk, table, silent, pos, referents, fjsAddr, todo, out, ncmds>>

ScanObject ==
    /\ InScan
    /\ Seen(Words[pos])
    /\ Heap[Words[pos]].kind = "object"
    /\ Heap[Words[pos]].loads
    /\ pc' = "ctor"
    /\ Mute
    /\ UNCHANGED <<cmd, brk, table, pos, referents, fjsAddr, todo, out, ncmds>>

ReadConstructor ==
    /\ pc = "ctor"
    /\ pc' = "insert"
    /\ Unmute
    /\ UNCHANGED <<cmd, brk, table, pos, referents, fjsAddr, todo, out, ncmds>>

\* a new signature also goes to the head of the list of objects
InsertObject ==
    /\ pc = "insert"
    /\ pc' = "scan"
    /\ pos' = pos + 1
    /\ LET a == Words[pos]
           s == Signature(a)
       IN  /\ tree' = File(tree, s, a)
           /\ list' = IF s \in DOMAIN tree THEN list ELSE <<s>> \o list
    /\ UNCHANGED <<cmd, brk, funcs, finished, silent, referents, fjsAddr, todo, out, ncmds>>

\* every mapping has been visited: sort, and declare the cache complete
EndScan ==
    /\ pc = "scan"
    /\ pos > Len(Words)
    /\ pc' = "opts"
    /\ \E l \in Rearrangements(list) : Ascending(tree, l) /\ list' = l
    /\ finished' = TRUE
    /\ Unmute
    /\ UNCHANGED <<cmd, brk, tree, funcs, pos, referents, fjsAddr, todo, out, ncmds>>
-----------------------------------------------------------------------------
(* dcmd_findjsobjects, after findjsobjects_run                             *)

\* "previous findjsobjects heap scan did not complete"
IncompleteIgnored == FALSE
Incomplete == ~finished

AddrSpec == cmd.addr # NULL
Sel == cmd.opts \cap {"p", "c", "k"}
ListAll == Has("l") /\ ~AddrSpec
Finder == pc = "opts" /\ cmd.dcmd = "findjsobjects"

\* neither a list of representatives nor a match: the checks on -r and -m apply
Work == Finder /\ Sel = {} /\ ~ListAll

BadOptions ==
    \/ Incomplete
    \/ Sel # {} /\ ListAll
    \/ Cardinality(Sel) > 1
    \/ Sel # {} /\ AddrSpec /\ cmd.addr \notin Insts(tree)
    \/ /\ Sel = {} /\ ~ListAll
       /\ \/ Has("r") /\ ~AddrSpec /\ DOMAIN referents = {}
          \/ Has("m") /\ ~AddrSpec
          \/ Has("r") /\ Has("m")
          \/ AddrSpec /\ cmd.addr \notin Insts(tree)

\* what every action that ends a dcmd without touching the table leaves alone
Quiet == /\ referents' = Release(referents)
         /\ UNCHANGED <<brk, table, silent, pos, fjsAddr, todo>>

OptsError == Finder /\ BadOptions /\ Error /\ Quiet

InList == {list[i] : i \in DOMAIN list}
Shown == {s \in InList : Has("a") \/ ~s.malformed}

\* the group findjsobjects_instance finds an address in
GroupOf(a) == {s \in InList : a \in tree[s].insts}

Hits(s) ==
    \/ "p" \in Sel /\ \E i \in DOMAIN s.props : s.props[i] = SearchProp
    \/ "c" \in Sel /\ s.ctor = SearchCtor
    \/ "k" \in Sel /\ Heap[tree[s].rep].hit

ListRepresentatives ==
    /\ Finder /\ ~BadOptions /\ ListAll
    /\ Finish("reps", {tree[s].rep : s \in Shown})
    /\ Quiet

Match ==
    /\ Finder /\ ~BadOptions /\ ~ListAll /\ Sel # {}
    /\ LET S == IF AddrSpec THEN GroupOf(cmd.addr) ELSE Shown
       IN  Finish("reps", {tree[s].rep : s \in {g \in S : Hits(g)}})
    /\ Quiet

ListLike ==
    /\ Work /\ ~BadOptions /\ AddrSpec /\ ~Has("r") /\ ~Has("m")
    /\ Finish("list", UNION {tree[s].insts : s \in GroupOf(cmd.addr)})
    /\ Quiet

PrintTable ==
    /\ Work /\ ~BadOptions /\ ~AddrSpec /\ ~Has("r")
    /\ Finish("groups", {[rep |-> tree[s].rep, n |-> tree[s].n, sig |-> s] : s \in Shown})
    /\ Quiet

\* -m or -r with an address: it, or all objects like it, become referents
StartMark ==
    /\ Work /\ ~BadOptions /\ AddrSpec /\ (Has("r") \/ Has("m"))
    /\ pc' = "mark"
    /\ todo' = IF Has("l") THEN UNION {tree[s].insts : s \in GroupOf(cmd.addr)}
                           ELSE {cmd.addr}
    /\ UNCHANGED <<cmd, brk, table, silent, pos, referents, fjsAddr, out, ncmds>>

\* the loop has dealt with a and moves on
Stay(a) == UNCHANGED todo
Advance(a) == todo' = todo \ {a}

\* findjsobjects_referent
AddReferent(a) ==
    /\ pc = "mark"
    /\ a \in todo
    /\ a \notin DOMAIN referents
    /\ Advance(a)
    /\ referents' = [t \in DOMAIN referents \cup {a} |->
                        IF t = a THEN [refs |-> {}, n |-> 0, freed |-> FALSE]
                                 ELSE referents[t]]
    /\ UNCHANGED <<pc, cmd, brk, table, silent, pos, fjsAddr, out, ncmds>>

\* "already marked; ignoring"
AlreadyMarked(a) ==
    /\ pc = "mark"
    /\ a \in todo
    /\ a \in DOMAIN referents
    /\ Has("m")
    /\ Advance(a)
    /\ UNCHANGED <<pc, cmd, brk, table, silent, pos, referents, fjsAddr, out, ncmds>>

\* assert(fjs->fjs_marking): the debugger is gone
AssertFails(a) ==
    /\ pc = "mark"
    /\ a \in todo
    /\ a \in DOMAIN referents
    /\ ~Has("m")
    /\ pc' = "abort"
    /\ UNCHANGED <<cmd, brk, table, silent, pos, referents, fjsAddr, todo, out, ncmds>>

EndMark ==
    /\ pc = "mark"
    /\ todo = {}
    /\ ~Has("r")
    /\ Finish("marked", {})
    /\ Quiet

RepresentativesOnly == {tree[s].rep : s \in InList}
AllInstances == UNION {tree[s].insts : s \in InList}

\* findjsobjects_references begins
StartReferences ==
    /\ \/ pc = "mark" /\ todo = {} /\ Has("r")
       \/ Work /\ ~BadOptions /\ ~AddrSpec /\ Has("r")
    /\ pc' = "trav"
    /\ Mute
    /\ todo' = AllInstances
    /\ UNCHANGED <<cmd, brk, table, pos, referents, fjsAddr, out, ncmds>>

\* the slots of a that hold t, and the references found in them
SlotsWith(a, t) == {i \in DOMAIN Heap[a].slots : Heap[a].slots[i].val = t}

Refs(a, t) == {[from |-> a, desc |-> Heap[a].slots[i].desc] : i \in SlotsWith(a, t)}

\* appending to a chain of references that mdb has freed
TouchesFreed(a) == \E t \in DOMAIN referents : referents[t].freed /\ SlotsWith(a, t) # {}

(* One instance of the table: each value it holds is looked up among the   *)
(* referents.  Where a chain has been freed the memory may still hold what *)
(* it held, and the chain grows as if nothing had happened ...             *)
Traverse(a) ==
    /\ pc = "trav"
    /\ a \in todo
    /\ Advance(a)
    /\ fjsAddr' = a
    /\ referents' = [t \in DOMAIN referents |->
                        [refs  |-> referents[t].refs \cup Refs(a, t),
                         n     |-> referents[t].n + Cardinality(SlotsWith(a, t)),
                         freed |-> referents[t].freed]]
    /\ UNCHANGED <<pc, cmd, brk, table, silent, pos, out, ncmds>>

\* ... or not
Wild(d) ==
    /\ pc' = "fault"
    /\ fjsAddr' = d
    /\ UNCHANGED <<cmd, brk, table, silent, pos, referents, todo, out, ncmds>>

TraverseFaults(a) ==
    /\ pc = "trav"
    /\ a \in todo
    /\ TouchesFreed(a)
    /\ Wild(a)

EndTraverse ==
    /\ pc = "trav"
    /\ todo = {}
    /\ pc' = "report"
    /\ Unmute
    /\ fjsAddr' = NULL
    /\ UNCHANGED <<cmd, brk, table, pos, referents, todo, out, ncmds>>

\* print the chains and destroy the referents
Report ==
    /\ pc = "report"
    /\ Finish("refs", {[to |-> t, refs |-> referents[t].refs, n |-> referents[t].n]
                          : t \in DOMAIN referents})
    /\ referents' = NoMap
    /\ UNCHANGED <<brk, table, silent, pos, fjsAddr, todo>>

ReportFaults ==
    /\ pc = "report"
    /\ \E t \in DOMAIN referents : referents[t].freed
    /\ Wild(fjsAddr)
-----------------------------------------------------------------------------
(* dcmd_jsfunctions, after findjsobjects_run                               *)

Functions == pc = "opts" /\ cmd.dcmd = "jsfunctions"
BadFunctions == Incomplete \/ (ListAll /\ Has("n"))
FuncShown(f) == Has("n") => Heap[funcs[f].rep].hit

FunctionsError == Functions /\ BadFunctions /\ Error /\ Quiet

\* with an address: the closures of the representative at that address
ListClosures ==
    /\ Functions /\ ~BadFunctions /\ AddrSpec
    /\ Finish("list", UNION {funcs[f].insts : f \in {g \in DOMAIN funcs :
                                                       funcs[g].rep = cmd.addr}})
    /\ Quiet

PrintFunctions ==
    /\ Functions /\ ~BadFunctions /\ ~AddrSpec
    /\ Finish("funcs", {[rep |-> funcs[f].rep, n |-> funcs[f].n, shared |-> f]
                           : f \in {g \in DOMAIN funcs : FuncShown(g)}})
    /\ Quiet
-----------------------------------------------------------------------------
\* Ctrl-C: mdb jumps out of the dcmd and the static state stays as it is
Interrupt ==
    /\ pc \in IntrAt \ {"idle", "abort", "fault"}
    /\ Finish("interrupted", {})
    /\ Quiet

ScanStep == \/ IterFails \/ ScanSkip \/ ScanFunction \/ FileFunction \/ ScanArray
            \/ ScanObject \/ ReadConstructor \/ InsertObject \/ EndScan

AnswerStep == \/ OptsError \/ ListRepresentatives \/ Match \/ ListLike \/ PrintTable
              \/ FunctionsError \/ ListClosures \/ PrintFunctions

ReferStep == \/ StartMark \/ EndMark \/ StartReferences \/ EndTraverse
             \/ Report \/ ReportFaults
             \/ \E a \in todo : \/ AddReferent(a) \/ AlreadyMarked(a) \/ AssertFails(a)
                                \/ Traverse(a) \/ TraverseFaults(a)

DcmdStep == ScanStep \/ AnswerStep \/ ReferStep

Next == \/ \E c \in Commands : Start(c) \/ StartFails(c)
        \/ DcmdStep
        \/ Interrupt

Spec == Init /\ [][Next]_vars

\* mdb runs a dcmd until it returns: its steps are never put off for ever
FairSpec == Spec /\ WF_vars(DcmdStep)
-----------------------------------------------------------------------------
(* Properties                                                              *)

ScanPcs == {"scan", "func", "ctor", "insert"}
Sig == [malformed : BOOLEAN, props : Seq(Names), nprops : Nat, ctor : Names]
Entry == [rep : Addr, insts : SUBSET Addr, n : Nat]
Referent == [refs : SUBSET [from : Addr, desc : Names], n : Nat, freed : BOOLEAN]

\* v8_silent inside the code a pc stands for, when no interrupt has upset it
Level == IF pc \in {"scan", "insert", "trav"} THEN 1
         ELSE IF pc \in {"func", "ctor"} THEN 2 ELSE 0

ControlOK ==
    /\ pc \in {"idle", "opts", "mark", "trav", "report", "abort", "fault"} \cup ScanPcs
    /\ cmd \in Commands \cup {NULL}
    /\ silent \in Nat /\ silent >= Level
    /\ pos \in 1..(Len(Words) + 1)
    /\ pc \in {"func", "ctor", "insert"} => pos <= Len(Words)
    /\ ncmds \in 0..MaxCmds

TableOK ==
    /\ DOMAIN tree \subseteq Sig /\ tree \in [DOMAIN tree -> Entry]
    /\ list \in Seq(DOMAIN tree)
    /\ DOMAIN funcs \subseteq Names /\ funcs \in [DOMAIN funcs -> Entry]

FlagsOK == brk \in BOOLEAN /\ finished \in BOOLEAN

ReferOK ==
    /\ DOMAIN referents \subseteq Addr /\ referents \in [DOMAIN referents -> Referent]
    /\ fjsAddr \in Addr \cup {NULL}
    /\ todo \subseteq Addr

(* Every variable has its type, v8_silent is never decremented below the   *)
(* level of the code that runs, and a scan stays within the words.         *)
TypeOK == ControlOK /\ FlagsOK /\ TableOK /\ ReferOK

\* the objects, and the closures, that a scan with or without -b finds
WordSet == {Words[i] : i \in DOMAIN Words}
ScanObjects(b) == {a \in WordSet : IsObject(a) /\ Scanned(a, b)}
ScanFunctions(b) == {a \in WordSet : IsFunction(a) /\ Scanned(a, b)}

\* the target has an object outside the brk heap, as a node process does
AnonObjects == ScanObjects(FALSE) # {}

(* findjsobjects_cmp and the list of instances: the groups are classes of  *)
(* one signature, their representative is one of them, and #OBJECTS counts *)
(* each object once -- in every state, whatever interrupts have left.      *)
TableSound ==
    \A s \in DOMAIN tree :
       /\ tree[s].rep \in tree[s].insts
       /\ tree[s].n = Cardinality(tree[s].insts)
       /\ \A a \in tree[s].insts : IsObject(a) /\ Signature(a) = s

(* fjs_objects is the list of the nodes of fjs_tree, before and after it   *)
(* is sorted: a walk along the list misses no group and meets none twice.  *)
ListIsTree ==
    /\ InList = DOMAIN tree
    /\ \A i, j \in DOMAIN list : list[i] = list[j] => i = j

\* the running dcmd has passed its checks
Answering == \/ pc \in {"mark", "trav", "report"}
             \/ Finder /\ ~BadOptions
             \/ Functions /\ ~BadFunctions

(* The check of fjs_finished: a dcmd that goes on to answer does so from a *)
(* table with every object a scan finds, never from one that an interrupt  *)
(* left half built (issue #91 in CHANGES.md).                              *)
AnswersComplete ==
    Answering =>
       \E b \in BOOLEAN : Insts(tree) = ScanObjects(b)

(* findjsobjects_mapping skips mappings when fjs_addr is set, and an       *)
(* interrupted -r leaves it set: no later scan is narrowed by that.        *)
NoFocusedScan == pc \in ScanPcs => fjsAddr = NULL

(* The increments and decrements of v8_silent match on every path: between *)
(* dcmds, warnings are not suppressed.                                     *)
SilentBalanced == silent = Level

(* assert(fjs->fjs_marking) in findjsobjects_referent.                     *)
AssertHolds == pc # "abort"

(* "Once run, subsequent calls to ::findjsobjects use cached data."        *)
CacheKept == [][finished /\ DOMAIN tree # {} => UNCHANGED table]_vars

(* An object stays marked until a -r has reported on it, across failing    *)
(* and interrupted dcmds.                                                  *)
MarksKept ==
    [][\A t \in DOMAIN referents :
          t \notin DOMAIN referents' => \E l \in out'.data : out'.kind = "refs" /\ l.to = t]_vars

(* Every dcmd returns to the prompt or takes the debugger down.            *)
DcmdReturns == cmd # NULL ~> (cmd = NULL \/ pc \in {"abort", "fault"})

(* The inductive invariants behind these, as the proofs need them: what    *)
(* the table holds in the middle of a scan, ...                            *)
Prefix(p) == {Words[i] : i \in 1..(p - 1)}

ScanInv ==
    /\ pc \in ScanPcs => Insts(tree) = {a \in Prefix(pos) : IsObject(a) /\ Scanned(a, brk)}
    /\ pc \in {"ctor", "insert"} => IsObject(Words[pos]) /\ Scanned(Words[pos], brk)
    /\ pc = "func" => Heap[Words[pos]].kind = "function"

(* ... who leaves fjs_addr set, ...                                        *)
FocusInv ==
    /\ pc \in ScanPcs => fjsAddr = NULL
    /\ fjsAddr # NULL => DOMAIN tree # {}
    /\ pc = "trav" => todo \subseteq Insts(tree)

(* ... and what fjs_finished means, if a scan always finds some object.    *)
CompleteInv ==
    /\ finished => \E b \in BOOLEAN : Insts(tree) = ScanObjects(b)
    /\ pc \in ScanPcs => ~finished
    /\ pc \in {"mark", "trav", "report"} => finished

(* The dcmds with their scan, cache and GC-lifetime references implement   *)
(* the promise of HeapQueries.                                             *)
Queries == INSTANCE HeapQueries WITH
    Populations <- {ScanObjects(b) : b \in BOOLEAN},
    Closures <- {ScanFunctions(b) : b \in BOOLEAN},
    Class <- Signature,
    Malformed <- LAMBDA s : s.malformed,
    Definition <- LAMBDA a : Heap[a].shared,
    RefsTo <- Refs,
    Holds <- SlotsWith,
    known <- IF finished THEN Insts(tree) ELSE {},
    marks <- DOMAIN referents,
    answer <- out

(* Every answer of every dcmd is one that HeapQueries allows.              *)
ImplementsQueries == Queries!QSpec
=============================================================================
