------------------------------ MODULE Closures ------------------------------
(***************************************************************************)
(* The commands that print a function, a context or a ScopeInfo, over the  *)
(* handles of mdb_v8_function.c: ::jsclosure, ::jsfunction, ::v8function,  *)
(* ::v8context, ::v8scopeinfo and ::v8code.  A command loads handles one   *)
(* after the other, each from the last; any of the loads may fail, for     *)
(* what the target has there or for want of memory.                        *)
(*                                                                         *)
(* Contexts and ScopeInfos are arrays.  How V8 lays them out differs from  *)
(* version to version and is known from the metadata.                      *)
(***************************************************************************)
EXTENDS Session, Functions

CONSTANTS
    Layouts,        \* the layouts of the versions of V8
    Targets,        \* what a command is used on
    Word,           \* 2^w, for the width w of a word
    Smis            \* 2^(w - n), for the n bits that tag a small integer

VarTypes == <<"params", "stack", "ctx">>    \* v8scopeinfo_vartypes
StaticSlots == <<"closure function", "previous context", "extension">>
Common == 4         \* V8_CONTEXT_NCOMMON

Smi(n) == [smi |-> TRUE, n |-> n, ref |-> ""]
Ref(x) == [smi |-> FALSE, n |-> 0, ref |-> x]

(* An array in the target, or what is not one.  at is indexed from 0.      *)
Array(s) == [ok |-> TRUE, nelts |-> Len(s), at |-> [i \in 0..(Len(s) - 1) |-> s[i + 1]]]
NoArray == [ok |-> FALSE, nelts |-> 0, at |-> <<>>]

(* A layout: how many entries come before the names, where among them the  *)
(* count of each type is, and what else comes before its names.            *)
Layout == [first : Nat, idx : [params : Nat, stack : Nat, ctx : Nat],
           offset : [params : {-1}, stack : {-1, 1}, ctx : {-1}],
           native : BOOLEAN, bound : BOOLEAN]

Declared == [params : Seq(STRING), stack : Seq(STRING), ctx : Seq(STRING)]
Size(decl) == Len(decl.params) + Len(decl.stack) + Len(decl.ctx)

Target == [kind : {"JSFunction", "JSBoundFunction", "other"},
           lost : SUBSET STRING, decl : Declared, own : Declared, values : Seq(STRING),
           context : {"none", "gone", "cut", "tiny"},
           scope : {"none", "gone", "cut", "tiny", "many", "negative", "not a count"},
           ends : Tables \cup {Undefined}, position : Positions \cup {NoPosition},
           bound : {NULL} \cup [target : STRING, this : STRING, args : Seq(STRING)],
           bindings : {"none", "gone", "short"}]

(* Memory has room for what is in it: every count is a small integer.      *)
ASSUME ClosuresAssumption ==
    /\ Layouts \subseteq Layout /\ Targets \subseteq Target
    /\ \A L \in Layouts :
          /\ L.idx.params # L.idx.stack /\ L.idx.stack # L.idx.ctx /\ L.idx.ctx # L.idx.params
          /\ L.idx.params < L.first /\ L.idx.stack < L.first /\ L.idx.ctx < L.first
    /\ \A t \in Targets :
          /\ Len(t.values) = Len(t.decl.ctx)
          /\ t.bound # NULL => t.kind # "other"
    /\ Word \in Nat /\ Smis \in Nat /\ Smis <= Word
    /\ \A L \in Layouts, t \in Targets : L.first + 2 + Size(t.decl) < Smis
-----------------------------------------------------------------------------
(* What V8 has put into the target.  A ScopeInfo: the static part with the *)
(* counts of the variables of each type, then the names, those of the      *)
(* stack locals after their first slot in the versions that have it.       *)
Names(vars) == [i \in DOMAIN vars |-> Ref(vars[i])]

ScopeInfo(L, decl) ==
    Array([i \in 1..L.first |->
              CASE i = L.idx.params + 1 -> Smi(Len(decl.params))
                [] i = L.idx.stack + 1 -> Smi(Len(decl.stack))
                [] i = L.idx.ctx + 1 -> Smi(Len(decl.ctx))
                [] OTHER -> Smi(0)]
          \o Names(decl.params)
          \o (IF L.offset.stack = 1 THEN <<Smi(7)>> ELSE <<>>) \o Names(decl.stack)
          \o Names(decl.ctx))

(* A Context: the closure it belongs to, the context before it, what       *)
(* extends it, the native context (or the global object), the values.      *)
Context(values) ==
    Array(<<Ref("closure"), Ref("previous"), Ref("extension"), Ref("native")>> \o Names(values))

(* What may be wrong with an array in a damaged core file.                 *)
Count(array, i, c) == [array EXCEPT !.at[i] = c]
Cut(array, n) ==
    [ok |-> TRUE, nelts |-> array.nelts - n,
     at |-> [i \in 0..(array.nelts - n - 1) |-> array.at[i]]]

Damaged(array, L, damage) ==
    CASE damage = "gone" -> NoArray
      [] damage = "cut" -> Cut(array, 1)
      [] damage = "tiny" -> Cut(array, array.nelts - 2)
      [] damage = "many" -> Count(array, L.idx.ctx, Smi(array.at[L.idx.ctx].n + 1))
      [] damage = "negative" -> Count(array, L.idx.params, Smi(-1))
      [] damage = "not a count" -> Count(array, L.idx.stack, Ref("string"))
      [] OTHER -> array
-----------------------------------------------------------------------------
(* v8context_load and v8scopeinfo_load: what they accept.                  *)
ContextLoads(array) == array.ok /\ array.nelts >= Common

ScopeInfoLoads(array, L) ==
    /\ array.ok /\ array.nelts >= L.first
    /\ \A t \in DOMAIN L.idx : array.at[L.idx[t]].smi

(* v8scopeinfo_vartype_nvars: the count, its word shifted as an unsigned   *)
(* one, so that a negative count turns into a large one.                   *)
NVars(array, L, type) == array.at[L.idx[type]].n % Smis

(* The entries before the names of a type that are not names.              *)
Offset(L, type) == IF L.offset[type] = -1 THEN 0 ELSE L.offset[type]

(* The type is the one looked for if its count is at the same index.       *)
SameType(L, t, type) == L.idx[t] = L.idx[type]

(* The same without the entries that come before the names of the type.    *)
SkipOnlyBefore(array, L, type) ==
    LET Rest[i \in 1..(Len(VarTypes) + 1)] ==
          IF i > Len(VarTypes) \/ SameType(L, VarTypes[i], type) THEN 0
          ELSE Offset(L, VarTypes[i]) + NVars(array, L, VarTypes[i]) + Rest[i + 1]
    IN (L.first + Rest[1]) % Word

(* Where the names of a type begin: after those of the types before it,    *)
(* and after the entries that are no names, of these types and its own.    *)
Skip(array, L, type) ==
    LET Rest[i \in 1..(Len(VarTypes) + 1)] ==
          IF i > Len(VarTypes) THEN 0
          ELSE Offset(L, VarTypes[i])
                 + IF SameType(L, VarTypes[i], type) THEN 0
                   ELSE NVars(array, L, VarTypes[i]) + Rest[i + 1]
    IN (L.first + Rest[1]) % Word

(* v8scopeinfo_iter_vars: the variables up to the first that is past the   *)
(* end of the ScopeInfo or that the callback refuses.                      *)
Variable(array, L, type, i) == (Skip(array, L, type) + i) % Word

VarsOf(array, L, type, Accepts(_, _)) ==
    LET nvars == NVars(array, L, type)
        Stops(i) == \/ i = nvars
                    \/ Variable(array, L, type, i) >= array.nelts
                    \/ ~Accepts(array.at[Variable(array, L, type, i)], i)
        n == CHOOSE k \in 0..nvars : Stops(k) /\ \A j \in 0..(k - 1) : ~Stops(j)
    IN [n |-> n, rv |-> IF n = nvars THEN 0 ELSE -1,
        name |-> [i \in 1..n |-> array.at[Variable(array, L, type, i - 1)]]]

(* v8context_var_value and v8context_elt.                                  *)
HasValue(context, i) == i + Common < context.nelts
Value(context, i) == context.at[i + Common]
-----------------------------------------------------------------------------
(* A command on a target.  Its steps, in their order; one that fails goes  *)
(* on at "out", where there is one, and else returns.                      *)
Steps ==
    [jsclosure |-> <<"function", "context", "context_scopeinfo", "closure_vars">>,
     jsfunction |-> <<"bound", "function", "funcinfo", "strbuf", "name", "path", "location",
                      "out">>,
     v8function |-> <<"function", "context", "funcinfo", "code", "strbuf", "name", "path",
                      "location", "scopeinfo", "instructions", "out">>,
     v8scopeinfo |-> <<"scopeinfo", "params", "stack", "ctx">>,
     v8context |-> <<"context", "slots">>,
     v8code |-> <<"code", "instructions", "out">>]

Collects(c) == c.name # "v8function"                   \* UM_GC
MayFail(c) == c.name \in {"v8function", "v8code"}       \* UM_NOSLEEP
Raises(c) == c.name \in {"v8function", "jsfunction"}    \* v8_warnings
HasOut(c) == "out" \in {Steps[c.name][i] : i \in DOMAIN Steps[c.name]}

After(step) ==
    LET s == Steps[cmd.name]
        i == CHOOSE j \in DOMAIN s : s[j] = step
    IN IF i = Len(s) THEN "return" ELSE s[i + 1]

target == cmd.target
ContextArray == Damaged(Context(target.values), cmd.layout, target.context)
ScopeArray(decl) == Damaged(ScopeInfo(cmd.layout, decl), cmd.layout, target.scope)

functionvars == <<cmd, commands, indent, atstart, searchvars>>

Goto(step) == doing' = step /\ UNCHANGED result

Return(rv) ==
    /\ doing' = "idle" /\ result' = rv
    /\ held' = Collected(held)

(* A step that fails: the frees at out, if the command has them, come next.*)
Fails == IF HasOut(cmd) THEN doing' = "out" /\ result' = "error" /\ UNCHANGED held
                        ELSE Return("error")

(* A handle is loaded if the target has what it needs and there is memory. *)
Load(step, can, blocks) ==
    /\ doing = step
    /\ \/ can /\ Goto(After(step)) /\ held' = held \cup Blocks(blocks, Collects(cmd))
       \/ (~can \/ MayFail(cmd)) /\ Fails
    /\ UNCHANGED <<functionvars, out, misfreed>>

IsFunction == target.kind = "JSFunction" /\ "shared" \notin target.lost

(* v8function_load and, in the commands that raise v8_warnings, the place  *)
(* where they do.                                                          *)
v8function_load ==
    /\ Load("function", IsFunction, {"function"})
    /\ v8_warnings' = IF Raises(cmd) THEN v8_warnings + 1 ELSE v8_warnings

v8function_context ==
    /\ Load("context",
            (cmd.name = "v8context" \/ "context" \notin target.lost) /\ ContextLoads(ContextArray),
            {"context", "context elements"})
    /\ UNCHANGED v8_warnings

v8funcinfo_load ==
    /\ Load("funcinfo", "funcinfo" \notin target.lost, {"funcinfo"})
    /\ UNCHANGED v8_warnings

v8code_load ==
    /\ Load("code", "code" \notin target.lost, {"code"})
    /\ UNCHANGED v8_warnings

mdbv8_strbuf_alloc ==
    /\ Load("strbuf", TRUE, {"strbuf", "strbuf bytes"})
    /\ UNCHANGED v8_warnings

(* The ScopeInfo of a context is the one of the function that made it, by  *)
(* way of the closure in the context; the function is freed again.         *)
v8context_scopeinfo ==
    /\ Load("context_scopeinfo",
            "closure" \notin target.lost /\ ScopeInfoLoads(ScopeArray(target.decl), cmd.layout),
            {"scopeinfo", "scopeinfo elements"})
    /\ UNCHANGED v8_warnings

v8scopeinfo_load ==
    /\ Load("scopeinfo", ScopeInfoLoads(ScopeArray(target.decl), cmd.layout),
            {"scopeinfo", "scopeinfo elements"})
    /\ cmd.name = "v8scopeinfo"
    /\ UNCHANGED v8_warnings

(* ::v8function goes on without the ScopeInfo of the function itself.      *)
v8function_scopeinfo ==
    /\ doing = "scopeinfo" /\ cmd.name = "v8function"
    /\ \/ /\ ScopeInfoLoads(ScopeArray(target.own), cmd.layout)
          /\ held' = held \cup Blocks({"scopeinfo", "scopeinfo elements"}, FALSE)
       \/ UNCHANGED held
    /\ Goto(After("scopeinfo"))
    /\ UNCHANGED <<functionvars, out, misfreed, v8_warnings>>

(* Before V8 had JSBoundFunction, a bound function is a function that has  *)
(* bindings: the target, the value of this and the arguments.              *)
Bindings == Array([i \in 1..2 |-> Ref(<<target.bound.target, target.bound.this>>[i])]
                    \o Names(target.bound.args))

BoundArray ==
    IF target.bindings = "gone" THEN NoArray
    ELSE IF cmd.layout.bound THEN Array(Names(target.bound.args))
    ELSE IF target.bindings = "short" THEN Cut(Bindings, Bindings.nelts - 1) ELSE Bindings

arg0 == IF cmd.layout.bound THEN 0 ELSE 2              \* v8bf_idx_arg0

(* v8boundfunction_load_bindings, v8boundfunction_load_direct.             *)
LoadsBindings ==
    /\ IsFunction /\ "funcinfo" \notin target.lost
    /\ target.bound # NULL
    /\ BoundArray.ok /\ BoundArray.nelts >= 2

LoadsDirect ==
    /\ target.kind = "JSBoundFunction"
    /\ BoundArray.ok /\ target.lost = {}

BoundLines ==
    (IF cmd.layout.bound THEN <<Ref(target.bound.target), Ref(target.bound.this)>>
                         ELSE <<BoundArray.at[0], BoundArray.at[1]>>)
      \o [i \in 1..(BoundArray.nelts - arg0) |-> BoundArray.at[arg0 + i - 1]]

(* v8boundfunction_load_direct stores the flags in the handle only at its  *)
(* end: what it frees when the target lacks something is freed as if it    *)
(* were not collected.                                                     *)
v8boundfunction_load ==
    /\ doing = "bound"
    /\ LET loads == IF cmd.layout.bound THEN LoadsDirect ELSE LoadsBindings
       IN \/ loads /\ Say(BoundLines) /\ Return("ok") /\ UNCHANGED misfreed
          \/ /\ ~loads
             /\ misfreed' = (misfreed \/ (cmd.layout.bound /\ target.kind = "JSBoundFunction"))
             /\ Goto(After("bound"))
             /\ UNCHANGED <<held, out>>
    /\ UNCHANGED <<functionvars, v8_warnings>>

(* The name: for ::jsfunction, one that cannot be written is the end.      *)
v8funcinfo_funcname ==
    /\ doing = "name"
    /\ IF cmd.name = "jsfunction" /\ "name" \in target.lost
          THEN Fails
          ELSE Goto(After("name")) /\ UNCHANGED held
    /\ UNCHANGED <<functionvars, out, misfreed, v8_warnings>>

v8funcinfo_scriptpath ==
    /\ doing = "path"
    /\ Goto(After("path"))
    /\ UNCHANGED <<functionvars, out, held, misfreed, v8_warnings>>

v8funcinfo_definition_location ==
    /\ doing = "location"
    /\ BeginSearch("definition_location", target.ends, target.position)
    /\ Goto("searching")
    /\ UNCHANGED <<cmd, commands, indent, atstart, out, held, misfreed, v8_warnings>>

located ==
    /\ doing = "searching" /\ ~Searching /\ cmd.name \in {"jsfunction", "v8function"}
    /\ IF search = "failed" THEN UNCHANGED out ELSE Say(<<Found>>)
    /\ EndSearch
    /\ Goto(After("location"))
    /\ UNCHANGED <<cmd, commands, indent, atstart, held, misfreed, v8_warnings>>

(* do_v8code: the instructions; they may not be disassembled.              *)
do_v8code ==
    /\ doing = "instructions"
    /\ doing' = "out" /\ result' \in {"none", "error"}
    /\ UNCHANGED <<functionvars, out, held, misfreed, v8_warnings>>

FreedNoScope ==
    CASE cmd.name = "v8code" -> {"code"}
      [] cmd.name = "jsfunction" -> {"funcinfo", "function", "strbuf", "strbuf bytes"}
      [] OTHER -> {"code", "funcinfo", "context", "context elements", "function", "strbuf",
                   "strbuf bytes"}

(* What every end of ::v8function, ::jsfunction and ::v8code goes through. *)
Freed ==
    CASE cmd.name = "v8code" -> {"code"}
      [] cmd.name = "jsfunction" -> {"funcinfo", "function", "strbuf", "strbuf bytes"}
      [] OTHER -> {"code", "funcinfo", "scopeinfo", "scopeinfo elements", "context",
                   "context elements", "function", "strbuf", "strbuf bytes"}

out_label ==
    /\ doing = "out"
    /\ doing' = "idle" /\ result' = IF result = "error" THEN "error" ELSE "ok"
    /\ held' = Collected(maybefree(Freed, Collects(cmd)))
    /\ misfreed' = (misfreed \/ FreesCollected(Freed, Collects(cmd)))
    /\ v8_warnings' = IF Raises(cmd) THEN v8_warnings - 1 ELSE v8_warnings
    /\ UNCHANGED <<functionvars, out>>

(* ::jsclosure: the variables of the context with their values, up to one  *)
(* that cannot be printed.                                                 *)
jsclosure_iter_var(name, i) ==
    /\ ~name.smi
    /\ HasValue(ContextArray, i)
    /\ Value(ContextArray, i) # Ref("unprintable")

jsclosure ==
    /\ doing = "closure_vars"
    /\ LET vars == VarsOf(ScopeArray(target.decl), cmd.layout, "ctx", jsclosure_iter_var)
       IN /\ Say([i \in 1..vars.n |-> <<vars.name[i], Value(ContextArray, i - 1)>>])
          /\ Return(IF vars.rv = 0 THEN "ok" ELSE "error")
    /\ UNCHANGED <<functionvars, misfreed, v8_warnings>>

(* ::v8scopeinfo: the variables of every type, after their count.          *)
do_v8scopeinfo_vartype_print ==
    /\ doing \in Range(VarTypes)
    /\ LET array == ScopeArray(target.decl)
           vars == VarsOf(array, cmd.layout, doing, LAMBDA name, i : TRUE)
       IN /\ Say(<<<<doing, NVars(array, cmd.layout, doing)>>>>
                   \o [i \in 1..vars.n |-> <<vars.name[i], i - 1>>])
          /\ IF vars.rv # 0 \/ After(doing) = "return"
                THEN Return(IF vars.rv = 0 THEN "ok" ELSE "error")
                ELSE Goto(After(doing)) /\ UNCHANGED held
    /\ UNCHANGED <<functionvars, misfreed, v8_warnings>>

(* ::v8context: v8context_iter_static_slots, v8context_iter_dynamic_slots. *)
StaticLines ==
    [i \in DOMAIN StaticSlots |-> <<StaticSlots[i], ContextArray.at[i - 1]>>]
      \o <<<<IF cmd.layout.native THEN "native context" ELSE "global object", ContextArray.at[3]>>>>

DynamicLines ==
    [i \in 1..(ContextArray.nelts - Common) |-> <<"slot", Value(ContextArray, i - 1)>>]

v8context ==
    /\ doing = "slots"
    /\ Say(StaticLines \o DynamicLines)
    /\ Return("ok")
    /\ UNCHANGED <<functionvars, misfreed, v8_warnings>>

FunctionStep ==
    \/ v8function_load \/ v8function_context \/ v8funcinfo_load \/ v8code_load
    \/ mdbv8_strbuf_alloc \/ v8context_scopeinfo \/ v8scopeinfo_load \/ v8function_scopeinfo
    \/ v8boundfunction_load \/ v8funcinfo_funcname \/ v8funcinfo_scriptpath
    \/ v8funcinfo_definition_location \/ located \/ do_v8code \/ out_label
    \/ jsclosure \/ do_v8scopeinfo_vartype_print \/ v8context

FunctionCommands ==
    /\ Ready
    /\ \E name \in DOMAIN Steps, L \in Layouts, t \in Targets :
        /\ L.bound \/ t.kind # "JSBoundFunction"
        /\ Begin([name |-> name, layout |-> L, target |-> t], Steps[name][1])
=============================================================================
