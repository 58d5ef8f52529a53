------------------------------ MODULE Inspect ------------------------------
(***************************************************************************)
(* A session of the commands on functions and on stacks, one at a time.    *)
(***************************************************************************)
EXTENDS Closures, Frames

vars == <<sessionvars, framevars>>

Init == SessionInit /\ FramesInit

(* The commands do not wait for anything: a command that has begun goes on.*)
Step ==
    \/ FunctionStep /\ UNCHANGED framevars
    \/ FrameStep
    \/ Search /\ UNCHANGED framevars

Next ==
    \/ FunctionCommands /\ UNCHANGED framevars
    \/ FrameCommands
    \/ Step

Spec == Init /\ [][Next]_vars
FairSpec == Spec /\ WF_vars(Step)
-----------------------------------------------------------------------------
Over(name) == doing = "idle" /\ cmd # NULL /\ cmd.name = name

Pairs(target_) == [i \in DOMAIN target_.decl.ctx |->
                      <<Ref(target_.decl.ctx[i]), Ref(target_.values[i])>>]
Listing(type, vars_) ==
    <<<<type, Len(vars_)>>>> \o [i \in DOMAIN vars_ |-> <<Ref(vars_[i]), i - 1>>]

IsPrefixOf(s, t) == Len(s) <= Len(t) /\ s = SubSeq(t, 1, Len(s))

(* ::jsclosure pairs each variable with its own value, whatever the layout *)
(* of the version; with an array that is cut short, as many as there are,  *)
(* and then an error.  ::v8scopeinfo lists every variable under its type.  *)
(* A bound function is shown with what was bound, in either of its forms.  *)
VariablesExact ==
    /\ Over("jsclosure") /\ target.scope \in {"none", "cut", "many"} =>
          /\ IsPrefixOf(out, Pairs(target))
          /\ result = "ok" => out = Pairs(target)
          /\ /\ target.scope = "none" /\ target.context = "none" /\ target.lost = {}
             /\ target.kind = "JSFunction" /\ "unprintable" \notin Range(target.values)
             => result = "ok"
    /\ Over("v8scopeinfo") /\ target.scope = "none" =>
          /\ result = "ok"
          /\ out = Listing("params", target.decl.params) \o Listing("stack", target.decl.stack)
                     \o Listing("ctx", target.decl.ctx)
    /\ /\ Over("jsfunction") /\ target.bound # NULL /\ target.bindings = "none" /\ target.lost = {}
       /\ cmd.layout.bound <=> target.kind = "JSBoundFunction"
       => /\ result = "ok"
          /\ out = <<Ref(target.bound.target), Ref(target.bound.this)>> \o Names(target.bound.args)
    /\ Over("v8context") /\ target.context = "none" =>
          /\ result = "ok"
          /\ [i \in DOMAIN out |-> out[i][2]] = [i \in DOMAIN out |-> ContextArray.at[i - 1]]
          /\ Len(out) = ContextArray.nelts

(* What a command leaves behind, however it ends: no memory, but for the   *)
(* source of a function that ends after it; v8_warnings as it was; the     *)
(* indentation as it was, unless a frame lacked its table of line endings; *)
(* nothing freed that is collected, but for a damaged JSBoundFunction.     *)
LeavesNothing ==
    doing = "idle" /\ cmd # NULL =>
        /\ {b \in held : b.of # "source"} = {}
        /\ held # atstart.held => \E i \in DOMAIN stack : stack[i].end = "beyond"
        /\ v8_warnings = 0
        /\ indent # atstart.indent => \E i \in fails : "line ends" \in stack[i].lost
        /\ misfreed # atstart.misfreed =>
              /\ cmd.name = "jsfunction" /\ cmd.layout.bound
              /\ target.lost # {} \/ target.bindings = "gone"
-----------------------------------------------------------------------------
Shown(lines) == {i \in DOMAIN lines : lines[i].what \in {"frame", "js"}}
ShownFrames(lines) == {lines[i].frame : i \in Shown(lines)}
InOrder(lines) == \A i, j \in Shown(lines) : i < j => lines[i].frame < lines[j].frame

ElidedIn(lines) ==
    LET Upto[n \in 0..Len(lines)] ==
          IF n = 0 THEN 0
          ELSE Upto[n - 1] + IF lines[n].what = "elided" THEN lines[n].value ELSE 0
    IN Upto[Len(lines)]

\* the function that -f asks for, as far as it can be read
IsAskedFor(frame) ==
    /\ frame.slot = "JSFunction" /\ frame.name = o.func
    /\ frame.lost \cap {"shared", "name"} = {}

(* A walk that gets to the end has handled every frame, each one once and  *)
(* in the order of the stack: it is shown, or counted as elided, or there  *)
(* was an error; with -f, exactly the readable frames of the function are  *)
(* shown.                                                                  *)
FramesAccounted ==
    Over("jsstack") /\ result = "ok" =>
        LET first == IF cmd.addr THEN 2 ELSE 1
            shown == ShownFrames(out)
        IN /\ InOrder(out)
           /\ shown \cup fails \subseteq first..Len(stack)
           /\ o.func = NULL /\ o.prop = NULL =>
                 Cardinality(shown \cup fails) + ElidedIn(out) = Len(stack) - first + 1
           /\ o.func # NULL /\ o.prop = NULL =>
                 shown = {i \in first..Len(stack) : IsAskedFor(stack[i])}

(* What is said of the function of a frame                                 *)
Parts == {"file", "posn", "this"} \cup Range(Args)

Told(lines) == {<<lines[i].frame, lines[i].what>> : i \in {j \in DOMAIN lines : lines[j].what \in Parts}}
Once(lines) ==
    \A i, j \in DOMAIN lines :
        lines[i].what \in Parts /\ i # j =>
            <<lines[i].frame, lines[i].what>> # <<lines[j].frame, lines[j].what>>

\* the frame is taken for one of JavaScript: without -f, the others are told apart first
TakenForJS(frame) == o.func = NULL => frame.special = NULL

\* its function is known and is not another one than -f asks for
Examined(frame) ==
    /\ TakenForJS(frame)
    /\ frame.slot = "JSFunction" /\ frame.lost \cap {"shared", "name"} = {}
    /\ o.func # NULL => frame.name = o.func

(* What can be said: where the function is, as far as its script is known, *)
(* and with what receiver and arguments it was called, of those parameters *)
(* it was declared with.                                                   *)
Has(frame, part) ==
    /\ part \in Parts
    /\ frame.lost \cap {"position", "script"} = {}
    /\ part # "file" => "line ends" \notin frame.lost
    /\ part \notin {"file", "posn"} => "length" \notin frame.lost
    /\ part = "this" => frame.pushed[1] \notin {NULL, "unreadable"}
    /\ \A k \in DOMAIN Args :
          part = Args[k] => k + 1 \in DOMAIN frame.pushed /\ frame.pushed[k + 1] # "unreadable"

Wanted(part) == o.prop = part \/ (o.prop = NULL /\ o.verbose)

ToSay(frames) ==
    {x \in frames \X Parts : Wanted(x[2]) /\ Examined(stack[x[1]]) /\ Has(stack[x[1]], x[2])}

\* its function cannot be read, or lacks what -p asks for, or -v has to stop at
Lacking(frame) ==
    \/ TakenForJS(frame) /\ frame.slot = "unreadable"
    \/ /\ TakenForJS(frame) /\ frame.slot = "JSFunction"
       /\ frame.lost \cap {"shared", "name"} # {}
    \/ Examined(frame) /\ o.prop # NULL /\ ~Has(frame, o.prop)
    \/ Examined(frame) /\ o.prop = NULL /\ o.verbose /\ ~Has(frame, "posn")

(* An argument is shown as what the function was called with.  When the    *)
(* command is over, -v has printed once all that can be said of each frame *)
(* it has reached that -f does not exclude, and -p that of it which it     *)
(* asks for; the frames that lack it, and only those, are reported with an *)
(* error, which ::jsframe returns and which ends ::jsstack at the first    *)
(* frame.  Left out is a command that stops at the first frame for another *)
(* reason, as without registers.                                           *)
ArgumentsRight ==
    cmd # NULL /\ cmd.name \in {"jsstack", "jsframe"} =>
        LET reached == (IF cmd.addr THEN 2 ELSE 1)..at IN
        /\ \A i \in DOMAIN out :
              /\ out[i].what = "this" => out[i].value = stack[out[i].frame].pushed[1]
              /\ \A k \in DOMAIN Args :
                    out[i].what = Args[k] => out[i].value = stack[out[i].frame].pushed[k + 1]
              /\ o.prop # NULL => out[i].what = o.prop
        /\ doing = "idle" /\ (result = "ok" \/ fails # {} \/ at > 1) =>
              /\ Once(out)
              /\ Told(out) = ToSay(reached)
              /\ fails = {i \in reached : Lacking(stack[i])}
              /\ cmd.name = "jsframe" /\ at > 1 => (result = "ok" <=> fails = {})
              /\ cmd.name = "jsstack" /\ 1 \in fails => result = "error"

(* A command on a stack without a cycle returns.                           *)
CommandEnds == [](doing # "idle" => <>(doing = "idle"))
=============================================================================
