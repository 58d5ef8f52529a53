----------------------------- MODULE MCInspect -----------------------------
(* Inspect for TLC: the layouts of V8 3.14, 4.4 and 5.1, targets with one  *)
(* thing wrong at most, and stacks of up to four frames.                   *)
EXTENDS Inspect

At(r, t, p) == [r EXCEPT !.ends = t, !.position = p]
MCTables == {<<3, 7>>, <<>>, <<4>>, <<2, 4, 6, 8>>, <<1, 3, 5, 7, 9>>, <<3, 3, 6>>, <<5, 2, 7, 1, 6>>}

MCPositions == {0, 4, 5, 7, 99}

Idx == [params |-> 1, stack |-> 2, ctx |-> 3]
L(first, off, native) ==
    [first |-> first, idx |-> Idx, offset |-> [params |-> -1, stack |-> off, ctx |-> -1],
     native |-> native, bound |-> native]
MCLayouts == {L(4, -1, FALSE), L(5, 1, FALSE), L(6, 1, TRUE)}

Decl == [params |-> <<"a">>, stack |-> <<"s", "t">>, ctx |-> <<"x", "y">>]
Own == [params |-> <<>>, stack |-> <<>>, ctx |-> <<"inner">>]
Whole ==
    [kind |-> "JSFunction", lost |-> {}, decl |-> Decl, own |-> Own, values |-> <<"vx", "vy">>,
     context |-> "none", scope |-> "none", ends |-> <<3, 7>>, position |-> 5, bound |-> NULL, bindings |-> "none"]
ABound == [Whole EXCEPT !.bound = [target |-> "target", this |-> "this", args |-> <<"p", "q">>]]

MCTargets ==
    {Whole, ABound,
     [Whole EXCEPT !.decl = [params |-> <<>>, stack |-> <<>>, ctx |-> <<>>], !.values = <<>>],
     [Whole EXCEPT !.values = <<"unprintable", "vy">>],
     [Whole EXCEPT !.kind = "other"],
     [ABound EXCEPT !.kind = "JSBoundFunction"]}
      \cup {[Whole EXCEPT !.context = d] : d \in {"gone", "cut", "tiny"}}
      \cup {[Whole EXCEPT !.scope = d] : d \in {"gone", "cut", "tiny", "many", "negative", "not a count"}}
      \cup {[Whole EXCEPT !.lost = {p}] : p \in {"shared", "context", "funcinfo", "code", "name", "closure"}}
      \cup {At(Whole, t, p) : t \in MCTables \cup {Undefined}, p \in MCPositions}
      \cup {[ABound EXCEPT !.bindings = d, !.kind = k] :
               d \in {"gone", "short"}, k \in {"JSFunction", "JSBoundFunction"}}

Fr(special, slot) ==
    [special |-> special, slot |-> slot, name |-> NULL, lost |-> {}, pushed |-> <<>>,
     ends |-> Undefined, position |-> NoPosition, end |-> "inside"]
Js(name, pushed) ==
    [special |-> NULL, slot |-> "JSFunction", name |-> name, lost |-> {}, pushed |-> pushed,
     ends |-> <<3, 7>>, position |-> 5, end |-> "inside"]
Native == Fr("native", "no type")
Entry == Fr("EntryFrame", "no type")
F1 == Js("f", <<"r", "1", "2">>)

Middles ==
    {F1, Js("g", <<NULL, "1">>), Js("g", <<"r", "unreadable", "2">>), [F1 EXCEPT !.end = "beyond"],
     Native, [F1 EXCEPT !.special = "ArgumentsAdaptorFrame"], Fr("unnamed", "Code"), Fr(NULL, "Code"),
     Fr(NULL, "other"), Fr(NULL, "unreadable")}
      \cup {At(F1, t, p) : t \in MCTables \cup {Undefined}, p \in MCPositions}
      \cup {[F1 EXCEPT !.lost = {p}] : p \in {"name", "script", "line ends", "length", "end"}}

MCStacks == {<<a, b, c, Native>> : a \in {Native, F1, Entry}, b \in Middles, c \in {F1, Entry}}
              \cup {<<Native>>, <<F1, [F1 EXCEPT !.lost = {"line ends"}]>>}

Opts(all, verbose, func, prop) ==
    [all |-> all, verbose |-> verbose, func |-> func, prop |-> prop, lines |-> verbose]
MCArgs == <<"arg1", "arg2", "arg3">>
MCOptions ==
    {Opts(FALSE, FALSE, NULL, NULL), Opts(TRUE, FALSE, NULL, NULL), Opts(FALSE, TRUE, NULL, NULL),
     Opts(FALSE, FALSE, "f", NULL), Opts(FALSE, FALSE, NULL, "file"), Opts(FALSE, FALSE, NULL, "posn"),
     Opts(FALSE, FALSE, "f", "this"), Opts(FALSE, FALSE, NULL, "arg2")}
=============================================================================
