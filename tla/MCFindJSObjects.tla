-------------------------- MODULE MCFindJSObjects --------------------------
(* Instances of FindJSObjects for TLC: a small heap and the command lines  *)
(* of each run.                                                            *)
EXTENDS FindJSObjects

CONSTANTS o1, o2, bad, arr, f1, f2, f3, b1, txt, lost

MCAddr == {o1, o2, bad, arr, f1, f2, f3, b1, txt, lost}

MCNames == {"p", "0", "1", "<unknown>", "Foo", "", "Array", "none", "sfi"}

MCAnon == {"anon1", "anon2"}
MCBrk == {"brk"}
MCReadable == {"anon1", "brk"}

Slot(d, v) == [desc |-> d, val |-> v]

W(m, k, c, sl) == [map |-> m, kind |-> k, loads |-> TRUE, garbage |-> FALSE, hit |-> FALSE,
                   ctor |-> c, length |-> 0, slots |-> sl, shared |-> "none"]

(* Two objects of one shape that refer to each other, an object that can't *)
(* be understood, an array of them, two closures of one definition, a      *)
(* function that can't be loaded, a word in a text mapping, one in a       *)
(* mapping that can't be read, and an object in the brk heap.              *)
FullHeap ==
    [a \in MCAddr |->
       CASE a = o1 -> W("anon1", "object", "Foo", <<Slot("p", o2)>>)
         [] a = o2 -> [W("anon1", "object", "Foo", <<Slot("p", o1)>>) EXCEPT !.hit = TRUE]
         [] a = bad -> W("anon1", "object", "", <<Slot("<unknown>", NULL)>>)
         [] a = arr -> [W("anon1", "array", "", <<Slot("0", o1), Slot("1", o1)>>)
                          EXCEPT !.length = 2]
         [] a \in {f1, f2} -> [W("anon1", "function", "", <<>>) EXCEPT !.shared = "sfi"]
         [] a = f3 -> [W("anon1", "function", "", <<>>) EXCEPT !.loads = FALSE]
         [] a = b1 -> W("brk", "object", "Foo", <<Slot("p", o2)>>)
         [] a = txt -> W("file", "object", "Foo", <<>>)
         [] a = lost -> W("anon2", "object", "Foo", <<>>)]

Cmd(d, a, o) == [dcmd |-> d, addr |-> a, opts |-> o]
Fjs(a, o) == Cmd("findjsobjects", a, o)

ScanCommands == {Fjs(NULL, {}), Fjs(NULL, {"b", "a"}), Cmd("jsfunctions", NULL, {})}

AllCommands ==
    ScanCommands \cup
    {Fjs(NULL, {"l"}), Fjs(NULL, {"l", "p"}), Fjs(NULL, {"p"}), Fjs(o2, {"c"}),
     Fjs(NULL, {"k"}), Fjs(NULL, {"p", "c"}), Fjs(txt, {"p"}), Fjs(o2, {}), Fjs(txt, {}),
     Fjs(NULL, {"m"}), Fjs(o1, {"m", "r"}), Fjs(o1, {"m"}), Fjs(o2, {"r"}), Fjs(NULL, {"r"}),
     Fjs(o1, {"l", "m"}),
     Cmd("jsfunctions", f1, {"l"}), Cmd("jsfunctions", NULL, {"l", "n"}),
     Cmd("jsfunctions", NULL, {"n"})}

CrashCommands ==
    ScanCommands \cup {Fjs(o1, {"m"}), Fjs(o2, {"l", "m"}), Fjs(NULL, {"r"})}

MarkCommands == {Fjs(o1, {"m"}), Fjs(o1, {"r"})}

AllPcs == {"scan", "func", "ctor", "insert", "opts", "mark", "trav", "report"}

WordsOfScan == <<o1, f1, bad, o2, arr, f3, f2, txt, lost, b1>>
=============================================================================
