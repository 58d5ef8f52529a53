------------------------------ MODULE JSPrint ------------------------------
(***************************************************************************)
(* ::jsprint: a JavaScript value, or what some paths of members lead to    *)
(* from it, printed into one buffer.  Objects and arrays are printed to a  *)
(* limited depth, so that it does not matter that they may contain         *)
(* themselves.  When the buffer turns out too small the whole printing is  *)
(* done again with twice the size.                                         *)
(*                                                                         *)
(* What is printed is a sequence of pieces, each as long as any other;     *)
(* space and indentation are left out, as are -v and the flags it shows,   *)
(* which ObjectProperties has.  The recursion of the code is a stack of    *)
(* frames, the innermost first.  A frame that has its own jsobj_print_t    *)
(* ("descend" in the code) begins with a copy of its caller's.             *)
(***************************************************************************)
EXTENDS Arrays, FiniteSets, SequencesExt

CONSTANTS
    Values,      \* addresses of values in the target
    Heap,        \* what is there
    Commands,    \* the command lines of ::jsprint
    BufSizes,    \* sizes of the first buffer (262144)
    MaxBuf       \* mdb_zalloc fails beyond this size

(* kind is what the printer tells apart: "plain" values need no function   *)
(* of their own, "scalar" ones have one; what is "string" or "named" (a    *)
(* function, oddball or regular expression, after the piece in head) goes  *)
(* through a string buffer.  rv is the result of printing it, or of        *)
(* walking its properties, or of loading its elements.  words are those    *)
(* of an array's FixedArray, of which length belong to the JSArray.        *)
Value == [kind   : {"plain", "scalar", "string", "named", "object", "array"},
          head   : Seq(STRING),
          text   : Seq(STRING),
          rv     : {0, 1, -1},
          props  : Seq([name : STRING, val : Values]),
          dict   : BOOLEAN,
          words  : Seq(Values),
          bad    : SUBSET Nat,
          length : Nat]

\* a step of a path: the name of a property, or an index in brackets
Name(n) == [at |-> "name", name |-> n, index |-> 0]
Index(i) == [at |-> "index", name |-> "", index |-> i]
Immediate == <<>>      \* an argument that is no string, where a path should be

Command == [root : Values, args : Seq(Seq([at : {"name", "index"}, name : STRING, index : Nat])),
            depth : Nat, a : BOOLEAN, b : BOOLEAN, limit : Nat]

\* no value is there
Nowhere == ""

(* An object has one property of a name, and bad are indexes of words.     *)
ASSUME PrintAssumption ==
    /\ Heap \in [Values -> Value] /\ Nowhere \notin Values
    /\ \A v \in Values :
          LET p == Heap[v].props
          IN  \A i, j \in DOMAIN p : p[i].name = p[j].name => i = j
    /\ \A v \in Values : Heap[v].bad \subseteq 0..(Len(Heap[v].words) - 1)
    /\ Commands \subseteq Command
    /\ BufSizes \subseteq Nat \ {0}
    /\ MaxBuf \in Nat

VARIABLES
    cmd,      \* the command line
    arg,      \* which of its members is printed
    jsop,     \* the dcmd's own jsobj_print_t
    bufsz,    \* the size of the buffer
    buf,      \* what is in it, and jsop_lenp
    stack,    \* what is still to be done
    ret,      \* what the last call returned, with the jsobj_print_t it used
    printed,  \* what has been printed, for each member
    status    \* of the dcmd

vars == <<cmd, arg, jsop, bufsz, buf, stack, ret, printed, status>>
dcmdvars == <<cmd, arg, jsop, bufsz, printed, status>>
-----------------------------------------------------------------------------
(* Buffers.                                                                *)

\* as if the terminator's byte had been left
PutButOne(b, t) ==
    LET n == Smaller(Len(t), b.left - 1)
    IN  [out |-> b.out \o SubSeq(t, 1, n), left |-> b.left - n]

\* bsnprintf: a length of zero says that something did not fit
Put(b, t) ==
    IF Len(t) < b.left
    THEN [out |-> b.out \o t, left |-> b.left - Len(t)]
    ELSE [out |-> b.out \o SubSeq(t, 1, b.left - 1), left |-> 0]

Cut(t, n) == IF n = 0 THEN <<>> ELSE SubSeq(t, 1, n - 1) \o <<"[...]">>

(* jsstr_print and jsfunc_name, with the legacy interface of string        *)
(* buffers: what does not fit is cut, and a byte is left for the           *)
(* terminator.  (V8String has what is behind it, see its CutFills.)        *)
Through(b, t, room) ==
    IF Len(t) < room THEN [out |-> b.out \o t, left |-> b.left - Len(t)]
    ELSE IF room = 0 THEN b
    ELSE [out |-> b.out \o Cut(t, room - 1), left |-> b.left - (room - 1)]
-----------------------------------------------------------------------------
Top == stack[1]
Rest == Tail(stack)
Doing(op) == stack # <<>> /\ Top.op = op
Val == Heap[Top.v]

Visit(v, jo) == [op |-> "value", v |-> v, jo |-> jo]

\* after: a call this frame has made has returned
Loop(op, v, jo) == [op |-> op, v |-> v, jo |-> jo, i |-> 1, after |-> FALSE]

Return(rv, jo) == stack' = Rest /\ ret' = [rv |-> rv, jo |-> jo] /\ UNCHANGED dcmdvars

Becomes(frame) == stack' = <<frame>> \o Rest /\ UNCHANGED <<ret, dcmdvars>>

Calls(frame) == stack' = <<frame, [Top EXCEPT !.after = TRUE]>> \o Rest
                /\ UNCHANGED <<ret, dcmdvars>>

Whole(jo) == jo.member = <<>>

\* jsop_baseaddr is there for the first member only
Base == IF cmd.b /\ arg = 1 THEN <<cmd.root>> ELSE <<>>

Address == IF Whole(Top.jo) THEN Base \o (IF cmd.a THEN <<Top.v>> ELSE <<>>) ELSE <<>>

Descended(jo) == [jo EXCEPT !.descended = TRUE]


\* a value inside the one that is printed
Deeper(jo) == [jo EXCEPT !.depth = @ - 1]

\* the value the first step of the path leads to
Along(jo) ==
    LET rest == Tail(jo.member)
    IN  [jo EXCEPT !.member = rest, !.found = @ \/ rest = <<>>]

\* only this comes back from the copy that was made for a member
FoundBy(jo) == [jo EXCEPT !.found = ret.jo.found]
-----------------------------------------------------------------------------
(* jsobj_print_value, and the functions that only print                    *)

Is(kind) == Doing("value") /\ Val.kind = kind

PrintPlain ==
    /\ Is("plain")
    /\ buf' = Put(buf, Address \o Val.text)
    /\ Return(Val.rv, Top.jo)

PrintScalar ==
    /\ Is("scalar")
    /\ buf' = Put(buf, Address \o Val.text)
    /\ Return(Val.rv, Descended(Top.jo))

\* -N
Room(b) == IF cmd.limit = 0 \/ cmd.limit >= b.left THEN b.left ELSE cmd.limit

PrintString ==
    /\ Is("string")
    /\ LET b == Put(buf, Address) IN buf' = Through(b, Val.text, Room(b))
    /\ Return(Val.rv, Top.jo)

PrintNamed ==
    /\ Is("named")
    /\ LET b == Put(buf, Address \o Val.head) IN buf' = Through(b, Val.text, b.left)
    /\ Return(Val.rv, Descended(Top.jo))

DepthLimit ==
    /\ Is("object") \/ Is("array")
    /\ Whole(Top.jo) /\ Top.jo.depth = 0
    /\ buf' = Put(buf, Address \o <<"[...]">>)
    /\ Return(0, Descended(Top.jo))
-----------------------------------------------------------------------------
(* jsobj_print_jsobject and jsobj_print_prop                               *)

OpenObject ==
    /\ Is("object") /\ Whole(Top.jo) /\ Top.jo.depth > 0
    /\ buf' = Put(buf, Address)
    /\ Becomes(Loop("props", Top.v, [Descended(Top.jo) EXCEPT !.nprops = 0]))

PrintName ==
    /\ Doing("props") /\ ~Top.after /\ Top.i <= Len(Val.props)
    /\ buf' = Put(buf, (IF Top.jo.nprops = 0 THEN <<"{">> ELSE <<>>) \o <<Val.props[Top.i].name>>)
    /\ Calls(Visit(Val.props[Top.i].val, Deeper(Top.jo)))

\* what became of the value does not matter
EndProperty ==
    /\ Doing("props") /\ Top.after
    /\ buf' = Put(buf, <<",">>)
    /\ Becomes([Top EXCEPT !.after = FALSE, !.i = @ + 1, !.jo.nprops = @ + 1])

CloseObject ==
    /\ Doing("props") /\ ~Top.after /\ Top.i > Len(Val.props) /\ Val.rv = 0
    /\ buf' = Put(buf, IF Top.jo.nprops > 0 THEN <<"}">> ELSE <<"{", "}">>)
    /\ Return(0, Top.jo)

LeaveObject ==
    /\ Doing("props") /\ ~Top.after /\ Top.i > Len(Val.props) /\ Val.rv # 0
    /\ Return(-1, Top.jo)
    /\ UNCHANGED buf
-----------------------------------------------------------------------------
(* jsobj_print_prop_member, called for the properties of an object         *)

FindMember ==
    /\ Is("object") /\ ~Whole(Top.jo)
    /\ Becomes(Loop("match", Top.v, Descended(Top.jo)))
    /\ UNCHANGED buf

Matching == Doing("match") /\ ~Top.after /\ Top.i <= Len(Val.props)

Step == Top.jo.member[1]

Matches(step, name) == step.at = "name" /\ step.name = name

IndexOnObject ==
    /\ Matching /\ Step.at = "index"
    /\ Return(-1, Top.jo)
    /\ UNCHANGED buf

OtherMember ==
    /\ Matching /\ Step.at = "name" /\ ~Matches(Step, Val.props[Top.i].name)
    /\ Becomes([Top EXCEPT !.i = @ + 1])
    /\ UNCHANGED buf

EnterMember ==
    /\ Matching /\ Matches(Step, Val.props[Top.i].name)
    /\ Calls(Visit(Val.props[Top.i].val, Along(Top.jo)))
    /\ UNCHANGED buf

\* read_heap_dict goes on unless the answer is -1, jsobj_properties if it is 0
Stops(rv) == IF Val.dict THEN rv = -1 ELSE rv # 0

LeaveMember ==
    /\ Doing("match") /\ Top.after
    /\ IF Stops(ret.rv)
       THEN Return(-1, FoundBy(Top.jo))
       ELSE Becomes([Top EXCEPT !.after = FALSE, !.i = @ + 1, !.jo = FoundBy(@)])
    /\ UNCHANGED buf

EndMembers ==
    /\ Doing("match") /\ ~Top.after /\ Top.i > Len(Val.props)
    /\ Return(Val.rv, Top.jo)
    /\ UNCHANGED buf
-----------------------------------------------------------------------------
(* jsobj_print_jsarray_member: by the index in the FixedArray, which is    *)
(* read as a whole                                                         *)

Loads(v) == v.rv = 0 /\ v.bad = {}

AtIndex == Is("array") /\ ~Whole(Top.jo)

Indexes(step, v) == Loads(v) /\ step.at = "index" /\ step.index < Len(v.words)

LoseElements ==
    /\ AtIndex /\ ~Loads(Val)
    /\ buf' = Put(buf, <<"failed">>)
    /\ Return(-1, Descended(Top.jo))

NoElement ==
    /\ AtIndex /\ Loads(Val) /\ ~Indexes(Step, Val)
    /\ Return(-1, Descended(Top.jo))
    /\ UNCHANGED buf

EnterElement ==
    /\ AtIndex /\ Indexes(Step, Val)
    /\ stack' = <<Visit(Val.words[Step.index + 1], Along(Descended(Top.jo))),
                  [op |-> "index", v |-> Top.v, jo |-> Descended(Top.jo)]>> \o Rest
    /\ UNCHANGED <<buf, ret, dcmdvars>>

LeaveElement ==
    /\ Doing("index")
    /\ Return(ret.rv, FoundBy(Top.jo))
    /\ UNCHANGED buf
-----------------------------------------------------------------------------
(* jsobj_print_jsarray and jsobj_print_jsarray_one, called for the         *)
(* elements, for all of which there is one jsobj_print_t                   *)

TheArray == [length |-> Len(Val.words), bad |-> Val.bad, js |-> Val.length]

OnArray == Is("array") /\ Whole(Top.jo) /\ Top.jo.depth > 0

LoseArray ==
    /\ OnArray /\ Val.length > 0 /\ Val.rv # 0
    /\ buf' = Put(buf, Address)
    /\ Return(-1, Descended(Top.jo))

EmptyArray ==
    /\ OnArray /\ Val.length = 0
    /\ buf' = Put(buf, Address \o <<"[", "]">>)
    /\ Return(0, Descended(Top.jo))

OpenArray ==
    /\ OnArray /\ Val.length > 0 /\ Val.rv = 0
    /\ buf' = Put(buf, Address \o <<"[">>)
    /\ Becomes([op |-> "elements", v |-> Top.v, jo |-> Descended(Top.jo), after |-> FALSE,
                sub |-> Deeper(Descended(Top.jo)), it |-> StartIter(TheArray)])

NextPage ==
    /\ Doing("elements") /\ Top.it.at = "page"
    /\ Becomes([Top EXCEPT !.it = ReadPage(TheArray, @)])
    /\ UNCHANGED buf

Alone == Val.length = 1

InElements == Doing("elements") /\ ~Top.after /\ InPage(TheArray, Top.it)

\* beyond the JSArray, or the buffer is full already
StopElements ==
    /\ InElements
    /\ PastEnd(TheArray, Position(Top.it)) \/ (~Alone /\ buf.left = 0)
    /\ Becomes([Top EXCEPT !.it = Answered(@, -1)])
    /\ UNCHANGED buf

PrintElement ==
    /\ InElements
    /\ ~PastEnd(TheArray, Position(Top.it)) /\ (Alone \/ buf.left > 0)
    /\ Calls(Visit(Val.words[Position(Top.it) + 1], Top.sub))
    /\ UNCHANGED buf

EndElement ==
    /\ Doing("elements") /\ Top.after
    /\ buf' = IF Alone THEN buf ELSE Put(buf, <<",">>)
    /\ Becomes([Top EXCEPT !.after = FALSE, !.sub = ret.jo, !.it = Answered(@, 0)])

EndElements ==
    /\ Doing("elements") /\ ~Top.after /\ PageEnds(TheArray, Top.it)
    /\ Becomes([Top EXCEPT !.it = EndPage(TheArray, @)])
    /\ UNCHANGED buf

CloseArray ==
    /\ Doing("elements") /\ Top.it.at = "done"
    /\ buf' = Put(buf, <<"]">>)
    /\ Return(0, Top.jo)
-----------------------------------------------------------------------------
(* dcmd_jsprint                                                            *)

NoJsop == [depth |-> 0, member |-> <<>>, nprops |-> 0, found |-> FALSE, descended |-> FALSE]

Init ==
    /\ cmd \in Commands
    /\ arg = 1
    /\ jsop = [NoJsop EXCEPT !.depth = cmd.depth]
    /\ bufsz \in BufSizes
    /\ buf = [out |-> <<>>, left |-> bufsz]
    /\ stack = <<>>
    /\ ret = [rv |-> 0, jo |-> NoJsop]
    /\ printed = <<>>
    /\ status = "next"

NextMember ==
    /\ status = "next"
    /\ IF cmd.args # <<>> /\ cmd.args[arg] = Immediate
       THEN status' = "usage" /\ UNCHANGED jsop
       ELSE /\ status' = "alloc"
            /\ jsop' = [jsop EXCEPT !.member = IF cmd.args = <<>> THEN <<>> ELSE cmd.args[arg]]
    /\ UNCHANGED <<cmd, arg, bufsz, buf, stack, ret, printed>>

\* jsop_lenp still has what the member before left of it
Allocate ==
    /\ status = "alloc" /\ bufsz <= MaxBuf
    /\ status' = "print"
    /\ buf' = [buf EXCEPT !.out = <<>>]
    /\ stack' = <<Visit(cmd.root, jsop)>>
    /\ UNCHANGED <<cmd, arg, jsop, bufsz, ret, printed>>

NoMemory ==
    /\ status = "alloc" /\ bufsz > MaxBuf
    /\ status' = "error"
    /\ UNCHANGED <<cmd, arg, jsop, bufsz, buf, stack, ret, printed>>

NotGrown(n) == n
Grown(n) == 2 * n

HasPrinted == status = "print" /\ stack = <<>>

Retry ==
    /\ HasPrinted /\ buf.left = 0
    /\ status' = "alloc"
    /\ bufsz' = Grown(bufsz)
    /\ buf' = [buf EXCEPT !.left = Grown(bufsz)]
    /\ jsop' = ret.jo
    /\ UNCHANGED <<cmd, arg, stack, ret, printed>>

\* without a word if the failure was further down
Fail ==
    /\ HasPrinted /\ buf.left > 0
    /\ Whole(jsop) /\ ret.rv # 0
    /\ status' = "error"
    /\ printed' = IF ret.jo.descended THEN printed ELSE Append(printed, buf.out)
    /\ jsop' = ret.jo
    /\ UNCHANGED <<cmd, arg, bufsz, buf, stack, ret>>

SameJsop(jo) == jo
NextJsop(jo) == [jo EXCEPT !.found = FALSE]

Show ==
    /\ HasPrinted /\ buf.left > 0
    /\ ~Whole(jsop) \/ ret.rv = 0
    /\ printed' = Append(printed, IF ~Whole(jsop) /\ ~ret.jo.found
                                  THEN Base \o <<"undefined">> ELSE buf.out)
    /\ jsop' = NextJsop(ret.jo)
    /\ arg' = arg + 1
    /\ status' = IF arg < Len(cmd.args) THEN "next" ELSE "ok"
    /\ UNCHANGED <<cmd, bufsz, buf, stack, ret>>

Next == \/ NextMember \/ Allocate \/ NoMemory \/ Retry \/ Fail \/ Show
        \/ PrintPlain \/ PrintScalar \/ PrintString \/ PrintNamed \/ DepthLimit
        \/ OpenObject \/ PrintName \/ EndProperty \/ CloseObject \/ LeaveObject
        \/ FindMember \/ IndexOnObject \/ OtherMember \/ EnterMember
        \/ LeaveMember \/ EndMembers
        \/ LoseElements \/ NoElement \/ EnterElement \/ LeaveElement
        \/ LoseArray \/ EmptyArray \/ OpenArray \/ NextPage \/ StopElements
        \/ PrintElement \/ EndElement \/ EndElements \/ CloseArray

Spec == Init /\ [][Next]_vars

\* the dcmd runs until it returns
FairSpec == Spec /\ WF_vars(Next)
-----------------------------------------------------------------------------
(* What the command c should print: the values of an object or an array,   *)
(* in order, each printed on its own.                                      *)

\* -b and -a, where n members have been printed before
Addresses(c, v, n) ==
    (IF c.b /\ n = 0 THEN <<c.root>> ELSE <<>>) \o (IF c.a THEN <<v>> ELSE <<>>)

Limited(c, t) == IF c.limit = 0 \/ Len(t) < c.limit THEN t ELSE Cut(t, c.limit - 1)

\* the elements that can be read from the first on, page by page
Elements(v) ==
    LET lost == {k \in 0..Len(v.words) : (Page * k)..(Page * k + Page - 1) \cap v.bad # {}}
    IN  SubSeq(v.words, 1, Min({v.length, Len(v.words)} \cup {Page * k : k \in lost}))

\* the properties and elements, where inside is how values inside are printed
Properties(v, inside) ==
    [i \in DOMAIN v.props |-> <<v.props[i].name>> \o inside[v.props[i].val] \o <<",">>]

Members(v, inside) ==
    [i \in DOMAIN Elements(v) |->
       inside[Elements(v)[i]] \o (IF v.length = 1 THEN <<>> ELSE <<",">>)]

Contents(c, v, d, inside) ==
    CASE v.kind \in {"plain", "scalar"} -> v.text
      [] v.kind = "string" -> Limited(c, v.text)
      [] v.kind = "named" -> v.head \o v.text
      [] v.kind \in {"object", "array"} /\ d = 0 -> <<"[...]">>
      [] v.kind = "object" /\ d > 0 ->
           (IF v.props # <<>> \/ v.rv = 0 THEN <<"{">> ELSE <<>>)
             \o FlattenSeq(Properties(v, inside)) \o (IF v.rv = 0 THEN <<"}">> ELSE <<>>)
      [] v.kind = "array" /\ d > 0 /\ v.length > 0 /\ v.rv # 0 -> <<>>
      [] OTHER -> <<"[">> \o FlattenSeq(Members(v, inside)) \o <<"]">>

\* for every depth that is left, and every value
Rendered(c, n) ==
    LET r[d \in 0..c.depth] ==
          [v \in Values |->
             Addresses(c, v, n) \o
             Contents(c, Heap[v], d, IF d = 0 THEN [w \in Values |-> <<>>] ELSE r[d - 1])]
    IN  r

\* where a step leads to from v
Goes(v, step) ==
    IF v = Nowhere THEN Nowhere
    ELSE LET x == Heap[v] IN
         IF x.kind = "array" /\ Indexes(step, x) THEN x.words[step.index + 1]
         ELSE IF x.kind = "object" /\ \E i \in DOMAIN x.props : Matches(step, x.props[i].name)
         THEN x.props[CHOOSE i \in DOMAIN x.props : Matches(step, x.props[i].name)].val
         ELSE Nowhere

Trail(c, path) ==
    LET to[i \in 0..Len(path)] == IF i = 0 THEN c.root ELSE Goes(to[i - 1], path[i])
    IN  to

Destination(c, path) == Trail(c, path)[Len(path)]

Ended == status \in {"ok", "error", "usage"}

\* a value that a string buffer may have cut
Shortened(v, t, s) ==
    /\ Heap[v].kind \in {"string", "named"}
    /\ \E n \in 0..Len(s) : t \in {SubSeq(s, 1, n), Cut(s, n)}

(* ::jsprint without members, for any size of the first buffer: when it    *)
(* succeeds it prints all that the depth allows, however often it had to   *)
(* begin again, with what failed further down left out and what follows it *)
(* printed all the same.  Only a value that is itself a string or a name   *)
(* may be cut.                                                             *)
PrintsWhole ==
    status = "ok" /\ cmd.args = <<>> =>
       LET s == Rendered(cmd, 0)[cmd.depth][cmd.root]
       IN  Len(printed) = 1 /\ (printed[1] = s \/ Shortened(cmd.root, printed[1], s))

(* ::jsprint with members: for each of them the value at the end of its    *)
(* path as it is printed alone, and "undefined" exactly where the path     *)
(* leads nowhere, whatever was found, printed or failed for the members    *)
(* before it.                                                              *)
MembersExact ==
    /\ status = "ok" => Len(printed) >= Len(cmd.args)
    /\ cmd.args # <<>> =>
          \A k \in DOMAIN printed :
             LET v == Destination(cmd, cmd.args[k]) IN
             IF v = Nowhere
             THEN printed[k] = (IF cmd.b /\ k = 1 THEN <<cmd.root>> ELSE <<>>) \o <<"undefined">>
             ELSE LET s == Rendered(cmd, k - 1)[cmd.depth][v]
                  IN  printed[k] = s \/ Shortened(v, printed[k], s)

(* ::jsprint ends, however deep the command asks to go and whatever        *)
(* contains itself.                                                        *)
PrintEnds == <>Ended
=============================================================================
