------------------------------ MODULE FindRefs ------------------------------
(***************************************************************************)
(* ::jsfindrefs: who refers to a JavaScript value?  The search looks for   *)
(* the value in every word of the target (dbi_ugrep), walks back from each *)
(* such word to the heap object that seems to contain it (v8whatis,        *)
(* v8contains), prints that object if it is a JavaScript value, and if it  *)
(* is one of V8's FixedArrays looks for references to it in turn, up to a  *)
(* depth.  Each search for an address is a frame of a stack, as each is a  *)
(* dbi_ugrep of its own that calls back into the next.                     *)
(***************************************************************************)
EXTENDS Integers, Sequences, FiniteSets

CONSTANTS
    Objs,       \* the heap objects of the target, dead ones included
    NULL,       \* no object
    Words,      \* number of words of memory, of all mappings
    Present,    \* the words in chunks that can be read
    Value,      \* the object that each word refers to, or NULL
    Obj,        \* the objects
    MaxOffset,  \* jsfr_maxoffset, in words: how far v8whatis walks back
    Targets,    \* what references are looked for to
    Limits,     \* arguments of -l
    Shorts      \* how many values an unsigned short has, which holds the depth limit

(* at is the word of the object's map, size the number of its words as its *)
(* map or length says, sized whether that can be read; inobj is the number *)
(* of properties a JSObject holds itself, which its size includes.  Kinds  *)
(* are JSObject, JSFunction, any other JavaScript value, FixedArray, and   *)
(* any other type.                                                         *)
Object == [at : 1..Words, size : Nat, sized : BOOLEAN, inobj : Nat, garbage : BOOLEAN,
           kind : {"object", "function", "value", "array", "other"}]

(* Maps don't appear inside other objects, as v8whatis assumes.  -l 0 (or  *)
(* a number that is 0 as an unsigned short) is no limit at all: the search *)
(* then follows cyclic FixedArrays until the debugger is out of stack.     *)
ASSUME MemoryAssumption ==
    /\ Words \in Nat
    /\ Present \subseteq 1..Words
    /\ NULL \notin Objs
    /\ Value \in [1..Words -> Objs \cup {NULL}]
    /\ Obj \in [Objs -> Object]
    /\ \A p, q \in Objs : Obj[p].at <= Obj[q].at =>
          p = q \/ Obj[p].at + Obj[p].size <= Obj[q].at
    /\ MaxOffset \in Nat
    /\ Targets \subseteq Objs

ASSUME LimitAssumption ==
    /\ Shorts \in Nat \ {0}
    /\ Limits \subseteq Nat
    /\ \A l \in Limits : l % Shorts # 0

VARIABLES
    query,    \* the target and the argument of -l
    stack,    \* the searches in progress, the innermost first
    found,    \* what has been printed: objects, with the words that led there
    gaveUp,   \* "gave up after following %d references" has been printed
    status    \* "searching", "done" or "failed"

frvars == <<query, stack, found, gaveUp, status>>
-----------------------------------------------------------------------------
(* v8whatis, with a word as the address                                    *)

\* objects whose map v8whatis finds at w or before it
Heads(w) ==
    {o \in Objs : /\ Obj[o].at \in Present
                  /\ Obj[o].at <= w
                  /\ w - Obj[o].at < MaxOffset}

NotFound(w) == Heads(w) = {}

Base(w) == CHOOSE o \in Heads(w) : \A p \in Heads(w) : Obj[p].at <= Obj[o].at

(* v8contains adds the properties in the object to a size that includes    *)
(* them; what has no size that can be read counts as containing the word.  *)
Extra(o) == IF Obj[o].kind = "object" THEN Obj[o].inobj ELSE 0

ContainsAll(o, w) == TRUE
Contains(o, w) == Obj[o].sized => w < Obj[o].at + Obj[o].size + Extra(o)
-----------------------------------------------------------------------------
(* dbi_ugrep                                                               *)

Search(addr, depth) == [addr |-> addr, depth |-> depth, pos |-> 1]

Init ==
    /\ query \in [target : Targets, limit : Limits]
    /\ stack = <<Search(query.target, 0)>>
    /\ found = <<>>
    /\ gaveUp = FALSE
    /\ status = "searching"

Top == Head(stack)

\* words that refer to what the innermost search looks for
Matches == {w \in Present : w >= Top.pos /\ Value[w] = Top.addr}

NextMatch(w) ==
    /\ status = "searching"
    /\ w \in Matches
    /\ \A v \in Matches : w <= v

\* the word after the match is looked at next
ResumeLate(w) == w + 2
Resume(w) == w + 1

Resumed(w) == <<[Top EXCEPT !.pos = Resume(w)]>> \o Tail(stack)

PopNot == stack
Pop == Tail(stack)

\* every mapping has been searched
EndSearch ==
    /\ status = "searching"
    /\ Matches = {}
    /\ stack' = Pop
    /\ status' = IF stack' = <<>> THEN "done" ELSE "searching"
    /\ UNCHANGED <<query, found, gaveUp>>

(* There is no process handle, or its mappings can't be listed: the search *)
(* fails, and so do all those that it is part of.                          *)
SearchFails ==
    /\ status = "searching"
    /\ Top.pos = 1
    /\ status' = "failed"
    /\ UNCHANGED <<query, stack, found, gaveUp>>
-----------------------------------------------------------------------------
(* jsfindrefs_reference, called back at each match                         *)

\* jsfr_maxdepth, into which -l writes
MaxDepth == query.limit % Shorts

LastLevel(d) == d = MaxDepth - 1

\* "we've likely walked up to parent closures"
ParentClosure(o, d) == Obj[o].kind = "function" /\ d > 1

\* JavaScript values to print
Wanted(o, d) ==
    /\ Obj[o].kind \in {"object", "function", "value"}
    /\ ~(Obj[o].kind = "object" /\ Obj[o].garbage)
    /\ ~ParentClosure(o, d)

Intermediate(o) == Obj[o].kind = "array"

\* the word is in an object, as far as can be told
Held(w) == ~NotFound(w) /\ Contains(Base(w), w)

SkipReference(w) ==
    /\ NextMatch(w)
    /\ Held(w) => ~Wanted(Base(w), Top.depth) /\ ~Intermediate(Base(w))
    /\ stack' = Resumed(w)
    /\ UNCHANGED <<query, found, gaveUp, status>>

\* the words at which the searches in progress are, from the target on
Path(w) == [i \in DOMAIN stack |->
              IF i = Len(stack) THEN w ELSE stack[Len(stack) - i + 1].pos - 1]

FoundReference(w) ==
    /\ NextMatch(w)
    /\ Held(w)
    /\ Wanted(Base(w), Top.depth)
    /\ found' = Append(found, [obj |-> Base(w), path |-> Path(w)])
    /\ stack' = Resumed(w)
    /\ UNCHANGED <<query, gaveUp, status>>

WarnNot == UNCHANGED gaveUp
Warn == gaveUp' = TRUE

GiveUp(w) ==
    /\ NextMatch(w)
    /\ Held(w)
    /\ Intermediate(Base(w))
    /\ LastLevel(Top.depth)
    /\ Warn
    /\ stack' = Resumed(w)
    /\ UNCHANGED <<query, found, status>>

FollowReference(w) ==
    /\ NextMatch(w)
    /\ Held(w)
    /\ Intermediate(Base(w))
    /\ ~LastLevel(Top.depth)
    /\ stack' = <<Search(Base(w), (Top.depth + 1) % Shorts)>> \o Resumed(w)
    /\ UNCHANGED <<query, found, gaveUp, status>>

Next == \/ EndSearch \/ SearchFails
        \/ \E w \in Present : \/ SkipReference(w) \/ FoundReference(w)
                              \/ GiveUp(w) \/ FollowReference(w)

Spec == Init /\ [][Next]_frvars

\* mdb runs the dcmd until it returns
FairSpec == Spec /\ WF_frvars(Next)
-----------------------------------------------------------------------------
(* Every search is one level below the one that called it, and looks for   *)
(* a FixedArray that holds a reference which that one is at.               *)
TypeOK ==
    /\ query \in [target : Targets, limit : Limits]
    /\ status \in {"searching", "done", "failed"}
    /\ gaveUp \in BOOLEAN
    /\ found \in Seq([obj : Objs, path : Seq(1..Words)])
    /\ stack = <<>> <=> status = "done"
    /\ \A i \in DOMAIN stack :
          /\ stack[i].addr \in Objs
          /\ stack[i].depth = Len(stack) - i
          /\ stack[i].pos \in 1..(Words + 1)

\* the words an object really has
Extent(o) == Obj[o].at..(Obj[o].at + Obj[o].size - 1)

(* chains of n references to the target, each word but the last one in a   *)
(* FixedArray that the next one refers to; the code's idea of containment  *)
Chains[n \in 1..MaxDepth] ==
    IF n = 1 THEN {<<w>> : w \in {v \in Present : Value[v] = query.target}}
    ELSE UNION {{Append(c, w) : w \in {v \in Present : Value[v] = Base(c[n - 1])}} :
                   c \in {d \in Chains[n - 1] : Held(d[n - 1]) /\ Intermediate(Base(d[n - 1]))}}

Ends(n) == {[obj |-> Base(c[n]), path |-> c] :
               c \in {d \in Chains[n] : Held(d[n]) /\ Wanted(Base(d[n]), n - 1)}}

Reported == {found[i] : i \in DOMAIN found}

(* "attempt to find JavaScript objects referencing that value": when the   *)
(* search ends, every chain of references within the depth limit, through  *)
(* any FixedArrays and in spite of cycles, has been reported once.         *)
FindsAll ==
    /\ \A i, j \in DOMAIN found : found[i] = found[j] => i = j
    /\ status = "done" => Reported = UNION {Ends(n) : n \in 1..MaxDepth}

(* What is printed refers to the value, itself or through FixedArrays: it  *)
(* is not a live object that happens to lie before dead memory.  The       *)
(* exception is what v8contains can't tell: an object without a size, or   *)
(* the words after a JSObject with properties in it.                       *)
HoldersHold ==
    \A f \in Reported : \A i \in DOMAIN f.path :
       LET o == Base(f.path[i]) IN Obj[o].sized /\ Extra(o) = 0 => f.path[i] \in Extent(o)

(* What ::jsfindrefs prints is all that refers to the value, and only that.*)
FoundExactly == FindsAll /\ HoldersHold

(* "It's worth letting the user know when this happens": a search that has *)
(* cut off a chain has said so, and only such a search.                    *)
CutIsReported ==
    status = "done" =>
       (gaveUp <=> \E c \in Chains[MaxDepth] :
                      Held(c[MaxDepth]) /\ Intermediate(Base(c[MaxDepth])))

(* The dcmd returns, whatever cycles the FixedArrays form.                 *)
SearchEnds == <>(status # "searching")
=============================================================================
