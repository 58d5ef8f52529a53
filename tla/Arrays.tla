------------------------------- MODULE Arrays -------------------------------
(***************************************************************************)
(* v8array_iter_elements: a callback is called for the elements of a       *)
(* JSArray, which are the first ones of a FixedArray that may be longer.   *)
(* v8fixedarray_iter_elements reads the FixedArray a page at a time, and   *)
(* stops when a read fails or the callback asks for it.  ::jsarray,        *)
(* ::jsprint and the jselement walker iterate this way.                    *)
(*                                                                         *)
(* An iteration is a record that its client keeps and takes from state to  *)
(* state with the operators of this module, each of which is one step of   *)
(* the code; between "element" and Answered the callback runs.             *)
(***************************************************************************)
EXTENDS Integers, Sequences

CONSTANT Page        \* maxnpgelts: elements read at once

ASSUME PageAssumption == Page \in Nat \ {0}

(* An array has a length (of its FixedArray), a set of indexes bad where   *)
(* that can't be read, and js, the length of the JSArray.  An iteration is *)
(* at the top of the page loop ("page"), in the loop over a page           *)
(* ("element") or done; index are the elements of the pages before, i is   *)
(* the position in the page.                                               *)
Smaller(m, n) == IF m < n THEN m ELSE n

\* a JSArray or a FixedArray without elements is not read
StartIter(a) ==
    [at |-> IF a.js = 0 \/ a.length = 0 THEN "done" ELSE "page",
     index |-> 0, i |-> 0, rv |-> 0]

PageLength(a, it) == Smaller(a.length - it.index, Page)

ReadPage(a, it) ==
    IF it.index..(it.index + PageLength(a, it) - 1) \cap a.bad # {}
    THEN [it EXCEPT !.rv = -1, !.at = "done"]
    ELSE [it EXCEPT !.i = 0, !.at = "element"]

Position(it) == it.index + it.i

InPage(a, it) == it.at = "element" /\ it.i < PageLength(a, it) /\ it.rv = 0

\* v8array_iter_one: beyond the JSArray, the iteration stops early
PastEnd(a, n) == n >= a.js

\* the callback has returned; only v8ai_rv, which no caller looks at, tells an
\* answer of the callback from another reason to stop
Answered(it, rv) == IF rv = 0 THEN [it EXCEPT !.i = @ + 1] ELSE [it EXCEPT !.rv = -1]

\* the condition of the page loop
More(a, n) == n < a.length - 1

\* the loop over a page has come to its end or has been left
PageEnds(a, it) == it.at = "element" /\ (it.i = PageLength(a, it) \/ it.rv # 0)

EndPage(a, it) ==
    [it EXCEPT !.index = Position(it),
               !.at = IF it.rv = 0 /\ More(a, Position(it)) THEN "page" ELSE "done"]
=============================================================================
