----------------------------- MODULE MCFindRefs -----------------------------
(* FindRefs for TLC: a value that is held directly, twice by one object,   *)
(* through FixedArrays that refer to each other and to themselves, by a    *)
(* closure, by garbage, by an object of another type, by dead memory, and  *)
(* from where no object, or no memory, can be found.                       *)
EXTENDS FindRefs

CONSTANTS t, obj, fa1, fa2, arr, fn, dead, code, fa3

MCObjs == {t, obj, fa1, fa2, arr, fn, dead, code, fa3}

O(a, n, k) == [at |-> a, size |-> n, sized |-> TRUE, inobj |-> 0, garbage |-> FALSE,
               kind |-> k]

MCObj ==
    [o \in MCObjs |->
       CASE o = t -> O(1, 2, "value")
         [] o = obj -> [O(3, 3, "object") EXCEPT !.inobj = 2]
         [] o = fa1 -> O(6, 4, "array")
         [] o = arr -> O(10, 2, "value")
         [] o = fa2 -> O(12, 3, "array")
         [] o = fn -> O(15, 2, "function")
         [] o = dead -> [O(18, 2, "object") EXCEPT !.garbage = TRUE]
         [] o = code -> O(20, 2, "other")
         [] o = fa3 -> [O(24, 2, "array") EXCEPT !.sized = FALSE]]

MCWords == 30

MCValue ==
    [w \in 1..MCWords |->
       CASE w \in {4, 5, 7, 13, 17, 19, 21, 22, 25, 26, 29, 30} -> t
         [] w \in {2, 9, 11, 14} -> fa1
         [] w \in {8, 16} -> fa2
         [] w = 23 -> fa3
         [] OTHER -> NULL]

MCPresent == (1..MCWords) \ {30}
=============================================================================
