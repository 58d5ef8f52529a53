--------------------------- MODULE MCObjectTrees ---------------------------
(* ObjectTrees with objects of every malformed flag, up to two property    *)
(* names of two, and an array length or a constructor beside them; and     *)
(* with definitions at most half the range of an int of three bits apart,  *)
(* some above and some below a multiple of that range.                     *)
EXTENDS ObjectTrees

PropLists == {<<>>, <<1>>, <<2>>, <<1, 2>>}

MCObjects ==
    {[malformed |-> m, props |-> p, nprops |-> Len(p), ctor |-> c] :
        m \in BOOLEAN, p \in PropLists, c \in {1, 2}}
    \cup {[malformed |-> FALSE, props |-> <<>>, nprops |-> n, ctor |-> 2] : n \in {1, 2}}

MCInfos == 6..9
=============================================================================
