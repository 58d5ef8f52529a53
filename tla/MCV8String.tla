----------------------------- MODULE MCV8String -----------------------------
(* V8String for TLC: strings of each representation, some of them corrupt, *)
(* with a chunk that is just longer than the marker.                       *)
EXTENDS V8String

CONSTANTS short, long, hex, empty, lost, odd, ext, extTwo, slice, past, orphan,
          slicedCons, cons, deep, half, loop

MCMarker == <<"mark", "mark", "mark", "mark", "mark">>
MCComplaint == <<"text", "text", "text">>
MCTexts == {MCMarker, MCComplaint}

MCStrs == {short, long, hex, empty, lost, odd, ext, extTwo, slice, past, orphan,
           slicedCons, cons, deep, half, loop}

S(r, c) == [rep |-> r, two |-> FALSE, data |-> TRUE, chars |-> c,
            p1 |-> NULL, p2 |-> NULL, from |-> 0, length |-> 0]
Sub(p, f, n) == [S("sliced", <<>>) EXCEPT !.p1 = p, !.from = f, !.length = n]
Cons(a, b) == [S("cons", <<>>) EXCEPT !.p1 = a, !.p2 = b]

Plain(n) == [i \in 1..n |-> "plain"]
Mixed == <<"plain", "escape", "quote", "plain", "escape", "escape", "plain", "nul", "escape">>

\* slices reach past their parent, or have none; loop is part of itself
MCHeap ==
    [s \in MCStrs |->
       CASE s = short -> S("seq", <<"plain", "wide", "escape">>)
         [] s = long -> S("seq", Mixed)
         [] s = hex -> S("seq", Plain(10))
         [] s = empty -> S("seq", <<>>)
         [] s = lost -> [S("seq", Plain(2)) EXCEPT !.data = FALSE]
         [] s = odd -> S("external", <<"wide", "plain">>)
         [] s = ext -> S("external", Mixed)
         [] s = extTwo -> [S("external", Mixed) EXCEPT !.two = TRUE]
         [] s = slice -> Sub(long, 2, 4)
         [] s = past -> Sub(short, 2, 4)
         [] s = orphan -> Sub(NULL, 0, 1)
         [] s = slicedCons -> Sub(cons, 0, 1)
         [] s = cons -> Cons(short, slice)
         [] s = deep -> Cons(cons, hex)
         [] s = half -> Cons(short, NULL)
         [] s = loop -> Cons(short, loop)]
=============================================================================
