----------------------------- MODULE MCJSPrint -----------------------------
(* JSPrint for TLC: values of every kind, sound and corrupt, and commands  *)
(* without members, with one and with several.                             *)
EXTENDS JSPrint

V(kind, text) == [kind |-> kind, head |-> <<>>, text |-> text, rv |-> 0, props |-> <<>>,
                  dict |-> FALSE, words |-> <<>>, bad |-> {}, length |-> 0]

Prop(n, v) == [name |-> n, val |-> v]
Obj(props) == [V("object", <<>>) EXCEPT !.props = props]
Arr(words, n) == [V("array", <<>>) EXCEPT !.words = words, !.length = n]

MCValues == {"@num", "@junk", "@str", "@name", "@func", "@date", "@none", "@leaf", "@root",
             "@hash", "@torn", "@list", "@void", "@one", "@lost", "@gap"}

(* root and list contain each other; torn's properties can't all be read,  *)
(* lost's elements can't, gap's second page can't.  No array has one       *)
(* element more than full pages: its last one is not read.                 *)
MCHeap ==
    [v \in MCValues |->
       CASE v = "@num" -> V("plain", <<"1">>)
         [] v = "@junk" -> [V("plain", <<"not">>) EXCEPT !.rv = -1]
         [] v = "@str" -> V("string", <<"q", "s", "q">>)
         [] v = "@name" -> V("named", <<"null">>)
         [] v = "@func" -> [V("named", <<>>) EXCEPT !.head = <<"function">>, !.rv = 1]
         [] v = "@date" -> [V("scalar", <<>>) EXCEPT !.rv = -1]
         [] v = "@none" -> Obj(<<>>)
         [] v = "@leaf" -> Obj(<<Prop("n", "@num"), Prop("s", "@str")>>)
         [] v = "@root" -> Obj(<<Prop("j", "@junk"), Prop("l", "@list"), Prop("o", "@leaf"),
                                 Prop("t", "@torn"), Prop("s", "@str")>>)
         [] v = "@hash" -> [Obj(<<Prop("f", "@func"), Prop("d", "@date"), Prop("a", "@list")>>)
                              EXCEPT !.dict = TRUE]
         [] v = "@torn" -> [Obj(<<Prop("e", "@none"), Prop("g", "@gap"), Prop("f", "@func")>>)
                              EXCEPT !.rv = -1]
         [] v = "@void" -> Arr(<<>>, 0)
         [] v = "@list" -> Arr(<<"@root", "@void", "@one", "@lost", "@num">>, 3)
         [] v = "@one" -> Arr(<<"@str">>, 1)
         [] v = "@lost" -> [Arr(<<"@num">>, 1) EXCEPT !.rv = -1]
         [] v = "@gap" -> [Arr(<<"@name", "@num", "@num", "@num", "@num">>, 5) EXCEPT !.bad = {3}]]

C(root, args, d, a, b, n) ==
    [root |-> root, args |-> args, depth |-> d, a |-> a, b |-> b, limit |-> n]

Plainly(roots) == {C(r, <<>>, d, a, b, n) : r \in roots, d \in 0..3, a \in BOOLEAN,
                                            b \in BOOLEAN, n \in {0, 2}}

Paths == {<<Name("o")>>, <<Name("s")>>, <<Name("x")>>, <<Name("o"), Name("s")>>,
          <<Name("l"), Index(2), Index(0)>>, <<Name("l"), Index(4)>>, <<Name("l"), Index(9)>>,
          <<Name("o"), Index(0)>>, <<Name("s"), Name("s")>>, <<Name("t"), Name("f")>>,
          <<Name("l"), Name("o")>>, <<Name("l"), Index(3), Index(0)>>, <<Name("d")>>,
          <<Name("f")>>, <<Name("a"), Index(1)>>, <<Name("j")>>}

WithMembers == {C(r, <<p, q>>, 1, a, TRUE, 0) :
                  r \in {"@root", "@hash"}, p \in Paths, q \in Paths, a \in BOOLEAN}
               \cup {C("@root", <<p, Immediate>>, 2, FALSE, b, 0) : p \in Paths, b \in BOOLEAN}
               \cup {C("@list", <<<<Index(0), Name("o")>>>>, 2, FALSE, FALSE, 0)}

MCCommands == Plainly(MCValues) \cup WithMembers
=============================================================================
