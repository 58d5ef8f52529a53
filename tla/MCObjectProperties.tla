------------------------- MODULE MCObjectProperties -------------------------
(* The layouts of the versions of V8 that mdb_v8.c tells apart.            *)
EXTENDS ObjectProperties

V6 == [shared |-> TRUE, elements |-> FALSE, transitions |-> FALSE, content |-> TRUE,
       indetails |-> FALSE, layout |-> FALSE, entry |-> 3]
V8 == [V6 EXCEPT !.shared = FALSE, !.elements = TRUE, !.transitions = TRUE, !.content = FALSE]
V10 == [V8 EXCEPT !.transitions = FALSE]
V12 == [V10 EXCEPT !.indetails = TRUE]
Node4 == [V12 EXCEPT !.layout = TRUE]

\* metadata that does not describe a version: too small an entry of a
\* dictionary, and content apart from descriptors in the transitions
NoEntry == [V12 EXCEPT !.entry = 1]
NoDescs == [V8 EXCEPT !.content = TRUE]

MCVersions == {V6, V8, V10, V12, Node4, NoEntry, NoDescs}
=============================================================================
