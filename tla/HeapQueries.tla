---------------------------- MODULE HeapQueries ----------------------------
(***************************************************************************)
(* What ::findjsobjects and ::jsfunctions promise, without scans, caches   *)
(* or interrupted dcmds: at some point the objects of the target become    *)
(* known, all of them at once; from then on every dcmd answers from them   *)
(* or refuses; an object that is marked stays marked until the references  *)
(* to it have been reported.                                               *)
(***************************************************************************)
EXTENDS Integers, FiniteSets

CONSTANTS
    Populations,   \* the sets of objects that may become known (with -b, without)
    Closures,      \* and the sets of closures, for the same two scans
    Class(_),      \* the signature of an object
    Malformed(_),  \* whether a signature is that of a malformed object
    Definition(_), \* the function definition of a closure
    RefsTo(_, _),  \* the references an object holds to an address
    Holds(_, _)    \* and how many they are

VARIABLES known, marks, answer

qvars == <<known, marks, answer>>

QInit ==
    /\ known = {}
    /\ marks = {}
    /\ answer = [kind |-> "none", data |-> {}]

Load ==
    /\ known = {}
    /\ known' \in Populations
    /\ UNCHANGED <<marks, answer>>

Refuse ==
    /\ answer' \in [kind : {"error", "interrupted"}, data : {{}}]
    /\ UNCHANGED <<known, marks>>

Mark ==
    /\ \E a \in known : marks' = marks \cup {a}
    /\ UNCHANGED <<known, answer>>

Reply(k) ==
    /\ known # {}
    /\ answer'.kind = k
    /\ UNCHANGED known

MarkReply == Reply("marked") /\ answer'.data = {} /\ UNCHANGED marks

\* one line for each signature, with a member of it and the number of members
Groups ==
    /\ Reply("groups")
    /\ \E all \in BOOLEAN :
          {l.sig : l \in answer'.data} = {s \in {Class(a) : a \in known} : all \/ ~Malformed(s)}
    /\ \A l \in answer'.data :
          /\ l.rep \in known /\ Class(l.rep) = l.sig
          /\ l.n = Cardinality({a \in known : Class(a) = l.sig})
          /\ \A m \in answer'.data : m.sig = l.sig => m = l
    /\ UNCHANGED marks

\* at most one object of each signature
Representatives ==
    /\ Reply("reps")
    /\ answer'.data \subseteq known
    /\ \A a, c \in answer'.data : Class(a) = Class(c) => a = c
    /\ UNCHANGED marks

\* a class of objects, or of closures
Members ==
    /\ Reply("list")
    /\ \/ \E a \in known : answer'.data = {c \in known : Class(c) = Class(a)}
       \/ \E F \in Closures : \E a \in F :
             answer'.data = {c \in F : Definition(c) = Definition(a)}
       \/ answer'.data = {}
    /\ UNCHANGED marks

Functions ==
    /\ Reply("funcs")
    /\ \E F \in Closures : \A l \in answer'.data :
          /\ l.rep \in F
          /\ l.n = Cardinality({c \in F : Definition(c) = Definition(l.rep)})
          /\ \A m \in answer'.data : Definition(m.rep) = Definition(l.rep) => m = l
    /\ UNCHANGED marks

\* the report on the marks uses them up
References ==
    /\ Reply("refs")
    /\ marks # {}
    /\ {l.to : l \in answer'.data} = marks
    /\ \A l \in answer'.data :
          /\ l.refs = UNION {RefsTo(a, l.to) : a \in known}
          /\ l.n = Cardinality(UNION {{a} \X Holds(a, l.to) : a \in known})
    /\ marks' = {}

QNext == Load \/ Refuse \/ Mark \/ MarkReply \/ Groups \/ Representatives
         \/ Members \/ Functions \/ References

QSpec == QInit /\ [][QNext]_qvars
=============================================================================
