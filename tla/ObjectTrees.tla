---------------------------- MODULE ObjectTrees ----------------------------
(***************************************************************************)
(* The AVL trees of ::findjsobjects and the comparison functions they are  *)
(* built with.  The tree itself belongs to libavl: here it is its in-order *)
(* sequence of nodes, and a lookup probes any node between the bounds that *)
(* earlier comparisons left, so that it covers every shape the balancing   *)
(* can give the tree.  What a lookup finds is decided by the comparison.   *)
(***************************************************************************)
EXTENDS Integers, Sequences

CONSTANTS
    Objects,    \* the signatures filed in fjs_tree; names are numbers
    Infos,      \* the SharedFunctionInfo addresses filed in fjs_funcinfo
    IntHalf,    \* an int is below it, and not below its negative: 2^31, scaled
    None,       \* no item
    MaxFiled    \* bound: lookups in one run

ASSUME TreesAssumption ==
    /\ Objects \subseteq [malformed : BOOLEAN, props : Seq(Int), nprops : Int, ctor : Int]
    /\ Infos \subseteq Int
    /\ IntHalf \in Nat \ {0}

VARIABLES
    tree,       \* which of the two trees this is
    nodes,      \* in-order: each node has a key and the items filed under it
    item,       \* the item being looked up, or None
    lo, hi,     \* the lookup goes on among nodes[lo], ..., nodes[hi - 1]
    filed       \* lookups so far

tvars == <<tree, nodes, item, lo, hi, filed>>
-----------------------------------------------------------------------------
(* The comparison functions.                                               *)

Sign(n) == IF n < 0 THEN -1 ELSE IF n > 0 THEN 1 ELSE 0

\* positions where both lists of properties go on and differ
Differences(p, q) == {i \in DOMAIN p \cap DOMAIN q : p[i] # q[i]}

FirstDifference(p, q) ==
    CHOOSE i \in Differences(p, q) : \A j \in Differences(p, q) : i <= j

ByPropsOneWay(p, q) ==
    IF Differences(p, q) # {}
    THEN LET i == FirstDifference(p, q) IN Sign(p[i] - q[i])
    ELSE IF Len(p) # Len(q) THEN 1 ELSE 0

ByProps(p, q) ==
    IF Differences(p, q) # {}
    THEN LET i == FirstDifference(p, q) IN Sign(p[i] - q[i])
    ELSE Sign(Len(p) - Len(q))

ByCount(l, r) ==
    IF l.nprops # r.nprops THEN Sign(l.nprops - r.nprops) ELSE Sign(l.ctor - r.ctor)

ObjCmpNoCount(l, r) ==
    IF l.malformed # r.malformed
    THEN IF l.malformed THEN -1 ELSE 1
    ELSE ByProps(l.props, r.props)

\* findjsobjects_cmp
ObjCmp(l, r) ==
    IF l.malformed # r.malformed
    THEN IF l.malformed THEN -1 ELSE 1
    ELSE IF ByProps(l.props, r.props) # 0
         THEN ByProps(l.props, r.props)
         ELSE ByCount(l, r)

\* an address difference, assigned to an int: two's complement
ToInt(n) ==
    LET m == n % (2 * IntHalf) IN IF m >= IntHalf THEN m - 2 * IntHalf ELSE m

\* findjsobjects_cmp_funcinfo
FuncCmp(l, r) == Sign(ToInt(l - r))

Items == IF tree = "fjs_tree" THEN Objects ELSE Infos
Cmp(l, r) == IF tree = "fjs_tree" THEN ObjCmp(l, r) ELSE FuncCmp(l, r)
-----------------------------------------------------------------------------
TInit ==
    /\ tree \in {"fjs_tree", "fjs_funcinfo"}
    /\ nodes = <<>>
    /\ item = None
    /\ lo = 1
    /\ hi = 1
    /\ filed = 0

\* avl_find begins at the root
Begin(k) ==
    /\ item = None
    /\ filed < MaxFiled
    /\ item' = k
    /\ lo' = 1
    /\ hi' = Len(nodes) + 1
    /\ filed' = filed + 1
    /\ UNCHANGED <<tree, nodes>>

\* one comparison on the way down
Descend(m) ==
    /\ item # None
    /\ m \in lo..(hi - 1)
    /\ LET c == Cmp(item, nodes[m].key)
       IN  /\ c # 0
           /\ lo' = IF c > 0 THEN m + 1 ELSE lo
           /\ hi' = IF c < 0 THEN m ELSE hi
    /\ UNCHANGED <<tree, nodes, item, filed>>

\* the node is there: one more instance
FindNode(m) ==
    /\ item # None
    /\ m \in lo..(hi - 1)
    /\ Cmp(item, nodes[m].key) = 0
    /\ nodes' = [nodes EXCEPT ![m].items = @ \cup {item}]
    /\ item' = None
    /\ UNCHANGED <<tree, lo, hi, filed>>

\* it is not: avl_add a node for it where the lookup ended
AddNode ==
    /\ item # None
    /\ lo = hi
    /\ nodes' = SubSeq(nodes, 1, lo - 1) \o <<[key |-> item, items |-> {item}]>>
                \o SubSeq(nodes, lo, Len(nodes))
    /\ item' = None
    /\ UNCHANGED <<tree, lo, hi, filed>>

TNext == \/ \E k \in Items : Begin(k)
         \/ \E m \in DOMAIN nodes : Descend(m) \/ FindNode(m)
         \/ AddNode

TSpec == TInit /\ [][TNext]_tvars
-----------------------------------------------------------------------------
TTypeOK ==
    /\ tree \in {"fjs_tree", "fjs_funcinfo"}
    /\ nodes \in Seq([key : Items, items : SUBSET Items])
    /\ item \in Items \cup {None}
    /\ lo \in 1..(Len(nodes) + 1) /\ hi \in 1..(Len(nodes) + 1)
    /\ filed \in 0..MaxFiled

(* A node stands for one signature, or one function definition: items that *)
(* differ are never filed together ("one line per function definition",    *)
(* dcmd_jsfunctions_help).                                                 *)
NeverMerged == \A m \in DOMAIN nodes : nodes[m].items \subseteq {nodes[m].key}

(* And it is the only one that does, whatever shape the tree has: a lookup *)
(* finds the node that an equal item added.                                *)
NeverSplit == \A m, n \in DOMAIN nodes : nodes[m].key = nodes[n].key => m = n

(* There is one node for each signature or definition that was filed, and  *)
(* it counts just the items that have it.                                  *)
OneNodePerKey == NeverMerged /\ NeverSplit
=============================================================================
