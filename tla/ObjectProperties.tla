-------------------------- MODULE ObjectProperties --------------------------
(***************************************************************************)
(* jsobj_properties: the properties of one JavaScript object, found in the *)
(* target's memory and handed one by one to a callback.                    *)
(*                                                                         *)
(* V8, the external part, gives the object properties and takes them away, *)
(* in whichever of its layouts the version uses; the program is then       *)
(* stopped, perhaps with a part of the object damaged or its memory absent *)
(* from the core file; and jsobj_properties reads what is there.           *)
(***************************************************************************)
EXTENDS Integers, Sequences, FiniteSets

CONSTANTS
    Versions,    \* what the metadata says of the V8 of the target
    InObjects,   \* how many properties the map has inside the object
    MaxBuild,    \* number of changes V8 makes to the object
    TableSize,   \* number of entries of a dictionary
    WordBits,    \* nbitsperword of jsobj_layout_untagged
    MaxBitvecs   \* JL_MAXBITVECS

(* shared: no V8_DICT_SHIFT, so that a map with kIsShared set means        *)
(* dictionary; elements: V8_ELEMENTS_KIND_SHIFT is known; transitions: the *)
(* descriptors are an entry of the transitions array; content: details and *)
(* values have an array of their own; indetails: 3.26 or later, where the  *)
(* index of a field is in its details; layout: maps have layout            *)
(* descriptors; entry: V8_DICT_ENTRY_SIZE, which is 3 where a key has a    *)
(* value and details, and else too small for a key and its value.          *)
ASSUME VersionAssumption ==
    /\ Versions \subseteq [shared : BOOLEAN, elements : BOOLEAN, transitions : BOOLEAN,
                           content : BOOLEAN, indetails : BOOLEAN, layout : BOOLEAN,
                           entry : Nat \ {0}]
    /\ \A v \in Versions : v.shared => ~v.transitions
    /\ \A v \in Versions : v.layout => v.indetails
    /\ \A v \in Versions : v.entry = 3 \/ v.entry < 2

ASSUME SizeAssumption ==
    /\ InObjects \subseteq Nat
    /\ MaxBuild \in Nat /\ TableSize \in Nat
    /\ WordBits \in Nat \ {0} /\ MaxBitvecs \in Nat \ {0}

VARIABLES
    ver, nin,             \* the version, and the map's in-object properties
    obj,                  \* the object in memory
    made,                 \* number of changes V8 has made
    own, elements,        \* the named and the numbered properties it has
    damage,               \* what is wrong with its memory
    client,               \* whose callback it is
    pass, pc, ii,         \* walk_jsprop's pass; place in jsobj_properties
    info, out, rval,      \* propinfo, *propinfop, the returned value
    calls, answer, count  \* calls made, the last that was not 0, walker's counts

heapvars == <<ver, nin, obj, made, own, elements, damage, client>>
walkvars == <<pass, pc, ii, info, out, rval, calls, answer, count>>
opvars == <<heapvars, walkvars>>

(* The words of memory that the code tells apart.                          *)
Name(n) == <<"name", n>>
Smi(n) == <<"smi", n>>
Value(n) == <<"value", n>>
Double(n) == <<"double", n>>   \* unboxed: could look like anything
Undefined == <<"undefined">>
Hole == <<"hole">>
Garbage == <<"garbage">>       \* refers to no printable type, or to nothing
Internal == <<"internal">>     \* refers to a map or an array
NoValue == <<"null">>          \* no v8propvalue_t at all

Property(n, v) == [name |-> n, val |-> v, double |-> v[1] = "double"]

\* all but the property at j
Without(props, j) == [k \in 1..(Len(props) - 1) |-> IF k < j THEN props[k] ELSE props[k + 1]]
-----------------------------------------------------------------------------
(* What V8 does                                                            *)

EmptyTable == [k \in 1..(1 + 3 * TableSize) |-> IF k = 1 THEN Internal ELSE Undefined]

\* the words of the keys of a dictionary: a prefix, then key, value, details
Keys == {2 + 3 * k : k \in 0..(TableSize - 1)}

Free(table) == {k \in Keys : table[k] \in {Undefined, Hole}}

Put(table, k, p) == [table EXCEPT ![k] = p.name, ![k + 1] = p.val]

Table(props) == [w \in 1..(1 + 3 * TableSize) |->
    LET e == (w - 2) \div 3 + 1
    IN IF w = 1 THEN Internal
       ELSE IF e \notin 1..Len(props) THEN Undefined
       ELSE CASE (w - 2) % 3 = 0 -> props[e].name
              [] (w - 2) % 3 = 1 -> props[e].val
              [] OTHER -> Smi(0)]

\* a descriptor of a field; an accessor or a transition has one too
Field(key, index) == [key |-> key, field |-> TRUE, index |-> index]

Fields(descs) == {k \in 1..Len(descs) : descs[k].field}

\* a layout descriptor: for each word the bits that are set
Layout(untagged) ==
    IF untagged = {} THEN <<{}>>
    ELSE LET top == CHOOSE k \in untagged : \A l \in untagged : l <= k
         IN [w \in 1..(top \div WordBits + 1) |->
               {b \in 0..(WordBits - 1) : (w - 1) * WordBits + b \in untagged}]

Untagged(o) == {k \in 0..(nin - 1) : o.slots[k + 1][1] = "double"}

Change == pc = "build" /\ damage = "none" /\ made < MaxBuild /\ made' = made + 1

AddField ==
    /\ Change
    /\ ~obj.slow
    /\ Cardinality(Fields(obj.descs)) = Len(own)   \* none was deleted
    /\ \E unboxed \in {FALSE, ver.layout /\ Len(own) < nin} :
          LET k == Len(own)
              v == IF unboxed THEN Double(made) ELSE Value(made)
          IN /\ own' = Append(own, Property(Name(made), v))
             /\ obj' = [obj EXCEPT
                   !.descs = Append(@, Field(Name(made), Smi(k))),
                   !.slots = IF k < nin THEN [@ EXCEPT ![k + 1] = v] ELSE @,
                   !.props = IF k < nin THEN @ ELSE Append(@, v)]
    /\ UNCHANGED elements

AddOther ==
    /\ Change
    /\ ~obj.slow
    /\ obj' = [obj EXCEPT
          !.descs = Append(@, [key |-> Name(made), field |-> FALSE, index |-> Internal])]
    /\ UNCHANGED <<own, elements>>

\* the descriptor stays, and refers past the properties array
DeleteField ==
    /\ Change
    /\ ~obj.slow
    /\ obj.props # <<>>
    /\ own' = SubSeq(own, 1, Len(own) - 1)
    /\ obj' = [obj EXCEPT !.props = SubSeq(@, 1, Len(@) - 1)]
    /\ UNCHANGED elements

\* only the slots of fields are used for unboxed doubles
Boxed(p) == IF p.double THEN Property(p.name, Value(p.val[2])) ELSE p

GoSlow ==
    /\ Change
    /\ ~obj.slow
    /\ Len(own) <= TableSize
    /\ own' = [k \in 1..Len(own) |-> Boxed(own[k])]
    /\ obj' = [obj EXCEPT !.slow = TRUE, !.descs = <<>>, !.props = Table(own'),
                          !.slots = [k \in 1..nin |-> Undefined]]
    /\ UNCHANGED elements

AddSlow ==
    /\ Change
    /\ obj.slow
    /\ \E k \in Free(obj.props) :
          LET p == Property(Name(made), Value(made))
          IN /\ own' = Append(own, p)
             /\ obj' = [obj EXCEPT !.props = Put(@, k, p)]
    /\ UNCHANGED elements

DeleteSlow ==
    /\ Change
    /\ obj.slow
    /\ \E k \in Keys \ Free(obj.props), j \in 1..Len(own) :
          /\ own[j].name = obj.props[k]
          /\ own' = Without(own, j)
          /\ obj' = [obj EXCEPT !.props = [@ EXCEPT ![k] = Hole]]
    /\ UNCHANGED elements

AddElement ==
    /\ Change
    /\ LET p == Property(Smi(Len(obj.elts)), Value(made))
           q == Property(Smi(MaxBuild + made), Value(made))
       IN \/ /\ obj.kind # "dictionary"
             /\ elements' = Append(elements, p)
             /\ obj' = [obj EXCEPT !.elts = Append(@, p.val)]
          \/ /\ obj.kind = "dictionary"
             /\ elements' = Append(elements, q)
             /\ \E k \in Free(obj.elts) : obj' = [obj EXCEPT !.elts = Put(@, k, q)]
    /\ UNCHANGED own

DeleteElement ==
    /\ Change
    /\ obj.kind \in {"fast", "holey"}
    /\ \E j \in 1..Len(elements), k \in 1..Len(obj.elts) :
          /\ elements[j].name = Smi(k - 1)
          /\ elements' = Without(elements, j)
          /\ obj' = [obj EXCEPT !.elts = [@ EXCEPT ![k] = Hole], !.kind = "holey"]
    /\ UNCHANGED own

SlowElements ==
    /\ Change
    /\ obj.kind # "dictionary"
    /\ elements # <<>>
    /\ Len(elements) <= TableSize
    /\ obj' = [obj EXCEPT !.elts = Table(elements), !.kind = "dictionary"]
    /\ UNCHANGED <<own, elements>>

V8Step ==
    /\ \/ AddField \/ AddOther \/ DeleteField \/ GoSlow \/ AddSlow \/ DeleteSlow
       \/ AddElement \/ DeleteElement \/ SlowElements
    /\ UNCHANGED <<ver, nin, damage, client, walkvars>>
-----------------------------------------------------------------------------
(* What can be wrong with the memory of a stopped program: one part of it  *)
(* absent, or one word of it no longer what it was.                        *)

Damaged(what) == pc = "build" /\ damage = "none" /\ damage' = what

Parts ==
    {"object", "properties", "data", "elements", "map", "descriptors", "slots"}
      \cup (IF ver.transitions THEN {"transitions"} ELSE {})
      \cup (IF ver.content THEN {"content"} ELSE {})
      \cup (IF Untagged(obj) = {} THEN {} ELSE {"layout"})

LosePart == \E part \in Parts : Damaged(part) /\ UNCHANGED <<obj, own, elements>>

NotAnArray == Damaged("type") /\ UNCHANGED <<obj, own, elements>>

\* the value a property had was collected
RotIn(props, n) == [k \in 1..Len(props) |->
    IF props[k].val = Value(n) THEN Property(props[k].name, Garbage) ELSE props[k]]
RotWords(words, n) == [k \in 1..Len(words) |-> IF words[k] = Value(n) THEN Garbage ELSE words[k]]

RotValue == \E n \in 0..(MaxBuild - 1) :
    /\ Damaged("value")
    /\ own' = RotIn(own, n) /\ elements' = RotIn(elements, n)
    /\ <<own', elements'>> # <<own, elements>>
    /\ obj' = [obj EXCEPT !.slots = RotWords(@, n), !.props = RotWords(@, n),
                          !.elts = RotWords(@, n)]

RotKey == \E k \in Fields(obj.descs), word \in {Undefined, Garbage} :
    /\ Damaged("key")
    /\ obj' = [obj EXCEPT !.descs = [@ EXCEPT ![k] = Field(word, obj.descs[k].index)]]
    /\ UNCHANGED <<own, elements>>

\* an index that no field has; one that another field has cannot be told
Far == Smi(MaxBuild + nin)

RotIndex == \E k \in Fields(obj.descs) :
    /\ Damaged("index")
    /\ \E word \in {Far} \cup IF ver.indetails THEN {} ELSE {Garbage} :
          obj' = [obj EXCEPT !.descs = [@ EXCEPT ![k] = Field(obj.descs[k].key, word)]]
    /\ UNCHANGED <<own, elements>>

RotTable == \E k \in Keys, word \in {Internal, Garbage} :
    /\ Damaged("table")
    /\ obj.slow /\ obj.props[k] # Undefined
    /\ obj' = [obj EXCEPT !.props = [@ EXCEPT ![k] = word]]
    /\ UNCHANGED <<own, elements>>

CutContent ==
    /\ Damaged("short")
    /\ ver.content
    /\ \E n \in 0..(2 * Len(obj.descs) - 1) : obj' = [obj EXCEPT !.cut = n]
    /\ UNCHANGED <<own, elements>>

DamageStep ==
    /\ \/ LosePart \/ NotAnArray \/ RotValue \/ RotKey \/ RotIndex \/ RotTable \/ CutContent
    /\ UNCHANGED <<ver, nin, made, client, walkvars>>
-----------------------------------------------------------------------------
(* The callbacks                                                           *)

\* findjsobjects_prop and walk_jsprop_* answer 0; obj_print_prop_member what
\* printing the one property that matches its member answers
Answers == IF client = "member" /\ answer = 0 THEN {-1, 0, 1} ELSE {0}

\* walk_jsprop_nprops and walk_jsprop_props have no use for unboxed doubles
CountedFirst(p) == pass = 2 \/ ~p.double
Counted(p) == ~p.double

Call(p, rv) ==
    /\ rv \in Answers
    /\ calls' = Append(calls, p)
    /\ answer' = IF rv # 0 THEN rv ELSE answer
    /\ count' = IF Counted(p) THEN [count EXCEPT ![pass] = @ + 1] ELSE count

NoCall == UNCHANGED <<calls, answer, count>>

\* the walker passes no propinfop
Tell(flags) == out' = IF client = "walker" THEN out ELSE flags

Return(rv) == pc' = "end" /\ rval' = rv

\* jsobj_maybe_garbage, given a tagged value
MaybeGarbage(word) == word[1] \in {"garbage", "internal", "double"}
BadOutsideTables(word) == IF MaybeGarbage(word) /\ pc # "etable" THEN {"badprops"} ELSE {}
Bad(word) == IF MaybeGarbage(word) THEN {"badprops"} ELSE {}
-----------------------------------------------------------------------------
(* jsobj_properties, up to the elements                                    *)

\* what read_heap_ptr and read_heap_array of the elements find
HasElements == ver.elements /\ damage # "elements" /\ obj.elts # <<>>

BeginFails ==
    /\ \/ damage \in {"object", "properties"}
       \/ damage = "map" /\ HasElements
    /\ Return(-1)
    /\ NoCall
    /\ UNCHANGED <<ii, info, out>>

(* The callback gets a NULL value with the name of the type.  What         *)
(* walk_jsprop_nprops does with it is a fault: it dereferences valp.       *)
BadLayout ==
    /\ damage = "type"
    /\ Tell({"badlayout"})
    /\ \/ /\ client # "walker"
          /\ \E rv \in Answers :
                Call([name |-> Internal, val |-> NoValue, double |-> FALSE], rv) /\ Return(rv)
       \/ /\ client = "walker"
          /\ pc' = "fault"
          /\ NoCall
          /\ UNCHANGED rval
    /\ UNCHANGED <<ii, info>>

BeginWalk ==
    /\ damage \notin {"object", "properties", "type"}
    /\ damage = "map" => ~HasElements
    /\ IF HasElements
       THEN /\ pc' = IF obj.kind = "dictionary" THEN "etable" ELSE "elements"
            /\ ii' = IF obj.kind = "dictionary" THEN 2 ELSE 1
            /\ info' = {"numeric"} \cup IF obj.kind = "dictionary" THEN {"dict"} ELSE {}
       ELSE pc' = "shape" /\ UNCHANGED <<ii, info>>
    /\ NoCall
    /\ UNCHANGED <<out, rval>>

Begin ==
    /\ pc = "begin"
    /\ BeginFails \/ BadLayout \/ BeginWalk
    /\ UNCHANGED <<heapvars, pass>>

\* numbered properties in an array; the holes of a holey one are no properties
Elements ==
    /\ pc = "elements"
    /\ UNCHANGED <<heapvars, pass, out>>
    /\ \/ /\ ii > Len(obj.elts) \/ obj.kind = "other"
          /\ pc' = "shape"
          /\ NoCall
          /\ UNCHANGED <<ii, info, rval>>
       \/ /\ ii <= Len(obj.elts) /\ obj.kind = "holey" /\ obj.elts[ii] = Hole
          /\ ii' = ii + 1
          /\ NoCall
          /\ UNCHANGED <<pc, info, rval>>
       \/ /\ ii <= Len(obj.elts) /\ obj.kind # "other"
          /\ ~(obj.kind = "holey" /\ obj.elts[ii] = Hole)
          /\ info' = info \cup Bad(obj.elts[ii])
          /\ \E rv \in Answers :
                /\ Call([name |-> Smi(ii - 1), val |-> obj.elts[ii], double |-> FALSE], rv)
                /\ IF rv # 0 THEN Return(-1) /\ UNCHANGED ii
                             ELSE ii' = ii + 1 /\ UNCHANGED <<pc, rval>>
-----------------------------------------------------------------------------
(* read_heap_dict, of the elements and of the properties                   *)

TableEnd(table) == ii + 1 > Len(table)

\* what stops it: nothing that can be a dictionary, or a key that is no string
Broken(table) ==
    \/ ver.entry < 2
    \/ ~TableEnd(table) /\ table[ii] \in {Garbage, Internal}

Empty(word) == word \in {Undefined, Hole}

FollowingUsed(word) == IF Empty(word) THEN ii ELSE ii + ver.entry
Following(word) == ii + ver.entry

\* the callback ends it with -1, and with no other answer
StopsAtMatch(rv) == rv = 1
Stops(rv) == rv = -1

\* of the elements it notes in the copy that is told later, of the properties
\* in the caller's own
Note(flags) ==
    IF pc = "etable" THEN info' = info \cup flags /\ UNCHANGED out
                     ELSE Tell(out \cup flags) /\ UNCHANGED info

ReadTable(table, Finish) ==
    \/ /\ Broken(table)
       /\ Return(-1) /\ Note({}) /\ NoCall
       /\ UNCHANGED ii
    \/ /\ ~Broken(table) /\ TableEnd(table)
       /\ Finish /\ Note({}) /\ NoCall
       /\ UNCHANGED ii
    \/ /\ ~Broken(table) /\ ~TableEnd(table) /\ Empty(table[ii])
       /\ ii' = Following(table[ii])
       /\ Note({}) /\ NoCall
       /\ UNCHANGED <<pc, rval>>
    \/ /\ ~Broken(table) /\ ~TableEnd(table) /\ ~Empty(table[ii])
       /\ Note(Bad(table[ii + 1]))
       /\ \E rv \in Answers :
             /\ Call([name |-> table[ii], val |-> table[ii + 1], double |-> FALSE], rv)
             /\ IF Stops(rv) THEN Return(-1) /\ UNCHANGED ii
                             ELSE ii' = Following(table[ii]) /\ UNCHANGED <<pc, rval>>

ElementTable ==
    /\ pc = "etable"
    /\ ReadTable(obj.elts, pc' = "shape" /\ UNCHANGED rval)
    /\ UNCHANGED <<heapvars, pass>>

PropertyTable ==
    /\ pc = "table"
    /\ \/ damage = "data" /\ Return(-1) /\ NoCall /\ UNCHANGED <<ii, out, info>>
       \/ damage # "data" /\ ReadTable(obj.props, Return(0))
    /\ UNCHANGED <<heapvars, pass>>
-----------------------------------------------------------------------------
(* jsobj_properties, from the map on                                       *)

\* jsobj_layout_load
LayoutFails ==
    LET bits == Layout(Untagged(obj))
    IN ver.layout /\ Len(bits) > 1 /\ (damage = "layout" \/ Len(bits) > MaxBitvecs)

ShapeFails ==
    \/ damage \in {"data", "descriptors"}
    \/ ver.transitions /\ (ver.content \/ damage = "transitions")
    \/ ver.content /\ damage = "content"
    \/ LayoutFails

Shape ==
    /\ pc = "shape"
    /\ \/ /\ damage = "map" \/ (~obj.slow /\ ShapeFails)
          /\ Return(-1)
          /\ UNCHANGED <<ii, info, out>>
       \/ /\ damage # "map" /\ obj.slow
          /\ info' = info \cup {"dict"}
          /\ Tell(info')
          /\ pc' = "table" /\ ii' = 2
          /\ UNCHANGED rval
       \/ /\ damage # "map" /\ ~obj.slow /\ ~ShapeFails
          /\ info' = info \cup (IF ver.transitions THEN {"transitions"} ELSE {})
                          \cup (IF ver.content THEN {"content"} ELSE {})
          /\ pc' = "descs" /\ ii' = 1
          /\ UNCHANGED <<out, rval>>
    /\ NoCall
    /\ UNCHANGED <<heapvars, pass>>

NContent == IF damage = "short" THEN obj.cut ELSE 2 * Len(obj.descs)

\* an index in the details counts all fields, one in the value those outside
PropIdx(d) == IF ver.indetails THEN d.index[2] ELSE d.index[2] - nin

InObject(d) == IF ver.indetails THEN PropIdx(d) < nin ELSE PropIdx(d) < 0

ArrayIdx(d) == IF ver.indetails THEN PropIdx(d) - nin ELSE PropIdx(d)

\* the words of the object: map, properties and elements, then its own slots
ObjWords == <<Internal, Internal, Internal>> \o obj.slots

\* in-object properties are counted from the end of the object
SlotWordBefore(d) == ObjWords[Len(ObjWords) - nin + d.index[2]]
SlotWord(d) ==
    LET size == Len(ObjWords)
    IN ObjWords[1 + IF ver.indetails THEN size - (nin - PropIdx(d)) ELSE size + PropIdx(d)]

\* jsobj_layout_untagged; a field past the layout descriptor is tagged
IsUntagged(k) ==
    LET bits == Layout(Untagged(obj))
    IN ver.layout /\ k \div WordBits < Len(bits) /\ k % WordBits \in bits[k \div WordBits + 1]

\* how a name that is no string is noted
KeyFlagsNone(key) == IF key = Undefined THEN {} ELSE {"skipped"}
KeyFlags(key) == IF key = Undefined THEN {"undefname"} ELSE {"skipped"}

\* what each reason to pass over descriptor k adds to propinfo
PassOver(k, flags) ==
    LET d == obj.descs[k] IN
    \/ ver.content /\ 2 * k - 1 >= NContent /\ flags = {"skipped"}
    \/ /\ ver.content => 2 * k - 1 < NContent
       /\ \/ ~d.field /\ flags = {}
          \/ d.field /\ d.key[1] # "name" /\ flags = KeyFlags(d.key)
          \/ d.field /\ d.key[1] = "name" /\ d.index = Garbage /\ flags = {"skipped"}
          \/ /\ d.field /\ d.key[1] = "name" /\ d.index # Garbage
             /\ \/ InObject(d) /\ damage = "slots" /\ flags = {"skipped"}
                \/ /\ ~InObject(d) /\ ArrayIdx(d) >= Len(obj.props)
                   /\ PropIdx(d) < Len(obj.descs)
                   /\ flags = {}

Passes(k) == \E flags \in SUBSET {"skipped", "undefname"} : PassOver(k, flags)

\* neither in the object nor in the array, nor what a deletion leaves
Corrupt(k) ==
    LET d == obj.descs[k]
    IN ~Passes(k) /\ ~InObject(d) /\ ArrayIdx(d) >= Len(obj.props)

Descriptors ==
    /\ pc = "descs"
    /\ UNCHANGED <<heapvars, pass>>
    /\ \/ /\ ii > Len(obj.descs)
          /\ Return(0) /\ Tell(info) /\ NoCall
          /\ UNCHANGED <<ii, info>>
       \/ /\ ii <= Len(obj.descs)
          /\ \E flags \in SUBSET {"skipped", "undefname"} :
                PassOver(ii, flags) /\ info' = info \cup flags
          /\ ii' = ii + 1
          /\ NoCall
          /\ UNCHANGED <<pc, out, rval>>
       \/ /\ ii <= Len(obj.descs) /\ Corrupt(ii)
          /\ Return(-1) /\ NoCall
          /\ UNCHANGED <<ii, info, out>>
       \/ /\ ii <= Len(obj.descs) /\ ~Passes(ii) /\ ~Corrupt(ii)
          /\ LET d == obj.descs[ii]
                 word == IF InObject(d) THEN SlotWord(d) ELSE obj.props[ArrayIdx(d) + 1]
                 untagged == IsUntagged(PropIdx(d))
             IN /\ info' = info \cup {IF InObject(d) THEN "inobject" ELSE "props"}
                                \cup (IF untagged THEN {} ELSE Bad(word))
                /\ \E rv \in Answers :
                      /\ Call([name |-> d.key, val |-> word, double |-> untagged], rv)
                      /\ IF rv # 0 THEN Return(-1) /\ UNCHANGED ii
                                   ELSE ii' = ii + 1 /\ UNCHANGED <<pc, rval>>
          /\ UNCHANGED out
-----------------------------------------------------------------------------
Clients == {"finder", "member", "walker"}

NoObject ==
    [descs |-> <<>>, slots |-> <<>>, props |-> <<>>, slow |-> FALSE, cut |-> 0,
     kind |-> "fast", elts |-> <<>>]

Init ==
    /\ ver \in Versions /\ nin \in InObjects
    /\ \E kind \in {"fast", "other"} :
          obj = [NoObject EXCEPT !.slots = [k \in 1..nin |-> Undefined], !.kind = kind]
    /\ own = <<>> /\ elements = <<>>
    /\ made = 0 /\ damage = "none"
    /\ client \in Clients
    /\ pass = 1 /\ pc = "build" /\ ii = 0
    /\ info = {} /\ out = {} /\ rval = 0
    /\ calls = <<>> /\ answer = 0 /\ count = <<0, 0>>

\* the program stops, and someone asks for the properties
Start ==
    /\ pc = "build"
    /\ pc' = "begin"
    /\ UNCHANGED <<heapvars, pass, ii, info, out, rval, calls, answer, count>>

\* walk_jsprop_init counts the properties, then allocates and fills an array
SecondPass ==
    /\ client = "walker" /\ pass = 1 /\ pc = "end" /\ rval # -1
    /\ pass' = 2 /\ pc' = "begin" /\ ii' = 0
    /\ info' = {} /\ calls' = <<>>
    /\ UNCHANGED <<heapvars, out, rval, answer, count>>

Walk ==
    \/ Begin \/ Elements \/ ElementTable \/ Shape \/ PropertyTable \/ Descriptors
    \/ SecondPass

Next == V8Step \/ DamageStep \/ Start \/ Walk

\* the debugger runs the walk to its end
Spec == Init /\ [][Next]_opvars /\ WF_opvars(Walk)
-----------------------------------------------------------------------------
(* Properties                                                              *)

Set(s) == {s[k] : k \in 1..Len(s)}

Walked == pc = "end" /\ client = "finder"

\* what the metadata and the layout descriptor's bound leave readable
Readable ==
    /\ obj.slow \/ (HasElements /\ obj.kind = "dictionary") => ver.entry >= 2
    /\ ~obj.slow => ~LayoutFails /\ ~(ver.transitions /\ ver.content)

\* numbered properties of the kinds that jsobj_properties knows
Numbered == IF ver.elements /\ obj.kind # "other" THEN elements ELSE <<>>

(* Whatever V8 did to the object, an object in order is reported as it is: *)
(* each property once with its value, doubles as doubles, in the order V8  *)
(* keeps, with none that was deleted and nothing flagged.                  *)
ReportsExactly ==
    Walked /\ damage = "none" =>
        /\ rval = 0 <=> Readable
        /\ rval = 0 =>
              /\ Set(calls) = Set(Numbered \o own)
              /\ Len(calls) = Len(Numbered \o own)
              /\ ~obj.slow /\ obj.kind # "dictionary" => calls = Numbered \o own
              /\ out \cap {"skipped", "undefname", "badprops"} = {}

(* An object is never passed off as whole when a named property of it      *)
(* could not be read: ::jsprint -v and ::findjsobjects learn of it.        *)
LossIsFlagged ==
    Walked /\ rval = 0 /\ ~(Set(own) \subseteq Set(calls)) =>
        out \cap {"skipped", "undefname", "badlayout"} # {}

(* ::findjsobjects takes an object for garbage exactly when one of the     *)
(* values it was given is: numbered, in a dictionary or in a field alike.  *)
GarbageIsFlagged ==
    Walked /\ rval = 0 /\ "badlayout" \notin out =>
        ("badprops" \in out <=> \E p \in Set(calls) : ~p.double /\ MaybeGarbage(p.val))

(* A callback that fails is not called again, and its caller is told.      *)
StopsAtError == answer = -1 => pc = "end" /\ rval = -1

(* The callers of jsobj_properties are told of everything that went wrong. *)
TroubleIsTold == LossIsFlagged /\ GarbageIsFlagged /\ StopsAtError

(* walk_jsprop_init fills its array of pointers to the last and not beyond *)
(* it: both passes find the same.                                          *)
WalkerExact ==
    pass = 2 => /\ count[2] <= count[1]
                /\ pc = "end" => rval = 0 /\ count[2] = count[1]

\* the walk of damaged memory ends too, and both walks of ::walk jsprop
Over == \/ pc = "fault"
        \/ pc = "end" /\ ~(client = "walker" /\ pass = 1 /\ rval # -1)
WalkEnds == pc # "build" ~> Over

(* The callback may be given no value, as findjsobjects_references_prop    *)
(* says: no client of jsobj_properties dereferences it then.               *)
NoFault == pc # "fault"
=============================================================================
