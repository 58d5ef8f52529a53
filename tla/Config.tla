------------------------------- MODULE Config -------------------------------
(***************************************************************************)
(* How mdb_v8 learns the layout of V8's heap.  When the dmod is loaded it  *)
(* reads the metadata symbols of the target, or the list of symbols of a   *)
(* canned configuration for a version of V8 without metadata; ::v8load     *)
(* reads a canned one by name when none has been found.  The symbols come  *)
(* in the order of the symbol table, one call of autoconf_iter_symbol for  *)
(* each, and describe classes, their fields and parents, types and frame   *)
(* types; constants are read by name afterwards.  ::v8field adds to the    *)
(* classes later on; ::v8print reads them.                                *)
(***************************************************************************)
EXTENDS Integers, Sequences, FiniteSets, SequencesExt

CONSTANTS
    Names,          \* the names of classes, in the order of strcmp
    NULL,           \* no class, no version, an empty name
    Binaries,       \* what the dmod can be loaded for
    Canned,         \* the canned configurations, in the order of v8_cfgs
    KnownTypes,     \* the types that have a V8_TYPE_ variable
    RequiredTypes,  \* those without which configuration fails
    MaxTypes,       \* entries of v8_types and of v8_frametypes
    LoadArgs,       \* arguments of ::v8load
    FieldArgs,      \* arguments of ::v8field: class, field and offset
    MaxEdits        \* bound on the uses of ::v8field

NameSet == {Names[i] : i \in DOMAIN Names}
Ptr == 8            \* sizeof (uintptr_t)

(* A symbol v8dbg_KIND_CLASS__NAME has a kind, a class (of types, their     *)
(* name), a name (of fields; of parents, the class) and a value; ok says   *)
(* that it has the parts its kind needs.  The type of a field is left out. *)

OfKind(S, k) == {s \in S : s.kind = k /\ s.ok}
Superclasses(S, c) == {s.name : s \in {t \in OfKind(S, "parent") : t.class = c}}

\* a class with all that it inherits from, as the symbols S have it
Ancestry(S, c) ==
    LET Up[n \in 0..Len(Names)] ==
            IF n = 0 THEN {c} ELSE Up[n - 1] \cup UNION {Superclasses(S, p) : p \in Up[n - 1]}
    IN Up[Len(Names)]

(* What the code takes for granted of metadata: single inheritance without *)
(* cycles (compute_offsets would recurse for ever), the fields of a class  *)
(* after those it inherits, one symbol for each field.                     *)
Consistent(S) ==
    /\ \A s, t \in OfKind(S, "parent") : s.class = t.class => s = t
    /\ \A s \in OfKind(S, "parent") : s.class \notin Ancestry(S, s.name)
    /\ \A s, t \in OfKind(S, "class") :
          /\ s.class = t.class /\ s.name = t.name => s = t
          /\ t.class \in Ancestry(S, s.class) \ {s.class} => t.value < s.value

\* a symbol that has its parts has them of the right type
WellFormed(S) ==
    /\ \A s \in OfKind(S, "parent") : {s.class, s.name} \subseteq NameSet
    /\ \A s \in OfKind(S, "class") : s.class \in NameSet /\ s.value \in Nat
    /\ \A s \in S : s.kind \in {"type", "frametype"} => s.class # NULL /\ s.value \in Int

Elements(seq) == {seq[i] : i \in DOMAIN seq}

ASSUME ConfigAssumption ==
    /\ Names \in Seq(NameSet) /\ NULL \notin NameSet
    /\ Canned \in Seq(Elements(Canned))
    /\ \A b \in Binaries :
          /\ DOMAIN b = {"version", "metadata", "symbols", "constants", "absent", "lost"}
          /\ b.version = NULL \/ b.version \in Nat \X Nat \X Nat \X Nat
          /\ IsFiniteSet(b.symbols)
          /\ WellFormed(b.symbols) /\ Consistent(b.symbols)
    /\ \A c \in Elements(Canned) :
          /\ c.symbols \in Seq(Elements(c.symbols))
          /\ WellFormed(Elements(c.symbols)) /\ Consistent(Elements(c.symbols))
    /\ RequiredTypes \subseteq KnownTypes
    /\ MaxTypes \in Nat /\ MaxEdits \in Nat
    /\ \A f \in FieldArgs : f.class \in NameSet /\ f.off \in Nat
-----------------------------------------------------------------------------
(* The tables of constants and offsets: the entries that differ in what is *)
(* done when the metadata lacks them.                                      *)

Fallback == {"OPTIONAL", "HASFALLBACK"}
RemovedSince == {"REMOVED"}
AddedSince == {"ADDED"}

v8_constants ==
    LET C(n, f, v, d) == [sym |-> n, flags |-> f, since |-> v, fallback |-> d]
    IN {C("HeapObjectTag", {}, <<0, 0>>, 0),
        C("AsciiStringTag", RemovedSince, <<3, 29>>, 0),
        C("OneByteStringTag", AddedSince, <<3, 29>>, 0),
        C("fp_context_or_frame_type", Fallback, <<5, 1>>, -8),
        C("fp_marker", RemovedSince, <<5, 1>>, 0),
        C("context_ncommon", Fallback, <<0, 0>>, 4),
        C("scopeinfo_idx_first_vars", Fallback, <<4, 5>>, 6)}

(* The last entry lacks the initializer of v8o_optional: its flags are     *)
(* taken for that, and its fallback for the flags.                         *)
v8_offsets ==
    LET O(v, c, m, o, f, s, d) ==
            [var |-> v, class |-> c, member |-> m, optional |-> o,
             flags |-> f, since |-> s, fallback |-> d]
    IN {O("FIXEDARRAY_LENGTH", "FixedArray", "length", FALSE, {}, <<0, 0>>, 0),
        O("JSOBJECT_PROPERTIES", "JSObject", "properties", FALSE, RemovedSince, <<4, 9>>, 0),
        O("JSRECEIVER_PROPERTIES", "JSReceiver", "properties", FALSE, AddedSince, <<4, 9>>, 0),
        O("JSTYPEDARRAY_LENGTH", "JSTypedArray", "length", FALSE, Fallback, <<4, 5>>, 55),
        O("SEQASCIISTR_CHARS", "SeqAsciiString", "chars", TRUE, {}, <<0, 0>>, 0),
        O("SEQONEBYTESTR_CHARS", "SeqOneByteString", "chars", TRUE, {}, <<0, 0>>, 0),
        O("SEQTWOBYTESTR_CHARS", "SeqTwoByteString", "chars", TRUE, {}, <<0, 0>>, 0),
        O("SHAREDFUNCTIONINFO_INFERRED_NAME", "SharedFunctionInfo", "inferred_name",
          TRUE, {}, <<0, 0>>, 0),
        O("SHAREDFUNCTIONINFO_IDENTIFIER", "SharedFunctionInfo", "function_identifier",
          TRUE, {"OPTIONAL", "HASFALLBACK", "REMOVED", "ADDED"}, <<4, 0>>, 0)}

(* -1 stands for what has not been found.  No constant has that value, and  *)
(* no field that is looked up is where its offset from a tagged pointer     *)
(* would be that: the first word of every object is its map.               *)
Definite(S, constants) ==
    /\ \A c \in DOMAIN constants : constants[c] \in Int \ {-1}
    /\ "HeapObjectTag" \in DOMAIN constants =>
          \A s \in OfKind(S, "class"), o \in v8_offsets :
             s.name = o.member => s.value - constants["HeapObjectTag"] # -1

ASSUME DefiniteAssumption ==
    /\ \A b \in Binaries : Definite(b.symbols, b.constants)
    /\ \A c \in Elements(Canned) : Definite(Elements(c.symbols), c.constants)

Variables == {c.sym : c \in v8_constants} \cup {o.var : o \in v8_offsets} \cup {"BoundFunction"}
-----------------------------------------------------------------------------
VARIABLES
    binary,     \* the target: its version, symbols and readable constants
    lost,       \* symbols whose values are not in the core file
    v8_version, \* v8_major, v8_minor, v8_build, v8_patch
    status,     \* what autoconfigure is at, or what has become of it
    cfg,        \* the configuration in use: an index of Canned, or one of these
    again,      \* a configuration has been tried before this one
    unread,     \* its symbols that have not been seen
    classes,    \* v8_classes: the names, in the order of the list
    class,      \* each class: parent, fields in their order, start and end
    todo,       \* conf_class_compute_offsets: the calls, the innermost first
    enums,      \* v8_types and v8_frametypes, up to the next entry
    v8_type,    \* the V8_TYPE_ variables
    val,        \* the variables of v8_constants and v8_offsets
    failed,     \* something needed has not been found
    edits       \* what ::v8field has set

target == <<binary, lost>>
tables == <<classes, class, enums, v8_type, val>>
settled == <<target, v8_version, cfg, again, edits>>
cfgvars == <<settled, status, unread, tables, todo, failed>>

NoCfg == -1
TargetCfg == 0

NoClass == [parent |-> NULL, fields |-> <<>>, start |-> 0, end |-> -1]

Init ==
    /\ \E b \in Binaries :
          /\ \E a \in b.absent : binary = [b EXCEPT !.symbols = @ \ a]
          /\ lost \in b.lost
    /\ v8_version = <<0, 0, 0, 0>>
    /\ status = "loading"
    /\ cfg = NoCfg
    /\ again = FALSE
    /\ unread = {}
    /\ classes = <<>>
    /\ class = [n \in NameSet |-> NoClass]
    /\ todo = <<>>
    /\ enums = [type |-> <<>>, frametype |-> <<>>]
    /\ v8_type = [t \in KnownTypes |-> -1]
    /\ val = [v \in Variables |-> 0]
    /\ failed = FALSE
    /\ edits = <<>>

(* v8_version_older and v8_version_current_older: v is before the version  *)
(* that w gives the first numbers of.                                      *)
Older(v, w) == \E i \in DOMAIN w : v[i] < w[i] /\ \A j \in 1..(i - 1) : v[j] = w[j]

\* the symbols and readable constants of the configuration in use
Symbols == IF cfg = TargetCfg THEN binary.symbols ELSE Elements(Canned[cfg].symbols)
Readable == IF cfg = TargetCfg THEN binary.constants ELSE Canned[cfg].constants
-----------------------------------------------------------------------------
(* configure, when the dmod is loaded                                      *)

Autoconfigure(c) ==
    /\ cfg' = c
    /\ unread' = IF c = TargetCfg THEN binary.symbols ELSE Elements(Canned[c].symbols)
    /\ status' = "symbols"
    /\ again' = (cfg # NoCfg)
    /\ failed' = FALSE
    /\ UNCHANGED <<target, tables, todo, edits>>

\* the version of V8, or no metadata for it, can't be found
NotConfigured ==
    /\ status = "loading"
    /\ \/ binary.version = NULL /\ UNCHANGED v8_version
       \/ /\ binary.version # NULL
          /\ ~binary.metadata
          /\ \A i \in DOMAIN Canned : SubSeq(binary.version, 1, 3) # Canned[i].version
          /\ v8_version' = binary.version
    /\ status' = "unconfigured"
    /\ UNCHANGED <<target, cfg, again, unread, tables, todo, failed, edits>>

ConfigureTarget ==
    /\ status = "loading"
    /\ binary.version # NULL
    /\ binary.metadata
    /\ v8_version' = binary.version
    /\ Autoconfigure(TargetCfg)

ConfigureCanned(i) ==
    /\ status = "loading"
    /\ binary.version # NULL
    /\ ~binary.metadata
    /\ SubSeq(binary.version, 1, 3) = Canned[i].version
    /\ v8_version' = binary.version
    /\ Autoconfigure(i)

(* ::v8load.  cfgp is at the last configuration when no name has matched,  *)
(* so that "unknown configuration" is never said.                          *)
Named(n) ==
    IF \E i \in DOMAIN Canned : Canned[i].name = n
    THEN CHOOSE i \in DOMAIN Canned : Canned[i].name = n
    ELSE Len(Canned)

NoMetadata == ~binary.metadata
NotYetConfigured == classes = <<>>

V8Load(n) ==
    /\ status \in {"unconfigured", "failed", "ready"}
    /\ NotYetConfigured
    /\ Autoconfigure(Named(n))
    /\ UNCHANGED v8_version
-----------------------------------------------------------------------------
(* autoconf_iter_symbol: mdb's symbol table is in no order, a canned       *)
(* configuration is a list.                                                *)

Position(s) == CHOOSE i \in DOMAIN Canned[cfg].symbols : Canned[cfg].symbols[i] = s

Take(s) ==
    /\ status = "symbols"
    /\ s \in unread
    /\ cfg # TargetCfg => \A t \in unread : Position(s) <= Position(t)
    /\ unread' = unread \ {s}

IterationGoesOn == UNCHANGED <<status, failed>>

\* a callback that returns -1 ends the iteration, and so autoconfigure
IterationFails ==
    /\ status' = "failed"
    /\ failed' = TRUE

Rank(n) == CHOOSE i \in DOMAIN Names : Names[i] = n

SmallestOf(S) == CHOOSE i \in S : \A j \in S : i <= j

\* where conf_class_findcreate stops: at the class, or at one after it
PlaceLast(list, n) == SmallestOf({i \in DOMAIN list : list[i] = n} \cup {Len(list) + 1})
Place(list, n) == SmallestOf({i \in DOMAIN list : Rank(list[i]) >= Rank(n)} \cup {Len(list) + 1})

conf_class_findcreate(list, n) ==
    IF Place(list, n) \in DOMAIN list /\ list[Place(list, n)] = n THEN list
    ELSE InsertAt(list, Place(list, n), n)

\* fields are kept in the order of their offsets
conf_field_create(fields, f, off) ==
    InsertAt(fields,
             SmallestOf({i \in DOMAIN fields : fields[i].off > off} \cup {Len(fields) + 1}),
             [name |-> f, off |-> off])

conf_update_parent(s) ==
    /\ Take(s)
    /\ s.kind = "parent" /\ s.ok
    /\ classes' = conf_class_findcreate(conf_class_findcreate(classes, s.class), s.name)
    /\ class' = [class EXCEPT ![s.class].parent = s.name]
    /\ UNCHANGED <<settled, status, enums, v8_type, val, todo, failed>>

conf_update_field(s) ==
    /\ Take(s)
    /\ s.kind = "class" /\ s.ok /\ s \notin lost
    /\ classes' = conf_class_findcreate(classes, s.class)
    /\ class' = [class EXCEPT ![s.class].fields = conf_field_create(@, s.name, s.value)]
    /\ UNCHANGED <<settled, status, enums, v8_type, val, todo, failed>>

IsEnum(s) == s.kind = "frametype" \/ (s.kind = "type" /\ s.ok)

\* conf_update_type, conf_update_frametype: one entry more than there is room for
HasRoom(k) == Len(enums[k]) <= MaxTypes

conf_update_type(s) ==
    /\ Take(s)
    /\ IsEnum(s) /\ s \notin lost
    /\ HasRoom(s.kind)
    /\ enums' = [enums EXCEPT ![s.kind] = Append(@, [name |-> s.class, value |-> s.value])]
    /\ UNCHANGED <<settled, status, classes, class, v8_type, val, todo, failed>>

\* the entry is taken before its value is read, and stays empty
conf_update_enum(s) ==
    /\ Take(s)
    /\ IsEnum(s) /\ s \in lost
    /\ HasRoom(s.kind)
    /\ enums' = [enums EXCEPT ![s.kind] = Append(@, [name |-> NULL, value |-> 0])]
    /\ IterationFails
    /\ UNCHANGED <<settled, classes, class, v8_type, val, todo>>

\* a malformed name, a field whose offset can't be read, a table that is full
BadSymbol(s) ==
    /\ Take(s)
    /\ \/ s.kind \in {"parent", "class", "type"} /\ ~s.ok
       \/ s.kind = "class" /\ s \in lost
       \/ IsEnum(s) /\ ~HasRoom(s.kind)
    /\ IterationFails
    /\ UNCHANGED <<settled, tables, todo>>

OtherSymbol(s) ==
    /\ Take(s)
    /\ s.kind = "other"
    /\ UNCHANGED <<settled, status, tables, todo, failed>>

EndSymbols ==
    /\ status = "symbols"
    /\ unread = {}
    /\ status' = "ends"
    /\ UNCHANGED <<settled, unread, tables, todo, failed>>
-----------------------------------------------------------------------------
(* conf_class_compute_offsets: the fields of a class start where those of  *)
(* its parent end, which has to be known first.                            *)

\* the calls end at the class itself, the parent that has no end yet comes first
ParentAlways(c) == class[c].parent # NULL
NeverPending(c) == FALSE
ParentPending(c) == class[c].parent # NULL /\ class[class[c].parent].end = -1

StartClass(i) ==
    /\ status = "ends"
    /\ todo = <<>>
    /\ class[classes[i]].end = -1
    /\ \A j \in 1..(i - 1) : class[classes[j]].end # -1
    /\ todo' = <<classes[i]>>
    /\ UNCHANGED <<settled, status, unread, tables, failed>>

ComputeParent ==
    /\ status = "ends"
    /\ todo # <<>>
    /\ ParentPending(Head(todo))
    /\ todo' = <<class[Head(todo)].parent>> \o todo
    /\ UNCHANGED <<settled, status, unread, tables, failed>>

EndAtLast(c, start) ==
    IF class[c].fields = <<>> THEN start ELSE Last(class[c].fields).off
EndOf(c, start) ==
    IF class[c].fields = <<>> THEN start ELSE Last(class[c].fields).off + Ptr

ComputeClass ==
    /\ status = "ends"
    /\ todo # <<>>
    /\ ~ParentPending(Head(todo))
    /\ LET c == Head(todo)
           p == class[c].parent
           start == IF p = NULL THEN 0 ELSE class[p].end
       IN class' = [class EXCEPT ![c].start = start, ![c].end = EndOf(c, start)]
    /\ todo' = Tail(todo)
    /\ UNCHANGED <<settled, status, unread, classes, enums, v8_type, val, failed>>

EndClasses ==
    /\ status = "ends"
    /\ todo = <<>>
    /\ \A n \in Elements(classes) : class[n].end # -1
    /\ status' = "constants"
    /\ UNCHANGED <<settled, unread, tables, todo, failed>>
-----------------------------------------------------------------------------
(* autoconfigure: constants, types and offsets                             *)

\* an entry that this version of V8 should have
NeededAlways(e) == e.flags = {}
Needed(e) ==
    /\ "OPTIONAL" \notin e.flags
    /\ "REMOVED" \in e.flags => Older(v8_version, e.since)
    /\ "ADDED" \in e.flags => ~Older(v8_version, e.since)

FallbackAlways(e) == IF "HASFALLBACK" \in e.flags THEN e.fallback ELSE -1
Otherwise(e) ==
    IF "HASFALLBACK" \in e.flags /\ ~Older(v8_version, e.since) THEN e.fallback ELSE -1

\* a constant that should be there and isn't keeps its value
LoadConstants ==
    /\ status = "constants"
    /\ val' = [v \in Variables |->
                 IF \A c \in v8_constants : c.sym # v THEN val[v]
                 ELSE LET c == CHOOSE k \in v8_constants : k.sym = v
                      IN IF v \in DOMAIN Readable THEN Readable[v]
                         ELSE IF Needed(c) THEN val[v]
                         ELSE Otherwise(c)]
    /\ failed' = \E c \in v8_constants : c.sym \notin DOMAIN Readable /\ Needed(c)
    /\ status' = "types"
    /\ UNCHANGED <<settled, unread, classes, class, enums, v8_type, todo>>

\* the entries before the first empty one, where every loop over a table ends
Listed(k) ==
    LET t == enums[k]
    IN SubSeq(t, 1, SmallestOf({i \in DOMAIN t : t[i].name = NULL} \cup {Len(t) + 1}) - 1)

\* the last entry of that name
TypeValue(n, default) ==
    LET t == Listed("type")
        S == {i \in DOMAIN t : t[i].name = n}
    IN IF S = {} THEN default ELSE t[CHOOSE i \in S : \A j \in S : j <= i].value

\* the first one, for "Code"
FirstTypeValue(n) ==
    LET t == Listed("type")
        S == {i \in DOMAIN t : t[i].name = n}
    IN IF S = {} THEN -1 ELSE t[SmallestOf(S)].value

\* the type after HeapNumber, or after Code since V8 4.6.85.23
MutableHeapNumber(types) ==
    IF types["HeapNumber"] = -1 \/ types["MutableHeapNumber"] # -1 THEN types["MutableHeapNumber"]
    ELSE IF Older(v8_version, <<4, 6, 85, 23>>) THEN types["HeapNumber"] + 1
    ELSE IF FirstTypeValue("Code") # -1 THEN FirstTypeValue("Code") + 1
    ELSE -1

LoadTypes ==
    /\ status = "types"
    /\ LET types == [n \in KnownTypes |-> TypeValue(n, v8_type[n])]
       IN /\ v8_type' = [types EXCEPT !["MutableHeapNumber"] = MutableHeapNumber(types)]
          /\ failed' = (failed \/ \E n \in RequiredTypes : types[n] = -1)
    /\ status' = "offsets"
    /\ UNCHANGED <<settled, unread, classes, class, enums, val, todo>>

\* conf_field_lookup: the indexes of fields of that name in a class that is known
Fields(c, f) ==
    {i \in DOMAIN class[c].fields : c \in Elements(classes) /\ class[c].fields[i].name = f}

HasField(c, f) == c \in NameSet /\ Fields(c, f) # {}

\* V8_OFF_HEAP of the first one, which the tag of a reference is taken from
heap_offset(c, f) == class[c].fields[SmallestOf(Fields(c, f))].off - val["HeapObjectTag"]

\* FixedArray's length may be in its base class
Holder(o) ==
    IF ~HasField(o.class, o.member) /\ o.class = "FixedArray" THEN "FixedArrayBase" ELSE o.class

Found(o) == HasField(Holder(o), o.member)

OffsetValue(o) ==
    CASE Found(o) -> heap_offset(Holder(o), o.member)
      [] ~Found(o) /\ o.optional -> -1
      [] OTHER -> Otherwise(o)

DeriveNever(v, x, y) == v
Derive(v, x, y) == IF v[x] = -1 THEN [v EXCEPT ![x] = v[y]] ELSE v

(* What one variable of the code stands for has had several names in V8:   *)
(* the one that this version has is copied to it.                          *)
Derived(v) ==
    LET chars == IF v["SEQONEBYTESTR_CHARS"] = -1 THEN v
                 ELSE [v EXCEPT !["SEQASCIISTR_CHARS"] = v["SEQONEBYTESTR_CHARS"]]
        twobyte == Derive(chars, "SEQTWOBYTESTR_CHARS", "SEQASCIISTR_CHARS")
        props == Derive(twobyte, "JSOBJECT_PROPERTIES", "JSRECEIVER_PROPERTIES")
        frame == Derive(props, "fp_context_or_frame_type", "fp_marker")
        name == Derive(frame, "SHAREDFUNCTIONINFO_IDENTIFIER", "SHAREDFUNCTIONINFO_INFERRED_NAME")
    IN [name EXCEPT
          !["scopeinfo_idx_first_vars"] =
             CASE @ # -1 -> @
               [] @ = -1 /\ ~Older(v8_version, <<4, 3>>) -> 5
               [] @ = -1 /\ Older(v8_version, <<4, 3>>) /\ ~Older(v8_version, <<3, 7>>) -> 4
               [] OTHER -> -1,
          !["BoundFunction"] =
             IF v8_type["JSBoundFunction"] # -1 THEN @
             ELSE IF Older(v8_version, <<3, 28, 71, 19>>) THEN 13
             ELSE IF Older(v8_version, <<4, 5, 103, 30>>) THEN 8
             ELSE 10]

OneKindOfString(v) == (v["SEQASCIISTR_CHARS"] # -1) # (v["SEQONEBYTESTR_CHARS"] # -1)

LoadOffsets ==
    /\ status = "offsets"
    /\ LET loaded == [v \in Variables |->
                        IF \A o \in v8_offsets : o.var # v THEN val[v]
                        ELSE OffsetValue(CHOOSE o \in v8_offsets : o.var = v)]
       IN /\ val' = Derived(loaded)
          /\ failed' = \/ failed
                       \/ \E o \in v8_offsets : ~Found(o) /\ ~o.optional /\ Needed(o)
                       \/ ~OneKindOfString(loaded)
    /\ status' = IF failed' THEN "failed" ELSE "ready"
    /\ UNCHANGED <<settled, unread, classes, class, enums, v8_type, todo>>
-----------------------------------------------------------------------------
(* Using and changing the tables                                           *)

Idle == status \in {"unconfigured", "failed", "ready"}

(* ::v8field: the first field of that name gets another offset where it    *)
(* is; a new one is put in its place.  No end is computed again, and no    *)
(* variable.                                                               *)
V8Field(a) ==
    /\ Idle
    /\ Len(edits) < MaxEdits
    /\ a.class \in Elements(classes)
    /\ IF Fields(a.class, a.name) = {}
       THEN class' = [class EXCEPT ![a.class].fields = conf_field_create(@, a.name, a.off)]
       ELSE class' = [class EXCEPT ![a.class].fields[SmallestOf(Fields(a.class, a.name))].off = a.off]
    /\ edits' = Append(edits, a)
    /\ UNCHANGED <<target, v8_version, status, cfg, again, unread, classes, enums, v8_type, val,
                   todo, failed>>

\* the fields that ::v8print prints of an object of class c, with their classes
obj_print_class[c \in NameSet] ==
    LET parent == class[c].parent
        own == [i \in DOMAIN class[c].fields |-> <<c, class[c].fields[i].name>>]
        inherited == IF parent = NULL THEN <<>> ELSE obj_print_class[parent]
    IN IF class[c].end = 0 THEN inherited ELSE inherited \o own
-----------------------------------------------------------------------------
Reading(s) == \/ conf_update_parent(s) \/ conf_update_field(s) \/ conf_update_type(s)
              \/ conf_update_enum(s) \/ BadSymbol(s) \/ OtherSymbol(s)

Computing == \/ EndSymbols \/ (\E i \in DOMAIN classes : StartClass(i))
             \/ ComputeParent \/ ComputeClass \/ EndClasses
             \/ LoadConstants \/ LoadTypes \/ LoadOffsets

Configure == NotConfigured \/ ConfigureTarget \/ \E i \in DOMAIN Canned : ConfigureCanned(i)

Command == (\E n \in LoadArgs : V8Load(n)) \/ (\E a \in FieldArgs : V8Field(a))

Next == Configure \/ (\E s \in unread : Reading(s)) \/ Computing \/ Command

Spec == Init /\ [][Next]_cfgvars

\* the dmod is loaded, and a dcmd runs, to its end; no one has to type a dcmd
FairSpec == Spec /\ WF_cfgvars(Configure \/ (\E s \in unread : Reading(s)) \/ Computing)
-----------------------------------------------------------------------------
TypeOK ==
    /\ status \in {"loading", "unconfigured", "symbols", "ends", "constants", "types",
                   "offsets", "ready", "failed"}
    /\ cfg \in {NoCfg, TargetCfg} \cup DOMAIN Canned
    /\ classes \in Seq(NameSet) /\ todo \in Seq(NameSet)
    /\ DOMAIN class = NameSet
    /\ \A n \in NameSet : class[n].parent \in NameSet \cup {NULL}
    /\ \A k \in DOMAIN enums : Len(enums[k]) <= MaxTypes + 1
    /\ v8_type \in [KnownTypes -> Int]
    /\ val \in [Variables -> Int]

Seen == IF cfg = NoCfg THEN {} ELSE Symbols \ unread
SeenOf(k) == OfKind(Seen, k) \ lost

(* The tables hold what the symbols say that have been read so far, no     *)
(* matter in which order they came and where reading stopped: the classes  *)
(* named by a field or a parent, once each and in the order that           *)
(* conf_class_findcreate relies on; fields in the order of their offsets;  *)
(* nothing of a configuration that was tried before.                       *)
ClassesAsRead ==
    /\ Elements(classes) =
          {s.class : s \in SeenOf("class")} \cup
          UNION {{s.class, s.name} : s \in OfKind(Seen, "parent")}
    /\ \A i, j \in DOMAIN classes : i < j => Rank(classes[i]) < Rank(classes[j])
    /\ \A n \in NameSet :
          /\ Superclasses(Seen, n) = {class[n].parent} \ {NULL}
          /\ edits = <<>> =>
                /\ \A i, j \in DOMAIN class[n].fields :
                      i < j => /\ class[n].fields[i].off <= class[n].fields[j].off
                               /\ class[n].fields[i].name # class[n].fields[j].name
                /\ Elements(class[n].fields) =
                      {[name |-> s.name, off |-> s.value] :
                          s \in {t \in SeenOf("class") : t.class = n}}

Offsets(n) == {s.value : s \in {t \in OfKind(Symbols, "class") : t.class \in Ancestry(Symbols, n)}}
Inherited(n) ==
    {s.value : s \in {t \in OfKind(Symbols, "class") :
                         t.class \in Ancestry(Symbols, n) \ {n}}}
After(S) == IF S = {} THEN 0 ELSE (CHOOSE x \in S : \A y \in S : y <= x) + Ptr

(* "Update the start and end fields of each class based on the values of   *)
(* its parent class": a class starts after all it inherits and ends after  *)
(* its last field, also when it comes before its parent in the list.  What *)
(* conf_class_compute_offsets asserts holds: no class is done twice.       *)
EndsFollowParents ==
    /\ \A i \in DOMAIN todo : class[todo[i]].start = 0 /\ class[todo[i]].end = -1
    /\ status \in {"constants", "types", "offsets", "ready"} =>
          \A n \in Elements(classes) :
             /\ class[n].start = After(Inherited(n))
             /\ class[n].end = After(Offsets(n))

(* What the configuration in use says of a variable: the value of the      *)
(* constant; the place of the field in its class, FixedArray's length also *)
(* in FixedArrayBase, from a tagged pointer.  At most one value.           *)
FieldSaid(c, f) ==
    {s.value - Readable["HeapObjectTag"] :
        s \in {t \in OfKind(Symbols, "class") : t.class = c /\ t.name = f}}
OffsetSaid(o) ==
    IF o.class = "FixedArray" /\ FieldSaid(o.class, o.member) = {}
    THEN FieldSaid("FixedArrayBase", o.member)
    ELSE FieldSaid(o.class, o.member)
Said(v) == (IF v \in {c.sym : c \in v8_constants} \cap DOMAIN Readable THEN {Readable[v]} ELSE {})
           \cup UNION {OffsetSaid(o) : o \in {p \in v8_offsets : p.var = v}}

Since(major, minor) == ~Older(v8_version, <<major, minor>>)

\* what a version of V8 is known to have where its metadata says nothing
Granted(v) ==
    CASE v = "fp_context_or_frame_type" /\ Since(5, 1) -> {-8}
      [] v = "context_ncommon" -> {4}
      [] v = "JSTYPEDARRAY_LENGTH" /\ Since(4, 5) -> {55}
      [] v = "scopeinfo_idx_first_vars" ->
            IF Since(4, 5) THEN {6} ELSE IF Since(4, 3) THEN {5} ELSE IF Since(3, 7) THEN {4} ELSE {}
      [] OTHER -> {}

\* the variables of what was called otherwise in other versions
OtherNames(v) ==
    CASE v = "SEQASCIISTR_CHARS" -> {"SEQONEBYTESTR_CHARS"}
      [] v = "SEQTWOBYTESTR_CHARS" -> {"SEQONEBYTESTR_CHARS", "SEQASCIISTR_CHARS"}
      [] v = "JSOBJECT_PROPERTIES" -> {"JSRECEIVER_PROPERTIES"}
      [] v = "fp_context_or_frame_type" -> {"fp_marker"}
      [] v = "SHAREDFUNCTIONINFO_IDENTIFIER" -> {"SHAREDFUNCTIONINFO_INFERRED_NAME"}
      [] OTHER -> {}

ValuesOf(v) ==
    IF Said(v) # {} THEN Said(v)
    ELSE IF Granted(v) # {} THEN Granted(v)
    ELSE UNION {Said(w) : w \in OtherNames(v)}

(* The variables that V8 of this version has no value for.  The last two   *)
(* are those whose entries lack the initializer of v8o_optional: any       *)
(* version may be without them, and a fallback is not granted (which       *)
(* FallbacksUsed is about).                                                *)
MayLack ==
    (IF Since(3, 29) THEN {"AsciiStringTag"} ELSE {"OneByteStringTag"})
    \cup (IF Since(5, 1) THEN {"fp_marker"} ELSE {})
    \cup (IF Since(3, 7) THEN {} ELSE {"scopeinfo_idx_first_vars"})
    \cup (IF Since(4, 5) THEN {} ELSE {"JSTYPEDARRAY_LENGTH"})
    \cup (IF Since(4, 9) THEN {} ELSE {"JSRECEIVER_PROPERTIES"})
    \cup {"SEQONEBYTESTR_CHARS"}
    \cup {"SHAREDFUNCTIONINFO_INFERRED_NAME", "SHAREDFUNCTIONINFO_IDENTIFIER"}

(* Each variable of v8_constants and v8_offsets, as far as the tables are  *)
(* modelled, has the value that the configuration in use gives it under    *)
(* its own name, else what is granted to this version, else the value of   *)
(* the other name it has had; only where the version may lack it, and      *)
(* nothing says it, it is -1.  The types that are called needed are known. *)
ValuesRight ==
    \A v \in Variables \ {"BoundFunction"} :
       IF ValuesOf(v) = {} THEN v \in MayLack /\ val[v] = -1 ELSE val[v] \in ValuesOf(v)

NothingMissing ==
    status = "ready" => ValuesRight /\ \A n \in RequiredTypes : v8_type[n] # -1

(* The types of the first configuration that is tried are those of its     *)
(* symbols: the empty entry that a symbol without a value leaves behind    *)
(* hides those after it, but configuration has failed by then.             *)
TypesFound ==
    status = "ready" /\ ~again =>
       \A n \in KnownTypes \ {"MutableHeapNumber"} :
          LET V == {s.value : s \in {t \in OfKind(Symbols, "type") : t.class = n}}
          IN v8_type[n] \in IF V = {} THEN {-1} ELSE V

(* When autoconfigure reports success, each entry of the modelled tables   *)
(* has the value that the symbols, this version's fallback or the older    *)
(* name give it, and none that this version should have is unknown, but    *)
(* for the two that MayLack excepts; nothing is left of a configuration    *)
(* that failed before.  The types that it calls needed are known, and in   *)
(* the first configuration that is tried all types are those of its        *)
(* symbols.                                                                *)
SuccessIsComplete == NothingMissing /\ TypesFound

(* ::v8print of an object prints the fields of its class and of all that   *)
(* it inherits from, those first, each once, although it takes the classes *)
(* without fields another way.                                             *)
PrintsHierarchy ==
    status = "ready" /\ edits = <<>> =>
       \A n \in Elements(classes) :
          LET printed == obj_print_class[n]
          IN /\ Elements(printed) =
                   {<<s.class, s.name>> :
                       s \in {t \in OfKind(Symbols, "class") : t.class \in Ancestry(Symbols, n)}}
             /\ \A i, j \in DOMAIN printed :
                   i < j => /\ printed[i] # printed[j]
                            /\ printed[i][1] \in Ancestry(Symbols, printed[j][1])

(* A configuration that is in use is not replaced or disturbed: ::v8load   *)
(* refuses, and ::v8field changes a field that ::v8print shows, but not    *)
(* the offsets that the dcmds use.                                         *)
StaysConfigured ==
    [][status = "ready" => UNCHANGED <<status, cfg, classes, enums, v8_type, val>>]_cfgvars

(* Configuration comes to an end, however the classes are linked.          *)
ConfigurationEnds == []<>Idle

(* "We have a fallback -- and we know that the version satisfies the       *)
(* fallback's version constraints; use the fallback value."                *)
FallbacksUsed ==
    status = "ready" /\ ~Older(v8_version, <<5, 1>>)
       /\ ~HasField("SharedFunctionInfo", "function_identifier")
       => val["SHAREDFUNCTIONINFO_IDENTIFIER"] = 79
=============================================================================
