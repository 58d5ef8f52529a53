------------------------------ MODULE MCConfig ------------------------------
(* Config for TLC: a V8 3.14 and a V8 5.1 with metadata, from which a      *)
(* symbol may be missing or have a value that is not in the core file; a   *)
(* V8 3.6 without metadata; one without metadata or configuration; one     *)
(* with more types than there is room for.                                 *)
EXTENDS Config

MCNames == <<"FixedArray", "FixedArrayBase", "HeapObject", "JSObject", "JSReceiver", "Object",
             "SeqAsciiString", "SeqOneByteString", "SharedFunctionInfo">>

P(c, p) == [kind |-> "parent", class |-> c, name |-> p, value |-> 0, ok |-> TRUE]
F(c, f, v) == [kind |-> "class", class |-> c, name |-> f, value |-> v, ok |-> TRUE]
T(c, v) == [kind |-> "type", class |-> c, name |-> c, value |-> v, ok |-> TRUE]
Other == [kind |-> "other", class |-> "", name |-> "SmiTag", value |-> 0, ok |-> TRUE]
Frame == [kind |-> "frametype", class |-> "EntryFrame", name |-> "", value |-> 1, ok |-> TRUE]
Malformed == [P("JSObject", "JSReceiver") EXCEPT !.ok = FALSE]

Inheritance == {P("FixedArray", "FixedArrayBase"), P("FixedArrayBase", "HeapObject"),
                P("HeapObject", "Object")}
Common == Inheritance \cup
          {F("HeapObject", "map", 0), F("FixedArrayBase", "length", 8),
           T("JSObject", 160), T("FixedArray", 150), T("HeapNumber", 130)}

Symbols314 == Common \cup {F("JSObject", "properties", 8), F("SeqAsciiString", "chars", 16),
                           F("SeqAsciiString", "hash", 8)}
Symbols51 == Common \cup {F("JSReceiver", "properties", 8), P("JSObject", "JSReceiver"),
                          F("SeqOneByteString", "chars", 16), T("JSBoundFunction", 161)}

TooManyTypes == {T("JSObject", 160), T("FixedArray", 150), T("HeapNumber", 130), T("Code", 129),
                 T("Map", 128)}

Constants314 == [HeapObjectTag |-> 1, AsciiStringTag |-> 4, fp_marker |-> -8]
Constants51 == [HeapObjectTag |-> 1, OneByteStringTag |-> 4]

Some(S) == {{}} \cup {{s} : s \in S}

MCBinaries ==
    {[version |-> <<3, 14, 5, 9>>, metadata |-> TRUE, symbols |-> Symbols314,
      constants |-> Constants314, absent |-> Some({F("JSObject", "properties", 8), F("SeqAsciiString", "chars", 16)}),
      lost |-> Some({T("HeapNumber", 130), F("SeqAsciiString", "hash", 8)})],
     [version |-> <<3, 14, 5, 9>>, metadata |-> TRUE,
      symbols |-> (Symbols314 \cup {Malformed, Frame, Other}) \ Inheritance,
      constants |-> Constants314, absent |-> {{}}, lost |-> {{}, {Frame}}],
     [version |-> <<5, 1, 281, 75>>, metadata |-> TRUE, symbols |-> Symbols51,
      constants |-> Constants51,
      absent |-> Some({T("JSObject", 160), F("FixedArrayBase", "length", 8)}),
      lost |-> {{}}],
     [version |-> <<4, 5, 103, 35>>, metadata |-> TRUE, symbols |-> TooManyTypes, constants |-> <<>>,
      absent |-> {{}}, lost |-> {{}}],
     [version |-> <<3, 6, 6, 0>>, metadata |-> FALSE, symbols |-> {}, constants |-> <<>>,
      absent |-> {{}}, lost |-> {{}}],
     [version |-> <<4, 5, 103, 35>>, metadata |-> FALSE, symbols |-> {}, constants |-> <<>>,
      absent |-> {{}}, lost |-> {{}}],
     [version |-> NULL, metadata |-> FALSE, symbols |-> {}, constants |-> <<>>,
      absent |-> {{}}, lost |-> {{}}]}

CannedSymbols(len) ==
    <<T("FixedArray", 156), T("HeapNumber", 132), T("JSObject", 160), Other,
      F("FixedArray", "length", len), F("HeapObject", "map", 0), F("JSObject", "properties", 8),
      F("SeqAsciiString", "chars", 16), P("FixedArray", "HeapObject"), P("HeapObject", "Object"),
      P("JSObject", "HeapObject"), F("SharedFunctionInfo", "inferred_name", 24)>>

MCCanned ==
    <<[name |-> "node-0.4", version |-> <<3, 1, 8>>, symbols |-> CannedSymbols(8),
       constants |-> Constants314],
      [name |-> "node-0.6", version |-> <<3, 6, 6>>, symbols |-> CannedSymbols(16),
       constants |-> Constants314]>>

MCTypes == {"FixedArray", "HeapNumber", "JSBoundFunction", "JSObject", "MutableHeapNumber"}

MCFieldArgs ==
    {[class |-> "FixedArrayBase", name |-> "length", off |-> 24],
     [class |-> "HeapObject", name |-> "extra", off |-> 4]}
=============================================================================
