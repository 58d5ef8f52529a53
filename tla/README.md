# A TLA+ model of mdb_v8

mdb_v8 is a debugger module for illumos mdb: it understands the heap of a
node.js process (or of its core file) and adds dcmds and walkers that list,
print and search JavaScript values. This directory holds TLA+ modules for the
parts of it that keep state or follow a protocol, TLC configurations that check
them on small instances, and proofs that TLAPS checks for all instances.
`PROJECT.json` maps every definition to the lines it models. Paths below are
relative to the repository root (`src/` in `PROJECT.json` is that root).

## 1. The system

mdb_v8 is single-threaded. mdb calls a dcmd, a walker step or a callback, and
waits for it. Two things make that harder than it sounds:

* **State outlives a dcmd.** The configuration, the table of objects, the marks
  and `v8_silent` are static variables. A later dcmd finds what an earlier one
  has left.
* **The operator can interrupt.** Ctrl-C makes mdb jump out of a dcmd, at
  whatever it is doing, and free the memory the dcmd got with `UM_GC`. No code
  of the module runs, so static variables stay as they are. The object finder
  runs for minutes on a real heap, and is the code that gets interrupted.

The third is the data: the heap is a snapshot, in the middle of a garbage
collection perhaps, with memory of dead objects in it. Any read may fail, any
value may be no object, and a loaded structure may contradict itself.

### Components

| component | source | state | operations | properties that make it correct |
|---|---|---|---|---|
| object finder | `src/mdb_v8.c` 4683-5773, 6540-6691 | `findjsobjects_state_t`: trees, list, marks, options, `fjs_finished`, `fjs_addr`; `v8_silent` | `::findjsobjects` and its options, `::jsfunctions`, interrupts | answers come from a complete table; groups and counts are exact; marks survive until reported; the cache is kept; `v8_silent` is balanced; every dcmd returns |
| object trees | `src/mdb_v8.c` 4804-4892, libavl | `fjs_tree`, `fjs_funcinfo` | lookup, insertion | one node for each signature, whatever the order of insertions |
| string buffers | `src/mdb_v8_strbuf.c` | `mdbv8_strbuf_t` | append, sprintf, reserve, rewind | no write outside; what is promised about the room is kept |
| strings | `src/mdb_v8_string.c` | the recursion and the position in a string | `v8string_write` for sequential, external, sliced and cons strings | what fits is whole, a cut is marked, quotes match, it returns |
| arrays | `src/mdb_v8_array.c`, `src/mdb_v8_subr.c` 67-170 | position in an array | `v8array_iter_elements`, `v8fixedarray_as_array` | each element once, in order, none missing |
| containment and reference search | `src/mdb_v8_whatis.c`, `src/mdb_v8_dbi.c`, `src/mdb_v8_subr.c` 171-260, `src/mdb_v8.c` 6085-6310 | search path, depth | `::v8whatis`, `::jsfindrefs`, `dbi_ugrep`, `v8contains` | a reported referrer refers; the depth limit ends the search; none within it is missed |
| object properties | `src/mdb_v8.c` 2340-2963 | position among elements and descriptors, `jspropinfo` flags | `jsobj_properties`, garbage test | each property once, with the value of its slot; garbage is told from objects |
| layout, unboxed doubles | `src/mdb_v8.c` 3071-3194 | decoded bitmap | `jsobj_layout_load`, `jsobj_layout_untagged` | a double is never taken for a pointer |
| configuration | `src/mdb_v8.c` 75-1419, 6728-6984, 7393-7446, `src/mdb_v8_cfg.c` | class, field and type tables, the `V8_` variables | `configure`, `autoconfigure`, `::v8load`, `::v8field` | the tables do not depend on the order of symbols; ends follow inheritance; success is complete; it is not replaced |
| functions, contexts, scopes | `src/mdb_v8_function.c` | loaded handles, `v8_warnings` | `::jsclosure`, `::jsfunction`, `::v8function`, `::v8context`, `::v8scopeinfo`, `::v8code` | each variable has its own value, in every layout; nothing is left behind, however a command ends; the line of a function is right |
| object printing | `src/mdb_v8.c` 3430-3960, 6408-6491 | `jsobj_print_t`, copied at each descent; the buffer and its size | `::jsprint`, `jsobj_print*` | all of the value is printed to its depth, each member on its own, it returns |
| stack frames | `src/mdb_v8.c` 4332-4692, 6313-6366, 6847-6881, 7173-7205 | the walk, counts of elided frames, the indentation | `::jsstack`, `::jsframe` | each frame is shown or counted once, in order; arguments belong to their frame; it ends |
| walkers | `src/mdb_v8.c` 7096-7299 | walk position | `jselement`, `jsframe`, `jsprop` | each element once, steps after a failure |
| memory ownership | `memflags`, `maybefree`, `*_free` in all files | who frees a handle | load, free, `UM_GC` | freed once, not used after |
| heap readers | `src/mdb_v8.c` 1500-2100 | none | `read_heap_*`, `read_typebyte` | (stateless) |
| dates, regexps, node buffers | `src/mdb_v8.c` | none | formatting | (stateless) |
| V8 structure dcmds | `src/mdb_v8.c` 3966-4330, 6728-6789 | none of their own | `::v8classes`, `::v8print`, ... | (print tables of the configuration) |

How they interact: the object finder calls the heap readers, `jsobj_properties`
(which calls back `findjsobjects_prop` for each property), and
`v8array_iter_elements`-like loops over array contents; it files results in two
AVL trees through the comparison functions. `::jsprint` and
`findjsobjects_constructor` write strings with `v8string_write` into a string
buffer that they share with all of their recursion. `::jsfindrefs` calls
`dbi_ugrep`, whose callback calls `v8contains`, which loads the object found
and calls `dbi_ugrep` again one level deeper. Everything reads the
configuration's tables.

### What is hard

`PROJECT.json` lists the hazards at their lines, with the properties that cover
each. In short: interrupts between any two steps of the scan and of `-r`;
static options and flags left over from another dcmd (`fjs_brk`, `fjs_addr`,
`fjs_finished`); `UM_GC` memory linked from memory that is not; comparison
functions of several fields; a buffer whose promised room depends on three
functions that count alike; a look-ahead that may make no progress; recursion
over corrupt data; loops over pages with a special case at the last one; a
printer that prints again when the buffer was too small, with state of its own
kept over attempts and members; symbols that come in any order, and tables in
which an entry may be missing, renamed or half written; commands that load up to
nine handles, each of which may fail, and clean up in one place; arrays whose
layout depends on the version of V8.

## 2. The modules

| module | models | on top of |
|---|---|---|
| `HeapQueries` | what `::findjsobjects` and `::jsfunctions` promise, without scan, cache or lists | - |
| `FindJSObjects` | the object finder as the code has it | `HeapQueries`, as its refinement |
| `MCFindJSObjects` | a heap and the command lines for TLC | `FindJSObjects` |
| `FindJSObjects_proofs` | theorems about the object finder | `FindJSObjects` |
| `ObjectTrees`, `MCObjectTrees` | both AVL trees with their comparison functions | - |
| `ObjectTrees_proofs` | theorems about the trees and the order of their keys | `ObjectTrees` |
| `StrBuf` | the string buffer and any client of it | - |
| `V8String`, `MCV8String` | `v8string_write`, a client of the buffer | `StrBuf`, extended and refined |
| `V8String_proofs` | theorems about string buffers, and about strings: their quotes, the use of the buffer, what is written | `V8String` |
| `Arrays` | iteration over a JSArray and its FixedArray, as operators for a client | - |
| `JSPrint`, `MCJSPrint` | `::jsprint` and the recursive printer | `Arrays`, extended |
| `JSPrint_proofs` | theorems about what `::jsprint` prints | `JSPrint` |
| `ObjectProperties`, `MCObjectProperties` | `jsobj_properties`, `read_heap_dict`, layout descriptors, the callbacks | - |
| `ObjectProperties_proofs` | theorems about the walk of an object's properties | `ObjectProperties` |
| `FindRefs`, `MCFindRefs` | `::jsfindrefs`, `v8whatis`, `v8contains`, `dbi_ugrep` | - |
| `FindRefs_proofs` | theorems about searches for references | `FindRefs` |
| `Config`, `MCConfig` | configuration from symbols, `::v8load`, `::v8field`, the fields `::v8print` prints | - |
| `Config_proofs` | theorems about the configuration | `Config` |
| `LineSearch` | the binary search for the line of a position | - |
| `Session` | one command after the other, the memory, indentation and warning level it must put back | `LineSearch` |
| `Closures` | the commands on functions, contexts and ScopeInfos | `Session` |
| `Frames` | `::jsstack`, `::jsframe` and the walker between them | `Session` |
| `Inspect`, `MCInspect` | both, as one system | `Closures` and `Frames`, composed |
| `Inspect_proofs` | theorems about the search, stacks, variables and what commands leave behind | `Inspect` |

### FindJSObjects

One action is one iteration of a loop of the code, or what a dcmd does between
two loops. `pc` says where the dcmd is: `scan` (the loop of
`findjsobjects_range`, `v8_silent` raised once), `func` and `ctor` (inside
`findjsobjects_jsfunc` and `findjsobjects_constructor`, raised twice), `insert`,
`opts` (the option checks and the answers that need no loop), `mark` (the loop
that makes referents), `trav` and `report` (the two halves of
`findjsobjects_references`), `abort` (the assertion failed), `fault` (freed
memory was used). The other variables are the fields of
`findjsobjects_state_t` under their names: `brk`, `tree`, `list`
(`fjs_objects`), `funcs`, `finished`, `referents`, `fjsAddr`; plus `silent`
(`v8_silent`), the position of the scan, the instances a loop has yet to visit
and what the last dcmd printed. `FileFunction` is the rest of `findjsobjects_jsfunc`, with
both its exits (`GiveUp`, `FileOrSkip`), each of which lowers `v8_silent` on its own.

The target is the function `Heap`: for each address the mapping it is in, what
`read_typebyte` makes of it, whether it loads, what `jsobj_properties` finds in
it. It is constant, as the process is stopped or dead. Loops over instances
take them in any order, since no result depends on it; the sort is any ordering
that `findjsobjects_cmp_ninstances` allows.

`Interrupt` is possible at every `pc` in `IntrAt`. It prints nothing, and
releases the `UM_GC` memory: reference chains, which hang off referents that are
not `UM_GC`, get the flag `freed`. What a `-r` does with such a chain is what
freed memory may do: go on as if nothing had happened (`Traverse`), or end the
debugger (`TraverseFaults`, `ReportFaults`).

The lists are sequences. Linking a node that is linked already, which in memory makes a
cycle, puts it there twice; `ListIsTree` excludes that. The tree of referents and their
list, to which `findjsobjects_referent` adds in the same place, are the one set
`referents`: that both are emptied together is not covered.

Left out: `-v` statistics, the columns and the truncated property lists of the
output, the order of lines of answers that are sets here.

### HeapQueries

The promise: an answer to a query is one from a whole population of objects
(with or without the brk heap), marks are collected and reported on once. It
knows nothing of scanning. `ImplementsQueries` is the refinement; the known
population is empty until `fjs_finished`, and the marks are the referents.

### ObjectTrees

A tree is its in-order sequence of nodes. A lookup probes *any* node within the
bounds that earlier comparisons left, so that all shapes are covered without
modelling the balancing of libavl. Names are numbers (their order is what
`strcmp` gives). `FuncCmp` keeps the width of `int` (`IntHalf` is 2^31 in the
code): the code assigns a difference of 64-bit addresses to one.

### StrBuf and V8String

A buffer is what has been written (`out`, one element a byte), `ms_curbufsz`
(`left`) and `ms_reservesz` (`resv`). A character is one of `plain`, `wide` (not
ASCII), `nul`, `ctrl`, `escape` (a control character that JSON escapes with a
letter, or a backslash) and `quote`, as far as the code tells them apart.

`V8String` extends `StrBuf`. The recursion is a stack of frames; each step
makes at most one call that changes the buffer, so the writer is a client of the
buffer in the sense of `BufSpec`: `ClientOfStrBuf`, with the buffer's variable
mapped to itself. `JSSTR_VERBOSE` is left out.

### Arrays and JSPrint

`Arrays` has no variables: an iteration is a record that its client takes from
state to state, one operator for each step of `v8fixedarray_iter_elements` and
`v8array_iter_one`. `Page` is `maxnpgelts` (1024 in the code, 3 in the runs: the
boundaries matter, not the size).

`JSPrint` is its client. The state is that of `dcmd_jsprint`: the member it is
at, its `jsobj_print_t` (`jsop`), the size of the buffer, the buffer with what is
left of it (`len`, which `jsop_lenp` points to) and what has been printed. The
recursion is a stack of frames: `value` (`jsobj_print_value` is about to look at
a value), `props` and `match` (inside `jsobj_properties`, whose callback is
`jsobj_print_prop` or `jsobj_print_prop_member`), `elements` (inside
`v8array_iter_elements`) and `index` (`jsobj_print_jsarray_member`). Each frame
has the `jsobj_print_t` that the code passes there, a copy or the caller's own;
what comes back of it is in `ret`.

Text is a sequence of pieces of one byte, without layout. The properties of an
object, in order, and what `jsobj_properties` returns behind them are taken from
`Heap`; `ObjectProperties` has how they are found. A string buffer that is cut
leaves one byte (`Through`), which `V8String` shows as `CutIsShown`. `-v`, which
prints flags that the walk of properties collects, is left out.

### FindRefs

Memory is a sequence of words; a word refers to an object or to none. Each
`dbi_ugrep` in progress is a frame with the address it looks for, its depth and
the word it is at. `Contains` is `v8contains` with what it can't know (an object
whose size can't be read counts as containing anything) and what it counts
twice (the properties in a JSObject). A failing `dbi_ugrep` fails all those it
is nested in. `Chains` is the reference definition: by induction on their
length, all sequences of words that lead from the target through FixedArrays.

### ObjectProperties

V8 is external: up to `MaxBuild` times it adds or deletes a named property or an
element, or goes over to a dictionary, and each action changes `own` and
`elements` (what the object has) together with `obj` (how that is laid out, as
the comments and the code of `jsobj_properties` tell). Then the target stops,
perhaps with one part of the memory damaged or absent, and the walk reads `obj`
alone. `pc` is the place in `jsobj_properties`: `begin`, the loops `elements`
and `etable`, `shape` (all that is read between the loops), the loops `descs`
and `table`. `ver` is what the metadata says of the version, one record for each
combination that a supported version has. `info` is the local `propinfo`, `out`
is `*propinfop`.

Callbacks are the finder's (answers 0), that of `::jsprint` with a member, which
answers what printing its one match does, and the `jsprop` walker's, which makes
two walks and sizes its array by the first.

Arrays of words are kept where an offset could be wrong (the words of an object,
dictionaries, the words of a layout descriptor); descriptors are records, as
their three words are read at fixed offsets. A descriptor that a deletion leaves
behind is known from a comment in the code only, and no field is added after
one. Elements of other kinds than fast, holey and dictionary are `other`: they
are not reported, and `Numbered` leaves them out.

An entry of a dictionary has three words, or the metadata say something that
can't be: `VersionAssumption` has 3 or less than 2, since `read_heap_dict` refuses
an entry without room for a value. A damaged index is `Garbage`, or `Far`, which no
field has: `jsobj_properties` has nothing to tell an index that another field has
from its own.

### Config

The target is a version of V8, a set of symbols and the constants that can be
read by name. A symbol is a record of what its name says: a field with its
class and offset, a parent, a type, a frame type, or something else; `ok` is
false when the name lacks a part. Symbols are taken one by one: those of a
program in any order, as mdb promises none, those of a canned configuration in
the order of its list. Each of `conf_update_parent`, `conf_update_field`,
`conf_update_type` is an action; the ways they fail are `BadSymbol` and
`conf_update_enum` (whose entry is taken before its value is read). Then the
ends of classes are computed, with the recursion of `conf_class_compute_offsets`
as the stack `todo`, and the constants, types and offsets are looked up.
`v8_classes` is the list `classes` of names, and `class` has the fields,
parent, start and end of each.

`v8_constants` and `v8_offsets` have one entry here for each combination of
flags, since and fallback that the code's (about 120) have, and those that later code
copies to each other (`Derived`). What is said of the tables is said of these
entries: 7 constants and 9 offsets. Of the lines that copy one variable to another,
those for `SLICEDSTRING_PARENT`, `JSFUNCTION_CONTEXT`, `SCOPE_INFO`, the bit fields and
the constructor of a map and `INOBJECT_PROPERTIES` are left out, being of the kinds that
are there. The two entries of `v8_offsets` whose initializer is one value short are as
the compiler reads them.

Metadata is `Consistent`: single inheritance without cycles, fields behind those
inherited. `conf_class_compute_offsets` and `::v8print` recurse for ever
otherwise. Want of memory is left out.

### LineSearch, Session, Closures, Frames and Inspect

`LineSearch` is the loop that `v8funcinfo_definition_location` and
`jsfunc_lineno` both have, over any table: a damaged one may be in no order. A
read beside the table is the outcome `fault`. The two differ for an empty table
(`EmptyTable`).

`Session` has what a command must put back: blocks of memory with their flags,
`v8_warnings`, and the indentation. Memory got with `UM_GC` goes when the
command ends; to free it is `misfreed`. `atstart` is a history variable, which no
step of the code reads: with it, what a command leaves behind can be told from what
those before it have left.

`Closures` runs a command over its `Steps`, which are the loads and prints of the
code in their order. A step loads what it can load, or fails and goes on at the
`out` label if the command has one. Contexts and ScopeInfos are arrays, laid out
by `ScopeInfo` and `Context` as V8 does it in the version (external), damaged
perhaps (`Damaged`: cut short, a count that is wrong, negative, or no count).
`Skip` and `VarsOf` are `v8scopeinfo_iter_vars`, with its `size_t` (`Word`); a
count is what is left of a word when the bits that tag it are shifted out
(`Smis`), so that a negative one is a large number.

`Frames` has a stack as a sequence of frames. What `do_jsframe_special` and the
type of the word in the function slot make of one is in the frame, so is what
can't be read of it. Each step of the walker runs `::jsframe`, which keeps its
own count of elided frames; `::jsstack` keeps the one of the first frame until
the end (`topskipped`). MDB goes on with a walk when the command fails on one
frame (external). `::jsframe -i`, which gives the frame pointer itself and reads
no return address, is left out, as are the lines of source: of `jsfunc_lines`,
only what it does with memory is in the model.

`Inspect` composes the two over one session: a command of either begins when
none runs.

## 3. The runs

| run | asks | bounds |
|---|---|---|
| `scan` | is the table sound in every state, whatever an interrupt leaves? | 10 words, 4 dcmds, 6 command lines, interrupts everywhere |
| `session` | are answers those that `HeapQueries` promises, and does every dcmd return? | 10 words, 4 dcmds, 21 command lines, interrupts at `opts` and `mark` |
| `assert` | (violated) does the assertion of `findjsobjects_referent` hold? | 3 dcmds, 2 command lines |
| `trees` | does each signature get one node, in trees of any shape? | 18 signatures or 4 definitions, 4 lookups |
| `v8string` | what is in the buffer at the end, for every string and size, and does the buffer keep its promises on the way? | 16 strings, 15 sizes, chunks of 7 characters, depth 5 |
| `jsprint` | is all of a value printed to its depth, and each member on its own? | 16 values, depths 0 to 3, one or two paths of up to 3 steps, first buffers of 2 to 20 bytes, at most 80 |
| `findrefs` | are all chains of references found, once, within the limit? | 30 words, 9 objects, limits 1 to 5 and one that wraps around |
| `properties` | is an object reported as it is, and is what could not be read flagged? | 5 versions and 2 that the metadata describe badly, 3 changes, 1 or 3 properties in the object, one damage, 3 callbacks |
| `properties_null` | (violated) does every callback bear the NULL value that a comment announces? | 1 change |
| `config` | do the tables come out right in every order of symbols, has each entry its value after a success, and does it stay? | 7 programs, 9 classes, up to 12 symbols, 3 types and room for them, 2 canned configurations, one `::v8field` |
| `config_fallback` | (violated) are fallbacks used? | the same |
| `inspect` | is each variable, argument and line shown as it is, everything shown that was asked for, each frame accounted for, and nothing left behind? | 3 layouts, 64 targets and 326 stacks with one damage at most, 7 tables of line endings, 8 option sets, one command |

Why these bounds are enough. *Words*: the heap has two objects of one
signature, one of another, a malformed one, two closures of one definition, a
function that can't be loaded, an object in the brk heap, one in a file mapping and one in a mapping that can't be
read, so that each branch of the scan and each filter is taken and groups of one
and of two arise. *Dcmds*: a hazard needs one to build the table (or be
interrupted at it), one to mark, one to be interrupted in `-r` and one to
suffer. *Lookups*: a split node needs an insertion, one or two that move it, and
a lookup that misses it. *Buffers*: no text is longer than the marker of five
bytes, and each comparison in the code has sizes on both sides of it. *Strings*:
one chunk must be longer than the marker with an escape (an assumption of the
module that 8192 satisfies), and strings go over one chunk, over two, and end at
a border. *Depth*: two concatenations inside each other are allowed, three are
not, and one string contains itself.

*Printing*: a root and a list contain each other; there are values of every kind,
objects whose properties and arrays whose elements can be read wholly, in part and
not at all; the first buffers are smaller than most texts, so that printing is
repeated up to five times, and some texts are longer than the largest buffer, so
that allocation fails. `MaxBuf` stands for the memory of the debugger.

*Configuration*: parents are before and behind their children in the list; a
class is known only as a parent; either name of the string type is there, or
none; each of a few symbols is missing or has no value in the core file; one
program has more types than there is room for. *Inspection*: a variable of each
type; a layout without and with the entry before stack locals; tables of no, one
to five lines, two of them in no order; a session of one command is enough here,
since `LeavesNothing` says of each that it ends as it began, and it is proved for
sessions of any length.

*Properties*: an index is below, at and beyond the number of properties in the
object; a dictionary of two entries has a free, a used and a deleted one; with
one bit in a word and at most two words, a layout descriptor is a small integer,
an array, or too long.

`scan` does not check `ImplementsQueries` and `SilentBalanced`, because an
interrupt inside the scan or the traversal does break them (section 5).
`IntrAt` of `session` leaves these points out. The type invariants of
`ObjectTrees`, `StrBuf`, `V8String` and `Config` are stated and no run spends
time on them: the properties they check fail first. The properties of `StrBuf`
are checked for its client, in `v8string`, and proved for any client.

Fairness: mdb runs a dcmd until it returns, so a step of a dcmd is never put off
for ever: weak fairness on `DcmdStep`. There is none on `Start` (an operator may
stop typing) or on `Interrupt`. `V8String`, `JSPrint`,
`FindRefs` and the walk of `ObjectProperties` are function calls, with
weak fairness on their next step; there is none on what V8 does or on damage.
`Config` has weak fairness on configuring, which is one call, and none on
`::v8load` and `::v8field`, which an operator types. `Inspect` has weak fairness
on `Step`: a command that has begun waits for nothing.
Deadlock is not checked: a session ends after its last command, and a call when
it returns.

## 4. What is proved

The theorems hold for every value of the constants that satisfies the named
assumptions of the modules, which TLC also evaluates on each instance. An
assumption that the code does not grant is a hypothesis of the theorem that needs
it, and section 5 has what happens without it.

### The object finder (`FindJSObjects_proofs`)

For every heap, every set of command lines, every `IntrAt` and every bound:

* `TypeCorrect`: `TypeOK`. It includes that a scan stays within the words and
  that `v8_silent` is never below the level of the running code.
* `GroupsSound`: `TableSound`. Not inductive by itself: the step that files an
  address must know that it is not filed yet. `ScanInv` says that during a scan
  the table holds exactly the objects among the words before `pos`; words are
  distinct, so the next one is new and the count stays the cardinality.
* `ScansUnfocused`: `NoFocusedScan`, from `FocusInv`. An interrupted `-r` leaves
  `fjs_addr` set, but a traversal only begins with a table that is not empty, and
  from then on there is no scan.
* `ListComplete`: `ListIsTree`, through the sort, for any permutation.
* `MarksStay`: `MarksKept`, a step property of the code alone: no other step
  takes a referent out of `fjs_referents` than the one that has reported on it.
* `CompleteAnswers` and `CacheStays`: `AnswersComplete` and `CacheKept`, from
  `CompleteInv` (`fjs_finished` means the table is a whole population, and no
  scan runs while it is set). Both assume `AnonObjects`: the target has an object
  outside the brk heap.
* `SilenceEnds`: `SilentBalanced`, if no scan is interrupted (`CalmSession`).
* `QueriesImplemented`: `ImplementsQueries`, the refinement, under `AnonObjects`
  and `CalmSession`. `SessionInv` adds two things to the invariants above.
  `FuncsInv` is for closures what `ScanInv` is for objects, and that none are left
  over when a scan begins. `MarksInv` and `RefsInv` say that a referent that waits
  has no references yet, that none hangs on freed memory, and that those found by
  a traversal are exactly the references among what it has passed. Each step is
  then one of `HeapQueries` or leaves its variables alone.

`CalmSession` (`IntrAt` has neither the scan nor the traversal) is the boundary
of what the code does right: both kinds of interrupt break the promise.

### The trees (`ObjectTrees_proofs`)

For trees of any shape: `OneNodePerSignature` is `OneNodePerKey` of `fjs_tree`.
`findjsobjects_cmp` is shown to be a total order on signatures (`ByProps` is the
lexicographic order of two sequences, a prefix before what it begins; the least
index at which they differ decides). `TreeInv` then says that the nodes are in
strict order and that the item that is looked up lies between the bounds `lo` and
`hi` that the probes have left. When they meet, there is no node for the item, and
where it is inserted keeps the order. `OneNode` is the same for both trees, if no
two definitions are so far apart that their difference does not fit an `int`
(`NearInfos`): `findjsobjects_cmp_funcinfo` is no order otherwise.
`TreesAssumption` gives the constants their types.

### Buffers and strings (`V8String_proofs`)

For every size and text, from the invariant `BufInv` (`left` plus what is written
plus the terminator is the size, and `left` is never 0): `StaysInBounds`,
`RoomExact`, `CharsFit`, `ReservationsHold`, `BufTyped`. `StaysInBounds` is what
keeps `ms_curbufsz - 1`, a `size_t`, from wrapping around. `BufferAlwaysSound` is
`BufferSound`: all of these together. Sizes are assumed not to be 0, which the
code takes for granted; `::jsprint` breaks it when its own buffer is full
(section 5).

For strings of any structure, part of themselves or damaged, every size and every
chunk longer than the marker with an escape:

* `WriterIsClient`: `ClientOfStrBuf`, the refinement. Every step is a call that
  `StrBuf` allows; in particular no more is released than was reserved.
* `WriterInBounds`: so that all that is proved of the buffer is true here.
* `QuotedAlways`: `QuotedWhole`. The invariant `StrInv` has `Shape`: how much of
  the quoting has been done (`Opening`, `Holding`, `Writing`, `Ending`, `Over`), with
  what the stack holds, what is reserved and what room is left in each. While it is
  `Writing`, the stack is any sequence of frames of the body above the two frames of
  the closing quote, a byte is reserved, and a buffer of three bytes or more keeps
  more than that byte. `NoHalf` (no half of an escape) needs that a character which
  the look-ahead lets pass fits with its escape: `PassedFits`, from what
  `v8string_write_sizecheck` counts (`CountedLeast`). That no message of
  `mdb_v8_string.c` has a backslash is part of `StringAssumption`: they are
  literals in that file.
* `WholeWhenFits`: `WholeIfFits`, and `CutsShown`: `CutIsShown`. The invariant adds to
  `StrInv` what the buffer holds (`Tells`). As long as nothing has been cut
  (`Running`), the characters of the string are those that have been written and then
  those the frames on the stack still have to write (`Pending`); and the room that
  is left is enough for the latter if the room at the beginning was enough for all,
  in ASCII only then: `Cost`, which is what `v8string_write_sizecheck` counts. Each step writes one
  character of what is pending, hands it on to other frames, or writes the marker
  because it does not fit (`SoundMove`, `BodyMoves`, `GoingOn`). Frames are only ones
  of which nothing can fail (`SoundFrame`), so that no message gets between. For a
  string in one piece, the look-ahead also keeps room for the marker or has seen that
  it won't be needed (`Ready`). After a cut (`CutOff`) only the ASCII case matters,
  in which no byte is left and none is freed.
  A quoted string in a buffer with no room for two quotes is a case of its own
  (`Tiny`). None of this uses `Chunk >= Len(Marker) + 2`, which is there so that
  the writer comes to an end (`Returns`).

### Printing (`JSPrint_proofs`)

For all targets (values that are part of themselves, arrays with pages that can't be
read, dictionaries whose walk fails), all commands, any first size of the buffer and
any page size (`PrintAssumption` has the types, and that no property of an object has
the name of another):

* `WholePrinted`: `PrintsWhole`, and `MembersPrinted`: `MembersExact`.

Both assume `NoLoneElement`: no array has k * 1024 + 1 elements, as the last one is
then alone on a page the iteration never reads (section 5). The values of the run
`jsprint` have none either.

The invariant `Inv` has three parts. `DcmdTyped` has the types. `MemberOK` is about
the member being printed: before it is looked for, `jsop_found` is false; while it is,
each frame on the stack is one that the frame below it calls (`Kept`, from `StackOK`),
with the path, the depth and the number of addresses that its call gives it; and
the member has been found only if its path leads somewhere. `ShownOK` is about the
members before it, which have been shown as they should be (`Good`).

What a path leads to, if anything, is printed in a buffer of unknown size, and more
than one attempt may be needed. `TextOK` says of each moment one of four things:
the buffer is full, so that it will be thrown away; or what it holds, followed by
what the frames on the stack have still to print (`Text`), is the whole text (`Exact`);
or the value was a string cut for its limit or its room, and only the frames of
the path are left (`CutOff`); or a string inside the value was cut, has left one byte, and
something is still to come that fills it (`Tight`). The last is why a cut inside
an object never shows. Every step prints a beginning of what is pending or
replaces a frame by frames with the same text (`Prints`).

The texts are defined by recursion: over the depth (`Rendered`), along a path
(`Trail`) and over properties and elements (`FlattenSeq`). That functions exist
which satisfy these definitions is shown first.

### References (`FindRefs_proofs`)

For every heap, cyclic or not, and every limit that is not a multiple of what an
unsigned short holds (`LimitAssumption`; `Shorts` is 65536 in the code):

* `SearchesTyped`: `TypeOK`.
* `ReferencesFound`: `FoundExactly`: a search that does not give up reports every
  chain within the limit, no other, and each once. `IInv` ties the path of a search to
  the chains: `LevelsOK` has, for each search in progress, the word it is at, and
  that it looks for what the one below it has found; `FoundOK` says that found are
  exactly the chains that have been passed (`Passed`: a search is past its word in the
  chain, while those it is nested in are at theirs).
* `CutsReported`: `CutIsReported`, from `CutOK`: `gaveUp` is set exactly if a chain
  that could go on was passed at the limit.

### Configuration (`Config_proofs`)

For all metadata, any order of symbols, and any inheritance without cycles
(`ConfigAssumption`: a symbol that has its parts has them of the right types, which is
what the model calls reading it; offsets are not negative; `Consistent` is explained in
section 2):

* `ClassesRead` and `EndsRight`: `ClassesAsRead` and `EndsFollowParents`, from
  `ClassesInv`. `StateOK` has the types and where the configuration is;
  `ClassesOK` that the list of classes has no name twice and each class its fields sorted
  by offset; `EndsOK` what is known of the ends of the classes on the stack `todo` and below
  them. `Ancestry` is a recursive function over the number of names; that it has reached
  every ancestor by then is a pigeonhole argument on chains of distinct names.
* `SuccessComplete`: `SuccessIsComplete`, from `SuccessInv` with `FoundOK` and `EnumsOK`:
  each entry of the modelled tables has the value that the metadata give it, else the
  fallback of this version, else that of the other name it has had. Unknown is only what
  this version may lack, and in any version the two entries without their initializer,
  which `MayLack` names: for them a success shows nothing, and `config_fallback` shows
  that one of them does miss its fallback. `BoundFunction` is not among the entries.
  It needs `DefiniteAssumption`: no constant is -1, and no field that is looked up has
  that offset, since the code marks with -1 what it has not found.
* `HierarchyPrinted`: `PrintsHierarchy`, by the number of ancestors of the class that is
  printed.
* `ReadyClasses` (what is configured has a class: `FIXEDARRAY_LENGTH` is an offset that
  every version must have, and it is looked up among the classes), and from it
  `ConfigurationStays`: `::v8load` can't be used once the configuration is ready, and
  `::v8field` touches the fields of classes alone.

### Object properties (`ObjectProperties_proofs`)

For every set of versions that `VersionAssumption` allows, every number of changes by
V8 and of properties in the object, dictionaries of every size, every width of the
words of a layout descriptor and every bound on their number:

* `ReportsAreExact`: `ReportsExactly`. What V8 keeps true of the memory is `HeapInv`.
  While nothing is damaged (`Full`), fields are numbered in their order, the first `nin`
  lie in the object and the others in the properties array (`FieldsInv`, `DescsInv`); a
  dictionary has each property in exactly one entry (`Entries`); numbered properties
  ascend (`NumbersInv`); and where a field was deleted, none of those that are left has an
  index behind it, so that the walk takes it for no corruption (`GoneInv`). The walk then
  has called, at each place, exactly the properties whose place it has passed
  (`ReportInv`), each once (`Distinct`), flags nothing, and fails at none but the reasons
  `Readable` names (`SoundInv`). In a dictionary that is a set and a number of calls: equal
  lengths come from two sequences without repetition having the same elements
  (`SameLength`). `LayoutBits` is that `jsobj_layout_untagged` finds the bit of a word,
  and `FieldAt` that both ways of counting, from the start of the fields and from the end
  of the object, lead to the same word.
* `TroubleIsAlwaysTold`: `TroubleIsTold`. For damaged memory `HeapInv` keeps
  `PlacesInv`: each named property still has a descriptor or an entry, though its key, its
  index or its value may be gone. A place that is passed without calling its property
  then leaves a flag (`LossInv`), or ends the walk. `GarbageIsFlagged` is an invariant of
  its own, and `StopsAtError` one for every client.
* `WalkersAreExact`: `WalkerExact`. Memory does not change between the two walks. If the
  first got through, nothing in the memory can stop a walk (`OkInv`, `AllOk`), so the
  second gets through; and either has counted, at each place, the places before it that
  have a property with a tagged value (`CountInv`): the same number at the end, and never
  more than that on the way.

### Functions, contexts, stacks (`Inspect_proofs`)

For sessions of any number of commands, on every target and every stack that
`ClosuresAssumption` and `FramesAssumption` give a type, with any options and any tables.
What those assume is what V8 writes: an index in a ScopeInfo lies before the first
name, the counts of a whole ScopeInfo are small integers, a context has a value for each
variable, a frame of a JSFunction has its receiver. Damage is in the targets: these are
what V8 wrote before it.

* `NothingLeft`: `LeavesNothing`. `LeavesInv` says what is held at each place of a
  command: of the commands on functions, only blocks of theirs, all with the flag of
  `Collects`, so that `Return` or the `out` label gets rid of them, whichever step fails;
  of the commands on stacks, the source of a frame at most, and the indentation that is
  raised for the arguments.
* `ArgumentsAreRight`: `ArgumentsRight`. That every line is about the frame that it names
  is `PrintInv`. That nothing is left out is `TellInv`: of the frames that have been
  handled, all has been told that can be (`ToSay`), each thing once, and exactly those
  that lack something (`Lacking`) have failed; of the frame that is being handled, what
  has been told is what comes before the step that is next.
* `FramesAreAccounted`: `FramesAccounted`, from `AccountInv`: the frames that a walk has
  been at are those printed, those that failed and as many as the elisions, with the ones
  still to be reported in `topskipped`, have counted.
* `VariablesAreExact`: `VariablesExact`, from `VarsInv`. In every layout the ranges of
  the three types follow each other (`Begins`), and `v8scopeinfo_iter_vars` goes through
  exactly its own; when the array is cut short or a count too large, it hands over those
  that are there and then fails.
* `SearchFindsLine`, `SearchReadsTable`, `SearchAlwaysRight` and `SessionSearchesRight`:
  `SearchRight`, of the search alone and of each in a session. The table need not be in
  order: the invariant `SearchInv` keeps `Bracket`, that the position is past the entry
  before `lower` and not past the one at `upper`, with `lower` at most `upper`. Each turn
  narrows the bracket, and a line is found inside it. That the loop ends is
  `SearchEndsAlways`, a step property: each turn makes the range smaller or ends the
  search; what follows for `CommandEnds` is left to TLC.

### How inductive facts are proved

The provers here cannot use a theorem that takes an operator, so there is no
proof by the induction rule. Where a fact is inductive (the prefixes of two
sequences, the ancestors of a class, chains of references), its proof takes the
counterexample with the least number, which exists as the order on the naturals
is well-founded (`Least`), and shows that a smaller one would exist. What a
recursive function is, is shown with a function that satisfies its equations. In
`V8String_proofs` that function must first be made: `StepsExist` and `Recursion`
build it from its beginnings, `SeqRecursion` and `DepthRecursion` are the two forms
`V8String` has (`Rendered` over the characters, `Sound` and `Content` over the depth);
`JSPrint_proofs` does the same for its texts.
`Tells` speaks of all sequences of characters, so that TLC cannot evaluate it; the
properties that follow from it are those the run `v8string` checks.

### Only model-checked

* Liveness: `DcmdReturns`, `Returns`, `PrintEnds`, `SearchEnds`, `WalkEnds`,
  `ConfigurationEnds`, `CommandEnds`. The provers do not treat fairness.

`::jsprint` for targets that `NoLoneElement` excludes is neither checked nor proved.

## 5. Where code and documentation disagree

Shown by a run (`findings` in `PROJECT.json`):

* `assert`: `-r` on an address that is marked already ends the debugger.
* `properties_null`: `jsobj_properties` passes NULL for a layout it can't read, as
  a comment says; the callbacks of the `jsprop` walker dereference it.
* `config_fallback`: the entries of `v8_offsets` for the names of functions lack
  an initializer, so that a missing field gets -1 and never its fallback.

Visible in the models, without a run of their own:

* A double quote in JSON is counted as two bytes and written as one
  (`src/mdb_v8_strbuf.c` 146), against the comments at 126 and 166 that both
  functions agree: a string with quotes is cut although it fits, and is not
  escaped. `CharFits` has it that they agree on all other characters.
* The last element of a FixedArray of k * 1024 + 1 elements is never passed to
  the callback (`src/mdb_v8_subr.c` 116, `More`): `::jsprint` prints the array
  without it. No array of the run has that length, and `NoLoneElement` keeps the
  theorems from it.
* The room that is left is not reset when the next member is printed into a fresh
  buffer (line 6450): a short string behind a long member is cut, where
  `docs/usage.md` 907 speaks of very long strings.
* `::v8load` with a name that no configuration has loads the last one
  (`Named`; 6966-6975), and never says "unknown configuration".
* After a failed `::v8load` or configuration, its types stay in the table: they
  come before those of the next attempt.
* The tables of types take one entry more than they have room for (1352, 1377).
* `::v8field` on a class without fields: `::v8print` does not print the new field,
  as the end of the class is still 0 (2224; `docs/usage.md` 1152).
* `v8boundfunction_load_direct` sets the flags of its handle at the end (1206 of
  `src/mdb_v8_function.c`), so that what it frees before is freed as if it were
  not `UM_GC` (`misfreed`).
* `jsfunc_lines` does not free the copy of the source when the function ends
  behind it (3328), and prints the first character of line 1 before the prefix.
* `do_jsframe` leaves the indentation raised when the table of line endings can't
  be read (4611-4616), and prints the file name as the position when
  `jsfunc_lineno` fails (4618-4626).
* `jsfunc_lineno` has no test for an empty table, which the other function has
  (`EmptyTable`).
* `::jsstack` prints how many frames above the first shown one were elided, when
  the first was, only after the walk, and not at all if that fails (6876-6879);
  an error in the first frame hides the stack (6870-6873).
* Frame pointers that form a cycle make the walk endless (7203); the stacks of
  the model have none, so no property speaks of it.
* A dcmd interrupted with a table that is not empty is never made up for: every later
  one refuses (5658). `AnswersComplete` is that they refuse and do not answer; that
  nothing repairs the table is in the model, and no property.
* `v8context_iter_static_slots` goes on when its callback says stop (763-781 of
  `src/mdb_v8_function.c`).
* An interrupted scan that has found closures but no object is repeated, and
  files the closures again (`ImplementsQueries` fails with closures first in
  `Words` and `IntrAt` with `scan`).
* If all objects are in the brk heap, a scan without `-b` sets `fjs_finished`
  with an empty table; a second one, with `-b` and interrupted, is then answered
  from as if it were complete (`AnswersComplete` fails without `AnonObjects`).
* An interrupted `-r` leaves chains of freed references on the marks; the next
  `-r` follows them (`ImplementsQueries` fails with `IntrAt` with `trav`).
* `findjsobjects_cmp_funcinfo` is no order for addresses 2 GB apart: the same
  definition may get two nodes (`OneNodePerKey` fails with `Infos` wider than `IntHalf`).
* `v8array_iter_elements` returns 0 when a page can't be read.
* `-l 0`, or any multiple of 65536, gives `::jsfindrefs` no limit, and cyclic
  FixedArrays then run the debugger out of stack; a larger number is cut to 16
  bits, and its upper bits overwrite `-v` and `-d` (`LimitAssumption` keeps the
  model from it).
* `v8contains` adds the in-object properties to a size that includes them, so
  dead memory behind a JSObject counts as part of it (`Extra`).
* A string buffer that `::jsprint` makes when its own buffer is full has size 0
  and writes its terminator one byte behind it.
* `dcmd_jsprint` looks at the last character of what it printed, also when that
  is empty (line 6477).
* An index of a member is checked against the length of the FixedArray, not of
  the JSArray: `[4]` of an array of three elements may print a value (`Indexes`).
* When printing fails below the top of the value, nothing of it is shown (`Fail`).
* The map pointer of a word at the end of a mapping is read past the end of the
  copy (line 5047).
* An interrupt while `v8_silent` is raised leaves it raised.
* Numbered properties are lost without a flag when the elements can't be read,
  or are of a kind such as small integers (`TroubleIsTold` speaks of named
  properties only).
* A callback that answers 1 ends the walk of fields and of fast elements, and
  not that of a dictionary (`Stops`); the caller gets -1 in one case and 0 in
  the other.

## 6. Not modelled

What could follow: `::jsframe -i`, the `jselement` walker, and ownership of memory
inside strings and arrays.

Not planned: formatting of dates, numbers, regular expressions, frames and node
buffers, and the dcmds that print the tables of the configuration (they keep no
state and take no decision that outlives a line of output); the heap readers
(each is one read, whose failure is an outcome in the models of their callers);
the contents of canned configurations (data); disassembly; build files, tools and tests.
