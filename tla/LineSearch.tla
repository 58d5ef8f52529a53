----------------------------- MODULE LineSearch -----------------------------
(***************************************************************************)
(* The search of a script's table of line endings for the line of a token  *)
(* position, as v8funcinfo_definition_location and jsfunc_lineno do it.    *)
(* The table is read from the target: it may be undefined (V8 makes it     *)
(* when it first needs it), empty (a script without source), or, in a      *)
(* damaged core file, in no order at all.  Positions and entries are both  *)
(* encoded small integers, compared as unsigned words.                     *)
(***************************************************************************)
EXTENDS Integers, Sequences

CONSTANTS
    Tables,         \* the tables of line endings
    Positions,      \* the token positions, encoded
    Undefined,      \* the undefined value, instead of a table
    NoPosition      \* the encoding of -1

ASSUME SearchAssumption ==
    /\ Tables \subseteq Seq(Nat)
    /\ Positions \subseteq Nat
    /\ NoPosition \in Nat

VARIABLES
    table,          \* data
    tokpos,
    lower, upper,   \* the range that is left
    ii,             \* the index looked at last
    search          \* what the search is at, or what it has come to

searchvars == <<table, tokpos, lower, upper, ii, search>>

Data(i) == table[i + 1]
size == Len(table)

Callers == {"definition_location", "jsfunc_lineno"}
Results == {"line", "out of range", "position", "unknown position", "failed", "fault"}
Searching == search = "loop"

SearchInit ==
    /\ table = <<>> /\ tokpos = 0
    /\ lower = 0 /\ upper = 0 /\ ii = 0
    /\ search = "idle"

CompareLast(t, p) ==
    /\ lower' = 0 /\ upper' = Len(t) - 1 /\ ii' = 0
    /\ search' = IF p > t[Len(t)] THEN "out of range" ELSE "loop"

(* The first comparisons, with the whole table copied.                     *)
Compare(t, p) ==
    /\ lower' = 0
    /\ upper' = Len(t) - 1
    /\ ii' = 0
    /\ search' = IF p > t[Len(t)] THEN "out of range" ELSE IF p <= t[1] THEN "line" ELSE "loop"

NoSearch(result) ==
    /\ lower' = 0 /\ upper' = 0 /\ ii' = 0
    /\ search' = result

(* Without entries there is no last one: v8funcinfo_definition_location    *)
(* says that nothing is in range; jsfunc_lineno, unless the allocation of  *)
(* no bytes fails, reads beside the table.                                 *)
EmptyTable(caller) ==
    IF caller = "definition_location" THEN {"out of range"} ELSE {"failed", "fault"}

(* The table cannot be copied: no memory for it, or not in the core file.  *)
BeginSearch(caller, t, p) ==
    /\ search = "idle"
    /\ tokpos' = p
    /\ table' = IF t = Undefined THEN <<>> ELSE t
    /\ \/ t = Undefined /\ NoSearch(IF p = NoPosition THEN "unknown position" ELSE "position")
       \/ t = <<>> /\ \E r \in EmptyTable(caller) : NoSearch(r)
       \/ t \notin {Undefined, <<>>} /\ Compare(t, p)
       \/ t # Undefined /\ NoSearch("failed")

Middle == (lower + upper) \div 2

\* data[i] is the end of a line before the position
AtOrPast(i) == tokpos >= Data(i)
Past(i) == tokpos > Data(i)

From(i) == i
Above(i) == i + 1

(* One turn of the loop; there is no data[ii - 1] for the first index.     *)
Narrow ==
    /\ Searching /\ upper >= 1
    /\ ii' = Middle
    /\ \/ /\ Middle \notin 0..(size - 1) \/ (Middle = 0 /\ ~Past(0))
          /\ search' = "fault" /\ UNCHANGED <<lower, upper>>
       \/ /\ Middle \in 0..(size - 1) /\ Past(Middle)
          /\ lower' = Above(Middle) /\ UNCHANGED <<upper, search>>
       \/ /\ Middle \in 1..(size - 1) /\ ~Past(Middle) /\ ~Past(Middle - 1)
          /\ upper' = Middle - 1 /\ UNCHANGED <<lower, search>>
       \/ /\ Middle \in 1..(size - 1) /\ ~Past(Middle) /\ Past(Middle - 1)
          /\ search' = "line" /\ UNCHANGED <<lower, upper>>
    /\ UNCHANGED <<table, tokpos>>

LoopEnds ==
    /\ Searching /\ upper < 1
    /\ search' = "line"
    /\ UNCHANGED <<table, tokpos, lower, upper, ii>>

SearchStep == Narrow \/ LoopEnds

EndSearch ==
    /\ search \in Results \cup {"idle"}
    /\ search' = "idle"
    /\ table' = <<>> /\ tokpos' = 0 /\ lower' = 0 /\ upper' = 0 /\ ii' = 0

SearchNext ==
    \/ \E c \in Callers, t \in Tables \cup {Undefined}, p \in Positions : BeginSearch(c, t, p)
    \/ SearchStep
    \/ EndSearch

SearchSpec == SearchInit /\ [][SearchNext]_searchvars
-----------------------------------------------------------------------------
(* What holds for every table, in order or not.                            *)

(* The line that is printed is one the position is on: past the end of the *)
(* line before it, not past its own (definition_location, jsfunc_lineno).  *)
LineRight ==
    search = "line" =>
        /\ ii \in 0..(size - 1)
        /\ tokpos <= Data(ii)
        /\ ii > 0 => Data(ii - 1) < tokpos

(* No entry beside the table is read, except for an empty one, where       *)
(* jsfunc_lineno has no test.                                              *)
SearchInBounds == search = "fault" => size = 0

(* The search is right about what it says and reads.                       *)
SearchRight == LineRight /\ SearchInBounds

(* Every turn of the loop leaves less to search, or is the last.           *)
SearchNarrows == [][Searching /\ Searching' => upper' - lower' < upper - lower]_searchvars
=============================================================================
