------------------------------ MODULE Session ------------------------------
(***************************************************************************)
(* What the commands that inspect functions and stacks share: the command  *)
(* that runs, what it has printed, the memory of the debugger it holds,    *)
(* and two settings that it has to put back, the indentation of the output *)
(* and v8_warnings.                                                        *)
(*                                                                         *)
(* A handle is allocated with flags that say whether the debugger collects *)
(* it when the command is over (UM_GC) and whether the allocation may fail *)
(* (UM_NOSLEEP); each handle keeps them for when it is freed.              *)
(*                                                                         *)
(* atstart is a history variable: it tells what a command leaves behind    *)
(* from what the commands before it have left.                             *)
(***************************************************************************)
EXTENDS LineSearch, FiniteSets

CONSTANTS
    NULL,
    MaxCommands     \* bound on the commands of a session

VARIABLES
    cmd,            \* the command and its arguments
    doing,          \* the step of it that is next
    result,         \* what it has returned, once over
    commands,       \* how many have begun
    out,            \* what it has printed
    held,           \* blocks allocated: what for, and whether UM_GC
    misfreed,       \* a block that is collected has been freed as well
    indent,         \* of the output
    v8_warnings,
    atstart         \* what was held, indented and misfreed when the command began

session == <<cmd, doing, result, commands, misfreed, v8_warnings, atstart>>
sessionvars == <<session, out, held, indent, searchvars>>

SessionInit ==
    /\ cmd = NULL /\ doing = "idle" /\ result = "none" /\ commands = 0
    /\ out = <<>> /\ held = {} /\ misfreed = FALSE
    /\ indent = 0 /\ v8_warnings = 0
    /\ atstart = [held |-> {}, indent |-> 0, misfreed |-> FALSE]
    /\ SearchInit

Ready == doing = "idle" /\ commands < MaxCommands

Begin(c, first) ==
    /\ Ready
    /\ cmd' = c /\ doing' = first /\ result' = "none" /\ out' = <<>>
    /\ commands' = commands + 1
    /\ atstart' = [held |-> held, indent |-> indent, misfreed |-> misfreed]
    /\ UNCHANGED <<held, misfreed, indent, v8_warnings, searchvars>>

(* The debugger collects what was allocated for it when the command ends.  *)
Collected(blocks) == {b \in blocks : ~b.gc}

Blocks(names, gc) == {[of |-> n, gc |-> gc] : n \in names}

(* maybefree for each of the blocks, with the flags of their handle.       *)
maybefree(names, gc) == IF gc THEN held ELSE {b \in held : b.of \notin names}
FreesCollected(names, gc) == ~gc /\ \E b \in held : b.of \in names /\ b.gc

Say(lines) == out' = out \o lines

(* The line of a position: the search goes on until it has a result, and   *)
(* then the text that it stands for is in the caller's buffer.             *)
Search ==
    /\ doing = "searching"
    /\ SearchStep
    /\ UNCHANGED <<session, out, held, indent>>

Found == [what |-> "posn", result |-> search,
          at |-> IF search = "line" THEN ii + 1 ELSE 0]
=============================================================================
