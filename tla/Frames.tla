------------------------------- MODULE Frames -------------------------------
(***************************************************************************)
(* ::jsstack and ::jsframe.  A stack is a chain of frames: the frame       *)
(* pointer in the registers leads to the first, the word it points to is   *)
(* the frame pointer of the next, and next to it is the return address,    *)
(* which tells native code from JavaScript.  ::jsstack handles the first   *)
(* frame itself and has the jsframe walker call ::jsframe on the others;   *)
(* the walker gives the address that points to a frame.                    *)
(*                                                                         *)
(* Each call of ::jsframe counts the frames it elides on its own; so does  *)
(* ::jsstack for the first frame, until the walk is over.                  *)
(***************************************************************************)
EXTENDS Session

CONSTANTS
    Stacks,         \* stacks, the innermost frame first
    Options,        \* options of the two commands
    Args            \* what the arguments are called: arg1, arg2 and so on

(* A frame of JavaScript has its arguments and the receiver; slot is what  *)
(* its function slot is found to hold, and lost is what the function lacks.*)
Frame == [special : STRING \cup {NULL},
          slot : {"unreadable", "no type", "Code", "other", "JSFunction"},
          name : STRING \cup {NULL},
          lost : SUBSET STRING,
          pushed : Seq(STRING \cup {NULL}),
          ends : Tables \cup {Undefined},
          position : Positions \cup {NoPosition},
          end : {"inside", "beyond"}]

OptionsType == [all : BOOLEAN, verbose : BOOLEAN, lines : BOOLEAN,
                func : STRING \cup {NULL}, prop : STRING \cup {NULL}]

ASSUME FramesAssumption ==
    /\ Stacks \subseteq Seq(Frame) /\ Options \subseteq OptionsType
    /\ NULL \notin {"frame", "js", "file", "posn", "this", "elided"}
    /\ Args \in Seq(STRING)
    /\ \A i, j \in DOMAIN Args : Args[i] = Args[j] => i = j
    /\ \A i \in DOMAIN Args :
          Args[i] \notin {NULL, "frame", "js", "file", "posn", "this", "elided"}
    /\ \A s \in Stacks :
          /\ s # <<>>
          /\ \A i \in DOMAIN s : Len(s[i].pushed) <= Len(Args) + 1
          /\ \A i \in DOMAIN s : s[i].slot = "JSFunction" => s[i].pushed # <<>>

VARIABLES
    stack,
    at,             \* the frame that is handled, or the one the walker is at
    nskipped,       \* jsf_nskipped in the call of do_jsframe
    topskipped,     \* jsf_nskipped of ::jsstack
    fails           \* frames that ended with an error

framevars == <<stack, at, nskipped, topskipped, fails>>
unchangedHere == <<cmd, commands, misfreed, v8_warnings, atstart, stack>>

FramesInit ==
    stack = <<>> /\ at = 0 /\ nskipped = 0 /\ topskipped = 0 /\ fails = {}

o == cmd.options
f == stack[at]

Line(what, value) == <<[what |-> what, frame |-> at, value |-> value]>>

(* jsframe_print_skipped                                                   *)
Elided(n) == IF n = 0 THEN <<>> ELSE <<[what |-> "elided", frame |-> 0, value |-> n]>>

ArgSlotUp(i) == f.pushed[i + 1]

(* V8 has pushed the receiver and then the arguments: the last of them is  *)
(* at V8_OFF_FP_ARGS, the receiver above all of them (external).           *)
ArgSlot(i) == f.pushed[Len(f.pushed) - i]
SlotReads(i) == i < Len(f.pushed) /\ ArgSlot(i) # "unreadable"
-----------------------------------------------------------------------------
(* do_jsframe: what kind of frame it is and what becomes of it.  A frame   *)
(* that is not JavaScript's is looked for only without -f; with -f its     *)
(* function is read like any other's.                                      *)
Special == o.func = NULL /\ f.special # NULL

(* A frame that is shown with -a, and elided without, if nothing was asked *)
(* for in particular.                                                      *)
Hidden(named) ==
    IF o.func # NULL \/ o.prop # NULL THEN "nothing"
    ELSE IF o.all /\ named THEN "shown" ELSE "skipped"

Treatment ==
    CASE Special /\ f.special = "native" -> IF o.prop # NULL THEN "nothing" ELSE "shown"
      [] Special /\ f.special # "native" -> Hidden(f.special # "unnamed")
      [] ~Special /\ f.slot = "unreadable" -> "error"
      [] ~Special /\ f.slot \in {"no type", "Code", "other"} -> Hidden(TRUE)
      [] ~Special /\ f.slot = "JSFunction" ->
            IF f.lost \cap {"shared", "name"} # {} THEN "error"
            ELSE IF o.func # NULL /\ o.func # f.name THEN "nothing"
            ELSE "function"

(* do_jsframe is over: in ::jsstack for the first frame, and in dcmd_jsframe*)
(* for the others, which then says what it has elided.  MDB goes on with a *)
(* walk when the command it calls reports an error (external).             *)
FrameEnds(rv, lines, skipped) ==
    /\ fails' = IF rv = "error" THEN fails \cup {at} ELSE fails
    /\ IF cmd.name = "jsstack" /\ at = 1
          THEN /\ out' = out \o lines
               /\ topskipped' = skipped /\ nskipped' = 0
               /\ IF rv = "error" THEN doing' = "idle" /\ result' = "error"
                                  ELSE doing' = "walk" /\ UNCHANGED result
          ELSE /\ out' = out \o lines \o (IF rv = "ok" THEN Elided(skipped) ELSE <<>>)
               /\ nskipped' = 0 /\ UNCHANGED topskipped
               /\ IF cmd.name = "jsframe" THEN doing' = "idle" /\ result' = rv
                                          ELSE doing' = "walk" /\ UNCHANGED result
    /\ UNCHANGED <<unchangedHere, at>>

do_jsframe ==
    /\ doing = "frame"
    /\ \/ Treatment = "nothing" /\ FrameEnds("ok", <<>>, nskipped)
       \/ Treatment = "error" /\ FrameEnds("error", <<>>, nskipped)
       \/ Treatment = "skipped" /\ FrameEnds("ok", <<>>, nskipped + 1)
       \/ /\ Treatment = "shown"
          /\ FrameEnds("ok", Elided(nskipped) \o Line("frame", f.special), 0)
       \/ /\ Treatment = "function" /\ ~o.verbose /\ o.prop = NULL
          /\ FrameEnds("ok", Elided(nskipped) \o Line("js", f.name), 0)
       \/ /\ Treatment = "function" /\ (o.verbose \/ o.prop # NULL)
          /\ doing' = "file"
          /\ Say(Elided(nskipped) \o IF o.prop = NULL THEN Line("js", f.name) ELSE <<>>)
          /\ nskipped' = 0
          /\ UNCHANGED <<unchangedHere, at, topskipped, fails, result>>
    /\ UNCHANGED <<held, indent, searchvars>>

(* The file and, unless it is all that was asked for, the position in it.  *)
(* Without the table of line endings the indentation stays.                *)
Position ==
    /\ doing = "file"
    /\ LET known == f.lost \cap {"position", "script"} = {}
           file == IF o.prop = NULL THEN Line("file", f.name) ELSE <<>>
       IN \/ ~known /\ FrameEnds("error", <<>>, nskipped) /\ UNCHANGED <<indent, searchvars>>
          \/ /\ known /\ o.prop = "file"
             /\ FrameEnds("ok", Line("file", f.name), nskipped)
             /\ UNCHANGED <<indent, searchvars>>
          \/ /\ known /\ o.prop # "file"
             /\ indent' = IF o.prop = NULL THEN indent + 10 ELSE indent
             /\ IF "line ends" \in f.lost
                   THEN FrameEnds("error", file, nskipped) /\ UNCHANGED searchvars
                   ELSE /\ BeginSearch("jsfunc_lineno", f.ends, f.position)
                        /\ doing' = "searching" /\ Say(file)
                        /\ UNCHANGED <<unchangedHere, at, nskipped, topskipped, fails, result>>
    /\ UNCHANGED held

(* jsfunc_lineno has returned.                                             *)
Placed ==
    /\ doing = "searching" /\ ~Searching /\ cmd.name \in {"jsstack", "jsframe"}
    /\ EndSearch
    /\ IF o.prop = "posn"
          THEN FrameEnds("ok", Line("posn", Found), nskipped)
          ELSE /\ doing' = "arguments"
               /\ Say(IF o.prop = NULL THEN Line("posn", Found) ELSE <<>>)
               /\ UNCHANGED <<unchangedHere, at, nskipped, topskipped, fails, result>>
    /\ UNCHANGED <<held, indent>>

(* The receiver and the arguments, as many as the function has parameters, *)
(* or the one of them that -p asks for.                                    *)
nargs == Len(f.pushed) - 1

Asked(name) == o.prop \in {NULL, name}

ThisLine == IF Asked("this") /\ SlotReads(nargs) /\ ArgSlot(nargs) # NULL
            THEN Line("this", ArgSlot(nargs)) ELSE <<>>
ArgLine(i) == IF Asked(Args[i]) /\ SlotReads(nargs - i)
              THEN Line(Args[i], ArgSlot(nargs - i)) ELSE <<>>

ArgLinesShort ==
    LET Upto[n \in 0..nargs] == IF n = 0 THEN ThisLine ELSE Upto[n - 1] \o ArgLine(n)
    IN IF "length" \in f.lost \/ nargs = 0 THEN <<>> ELSE Upto[nargs - 1]
ArgLines ==
    LET Upto[n \in 0..nargs] == IF n = 0 THEN ThisLine ELSE Upto[n - 1] \o ArgLine(n)
    IN IF "length" \in f.lost THEN <<>> ELSE Upto[nargs]

(* jsfunc_lines prints the source, unless there is no memory for it; the   *)
(* copy is not freed if the function ends after it.                        *)
Lines ==
    \/ UNCHANGED held
    \/ /\ o.lines /\ "end" \notin f.lost /\ f.end = "beyond"
       /\ held' = held \cup {[of |-> "source", gc |-> FALSE]}

Arguments ==
    /\ doing = "arguments"
    /\ \/ /\ o.prop = NULL
          /\ Lines
          /\ indent' = indent - 10
          /\ FrameEnds("ok", ArgLines, nskipped)
       \/ /\ o.prop # NULL
          /\ FrameEnds(IF ArgLines = <<>> THEN "error" ELSE "ok", ArgLines, nskipped)
          /\ UNCHANGED <<held, indent>>
    /\ UNCHANGED searchvars
-----------------------------------------------------------------------------
(* The walk.  The walker is at the address that points to the next frame,  *)
(* or holds no frame pointer, or cannot be read; ::jsframe reads it first. *)
walk_jsframes_step ==
    /\ doing = "walk" /\ at < Len(stack)
    /\ at' = at + 1 /\ nskipped' = 0
    /\ doing' = "frame"
    /\ UNCHANGED <<unchangedHere, out, held, indent, searchvars, result, topskipped, fails>>

walk_done_silent ==
    /\ doing = "walk" /\ at = Len(stack)
    /\ doing' = "idle" /\ result' = IF cmd.broken THEN "error" ELSE "ok"
    /\ UNCHANGED <<unchangedHere, out, held, indent, searchvars, at, nskipped, topskipped, fails>>

walk_done ==
    /\ doing = "walk" /\ at = Len(stack)
    /\ doing' = "idle"
    /\ \/ cmd.broken /\ result' = "error" /\ UNCHANGED <<out, topskipped>>
       \/ /\ ~cmd.broken /\ result' = "ok"
          /\ Say(Elided(topskipped)) /\ topskipped' = 0
    /\ UNCHANGED <<unchangedHere, held, indent, searchvars, at, nskipped, fails>>

(* load_current_context: the registers of the thread, for the first frame. *)
load_current_context ==
    /\ doing = "registers"
    /\ \/ doing' = "frame" /\ UNCHANGED result
       \/ doing' = "idle" /\ result' = "error"
    /\ UNCHANGED <<unchangedHere, out, held, indent, searchvars, at, nskipped, topskipped, fails>>

FrameStep ==
    \/ do_jsframe \/ Position \/ Placed \/ Arguments
    \/ walk_jsframes_step \/ walk_done \/ load_current_context

(* dcmd_jsstack, with or without an address, and dcmd_jsframe.             *)
FrameCommands ==
    /\ Ready
    /\ \E name \in {"jsstack", "jsframe"}, s \in Stacks, opts \in Options, addr, broken \in BOOLEAN :
        /\ name = "jsframe" => addr
        /\ Begin([name |-> name, options |-> opts, addr |-> addr, broken |-> broken],
                 IF addr THEN "walk" ELSE "registers")
        /\ stack' = s /\ at' = 1
        /\ nskipped' = 0 /\ topskipped' = 0 /\ fails' = {}
=============================================================================
