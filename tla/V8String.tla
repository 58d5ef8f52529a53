------------------------------ MODULE V8String ------------------------------
(***************************************************************************)
(* v8string_write: the contents of a JavaScript string, written to a       *)
(* string buffer.  Strings are sequential, external (to node), slices of   *)
(* another string or concatenations (ConsStrings) of two.  The characters  *)
(* are read from the target in chunks.  A string that does not fit is cut, *)
(* and a marker is to show that; the writer looks ahead in the chunk to    *)
(* leave room for it.                                                      *)
(*                                                                         *)
(* The recursion of the code is a stack of frames, the things still to be  *)
(* done with the innermost first.  Each step makes at most one call that   *)
(* changes the buffer, so that this is a client of StrBuf.  JSSTR_VERBOSE, *)
(* which adds notices, is left out.                                        *)
(***************************************************************************)
EXTENDS StrBuf, FiniteSets

CONSTANTS
    Strs,       \* addresses of strings in the target
    NULL,       \* an address at which v8string_load fails
    Heap,       \* the strings
    Roots,      \* those that are asked for
    Chunk,      \* characters read from the target at once (8192 or 4096)
    MaxDepth,   \* JSSTR_MAXDEPTH (512)
    Marker,     \* "[...]"
    Complaint   \* a message that takes the place of a string

(* data is whether the characters can be read, two whether each takes two  *)
(* bytes.  p1 and p2 are the parts of a concatenation, p1 the parent of a  *)
(* slice, which goes from character from on for length characters.         *)
String == [rep    : {"seq", "cons", "sliced", "external"},
           two    : BOOLEAN,
           data   : BOOLEAN,
           chars  : Seq(Chars),
           p1     : Strs \cup {NULL},
           p2     : Strs \cup {NULL},
           from   : Nat,
           length : Nat]

(* A chunk must have room for more characters than the marker with an      *)
(* escape has bytes: then the look-ahead always comes to a verdict at the  *)
(* beginning of a chunk.  What slices give as their length is never        *)
(* negative in a string that v8string_load accepts.  No message of         *)
(* mdb_v8_string.c has a backslash.                                        *)
ASSUME StringAssumption ==
    /\ NULL \notin Strs
    /\ Heap \in [Strs -> String]
    /\ Roots \subseteq Strs
    /\ Chunk \in Nat /\ Chunk >= Len(Marker) + 2
    /\ MaxDepth \in Nat
    /\ {Marker, Complaint} \subseteq Texts
    /\ \A t \in {Marker, Complaint} : \A i \in DOMAIN t : t[i] # "backslash"
    /\ 1 \in Reservations /\ 1 <= MaxReserved

VARIABLES
    job,    \* what is asked for: the string, quoted or not, for JSON or not
    stack,  \* what is still to be done
    rv      \* what the last call returned: 0 or -1

svars == <<buf, job, stack, rv>>
-----------------------------------------------------------------------------
Top == stack[1]
Rest == Tail(stack)
Doing(op) == stack # <<>> /\ Top.op = op

Frame(op) == [op |-> op]
Write(s, d, q) == [op |-> "write", str |-> s, depth |-> d, quoted |-> q]

\* a range of the characters of s, of which done have been written; the chunk
\* that was read begins after base; check is v8sw_asciicheck
Seq0(s, from, length, check) ==
    [op |-> "read", str |-> s, from |-> from, length |-> length,
     done |-> 0, base |-> 0, check |-> check]

SInit ==
    /\ BufInit
    /\ job \in [str : Roots, quoted : BOOLEAN, flags : Flags]
    /\ stack = <<Write(job.str, 0, job.quoted)>>
    /\ rv = 0

\* a call returns
Return(r) == stack' = Rest /\ rv' = r

\* an error message is written instead of the string, which counts as success
Complain == buf' = Written(buf, Complaint) /\ Return(0)
-----------------------------------------------------------------------------
(* v8string_write                                                          *)

Bump(d) == d + 1

TooDeep ==
    /\ Doing("write")
    /\ Top.depth > MaxDepth
    /\ buf' = Written(buf, Complaint)
    /\ Return(-1)
    /\ UNCHANGED job

\* the opening quote; the closing one will be written whatever goes wrong
OpenQuote ==
    /\ Doing("write")
    /\ Top.depth <= MaxDepth
    /\ Top.quoted
    /\ buf' = Appended(buf, "quote", job.flags)
    /\ stack' = <<Frame("hold"), Write(Top.str, Top.depth, FALSE),
                  Frame("release"), Frame("close")>> \o Rest
    /\ UNCHANGED <<job, rv>>

HoldTwo == Doing("hold") /\ buf' = Reserved(buf, 2) /\ stack' = Rest /\ UNCHANGED <<job, rv>>
Hold == Doing("hold") /\ buf' = Reserved(buf, 1) /\ stack' = Rest /\ UNCHANGED <<job, rv>>

ReleaseNone == Doing("release") /\ stack' = Rest /\ UNCHANGED <<buf, job, rv>>
ReleaseHeld ==
    /\ Doing("release")
    /\ buf' = Reserved(buf, -1)
    /\ stack' = Rest
    /\ UNCHANGED <<job, rv>>

CloseQuote ==
    /\ Doing("close")
    /\ buf' = Appended(buf, "quote", job.flags)
    /\ stack' = Rest
    /\ UNCHANGED <<job, rv>>

\* the body of a string, whose representation is rep
Body(rep) ==
    /\ Doing("write")
    /\ Top.depth <= MaxDepth
    /\ ~Top.quoted
    /\ Heap[Top.str].rep = rep
    /\ UNCHANGED job

WriteSeq ==
    /\ Body("seq")
    /\ stack' = <<Seq0(Top.str, 0, Len(Heap[Top.str].chars), FALSE)>> \o Rest
    /\ UNCHANGED <<buf, rv>>

\* v8string_write_ext
WriteExt ==
    /\ Body("external")
    /\ ~Heap[Top.str].two
    /\ stack' = <<Seq0(Top.str, 0, Len(Heap[Top.str].chars), TRUE)>> \o Rest
    /\ UNCHANGED <<buf, rv>>

WriteExtTwo == Body("external") /\ Heap[Top.str].two /\ Complain

\* the part of n characters that v8string_write_seq makes of a slice
SliceFrom(s, n) == Smaller(s.from, n)
SliceLength(s, n) == Smaller(s.length, n - SliceFrom(s, n))

SeqParent(s) == s.p1 # NULL /\ Heap[s.p1].rep = "seq"

\* v8string_write_sliced
WriteSliced ==
    /\ Body("sliced")
    /\ SeqParent(Heap[Top.str])
    /\ LET s == Heap[Top.str]
           n == Len(Heap[s.p1].chars)
       IN  stack' = <<Seq0(s.p1, SliceFrom(s, n), SliceLength(s, n), FALSE)>> \o Rest
    /\ UNCHANGED <<buf, rv>>

WriteSlicedFails ==
    /\ Body("sliced")
    /\ ~SeqParent(Heap[Top.str])
    /\ Complain

\* v8string_write_cons: both parts are loaded first; v8string_write has bumped
\* the depth, and it is bumped again
WriteCons ==
    /\ Body("cons")
    /\ LET s == Heap[Top.str]
           d == Bump(Bump(Top.depth))
       IN  /\ NULL \notin {s.p1, s.p2}
           /\ stack' = <<Write(s.p1, d, FALSE),
                         [op |-> "second", str |-> s.p2, depth |-> d]>> \o Rest
    /\ UNCHANGED <<buf, rv>>

WriteConsFails ==
    /\ Body("cons")
    /\ NULL \in {Heap[Top.str].p1, Heap[Top.str].p2}
    /\ Complain

WriteSecond ==
    /\ Doing("second")
    /\ stack' = (IF rv = 0 THEN <<Write(Top.str, Top.depth, FALSE)>> ELSE <<>>)
                \o <<Frame("free")>> \o Rest
    /\ UNCHANGED <<buf, job, rv>>

FreeParts == Doing("free") /\ stack' = Rest /\ UNCHANGED <<buf, job, rv>>
-----------------------------------------------------------------------------
(* v8string_write_seq and v8string_write_seq_chunk                         *)

Char(t, i) == Heap[t.str].chars[t.from + i]

\* everything has been written
SeqDone ==
    /\ Doing("read") \/ Doing("copy")
    /\ Top.done = Top.length
    /\ Return(0)
    /\ UNCHANGED <<buf, job>>

ReadFails ==
    /\ Doing("read")
    /\ Top.done < Top.length
    /\ ~Heap[Top.str].data
    /\ Complain
    /\ UNCHANGED job

LooksInvalid == Top.check /\ Char(Top, Top.done + 1) = "wide"

ReadLooksInvalid ==
    /\ Doing("read")
    /\ Top.done < Top.length
    /\ Heap[Top.str].data
    /\ LooksInvalid
    /\ Complain
    /\ UNCHANGED job

ReadChunk ==
    /\ Doing("read")
    /\ Top.done < Top.length
    /\ Heap[Top.str].data
    /\ ~LooksInvalid
    /\ stack' = <<[Top EXCEPT !.op = "copy", !.base = Top.done, !.check = FALSE]>> \o Rest
    /\ UNCHANGED <<buf, job, rv>>

ChunkEnd == Smaller(Top.base + Chunk, Top.length)
ChunkLast == Top.length - Top.base <= Chunk

\* the bytes that characters i, ..., j of the range are counted to take
Counted(i, j) ==
    Cardinality(UNION {{k} \X (1..NBytesForChar(Char(Top, k), job.flags)) : k \in i..j})

NoDangerCoarse(left, first) == left > 2 /\ left - 2 >= Len(Marker)

NoDanger(left, first) ==
    \/ left > 2 /\ left - 2 >= Len(Marker)
    \/ left > Len(Marker) /\ first <= left - Len(Marker)

SizeCheckLate ==
    LET left == BytesLeft(buf)
        rest == Counted(Top.done + 1, ChunkEnd)
    IN  IF left > 2 THEN "nodanger"
        ELSE IF rest > left THEN "wontfit"
        ELSE IF ~ChunkLast THEN "dontknow" ELSE "willfit"

SizeCheckEager ==
    LET left == BytesLeft(buf)
        rest == Counted(Top.done + 1, ChunkEnd)
    IN  IF NoDanger(left, Counted(Top.done + 1, Top.done + 1)) THEN "nodanger"
        ELSE IF ~ChunkLast THEN "dontknow"
        ELSE IF rest > left THEN "wontfit" ELSE "willfit"

SizeCheckStrict ==
    LET left == BytesLeft(buf)
        rest == Counted(Top.done + 1, ChunkEnd)
    IN  IF NoDanger(left, Counted(Top.done + 1, Top.done + 1)) THEN "nodanger"
        ELSE IF rest >= left THEN "wontfit"
        ELSE IF ~ChunkLast THEN "dontknow" ELSE "willfit"

(* v8string_write_sizecheck: after the next character there is room for    *)
(* the marker, or what is left of the chunk does not fit, or it does but   *)
(* there are more chunks, or it does and there are none.                   *)
SizeCheck ==
    LET left == BytesLeft(buf)
        rest == Counted(Top.done + 1, ChunkEnd)
    IN  IF NoDanger(left, Counted(Top.done + 1, Top.done + 1)) THEN "nodanger"
        ELSE IF rest > left THEN "wontfit"
        ELSE IF ~ChunkLast THEN "dontknow" ELSE "willfit"

InChunk == Doing("copy") /\ Top.done < ChunkEnd

CopyChar ==
    /\ InChunk
    /\ SizeCheck \in {"nodanger", "willfit"}
    /\ buf' = Appended(buf, Char(Top, Top.done + 1), job.flags)
    /\ stack' = <<[Top EXCEPT !.done = @ + 1]>> \o Rest
    /\ UNCHANGED <<job, rv>>

Truncate ==
    /\ InChunk
    /\ SizeCheck = "wontfit"
    /\ buf' = Written(buf, Marker)
    /\ Return(0)
    /\ UNCHANGED job

\* the next chunk begins where this one ended, or where it became too close
NextChunk ==
    /\ Doing("copy")
    /\ Top.done < Top.length
    /\ Top.done < ChunkEnd => SizeCheck = "dontknow"
    /\ stack' = <<[Top EXCEPT !.op = "read"]>> \o Rest
    /\ UNCHANGED <<buf, job, rv>>

SNext == \/ TooDeep \/ OpenQuote \/ Hold \/ ReleaseHeld \/ CloseQuote
         \/ WriteSeq \/ WriteExt \/ WriteExtTwo \/ WriteSliced \/ WriteSlicedFails
         \/ WriteCons \/ WriteConsFails \/ WriteSecond \/ FreeParts
         \/ SeqDone \/ ReadFails \/ ReadLooksInvalid \/ ReadChunk
         \/ CopyChar \/ Truncate \/ NextChunk

SSpec == SInit /\ [][SNext]_svars

\* a call runs until it returns
SFairSpec == SSpec /\ WF_svars(SNext)
-----------------------------------------------------------------------------
Ended == stack = <<>>

STypeOK ==
    /\ BufTypeOK
    /\ job \in [str : Roots, quoted : BOOLEAN, flags : Flags]
    /\ rv \in {0, -1}
    /\ \A i \in DOMAIN stack :
          LET t == stack[i] IN
          /\ t.op \in {"write", "second", "hold", "release", "close", "free", "read", "copy"}
          /\ t.op \in {"write", "second"} => t.str \in Strs /\ t.depth \in Nat
          /\ t.op \in {"read", "copy"} =>
                /\ t.str \in Strs
                /\ t.base \in 0..t.done /\ t.done \in 0..t.length
                /\ t.from + t.length <= Len(Heap[t.str].chars)

\* room for the characters, and what is written between the quotes
Room == Size(buf) - 1 - (IF job.quoted THEN 2 ELSE 0)
Inside == IF job.quoted THEN SubSeq(buf.out, 2, Len(buf.out) - 1) ELSE buf.out

\* the characters of a string that is not a concatenation
Flat(s) ==
    \/ Heap[s].rep = "seq" /\ Heap[s].data
    \/ /\ Heap[s].rep = "external" /\ Heap[s].data /\ ~Heap[s].two
       /\ Heap[s].chars # <<>> => Heap[s].chars[1] # "wide"
    \/ Heap[s].rep = "sliced" /\ SeqParent(Heap[s]) /\ Heap[Heap[s].p1].data

FlatChars(s) ==
    IF Heap[s].rep # "sliced" THEN Heap[s].chars
    ELSE LET p == Heap[Heap[s].p1].chars
             n == Len(p)
         IN  SubSeq(p, SliceFrom(Heap[s], n) + 1,
                    SliceFrom(Heap[s], n) + SliceLength(Heap[s], n))

\* concatenations of concatenations, d deep, are sound and have these characters
Sound[d \in 0..MaxDepth] ==
    [s \in Strs |->
       IF Heap[s].rep # "cons" THEN Flat(s)
       ELSE d > 0 /\ \A p \in {Heap[s].p1, Heap[s].p2} : p # NULL /\ Sound[d - 1][p]]

Content[d \in 0..MaxDepth] ==
    [s \in Strs |->
       IF Heap[s].rep # "cons" THEN IF Flat(s) THEN FlatChars(s) ELSE <<>>
       ELSE IF d = 0 \/ NULL \in {Heap[s].p1, Heap[s].p2} THEN <<>>
       ELSE Content[d - 1][Heap[s].p1] \o Content[d - 1][Heap[s].p2]]

\* characters, as appendc writes them, and the bytes counted for them
Rendered[l \in Seq(Chars)] ==
    IF l = <<>> THEN <<>> ELSE Escaped(Head(l), job.flags) \o Rendered[Tail(l)]

Needed(l) == Cardinality(UNION {{k} \X (1..NBytesForChar(l[k], job.flags)) : k \in DOMAIN l})

(* v8string_write on a string of any structure: if its characters fit the  *)
(* buffer, they are all there, in order, with nothing added: no marker, no *)
(* lost character between two chunks or two parts.                         *)
WholeIfFits ==
    LET c == Content[MaxDepth \div 2][job.str] IN
    Ended /\ Sound[MaxDepth \div 2][job.str] /\ Needed(c) <= Room => Inside = Rendered[c]

(* v8string_write_sizecheck on a string in one piece, in a buffer that has *)
(* room for the marker: one that is cut shows it with the whole marker,    *)
(* right after characters from its beginning.                              *)
CutIsMarked ==
    Ended /\ Flat(job.str) /\ Room >= Len(Marker) =>
       LET c == FlatChars(job.str) IN
       \/ Inside = Rendered[c]
       \/ \E k \in 0..Len(c) : Inside = Rendered[SubSeq(c, 1, k)] \o Marker

(* jsstr_print's callers (with MSF_ASCIIONLY) can tell a string that was   *)
(* cut from one that was not only by the room it leaves: none but the      *)
(* terminator's byte, whatever it is made of.                              *)
CutFills ==
    LET c == Content[MaxDepth \div 2][job.str] IN
    Ended /\ job.flags = "ascii" /\ Sound[MaxDepth \div 2][job.str] /\ Needed(c) > Room =>
       buf.left = 1

(* A string that is cut is told from one that is not, by the reader from   *)
(* the marker and by jsstr_print's callers from the room that is left.     *)
CutIsShown == CutIsMarked /\ CutFills

(* The reservation in v8string_write: a quoted string that had room for    *)
(* its quotes ends with one, whatever has happened in between.             *)
QuotesMatch ==
    Ended /\ job.quoted /\ Size(buf) >= 3 =>
       buf.out[1] = "quote" /\ buf.out[Len(buf.out)] = "quote"

(* The look-ahead leaves room for whole escapes: no output of a string     *)
(* has half of one, which would escape the closing quote.                  *)
EscapesWhole ==
    \A i \in DOMAIN buf.out :
       buf.out[i] = "backslash" => i < Len(buf.out) /\ buf.out[i + 1] = "letter"

(* What v8string_write and the escapes it counts promise to a reader of    *)
(* the output: a quoted string ends where its last quote is.               *)
QuotedWhole == QuotesMatch /\ EscapesWhole

(* v8string_write returns, on any heap: JSSTR_MAXDEPTH ends the recursion  *)
(* into strings that are (or, being corrupt, seem) part of themselves, and *)
(* no chunk is read again without progress, as the code asserts            *)
(* (assert(writep->v8sw_chunki != 0)).                                     *)
Returns == <>Ended

(* What v8string_write does to its buffer is what StrBuf allows a client.  *)
ClientOfStrBuf == BufSpec
=============================================================================
