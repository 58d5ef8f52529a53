------------------------------- MODULE StrBuf -------------------------------
(***************************************************************************)
(* mdbv8_strbuf_t, the string buffer nearly all output of mdb_v8 goes      *)
(* through: a caller's block of memory that is written from the left, that *)
(* always keeps a byte for the terminator, and of whose end a client can   *)
(* reserve bytes for what it has to write last.  Text that does not fit is *)
(* dropped without a word, so clients ask first how much would fit.        *)
(*                                                                         *)
(* A buffer is a record: the bytes written, ms_curbufsz and ms_reservesz.  *)
(* A character is one of the classes appendc distinguishes.                *)
(***************************************************************************)
EXTENDS Integers, Sequences

CONSTANTS
    BufSizes,    \* the sizes of the buffers that clients allocate
    Texts,       \* what they write with mdbv8_strbuf_sprintf
    Reservations, \* the numbers of bytes they reserve
    MaxReserved   \* bound: bytes reserved at any time

(* Clients that come here with a size of zero are broken: the first thing  *)
(* mdbv8_strbuf_init does is to store a terminator.                        *)
ASSUME BufferAssumption ==
    /\ BufSizes \subseteq Nat \ {0}
    /\ Reservations \subseteq Nat
    /\ MaxReserved \in Nat

\* a plain character; a non-ASCII one; NUL; another control character; one of
\* backspace, newline, return and backslash; and a double quote
Chars == {"plain", "wide", "nul", "ctrl", "escape", "quote"}

\* MSF_ASCIIONLY, and MSF_JSON which includes it
Flags == {"ascii", "json"}

\* what ends up in a buffer; marks and text are those the clients add themselves
Bytes == (Chars \ {"wide"}) \cup {"qmark", "backslash", "letter", "mark", "text"}

ASSUME TextAssumption == Texts \subseteq Seq(Bytes)

VARIABLE buf

-----------------------------------------------------------------------------
Rewound(size, resv) == [out |-> <<>>, left |-> size, resv |-> resv]

Size(b) == Len(b.out) + b.left

BytesLeftNoNul(b) == IF b.left < b.resv THEN 0 ELSE b.left - b.resv

\* mdbv8_strbuf_bytesleft
BytesLeft(b) == IF b.left - 1 < b.resv THEN 0 ELSE b.left - 1 - b.resv

Smaller(m, n) == IF m < n THEN m ELSE n

WrittenUpTo(b, text, room) ==
    LET n == Smaller(Len(text), room)
    IN  [out |-> b.out \o SubSeq(text, 1, n), left |-> b.left - n, resv |-> b.resv]

WrittenOver(b, text) == WrittenUpTo(b, text, b.left - 1)
WrittenFull(b, text) ==
    IF b.left <= b.resv THEN b ELSE WrittenUpTo(b, text, b.left - b.resv)

\* mdbv8_strbuf_vsprintf: as much of the text as fits
Written(b, text) ==
    IF b.left <= b.resv THEN b ELSE WrittenUpTo(b, text, b.left - b.resv - 1)

\* mdbv8_strbuf_reserve
Reserved(b, n) == [out |-> b.out, left |-> b.left, resv |-> b.resv + n]

EscapedLong(c, f) ==
    IF f = "json" /\ c = "escape" THEN <<"backslash", "backslash", "letter">>
    ELSE IF c = "wide" \/ (f = "json" /\ c \in {"nul", "ctrl"}) THEN <<"qmark">>
    ELSE <<c>>

(* What mdbv8_strbuf_appendc makes of a character.  In JSON a double quote *)
(* is not escaped.                                                         *)
Escaped(c, f) ==
    IF f = "json" /\ c = "escape" THEN <<"backslash", "letter">>
    ELSE IF c = "wide" \/ (f = "json" /\ c \in {"nul", "ctrl"}) THEN <<"qmark">>
    ELSE <<c>>

\* mdbv8_strbuf_appendc
Appended(b, c, f) == Written(b, Escaped(c, f))

NBytesOne(c, f) == 1
NBytesMarks(c, f) == IF f = "json" /\ c \in {"escape", "quote", "nul", "ctrl"} THEN 2 ELSE 1

\* mdbv8_strbuf_nbytesforchar
NBytesForChar(c, f) == IF f = "json" /\ c \in {"escape", "quote"} THEN 2 ELSE 1
-----------------------------------------------------------------------------
BufInit == \E n \in BufSizes : buf = Rewound(n, 0)

\* what is reserved stays reserved
Rewind == buf' = Rewound(Size(buf), buf.resv)

\* nobody checks that there is room for what is reserved
Reserve == \E n \in Reservations :
              buf.resv + n <= MaxReserved /\ buf' = Reserved(buf, n)

Unreserve == \E n \in Reservations : n <= buf.resv /\ buf' = Reserved(buf, -n)

Sprintf == \E t \in Texts : buf' = Written(buf, t)

Appendc == \E c \in Chars, f \in Flags : buf' = Appended(buf, c, f)

BufNext == Rewind \/ Reserve \/ Unreserve \/ Sprintf \/ Appendc

BufSpec == BufInit /\ [][BufNext]_buf
-----------------------------------------------------------------------------
BufTypeOK == buf \in [out : Seq(Bytes), left : Nat, resv : Nat]

(* mdbv8_strbuf_vsprintf's arithmetic: it never writes past the buffer,    *)
(* and always leaves a byte for the terminator.                            *)
InBounds == buf.left > 0 /\ Size(buf) \in BufSizes

(* mdbv8_strbuf_bytesleft and mdbv8_strbuf_vsprintf compute the room there *)
(* is independently, and agree: a text that fits is written whole, another *)
(* is cut after just so many bytes.                                        *)
BytesLeftExact ==
    \A t \in Texts :
       Len(Written(buf, t).out) = Len(buf.out) + Smaller(Len(t), BytesLeft(buf))

(* mdbv8_strbuf_nbytesforchar and mdbv8_strbuf_appendc agree as well: a    *)
(* character it finds room for is appended whole, with its escape, and one *)
(* it finds no room for is cut; but for a double quote in JSON, which it   *)
(* counts as an escape that appendc does not write.                        *)
CharFits ==
    \A c \in Chars, f \in Flags :
       LET whole == Appended(buf, c, f).out = buf.out \o Escaped(c, f) IN
       /\ NBytesForChar(c, f) <= BytesLeft(buf) => whole
       /\ BytesLeft(buf) < NBytesForChar(c, f) /\ whole => f = "json" /\ c = "quote"

(* The arithmetic of mdb_v8_strbuf.c is right altogether: what a client is *)
(* told about the room agrees with what is written, and none of it is      *)
(* outside the buffer.                                                     *)
BufferSound == InBounds /\ BytesLeftExact /\ CharFits

(* What a client could reserve stays there for it, whatever is written in  *)
(* the meantime: on release, that many bytes more can be written.          *)
ReservationKept ==
    [][buf.left > buf.resv /\ buf'.resv <= buf.resv =>
          /\ buf'.left > buf'.resv
          /\ BytesLeft(buf') >= buf.resv - buf'.resv]_buf
=============================================================================
