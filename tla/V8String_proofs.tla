-------------------------- MODULE V8String_proofs --------------------------
(***************************************************************************)
(* Proofs about StrBuf, for buffers of every size and all texts, and about *)
(* V8String, for heaps of any strings, sound or corrupt, for buffers of    *)
(* every size and chunks of any length.                                    *)
(*                                                                         *)
(* The second half proves that v8string_write writes all of a string that  *)
(* fits its buffer, and shows it when it has cut one that does not.  The   *)
(* text a string stands for is defined by recursion, over the depth of     *)
(* concatenations (Sound, Content) and over sequences (Rendered).  First,  *)
(* functions are shown to exist that satisfy these definitions; then what  *)
(* v8string_write_sizecheck counts is related to them; then it is said     *)
(* what each frame on the stack still has to write, and that each step of  *)
(* the code writes a character of it, passes it on, or cuts; last come the *)
(* quotes.                                                                 *)
(***************************************************************************)
EXTENDS V8String, SequenceTheorems, FiniteSetTheorems, WellFoundedInduction, TLAPS

-----------------------------------------------------------------------------
(* String buffers.                                                         *)

Buffer == [out : Seq(Bytes), left : Nat, resv : Nat]

(* How long a prefix is, and that it may be the whole.                     *)
LEMMA PrefixLength ==
    ASSUME NEW s \in Seq(Bytes), NEW n \in 0..Len(s)
    PROVE  /\ SubSeq(s, 1, n) \in Seq(Bytes)
           /\ Len(SubSeq(s, 1, n)) = n
           /\ n = Len(s) => SubSeq(s, 1, n) = s
  OBVIOUS

(* mdbv8_strbuf_vsprintf writes as many bytes as mdbv8_strbuf_bytesleft    *)
(* had promised, and nothing else changes.                                 *)
LEMMA WrittenExact ==
    ASSUME NEW b \in Buffer, b.left > 0, NEW t \in Seq(Bytes)
    PROVE  LET n == Smaller(Len(t), BytesLeft(b)) IN
           /\ n \in 0..Len(t)
           /\ Written(b, t).out = b.out \o SubSeq(t, 1, n)
           /\ Written(b, t).left = b.left - n
           /\ Written(b, t).resv = b.resv
           /\ Written(b, t) \in Buffer
           /\ Len(Written(b, t).out) = Len(b.out) + n
  <1> DEFINE n == Smaller(Len(t), BytesLeft(b))
  <1>0. b.out \in Seq(Bytes) /\ b.left \in Nat /\ b.resv \in Nat
    BY DEF Buffer
  <1>1. BytesLeft(b) \in Nat /\ BytesLeft(b) <= b.left
    BY <1>0 DEF BytesLeft
  <1>2. n \in 0..Len(t) /\ n <= BytesLeft(b)
    BY <1>1 DEF Smaller
  <1>3. SubSeq(t, 1, n) \in Seq(Bytes) /\ Len(SubSeq(t, 1, n)) = n
    BY <1>2, PrefixLength
  <1>4. CASE b.left <= b.resv
    <2>1. n = 0
      BY <1>0, <1>4, <1>1, <1>2 DEF BytesLeft
    <2>2. b.out \o SubSeq(t, 1, n) = b.out
      BY <1>0, <1>3, <2>1
    <2>3. Written(b, t) = b
      BY <1>4 DEF Written
    <2> QED
      BY <1>0, <1>2, <2>1, <2>2, <2>3
  <1>5. CASE ~(b.left <= b.resv)
    <2>1. BytesLeft(b) = b.left - b.resv - 1
      BY <1>0, <1>5 DEF BytesLeft
    <2>2. Written(b, t) = [out |-> b.out \o SubSeq(t, 1, n), left |-> b.left - n,
                           resv |-> b.resv]
      BY <1>5, <2>1 DEF Written, WrittenUpTo
    <2>3. b.out \o SubSeq(t, 1, n) \in Seq(Bytes)
          /\ Len(b.out \o SubSeq(t, 1, n)) = Len(b.out) + n
      BY <1>0, <1>3
    <2>4. b.left - n \in Nat
      BY <1>0, <1>1, <1>2
    <2>5. Written(b, t) \in Buffer
      BY <1>0, <2>2, <2>3, <2>4 DEF Buffer
    <2>6. /\ Written(b, t).out = b.out \o SubSeq(t, 1, n) /\ Written(b, t).left = b.left - n
          /\ Written(b, t).resv = b.resv
      BY <1>5, <2>1 DEF Written, WrittenUpTo
    <2> QED
      BY <1>2, <2>3, <2>5, <2>6
  <1> QED
    BY <1>4, <1>5

(* An escape is a short text, never longer than what was counted for it.   *)
LEMMA EscapeSize ==
    ASSUME NEW c \in Chars, NEW f \in Flags
    PROVE  /\ Escaped(c, f) \in Seq(Bytes)
           /\ Len(Escaped(c, f)) <= NBytesForChar(c, f)
           /\ NBytesForChar(c, f) \in 1..2
  <1>1. CASE f = "json" /\ c = "escape"
    BY <1>1 DEF Escaped, NBytesForChar, Bytes
  <1>2. CASE ~(f = "json" /\ c = "escape") /\ (c = "wide" \/ (f = "json" /\ c \in {"nul", "ctrl"}))
    BY <1>2 DEF Escaped, NBytesForChar, Bytes
  <1>3. CASE ~(f = "json" /\ c = "escape") /\ ~(c = "wide" \/ (f = "json" /\ c \in {"nul", "ctrl"}))
    <2>1. c \in Bytes
      BY <1>3 DEF Chars, Bytes
    <2> QED
      BY <1>3, <2>1 DEF Escaped, NBytesForChar
  <1> QED
    BY <1>1, <1>2, <1>3

BufInv == buf \in Buffer /\ InBounds

LEMMA BufStart == BufInit => BufInv
  <1> SUFFICES ASSUME BufInit PROVE BufInv
    OBVIOUS
  <1>1. PICK n \in BufSizes : buf = [out |-> <<>>, left |-> n, resv |-> 0]
    BY DEF BufInit, Rewound
  <1>2. n \in Nat \ {0}
    BY BufferAssumption
  <1> QED
    BY <1>1, <1>2 DEF BufInv, InBounds, Buffer, Size

LEMMA BufStep == BufInv /\ [BufNext]_buf => BufInv'
  <1> SUFFICES ASSUME BufInv, [BufNext]_buf
               PROVE  BufInv'
    OBVIOUS
  <1>0. /\ buf \in Buffer /\ buf.out \in Seq(Bytes) /\ buf.left \in Nat /\ buf.resv \in Nat
        /\ buf.left > 0 /\ Size(buf) \in BufSizes /\ Size(buf) = Len(buf.out) + buf.left
    BY DEF BufInv, InBounds, Buffer, Size
  <1>1. ASSUME NEW t \in Seq(Bytes), buf' = Written(buf, t)
        PROVE  BufInv'
    <2> DEFINE n == Smaller(Len(t), BytesLeft(buf))
    <2>1. /\ buf' \in Buffer /\ buf'.left = buf.left - n /\ n \in 0..Len(t)
          /\ Len(buf'.out) = Len(buf.out) + n
      BY <1>0, <1>1, WrittenExact
    <2>2. n < buf.left
      BY <1>0 DEF Smaller, BytesLeft
    <2>3. buf'.left > 0 /\ Size(buf') = Size(buf)
      BY <1>0, <2>1, <2>2 DEF Size
    <2> QED
      BY <1>0, <2>1, <2>3 DEF BufInv, InBounds
  <1>2. CASE Rewind
    <2>1. Size(buf) \in Nat \ {0}
      BY <1>0, BufferAssumption
    <2>2. buf' = [out |-> <<>>, left |-> Size(buf), resv |-> buf.resv]
      BY <1>2 DEF Rewind, Rewound
    <2>3. buf' \in Buffer /\ buf'.left > 0 /\ Size(buf') = Size(buf)
      BY <1>0, <2>1, <2>2 DEF Buffer, Size
    <2> QED
      BY <1>0, <2>3 DEF BufInv, InBounds
  <1>3. CASE Reserve \/ Unreserve
    <2>1. PICK n \in Int : buf' = Reserved(buf, n) /\ buf.resv + n \in Nat
      <3>1. CASE Reserve
        BY <1>0, <3>1, BufferAssumption DEF Reserve
      <3>2. CASE Unreserve
        <4>1. PICK n \in Reservations : n <= buf.resv /\ buf' = Reserved(buf, -n)
          BY <3>2 DEF Unreserve
        <4>2. -n \in Int /\ buf.resv + (-n) \in Nat
          BY <1>0, <4>1, BufferAssumption
        <4> QED
          BY <4>1, <4>2
      <3> QED
        BY <1>3, <3>1, <3>2
    <2>2. buf' = [out |-> buf.out, left |-> buf.left, resv |-> buf.resv + n]
      BY <2>1 DEF Reserved
    <2>3. buf' \in Buffer /\ buf'.left = buf.left /\ Size(buf') = Size(buf)
      BY <1>0, <2>1, <2>2 DEF Buffer, Size
    <2> QED
      BY <1>0, <2>3 DEF BufInv, InBounds
  <1>4. CASE Sprintf
    BY <1>1, <1>4, TextAssumption DEF Sprintf
  <1>5. CASE Appendc
    BY <1>1, <1>5, EscapeSize DEF Appendc, Appended
  <1>6. CASE buf' = buf
    BY <1>0, <1>6 DEF BufInv, InBounds
  <1> QED
    BY <1>2, <1>3, <1>4, <1>5, <1>6 DEF BufNext

LEMMA BufAlways == BufSpec => []BufInv
  BY BufStart, BufStep, PTL DEF BufSpec

(* The buffer keeps its type.                                              *)
THEOREM BufTyped == BufSpec => []BufTypeOK
  <1>1. BufInv => BufTypeOK
    BY DEF BufInv, BufTypeOK, Buffer
  <1> QED
    BY <1>1, BufAlways, PTL

(* mdbv8_strbuf_vsprintf stays within the buffer and leaves room for the   *)
(* terminator, whatever is written, reserved, released and rewound.        *)
THEOREM StaysInBounds == BufSpec => []InBounds
  <1>1. BufInv => InBounds
    BY DEF BufInv
  <1> QED
    BY <1>1, BufAlways, PTL

(* mdbv8_strbuf_bytesleft is exact for every text.                         *)
THEOREM RoomExact == BufSpec => []BytesLeftExact
  <1>1. BufInv => BytesLeftExact
    <2> SUFFICES ASSUME BufInv, NEW t \in Texts
                 PROVE  Len(Written(buf, t).out) = Len(buf.out) + Smaller(Len(t), BytesLeft(buf))
      BY DEF BytesLeftExact
    <2> QED
      BY WrittenExact, TextAssumption DEF BufInv, InBounds
  <1> QED
    BY <1>1, BufAlways, PTL

(* A character for which mdbv8_strbuf_nbytesforchar finds room is appended *)
(* whole: an escape that was accounted for is never cut in two.  And only  *)
(* such a character is, the double quote in JSON excepted.                 *)
THEOREM CharsFit == BufSpec => []CharFits
  <1>1. BufInv => CharFits
    <2> SUFFICES ASSUME BufInv, NEW c \in Chars, NEW f \in Flags
                 PROVE  LET whole == Appended(buf, c, f).out = buf.out \o Escaped(c, f)
                        IN /\ NBytesForChar(c, f) <= BytesLeft(buf) => whole
                           /\ BytesLeft(buf) < NBytesForChar(c, f) /\ whole =>
                                 f = "json" /\ c = "quote"
      BY DEF CharFits
    <2> DEFINE t == Escaped(c, f)
               n == Smaller(Len(t), BytesLeft(buf))
    <2>1. t \in Seq(Bytes) /\ Len(t) <= NBytesForChar(c, f) /\ NBytesForChar(c, f) \in 1..2
      BY EscapeSize
    <2>2. BytesLeft(buf) \in Nat /\ buf.out \in Seq(Bytes)
      BY DEF BufInv, Buffer, BytesLeft
    <2>3. /\ Appended(buf, c, f).out = buf.out \o SubSeq(t, 1, n) /\ n \in 0..Len(t)
          /\ Len(Appended(buf, c, f).out) = Len(buf.out) + n
      BY <2>1, WrittenExact DEF BufInv, InBounds, Appended
    <2>4. ASSUME NBytesForChar(c, f) <= BytesLeft(buf)
          PROVE  Appended(buf, c, f).out = buf.out \o t
      <3>1. n = Len(t)
        BY <2>1, <2>2, <2>4 DEF Smaller
      <3>2. SubSeq(t, 1, n) = t
        BY <2>1, <2>3, <3>1, PrefixLength
      <3> QED
        BY <2>3, <3>2
    <2>5. ASSUME BytesLeft(buf) < NBytesForChar(c, f), Appended(buf, c, f).out = buf.out \o t,
                 ~(f = "json" /\ c = "quote")
          PROVE  FALSE
      <3>1. Len(t) = NBytesForChar(c, f)
        BY <2>5 DEF Escaped, NBytesForChar
      <3>2. n < Len(t)
        BY <2>1, <2>2, <2>5, <3>1 DEF Smaller
      <3> DEFINE k == Len(t)
                 m == Len(buf.out)
      <3>3. m + n = m + k
        <4>1. Len(buf.out \o t) = m + k
          BY <2>1, <2>2
        <4> QED
          BY <2>3, <2>5, <4>1
      <3>4. k \in Nat /\ m \in Nat /\ n \in 0..k
        BY <2>1, <2>2, <2>3
      <3> HIDE DEF t, n, k, m
      <3> QED
        BY <3>2, <3>3, <3>4 DEF k
    <2> QED
      BY <2>4, <2>5
  <1> QED
    BY <1>1, BufAlways, PTL

(* Bytes that were there to be reserved are there when they are released.  *)
THEOREM ReservationsHold == BufSpec => ReservationKept
  <1>1. ASSUME BufInv, [BufNext]_buf, buf.left > buf.resv, buf'.resv <= buf.resv
        PROVE  buf'.left > buf'.resv /\ BytesLeft(buf') >= buf.resv - buf'.resv
    <2>0. buf \in Buffer /\ buf.left \in Nat /\ buf.resv \in Nat /\ buf.out \in Seq(Bytes)
          /\ buf.left > 0
      BY <1>1 DEF BufInv, InBounds, Buffer
    <2>1. ASSUME NEW t \in Seq(Bytes), buf' = Written(buf, t)
          PROVE  buf'.resv = buf.resv /\ buf'.left > buf'.resv
      <3> DEFINE n == Smaller(Len(t), BytesLeft(buf))
      <3>1. buf'.left = buf.left - n /\ buf'.resv = buf.resv /\ n \in 0..Len(t)
        BY <2>0, <2>1, WrittenExact
      <3>2. BytesLeft(buf) = buf.left - 1 - buf.resv /\ n <= BytesLeft(buf)
        BY <1>1, <2>0 DEF BytesLeft, Smaller
      <3> QED
        BY <2>0, <3>1, <3>2
    <2>2. CASE Rewind
      <3>1. buf' = [out |-> <<>>, left |-> Len(buf.out) + buf.left, resv |-> buf.resv]
        BY <2>2 DEF Rewind, Rewound, Size
      <3>2. Len(buf.out) \in Nat
        BY <2>0
      <3>3. buf'.left = Len(buf.out) + buf.left /\ buf'.resv = buf.resv
        BY <3>1
      <3> QED
        BY <1>1, <2>0, <3>2, <3>3 DEF BytesLeft
    <2>3. CASE Reserve \/ Unreserve
      <3>1. PICK n \in Int : buf' = Reserved(buf, n)
        BY <2>3, BufferAssumption DEF Reserve, Unreserve
      <3>2. buf'.left = buf.left /\ buf'.resv = buf.resv + n
        BY <3>1 DEF Reserved
      <3> QED
        BY <1>1, <2>0, <3>2 DEF BytesLeft
    <2>4. CASE Sprintf
      <3>1. PICK t \in Texts : buf' = Written(buf, t)
        BY <2>4 DEF Sprintf
      <3>2. buf'.resv = buf.resv /\ buf'.left > buf'.resv
        BY <2>1, <3>1, TextAssumption
      <3> QED
        BY <2>0, <3>2, BufStep, <1>1 DEF BytesLeft, BufInv, Buffer
    <2>5. CASE Appendc
      <3>1. PICK c \in Chars, f \in Flags : buf' = Written(buf, Escaped(c, f))
        BY <2>5 DEF Appendc, Appended
      <3>2. buf'.resv = buf.resv /\ buf'.left > buf'.resv
        BY <2>1, <3>1, EscapeSize
      <3> QED
        BY <2>0, <3>2, BufStep, <1>1 DEF BytesLeft, BufInv, Buffer
    <2>6. CASE buf' = buf
      BY <1>1, <2>0, <2>6 DEF BytesLeft
    <2> QED
      BY <1>1, <2>2, <2>3, <2>4, <2>5, <2>6 DEF BufNext
  <1>2. BufInv /\ [BufNext]_buf => [buf.left > buf.resv /\ buf'.resv <= buf.resv =>
            buf'.left > buf'.resv /\ BytesLeft(buf') >= buf.resv - buf'.resv]_buf
    BY <1>1
  <1> QED
    BY <1>2, BufAlways, PTL DEF BufSpec, ReservationKept

(* The arithmetic of the buffer is right altogether, for every client of   *)
(* mdb_v8_strbuf.c: any sizes, texts, characters and reservations.         *)
THEOREM BufferAlwaysSound == BufSpec => []BufferSound
  <1>1. InBounds /\ BytesLeftExact /\ CharFits => BufferSound
    BY DEF BufferSound
  <1> QED
    BY <1>1, StaysInBounds, RoomExact, CharsFit, PTL

-----------------------------------------------------------------------------
(* Bytes and escapes.                                                      *)

\* no half of an escape is in s
NoHalf(s) == \A i \in DOMAIN s : s[i] = "backslash" => i < Len(s) /\ s[i + 1] = "letter"

\* a text that has no escapes
NoEscape(s) == \A i \in DOMAIN s : s[i] # "backslash"

LEMMA NoHalfConcat ==
    ASSUME NEW s \in Seq(Bytes), NEW t \in Seq(Bytes), NoHalf(s), NoHalf(t)
    PROVE  NoHalf(s \o t)
  <1> DEFINE u == s \o t
  <1>1. /\ Len(s) \in Nat /\ DOMAIN s = 1..Len(s)
        /\ Len(t) \in Nat /\ DOMAIN t = 1..Len(t)
    BY LenProperties
  <1>2. /\ u \in Seq(Bytes) /\ Len(u) = Len(s) + Len(t)
        /\ \A i \in 1..(Len(s) + Len(t)) : u[i] = IF i <= Len(s) THEN s[i] ELSE t[i - Len(s)]
    BY ConcatProperties
  <1>3. DOMAIN u = 1..(Len(s) + Len(t))
    BY <1>2, LenProperties
  <1> HIDE DEF u
  <1>4. ASSUME NEW i \in 1..(Len(s) + Len(t)), u[i] = "backslash"
        PROVE  i < Len(u) /\ u[i + 1] = "letter"
    <2>1. CASE i <= Len(s)
      <3>1. i \in DOMAIN s /\ s[i] = "backslash"
        BY <1>1, <1>2, <1>4, <2>1
      <3>2. i < Len(s) /\ s[i + 1] = "letter"
        BY <3>1 DEF NoHalf
      <3>3. i + 1 \in 1..(Len(s) + Len(t)) /\ i + 1 <= Len(s)
        BY <1>1, <3>1, <3>2
      <3> QED
        BY <1>1, <1>2, <3>2, <3>3
    <2>2. CASE i > Len(s)
      <3> DEFINE k == i - Len(s)
      <3>1. k \in DOMAIN t /\ t[k] = "backslash"
        BY <1>1, <1>2, <1>4, <2>2
      <3>2. k < Len(t) /\ t[k + 1] = "letter"
        BY <3>1 DEF NoHalf
      <3>3. /\ i + 1 \in 1..(Len(s) + Len(t)) /\ ~(i + 1 <= Len(s))
            /\ i + 1 - Len(s) = k + 1 /\ i < Len(u)
        BY <1>1, <1>2, <2>2, <3>1, <3>2
      <3>4. u[i + 1] = t[k + 1]
        BY <1>2, <3>3
      <3> QED
        BY <3>2, <3>3, <3>4
    <2> QED
      BY <1>1, <2>1, <2>2
  <1> QED
    BY <1>3, <1>4 DEF NoHalf, u

LEMMA NoHalfPrefix ==
    ASSUME NEW t \in Seq(Bytes), NoEscape(t), NEW n \in 0..Len(t)
    PROVE  NoHalf(SubSeq(t, 1, n))
  <1>1. DOMAIN t = 1..Len(t) /\ Len(t) \in Nat
    BY LenProperties
  <1>2. SubSeq(t, 1, n) \in Seq(Bytes) /\ Len(SubSeq(t, 1, n)) = n
    BY PrefixLength
  <1>3. DOMAIN SubSeq(t, 1, n) = 1..n
    BY <1>2, LenProperties
  <1>4. \A i \in 1..n : SubSeq(t, 1, n)[i] = t[i] /\ i \in DOMAIN t
    BY <1>1
  <1> QED
    BY <1>3, <1>4 DEF NoHalf, NoEscape

LEMMA EscapeNoHalf ==
    ASSUME NEW c \in Chars, NEW f \in Flags
    PROVE  NoHalf(Escaped(c, f))
  <1>1. CASE f = "json" /\ c = "escape"
    <2>1. Escaped(c, f) = <<"backslash", "letter">>
      BY <1>1 DEF Escaped
    <2> QED
      BY <2>1 DEF NoHalf
  <1>2. CASE ~(f = "json" /\ c = "escape") /\ (c = "wide" \/ (f = "json" /\ c \in {"nul", "ctrl"}))
    <2>1. Escaped(c, f) = <<"qmark">>
      BY <1>2 DEF Escaped
    <2> QED
      BY <2>1 DEF NoHalf
  <1>3. CASE ~(f = "json" /\ c = "escape") /\ ~(c = "wide" \/ (f = "json" /\ c \in {"nul", "ctrl"}))
    <2>1. Escaped(c, f) = <<c>> /\ c # "backslash"
      BY <1>3 DEF Escaped, Chars
    <2> QED
      BY <2>1 DEF NoHalf
  <1> QED
    BY <1>1, <1>2, <1>3

(* What mdbv8_strbuf_sprintf and mdbv8_strbuf_appendc leave as it was: the *)
(* size of the buffer, what is reserved, what it begins with, and the room *)
(* for what is reserved.                                                   *)
LEMMA WrittenKeeps ==
    ASSUME NEW b \in Buffer, b.left > 0, NEW t \in Seq(Bytes)
    PROVE  /\ Written(b, t) \in Buffer /\ Written(b, t).left > 0
           /\ Size(Written(b, t)) = Size(b)
           /\ Written(b, t).resv = b.resv
           /\ b.left > b.resv => Written(b, t).left > b.resv
           /\ b.out # <<>> => Written(b, t).out # <<>> /\ Written(b, t).out[1] = b.out[1]
           /\ NoHalf(b.out) /\ NoEscape(t) => NoHalf(Written(b, t).out)
           /\ NoHalf(b.out) /\ NoHalf(t) /\ Len(t) <= BytesLeft(b) => NoHalf(Written(b, t).out)
  <1> DEFINE n == Smaller(Len(t), BytesLeft(b))
             w == Written(b, t)
             p == SubSeq(t, 1, n)
  <1>0. b.out \in Seq(Bytes) /\ b.left \in Nat /\ b.resv \in Nat /\ Len(b.out) \in Nat
    BY LenProperties DEF Buffer
  <1>1. /\ n \in 0..Len(t) /\ w.out = b.out \o p /\ w.left = b.left - n
        /\ w.resv = b.resv /\ w \in Buffer /\ Len(w.out) = Len(b.out) + n
    BY WrittenExact
  <1>2. n <= BytesLeft(b) /\ n \in Nat /\ Len(t) \in Nat /\ BytesLeft(b) \in Nat
    BY <1>0, <1>1, LenProperties DEF Smaller, BytesLeft
  <1>3. p \in Seq(Bytes) /\ Len(p) = n /\ (n = Len(t) => p = t)
    BY <1>1, PrefixLength
  <1>4. n = Len(t) \/ n = BytesLeft(b)
    BY DEF Smaller
  <1> HIDE DEF n, w, p
  <1>5. w.left > 0 /\ Size(w) = Size(b) /\ (b.left > b.resv => w.left > b.resv)
    <2>1. /\ n < b.left
          /\ b.left > b.resv => n < b.left - b.resv
      BY <1>0, <1>2 DEF BytesLeft
    <2>2. w.left > 0 /\ (b.left > b.resv => w.left > b.resv)
      BY <1>0, <1>1, <1>2, <2>1
    <2>3. Len(w.out) + w.left = (Len(b.out) + n) + (b.left - n)
      BY <1>1, Zenon
    <2>4. Len(w.out) + w.left = Len(b.out) + b.left
      BY <1>0, <1>2, <2>3
    <2>5. Size(w) = Size(b)
      BY <2>4 DEF Size
    <2> QED
      BY <2>2, <2>5
  <1>6. b.out # <<>> => w.out # <<>> /\ w.out[1] = b.out[1]
    <2> SUFFICES ASSUME b.out # <<>> PROVE w.out # <<>> /\ w.out[1] = b.out[1]
      OBVIOUS
    <2>1. Len(b.out) > 0
      BY <1>0, EmptySeq
    <2>2. \A i \in 1..(Len(b.out) + Len(p)) :
             (b.out \o p)[i] = IF i <= Len(b.out) THEN b.out[i] ELSE p[i - Len(b.out)]
      BY <1>0, <1>3, ConcatProperties
    <2>3. 1 \in 1..(Len(b.out) + Len(p)) /\ 1 <= Len(b.out)
      BY <1>0, <1>2, <1>3, <2>1
    <2>4. (b.out \o p)[1] = b.out[1]
      BY <2>2, <2>3
    <2>5. Len(w.out) # 0
      BY <1>0, <1>1, <1>2, <2>1
    <2>6. w.out # <<>>
      BY <2>5, EmptySeq
    <2> QED
      BY <1>1, <2>4, <2>6
  <1>7. NoHalf(b.out) /\ NoEscape(t) => NoHalf(w.out)
    BY <1>0, <1>1, <1>3, NoHalfConcat, NoHalfPrefix DEF p
  <1>8. NoHalf(b.out) /\ NoHalf(t) /\ Len(t) <= BytesLeft(b) => NoHalf(w.out)
    <2> SUFFICES ASSUME NoHalf(b.out), NoHalf(t), Len(t) <= BytesLeft(b)
                 PROVE  NoHalf(w.out)
      OBVIOUS
    <2>1. n = Len(t)
      BY <1>1, <1>2, <1>4
    <2>2. p = t
      BY <1>3, <2>1
    <2> QED
      BY <1>0, <1>1, <2>2, NoHalfConcat
  <1> QED
    BY <1>1, <1>5, <1>6, <1>7, <1>8 DEF w
-----------------------------------------------------------------------------
(* The stack.  What is written between the quotes is done by these frames; *)
(* below them is what remains of the quoting.                              *)

WriteFrame == [op : {"write"}, str : Strs, depth : Nat, quoted : {FALSE}]
SecondFrame == [op : {"second"}, str : Strs, depth : Nat]
FreeFrame == [op : {"free"}]
RangeFrame ==
    {t \in [op : {"read", "copy"}, str : Strs, from : Nat, length : Nat,
            done : Nat, base : Nat, check : BOOLEAN] :
       t.base <= t.done /\ t.done <= t.length /\ t.from + t.length <= Len(Heap[t.str].chars)}

BodyFrame == WriteFrame \cup SecondFrame \cup FreeFrame \cup RangeFrame

Closing == IF job.quoted THEN <<Frame("release"), Frame("close")>> ELSE <<>>
Held == IF job.quoted THEN 1 ELSE 0

\* a quoted string whose quotes have room begins with one
Begun == Size(buf) >= 3 => buf.out # <<>> /\ buf.out[1] = "quote"

\* nothing has been done
Opening ==
    /\ job.quoted
    /\ stack = <<Write(job.str, 0, TRUE)>>
    /\ buf.resv = 0 /\ buf.out = <<>>

Holding ==
    /\ job.quoted
    /\ stack = <<Frame("hold"), Write(job.str, 0, FALSE), Frame("release"), Frame("close")>>
    /\ buf.resv = 0
    /\ Begun /\ (Size(buf) >= 3 => buf.left >= 2)

\* the body of the string is being written
Writing ==
    /\ \E body \in Seq(BodyFrame) : stack = body \o Closing
    /\ buf.resv = Held
    /\ job.quoted => Begun /\ (Size(buf) >= 3 => buf.left > buf.resv)

Ending ==
    /\ job.quoted
    /\ stack = <<Frame("close")>>
    /\ buf.resv = 0
    /\ Begun /\ (Size(buf) >= 3 => buf.left >= 2)

Over ==
    /\ job.quoted
    /\ stack = <<>>
    /\ buf.resv = 0
    /\ Begun /\ (Size(buf) >= 3 => buf.out[Len(buf.out)] = "quote")

Shape == Opening \/ Holding \/ Writing \/ Ending \/ Over

StrInv ==
    /\ BufInv
    /\ job \in [str : Roots, quoted : BOOLEAN, flags : Flags]
    /\ rv \in {0, -1}
    /\ NoHalf(buf.out)
    /\ Shape

LEMMA MessagesTyped ==
    /\ Marker \in Seq(Bytes) /\ NoEscape(Marker) /\ Marker \in Texts
    /\ Complaint \in Seq(Bytes) /\ NoEscape(Complaint) /\ Complaint \in Texts
  BY StringAssumption, TextAssumption DEF NoEscape

LEMMA StrStart == SInit => StrInv
  <1> SUFFICES ASSUME SInit PROVE StrInv
    OBVIOUS
  <1>1. BufInv /\ BufInit
    BY BufStart DEF SInit
  <1>2. buf.out = <<>> /\ buf.resv = 0
    BY <1>1 DEF BufInit, Rewound
  <1>3. NoHalf(buf.out)
    BY <1>2 DEF NoHalf
  <1>4. job \in [str : Roots, quoted : BOOLEAN, flags : Flags] /\ rv \in {0, -1}
        /\ stack = <<Write(job.str, 0, job.quoted)>>
    BY DEF SInit
  <1>5. CASE job.quoted
    <2>1. job.quoted = TRUE
      BY <1>4, <1>5
    <2> QED
      BY <1>1, <1>2, <1>3, <1>4, <1>5, <2>1 DEF StrInv, Shape, Opening
  <1>6. CASE ~job.quoted
    <2>1. job.quoted = FALSE /\ job.str \in Strs
      BY <1>4, <1>6, StringAssumption
    <2>2. Write(job.str, 0, job.quoted) \in BodyFrame
      BY <2>1 DEF Write, BodyFrame, WriteFrame
    <2>3. Closing = <<>> /\ Held = 0
      BY <1>6 DEF Closing, Held
    <2>4. stack \in Seq(BodyFrame) /\ stack = stack \o <<>>
      <3>1. stack \in Seq(BodyFrame)
        BY <1>4, <2>2
      <3> QED
        BY <3>1, ConcatEmptySeq
    <2> QED
      BY <1>1, <1>2, <1>3, <1>4, <1>6, <2>3, <2>4 DEF StrInv, Shape, Writing
  <1> QED
    BY <1>5, <1>6

(* What a step does to its buffer is one of these, and what it puts in the *)
(* place of the top of the stack are frames of the body.                   *)
BufferKept == buf' = buf
MessageWritten == \E t \in {Marker, Complaint} : buf' = Written(buf, t)
CharWritten ==
    \E c \in Chars : buf' = Appended(buf, c, job.flags)
                     /\ NBytesForChar(c, job.flags) <= BytesLeft(buf)

BodyDoes == BufferKept \/ MessageWritten \/ CharWritten

BodyStep ==
    /\ job' = job
    /\ rv' \in {0, -1}
    /\ BodyDoes
    /\ \E above \in Seq(BodyFrame) : stack' = above \o Rest

-----------------------------------------------------------------------------
(* v8string_write_sizecheck.                                               *)

LEMMA CountedLeast ==
    ASSUME NEW i \in Nat, NEW j \in Nat, i <= j
    PROVE  /\ Counted(i, i) = NBytesForChar(Char(Top, i), job.flags)
           /\ Counted(i, j) \in Nat
           /\ Counted(i, i) <= Counted(i, j)
  <1> DEFINE Row(k) == {k} \X (1..NBytesForChar(Char(Top, k), job.flags))
             All == UNION {Row(k) : k \in i..j}
             Rows == {Row(k) : k \in i..j}
  <1>1. \A k \in Nat : NBytesForChar(Char(Top, k), job.flags) \in 1..2
    BY DEF NBytesForChar
  <1>2. ASSUME NEW k \in Nat
        PROVE  /\ IsFiniteSet(Row(k))
               /\ Cardinality(Row(k)) = NBytesForChar(Char(Top, k), job.flags)
    <2> DEFINE n == NBytesForChar(Char(Top, k), job.flags)
    <2>0. n \in 1..2
      BY <1>1
    <2> HIDE DEF n
    <2>1. IsFiniteSet(1..n) /\ Cardinality(1..n) = n
      BY <2>0, FS_Interval
    <2>2. IsFiniteSet({k}) /\ Cardinality({k}) = 1
      BY FS_Singleton
    <2>3. IsFiniteSet({k} \X (1..n)) /\ Cardinality({k} \X (1..n)) = 1 * n
      BY <2>1, <2>2, FS_Product, ZenonT(40)
    <2> QED
      BY <2>0, <2>3 DEF n
  <1>3. UNION {Row(k) : k \in i..i} = Row(i)
    OBVIOUS
  <1>4. IsFiniteSet(Rows)
    <2>1. IsFiniteSet(i..j)
      BY FS_Interval
    <2> HIDE DEF Row
    <2> DEFINE f == [k \in i..j |-> Row(k)]
    <2>2. f \in Surjection(i..j, Rows)
      BY DEF Surjection
    <2> QED
      BY <2>1, <2>2, FS_Surjection
  <1>5. IsFiniteSet(All)
    <2>1. \A T \in Rows : IsFiniteSet(T)
      BY <1>2
    <2> QED
      BY <1>4, <2>1, FS_UNION
  <1>6. Row(i) \subseteq All
    OBVIOUS
  <1>7. Counted(i, i) = Cardinality(Row(i)) /\ Counted(i, j) = Cardinality(All)
    BY <1>3 DEF Counted
  <1> HIDE DEF All, Row
  <1>8. Cardinality(All) \in Nat /\ Cardinality(Row(i)) <= Cardinality(All)
    BY <1>5, <1>6, FS_Subset, FS_CardinalityType
  <1> QED
    BY <1>2, <1>7, <1>8

(* A character that v8string_write_sizecheck lets pass fits with its       *)
(* escape.                                                                 *)
LEMMA PassedFits ==
    ASSUME buf \in Buffer, Top \in RangeFrame, InChunk, SizeCheck \in {"nodanger", "willfit"}
    PROVE  NBytesForChar(Char(Top, Top.done + 1), job.flags) <= BytesLeft(buf)
  <1> DEFINE i == Top.done + 1
             j == ChunkEnd
             left == BytesLeft(buf)
             first == Counted(i, i)
             rest == Counted(i, j)
  <1>0. /\ left \in Nat /\ Len(Marker) \in Nat
        /\ NBytesForChar(Char(Top, i), job.flags) \in 1..2
    <2>1. buf.left \in Nat /\ buf.resv \in Nat
      BY DEF Buffer
    <2> QED
      BY <2>1, MessagesTyped, LenProperties DEF BytesLeft, NBytesForChar
  <1>1. /\ Top.done \in Nat /\ Top.length \in Nat /\ Top.base \in Nat
        /\ Top.done < ChunkEnd
    BY DEF RangeFrame, InChunk
  <1>2. i \in Nat /\ j \in Nat /\ i <= j
    <2>1. ChunkEnd \in Nat
      BY <1>1, StringAssumption DEF ChunkEnd, Smaller
    <2> QED
      BY <1>1, <2>1
  <1>3. /\ first = NBytesForChar(Char(Top, i), job.flags)
        /\ rest \in Nat /\ first <= rest
    BY <1>2, CountedLeast
  <1>4. \/ NoDanger(left, first)
        \/ ~(rest > left)
    BY DEF SizeCheck
  <1> HIDE DEF left, first, rest, i, j
  <1>5. CASE NoDanger(left, first)
    <2>1. CASE left > 2 /\ left - 2 >= Len(Marker)
      BY <1>0, <1>3, <2>1 DEF i, left
    <2>2. CASE left > Len(Marker) /\ first <= left - Len(Marker)
      BY <1>0, <1>3, <2>2 DEF i, left
    <2> QED
      BY <1>5, <2>1, <2>2 DEF NoDanger
  <1>6. CASE ~(rest > left)
    BY <1>0, <1>3, <1>6 DEF i, left
  <1> QED
    BY <1>4, <1>5, <1>6

-----------------------------------------------------------------------------
(* The body of a string, step by step.                                     *)

LEMMA HeapTyped ==
    ASSUME NEW s \in Strs
    PROVE  /\ Heap[s] \in String /\ Heap[s].chars \in Seq(Chars)
           /\ Len(Heap[s].chars) \in Nat
           /\ \A i \in 1..Len(Heap[s].chars) : Heap[s].chars[i] \in Chars
           /\ Heap[s].from \in Nat /\ Heap[s].length \in Nat
           /\ Heap[s].p1 # NULL => Heap[s].p1 \in Strs
           /\ Heap[s].p2 # NULL => Heap[s].p2 \in Strs
  <1>1. Heap[s] \in String
    BY StringAssumption
  <1>2. Heap[s].chars \in Seq(Chars)
    BY <1>1 DEF String
  <1>3. /\ Heap[s].from \in Nat /\ Heap[s].length \in Nat
        /\ Heap[s].p1 \in Strs \cup {NULL} /\ Heap[s].p2 \in Strs \cup {NULL}
    BY <1>1 DEF String
  <1>4. \A i \in 1..Len(Heap[s].chars) : Heap[s].chars[i] \in Chars
    BY <1>2, ElementOfSeq
  <1> QED
    BY <1>1, <1>2, <1>3, <1>4, LenProperties

\* one frame, or none, in the place of the top
LEMMA Replaced ==
    ASSUME NEW t \in BodyFrame, stack' = <<t>> \o Rest
    PROVE  \E above \in Seq(BodyFrame) : stack' = above \o Rest
  <1>1. <<t>> \in Seq(BodyFrame)
    OBVIOUS
  <1> QED
    BY <1>1

LEMMA Popped ==
    ASSUME stack' = Rest, NEW S, Rest \in Seq(S)
    PROVE  \E above \in Seq(BodyFrame) : stack' = above \o Rest
  <1>1. <<>> \in Seq(BodyFrame) /\ <<>> \o Rest = Rest
    BY ConcatEmptySeq, EmptySeq
  <1> QED
    BY <1>1

LEMMA RangeTyped ==
    ASSUME NEW s \in Strs, NEW from \in Nat, NEW length \in Nat, NEW check \in BOOLEAN,
           from + length <= Len(Heap[s].chars)
    PROVE  Seq0(s, from, length, check) \in BodyFrame
  <1>1. Seq0(s, from, length, check) \in RangeFrame
    BY DEF Seq0, RangeFrame
  <1> QED
    BY <1>1 DEF BodyFrame

(* A slice is cut to what its parent has.                                  *)
LEMMA SliceWithin ==
    ASSUME NEW s \in Strs, NEW n \in Nat
    PROVE  /\ SliceFrom(Heap[s], n) \in Nat /\ SliceLength(Heap[s], n) \in Nat
           /\ SliceFrom(Heap[s], n) + SliceLength(Heap[s], n) <= n
  BY HeapTyped DEF SliceFrom, SliceLength, Smaller

(* Whatever is done at the top of the stack while the body of a string is  *)
(* written concerns only that: the frames below are not touched, and the   *)
(* buffer is changed by a message or by a character that fits whole.       *)
LEMMA BodySteps ==
    ASSUME StrInv, SNext, stack # <<>>, NEW S, Rest \in Seq(S), Top \in BodyFrame
    PROVE  BodyStep
  <1>0. /\ buf \in Buffer /\ buf.left > 0 /\ rv \in {0, -1}
        /\ job.flags \in Flags /\ job.str \in Strs
    BY StringAssumption DEF StrInv, BufInv, InBounds
  <1>w. ASSUME Doing("write")
        PROVE  Top \in WriteFrame /\ Top.str \in Strs /\ Top.depth \in Nat /\ ~Top.quoted
    BY <1>w DEF BodyFrame, WriteFrame, SecondFrame, FreeFrame, RangeFrame, Doing
  <1>s. ASSUME Doing("second")
        PROVE  Top \in SecondFrame /\ Top.str \in Strs /\ Top.depth \in Nat
    BY <1>s DEF BodyFrame, WriteFrame, SecondFrame, FreeFrame, RangeFrame, Doing
  <1>r. ASSUME Doing("read") \/ Doing("copy")
        PROVE  /\ Top \in RangeFrame /\ Top.str \in Strs /\ Top.from \in Nat /\ Top.length \in Nat
               /\ Top.done \in Nat /\ Top.base \in Nat /\ Top.check \in BOOLEAN
               /\ Top.base <= Top.done /\ Top.done <= Top.length
               /\ Top.from + Top.length <= Len(Heap[Top.str].chars)
    BY <1>r DEF BodyFrame, WriteFrame, SecondFrame, FreeFrame, RangeFrame, Doing
  <1>o. Top.op \in {"write", "second", "free", "read", "copy"}
    BY DEF BodyFrame, WriteFrame, SecondFrame, FreeFrame, RangeFrame
  <1>p. ASSUME NEW r \in {0, -1}, Return(r)
        PROVE  rv' \in {0, -1} /\ \E above \in Seq(BodyFrame) : stack' = above \o Rest
    BY <1>p, Popped DEF Return
  <1>c. ASSUME Complain
        PROVE  BodyDoes /\ rv' \in {0, -1} /\ \E above \in Seq(BodyFrame) : stack' = above \o Rest
    <2>1. buf' = Written(buf, Complaint) /\ Return(0)
      BY <1>c DEF Complain
    <2> QED
      BY <2>1, <1>p DEF BodyDoes, MessageWritten
  <1>1. CASE TooDeep
    <2>1. buf' = Written(buf, Complaint) /\ Return(-1) /\ job' = job
      BY <1>1 DEF TooDeep
    <2> QED
      BY <2>1, <1>p DEF BodyStep, BodyDoes, MessageWritten
  <1>2. CASE OpenQuote
    BY <1>2, <1>w DEF OpenQuote
  <1>3. CASE Hold \/ ReleaseHeld \/ CloseQuote
    BY <1>3, <1>o DEF Hold, ReleaseHeld, CloseQuote, Doing
  <1>4. CASE WriteSeq
    <2>1. Doing("write") /\ job' = job /\ buf' = buf /\ rv' = rv
          /\ stack' = <<Seq0(Top.str, 0, Len(Heap[Top.str].chars), FALSE)>> \o Rest
      BY <1>4 DEF WriteSeq, Body
    <2>2. Seq0(Top.str, 0, Len(Heap[Top.str].chars), FALSE) \in BodyFrame
      <3>1. Top.str \in Strs
        BY <2>1, <1>w
      <3>2. Len(Heap[Top.str].chars) \in Nat
        BY <3>1, HeapTyped
      <3>3. 0 + Len(Heap[Top.str].chars) <= Len(Heap[Top.str].chars)
        BY <3>2
      <3> QED
        BY <3>1, <3>2, <3>3, RangeTyped
    <2> QED
      BY <1>0, <2>1, <2>2, Replaced DEF BodyStep, BodyDoes, BufferKept
  <1>5. CASE WriteExt
    <2>1. Doing("write") /\ job' = job /\ buf' = buf /\ rv' = rv
          /\ stack' = <<Seq0(Top.str, 0, Len(Heap[Top.str].chars), TRUE)>> \o Rest
      BY <1>5 DEF WriteExt, Body
    <2>2. Seq0(Top.str, 0, Len(Heap[Top.str].chars), TRUE) \in BodyFrame
      <3>1. Top.str \in Strs
        BY <2>1, <1>w
      <3>2. Len(Heap[Top.str].chars) \in Nat
        BY <3>1, HeapTyped
      <3>3. 0 + Len(Heap[Top.str].chars) <= Len(Heap[Top.str].chars)
        BY <3>2
      <3> QED
        BY <3>1, <3>2, <3>3, RangeTyped
    <2> QED
      BY <1>0, <2>1, <2>2, Replaced DEF BodyStep, BodyDoes, BufferKept
  <1>6. CASE WriteExtTwo \/ WriteSlicedFails \/ WriteConsFails \/ ReadFails \/ ReadLooksInvalid
    <2>1. Complain /\ job' = job
      BY <1>6 DEF WriteExtTwo, WriteSlicedFails, WriteConsFails, ReadFails, ReadLooksInvalid, Body
    <2> QED
      BY <2>1, <1>c DEF BodyStep
  <1>7. CASE WriteSliced
    <2> DEFINE s == Heap[Top.str]
               n == Len(Heap[s.p1].chars)
    <2>1. Doing("write") /\ job' = job /\ buf' = buf /\ rv' = rv /\ s.p1 # NULL
          /\ stack' = <<Seq0(s.p1, SliceFrom(s, n), SliceLength(s, n), FALSE)>> \o Rest
      BY <1>7 DEF WriteSliced, Body, SeqParent
    <2>2. Top.str \in Strs /\ s.p1 \in Strs
      BY <2>1, <1>w, HeapTyped
    <2>3. n \in Nat
      BY <2>2, HeapTyped
    <2>4. /\ SliceFrom(s, n) \in Nat /\ SliceLength(s, n) \in Nat
          /\ SliceFrom(s, n) + SliceLength(s, n) <= n
      BY <2>2, <2>3, SliceWithin
    <2>5. Seq0(s.p1, SliceFrom(s, n), SliceLength(s, n), FALSE) \in BodyFrame
      BY <2>2, <2>4, RangeTyped
    <2> QED
      BY <1>0, <2>1, <2>5, Replaced DEF BodyStep, BodyDoes, BufferKept
  <1>8. CASE WriteCons
    <2> DEFINE s == Heap[Top.str]
               d == Bump(Bump(Top.depth))
               w == Write(s.p1, d, FALSE)
               u == [op |-> "second", str |-> s.p2, depth |-> d]
    <2>1. Doing("write") /\ job' = job /\ buf' = buf /\ rv' = rv /\ s.p1 # NULL /\ s.p2 # NULL
          /\ stack' = <<w, u>> \o Rest
      BY <1>8 DEF WriteCons, Body
    <2>2. s.p1 \in Strs /\ s.p2 \in Strs /\ d \in Nat
      BY <2>1, <1>w, HeapTyped DEF Bump
    <2>3. w \in WriteFrame /\ u \in SecondFrame
      BY <2>2 DEF WriteFrame, SecondFrame, Write
    <2>4. w \in BodyFrame /\ u \in BodyFrame
      BY <2>3 DEF BodyFrame
    <2> HIDE DEF w, u
    <2>5. <<w, u>> \in Seq(BodyFrame)
      BY <2>4
    <2> QED
      BY <1>0, <2>1, <2>5 DEF BodyStep, BodyDoes, BufferKept
  <1>9. CASE WriteSecond
    <2> DEFINE w == Write(Top.str, Top.depth, FALSE)
               above == (IF rv = 0 THEN <<w>> ELSE <<>>) \o <<Frame("free")>>
    <2>1. Doing("second") /\ job' = job /\ buf' = buf /\ rv' = rv
          /\ stack' = (IF rv = 0 THEN <<w>> ELSE <<>>) \o <<Frame("free")>> \o Rest
      BY <1>9 DEF WriteSecond
    <2>2. w \in BodyFrame /\ Frame("free") \in BodyFrame
      BY <2>1, <1>s DEF Write, Frame, BodyFrame, WriteFrame, FreeFrame
    <2> DEFINE first == IF rv = 0 THEN <<w>> ELSE <<>>
               last == Frame("free")
    <2> HIDE DEF w, last
    <2>3. first \in Seq(BodyFrame) /\ <<last>> \in Seq(BodyFrame)
      BY <2>2 DEF last
    <2> HIDE DEF first
    <2>4. first \o <<last>> \in Seq(BodyFrame)
      BY <2>3, ConcatProperties
    <2>5. above \in Seq(BodyFrame) /\ stack' = above \o Rest
      BY <2>1, <2>4 DEF first, last
    <2> QED
      BY <1>0, <2>1, <2>5 DEF BodyStep, BodyDoes, BufferKept
  <1>10. CASE FreeParts \/ SeqDone
    <2>1. job' = job /\ buf' = buf /\ rv' \in {0, -1} /\ stack' = Rest
      BY <1>0, <1>10 DEF FreeParts, SeqDone, Return
    <2> QED
      BY <2>1, Popped DEF BodyStep, BodyDoes, BufferKept
  <1>11. CASE ReadChunk \/ NextChunk
    <2>1. PICK u \in {"read", "copy"}, b \in {Top.base, Top.done}, c \in {Top.check, FALSE} :
             stack' = <<[Top EXCEPT !.op = u, !.base = b, !.check = c]>> \o Rest
      <3>1. CASE ReadChunk
        BY <3>1 DEF ReadChunk
      <3>2. CASE NextChunk
        <4>1. stack' = <<[Top EXCEPT !.op = "read"]>> \o Rest /\ Top \in RangeFrame
          BY <3>2, <1>r DEF NextChunk
        <4>2. [Top EXCEPT !.op = "read"] = [Top EXCEPT !.op = "read", !.base = Top.base, !.check = Top.check]
          BY <4>1 DEF RangeFrame
        <4> QED
          BY <4>1, <4>2
      <3> QED
        BY <1>11, <3>1, <3>2
    <2>2. (Doing("read") \/ Doing("copy")) /\ job' = job /\ buf' = buf /\ rv' = rv
      BY <1>11 DEF ReadChunk, NextChunk
    <2>3. [Top EXCEPT !.op = u, !.base = b, !.check = c] \in RangeFrame
      <3> DEFINE N == [Top EXCEPT !.op = u, !.base = b, !.check = c]
      <3>1. N \in [op : {"read", "copy"}, str : Strs, from : Nat, length : Nat,
                    done : Nat, base : Nat, check : BOOLEAN]
        BY <2>2, <1>r DEF RangeFrame
      <3>2. /\ N.base = b /\ N.done = Top.done /\ N.length = Top.length
            /\ N.from = Top.from /\ N.str = Top.str
        BY <2>2, <1>r DEF RangeFrame
      <3>3. b <= Top.done
        BY <2>2, <1>r
      <3> HIDE DEF N
      <3>4. N \in RangeFrame
        BY <2>2, <1>r, <3>1, <3>2, <3>3 DEF RangeFrame
      <3> QED
        BY <3>4 DEF N
    <2> QED
      BY <1>0, <2>1, <2>2, <2>3, Replaced DEF BodyStep, BodyDoes, BufferKept, BodyFrame
  <1>12. CASE CopyChar
    <2> DEFINE c == Char(Top, Top.done + 1)
    <2>1. /\ InChunk /\ Doing("copy") /\ job' = job /\ rv' = rv
          /\ SizeCheck \in {"nodanger", "willfit"}
          /\ buf' = Appended(buf, c, job.flags)
          /\ stack' = <<[Top EXCEPT !.done = @ + 1]>> \o Rest
      BY <1>12 DEF CopyChar, InChunk
    <2>2. Top.done < Top.length
      BY <2>1, <1>r, StringAssumption DEF InChunk, ChunkEnd, Smaller
    <2>3. [Top EXCEPT !.done = @ + 1] \in RangeFrame
      BY <2>1, <2>2, <1>r, SMTT(30) DEF RangeFrame
    <2>4. c \in Chars
      <3>1. Top.from + (Top.done + 1) \in 1..Len(Heap[Top.str].chars)
        <4>1. /\ Top.from \in Nat /\ Top.done \in Nat /\ Top.length \in Nat /\ Top.str \in Strs
              /\ Top.from + Top.length <= Len(Heap[Top.str].chars)
          BY <2>1, <1>r
        <4>2. Len(Heap[Top.str].chars) \in Nat
          BY <4>1, HeapTyped
        <4>3. ASSUME NEW f \in Nat, NEW d \in Nat, NEW n \in Nat, NEW m \in Nat,
                     d < n, f + n <= m
              PROVE  f + (d + 1) \in 1..m
          BY <4>3
        <4> QED
          BY <2>2, <4>1, <4>2, <4>3, Zenon
      <3>2. Top.str \in Strs
        BY <2>1, <1>r
      <3> QED
        BY <3>1, <3>2, HeapTyped DEF Char
    <2>5. NBytesForChar(c, job.flags) <= BytesLeft(buf)
      BY <1>0, <2>1, <1>r, PassedFits
    <2> QED
      BY <1>0, <2>1, <2>3, <2>4, <2>5, Replaced DEF BodyStep, BodyDoes, CharWritten, BodyFrame
  <1>13. CASE Truncate
    <2>1. buf' = Written(buf, Marker) /\ Return(0) /\ job' = job
      BY <1>13 DEF Truncate
    <2> QED
      BY <2>1, <1>p DEF BodyStep, BodyDoes, MessageWritten
  <1> QED
    BY <1>1, <1>2, <1>3, <1>4, <1>5, <1>6, <1>7, <1>8, <1>9, <1>10, <1>11, <1>12, <1>13 DEF SNext

-----------------------------------------------------------------------------
(* The whole of a string, with its quotes.                                 *)

\* which action is taken, when the top of the stack is not in the body
LEMMA TopDecides ==
    ASSUME SNext
    PROVE  /\ stack # <<>>
           /\ Top.op = "hold" => Hold
           /\ Top.op = "release" => ReleaseHeld
           /\ Top.op = "close" => CloseQuote
           /\ Top.op = "write" /\ Top.quoted /\ ~(Top.depth > MaxDepth) => OpenQuote
  <1>1. \/ Hold \/ ReleaseHeld \/ CloseQuote \/ OpenQuote
        \/ TooDeep \/ \E r \in {"seq", "external", "sliced", "cons"} : Body(r)
        \/ Doing("second") \/ Doing("free") \/ Doing("read") \/ Doing("copy")
    <2>1. ASSUME WriteSeq \/ WriteExt \/ WriteExtTwo \/ WriteSliced \/ WriteSlicedFails
                 \/ WriteCons \/ WriteConsFails
          PROVE  \E r \in {"seq", "external", "sliced", "cons"} : Body(r)
      BY <2>1 DEF WriteSeq, WriteExt, WriteExtTwo, WriteSliced, WriteSlicedFails,
                  WriteCons, WriteConsFails
    <2>2. ASSUME WriteSecond \/ FreeParts \/ SeqDone \/ ReadFails \/ ReadLooksInvalid
                 \/ ReadChunk \/ CopyChar \/ Truncate \/ NextChunk
          PROVE  Doing("second") \/ Doing("free") \/ Doing("read") \/ Doing("copy")
      BY <2>2 DEF WriteSecond, FreeParts, SeqDone, ReadFails, ReadLooksInvalid,
                  ReadChunk, CopyChar, Truncate, NextChunk, InChunk
    <2> QED
      BY <2>1, <2>2 DEF SNext
  <1> QED
    BY <1>1 DEF Hold, ReleaseHeld, CloseQuote, OpenQuote, TooDeep, Body, Doing

(* What is done to the buffer in the body of a string: it is what StrBuf   *)
(* allows a client, and keeps what the quoting relies on.                  *)
LEMMA BodyBuffer ==
    ASSUME StrInv, BodyDoes
    PROVE  /\ [BufNext]_buf
           /\ Size(buf') = Size(buf) /\ buf'.resv = buf.resv
           /\ buf.left > buf.resv => buf'.left > buf.resv
           /\ buf.out # <<>> => buf'.out # <<>> /\ buf'.out[1] = buf.out[1]
           /\ NoHalf(buf'.out)
  <1>0. /\ buf \in Buffer /\ buf.left > 0 /\ job.flags \in Flags /\ NoHalf(buf.out)
    BY DEF StrInv, BufInv, InBounds
  <1>1. CASE BufferKept
    BY <1>0, <1>1 DEF BufferKept
  <1>2. CASE MessageWritten
    <2>1. PICK t \in {Marker, Complaint} : buf' = Written(buf, t)
      BY <1>2 DEF MessageWritten
    <2>2. t \in Seq(Bytes) /\ NoEscape(t) /\ t \in Texts
      BY MessagesTyped
    <2>3. BufNext
      BY <2>1, <2>2 DEF BufNext, Sprintf
    <2> QED
      BY <1>0, <2>1, <2>2, <2>3, WrittenKeeps
  <1>3. CASE CharWritten
    <2>1. PICK c \in Chars : buf' = Appended(buf, c, job.flags)
                             /\ NBytesForChar(c, job.flags) <= BytesLeft(buf)
      BY <1>3 DEF CharWritten
    <2> DEFINE t == Escaped(c, job.flags)
    <2>2. /\ t \in Seq(Bytes) /\ Len(t) <= NBytesForChar(c, job.flags)
          /\ NBytesForChar(c, job.flags) \in 1..2
      BY <1>0, EscapeSize
    <2>3. NoHalf(t)
      BY <1>0, EscapeNoHalf
    <2>4. BufNext
      BY <1>0, <2>1 DEF BufNext, Appendc
    <2>5. buf' = Written(buf, t)
      BY <2>1 DEF Appended
    <2> HIDE DEF t
    <2>6. Len(t) <= BytesLeft(buf)
      <3>1. Len(t) \in Nat /\ BytesLeft(buf) \in Nat
        BY <1>0, <2>2, LenProperties DEF BytesLeft, Buffer
      <3> QED
        BY <2>1, <2>2, <3>1
    <2> QED
      BY <1>0, <2>2, <2>3, <2>4, <2>5, <2>6, WrittenKeeps
  <1> QED
    BY <1>1, <1>2, <1>3 DEF BodyDoes

\* a quote, which is its own escape
LEMMA QuoteWritten ==
    ASSUME buf \in Buffer, buf.left > 0, buf.resv = 0, NEW f \in Flags,
           buf' = Appended(buf, "quote", f)
    PROVE  /\ BufNext
           /\ buf' \in Buffer /\ buf'.resv = 0 /\ Size(buf') = Size(buf)
           /\ NoHalf(buf.out) => NoHalf(buf'.out)
           /\ buf.out # <<>> => buf'.out # <<>> /\ buf'.out[1] = buf.out[1]
           /\ buf.left >= 2 =>
                 buf'.out = buf.out \o <<"quote">> /\ buf'.left = buf.left - 1
  <1> DEFINE t == <<"quote">>
  <1>1. Escaped("quote", f) = t /\ buf' = Written(buf, t)
    BY DEF Escaped, Appended
  <1>2. t \in Seq(Bytes) /\ NoEscape(t) /\ Len(t) = 1
    BY DEF Bytes, Chars, NoEscape
  <1>3. BufNext
    BY DEF BufNext, Appendc, Chars
  <1>4. buf.left >= 2 => buf'.out = buf.out \o <<"quote">> /\ buf'.left = buf.left - 1
    <2> SUFFICES ASSUME buf.left >= 2
                 PROVE  buf'.out = buf.out \o <<"quote">> /\ buf'.left = buf.left - 1
      OBVIOUS
    <2> DEFINE n == Smaller(Len(t), BytesLeft(buf))
    <2>1. n = 1
      <3>1. buf.left \in Nat
        BY DEF Buffer
      <3>2. BytesLeft(buf) \in Nat /\ BytesLeft(buf) >= 1
        BY <3>1 DEF BytesLeft
      <3>3. ASSUME NEW x \in Nat, x >= 1 PROVE Smaller(1, x) = 1
        BY <3>3 DEF Smaller
      <3> HIDE DEF t
      <3> QED
        BY <1>2, <3>2, <3>3, Zenon
    <2>2. buf'.out = buf.out \o SubSeq(t, 1, n) /\ buf'.left = buf.left - n
      <3> HIDE DEF t
      <3>1. /\ Written(buf, t).out = buf.out \o SubSeq(t, 1, n)
            /\ Written(buf, t).left = buf.left - n
        BY <1>2, WrittenExact
      <3> HIDE DEF n
      <3> QED
        BY <1>1, <3>1, Zenon
    <2> HIDE DEF n, t
    <2>3. SubSeq(t, 1, n) = t
      <3>1. n \in 0..Len(t) /\ n = Len(t)
        BY <1>2, <2>1
      <3> QED
        BY <1>2, <3>1, PrefixLength
    <2> QED
      BY <2>1, <2>2, <2>3 DEF t
  <1> HIDE DEF t
  <1> QED
    BY <1>1, <1>2, <1>3, <1>4, WrittenKeeps

LEMMA FramesTyped ==
    ASSUME NEW body \in Seq(BodyFrame)
    PROVE  /\ body \in Seq(BodyFrame \cup [op : {"release", "close"}])
           /\ Closing \in Seq(BodyFrame \cup [op : {"release", "close"}])
  <1> DEFINE R == [op : {"release", "close"}]
             A == BodyFrame \cup R
             a == Frame("release")
             c == Frame("close")
  <1>1. body \in Seq(A)
    BY SeqMonotonic
  <1>2. a \in A /\ c \in A
    BY DEF Frame
  <1>3. Closing = IF job.quoted THEN <<a, c>> ELSE <<>>
    BY DEF Closing
  <1> HIDE DEF a, c, A
  <1>4. <<a, c>> \in Seq(A) /\ <<>> \in Seq(A)
    BY <1>2
  <1> QED
    BY <1>1, <1>3, <1>4 DEF A

(* What is at the top of the stack while the body is being written.        *)
LEMMA TopOfBody ==
    ASSUME NEW body \in Seq(BodyFrame), body # <<>>, stack = body \o Closing
    PROVE  /\ stack # <<>> /\ Top = Head(body) /\ Top \in BodyFrame
           /\ Tail(body) \in Seq(BodyFrame) /\ body = <<Top>> \o Tail(body)
           /\ Rest = Tail(body) \o Closing
           /\ Rest \in Seq(BodyFrame \cup [op : {"release", "close"}])
           /\ Tail(body) \in Seq(BodyFrame \cup [op : {"release", "close"}])
  <1> DEFINE A == BodyFrame \cup [op : {"release", "close"}]
  <1>1. body \in Seq(A) /\ Closing \in Seq(A)
    BY FramesTyped
  <1> HIDE DEF A
  <1>2. /\ Head(body) \in BodyFrame /\ Tail(body) \in Seq(BodyFrame)
        /\ body = <<Head(body)>> \o Tail(body) /\ body[1] = Head(body)
        /\ Len(body) \in Nat \ {0} /\ Tail(body) \in Seq(A)
    BY <1>1
  <1>3. /\ stack \in Seq(A) /\ Len(stack) = Len(body) + Len(Closing)
        /\ stack[1] = body[1] /\ stack # <<>>
    <2>1. /\ stack \in Seq(A) /\ Len(stack) = Len(body) + Len(Closing)
          /\ \A i \in 1..(Len(body) + Len(Closing)) :
                stack[i] = IF i <= Len(body) THEN body[i] ELSE Closing[i - Len(body)]
      BY <1>1, ConcatProperties
    <2>2. Len(Closing) \in Nat
      BY <1>1, LenProperties
    <2>3. 1 \in 1..(Len(body) + Len(Closing)) /\ 1 <= Len(body) /\ Len(stack) # 0
      BY <1>2, <2>1, <2>2
    <2>4. stack # <<>>
      BY <2>3, EmptySeq
    <2> QED
      BY <2>1, <2>3, <2>4
  <1>4. Top = Head(body)
    BY <1>2, <1>3 DEF Top
  <1>5. Rest = Tail(body) \o Closing /\ Rest \in Seq(A)
    <2>1. Tail(body) \o Closing \in Seq(A)
      BY <1>1, <1>2, ConcatProperties
    <2>2. Rest = Tail(body) \o Closing
      <3>1. Tail(body \o Closing) = Tail(body) \o Closing
        BY <1>1, <1>2
      <3> QED
        BY <3>1 DEF Rest
    <2> QED
      BY <2>1, <2>2
  <1> QED
    BY <1>2, <1>3, <1>4, <1>5 DEF A

(* A step of the body, wherever in it.                                     *)
LEMMA WritingSteps ==
    ASSUME StrInv, SNext, NEW body \in Seq(BodyFrame), body # <<>>, stack = body \o Closing,
           Writing
    PROVE  BodyStep /\ Writing'
  <1> DEFINE A == BodyFrame \cup [op : {"release", "close"}]
  <1>1. body \in Seq(A) /\ Closing \in Seq(A)
    BY FramesTyped
  <1>2. /\ stack # <<>> /\ Top \in BodyFrame /\ Rest \in Seq(A) /\ Rest = Tail(body) \o Closing
        /\ Tail(body) \in Seq(BodyFrame) /\ Tail(body) \in Seq(A)
    BY TopOfBody
  <1> HIDE DEF A
  <1>6. BodyStep
    BY <1>2, BodySteps
  <1>7. Writing'
    <2>1. PICK above \in Seq(BodyFrame) : stack' = above \o Rest
      BY <1>6 DEF BodyStep
    <2>2. above \o Tail(body) \in Seq(BodyFrame)
      BY <1>2, <2>1, ConcatProperties
    <2>3. above \in Seq(A)
      BY FramesTyped DEF A
    <2>4. stack' = (above \o Tail(body)) \o Closing
      <3> DEFINE rest == Tail(body)
      <3>1. rest \in Seq(A)
        BY <1>2
      <3> HIDE DEF rest
      <3>2. (above \o rest) \o Closing = above \o (rest \o Closing)
        BY <1>1, <2>3, <3>1, ConcatAssociative
      <3> QED
        BY <1>2, <2>1, <3>2 DEF rest
    <2>5. job' = job
      BY <1>6 DEF BodyStep
    <2>6. Closing' = Closing /\ Held' = Held
      BY <2>5 DEF Closing, Held
    <2>7. \E b \in Seq(BodyFrame') : stack' = b \o Closing'
      BY <2>2, <2>4, <2>6 DEF BodyFrame, WriteFrame, SecondFrame, FreeFrame, RangeFrame
    <2>8. /\ Size(buf') = Size(buf) /\ buf'.resv = buf.resv
          /\ buf.left > buf.resv => buf'.left > buf.resv
          /\ buf.out # <<>> => buf'.out # <<>> /\ buf'.out[1] = buf.out[1]
      BY <1>6, BodyBuffer DEF BodyStep
    <2>9. buf'.resv = Held'
      BY <2>6, <2>8 DEF Writing
    <2>10. job.quoted => Begun' /\ (Size(buf') >= 3 => buf'.left > buf'.resv)
      BY <2>8 DEF Writing, Begun
    <2> QED
      BY <2>5, <2>7, <2>9, <2>10 DEF Writing
  <1> QED
    BY <1>6, <1>7

(* The steps before and after the body of a quoted string.                 *)
LEMMA OpenStep ==
    ASSUME StrInv, SNext, Opening
    PROVE  /\ job' = job /\ rv' = rv /\ BufNext /\ NoHalf(buf'.out)
           /\ buf' = Appended(buf, "quote", job.flags)
           /\ Holding'
  <1>0. /\ buf \in Buffer /\ buf.left > 0 /\ buf.left \in Nat /\ buf.out \in Seq(Bytes)
        /\ job.flags \in Flags /\ job.str \in Strs /\ NoHalf(buf.out)
    BY StringAssumption DEF StrInv, BufInv, InBounds, Buffer
  <1>1. Top.op = "write" /\ Top.quoted /\ Top.depth = 0 /\ Top.str = job.str /\ Rest = <<>>
    BY DEF Opening, Top, Rest, Write
  <1>2. ~(Top.depth > MaxDepth)
    BY <1>1, StringAssumption
  <1>3. OpenQuote
    BY <1>1, <1>2, TopDecides
  <1>4. /\ buf' = Appended(buf, "quote", job.flags) /\ job' = job /\ rv' = rv
        /\ stack' = <<Frame("hold"), Write(job.str, 0, FALSE), Frame("release"), Frame("close")>>
    BY <1>1, <1>3 DEF OpenQuote
  <1>5. buf.resv = 0 /\ buf.out = <<>>
    BY DEF Opening
  <1>6. /\ BufNext /\ buf'.resv = 0 /\ Size(buf') = Size(buf) /\ NoHalf(buf'.out)
        /\ buf.left >= 2 => buf'.out = buf.out \o <<"quote">> /\ buf'.left = buf.left - 1
    BY <1>0, <1>4, <1>5, QuoteWritten
  <1>7. Size(buf) = buf.left
    BY <1>0, <1>5 DEF Size
  <1>8. Size(buf') >= 3 => buf'.left >= 2 /\ buf'.out # <<>> /\ buf'.out[1] = "quote"
    <2> SUFFICES ASSUME Size(buf') >= 3
                 PROVE  buf'.left >= 2 /\ buf'.out # <<>> /\ buf'.out[1] = "quote"
      OBVIOUS
    <2>1. buf.left >= 3
      BY <1>6, <1>7
    <2>2. buf'.out = <<>> \o <<"quote">> /\ buf'.left = buf.left - 1
      BY <1>0, <1>5, <1>6, <2>1
    <2>3. <<>> \o <<"quote">> = <<"quote">>
      OBVIOUS
    <2>4. buf'.out = <<"quote">>
      BY <2>2, <2>3
    <2> QED
      BY <1>0, <2>1, <2>2, <2>4
  <1>9. Holding'
    BY <1>4, <1>6, <1>8 DEF Holding, Opening, Begun
  <1> QED
    BY <1>4, <1>6, <1>9

LEMMA HoldStep ==
    ASSUME StrInv, SNext, Holding
    PROVE  /\ job' = job /\ rv' = rv /\ BufNext /\ NoHalf(buf'.out)
           /\ buf' = Reserved(buf, 1)
           /\ Writing'
           /\ stack' = <<Write(job.str, 0, FALSE)>> \o Closing
  <1>0. /\ buf \in Buffer /\ buf.left > 0 /\ buf.left \in Nat /\ buf.out \in Seq(Bytes)
        /\ job.flags \in Flags /\ job.str \in Strs /\ NoHalf(buf.out)
    BY StringAssumption DEF StrInv, BufInv, InBounds, Buffer
  <1>1. Top.op = "hold" /\ Rest = <<Write(job.str, 0, FALSE), Frame("release"), Frame("close")>>
    <2> DEFINE h == Frame("hold")
               w == Write(job.str, 0, FALSE)
               a == Frame("release")
               c == Frame("close")
    <2>1. stack = <<h, w, a, c>>
      BY DEF Holding
    <2>2. h.op = "hold"
      BY DEF Frame
    <2> HIDE DEF h, w, a, c
    <2>3. Top = h /\ Rest = <<w, a, c>>
      BY <2>1 DEF Top, Rest
    <2> QED
      BY <2>2, <2>3 DEF w, a, c
  <1>2. Hold
    BY <1>1, TopDecides
  <1>3. /\ buf' = [out |-> buf.out, left |-> buf.left, resv |-> buf.resv + 1]
        /\ buf' = Reserved(buf, 1) /\ job' = job /\ rv' = rv /\ stack' = Rest
    BY <1>2 DEF Hold, Reserved
  <1>4. buf.resv = 0 /\ job.quoted
    BY DEF Holding
  <1>5. BufNext
    BY <1>3, <1>4, StringAssumption DEF BufNext, Reserve
  <1>6. buf'.out = buf.out /\ buf'.left = buf.left /\ buf'.resv = 1 /\ Size(buf') = Size(buf)
    BY <1>3, <1>4 DEF Size
  <1>7. stack' = <<Write(job.str, 0, FALSE)>> \o Closing
    <2> DEFINE w == Write(job.str, 0, FALSE)
               a == Frame("release")
               c == Frame("close")
    <2>1. stack' = <<w, a, c>> /\ Closing = <<a, c>>
      BY <1>1, <1>3, <1>4 DEF Closing
    <2> HIDE DEF w, a, c
    <2>2. stack' = <<w>> \o Closing
      BY <2>1
    <2> QED
      BY <2>2 DEF w
  <1>8. Writing'
    <2> DEFINE w == Write(job.str, 0, FALSE)
    <2>1. w \in BodyFrame
      BY <1>0 DEF Write, BodyFrame, WriteFrame
    <2> HIDE DEF w
    <2>2. <<w>> \in Seq(BodyFrame)
      BY <2>1
    <2>3. Closing' = <<Frame("release"), Frame("close")>> /\ Held' = 1
      BY <1>3, <1>4 DEF Closing, Held
    <2>4. stack' = <<w>> \o Closing'
      BY <1>3, <1>7 DEF Closing, w
    <2>5. \E body \in Seq(BodyFrame') : stack' = body \o Closing'
      BY <2>2, <2>4 DEF BodyFrame, WriteFrame, SecondFrame, FreeFrame, RangeFrame
    <2>6. Begun' /\ (Size(buf') >= 3 => buf'.left > buf'.resv)
      BY <1>0, <1>6 DEF Holding, Begun
    <2> QED
      BY <1>6, <2>3, <2>5, <2>6 DEF Writing
  <1> QED
    BY <1>0, <1>3, <1>5, <1>6, <1>7, <1>8

LEMMA ReleaseStep ==
    ASSUME StrInv, SNext, Writing, stack = Closing
    PROVE  /\ job' = job /\ rv' = rv /\ BufNext /\ NoHalf(buf'.out)
           /\ buf' = Reserved(buf, -1)
           /\ Ending'
  <1>0. /\ buf \in Buffer /\ buf.left > 0 /\ buf.left \in Nat /\ buf.out \in Seq(Bytes)
        /\ job.flags \in Flags /\ job.str \in Strs /\ NoHalf(buf.out)
    BY StringAssumption DEF StrInv, BufInv, InBounds, Buffer
  <1>1. stack # <<>>
    BY TopDecides
  <1>2. job.quoted /\ stack = <<Frame("release"), Frame("close")>>
    BY <1>1 DEF Closing
  <1>3. Top.op = "release" /\ Rest = <<Frame("close")>>
    BY <1>2 DEF Top, Rest, Frame
  <1>4. ReleaseHeld
    BY <1>3, TopDecides
  <1>5. /\ buf' = [out |-> buf.out, left |-> buf.left, resv |-> buf.resv + (-1)]
        /\ buf' = Reserved(buf, -1) /\ job' = job /\ rv' = rv /\ stack' = Rest
    BY <1>4 DEF ReleaseHeld, Reserved
  <1>6. buf.resv = 1
    BY <1>2 DEF Writing, Held
  <1>7. BufNext
    BY <1>5, <1>6, StringAssumption DEF BufNext, Unreserve
  <1>8. buf'.out = buf.out /\ buf'.left = buf.left /\ buf'.resv = 0 /\ Size(buf') = Size(buf)
    BY <1>5, <1>6 DEF Size
  <1>9. Ending'
    BY <1>0, <1>2, <1>3, <1>5, <1>6, <1>8 DEF Ending, Writing, Begun
  <1> QED
    BY <1>0, <1>5, <1>7, <1>8, <1>9

LEMMA CloseStep ==
    ASSUME StrInv, SNext, Ending
    PROVE  /\ job' = job /\ rv' = rv /\ BufNext /\ NoHalf(buf'.out)
           /\ buf' = Appended(buf, "quote", job.flags)
           /\ Over'
  <1>0. /\ buf \in Buffer /\ buf.left > 0 /\ buf.left \in Nat /\ buf.out \in Seq(Bytes)
        /\ job.flags \in Flags /\ job.str \in Strs /\ NoHalf(buf.out)
    BY StringAssumption DEF StrInv, BufInv, InBounds, Buffer
  <1>1. Top.op = "close" /\ Rest = <<>>
    BY DEF Ending, Top, Rest, Frame
  <1>2. CloseQuote
    BY <1>1, TopDecides
  <1>3. buf' = Appended(buf, "quote", job.flags) /\ job' = job /\ rv' = rv /\ stack' = <<>>
    BY <1>1, <1>2 DEF CloseQuote
  <1>4. buf.resv = 0 /\ job.quoted
    BY DEF Ending
  <1>5. /\ BufNext /\ buf'.resv = 0 /\ Size(buf') = Size(buf) /\ NoHalf(buf'.out)
        /\ buf.out # <<>> => buf'.out # <<>> /\ buf'.out[1] = buf.out[1]
        /\ buf.left >= 2 => buf'.out = buf.out \o <<"quote">> /\ buf'.left = buf.left - 1
    BY <1>0, <1>3, <1>4, QuoteWritten
  <1>6. Begun'
    BY <1>5 DEF Ending, Begun
  <1>7. ASSUME Size(buf') >= 3 PROVE buf'.out[Len(buf'.out)] = "quote"
    <2>1. buf'.out = buf.out \o <<"quote">>
      BY <1>5, <1>7 DEF Ending
    <2>2. (buf.out \o <<"quote">>)[Len(buf.out \o <<"quote">>)] = "quote"
      BY <1>0
    <2> QED
      BY <2>1, <2>2
  <1>8. Over'
    BY <1>3, <1>4, <1>5, <1>6, <1>7 DEF Over
  <1> QED
    BY <1>3, <1>5, <1>8

(* The invariant is kept, and every step is one that StrBuf allows.        *)
LEMMA StrStep ==
    ASSUME StrInv, [SNext]_svars
    PROVE  StrInv' /\ [BufNext]_buf
  <1>0. /\ buf \in Buffer /\ buf.left > 0 /\ buf.left \in Nat /\ buf.out \in Seq(Bytes)
        /\ job \in [str : Roots, quoted : BOOLEAN, flags : Flags]
        /\ job.flags \in Flags /\ job.str \in Strs /\ rv \in {0, -1} /\ NoHalf(buf.out)
    BY StringAssumption DEF StrInv, BufInv, InBounds, Buffer
  <1>b. [BufNext]_buf => BufInv'
    BY BufStep DEF StrInv
  <1>1. CASE UNCHANGED svars
    <2>1. buf' = buf /\ job' = job /\ stack' = stack /\ rv' = rv
      BY <1>1 DEF svars
    <2>2. Shape' <=> Shape
      BY <2>1 DEF Shape, Opening, Holding, Writing, Ending, Over, Begun, Closing, Held,
                  BodyFrame, WriteFrame, SecondFrame, FreeFrame, RangeFrame
    <2>3. BufInv'
      BY <1>b, <2>1
    <2> QED
      BY <2>1, <2>2, <2>3 DEF StrInv
  <1>2. CASE SNext /\ Opening
    BY <1>0, <1>2, <1>b, OpenStep DEF StrInv, Shape
  <1>3. CASE SNext /\ Holding
    BY <1>0, <1>3, <1>b, HoldStep DEF StrInv, Shape
  <1>4. CASE SNext /\ Writing
    <2>1. PICK body \in Seq(BodyFrame) : stack = body \o Closing
      BY <1>4 DEF Writing
    <2>2. CASE body # <<>>
      <3>1. BodyStep /\ Writing'
        BY <1>4, <2>1, <2>2, WritingSteps
      <3>2. [BufNext]_buf /\ NoHalf(buf'.out)
        BY <3>1, BodyBuffer DEF BodyStep
      <3> QED
        BY <1>0, <1>b, <3>1, <3>2 DEF StrInv, Shape, BodyStep
    <2>3. CASE body = <<>>
      <3>1. stack = Closing /\ stack # <<>>
        <4>1. Closing \in Seq(BodyFrame \cup [op : {"release", "close"}])
          BY FramesTyped, <2>1
        <4>2. <<>> \o Closing = Closing
          BY <4>1, ConcatEmptySeq
        <4> QED
          BY <1>4, <2>1, <2>3, <4>2, TopDecides
      <3> QED
        BY <1>0, <1>4, <1>b, <3>1, ReleaseStep DEF StrInv, Shape
    <2> QED
      BY <2>2, <2>3
  <1>5. CASE SNext /\ Ending
    BY <1>0, <1>5, <1>b, CloseStep DEF StrInv, Shape
  <1>6. CASE SNext /\ Over
    BY <1>6, TopDecides DEF Over
  <1> QED
    BY <1>1, <1>2, <1>3, <1>4, <1>5, <1>6 DEF StrInv, Shape

LEMMA StrAlways == SSpec => []StrInv
  BY StrStart, StrStep, PTL DEF SSpec

(* v8string_write and everything under it uses its string buffer as a      *)
(* client of mdb_v8_strbuf.c may: what it reserves it can release, it      *)
(* never releases more, and it changes nothing but through the calls of    *)
(* StrBuf.                                                                 *)
THEOREM WriterIsClient == SSpec => ClientOfStrBuf
  <1>1. SInit => BufInit
    BY DEF SInit
  <1>2. StrInv /\ [SNext]_svars => [BufNext]_buf
    BY StrStep
  <1> QED
    BY <1>1, <1>2, StrAlways, PTL DEF SSpec, ClientOfStrBuf, BufSpec

(* What is proved of every client is true of this one: nothing is written  *)
(* past the buffer, and what is reserved for the closing quote is kept.    *)
THEOREM WriterInBounds == SSpec => []BufferSound /\ ReservationKept
  BY WriterIsClient, BufferAlwaysSound, ReservationsHold, PTL DEF ClientOfStrBuf

(* v8string_write, asked to quote, writes its two quotes whatever happens  *)
(* between them: strings that are damaged, too deep, too long or part of   *)
(* themselves; and no escape is cut in two, so that the last quote is not  *)
(* taken for a part of the string.                                         *)
THEOREM QuotedAlways == SSpec => []QuotedWhole
  <1>1. StrInv => QuotedWhole
    <2> SUFFICES ASSUME StrInv PROVE QuotedWhole
      OBVIOUS
    <2>1. EscapesWhole
      BY DEF StrInv, EscapesWhole, NoHalf
    <2>2. ASSUME Ended, job.quoted, Size(buf) >= 3
          PROVE  buf.out[1] = "quote" /\ buf.out[Len(buf.out)] = "quote"
      <3>1. Over
        <4>1. ~Opening /\ ~Holding /\ ~Ending
          BY <2>2 DEF Opening, Holding, Ending, Ended
        <4>2. ~Writing
          <5> SUFFICES ASSUME NEW body \in Seq(BodyFrame), stack = body \o Closing
                       PROVE  FALSE
            BY DEF Writing
          <5> DEFINE A == BodyFrame \cup [op : {"release", "close"}]
          <5>1. body \in Seq(A) /\ Closing \in Seq(A)
            BY FramesTyped
          <5> HIDE DEF A
          <5>2. Closing = <<>>
            <6>1. body \o Closing = <<>> <=> body = <<>> /\ Closing = <<>>
              BY <5>1, ConcatEqualIffEmpty
            <6> QED
              BY <2>2, <6>1 DEF Ended
          <5> QED
            BY <2>2, <5>2 DEF Closing
        <4> QED
          BY <4>1, <4>2 DEF StrInv, Shape
      <3> QED
        BY <2>2, <3>1 DEF Over, Begun
    <2> QED
      BY <2>1, <2>2 DEF QuotedWhole, QuotesMatch
  <1> QED
    BY <1>1, StrAlways, PTL

-----------------------------------------------------------------------------
(* Recursive functions.                                                    *)

\* joined in any order
LEMMA CharsReassociated == \A x, y, z \in Seq(Chars) : (x \o y) \o z = x \o (y \o z)
  BY ConcatAssociative

LEMMA BytesReassociated == \A x, y, z \in Seq(Bytes) : (x \o y) \o z = x \o (y \o z)
  BY ConcatAssociative

LEMMA Least ==
    ASSUME NEW T, T \subseteq Nat, T # {}
    PROVE  \E x \in T : \A y \in T : x <= y
  <1> DEFINE R == OpToRel(<, Nat)
  <1>1. IsWellFoundedOn(R, Nat)
    BY NatLessThanWellFounded
  <1>2. \A x, y \in Nat : y < x => <<y, x>> \in R
    BY DEF OpToRel
  <1> HIDE DEF R
  <1>3. PICK x \in T : \A y \in T : ~ (<<y, x>> \in R)
    BY <1>1, WFMin
  <1>4. \A y \in T : ~ (y < x)
    BY <1>2, <1>3, Zenon
  <1> QED
    BY <1>4

\* g takes the first n steps of a recursion from base
Steps(g, base, step, n) == g[0] = base /\ \A i \in 1..n : g[i] = step[i][g[i - 1]]

LEMMA StepsAgree ==
    ASSUME NEW base, NEW step, NEW n \in Nat,
           NEW g, Steps(g, base, step, n), NEW h, Steps(h, base, step, n),
           NEW i \in 0..n
    PROVE  g[i] = h[i]
  <1> DEFINE T == {j \in 0..n : g[j] # h[j]}
  <1> SUFFICES ASSUME T # {} PROVE FALSE
    OBVIOUS
  <1>0. T \subseteq Nat
    OBVIOUS
  <1>1. PICK j \in T : \A k \in T : j <= k
    BY <1>0, Least
  <1>2. j \in 0..n /\ g[j] # h[j]
    OBVIOUS
  <1>3. j # 0
    BY <1>2 DEF Steps
  <1>4. j \in 1..n /\ j - 1 \in 0..n /\ ~(j <= j - 1)
    BY <1>2, <1>3
  <1>5. g[j - 1] = h[j - 1]
    BY <1>1, <1>4
  <1> QED
    BY <1>2, <1>4, <1>5 DEF Steps

LEMMA StepsExist ==
    ASSUME NEW V, NEW base \in V, NEW step \in [Nat -> [V -> V]], NEW n \in Nat
    PROVE  \E g \in [Nat -> V] : Steps(g, base, step, n)
  <1> DEFINE T == {j \in Nat : ~ \E g \in [Nat -> V] : Steps(g, base, step, j)}
  <1> SUFFICES ASSUME T # {} PROVE FALSE
    OBVIOUS
  <1>0. T \subseteq Nat
    OBVIOUS
  <1>1. PICK j \in T : \A k \in T : j <= k
    BY <1>0, Least
  <1>2. j \in Nat /\ ~ \E g \in [Nat -> V] : Steps(g, base, step, j)
    OBVIOUS
  <1>3. CASE j = 0
    <2> DEFINE g == [i \in Nat |-> base]
    <2>1. g \in [Nat -> V] /\ Steps(g, base, step, 0)
      BY DEF Steps
    <2> QED
      BY <1>2, <1>3, <2>1
  <1>4. CASE j # 0
    <2>1. j - 1 \in Nat /\ ~(j <= j - 1)
      BY <1>2, <1>4
    <2>2. PICK g \in [Nat -> V] : Steps(g, base, step, j - 1)
      BY <1>1, <2>1
    <2> DEFINE h == [i \in Nat |-> IF i = j THEN step[j][g[j - 1]] ELSE g[i]]
    <2>3. h \in [Nat -> V]
      BY <1>2, <2>1
    <2>4. h[0] = base
      BY <1>4, <2>2 DEF Steps
    <2>5. ASSUME NEW i \in 1..j PROVE h[i] = step[i][h[i - 1]]
      <3>1. i \in Nat /\ i - 1 \in Nat /\ i - 1 # j
        BY <1>2
      <3>2. CASE i = j
        BY <3>1, <3>2
      <3>3. CASE i # j
        <4>1. i \in 1..(j - 1)
          BY <1>2, <3>3
        <4>2. g[i] = step[i][g[i - 1]]
          BY <2>2, <4>1 DEF Steps
        <4> QED
          BY <3>1, <3>3, <4>2
      <3> QED
        BY <3>2, <3>3
    <2> QED
      BY <1>2, <2>3, <2>4, <2>5 DEF Steps
  <1> QED
    BY <1>3, <1>4

(* A recursion over the natural numbers, whose steps are functions.        *)
LEMMA Recursion ==
    ASSUME NEW V, NEW base \in V, NEW step \in [Nat -> [V -> V]]
    PROVE  \E g \in [Nat -> V] :
              g[0] = base /\ \A n \in Nat : g[n + 1] = step[n + 1][g[n]]
  <1> DEFINE G(n) == CHOOSE g \in [Nat -> V] : Steps(g, base, step, n)
             g == [n \in Nat |-> G(n)[n]]
  <1>1. \A n \in Nat : G(n) \in [Nat -> V] /\ Steps(G(n), base, step, n)
    BY StepsExist
  <1> HIDE DEF G
  <1>2. g \in [Nat -> V]
    BY <1>1
  <1>3. g[0] = base
    BY <1>1 DEF Steps
  <1>4. ASSUME NEW n \in Nat PROVE g[n + 1] = step[n + 1][g[n]]
    <2>1. n + 1 \in Nat /\ n + 1 \in 1..(n + 1) /\ n \in 0..n /\ (n + 1) - 1 = n
      OBVIOUS
    <2>2. Steps(G(n), base, step, n) /\ Steps(G(n + 1), base, step, n + 1)
      BY <1>1, <2>1
    <2>3. Steps(G(n + 1), base, step, n)
      BY <2>2 DEF Steps
    <2>4. G(n + 1)[n] = G(n)[n]
      BY <2>1, <2>2, <2>3, StepsAgree
    <2>5. G(n + 1)[n + 1] = step[n + 1][G(n + 1)[n]]
      BY <2>1, <2>2 DEF Steps
    <2> QED
      BY <2>1, <2>4, <2>5
  <1> QED
    BY <1>2, <1>3, <1>4

(* A recursion over sequences, from the right to the left.                 *)
Recurs(F, S, e, f) ==
    F = [s \in Seq(S) |-> IF s = <<>> THEN e ELSE f[Head(s)][F[Tail(s)]]]

LEMMA SeqRecursion ==
    ASSUME NEW S, NEW V, NEW e \in V, NEW f \in [S -> [V -> V]]
    PROVE  \E F \in [Seq(S) -> V] : Recurs(F, S, e, f)
  <1> DEFINE W == [Seq(S) -> V]
             base == [s \in Seq(S) |-> e]
             From(g) == [s \in Seq(S) |-> IF s = <<>> THEN e ELSE f[Head(s)][g[Tail(s)]]]
             step == [n \in Nat |-> [g \in W |-> From(g)]]
  <1>1. base \in W
    OBVIOUS
  <1>2. ASSUME NEW g \in W PROVE From(g) \in W
    <2>1. ASSUME NEW s \in Seq(S), s # <<>>
          PROVE  f[Head(s)][g[Tail(s)]] \in V
      <3>1. Head(s) \in S /\ Tail(s) \in Seq(S)
        BY <2>1, HeadTailProperties
      <3>2. g[Tail(s)] \in V
        BY <3>1
      <3>3. f[Head(s)] \in [V -> V]
        BY <3>1
      <3> QED
        BY <3>2, <3>3
    <2> QED
      BY <2>1
  <1>3. step \in [Nat -> [W -> W]]
    <2> HIDE DEF W, From
    <2> QED
      BY <1>2
  <1>4. \A n \in Nat, g \in W : step[n][g] = From(g)
    <2> HIDE DEF W, From
    <2> QED
      OBVIOUS
  <1> HIDE DEF step
  <1>5. PICK G \in [Nat -> W] : G[0] = base /\ \A n \in Nat : G[n + 1] = step[n + 1][G[n]]
    <2> HIDE DEF W, base
    <2> QED
      BY <1>1, <1>3, Recursion
  <1>6. \A n \in Nat : G[n] \in W /\ G[n + 1] = From(G[n])
    <2> HIDE DEF W, base, From
    <2> QED
      BY <1>4, <1>5
  <1> DEFINE F == [s \in Seq(S) |-> G[Len(s)][s]]
  <1>7. ASSUME NEW s \in Seq(S)
        PROVE  F[s] = IF s = <<>> THEN e ELSE f[Head(s)][F[Tail(s)]]
    <2>1. CASE s = <<>>
      <3>1. Len(s) = 0
        BY <2>1
      <3>2. G[0][s] = e
        BY <1>5
      <3> QED
        BY <2>1, <3>1, <3>2
    <2>2. CASE s # <<>>
      <3>1. Tail(s) \in Seq(S) /\ Len(Tail(s)) \in Nat /\ Len(s) = Len(Tail(s)) + 1
        BY <2>2
      <3>2. G[Len(s)] = From(G[Len(Tail(s))])
        BY <1>6, <3>1
      <3>3. G[Len(s)][s] = f[Head(s)][G[Len(Tail(s))][Tail(s)]]
        BY <2>2, <3>2
      <3>4. F[Tail(s)] = G[Len(Tail(s))][Tail(s)]
        BY <3>1
      <3> QED
        BY <2>2, <3>3, <3>4
    <2> QED
      BY <2>1, <2>2
  <1>8. F \in W
    <2>1. ASSUME NEW s \in Seq(S) PROVE G[Len(s)][s] \in V
      <3>1. Len(s) \in Nat
        BY LenProperties
      <3>2. G[Len(s)] \in W
        BY <1>6, <3>1
      <3> QED
        BY <3>2
    <2> QED
      BY <2>1
  <1>9. F = [s \in Seq(S) |-> IF s = <<>> THEN e ELSE f[Head(s)][F[Tail(s)]]]
    <2> DEFINE H(s) == IF s = <<>> THEN e ELSE f[Head(s)][F[Tail(s)]]
    <2>1. \A s \in Seq(S) : F[s] = H(s)
      BY <1>7
    <2>2. F = [s \in Seq(S) |-> F[s]]
      BY <1>8
    <2> HIDE DEF F, H
    <2>3. F = [s \in Seq(S) |-> H(s)]
      BY <2>1, <2>2
    <2> QED
      BY <2>3 DEF H
  <1>10. Recurs(F, S, e, f)
    BY <1>9 DEF Recurs
  <1> HIDE DEF F
  <1> QED
    BY <1>8, <1>10

-----------------------------------------------------------------------------
(* A recursive definition by steps 0, ..., n is met by a function.         *)
LEMMA DepthRecursion ==
    ASSUME NEW V, NEW base \in V, NEW step \in [Nat -> [V -> V]], NEW n \in Nat
    PROVE  \E f \in [0..n -> V] : Steps(f, base, step, n)
  <1>1. PICK g \in [Nat -> V] : Steps(g, base, step, n)
    BY StepsExist
  <1> DEFINE f == [d \in 0..n |-> g[d]]
  <1>2. f \in [0..n -> V] /\ f[0] = base
    BY <1>1 DEF Steps
  <1>3. ASSUME NEW d \in 1..n PROVE f[d] = step[d][f[d - 1]]
    <2>1. d \in 0..n /\ d - 1 \in 0..n
      OBVIOUS
    <2>2. g[d] = step[d][g[d - 1]]
      BY <1>1 DEF Steps
    <2> QED
      BY <2>1, <2>2
  <1> HIDE DEF f
  <1> QED
    BY <1>2, <1>3 DEF Steps

(* What strings are sound.                                                 *)
SoundWith(f, d, s) ==
    IF Heap[s].rep # "cons" THEN Flat(s)
    ELSE d > 0 /\ \A p \in {Heap[s].p1, Heap[s].p2} : p # NULL /\ f[d - 1][p]

LEMMA SoundSteps ==
    /\ Sound = [d \in 0..MaxDepth |-> [s \in Strs |-> SoundWith(Sound, d, s)]]
    /\ \A d \in 0..MaxDepth, s \in Strs : Sound[d][s] <=> SoundWith(Sound, d, s)
  <1> DEFINE V == [Strs -> BOOLEAN]
             At(g, d) == [s \in Strs |->
                            IF Heap[s].rep # "cons" THEN Flat(s)
                            ELSE d > 0 /\ \A p \in {Heap[s].p1, Heap[s].p2} : p # NULL /\ g[p]]
             base == At([s \in Strs |-> FALSE], 0)
             step == [d \in Nat |-> [g \in V |-> At(g, d)]]
  <1>0. MaxDepth \in Nat
    BY StringAssumption
  <1>1. ASSUME NEW g, NEW d PROVE At(g, d) \in V
    <2>1. \A s \in Strs : Flat(s) \in BOOLEAN
      BY DEF Flat
    <2> QED
      BY <2>1
  <1>2. base \in V /\ step \in [Nat -> [V -> V]]
    <2> HIDE DEF V, At
    <2> QED
      BY <1>1
  <1>3. \A d \in Nat, g \in V : step[d][g] = At(g, d)
    <2> HIDE DEF V, At
    <2> QED
      OBVIOUS
  <1> HIDE DEF step
  <1>4. PICK f \in [0..MaxDepth -> V] : Steps(f, base, step, MaxDepth)
    <2> HIDE DEF V, base
    <2> QED
      BY <1>0, <1>2, DepthRecursion
  <1>5. ASSUME NEW d \in 0..MaxDepth
        PROVE  f[d] = [s \in Strs |-> SoundWith(f, d, s)]
    <2>1. CASE d = 0
      <3>1. f[d] = base
        <4> HIDE DEF V, base
        <4> QED
          BY <1>4, <2>1 DEF Steps
      <3>2. base = [s \in Strs |-> SoundWith(f, d, s)]
        BY <2>1 DEF SoundWith
      <3> QED
        BY <3>1, <3>2
    <2>2. CASE d # 0
      <3>1. d \in 1..MaxDepth /\ d \in Nat /\ d - 1 \in 0..MaxDepth
        BY <1>0, <2>2
      <3>2. f[d] = At(f[d - 1], d)
        <4> HIDE DEF V, base, At
        <4>1. f[d - 1] \in V
          BY <3>1
        <4> QED
          BY <1>3, <1>4, <2>2, <3>1, <4>1 DEF Steps
      <3> QED
        BY <3>2 DEF SoundWith
    <2> QED
      BY <2>1, <2>2
  <1>6. f = [d \in 0..MaxDepth |-> [s \in Strs |-> SoundWith(f, d, s)]]
    <2> DEFINE Row(d) == [s \in Strs |-> SoundWith(f, d, s)]
    <2>1. \A d \in 0..MaxDepth : f[d] = Row(d)
      BY <1>5
    <2>2. f = [d \in 0..MaxDepth |-> f[d]]
      OBVIOUS
    <2> HIDE DEF Row, V
    <2>3. f = [d \in 0..MaxDepth |-> Row(d)]
      BY <2>1, <2>2
    <2> QED
      BY <2>3 DEF Row
  <1>7. Sound = CHOOSE g : g = [d \in 0..MaxDepth |-> [s \in Strs |-> SoundWith(g, d, s)]]
    BY DEF Sound, SoundWith
  <1>8. Sound = [d \in 0..MaxDepth |-> [s \in Strs |-> SoundWith(Sound, d, s)]]
    BY <1>6, <1>7
  <1> DEFINE Row(d) == [s \in Strs |-> SoundWith(Sound, d, s)]
  <1>9. ASSUME NEW d \in 0..MaxDepth PROVE Sound[d] = Row(d)
    <2>1. Sound = [e \in 0..MaxDepth |-> Row(e)]
      BY <1>8
    <2> HIDE DEF Row
    <2> QED
      BY <2>1
  <1>10. \A d \in 0..MaxDepth, s \in Strs : Sound[d][s] <=> SoundWith(Sound, d, s)
    <2>1. \A d \in 0..MaxDepth, s \in Strs : Row(d)[s] = SoundWith(Sound, d, s)
      OBVIOUS
    <2> HIDE DEF Row
    <2> QED
      BY <1>9, <2>1
  <1> QED
    BY <1>8, <1>10

(* What characters they have.                                              *)
ContentWith(f, d, s) ==
    IF Heap[s].rep # "cons" THEN IF Flat(s) THEN FlatChars(s) ELSE <<>>
    ELSE IF d = 0 \/ NULL \in {Heap[s].p1, Heap[s].p2} THEN <<>>
    ELSE f[d - 1][Heap[s].p1] \o f[d - 1][Heap[s].p2]

LEMMA FlatCharsTyped ==
    ASSUME NEW s \in Strs, Flat(s)
    PROVE  FlatChars(s) \in Seq(Chars)
  <1>1. CASE Heap[s].rep # "sliced"
    BY <1>1, HeapTyped DEF FlatChars
  <1>2. CASE Heap[s].rep = "sliced"
    <2> DEFINE p == Heap[Heap[s].p1].chars
               n == Len(p)
               a == SliceFrom(Heap[s], n)
               b == SliceLength(Heap[s], n)
    <2>1. Heap[s].p1 \in Strs
      BY <1>2, HeapTyped DEF Flat, SeqParent
    <2>2. p \in Seq(Chars) /\ n \in Nat /\ \A i \in 1..n : p[i] \in Chars
      BY <2>1, HeapTyped
    <2>3. a \in Nat /\ b \in Nat /\ a + b <= n
      BY <2>2, SliceWithin
    <2>4. FlatChars(s) = SubSeq(p, a + 1, a + b)
      BY <1>2 DEF FlatChars
    <2> HIDE DEF p, n, a, b
    <2>5. SubSeq(p, a + 1, a + b) \in Seq(Chars)
      <3>1. a + 1 \in Int /\ a + b \in Int /\ \A i \in (a + 1)..(a + b) : p[i] \in Chars
        BY <2>2, <2>3
      <3> QED
        BY <3>1, SubSeqProperties
    <2> QED
      BY <2>4, <2>5
  <1> QED
    BY <1>1, <1>2

LEMMA ContentSteps ==
    \A d \in 0..MaxDepth, s \in Strs :
       /\ Content[d][s] = ContentWith(Content, d, s)
       /\ Content[d][s] \in Seq(Chars)
  <1> DEFINE V == [Strs -> Seq(Chars)]
             At(g, d) == [s \in Strs |->
                IF Heap[s].rep # "cons" THEN IF Flat(s) THEN FlatChars(s) ELSE <<>>
                ELSE IF d = 0 \/ NULL \in {Heap[s].p1, Heap[s].p2} THEN <<>>
                ELSE g[Heap[s].p1] \o g[Heap[s].p2]]
             base == At([s \in Strs |-> <<>>], 0)
             step == [d \in Nat |-> [g \in V |-> At(g, d)]]
  <1>0. MaxDepth \in Nat
    BY StringAssumption
  <1>1. ASSUME NEW g \in V, NEW d PROVE At(g, d) \in V
    <2>1. \A s \in Strs : Flat(s) => FlatChars(s) \in Seq(Chars)
      BY FlatCharsTyped
    <2>2. ASSUME NEW s \in Strs, NULL \notin {Heap[s].p1, Heap[s].p2}
          PROVE  g[Heap[s].p1] \o g[Heap[s].p2] \in Seq(Chars)
      <3>1. Heap[s].p1 \in Strs /\ Heap[s].p2 \in Strs
        BY <2>2, HeapTyped
      <3>2. g[Heap[s].p1] \in Seq(Chars) /\ g[Heap[s].p2] \in Seq(Chars)
        BY <3>1
      <3> QED
        BY <3>2, ConcatProperties
    <2>3. <<>> \in Seq(Chars)
      OBVIOUS
    <2> QED
      BY <2>1, <2>2, <2>3
  <1>2. base \in V /\ step \in [Nat -> [V -> V]]
    <2>1. [s \in Strs |-> <<>>] \in V
      OBVIOUS
    <2> HIDE DEF V, At
    <2> QED
      BY <1>1, <2>1
  <1>3. \A d \in Nat, g \in V : step[d][g] = At(g, d)
    <2> HIDE DEF V, At
    <2> QED
      OBVIOUS
  <1> HIDE DEF step
  <1>4. PICK f \in [0..MaxDepth -> V] : Steps(f, base, step, MaxDepth)
    <2> HIDE DEF V, base
    <2> QED
      BY <1>0, <1>2, DepthRecursion
  <1>5. ASSUME NEW d \in 0..MaxDepth
        PROVE  f[d] = [s \in Strs |-> ContentWith(f, d, s)]
    <2>1. CASE d = 0
      <3>1. f[d] = base
        <4> HIDE DEF V, base
        <4> QED
          BY <1>4, <2>1 DEF Steps
      <3>2. base = [s \in Strs |-> ContentWith(f, d, s)]
        BY <2>1 DEF ContentWith
      <3> QED
        BY <3>1, <3>2
    <2>2. CASE d # 0
      <3>1. d \in 1..MaxDepth /\ d \in Nat /\ d - 1 \in 0..MaxDepth
        BY <1>0, <2>2
      <3>2. f[d] = At(f[d - 1], d)
        <4> HIDE DEF V, base, At
        <4>1. f[d - 1] \in V
          BY <3>1
        <4> QED
          BY <1>3, <1>4, <2>2, <3>1, <4>1 DEF Steps
      <3> QED
        BY <3>2 DEF ContentWith
    <2> QED
      BY <2>1, <2>2
  <1>6. f = [d \in 0..MaxDepth |-> [s \in Strs |-> ContentWith(f, d, s)]]
    <2> DEFINE Row(d) == [s \in Strs |-> ContentWith(f, d, s)]
    <2>1. \A d \in 0..MaxDepth : f[d] = Row(d)
      BY <1>5
    <2>2. f = [d \in 0..MaxDepth |-> f[d]]
      OBVIOUS
    <2> HIDE DEF Row, V
    <2>3. f = [d \in 0..MaxDepth |-> Row(d)]
      BY <2>1, <2>2
    <2> QED
      BY <2>3 DEF Row
  <1>7. Content = CHOOSE g : g = [d \in 0..MaxDepth |-> [s \in Strs |-> ContentWith(g, d, s)]]
    BY DEF Content, ContentWith
  <1>8. Content = [d \in 0..MaxDepth |-> [s \in Strs |-> ContentWith(Content, d, s)]]
    BY <1>6, <1>7
  <1> DEFINE Row(d) == [s \in Strs |-> ContentWith(Content, d, s)]
  <1>9. \A d \in 0..MaxDepth, s \in Strs : Content[d][s] = ContentWith(Content, d, s)
    <2>1. \A d \in 0..MaxDepth, s \in Strs : Row(d)[s] = ContentWith(Content, d, s)
      OBVIOUS
    <2>2. Content = [e \in 0..MaxDepth |-> Row(e)]
      BY <1>8
    <2> HIDE DEF Row
    <2>3. \A d \in 0..MaxDepth : Content[d] = Row(d)
      BY <2>2
    <2> QED
      BY <2>1, <2>3
  <1> DEFINE T == {d \in 0..MaxDepth : ~ \A s \in Strs : Content[d][s] \in Seq(Chars)}
  <1>10. ASSUME T # {} PROVE FALSE
    <2>1. T \subseteq Nat
      OBVIOUS
    <2>2. PICK d \in T : \A k \in T : d <= k
      BY <1>10, <2>1, Least
    <2>3. d \in 0..MaxDepth
      OBVIOUS
    <2>4. ASSUME NEW s \in Strs PROVE Content[d][s] \in Seq(Chars)
      <3>1. CASE Heap[s].rep # "cons" \/ d = 0 \/ NULL \in {Heap[s].p1, Heap[s].p2}
        <4>1. Content[d][s] = <<>> \/ (Flat(s) /\ Content[d][s] = FlatChars(s))
          BY <1>9, <2>3, <3>1 DEF ContentWith
        <4>2. <<>> \in Seq(Chars)
          OBVIOUS
        <4> QED
          BY <4>1, <4>2, FlatCharsTyped
      <3>2. CASE Heap[s].rep = "cons" /\ d # 0 /\ NULL \notin {Heap[s].p1, Heap[s].p2}
        <4>1. d - 1 \in 0..MaxDepth /\ ~(d <= d - 1)
          BY <1>0, <2>3, <3>2
        <4>2. d - 1 \notin T
          BY <2>2, <4>1
        <4>3. Heap[s].p1 \in Strs /\ Heap[s].p2 \in Strs
          BY <3>2, HeapTyped
        <4>4. Content[d - 1][Heap[s].p1] \in Seq(Chars) /\ Content[d - 1][Heap[s].p2] \in Seq(Chars)
          BY <4>1, <4>2, <4>3
        <4>5. Content[d][s] = Content[d - 1][Heap[s].p1] \o Content[d - 1][Heap[s].p2]
          BY <1>9, <2>3, <3>2 DEF ContentWith
        <4> QED
          BY <4>4, <4>5, ConcatProperties
      <3> QED
        BY <3>1, <3>2
    <2> QED
      BY <2>4
  <1> QED
    BY <1>9, <1>10

-----------------------------------------------------------------------------
(* What is made of the elements of a sequence, joined.                     *)
Joins(F, S, h) ==
    F = [s \in Seq(S) |-> IF s = <<>> THEN <<>> ELSE h[Head(s)] \o F[Tail(s)]]

LEMMA JoinsExist ==
    ASSUME NEW S, NEW B, NEW h \in [S -> Seq(B)]
    PROVE  \E F : Joins(F, S, h)
  <1> DEFINE V == Seq(B)
             f == [c \in S |-> [v \in V |-> h[c] \o v]]
  <1>1. f \in [S -> [V -> V]]
    <2>1. ASSUME NEW c \in S, NEW v \in V PROVE h[c] \o v \in V
      <3>1. h[c] \in Seq(B)
        OBVIOUS
      <3> QED
        BY <3>1, ConcatProperties
    <2> HIDE DEF V
    <2> QED
      BY <2>1
  <1>2. \A c \in S, v \in V : f[c][v] = h[c] \o v
    <2> HIDE DEF V
    <2> QED
      OBVIOUS
  <1>3. <<>> \in V
    OBVIOUS
  <1> HIDE DEF V, f
  <1>4. PICK F \in [Seq(S) -> V] : Recurs(F, S, <<>>, f)
    BY <1>1, <1>3, SeqRecursion
  <1>5. ASSUME NEW s \in Seq(S)
        PROVE  F[s] = IF s = <<>> THEN <<>> ELSE h[Head(s)] \o F[Tail(s)]
    <2>1. F[s] = IF s = <<>> THEN <<>> ELSE f[Head(s)][F[Tail(s)]]
      BY <1>4 DEF Recurs
    <2>2. s # <<>> => Head(s) \in S /\ Tail(s) \in Seq(S)
      BY HeadTailProperties
    <2>3. s # <<>> => F[Tail(s)] \in V
      BY <2>2
    <2> QED
      BY <1>2, <2>1, <2>2, <2>3
  <1> DEFINE H(s) == IF s = <<>> THEN <<>> ELSE h[Head(s)] \o F[Tail(s)]
  <1>6. \A s \in Seq(S) : F[s] = H(s)
    BY <1>5
  <1> HIDE DEF H
  <1>7. F = [s \in Seq(S) |-> H(s)]
    BY <1>6
  <1> QED
    BY <1>7 DEF H, Joins

LEMMA JoinsSteps ==
    ASSUME NEW S, NEW B, NEW h \in [S -> Seq(B)], NEW F, Joins(F, S, h)
    PROVE  /\ F[<<>>] = <<>>
           /\ \A s \in Seq(S) : s # <<>> => F[s] = h[Head(s)] \o F[Tail(s)]
           /\ \A s \in Seq(S) : F[s] \in Seq(B)
  <1> DEFINE H(s) == IF s = <<>> THEN <<>> ELSE h[Head(s)] \o F[Tail(s)]
  <1>1. \A s \in Seq(S) : F[s] = H(s)
    <2>1. F = [s \in Seq(S) |-> H(s)]
      BY DEF Joins
    <2> HIDE DEF H
    <2> QED
      BY <2>1
  <1>2. F[<<>>] = <<>>
    <2>1. <<>> \in Seq(S)
      OBVIOUS
    <2> QED
      BY <1>1, <2>1
  <1>3. \A s \in Seq(S) : s # <<>> => F[s] = h[Head(s)] \o F[Tail(s)]
    BY <1>1
  <1> DEFINE T == {n \in Nat : \E s \in Seq(S) : Len(s) = n /\ F[s] \notin Seq(B)}
  <1>4. ASSUME T # {} PROVE FALSE
    <2>1. T \subseteq Nat
      OBVIOUS
    <2>2. PICK n \in T : \A k \in T : n <= k
      BY <1>4, <2>1, Least
    <2>3. PICK s \in Seq(S) : Len(s) = n /\ F[s] \notin Seq(B)
      OBVIOUS
    <2>4. s # <<>>
      <3>1. <<>> \in Seq(B)
        OBVIOUS
      <3> QED
        BY <1>2, <2>3, <3>1
    <2>5. /\ Tail(s) \in Seq(S) /\ Head(s) \in S
          /\ Len(Tail(s)) \in Nat /\ Len(Tail(s)) = n - 1 /\ n \in Nat
      BY <2>3, <2>4
    <2>6. Len(Tail(s)) \notin T
      <3>1. ~(n <= n - 1)
        BY <2>5
      <3> QED
        BY <2>2, <2>5, <3>1
    <2>7. F[Tail(s)] \in Seq(B)
      BY <2>5, <2>6
    <2>8. h[Head(s)] \in Seq(B)
      BY <2>5
    <2>9. h[Head(s)] \o F[Tail(s)] \in Seq(B)
      BY <2>7, <2>8, ConcatProperties
    <2> QED
      BY <1>3, <2>3, <2>4, <2>9
  <1>5. \A s \in Seq(S) : F[s] \in Seq(B)
    <2>1. \A s \in Seq(S) : Len(s) \in Nat
      BY LenProperties
    <2> QED
      BY <1>4, <2>1
  <1> HIDE DEF H, T
  <1> QED
    BY <1>2, <1>3, <1>5

Joined(F, S, B, h) ==
    /\ F[<<>>] = <<>>
    /\ \A s \in Seq(S) : F[s] \in Seq(B)
    /\ \A c \in S : F[<<c>>] = h[c]
    /\ \A c \in S, s \in Seq(S) : F[<<c>> \o s] = h[c] \o F[s]
    /\ \A s, t \in Seq(S) : F[s \o t] = F[s] \o F[t]

LEMMA JoinsFacts ==
    ASSUME NEW S, NEW B, NEW h \in [S -> Seq(B)], NEW F, Joins(F, S, h)
    PROVE  Joined(F, S, B, h)
  <1>1. /\ F[<<>>] = <<>>
        /\ \A s \in Seq(S) : s # <<>> => F[s] = h[Head(s)] \o F[Tail(s)]
        /\ \A s \in Seq(S) : F[s] \in Seq(B)
    BY JoinsSteps
  <1>2. ASSUME NEW c \in S, NEW s \in Seq(S)
        PROVE  F[<<c>> \o s] = h[c] \o F[s]
    <2>1. /\ <<c>> \o s \in Seq(S) /\ <<c>> \o s # <<>>
          /\ Head(<<c>> \o s) = c /\ Tail(<<c>> \o s) = s
      OBVIOUS
    <2> QED
      BY <1>1, <2>1
  <1>3. ASSUME NEW c \in S PROVE F[<<c>>] = h[c]
    <2>1. <<c>> \in Seq(S) /\ <<c>> # <<>> /\ Head(<<c>>) = c /\ Tail(<<c>>) = <<>>
      OBVIOUS
    <2>2. h[c] \o <<>> = h[c]
      <3>1. h[c] \in Seq(B)
        OBVIOUS
      <3> QED
        BY <3>1, ConcatEmptySeq
    <2> QED
      BY <1>1, <2>1, <2>2
  <1> DEFINE T == {n \in Nat : \E s, t \in Seq(S) : Len(s) = n /\ F[s \o t] # F[s] \o F[t]}
  <1>4. ASSUME T # {} PROVE FALSE
    <2>1. T \subseteq Nat
      OBVIOUS
    <2>2. PICK n \in T : \A k \in T : n <= k
      BY <1>4, <2>1, Least
    <2>3. PICK s \in Seq(S), t \in Seq(S) : Len(s) = n /\ F[s \o t] # F[s] \o F[t]
      OBVIOUS
    <2>4. F[s] \in Seq(B) /\ F[t] \in Seq(B)
      BY <1>1
    <2>5. CASE s = <<>>
      <3>1. s \o t = t /\ F[s] \o F[t] = F[t]
        BY <1>1, <2>4, <2>5, ConcatEmptySeq
      <3> QED
        BY <2>3, <3>1
    <2>6. CASE s # <<>>
      <3> DEFINE c == Head(s)
                 u == Tail(s)
      <3>1. /\ u \in Seq(S) /\ c \in S /\ s = <<c>> \o u
            /\ Len(u) \in Nat /\ Len(u) = n - 1 /\ n \in Nat
        BY <2>3, <2>6
      <3> HIDE DEF c, u
      <3>2. Len(u) \notin T
        <4>1. ~(n <= n - 1)
          BY <3>1
        <4> QED
          BY <2>2, <3>1, <4>1
      <3>3. F[u \o t] = F[u] \o F[t]
        BY <3>1, <3>2
      <3>4. <<c>> \in Seq(S)
        BY <3>1
      <3>5. s \o t = <<c>> \o (u \o t) /\ u \o t \in Seq(S)
        BY <3>1, <3>4, ConcatAssociative, ConcatProperties
      <3>6. F[s \o t] = h[c] \o F[u \o t] /\ F[s] = h[c] \o F[u]
        BY <1>2, <3>1, <3>5
      <3>7. h[c] \in Seq(B) /\ F[u] \in Seq(B)
        BY <1>1, <3>1
      <3>8. h[c] \o (F[u] \o F[t]) = (h[c] \o F[u]) \o F[t]
        <4> HIDE DEF T
        <4>1. ASSUME NEW x \in Seq(B), NEW y \in Seq(B), NEW z \in Seq(B)
              PROVE  x \o (y \o z) = (x \o y) \o z
          OBVIOUS
        <4> QED
          BY <2>4, <3>7, <4>1, Zenon
      <3> QED
        BY <2>3, <3>3, <3>6, <3>8
    <2> QED
      BY <2>5, <2>6
  <1>5. \A s, t \in Seq(S) : F[s \o t] = F[s] \o F[t]
    <2>1. \A s \in Seq(S) : Len(s) \in Nat
      BY LenProperties
    <2> QED
      BY <1>4, <2>1
  <1> HIDE DEF T
  <1> QED
    BY <1>1, <1>2, <1>3, <1>5 DEF Joined

\* how appendc writes each character
Escapes(f) == [c \in Chars |-> Escaped(c, f)]

Rendering(f) ==
    CHOOSE g : g = [l \in Seq(Chars) |->
                      IF l = <<>> THEN <<>> ELSE Escaped(Head(l), f) \o g[Tail(l)]]

LEMMA RenderedIs ==
    ASSUME job.flags \in Flags
    PROVE  Rendered = Rendering(job.flags)
  BY DEF Rendered, Rendering

LEMMA RenderingFacts ==
    ASSUME NEW f \in Flags
    PROVE  /\ Rendering(f)[<<>>] = <<>>
           /\ \A l \in Seq(Chars) : Rendering(f)[l] \in Seq(Bytes)
           /\ \A l \in Seq(Chars), c \in Chars :
                 Rendering(f)[l \o <<c>>] = Rendering(f)[l] \o Escaped(c, f)
  <1>1. Escapes(f) \in [Chars -> Seq(Bytes)]
    <2>1. \A c \in Chars : Escaped(c, f) \in Seq(Bytes)
      BY EscapeSize
    <2> QED
      BY <2>1 DEF Escapes
  <1>2. \A c \in Chars : Escapes(f)[c] = Escaped(c, f)
    BY DEF Escapes
  <1> DEFINE R(g, l) == IF l = <<>> THEN <<>> ELSE Escaped(Head(l), f) \o g[Tail(l)]
             J(g, l) == IF l = <<>> THEN <<>> ELSE Escapes(f)[Head(l)] \o g[Tail(l)]
  <1>3. ASSUME NEW g, NEW l \in Seq(Chars) PROVE R(g, l) = J(g, l)
    <2>1. l # <<>> => Head(l) \in Chars
      BY HeadTailProperties
    <2> QED
      BY <1>2, <2>1
  <1>4. \A g : Joins(g, Chars, Escapes(f)) <=> g = [l \in Seq(Chars) |-> J(g, l)]
    BY DEF Joins
  <1>5. Rendering(f) = CHOOSE g : g = [l \in Seq(Chars) |-> R(g, l)]
    BY DEF Rendering
  <1> HIDE DEF R, J
  <1>6. PICK g : g = [l \in Seq(Chars) |-> J(g, l)]
    BY <1>1, <1>4, JoinsExist
  <1>7. g = [l \in Seq(Chars) |-> R(g, l)]
    BY <1>3, <1>6
  <1>8. Rendering(f) = [l \in Seq(Chars) |-> R(Rendering(f), l)]
    BY <1>5, <1>7
  <1>9. Joins(Rendering(f), Chars, Escapes(f))
    BY <1>3, <1>4, <1>8
  <1>10. /\ Rendering(f)[<<>>] = <<>>
         /\ \A l \in Seq(Chars) : Rendering(f)[l] \in Seq(Bytes)
         /\ \A c \in Chars : Rendering(f)[<<c>>] = Escapes(f)[c]
         /\ \A l, t \in Seq(Chars) : Rendering(f)[l \o t] = Rendering(f)[l] \o Rendering(f)[t]
    <2>1. Joined(Rendering(f), Chars, Bytes, Escapes(f))
      BY <1>1, <1>9, JoinsFacts
    <2> QED
      BY <2>1 DEF Joined
  <1>11. \A c \in Chars : <<c>> \in Seq(Chars)
    OBVIOUS
  <1> QED
    BY <1>2, <1>10, <1>11

-----------------------------------------------------------------------------
(* What is counted.                                                        *)

LEMMA DisjointUnion ==
    ASSUME NEW S, NEW T, IsFiniteSet(S), IsFiniteSet(T), S \cap T = {}
    PROVE  Cardinality(S \cup T) = Cardinality(S) + Cardinality(T)
  <1> DEFINE U == S \cup T
             X == S \cap T
  <1>1. Cardinality(U) = Cardinality(S) + Cardinality(T) - Cardinality(X)
    BY FS_Union
  <1>2. X = {}
    OBVIOUS
  <1> HIDE DEF U, X
  <1>3. Cardinality(X) = 0 /\ Cardinality(S) \in Nat /\ Cardinality(T) \in Nat
    BY <1>2, FS_EmptySet, FS_CardinalityType
  <1>4. Cardinality(U) = Cardinality(S) + Cardinality(T)
    BY <1>1, <1>3
  <1> QED
    BY <1>4 DEF U

LEMMA RowSize ==
    ASSUME NEW k, NEW m \in Nat
    PROVE  IsFiniteSet({k} \X (1..m)) /\ Cardinality({k} \X (1..m)) = m
  <1>1. IsFiniteSet(1..m) /\ Cardinality(1..m) = m
    BY FS_Interval
  <1>2. IsFiniteSet({k}) /\ Cardinality({k}) = 1
    BY FS_Singleton
  <1>3. IsFiniteSet({k} \X (1..m)) /\ Cardinality({k} \X (1..m)) = 1 * m
    BY <1>1, <1>2, FS_Product, ZenonT(40)
  <1> QED
    BY <1>3

\* n[k] cells in each row k \in i..j
Area(n, i, j) == Cardinality(UNION {{k} \X (1..n[k]) : k \in i..j})

LEMMA AreaFinite ==
    ASSUME NEW n \in [Nat -> Nat], NEW i \in Nat, NEW j \in Int
    PROVE  IsFiniteSet(UNION {{k} \X (1..n[k]) : k \in i..j}) /\ Area(n, i, j) \in Nat
  <1> DEFINE Row(k) == {k} \X (1..n[k])
             Rows == {Row(k) : k \in i..j}
  <1>1. \A k \in i..j : IsFiniteSet(Row(k))
    <2>1. \A k \in i..j : n[k] \in Nat
      OBVIOUS
    <2> QED
      BY <2>1, RowSize
  <1>2. IsFiniteSet(Rows)
    <2>1. IsFiniteSet(i..j)
      BY FS_Interval
    <2> HIDE DEF Row
    <2> DEFINE f == [k \in i..j |-> Row(k)]
    <2>2. f \in Surjection(i..j, Rows)
      BY DEF Surjection
    <2> QED
      BY <2>1, <2>2, FS_Surjection
  <1>3. IsFiniteSet(UNION Rows)
    <2>1. \A T \in Rows : IsFiniteSet(T)
      BY <1>1
    <2> QED
      BY <1>2, <2>1, FS_UNION
  <1>4. Area(n, i, j) = Cardinality(UNION Rows)
    BY DEF Area
  <1>5. Cardinality(UNION Rows) \in Nat
    BY <1>3, FS_CardinalityType
  <1> QED
    BY <1>3, <1>4, <1>5

LEMMA AreaSteps ==
    ASSUME NEW n \in [Nat -> Nat], NEW i \in Nat, NEW j \in Int
    PROVE  /\ i > j => Area(n, i, j) = 0
           /\ i <= j + 1 => Area(n, i, j + 1) = Area(n, i, j) + n[j + 1]
  <1> DEFINE Row(k) == {k} \X (1..n[k])
             All(l) == UNION {Row(k) : k \in i..l}
  <1>1. ASSUME i > j PROVE Area(n, i, j) = 0
    <2>1. i..j = {}
      BY <1>1
    <2>2. UNION {Row(k) : k \in i..j} = {}
      BY <2>1
    <2> QED
      BY <2>2, FS_EmptySet DEF Area
  <1>2. ASSUME i <= j + 1 PROVE Area(n, i, j + 1) = Area(n, i, j) + n[j + 1]
    <2> DEFINE R == Row(j + 1)
    <2>1. j + 1 \in Nat /\ n[j + 1] \in Nat /\ j + 1 \in i..(j + 1)
      BY <1>2
    <2>2. IsFiniteSet(R) /\ Cardinality(R) = n[j + 1]
      BY <2>1, RowSize
    <2>3. IsFiniteSet(All(j)) /\ Area(n, i, j) = Cardinality(All(j)) /\ Area(n, i, j) \in Nat
      BY AreaFinite DEF Area
    <2>4. Area(n, i, j + 1) = Cardinality(All(j + 1))
      BY DEF Area
    <2>5. \A k \in Int : k \in i..(j + 1) <=> k \in i..j \/ k = j + 1
      BY <1>2
    <2>6. All(j + 1) = All(j) \cup R
      <3> HIDE DEF Row
      <3>1. i..(j + 1) = (i..j) \cup {j + 1}
        BY <1>2
      <3> QED
        BY <3>1
    <2>7. All(j) \cap R = {}
      <3>1. ASSUME NEW x, x \in All(j), x \in R PROVE FALSE
        <4>1. PICK k \in i..j : x \in {k} \X (1..n[k])
          BY <3>1
        <4>2. x[1] = k /\ x[1] = j + 1
          BY <3>1, <4>1
        <4> QED
          BY <4>2
      <3> QED
        BY <3>1
    <2> HIDE DEF All, R
    <2>8. Cardinality(All(j) \cup R) = Cardinality(All(j)) + Cardinality(R)
      BY <2>2, <2>3, <2>7, DisjointUnion
    <2> QED
      BY <2>2, <2>3, <2>4, <2>6, <2>8, Zenon
  <1> QED
    BY <1>1, <1>2

\* the bytes that are counted for characters
Cost(l, f) == Cardinality(UNION {{k} \X (1..NBytesForChar(l[k], f)) : k \in DOMAIN l})

LEMMA CostIsArea ==
    ASSUME NEW l \in Seq(Chars), NEW f, NEW n \in [Nat -> Nat],
           \A k \in 1..Len(l) : n[k] = NBytesForChar(l[k], f)
    PROVE  Cost(l, f) = Area(n, 1, Len(l))
  <1>1. DOMAIN l = 1..Len(l)
    BY LenProperties
  <1>2. {{k} \X (1..NBytesForChar(l[k], f)) : k \in 1..Len(l)} = {{k} \X (1..n[k]) : k \in 1..Len(l)}
    OBVIOUS
  <1> QED
    BY <1>1, <1>2 DEF Cost, Area

LEMMA CostSteps ==
    ASSUME NEW f
    PROVE  /\ Cost(<<>>, f) = 0
           /\ \A l \in Seq(Chars) : Cost(l, f) \in Nat
           /\ \A l \in Seq(Chars), c \in Chars :
                 Cost(l \o <<c>>, f) = Cost(l, f) + NBytesForChar(c, f)
  <1> DEFINE NB(l) == [k \in Nat |-> NBytesForChar(l[k], f)]
  <1>1. \A l : NB(l) \in [Nat -> Nat] /\ \A k \in Nat : NB(l)[k] = NBytesForChar(l[k], f)
    BY DEF NBytesForChar
  <1> HIDE DEF NB
  <1>2. \A l \in Seq(Chars) : Len(l) \in Nat
    BY LenProperties
  <1>3. ASSUME NEW l \in Seq(Chars)
        PROVE  Cost(l, f) = Area(NB(l), 1, Len(l))
    <2>1. \A k \in 1..Len(l) : NB(l)[k] = NBytesForChar(l[k], f)
      BY <1>1, <1>2
    <2> QED
      BY <1>1, <2>1, CostIsArea
  <1>4. Cost(<<>>, f) = 0
    <2>1. <<>> \in Seq(Chars) /\ Len(<<>>) = 0
      OBVIOUS
    <2>2. Area(NB(<<>>), 1, 0) = 0
      BY <1>1, AreaSteps
    <2> QED
      BY <1>3, <2>1, <2>2
  <1>5. \A l \in Seq(Chars) : Cost(l, f) \in Nat
    <2> SUFFICES ASSUME NEW l \in Seq(Chars) PROVE Cost(l, f) \in Nat
      OBVIOUS
    <2>1. NB(l) \in [Nat -> Nat] /\ 1 \in Nat /\ Len(l) \in Int
      BY <1>1, <1>2
    <2>2. Area(NB(l), 1, Len(l)) \in Nat
      BY <2>1, AreaFinite
    <2> QED
      BY <1>3, <2>2
  <1>6. ASSUME NEW l \in Seq(Chars), NEW c \in Chars
        PROVE  Cost(l \o <<c>>, f) = Cost(l, f) + NBytesForChar(c, f)
    <2> DEFINE u == l \o <<c>>
               n == Len(l)
    <2>1. /\ u \in Seq(Chars) /\ Len(u) = n + 1 /\ u[n + 1] = c
          /\ \A k \in 1..n : u[k] = l[k]
      OBVIOUS
    <2>2. n \in Nat
      BY <1>2
    <2> HIDE DEF u, n
    <2>3. Cost(u, f) = Area(NB(u), 1, n + 1)
      BY <1>3, <2>1
    <2>4. Cost(l, f) = Area(NB(u), 1, n)
      <3>1. \A k \in 1..n : NB(u)[k] = NBytesForChar(l[k], f)
        <4> SUFFICES ASSUME NEW k \in 1..n PROVE NB(u)[k] = NBytesForChar(l[k], f)
          OBVIOUS
        <4>1. k \in Nat
          BY <2>2
        <4>2. NB(u)[k] = NBytesForChar(u[k], f)
          BY <1>1, <4>1, Zenon
        <4> QED
          BY <2>1, <4>2
      <3> QED
        BY <1>1, <3>1, CostIsArea DEF n
    <2>5. Area(NB(u), 1, n + 1) = Area(NB(u), 1, n) + NB(u)[n + 1]
      <3>1. NB(u) \in [Nat -> Nat] /\ 1 \in Nat /\ n \in Int /\ 1 <= n + 1
        BY <1>1, <2>2
      <3> QED
        BY <3>1, AreaSteps
    <2>6. NB(u)[n + 1] = NBytesForChar(c, f)
      <3>1. n + 1 \in Nat
        BY <2>2
      <3>2. NB(u)[n + 1] = NBytesForChar(u[n + 1], f)
        BY <1>1, <3>1, Zenon
      <3> QED
        BY <2>1, <3>2
    <2> QED
      BY <2>3, <2>4, <2>5, <2>6 DEF u
  <1> QED
    BY <1>4, <1>5, <1>6

LEMMA CostConcat ==
    ASSUME NEW f, NEW s \in Seq(Chars), NEW t \in Seq(Chars)
    PROVE  Cost(s \o t, f) = Cost(s, f) + Cost(t, f)
  <1> DEFINE T == {n \in Nat : \E l \in Seq(Chars) :
                                  Len(l) = n /\ Cost(s \o l, f) # Cost(s, f) + Cost(l, f)}
  <1>0. \A l \in Seq(Chars) : Len(l) \in Nat
    BY LenProperties
  <1>1. ASSUME T # {} PROVE FALSE
    <2>1. T \subseteq Nat
      OBVIOUS
    <2>2. PICK n \in T : \A k \in T : n <= k
      BY <1>1, <2>1, Least
    <2>3. PICK l \in Seq(Chars) : Len(l) = n /\ Cost(s \o l, f) # Cost(s, f) + Cost(l, f)
      OBVIOUS
    <2>4. CASE l = <<>>
      <3>1. s \o l = s /\ Cost(l, f) = 0 /\ Cost(s, f) \in Nat
        BY <2>4, ConcatEmptySeq, CostSteps
      <3> QED
        BY <2>3, <3>1
    <2>5. CASE l # <<>>
      <3>1. PICK u \in Seq(Chars), c \in Chars : l = Append(u, c)
        BY <2>5, SequenceEmptyOrAppend
      <3>2. l = u \o <<c>> /\ Len(u) \in Nat /\ n = Len(u) + 1
        BY <2>3, <3>1, AppendIsConcat, AppendProperties
      <3>3. Len(u) \notin T
        <4>1. ~(n <= Len(u))
          BY <3>2
        <4> QED
          BY <2>2, <4>1
      <3>4. Cost(s \o u, f) = Cost(s, f) + Cost(u, f)
        BY <3>2, <3>3
      <3>5. <<c>> \in Seq(Chars) /\ s \o u \in Seq(Chars)
        BY ConcatProperties
      <3>6. s \o l = (s \o u) \o <<c>>
        <4>1. (s \o u) \o <<c>> = s \o (u \o <<c>>)
          BY <3>1, <3>5, CharsReassociated, SMTT(30)
        <4> QED
          BY <3>2, <4>1, Zenon
      <3>7. /\ Cost((s \o u) \o <<c>>, f) = Cost(s \o u, f) + NBytesForChar(c, f)
            /\ Cost(u \o <<c>>, f) = Cost(u, f) + NBytesForChar(c, f)
            /\ Cost(s, f) \in Nat /\ Cost(u, f) \in Nat
        BY <3>5, CostSteps
      <3>8. NBytesForChar(c, f) \in Nat
        BY DEF NBytesForChar
      <3>9. Cost(l, f) = Cost(u, f) + NBytesForChar(c, f)
        BY <3>2, <3>7
      <3>10. Cost(s \o l, f) = (Cost(s, f) + Cost(u, f)) + NBytesForChar(c, f)
        BY <3>4, <3>6, <3>7
      <3>11. ASSUME NEW x \in Nat, NEW y \in Nat, NEW z \in Nat PROVE (x + y) + z = x + (y + z)
        OBVIOUS
      <3> QED
        <4>1. (Cost(s, f) + Cost(u, f)) + NBytesForChar(c, f)
                 = Cost(s, f) + (Cost(u, f) + NBytesForChar(c, f))
          BY <3>7, <3>8, <3>11, Zenon
        <4>2. Cost(s \o l, f) = Cost(s, f) + Cost(l, f)
          BY <3>9, <3>10, <4>1, Zenon
        <4> QED
          BY <2>3, <4>2, Zenon
    <2> QED
      BY <2>4, <2>5
  <1> QED
    BY <1>0, <1>1

(* v8string_write_sizecheck counts what the characters take.               *)
LEMMA CountedIsCost ==
    ASSUME Top.str \in Strs, Top.from \in Nat,
           NEW i \in Nat \ {0}, NEW j \in Nat, i <= j + 1,
           Top.from + j <= Len(Heap[Top.str].chars)
    PROVE  Counted(i, j) = Cost(SubSeq(Heap[Top.str].chars, Top.from + i, Top.from + j), job.flags)
  <1> DEFINE s == Heap[Top.str].chars
             a == Top.from
             f == job.flags
             n == [k \in Nat |-> NBytesForChar(Char(Top, k), f)]
  <1>0. s \in Seq(Chars) /\ Len(s) \in Nat /\ a \in Nat
    BY HeapTyped
  <1>1. n \in [Nat -> Nat] /\ \A k \in Nat : n[k] = NBytesForChar(s[a + k], f)
    BY DEF NBytesForChar, Char
  <1>2. ASSUME NEW m \in Nat PROVE Counted(i, m) = Area(n, i, m)
    <2>1. \A k \in i..m : n[k] = NBytesForChar(Char(Top, k), f)
      OBVIOUS
    <2> HIDE DEF n
    <2>2. {{k} \X (1..NBytesForChar(Char(Top, k), f)) : k \in i..m} = {{k} \X (1..n[k]) : k \in i..m}
      BY <2>1
    <2> QED
      BY <2>2 DEF Counted, Area
  <1> DEFINE C(m) == Cost(SubSeq(s, a + i, a + m), f)
             T == {m \in Nat : i <= m + 1 /\ a + m <= Len(s) /\ Area(n, i, m) # C(m)}
  <1>3. ASSUME T # {} PROVE FALSE
    <2>1. T \subseteq Nat
      OBVIOUS
    <2>2. PICK m \in T : \A k \in T : m <= k
      BY <1>3, <2>1, Least
    <2>3. m \in Nat /\ i <= m + 1 /\ a + m <= Len(s) /\ Area(n, i, m) # C(m)
      OBVIOUS
    <2>4. CASE i = m + 1
      <3> HIDE DEF n
      <3>1. Area(n, i, m) = 0
        <4> HIDE DEF T, C, s, a
        <4>1. i \in Nat /\ m \in Int /\ i > m
          BY <2>3, <2>4
        <4>2. n \in [Nat -> Nat]
          BY <1>1
        <4> QED
          BY <4>1, <4>2, AreaSteps
      <3>2. SubSeq(s, a + i, a + m) = <<>>
        <4> HIDE DEF s, a
        <4> QED
          BY <1>0, <2>3, <2>4, SubSeqEmpty
      <3>3. C(m) = 0
        BY <3>2, CostSteps
      <3> QED
        BY <2>3, <3>1, <3>3
    <2>5. CASE i # m + 1
      <3> DEFINE p == m - 1
      <3>1. p \in Nat /\ i <= p + 1 /\ p + 1 = m /\ ~(m <= p)
        BY <2>3, <2>5
      <3>2. a + p <= Len(s)
        <4> HIDE DEF s, a
        <4> QED
          BY <1>0, <2>3, <3>1
      <3> HIDE DEF p
      <3>3. Area(n, i, p) = C(p)
        <4> HIDE DEF n, C, s, a
        <4>1. p \notin T
          BY <2>2, <3>1
        <4> QED
          BY <3>1, <3>2, <4>1
      <3>4. Area(n, i, p + 1) = Area(n, i, p) + n[p + 1]
        <4> HIDE DEF n
        <4>1. i \in Nat /\ p \in Int
          BY <3>1
        <4> QED
          BY <1>1, <3>1, <4>1, AreaSteps
      <3>5. n[p + 1] = NBytesForChar(s[a + m], f)
        BY <1>1, <2>3, <3>1
      <3> DEFINE u == SubSeq(s, a + i, a + p)
                 c == s[a + m]
      <3>6. SubSeq(s, a + i, a + m) = u \o <<c>>
        <4> HIDE DEF s, a
        <4>1. /\ a + i \in 1..Len(s) /\ a + m \in (a + i)..Len(s)
              /\ (a + m) - 1 = a + p
          BY <1>0, <2>3, <2>5, <3>1
        <4> QED
          BY <1>0, <4>1, SubSeqRecursiveSecond
      <3>7. u \in Seq(Chars) /\ c \in Chars
        <4> HIDE DEF s, a
        <4>1. a + i \in Int /\ a + p \in Int /\ a + m \in 1..Len(s)
              /\ \A k \in (a + i)..(a + p) : k \in 1..Len(s)
          BY <1>0, <2>3, <2>5, <3>1, <3>2
        <4>2. \A k \in 1..Len(s) : s[k] \in Chars
          BY <1>0, ElementOfSeq
        <4> QED
          BY <4>1, <4>2, SubSeqProperties
      <3> HIDE DEF u, c, n
      <3>8. Cost(u \o <<c>>, f) = Cost(u, f) + NBytesForChar(c, f)
        BY <3>7, CostSteps
      <3>9. C(p) = Cost(u, f) /\ C(m) = Cost(u \o <<c>>, f)
        BY <3>6 DEF u
      <3>10. n[p + 1] = NBytesForChar(c, f)
        BY <3>5 DEF c
      <3> HIDE DEF C, s, a, f
      <3> QED
        BY <2>3, <3>1, <3>3, <3>4, <3>8, <3>9, <3>10
    <2> QED
      BY <2>4, <2>5
  <1>4. i <= j + 1 /\ a + j <= Len(s) /\ j \in Nat
    OBVIOUS
  <1>5. Area(n, i, j) = C(j)
    <2> HIDE DEF n, C, s, a
    <2> QED
      BY <1>3, <1>4
  <1> QED
    BY <1>2, <1>5

LEMMA NeededIsCost == ASSUME NEW l PROVE Needed(l) = Cost(l, job.flags)
  BY DEF Needed, Cost

-----------------------------------------------------------------------------
(* What is still to be written.                                            *)

\* the concatenations there may be above one another
Half == MaxDepth \div 2

LEMMA HalfFacts ==
    /\ Half \in Nat /\ 2 * Half <= MaxDepth /\ Half \in 0..MaxDepth
    /\ \A k \in Nat : (2 * k) \div 2 = k
  <1>1. MaxDepth \in Nat
    BY StringAssumption
  <1> QED
    BY <1>1 DEF Half

\* frames of which all that they have to do will go well
SoundFrame ==
    {t \in BodyFrame :
       /\ t.op \in {"write", "second"} =>
             \E k \in 0..Half : t.depth = 2 * k /\ Sound[Half - k][t.str]
       /\ t.op \in {"read", "copy"} =>
             /\ Heap[t.str].data
             /\ t.op = "copy" => ~t.check
             /\ t.check /\ t.done < t.length => Heap[t.str].chars[t.from + t.done + 1] # "wide"}

\* the characters a frame has to write
Part(t) ==
    IF t.op \in {"write", "second"} THEN Content[Half - (t.depth \div 2)][t.str]
    ELSE IF t.op = "free" THEN <<>>
    ELSE SubSeq(Heap[t.str].chars, t.from + t.done + 1, t.from + t.length)

Parts == [t \in SoundFrame |-> Part(t)]

\* the characters a stack of frames has to write
Pending == CHOOSE F : Joins(F, SoundFrame, Parts)

LEMMA DeepPart ==
    ASSUME NEW t, t.op \in {"write", "second"}, NEW k \in 0..Half, t.depth = 2 * k
    PROVE  Part(t) = Content[Half - k][t.str]
  <1>1. t.depth \div 2 = k
    <2>1. k \in Nat
      BY HalfFacts
    <2>2. (2 * k) \div 2 = k
      BY <2>1, HalfFacts
    <2> QED
      BY <2>2
  <1> QED
    BY <1>1 DEF Part

LEMMA RangeFacts ==
    ASSUME NEW t \in RangeFrame
    PROVE  /\ t.str \in Strs /\ t.from \in Nat /\ t.length \in Nat
           /\ t.done \in Nat /\ t.base \in Nat /\ t.check \in BOOLEAN
           /\ t.base <= t.done /\ t.done <= t.length
           /\ t.from + t.length <= Len(Heap[t.str].chars)
           /\ t.op \in {"read", "copy"}
           /\ Heap[t.str].chars \in Seq(Chars) /\ Len(Heap[t.str].chars) \in Nat
           /\ Part(t) = SubSeq(Heap[t.str].chars, t.from + t.done + 1, t.from + t.length)
  <1>1. /\ t.str \in Strs /\ t.from \in Nat /\ t.length \in Nat
        /\ t.done \in Nat /\ t.base \in Nat /\ t.check \in BOOLEAN
        /\ t.base <= t.done /\ t.done <= t.length
        /\ t.from + t.length <= Len(Heap[t.str].chars)
        /\ t.op \in {"read", "copy"}
    BY DEF RangeFrame
  <1>2. Heap[t.str].chars \in Seq(Chars) /\ Len(Heap[t.str].chars) \in Nat
    BY <1>1, HeapTyped
  <1>3. Part(t) = SubSeq(Heap[t.str].chars, t.from + t.done + 1, t.from + t.length)
    BY <1>1 DEF Part
  <1> QED
    BY <1>1, <1>2, <1>3

\* characters from a string
LEMMA Piece ==
    ASSUME NEW s \in Seq(Chars), NEW a \in Nat \ {0}, NEW b \in Nat, b <= Len(s)
    PROVE  SubSeq(s, a, b) \in Seq(Chars)
  <1>1. a \in Int /\ b \in Int /\ Len(s) \in Nat
    BY LenProperties
  <1>2. \A i \in a..b : i \in 1..Len(s)
    BY <1>1
  <1>3. \A i \in a..b : s[i] \in Chars
    BY <1>2, ElementOfSeq
  <1> QED
    BY <1>1, <1>3, SubSeqProperties

LEMMA PartTyped == \A t \in SoundFrame : Part(t) \in Seq(Chars)
  <1> SUFFICES ASSUME NEW t \in SoundFrame PROVE Part(t) \in Seq(Chars)
    OBVIOUS
  <1>0. t \in BodyFrame
    BY DEF SoundFrame
  <1>1. CASE t \in WriteFrame \cup SecondFrame
    <2>1. t.op \in {"write", "second"} /\ t.str \in Strs
      BY <1>1 DEF WriteFrame, SecondFrame
    <2>2. PICK k \in 0..Half : t.depth = 2 * k
      BY <2>1 DEF SoundFrame
    <2>3. Half - k \in 0..MaxDepth
      BY HalfFacts, StringAssumption
    <2> QED
      BY <2>1, <2>2, <2>3, DeepPart, ContentSteps
  <1>2. CASE t \in FreeFrame
    <2>1. t.op = "free"
      BY <1>2 DEF FreeFrame
    <2>2. Part(t) = <<>>
      BY <2>1 DEF Part
    <2> QED
      BY <2>2
  <1>3. CASE t \in RangeFrame
    <2> DEFINE s == Heap[t.str].chars
               a == t.from + t.done + 1
               b == t.from + t.length
    <2>1. s \in Seq(Chars) /\ a \in Nat \ {0} /\ b \in Nat /\ b <= Len(s) /\ Part(t) = SubSeq(s, a, b)
      BY <1>3, RangeFacts
    <2> HIDE DEF s, a, b
    <2> QED
      BY <2>1, Piece
  <1> QED
    BY <1>0, <1>1, <1>2, <1>3 DEF BodyFrame

LEMMA PendingFacts ==
    /\ Pending[<<>>] = <<>>
    /\ \A s \in Seq(SoundFrame) : Pending[s] \in Seq(Chars)
    /\ \A t \in SoundFrame : Pending[<<t>>] = Part(t)
    /\ \A t \in SoundFrame, s \in Seq(SoundFrame) : Pending[<<t>> \o s] = Part(t) \o Pending[s]
    /\ \A s, t \in Seq(SoundFrame) : Pending[s \o t] = Pending[s] \o Pending[t]
  <1>1. Parts \in [SoundFrame -> Seq(Chars)] /\ \A t \in SoundFrame : Parts[t] = Part(t)
    BY PartTyped DEF Parts
  <1>2. Joins(Pending, SoundFrame, Parts)
    <2>1. \E F : Joins(F, SoundFrame, Parts)
      BY <1>1, JoinsExist
    <2> QED
      BY <2>1 DEF Pending
  <1>3. Joined(Pending, SoundFrame, Chars, Parts)
    BY <1>1, <1>2, JoinsFacts
  <1> QED
    BY <1>1, <1>3 DEF Joined

-----------------------------------------------------------------------------
(* What v8string_write_sizecheck finds out.                                *)
LEMMA LookAhead ==
    ASSUME buf \in Buffer, Top \in RangeFrame, InChunk
    PROVE  LET left == BytesLeft(buf)
               n == NBytesForChar(Char(Top, Top.done + 1), job.flags)
               cost == Cost(Part(Top), job.flags)
               last == Top.length - Top.base <= Chunk
           IN  /\ left \in Nat /\ n \in 1..2 /\ cost \in Nat
               /\ SizeCheck = "nodanger" => left >= n + Len(Marker)
               /\ SizeCheck = "wontfit" => cost > left /\ left < n + Len(Marker)
               /\ SizeCheck = "willfit" => last /\ cost <= left
               /\ SizeCheck = "dontknow" => ~last
  <1> DEFINE left == BytesLeft(buf)
             i == Top.done + 1
             j == ChunkEnd
             n == NBytesForChar(Char(Top, i), job.flags)
             cost == Cost(Part(Top), job.flags)
             rest == Counted(i, j)
             s == Heap[Top.str].chars
             a == Top.from
             M == Len(Marker)
  <1>1. /\ Top.str \in Strs /\ Top.from \in Nat /\ Top.length \in Nat
        /\ Top.done \in Nat /\ Top.base \in Nat
        /\ Top.base <= Top.done /\ Top.done <= Top.length
        /\ Top.from + Top.length <= Len(s) /\ s \in Seq(Chars) /\ Len(s) \in Nat
        /\ Part(Top) = SubSeq(s, a + Top.done + 1, a + Top.length)
    BY RangeFacts
  <1>2. Top.done < ChunkEnd /\ Chunk \in Nat
    BY StringAssumption DEF InChunk
  <1>3. /\ ChunkEnd \in Nat /\ ChunkEnd <= Top.length
        /\ ChunkLast => ChunkEnd = Top.length
    BY <1>1, <1>2 DEF ChunkEnd, Smaller, ChunkLast
  <1>4. left \in Nat /\ n \in 1..2 /\ M \in Nat
    <2>1. buf.left \in Nat /\ buf.resv \in Nat
      BY DEF Buffer
    <2> QED
      BY <2>1, MessagesTyped, LenProperties DEF BytesLeft, NBytesForChar
  <1>5. Counted(i, i) = n
    <2>1. i \in Nat /\ i <= i
      BY <1>1
    <2> HIDE DEF i
    <2> QED
      BY <2>1, CountedLeast
  <1>g. ASSUME NEW x \in Nat, NEW d \in Nat, NEW e \in Nat, NEW n0 \in Nat, NEW m \in Nat,
               d < e, e <= n0, x + n0 <= m
        PROVE  /\ d + 1 \in Nat \ {0} /\ d + 1 <= e + 1 /\ x + e <= m
               /\ x + (d + 1) \in 1..(m + 1) /\ x + e \in ((x + (d + 1)) - 1)..m
               /\ x + n0 \in (x + e)..m /\ x + d + 1 = x + (d + 1)
               /\ x + (d + 1) \in Nat \ {0} /\ x + e \in Nat /\ x + e + 1 \in Nat \ {0}
               /\ x + n0 \in Nat
    BY <1>g
  <1> DEFINE p == SubSeq(s, a + i, a + j)
             q == SubSeq(s, a + j + 1, a + Top.length)
  <1>6. rest = Cost(p, job.flags)
    <2>0. /\ Top.done \in Nat /\ Top.done < j /\ j \in Nat /\ j <= Top.length
          /\ Top.from \in Nat /\ Top.length \in Nat /\ Len(s) \in Nat
          /\ Top.from + Top.length <= Len(s)
      BY <1>1, <1>2, <1>3
    <2>1. i \in Nat \ {0} /\ j \in Nat /\ i <= j + 1 /\ Top.from + j <= Len(s)
      <3> HIDE DEF s, j
      <3> QED
        BY <2>0
    <2> HIDE DEF i, j
    <2> QED
      BY <1>1, <2>1, CountedIsCost
  <1>7. p \in Seq(Chars) /\ q \in Seq(Chars) /\ Part(Top) = p \o q
    <2> DEFINE x == a + i
               y == a + j
               z == a + Top.length
    <2>1. /\ x \in 1..(Len(s) + 1) /\ y \in (x - 1)..Len(s) /\ z \in y..Len(s)
          /\ a + Top.done + 1 = x /\ x \in Nat \ {0} /\ y \in Nat /\ y + 1 \in Nat \ {0} /\ z \in Nat
      <3> HIDE DEF s
      <3> QED
        BY <1>1, <1>2, <1>3, <1>g
    <2>2. Part(Top) = SubSeq(s, x, z)
      BY <1>1, <2>1
    <2> HIDE DEF x, y, z, s
    <2>3. SubSeq(s, x, y) \o SubSeq(s, y + 1, z) = SubSeq(s, x, z)
      BY <1>1, <2>1, ConcatAdjacentSubSeq, Zenon
    <2>4. SubSeq(s, x, y) \in Seq(Chars) /\ SubSeq(s, y + 1, z) \in Seq(Chars)
      BY <1>1, <2>1, Piece, SMTT(30)
    <2> QED
      BY <2>2, <2>3, <2>4 DEF x, y, z
  <1>8. /\ cost = rest + Cost(q, job.flags) /\ rest \in Nat
        /\ Cost(q, job.flags) \in Nat /\ cost \in Nat
    <2> HIDE DEF p, q, rest
    <2>1. Cost(p, job.flags) \in Nat /\ Cost(q, job.flags) \in Nat
      BY <1>7, CostSteps
    <2>2. Cost(p \o q, job.flags) = Cost(p, job.flags) + Cost(q, job.flags)
      BY <1>7, CostConcat
    <2> QED
      BY <1>6, <1>7, <2>1, <2>2
  <1>9. ChunkLast => cost = rest
    <2> SUFFICES ASSUME ChunkLast PROVE cost = rest
      OBVIOUS
    <2>1. a + j = a + Top.length /\ a + i = a + Top.done + 1
      BY <1>1, <1>3
    <2>2. p = Part(Top)
      BY <1>1, <2>1
    <2> QED
      BY <1>6, <2>2
  <1>10. ChunkLast <=> Top.length - Top.base <= Chunk
    BY DEF ChunkLast
  <1>11. SizeCheck = IF NoDanger(left, n) THEN "nodanger"
                     ELSE IF rest > left THEN "wontfit"
                     ELSE IF ~ChunkLast THEN "dontknow" ELSE "willfit"
    BY <1>5 DEF SizeCheck
  <1> HIDE DEF left, n, cost, rest, M
  <1>12. NoDanger(left, n) <=> left >= n + M
    BY <1>4 DEF NoDanger, M
  <1>13. /\ SizeCheck = "nodanger" => left >= n + M
         /\ SizeCheck = "wontfit" => rest > left /\ ~(left >= n + M)
         /\ SizeCheck = "willfit" => ChunkLast /\ ~(rest > left)
         /\ SizeCheck = "dontknow" => ~ChunkLast
    BY <1>11, <1>12
  <1>14. /\ rest > left => cost > left
         /\ ~(left >= n + M) => left < n + M
         /\ ~(rest > left) /\ ChunkLast => cost <= left
    BY <1>4, <1>8, <1>9
  <1> QED
    BY <1>4, <1>8, <1>10, <1>13, <1>14 DEF left, n, cost, M

-----------------------------------------------------------------------------
(* The steps of a string that is sound.                                    *)

\* frames of a string in one piece
Alone(t) == t.op \in {"read", "copy"} \/ (t.op = "write" /\ Heap[t.str].rep # "cons")

\* the marker will not be needed, or has room
Ready(t, left, f) ==
    \/ left >= Len(Marker)
    \/ t.op = "copy" /\ t.length - t.base <= Chunk /\ Cost(Part(t), f) <= left

StaysReady(t, above, left, next, f) ==
    Alone(t) /\ Ready(t, left, f) =>
       above = <<>> \/ \E u \in SoundFrame : above = <<u>> /\ Alone(u) /\ Ready(u, next, f)

Quiet(above) ==
    /\ buf' = buf
    /\ Part(Top) = Pending[above]
    /\ StaysReady(Top, above, BytesLeft(buf), BytesLeft(buf), job.flags)

Copied(above) ==
    \E c \in Chars :
       /\ buf' = Appended(buf, c, job.flags)
       /\ NBytesForChar(c, job.flags) <= BytesLeft(buf)
       /\ Part(Top) = <<c>> \o Pending[above]
       /\ StaysReady(Top, above, BytesLeft(buf),
                     BytesLeft(buf) - Len(Escaped(c, job.flags)), job.flags)

Cut(above) ==
    /\ above = <<>>
    /\ buf' = Written(buf, Marker)
    /\ Cost(Part(Top), job.flags) > BytesLeft(buf)
    /\ job.flags = "ascii" => BytesLeft(buf) <= Len(Marker)
    /\ Ready(Top, BytesLeft(buf), job.flags) => BytesLeft(buf) >= Len(Marker)

Move(above) ==
    /\ stack' = above \o Rest /\ rv' = 0 /\ job' = job
    /\ Quiet(above) \/ Copied(above) \/ Cut(above)

LEMMA OneFrame ==
    ASSUME NEW u \in SoundFrame
    PROVE  <<u>> \in Seq(SoundFrame) /\ Pending[<<u>>] = Part(u)
  BY PendingFacts

LEMMA RangeStart ==
    ASSUME NEW s \in Strs, NEW from \in Nat, NEW length \in Nat, NEW check \in BOOLEAN,
           from + length <= Len(Heap[s].chars), Heap[s].data,
           check /\ length > 0 => Heap[s].chars[from + 1] # "wide"
    PROVE  LET u == Seq0(s, from, length, check) IN
           /\ u \in SoundFrame /\ Alone(u)
           /\ Part(u) = SubSeq(Heap[s].chars, from + 1, from + length)
  <1> DEFINE u == Seq0(s, from, length, check)
  <1>1. u \in BodyFrame
    BY RangeTyped
  <1>2. /\ u.op = "read" /\ u.str = s /\ u.from = from /\ u.length = length
        /\ u.done = 0 /\ u.check = check
    BY DEF Seq0
  <1> HIDE DEF u
  <1>3. from + 0 + 1 = from + 1
    OBVIOUS
  <1>4. u \in SoundFrame
    BY <1>1, <1>2, <1>3 DEF SoundFrame
  <1>5. Part(u) = SubSeq(Heap[s].chars, from + 1, from + length)
    BY <1>2, <1>3 DEF Part
  <1> QED
    BY <1>2, <1>4, <1>5 DEF u, Alone

LEMMA WriteFacts ==
    ASSUME NEW t \in SoundFrame, t.op = "write"
    PROVE  /\ t.str \in Strs /\ t.depth \in Nat /\ t.depth <= MaxDepth /\ ~t.quoted
           /\ Heap[t.str].rep # "cons" => Flat(t.str) /\ Part(t) = FlatChars(t.str)
           /\ Heap[t.str].rep = "cons" =>
                 \E k \in 0..Half :
                    /\ k + 1 \in 0..Half /\ t.depth = 2 * k
                    /\ \A p \in {Heap[t.str].p1, Heap[t.str].p2} :
                          p \in Strs /\ p # NULL /\ Sound[Half - (k + 1)][p]
                    /\ Part(t) = Content[Half - (k + 1)][Heap[t.str].p1]
                                 \o Content[Half - (k + 1)][Heap[t.str].p2]
  <1>1. t \in WriteFrame
    BY DEF SoundFrame, BodyFrame, WriteFrame, SecondFrame, FreeFrame, RangeFrame
  <1>2. t.str \in Strs /\ t.depth \in Nat /\ ~t.quoted
    BY <1>1 DEF WriteFrame
  <1>3. PICK k \in 0..Half : t.depth = 2 * k /\ Sound[Half - k][t.str]
    BY DEF SoundFrame
  <1>4. Part(t) = Content[Half - k][t.str]
    BY <1>3, DeepPart
  <1>5. Half - k \in 0..MaxDepth /\ Half \in Nat /\ 2 * k <= MaxDepth
    BY HalfFacts, StringAssumption
  <1> DEFINE d == Half - k
             s == t.str
  <1>6. SoundWith(Sound, d, s) /\ Part(t) = ContentWith(Content, d, s)
    <2>1. d \in 0..MaxDepth /\ s \in Strs /\ Sound[d][s] /\ Part(t) = Content[d][s]
      BY <1>2, <1>3, <1>4, <1>5
    <2> HIDE DEF d, s
    <2> QED
      BY <2>1, SoundSteps, ContentSteps
  <1>7. Heap[s].rep # "cons" => Flat(s) /\ Part(t) = FlatChars(s)
    BY <1>6 DEF SoundWith, ContentWith
  <1>8. ASSUME Heap[s].rep = "cons"
        PROVE  /\ k + 1 \in 0..Half
               /\ \A p \in {Heap[s].p1, Heap[s].p2} :
                     p \in Strs /\ p # NULL /\ Sound[Half - (k + 1)][p]
               /\ Part(t) = Content[Half - (k + 1)][Heap[s].p1]
                            \o Content[Half - (k + 1)][Heap[s].p2]
    <2>1. d > 0 /\ \A p \in {Heap[s].p1, Heap[s].p2} : p # NULL /\ Sound[d - 1][p]
      <3> HIDE DEF d, s
      <3> QED
        BY <1>6, <1>8 DEF SoundWith
    <2>2. Part(t) = Content[d - 1][Heap[s].p1] \o Content[d - 1][Heap[s].p2]
      <3>1. d # 0
        BY <1>5, <2>1
      <3> HIDE DEF d, s
      <3> QED
        BY <1>6, <1>8, <2>1, <3>1 DEF ContentWith
    <2>3. d - 1 = Half - (k + 1) /\ k + 1 \in 0..Half
      BY <1>5, <2>1
    <2>4. \A p \in {Heap[s].p1, Heap[s].p2} : p # NULL => p \in Strs
      BY <1>2, HeapTyped
    <2> HIDE DEF d, s
    <2> QED
      BY <2>1, <2>2, <2>3, <2>4
  <1> HIDE DEF d
  <1>9. t.depth <= MaxDepth
    BY <1>3, <1>5
  <1> QED
    BY <1>2, <1>3, <1>7, <1>8, <1>9

\* a frame for a part of a concatenation
LEMMA DeepFrame ==
    ASSUME NEW t \in WriteFrame \cup SecondFrame, NEW k \in 0..Half,
           t.depth = 2 * k, Sound[Half - k][t.str]
    PROVE  t \in SoundFrame /\ Part(t) = Content[Half - k][t.str]
  <1>1. t.op \in {"write", "second"} /\ t \in BodyFrame
    BY DEF WriteFrame, SecondFrame, BodyFrame
  <1>2. t \in SoundFrame
    BY <1>1 DEF SoundFrame
  <1> QED
    BY <1>1, <1>2, DeepPart

LEMMA WriteMove ==
    ASSUME SNext, NEW S, Rest \in Seq(S), Top \in SoundFrame, Top.op = "write", rv = 0
    PROVE  \E above \in Seq(SoundFrame) : Move(above)
  <1> DEFINE s == Top.str
  <1>0. /\ s \in Strs /\ Top.depth \in Nat /\ Top.depth <= MaxDepth /\ ~Top.quoted
        /\ Heap[s].rep # "cons" => Flat(s) /\ Part(Top) = FlatChars(s)
    BY WriteFacts
  <1>1. ASSUME NEW u \in SoundFrame, Alone(u), Part(u) = Part(Top), Heap[s].rep # "cons",
               stack' = <<u>> \o Rest, buf' = buf, rv' = rv, job' = job
        PROVE  \E above \in Seq(SoundFrame) : Move(above)
    <2>1. <<u>> \in Seq(SoundFrame) /\ Pending[<<u>>] = Part(u)
      BY OneFrame
    <2>2. StaysReady(Top, <<u>>, BytesLeft(buf), BytesLeft(buf), job.flags)
      <3>1. Ready(Top, BytesLeft(buf), job.flags) => Ready(u, BytesLeft(buf), job.flags)
        BY DEF Ready
      <3> QED
        BY <1>1, <3>1 DEF StaysReady
    <2>3. Quiet(<<u>>)
      BY <1>1, <2>1, <2>2 DEF Quiet
    <2> QED
      BY <1>1, <2>1, <2>3 DEF Move
  <1>2. CASE WriteSeq
    <2> DEFINE n == Len(Heap[s].chars)
               u == Seq0(s, 0, n, FALSE)
    <2>1. /\ stack' = <<u>> \o Rest /\ buf' = buf /\ rv' = rv /\ job' = job
          /\ Heap[s].rep = "seq"
      BY <1>2 DEF WriteSeq, Body
    <2>2. Heap[s].data /\ Heap[s].chars \in Seq(Chars) /\ n \in Nat /\ Part(Top) = Heap[s].chars
      BY <1>0, <2>1, HeapTyped DEF Flat, FlatChars
    <2>3. u \in SoundFrame /\ Alone(u) /\ Part(u) = SubSeq(Heap[s].chars, 0 + 1, 0 + n)
      <3>1. 0 + n <= n /\ 0 \in Nat /\ FALSE \in BOOLEAN
        BY <2>2
      <3> HIDE DEF s
      <3> QED
        BY <1>0, <2>2, <3>1, RangeStart
    <2>4. SubSeq(Heap[s].chars, 0 + 1, 0 + n) = Heap[s].chars
      <3>1. 0 + 1 = 1 /\ 0 + n = n
        BY <2>2
      <3> QED
        BY <2>2, <3>1, SubSeqFull
    <2> HIDE DEF u, n, s
    <2> QED
      BY <1>1, <2>1, <2>2, <2>3, <2>4
  <1>3. CASE WriteExt
    <2> DEFINE n == Len(Heap[s].chars)
               u == Seq0(s, 0, n, TRUE)
    <2>1. /\ stack' = <<u>> \o Rest /\ buf' = buf /\ rv' = rv /\ job' = job
          /\ Heap[s].rep = "external"
      BY <1>3 DEF WriteExt, Body
    <2>2. /\ Heap[s].data /\ Heap[s].chars \in Seq(Chars) /\ n \in Nat /\ Part(Top) = Heap[s].chars
          /\ n > 0 => Heap[s].chars[1] # "wide"
      <3>1. Flat(s) /\ Part(Top) = Heap[s].chars
        BY <1>0, <2>1 DEF FlatChars
      <3>2. Heap[s].chars \in Seq(Chars) /\ n \in Nat
        BY <1>0, HeapTyped
      <3>3. n > 0 => Heap[s].chars # <<>>
        BY <3>2
      <3> QED
        BY <2>1, <3>1, <3>2, <3>3 DEF Flat
    <2>3. u \in SoundFrame /\ Alone(u) /\ Part(u) = SubSeq(Heap[s].chars, 0 + 1, 0 + n)
      <3>1. 0 + n <= n /\ 0 \in Nat /\ TRUE \in BOOLEAN /\ 0 + 1 = 1
        BY <2>2
      <3>2. n > 0 => Heap[s].chars[0 + 1] # "wide"
        BY <2>2, <3>1
      <3> HIDE DEF s
      <3> QED
        BY <1>0, <2>2, <3>1, <3>2, RangeStart
    <2>4. SubSeq(Heap[s].chars, 0 + 1, 0 + n) = Heap[s].chars
      <3>1. 0 + 1 = 1 /\ 0 + n = n
        BY <2>2
      <3> QED
        BY <2>2, <3>1, SubSeqFull
    <2> HIDE DEF u, n, s
    <2> QED
      BY <1>1, <2>1, <2>2, <2>3, <2>4
  <1>4. CASE WriteSliced
    <2> DEFINE p == Heap[s].p1
               n == Len(Heap[p].chars)
               a == SliceFrom(Heap[s], n)
               b == SliceLength(Heap[s], n)
               u == Seq0(p, a, b, FALSE)
    <2>1. /\ stack' = <<u>> \o Rest /\ buf' = buf /\ rv' = rv /\ job' = job
          /\ Heap[s].rep = "sliced" /\ p # NULL
      BY <1>4 DEF WriteSliced, Body, SeqParent
    <2>2. Heap[p].data /\ Part(Top) = SubSeq(Heap[p].chars, a + 1, a + b)
      BY <1>0, <2>1 DEF Flat, FlatChars
    <2>3. p \in Strs /\ n \in Nat
      <3>1. p \in Strs
        BY <1>0, <2>1, HeapTyped
      <3> QED
        BY <3>1, HeapTyped
    <2>4. a \in Nat /\ b \in Nat /\ a + b <= n
      BY <1>0, <2>3, SliceWithin
    <2>5. u \in SoundFrame /\ Alone(u) /\ Part(u) = SubSeq(Heap[p].chars, a + 1, a + b)
      <3> HIDE DEF p, a, b
      <3> QED
        BY <2>2, <2>3, <2>4, RangeStart
    <2> HIDE DEF u, a, b, p, s
    <2> QED
      BY <1>1, <2>1, <2>2, <2>5
  <1>5. CASE WriteCons
    <2> DEFINE d == Bump(Bump(Top.depth))
               w == Write(Heap[s].p1, d, FALSE)
               v == [op |-> "second", str |-> Heap[s].p2, depth |-> d]
    <2>1. /\ stack' = <<w, v>> \o Rest /\ buf' = buf /\ rv' = rv /\ job' = job
          /\ Heap[s].rep = "cons"
      BY <1>5 DEF WriteCons, Body
    <2>2. PICK k \in 0..Half :
             /\ k + 1 \in 0..Half /\ Top.depth = 2 * k
             /\ \A p \in {Heap[s].p1, Heap[s].p2} :
                   p \in Strs /\ p # NULL /\ Sound[Half - (k + 1)][p]
             /\ Part(Top) = Content[Half - (k + 1)][Heap[s].p1]
                            \o Content[Half - (k + 1)][Heap[s].p2]
      BY <2>1, WriteFacts
    <2>3. d \in Nat /\ d = 2 * (k + 1)
      <3>1. k \in Nat /\ Top.depth = 2 * k
        <4>1. Half \in Nat
          BY HalfFacts
        <4>2. k \in Nat
          BY <4>1
        <4> QED
          BY <2>2, <4>2
      <3>2. d = Top.depth + 1 + 1
        BY DEF Bump
      <3> QED
        BY <3>1, <3>2
    <2>4. w \in WriteFrame /\ w.depth = d /\ w.str = Heap[s].p1
      BY <2>2, <2>3 DEF WriteFrame, Write
    <2>5. v \in SecondFrame /\ v.depth = d /\ v.str = Heap[s].p2
      BY <2>2, <2>3 DEF SecondFrame
    <2> HIDE DEF w, v, d, s
    <2>6. w \in SoundFrame /\ Part(w) = Content[Half - (k + 1)][Heap[s].p1]
      BY <2>2, <2>3, <2>4, DeepFrame
    <2>7. v \in SoundFrame /\ Part(v) = Content[Half - (k + 1)][Heap[s].p2]
      BY <2>2, <2>3, <2>5, DeepFrame
    <2>8. /\ <<w, v>> = <<w>> \o <<v>> /\ <<w, v>> \in Seq(SoundFrame)
          /\ <<v>> \in Seq(SoundFrame)
      <3>1. ASSUME NEW A, NEW x \in A, NEW y \in A
            PROVE  <<x, y>> = <<x>> \o <<y>> /\ <<x, y>> \in Seq(A) /\ <<y>> \in Seq(A)
        <4>1. <<x>> \in Seq(A) /\ <<y>> \in Seq(A) /\ <<x, y>> \in Seq(A)
          OBVIOUS
        <4> DEFINE z == <<x>> \o <<y>>
        <4>2. /\ z \in Seq(A) /\ Len(z) = 2 /\ z[1] = x /\ z[2] = y
          BY <4>1, ConcatProperties
        <4> HIDE DEF z
        <4>3. z = <<x, y>>
          <5>1. Len(<<x, y>>) = 2 /\ <<x, y>>[1] = x /\ <<x, y>>[2] = y
            OBVIOUS
          <5>2. \A i \in 1..2 : i = 1 \/ i = 2
            OBVIOUS
          <5> QED
            BY <4>1, <4>2, <5>1, <5>2, SeqEqual
        <4> QED
          BY <4>1, <4>3 DEF z
      <3> QED
        BY <2>6, <2>7, <3>1, Zenon
    <2>9. Pending[<<w, v>>] = Part(w) \o Part(v)
      BY <2>6, <2>7, <2>8, PendingFacts
    <2>10. ~Alone(Top)
      BY <2>1 DEF Alone, s
    <2>11. Quiet(<<w, v>>)
      BY <2>1, <2>2, <2>6, <2>7, <2>9, <2>10 DEF Quiet, StaysReady
    <2> QED
      BY <2>1, <2>8, <2>11 DEF Move
  <1>6. CASE WriteExtTwo \/ WriteSlicedFails \/ WriteConsFails
    <2>1. \/ Heap[s].rep = "external" /\ Heap[s].two
          \/ Heap[s].rep = "sliced" /\ ~SeqParent(Heap[s])
          \/ Heap[s].rep = "cons" /\ NULL \in {Heap[s].p1, Heap[s].p2}
      BY <1>6 DEF WriteExtTwo, WriteSlicedFails, WriteConsFails, Body
    <2>2. ~(Heap[s].rep = "cons" /\ NULL \in {Heap[s].p1, Heap[s].p2})
      BY WriteFacts
    <2> QED
      BY <1>0, <2>1, <2>2 DEF Flat
  <1>7. CASE TooDeep \/ OpenQuote
    <2>1. MaxDepth \in Nat
      BY StringAssumption
    <2>2. ~(Top.depth > MaxDepth)
      BY <1>0, <2>1
    <2> QED
      BY <1>0, <1>7, <2>2 DEF TooDeep, OpenQuote
  <1>8. WriteSeq \/ WriteExt \/ WriteSliced \/ WriteCons
        \/ WriteExtTwo \/ WriteSlicedFails \/ WriteConsFails \/ TooDeep \/ OpenQuote
    <2>1. ~ (Hold \/ ReleaseHeld \/ CloseQuote \/ WriteSecond \/ FreeParts)
      BY DEF Hold, ReleaseHeld, CloseQuote, WriteSecond, FreeParts, Doing
    <2>2. ~ (SeqDone \/ ReadFails \/ ReadLooksInvalid \/ ReadChunk \/ CopyChar \/ Truncate \/ NextChunk)
      BY DEF SeqDone, ReadFails, ReadLooksInvalid, ReadChunk, CopyChar, Truncate, NextChunk,
             InChunk, Doing
    <2> QED
      BY <2>1, <2>2 DEF SNext
  <1> HIDE DEF s
  <1> QED
    BY <1>2, <1>3, <1>4, <1>5, <1>6, <1>7, <1>8

-----------------------------------------------------------------------------
(* The second part of a concatenation, and ranges of characters.           *)
LEMMA SecondMove ==
    ASSUME SNext, NEW S, Rest \in Seq(S), Top \in SoundFrame, Top.op \in {"second", "free"}, rv = 0
    PROVE  \E above \in Seq(SoundFrame) : Move(above)
  <1>1. ~Alone(Top)
    BY DEF Alone
  <1>2. CASE WriteSecond
    <2> DEFINE w == Write(Top.str, Top.depth, FALSE)
               v == Frame("free")
               above == <<w>> \o <<v>>
    <2>1. /\ Top.op = "second" /\ job' = job /\ buf' = buf /\ rv' = rv
          /\ stack' = (<<w>> \o <<v>>) \o Rest
      BY <1>2 DEF WriteSecond, Doing
    <2>2. Top \in SecondFrame
      BY <2>1 DEF SoundFrame, BodyFrame, WriteFrame, SecondFrame, FreeFrame, RangeFrame
    <2>3. PICK k \in 0..Half : Top.depth = 2 * k /\ Sound[Half - k][Top.str]
      BY <2>1 DEF SoundFrame
    <2>4. w \in WriteFrame /\ w.depth = Top.depth /\ w.str = Top.str
      BY <2>2 DEF WriteFrame, SecondFrame, Write
    <2>5. w \in SoundFrame /\ Part(w) = Part(Top)
      <3>1. Part(Top) = Content[Half - k][Top.str]
        BY <2>2, <2>3, DeepFrame
      <3> HIDE DEF w
      <3> QED
        BY <2>3, <2>4, <3>1, DeepFrame
    <2>6. v \in SoundFrame /\ Part(v) = <<>>
      <3>1. v \in FreeFrame /\ v.op = "free"
        BY DEF Frame, FreeFrame
      <3> QED
        BY <3>1 DEF SoundFrame, BodyFrame, Part
    <2> HIDE DEF w, v
    <2>7. /\ <<w>> \in Seq(SoundFrame) /\ <<v>> \in Seq(SoundFrame)
          /\ above \in Seq(SoundFrame)
      <3>1. <<w>> \in Seq(SoundFrame) /\ <<v>> \in Seq(SoundFrame)
        BY <2>5, <2>6
      <3> QED
        BY <3>1, ConcatProperties
    <2>8. Pending[above] = Part(w) \o <<>> /\ Part(w) \in Seq(Chars)
      <3>1. Pending[above] = Part(w) \o Pending[<<v>>]
        BY <2>5, <2>7, PendingFacts, Zenon
      <3>2. Pending[<<v>>] = <<>>
        BY <2>6, PendingFacts
      <3> QED
        BY <2>5, <3>1, <3>2, PartTyped
    <2>9. Pending[above] = Part(Top)
      BY <2>5, <2>8, ConcatEmptySeq
    <2> HIDE DEF above
    <2>10. Quiet(above)
      BY <1>1, <2>1, <2>9 DEF Quiet, StaysReady
    <2> QED
      BY <2>1, <2>7, <2>10 DEF Move, above
  <1>3. CASE FreeParts
    <2>1. Top.op = "free" /\ stack' = Rest /\ buf' = buf /\ job' = job /\ rv' = rv
      BY <1>3 DEF FreeParts, Doing
    <2>2. Part(Top) = <<>>
      BY <2>1 DEF Part
    <2>3. <<>> \in Seq(SoundFrame) /\ <<>> \o Rest = Rest
      BY ConcatEmptySeq, EmptySeq
    <2>4. Quiet(<<>>)
      BY <1>1, <2>1, <2>2, PendingFacts DEF Quiet, StaysReady
    <2> QED
      BY <2>1, <2>3, <2>4 DEF Move
  <1>4. WriteSecond \/ FreeParts
    <2>1. ~ (Hold \/ ReleaseHeld \/ CloseQuote \/ TooDeep \/ OpenQuote)
      BY DEF Hold, ReleaseHeld, CloseQuote, TooDeep, OpenQuote, Doing
    <2>2. ~ (SeqDone \/ ReadFails \/ ReadLooksInvalid \/ ReadChunk \/ CopyChar \/ Truncate \/ NextChunk)
      BY DEF SeqDone, ReadFails, ReadLooksInvalid, ReadChunk, CopyChar, Truncate, NextChunk,
             InChunk, Doing
    <2>3. ~ (WriteSeq \/ WriteExt \/ WriteExtTwo \/ WriteSliced \/ WriteSlicedFails
             \/ WriteCons \/ WriteConsFails)
      BY DEF WriteSeq, WriteExt, WriteExtTwo, WriteSliced, WriteSlicedFails,
             WriteCons, WriteConsFails, Body, Doing
    <2> QED
      BY <2>1, <2>2, <2>3 DEF SNext
  <1> QED
    BY <1>2, <1>3, <1>4

\* a range that has only been read further, or some of which has been copied
LEMMA RangeNext ==
    ASSUME NEW t \in SoundFrame, t.op \in {"read", "copy"}, NEW u \in RangeFrame,
           u.str = t.str, u.from = t.from, u.length = t.length,
           ~u.check \/ (u.op = "read" /\ u.check = t.check /\ u.done = t.done)
    PROVE  /\ u \in SoundFrame /\ Alone(u)
           /\ Part(u) = SubSeq(Heap[t.str].chars, t.from + u.done + 1, t.from + t.length)
  <1>1. Heap[t.str].data
    BY DEF SoundFrame
  <1>2. u.op \in {"read", "copy"} /\ u \in BodyFrame
    BY DEF RangeFrame, BodyFrame
  <1>3. u \in SoundFrame
    BY <1>1, <1>2 DEF SoundFrame
  <1>4. Part(u) = SubSeq(Heap[t.str].chars, t.from + u.done + 1, t.from + t.length)
    BY <1>2 DEF Part
  <1> QED
    BY <1>2, <1>3, <1>4 DEF Alone

LEMMA RangeMove ==
    ASSUME StrInv, SNext, NEW S, Rest \in Seq(S), Top \in SoundFrame,
           Top.op \in {"read", "copy"}, rv = 0
    PROVE  \E above \in Seq(SoundFrame) : Move(above)
  <1> DEFINE s == Heap[Top.str].chars
             a == Top.from
             i == Top.done + 1
             f == job.flags
             left == BytesLeft(buf)
  <1>0. /\ Top \in RangeFrame /\ Heap[Top.str].data
        /\ Top.check /\ Top.done < Top.length => s[a + Top.done + 1] # "wide"
    BY DEF SoundFrame, BodyFrame, WriteFrame, SecondFrame, FreeFrame, RangeFrame
  <1>1. /\ Top.str \in Strs /\ a \in Nat /\ Top.length \in Nat
        /\ Top.done \in Nat /\ Top.base \in Nat /\ Top.check \in BOOLEAN
        /\ Top.base <= Top.done /\ Top.done <= Top.length
        /\ a + Top.length <= Len(s)
        /\ s \in Seq(Chars) /\ Len(s) \in Nat
        /\ Part(Top) = SubSeq(s, a + Top.done + 1, a + Top.length)
    BY <1>0, RangeFacts
  <1>2. buf \in Buffer /\ buf.left > 0 /\ f \in Flags /\ Alone(Top)
    BY DEF StrInv, BufInv, InBounds, Alone
  <1>3. Char(Top, i) = s[a + Top.done + 1]
    <2>1. a + i = a + Top.done + 1
      BY <1>1
    <2> QED
      BY <2>1 DEF Char
  <1>4. CASE SeqDone
    <2>1. Top.done = Top.length /\ buf' = buf /\ job' = job /\ rv' = 0 /\ stack' = Rest
      BY <1>4 DEF SeqDone, Return
    <2>2. Part(Top) = <<>>
      <3>1. a + Top.length < a + Top.done + 1 /\ a + Top.length \in Int /\ a + Top.done + 1 \in Int
        BY <1>1, <2>1
      <3> QED
        BY <1>1, <3>1, SubSeqEmpty
    <2>3. <<>> \in Seq(SoundFrame) /\ <<>> \o Rest = Rest
      BY ConcatEmptySeq, EmptySeq
    <2>4. Quiet(<<>>)
      BY <2>1, <2>2, PendingFacts DEF Quiet, StaysReady
    <2> QED
      BY <2>1, <2>3, <2>4 DEF Move
  <1>5. CASE ReadFails \/ ReadLooksInvalid
    <2>1. ReadLooksInvalid
      BY <1>0, <1>5 DEF ReadFails
    <2> QED
      BY <1>0, <1>3, <2>1 DEF ReadLooksInvalid, LooksInvalid
  <1>6. CASE ReadChunk
    <2> DEFINE u == [Top EXCEPT !.op = "copy", !.base = Top.done, !.check = FALSE]
    <2>1. /\ Doing("read") /\ buf' = buf /\ job' = job /\ rv' = rv
          /\ stack' = <<[Top EXCEPT !.op = "copy", !.base = Top.done, !.check = FALSE]>> \o Rest
      BY <1>6 DEF ReadChunk
    <2>2. /\ u \in RangeFrame /\ u.str = Top.str /\ u.from = Top.from /\ u.length = Top.length
          /\ u.done = Top.done /\ u.check = FALSE
      <3>1. /\ u \in [op : {"read", "copy"}, str : Strs, from : Nat, length : Nat,
                       done : Nat, base : Nat, check : BOOLEAN]
            /\ u.str = Top.str /\ u.from = Top.from /\ u.length = Top.length
            /\ u.done = Top.done /\ u.check = FALSE /\ u.base = Top.done
        BY <1>0 DEF RangeFrame
      <3>2. Top.done <= Top.done
        BY <1>1
      <3> HIDE DEF u
      <3> QED
        BY <1>1, <3>1, <3>2 DEF RangeFrame
    <2> HIDE DEF u
    <2>3. u \in SoundFrame /\ Alone(u) /\ Part(u) = SubSeq(s, a + Top.done + 1, a + Top.length)
      BY <2>2, RangeNext
    <2>4. <<u>> \in Seq(SoundFrame) /\ Pending[<<u>>] = Part(Top)
      BY <1>1, <2>3, OneFrame
    <2>5. StaysReady(Top, <<u>>, left, left, f)
      <3>1. Ready(Top, left, f) => Ready(u, left, f)
        BY <2>1 DEF Ready, Doing
      <3> QED
        BY <2>3, <3>1 DEF StaysReady
    <2>6. Quiet(<<u>>)
      BY <2>1, <2>4, <2>5 DEF Quiet
    <2> QED
      BY <2>1, <2>4, <2>6 DEF Move, u
  <1>7. CASE NextChunk
    <2> DEFINE u == [Top EXCEPT !.op = "read"]
    <2>1. /\ Doing("copy") /\ buf' = buf /\ job' = job /\ rv' = rv /\ Top.done < Top.length
          /\ stack' = <<[Top EXCEPT !.op = "read"]>> \o Rest
          /\ Top.done < ChunkEnd => SizeCheck = "dontknow"
      BY <1>7 DEF NextChunk
    <2>2. /\ u \in RangeFrame /\ u.str = Top.str /\ u.from = Top.from /\ u.length = Top.length
          /\ u.done = Top.done /\ u.check = Top.check /\ u.op = "read"
      BY <1>0, <1>1 DEF RangeFrame
    <2> HIDE DEF u
    <2>3. u \in SoundFrame /\ Alone(u) /\ Part(u) = SubSeq(s, a + Top.done + 1, a + Top.length)
      BY <2>2, RangeNext
    <2>4. <<u>> \in Seq(SoundFrame) /\ Pending[<<u>>] = Part(Top)
      BY <1>1, <2>3, OneFrame
    <2>5. ~(Top.length - Top.base <= Chunk)
      <3>1. CASE Top.done < ChunkEnd
        <4>1. InChunk /\ SizeCheck = "dontknow"
          BY <2>1, <3>1 DEF InChunk
        <4> QED
          BY <1>0, <1>2, <4>1, LookAhead
      <3>2. CASE ~(Top.done < ChunkEnd)
        <4>1. Chunk \in Nat
          BY StringAssumption
        <4> QED
          BY <1>1, <2>1, <3>2, <4>1 DEF ChunkEnd, Smaller
      <3> QED
        BY <3>1, <3>2
    <2>6. StaysReady(Top, <<u>>, left, left, f)
      <3>1. Ready(Top, left, f) => Ready(u, left, f)
        BY <2>5 DEF Ready
      <3> QED
        BY <2>3, <3>1 DEF StaysReady
    <2>7. Quiet(<<u>>)
      BY <2>1, <2>4, <2>6 DEF Quiet
    <2> QED
      BY <2>1, <2>4, <2>7 DEF Move, u
  <1>8. CASE CopyChar
    <2> DEFINE u == [Top EXCEPT !.done = @ + 1]
               c == Char(Top, i)
               n == NBytesForChar(c, f)
               e == Len(Escaped(c, f))
               w == a + Top.length
    <2>1. /\ InChunk /\ Top.op = "copy" /\ buf' = Appended(buf, c, f) /\ job' = job /\ rv' = rv
          /\ SizeCheck \in {"nodanger", "willfit"}
          /\ stack' = <<u>> \o Rest
      BY <1>8 DEF CopyChar, InChunk, Doing
    <2>2. Top.done < Top.length
      <3>1. Chunk \in Nat
        BY StringAssumption
      <3>2. Top.done < ChunkEnd
        BY <2>1 DEF InChunk
      <3> QED
        BY <1>1, <3>1, <3>2 DEF ChunkEnd, Smaller
    <2>3. ~Top.check
      BY <2>1 DEF SoundFrame
    <2>4. /\ u \in RangeFrame /\ u.str = Top.str /\ u.from = a /\ u.length = Top.length
          /\ u.done = i /\ u.base = Top.base /\ u.check = Top.check /\ u.op = "copy"
      <3>1. i \in Nat /\ Top.base <= i /\ i <= Top.length
        <4> HIDE DEF s, a
        <4> QED
          BY <1>1, <2>2
      <3>2. /\ u \in [op : {"read", "copy"}, str : Strs, from : Nat, length : Nat,
                       done : Nat, base : Nat, check : BOOLEAN]
            /\ u.str = Top.str /\ u.from = a /\ u.length = Top.length
            /\ u.done = i /\ u.base = Top.base /\ u.check = Top.check /\ u.op = Top.op
        BY <1>0, <3>1 DEF RangeFrame
      <3> HIDE DEF u
      <3> QED
        BY <1>1, <2>1, <3>1, <3>2 DEF RangeFrame
    <2> HIDE DEF u
    <2>5. u \in SoundFrame /\ Alone(u) /\ Part(u) = SubSeq(s, a + i + 1, w)
      BY <2>3, <2>4, RangeNext
    <2>6. <<u>> \in Seq(SoundFrame) /\ Pending[<<u>>] = Part(u) /\ Part(u) \in Seq(Chars)
      BY <2>5, OneFrame, PartTyped
    <2>g. ASSUME NEW x \in Nat, NEW d \in Nat, NEW l \in Nat, NEW m \in Nat, d < l, x + l <= m
          PROVE  /\ x + d + 1 \in 1..m /\ x + l \in (x + d + 1)..m
                 /\ x + (d + 1) + 1 = (x + d + 1) + 1
      BY <2>g
    <2>7. c \in Chars /\ Part(Top) = <<c>> \o Part(u)
      <3> DEFINE x == a + Top.done + 1
      <3>1. x \in 1..Len(s) /\ w \in x..Len(s) /\ a + i + 1 = x + 1
        <4> HIDE DEF s, a
        <4> QED
          BY <1>1, <2>2, <2>g
      <3>2. Part(Top) = SubSeq(s, x, w) /\ c = s[x] /\ Part(u) = SubSeq(s, x + 1, w)
        BY <1>1, <1>3, <2>5, <3>1
      <3> HIDE DEF x, w, s, c, a, i
      <3>3. SubSeq(s, x, w) = <<s[x]>> \o SubSeq(s, x + 1, w)
        BY <1>1, <3>1, SubSeqRecursiveFirst
      <3>4. s[x] \in Chars
        BY <1>1, <3>1, ElementOfSeq
      <3> QED
        BY <3>2, <3>3, <3>4
    <2>8. n \in 1..2 /\ e \in Nat /\ e <= n
      <3> HIDE DEF c, f
      <3>1. Escaped(c, f) \in Seq(Bytes)
        BY <1>2, <2>7, EscapeSize
      <3> QED
        BY <1>2, <2>7, <3>1, EscapeSize, LenProperties
    <2> DEFINE cost == Cost(Part(Top), f)
               last == Top.length - Top.base <= Chunk
    <2>9. /\ left \in Nat /\ cost \in Nat
          /\ left >= n + Len(Marker) \/ (last /\ cost <= left)
      BY <1>0, <1>2, <2>1, LookAhead
    <2>10. cost = n + Cost(Part(u), f) /\ Cost(Part(u), f) \in Nat
      <3>1. <<c>> \in Seq(Chars) /\ <<>> \in Seq(Chars) /\ <<>> \o <<c>> = <<c>>
        BY <2>7, ConcatEmptySeq
      <3>2. Cost(<<c>>, f) = 0 + n
        BY <2>7, <3>1, CostSteps
      <3>3. Cost(<<c>> \o Part(u), f) = Cost(<<c>>, f) + Cost(Part(u), f)
        BY <2>6, <3>1, CostConcat
      <3>4. Cost(Part(u), f) \in Nat
        BY <2>6, CostSteps
      <3> HIDE DEF n, c, f
      <3> QED
        BY <2>7, <2>8, <3>2, <3>3, <3>4
    <2>11. n <= left
      BY <1>0, <1>2, <2>1, PassedFits
    <2>12. Ready(u, left - e, f)
      <3>1. Len(Marker) \in Nat
        BY MessagesTyped, LenProperties
      <3> HIDE DEF left, n, e, cost, f
      <3>2. CASE left >= n + Len(Marker)
        <4>1. left - e >= Len(Marker)
          BY <2>8, <2>9, <3>1, <3>2
        <4> QED
          BY <4>1 DEF Ready
      <3>3. CASE last /\ cost <= left
        <4>1. Cost(Part(u), f) <= left - e
          BY <2>8, <2>9, <2>10, <3>3
        <4> QED
          BY <2>4, <3>3, <4>1 DEF Ready
      <3> QED
        BY <2>9, <3>2, <3>3
    <2>13. StaysReady(Top, <<u>>, left, left - e, f)
      BY <2>5, <2>12 DEF StaysReady
    <2>14. Copied(<<u>>)
      <3> HIDE DEF c
      <3> QED
        BY <2>1, <2>6, <2>7, <2>11, <2>13 DEF Copied
    <2> QED
      BY <2>1, <2>6, <2>14 DEF Move
  <1>9. CASE Truncate
    <2>1. /\ InChunk /\ SizeCheck = "wontfit" /\ buf' = Written(buf, Marker) /\ job' = job
          /\ stack' = Rest /\ rv' = 0
      BY <1>9 DEF Truncate, Return
    <2> DEFINE n == NBytesForChar(Char(Top, i), f)
               cost == Cost(Part(Top), f)
    <2>2. /\ left \in Nat /\ cost \in Nat /\ n \in 1..2
          /\ cost > left /\ left < n + Len(Marker)
      BY <1>0, <1>2, <2>1, LookAhead
    <2>3. f = "ascii" => n = 1
      BY DEF NBytesForChar
    <2>4. Len(Marker) \in Nat
      BY MessagesTyped, LenProperties
    <2> HIDE DEF n, cost, f, left
    <2>5. f = "ascii" => left <= Len(Marker)
      BY <2>2, <2>3, <2>4
    <2>6. Ready(Top, left, f) => left >= Len(Marker)
      BY <2>2 DEF Ready, cost
    <2>7. <<>> \in Seq(SoundFrame) /\ <<>> \o Rest = Rest
      BY ConcatEmptySeq, EmptySeq
    <2>8. Cut(<<>>)
      BY <2>1, <2>2, <2>5, <2>6 DEF Cut, f, left, cost
    <2> QED
      BY <2>1, <2>7, <2>8 DEF Move
  <1>10. SeqDone \/ ReadFails \/ ReadLooksInvalid \/ ReadChunk \/ NextChunk \/ CopyChar \/ Truncate
    <2>1. ~ (Hold \/ ReleaseHeld \/ CloseQuote \/ TooDeep \/ OpenQuote \/ WriteSecond \/ FreeParts)
      BY DEF Hold, ReleaseHeld, CloseQuote, TooDeep, OpenQuote, WriteSecond, FreeParts, Doing
    <2>2. ~ (WriteSeq \/ WriteExt \/ WriteExtTwo \/ WriteSliced \/ WriteSlicedFails
             \/ WriteCons \/ WriteConsFails)
      BY DEF WriteSeq, WriteExt, WriteExtTwo, WriteSliced, WriteSlicedFails,
             WriteCons, WriteConsFails, Body, Doing
    <2> QED
      BY <2>1, <2>2 DEF SNext
  <1> QED
    BY <1>4, <1>5, <1>6, <1>7, <1>8, <1>9, <1>10

(* Whatever the top of the stack is: if nothing it has to do can go wrong, *)
(* then what it has not written yet is what its place on the stack is      *)
(* taken over to write; or the room is too small for it.                   *)
LEMMA SoundMove ==
    ASSUME StrInv, SNext, NEW S, Rest \in Seq(S), Top \in SoundFrame, rv = 0
    PROVE  \E above \in Seq(SoundFrame) : Move(above)
  <1>1. Top.op \in {"write", "second", "free", "read", "copy"}
    BY DEF SoundFrame, BodyFrame, WriteFrame, SecondFrame, FreeFrame, RangeFrame
  <1> QED
    BY <1>1, WriteMove, SecondMove, RangeMove

-----------------------------------------------------------------------------
(* The steps of the body of a string that is sound, wherever in it.        *)

ReadyBody(body, left, f) ==
    body = <<>> \/ \E t \in SoundFrame : body = <<t>> /\ Alone(t) /\ Ready(t, left, f)

BodyQuiet(body, next) ==
    /\ buf' = buf
    /\ Pending[body] = Pending[next]
    /\ ReadyBody(body, BytesLeft(buf), job.flags) => ReadyBody(next, BytesLeft(buf), job.flags)

BodyCopied(body, next) ==
    \E c \in Chars :
       /\ buf' = Appended(buf, c, job.flags)
       /\ NBytesForChar(c, job.flags) <= BytesLeft(buf)
       /\ Pending[body] = <<c>> \o Pending[next]
       /\ ReadyBody(body, BytesLeft(buf), job.flags) =>
             ReadyBody(next, BytesLeft(buf) - Len(Escaped(c, job.flags)), job.flags)

BodyCut(body, next) ==
    /\ buf' = Written(buf, Marker)
    /\ Cost(Pending[body], job.flags) > BytesLeft(buf)
    /\ job.flags = "ascii" => BytesLeft(buf) <= Len(Marker)
    /\ ReadyBody(body, BytesLeft(buf), job.flags) => next = <<>> /\ BytesLeft(buf) >= Len(Marker)

BodyMove(body, next) ==
    /\ stack' = next \o Closing /\ rv' = 0 /\ job' = job
    /\ BodyQuiet(body, next) \/ BodyCopied(body, next) \/ BodyCut(body, next)

LEMMA BodyMoves ==
    ASSUME StrInv, SNext, rv = 0, NEW body \in Seq(SoundFrame), body # <<>>,
           stack = body \o Closing
    PROVE  \E next \in Seq(SoundFrame) : BodyMove(body, next)
  <1> DEFINE A == BodyFrame \cup [op : {"release", "close"}]
             rest == Tail(body)
             f == job.flags
             left == BytesLeft(buf)
  <1>1. body \in Seq(BodyFrame)
    <2>1. SoundFrame \subseteq BodyFrame
      BY DEF SoundFrame
    <2> QED
      BY <2>1, SeqMonotonic
  <1>2. /\ stack # <<>> /\ Top = Head(body) /\ body = <<Top>> \o rest /\ Rest = rest \o Closing
        /\ Rest \in Seq(A) /\ rest \in Seq(A) /\ Closing \in Seq(A)
    BY <1>1, TopOfBody, FramesTyped
  <1>3. Top \in SoundFrame /\ rest \in Seq(SoundFrame)
    BY <1>2, HeadTailProperties
  <1>4. PICK above \in Seq(SoundFrame) : Move(above)
    BY <1>2, <1>3, SoundMove
  <1> DEFINE next == above \o rest
  <1>5. next \in Seq(SoundFrame)
    BY <1>3, ConcatProperties
  <1>6. stack' = next \o Closing /\ rv' = 0 /\ job' = job
    <2>1. above \in Seq(A)
      <3>1. SoundFrame \subseteq A
        BY DEF SoundFrame
      <3> QED
        BY <3>1, SeqMonotonic
    <2> HIDE DEF A, rest
    <2>2. (above \o rest) \o Closing = above \o (rest \o Closing)
      BY <1>2, <2>1, ConcatAssociative, SMTT(30)
    <2> QED
      BY <1>2, <1>4, <2>2 DEF Move
  <1>7. /\ Pending[body] = Part(Top) \o Pending[rest]
        /\ Pending[next] = Pending[above] \o Pending[rest]
        /\ Pending[rest] \in Seq(Chars) /\ Pending[above] \in Seq(Chars)
        /\ Part(Top) \in Seq(Chars)
    <2> HIDE DEF rest
    <2>1. Pending[<<Top>> \o rest] = Part(Top) \o Pending[rest]
      BY <1>3, PendingFacts
    <2>2. Pending[above \o rest] = Pending[above] \o Pending[rest]
      BY <1>3, PendingFacts
    <2>3. Pending[rest] \in Seq(Chars) /\ Pending[above] \in Seq(Chars)
      BY <1>3, PendingFacts
    <2> QED
      BY <1>2, <1>3, <2>1, <2>2, <2>3, PartTyped
  <1>8. ASSUME NEW m, ReadyBody(body, m, f)
        PROVE  rest = <<>> /\ next = above /\ Alone(Top) /\ Ready(Top, m, f)
    <2>1. PICK t \in SoundFrame : body = <<t>> /\ Alone(t) /\ Ready(t, m, f)
      BY <1>8 DEF ReadyBody
    <2>2. Head(<<t>>) = t /\ Tail(<<t>>) = <<>>
      OBVIOUS
    <2>3. rest = <<>> /\ t = Top
      BY <1>2, <2>1, <2>2
    <2>4. next = above
      BY <2>3, ConcatEmptySeq
    <2> QED
      BY <2>1, <2>3, <2>4
  <1>9. ASSUME NEW m, StaysReady(Top, above, left, m, f), ReadyBody(body, left, f)
        PROVE  ReadyBody(next, m, f)
    <2> HIDE DEF next, left, f
    <2>1. next = above /\ Alone(Top) /\ Ready(Top, left, f)
      BY <1>8, <1>9
    <2> QED
      BY <1>9, <2>1 DEF StaysReady, ReadyBody
  <1> HIDE DEF rest, next
  <1>10. CASE Quiet(above)
    <2>1. BodyQuiet(body, next)
      BY <1>7, <1>9, <1>10 DEF BodyQuiet, Quiet
    <2> QED
      BY <1>5, <1>6, <2>1 DEF BodyMove
  <1>11. CASE Copied(above)
    <2>1. PICK c \in Chars :
             /\ buf' = Appended(buf, c, f)
             /\ NBytesForChar(c, f) <= left
             /\ Part(Top) = <<c>> \o Pending[above]
             /\ StaysReady(Top, above, left, left - Len(Escaped(c, f)), f)
      BY <1>11 DEF Copied
    <2>2. Pending[body] = <<c>> \o Pending[next]
      <3>1. <<c>> \in Seq(Chars)
        OBVIOUS
      <3>2. (<<c>> \o Pending[above]) \o Pending[rest] = <<c>> \o (Pending[above] \o Pending[rest])
        BY <1>7, <3>1, CharsReassociated, Zenon
      <3> QED
        BY <1>7, <2>1, <3>2
    <2>3. BodyCopied(body, next)
      BY <1>9, <2>1, <2>2 DEF BodyCopied
    <2> QED
      BY <1>5, <1>6, <2>3 DEF BodyMove
  <1>12. CASE Cut(above)
    <2>1. /\ above = <<>> /\ buf' = Written(buf, Marker) /\ Cost(Part(Top), f) > left
          /\ f = "ascii" => left <= Len(Marker)
          /\ Ready(Top, left, f) => left >= Len(Marker)
      BY <1>12 DEF Cut
    <2>2. Cost(Pending[body], f) > left
      <3>1. Cost(Pending[body], f) = Cost(Part(Top), f) + Cost(Pending[rest], f)
        BY <1>7, CostConcat
      <3>2. Cost(Part(Top), f) \in Nat /\ Cost(Pending[rest], f) \in Nat
        BY <1>7, CostSteps
      <3>3. left \in Nat
        <4>1. buf.left \in Nat /\ buf.resv \in Nat
          BY DEF StrInv, BufInv, Buffer
        <4> QED
          BY <4>1 DEF BytesLeft
      <3> HIDE DEF left, f
      <3> QED
        BY <2>1, <3>1, <3>2, <3>3
    <2>3. ReadyBody(body, left, f) => next = <<>> /\ left >= Len(Marker)
      BY <1>8, <2>1
    <2>4. BodyCut(body, next)
      BY <2>1, <2>2, <2>3 DEF BodyCut
    <2> QED
      BY <1>5, <1>6, <2>4 DEF BodyMove
  <1> QED
    BY <1>4, <1>10, <1>11, <1>12 DEF Move

\* the room that is left by a character that fits, and by a text
LEMMA AppendedFits ==
    ASSUME NEW b \in Buffer, b.left > 0, NEW c \in Chars, NEW f \in Flags,
           NBytesForChar(c, f) <= BytesLeft(b)
    PROVE  /\ Appended(b, c, f).out = b.out \o Escaped(c, f)
           /\ Escaped(c, f) \in Seq(Bytes)
           /\ BytesLeft(Appended(b, c, f)) = BytesLeft(b) - Len(Escaped(c, f))
           /\ Appended(b, c, f).left = b.left - Len(Escaped(c, f))
           /\ NBytesForChar(c, f) \in 1..2
           /\ Len(Escaped(c, f)) \in Nat /\ Len(Escaped(c, f)) <= NBytesForChar(c, f)
           /\ f = "ascii" => Len(Escaped(c, f)) = 1 /\ NBytesForChar(c, f) = 1
  <1> DEFINE t == Escaped(c, f)
             n == Smaller(Len(t), BytesLeft(b))
             w == Appended(b, c, f)
  <1>1. t \in Seq(Bytes) /\ Len(t) <= NBytesForChar(c, f) /\ NBytesForChar(c, f) \in 1..2
    BY EscapeSize
  <1>2. /\ f = "ascii" => Len(t) = 1 /\ NBytesForChar(c, f) = 1
    BY DEF Escaped, NBytesForChar
  <1>3. b.left \in Nat /\ b.resv \in Nat
    BY DEF Buffer
  <1>4. w = Written(b, t)
    BY DEF Appended
  <1> HIDE DEF t, w
  <1>5. Len(t) \in Nat
    BY <1>1, LenProperties
  <1>6. n = Len(t) /\ BytesLeft(b) \in Nat /\ Len(t) <= BytesLeft(b)
    <2>1. BytesLeft(b) \in Nat
      BY <1>3 DEF BytesLeft
    <2> QED
      BY <1>1, <1>5, <2>1 DEF Smaller
  <1>7. w.out = b.out \o SubSeq(t, 1, n) /\ w.left = b.left - n /\ w.resv = b.resv
    BY <1>1, <1>4, WrittenExact
  <1>8. SubSeq(t, 1, n) = t
    <2>1. Len(t) \in 0..Len(t)
      BY <1>5
    <2> QED
      BY <1>1, <1>6, <2>1, PrefixLength
  <1>9. BytesLeft(w) = BytesLeft(b) - Len(t) /\ w.left = b.left - Len(t)
    <2>1. w.left = b.left - Len(t) /\ w.resv = b.resv
      BY <1>6, <1>7
    <2> HIDE DEF n
    <2>2. BytesLeft(b) = IF b.left - 1 < b.resv THEN 0 ELSE b.left - 1 - b.resv
      BY DEF BytesLeft
    <2>3. BytesLeft(w) = IF w.left - 1 < w.resv THEN 0 ELSE w.left - 1 - w.resv
      BY DEF BytesLeft
    <2> QED
      BY <1>3, <1>5, <1>6, <2>1, <2>2, <2>3
  <1> QED
    BY <1>1, <1>2, <1>5, <1>7, <1>8, <1>9 DEF t, w

LEMMA WrittenFits ==
    ASSUME NEW b \in Buffer, b.left > 0, NEW t \in Seq(Bytes)
    PROVE  /\ BytesLeft(b) = 0 => BytesLeft(Written(b, t)) = 0
           /\ BytesLeft(b) <= Len(t) => BytesLeft(Written(b, t)) = 0
           /\ Len(t) <= BytesLeft(b) => Written(b, t).out = b.out \o t
           /\ Written(b, t).left <= b.left /\ Written(b, t).left \in Nat
  <1> DEFINE n == Smaller(Len(t), BytesLeft(b))
             w == Written(b, t)
  <1>1. b.left \in Nat /\ b.resv \in Nat
    BY DEF Buffer
  <1>2. BytesLeft(b) \in Nat /\ Len(t) \in Nat
    BY <1>1, LenProperties DEF BytesLeft
  <1>3. /\ w.out = b.out \o SubSeq(t, 1, n) /\ w.left = b.left - n /\ w.resv = b.resv
        /\ w \in Buffer
    BY WrittenExact
  <1>4. /\ n \in Nat /\ n <= BytesLeft(b)
        /\ Len(t) <= BytesLeft(b) => n = Len(t)
        /\ BytesLeft(b) <= Len(t) => n = BytesLeft(b)
    BY <1>2 DEF Smaller
  <1> HIDE DEF n, w
  <1>5. Len(t) <= BytesLeft(b) => w.out = b.out \o t
    <2>1. n = Len(t) => SubSeq(t, 1, n) = t
      BY <1>2, PrefixLength
    <2> QED
      BY <1>3, <1>4, <2>1
  <1>6. BytesLeft(b) <= Len(t) => BytesLeft(w) = 0
    BY <1>1, <1>3, <1>4 DEF BytesLeft
  <1>7. BytesLeft(b) = 0 => BytesLeft(w) = 0
    BY <1>2, <1>6
  <1>8. w.left <= b.left /\ w.left \in Nat
    BY <1>1, <1>3, <1>4 DEF Buffer
  <1> QED
    BY <1>5, <1>6, <1>7, <1>8 DEF w

-----------------------------------------------------------------------------
(* What is found in the buffer, for what was asked for and the size of the *)
(* buffer.                                                                 *)

Jobs == [str : Roots, quoted : BOOLEAN, flags : Flags]

RoomOf(j, size) == size - 1 - (IF j.quoted THEN 2 ELSE 0)
Contents(j) == Content[Half][j.str]
Sure(j, size) == Sound[Half][j.str] /\ RoomOf(j, size) >= 0
Fits(j, size) == Cost(Contents(j), j.flags) <= RoomOf(j, size)
Filled(j, size) == j.flags = "ascii" /\ ~Fits(j, size)
Marked(j, size) == Flat(j.str) /\ RoomOf(j, size) >= Len(Marker)

Begins(j, w) == (IF j.quoted THEN <<"quote">> ELSE <<>>) \o Rendering(j.flags)[w]

Broken(j, out) ==
    \E w \in Seq(Chars), v \in Seq(Chars) : Contents(j) = w \o v /\ out = Begins(j, w) \o Marker

Told(j, size, out) ==
    /\ Fits(j, size) => out = Begins(j, Contents(j))
    /\ Marked(j, size) => out = Begins(j, Contents(j)) \/ Broken(j, out)

\* the frames of body have to write what is not in b yet
Going(j, size, b, body) ==
    \E w \in Seq(Chars) :
       /\ Contents(j) = w \o Pending[body]
       /\ b.out = Begins(j, w)
       /\ Fits(j, size) => Cost(Pending[body], j.flags) <= BytesLeft(b)
       /\ Filled(j, size) => Cost(Pending[body], j.flags) > BytesLeft(b)
       /\ Marked(j, size) => ReadyBody(body, BytesLeft(b), j.flags)

Halted(j, size, b, body) ==
    /\ ~Fits(j, size)
    /\ Filled(j, size) => BytesLeft(b) = 0
    /\ Marked(j, size) => body = <<>> /\ Broken(j, b.out)

LEMMA StartFrame ==
    ASSUME NEW s \in Strs, Sound[Half][s]
    PROVE  /\ <<Write(s, 0, FALSE)>> \in Seq(SoundFrame)
           /\ Pending[<<Write(s, 0, FALSE)>>] = Content[Half][s]
           /\ \A left, f : Flat(s) /\ left >= Len(Marker) => ReadyBody(<<Write(s, 0, FALSE)>>, left, f)
  <1> DEFINE u == Write(s, 0, FALSE)
  <1>1. u \in WriteFrame /\ u.depth = 0 /\ u.str = s /\ u.op = "write"
    BY DEF Write, WriteFrame
  <1> HIDE DEF u
  <1>2. 0 \in 0..Half /\ 2 * 0 = 0 /\ Half - 0 = Half
    BY HalfFacts
  <1>3. u.depth = 2 * 0 /\ Sound[Half - 0][u.str]
    BY <1>1, <1>2
  <1>4. u \in SoundFrame /\ Part(u) = Content[Half - 0][u.str]
    BY <1>1, <1>2, <1>3, DeepFrame
  <1>5. <<u>> \in Seq(SoundFrame) /\ Pending[<<u>>] = Part(u)
    BY <1>4, OneFrame
  <1>6. ASSUME NEW left, NEW f, Flat(s), left >= Len(Marker)
        PROVE  ReadyBody(<<u>>, left, f)
    <2>1. Alone(u)
      BY <1>1, <1>6 DEF Alone, Flat
    <2>2. Ready(u, left, f)
      BY <1>6 DEF Ready
    <2> QED
      BY <1>4, <2>1, <2>2 DEF ReadyBody
  <1> QED
    BY <1>1, <1>2, <1>4, <1>5, <1>6 DEF u

LEMMA JobTyped ==
    ASSUME NEW j \in Jobs
    PROVE  /\ j.str \in Strs /\ j.flags \in Flags /\ j.quoted \in BOOLEAN
           /\ Contents(j) \in Seq(Chars)
           /\ \A w \in Seq(Chars) : Begins(j, w) \in Seq(Bytes)
           /\ \A w \in Seq(Chars), c \in Chars :
                 Begins(j, w \o <<c>>) = Begins(j, w) \o Escaped(c, j.flags)
  <1>1. j.str \in Strs /\ j.flags \in Flags /\ j.quoted \in BOOLEAN
    BY StringAssumption DEF Jobs
  <1>2. Contents(j) \in Seq(Chars)
    BY <1>1, ContentSteps, HalfFacts DEF Contents
  <1> DEFINE o == IF j.quoted THEN <<"quote">> ELSE <<>>
             R == Rendering(j.flags)
  <1>3. o \in Seq(Bytes)
    <2>1. <<"quote">> \in Seq(Bytes) /\ <<>> \in Seq(Bytes)
      BY DEF Bytes, Chars
    <2> QED
      BY <2>1
  <1>4. /\ \A l \in Seq(Chars) : R[l] \in Seq(Bytes)
        /\ \A l \in Seq(Chars), c \in Chars : R[l \o <<c>>] = R[l] \o Escaped(c, j.flags)
    BY <1>1, RenderingFacts
  <1> HIDE DEF o, R
  <1>5. ASSUME NEW w \in Seq(Chars)
        PROVE  Begins(j, w) = o \o R[w] /\ Begins(j, w) \in Seq(Bytes)
    <2>1. Begins(j, w) = o \o R[w]
      BY DEF Begins, o, R
    <2> QED
      BY <1>3, <1>4, <2>1, ConcatProperties
  <1>6. ASSUME NEW w \in Seq(Chars), NEW c \in Chars
        PROVE  Begins(j, w \o <<c>>) = Begins(j, w) \o Escaped(c, j.flags)
    <2>1. Escaped(c, j.flags) \in Seq(Bytes)
      BY <1>1, EscapeSize
    <2>2. w \o <<c>> \in Seq(Chars)
      OBVIOUS
    <2>4. (o \o R[w]) \o Escaped(c, j.flags) = o \o (R[w] \o Escaped(c, j.flags))
      BY <1>3, <1>4, <2>1, BytesReassociated, Zenon
    <2>5. R[w \o <<c>>] = R[w] \o Escaped(c, j.flags)
      BY <1>4
    <2> QED
      BY <1>5, <2>2, <2>4, <2>5, Zenon
  <1> QED
    BY <1>1, <1>2, <1>5, <1>6

LEMMA StartGoing ==
    ASSUME NEW j \in Jobs, NEW size \in Nat, NEW b \in Buffer,
           b.out = (IF j.quoted THEN <<"quote">> ELSE <<>>),
           Sure(j, size), BytesLeft(b) = RoomOf(j, size)
    PROVE  /\ <<Write(j.str, 0, FALSE)>> \in Seq(SoundFrame)
           /\ Going(j, size, b, <<Write(j.str, 0, FALSE)>>)
  <1> DEFINE body == <<Write(j.str, 0, FALSE)>>
             o == IF j.quoted THEN <<"quote">> ELSE <<>>
  <1>1. j.str \in Strs /\ j.flags \in Flags /\ Contents(j) \in Seq(Chars)
    BY JobTyped
  <1>2. /\ body \in Seq(SoundFrame) /\ Pending[body] = Contents(j)
        /\ Flat(j.str) /\ BytesLeft(b) >= Len(Marker) => ReadyBody(body, BytesLeft(b), j.flags)
    BY <1>1, StartFrame DEF Sure, Contents
  <1> HIDE DEF body
  <1>3. <<>> \in Seq(Chars) /\ Contents(j) = <<>> \o Pending[body]
    BY <1>1, <1>2, ConcatEmptySeq, EmptySeq
  <1>4. b.out = Begins(j, <<>>)
    <2>1. Rendering(j.flags)[<<>>] = <<>>
      BY <1>1, RenderingFacts
    <2>2. b.out \in Seq(Bytes)
      BY DEF Buffer
    <2>3. b.out \o <<>> = b.out
      BY <2>2, ConcatEmptySeq
    <2> HIDE DEF o
    <2>4. b.out = o
      BY DEF o
    <2> QED
      BY <2>1, <2>3, <2>4 DEF Begins, o
  <1>5. Fits(j, size) => Cost(Pending[body], j.flags) <= BytesLeft(b)
    BY <1>2 DEF Fits
  <1>6. Filled(j, size) => Cost(Pending[body], j.flags) > BytesLeft(b)
    <2>1. Cost(Contents(j), j.flags) \in Nat
      BY <1>1, CostSteps
    <2>2. BytesLeft(b) \in Nat
      BY DEF BytesLeft, Buffer
    <2> QED
      BY <1>2, <2>1, <2>2 DEF Fits, Filled
  <1>7. Marked(j, size) => ReadyBody(body, BytesLeft(b), j.flags)
    BY <1>2 DEF Marked
  <1> QED
    BY <1>2, <1>3, <1>4, <1>5, <1>6, <1>7 DEF Going, body

-----------------------------------------------------------------------------
(* What a step makes of it.                                                *)
LEMMA GoingOn ==
    ASSUME buf \in Buffer, buf.left > 0, job \in Jobs, NEW size \in Nat,
           NEW body \in Seq(SoundFrame), NEW next \in Seq(SoundFrame),
           Going(job, size, buf, body),
           BodyQuiet(body, next) \/ BodyCopied(body, next) \/ BodyCut(body, next)
    PROVE  Going(job, size, buf', next) \/ Halted(job, size, buf', next)
  <1> DEFINE f == job.flags
             left == BytesLeft(buf)
             C == Contents(job)
  <1>0. /\ f \in Flags /\ C \in Seq(Chars)
        /\ \A w \in Seq(Chars) : Begins(job, w) \in Seq(Bytes)
        /\ \A w \in Seq(Chars), c \in Chars : Begins(job, w \o <<c>>) = Begins(job, w) \o Escaped(c, f)
    BY JobTyped
  <1>1. PICK w \in Seq(Chars) :
           /\ C = w \o Pending[body]
           /\ buf.out = Begins(job, w)
           /\ Fits(job, size) => Cost(Pending[body], f) <= left
           /\ Filled(job, size) => Cost(Pending[body], f) > left
           /\ Marked(job, size) => ReadyBody(body, left, f)
    BY DEF Going
  <1>2. /\ Pending[body] \in Seq(Chars) /\ Pending[next] \in Seq(Chars)
        /\ Cost(Pending[body], f) \in Nat /\ Cost(Pending[next], f) \in Nat
        /\ left \in Nat
    <2>1. Pending[body] \in Seq(Chars) /\ Pending[next] \in Seq(Chars)
      BY PendingFacts
    <2>2. left \in Nat
      BY DEF BytesLeft, Buffer
    <2> QED
      BY <2>1, <2>2, CostSteps
  <1> HIDE DEF f, left, C
  <1>3. CASE BodyQuiet(body, next)
    <2>1. /\ buf' = buf /\ Pending[body] = Pending[next]
          /\ ReadyBody(body, left, f) => ReadyBody(next, left, f)
      BY <1>3 DEF BodyQuiet, left, f
    <2>2. BytesLeft(buf') = left
      BY <2>1 DEF left
    <2>3. Going(job, size, buf', next)
      BY <1>1, <2>1, <2>2, Zenon DEF Going, f, C
    <2> QED
      BY <2>3
  <1>4. CASE BodyCopied(body, next)
    <2>1. PICK c \in Chars :
             /\ buf' = Appended(buf, c, f)
             /\ NBytesForChar(c, f) <= left
             /\ Pending[body] = <<c>> \o Pending[next]
             /\ ReadyBody(body, left, f) => ReadyBody(next, left - Len(Escaped(c, f)), f)
      BY <1>4 DEF BodyCopied, left, f
    <2> DEFINE n == NBytesForChar(c, f)
               m == Len(Escaped(c, f))
    <2>2. /\ buf'.out = buf.out \o Escaped(c, f) /\ BytesLeft(buf') = left - m
          /\ n \in 1..2 /\ m \in Nat /\ m <= n
          /\ f = "ascii" => m = 1 /\ n = 1
      BY <1>0, <2>1, AppendedFits DEF left
    <2>3. <<c>> \in Seq(Chars) /\ w \o <<c>> \in Seq(Chars)
      OBVIOUS
    <2>4. C = (w \o <<c>>) \o Pending[next]
      <3>2. (w \o <<c>>) \o Pending[next] = w \o (<<c>> \o Pending[next])
        BY <1>2, <2>3, CharsReassociated, Zenon
      <3> QED
        BY <1>1, <2>1, <3>2, Zenon
    <2>5. buf'.out = Begins(job, w \o <<c>>)
      BY <1>0, <1>1, <2>2, Zenon
    <2>6. Cost(Pending[body], f) = n + Cost(Pending[next], f)
      <3>1. Cost(<<>> \o <<c>>, f) = Cost(<<>>, f) + n /\ Cost(<<>>, f) = 0
        <4>1. <<>> \in Seq(Chars)
          BY EmptySeq
        <4> QED
          BY <4>1, CostSteps
      <3>2. <<>> \o <<c>> = <<c>>
        BY <2>3, ConcatEmptySeq
      <3>3. Cost(<<c>>, f) = n
        <4> HIDE DEF n
        <4>1. Cost(<<c>>, f) = 0 + n
          BY <3>1, <3>2, Zenon
        <4> QED
          BY <2>2, <4>1 DEF n
      <3>4. Cost(<<c>> \o Pending[next], f) = Cost(<<c>>, f) + Cost(Pending[next], f)
        BY <1>2, <2>3, CostConcat
      <3> QED
        BY <2>1, <3>3, <3>4, Zenon
    <2> HIDE DEF n, m
    <2>7. Fits(job, size) => Cost(Pending[next], f) <= left - m
      BY <1>1, <1>2, <2>2, <2>6
    <2>8. Filled(job, size) => Cost(Pending[next], f) > left - m
      <3>1. Filled(job, size) => n = 1 /\ m = 1
        BY <2>2 DEF Filled, f
      <3> QED
        BY <1>1, <1>2, <2>2, <2>6, <3>1
    <2>9. Marked(job, size) => ReadyBody(next, left - m, f)
      BY <1>1, <2>1 DEF m
    <2>10. Going(job, size, buf', next)
      <3> DEFINE u == w \o <<c>>
      <3>1. u \in Seq(Chars) /\ C = u \o Pending[next] /\ buf'.out = Begins(job, u)
        BY <2>3, <2>4, <2>5, Zenon
      <3> HIDE DEF u
      <3> QED
        BY <3>1, <2>2, <2>7, <2>8, <2>9, Zenon DEF Going, f, C
    <2> QED
      BY <2>10
  <1>5. CASE BodyCut(body, next)
    <2>1. /\ buf' = Written(buf, Marker)
          /\ Cost(Pending[body], f) > left
          /\ f = "ascii" => left <= Len(Marker)
          /\ ReadyBody(body, left, f) => next = <<>> /\ left >= Len(Marker)
      BY <1>5 DEF BodyCut, left, f
    <2>2. ~Fits(job, size)
      BY <1>1, <1>2, <2>1
    <2>3. /\ left <= Len(Marker) => BytesLeft(buf') = 0
          /\ Len(Marker) <= left => buf'.out = buf.out \o Marker
      BY <2>1, MessagesTyped, WrittenFits DEF left
    <2>4. Filled(job, size) => BytesLeft(buf') = 0
      BY <2>1, <2>3 DEF Filled, f
    <2>5. Marked(job, size) => next = <<>> /\ Broken(job, buf'.out)
      <3> SUFFICES ASSUME Marked(job, size) PROVE next = <<>> /\ Broken(job, buf'.out)
        OBVIOUS
      <3>1. next = <<>> /\ left >= Len(Marker)
        BY <1>1, <2>1
      <3>2. buf'.out = Begins(job, w) \o Marker
        <4>1. Len(Marker) \in Nat
          BY MessagesTyped, LenProperties
        <4>2. Len(Marker) <= left
          BY <1>2, <3>1, <4>1
        <4> QED
          BY <1>1, <2>3, <4>2
      <3>3. Broken(job, buf'.out)
        BY <1>1, <1>2, <3>2, Zenon DEF Broken, C
      <3> QED
        BY <3>1, <3>3
    <2> QED
      BY <2>2, <2>4, <2>5 DEF Halted
  <1> QED
    BY <1>3, <1>4, <1>5

\* what there is to write has been written, or will not be
LEMMA GoneThrough ==
    ASSUME NEW j \in Jobs, NEW size \in Nat, NEW b \in Buffer,
           Going(j, size, b, <<>>) \/ Halted(j, size, b, <<>>)
    PROVE  Told(j, size, b.out) /\ (Filled(j, size) => BytesLeft(b) = 0)
  <1>1. CASE Going(j, size, b, <<>>)
    <2>1. PICK w \in Seq(Chars) :
             /\ Contents(j) = w \o Pending[<<>>]
             /\ b.out = Begins(j, w)
             /\ Filled(j, size) => Cost(Pending[<<>>], j.flags) > BytesLeft(b)
      BY <1>1 DEF Going
    <2>2. Pending[<<>>] = <<>>
      BY PendingFacts
    <2>3. Contents(j) = w
      BY <2>1, <2>2, ConcatEmptySeq
    <2>4. ~Filled(j, size)
      <3>1. Cost(Pending[<<>>], j.flags) = 0
        BY <2>2, CostSteps
      <3>2. BytesLeft(b) \in Nat
        BY DEF BytesLeft, Buffer
      <3> QED
        BY <2>1, <3>1, <3>2
    <2> QED
      BY <2>1, <2>3, <2>4 DEF Told
  <1>2. CASE Halted(j, size, b, <<>>)
    BY <1>2 DEF Halted, Told
  <1> QED
    BY <1>1, <1>2

-----------------------------------------------------------------------------
(* The whole of a string, with its quotes: what has been told by then.     *)

\* nothing has gone wrong, or the string has been cut
Running ==
    /\ rv = 0
    /\ \E body \in Seq(SoundFrame) :
          stack = body \o Closing /\ Going(job, Size(buf), buf, body)
CutOff == \E body \in Seq(BodyFrame) : stack = body \o Closing /\ Halted(job, Size(buf), buf, body)

TellOpening == Opening /\ rv = 0
TellHolding == Holding /\ rv = 0 /\ buf.out = <<"quote">>
TellWriting == Writing /\ (Running \/ CutOff)
TellEnding ==
    /\ Ending
    /\ Told(job, Size(buf), buf.out)
    /\ Filled(job, Size(buf)) => buf.left = 2
TellOver ==
    /\ Over
    /\ \E out \in Seq(Bytes) : buf.out = out \o <<"quote">> /\ Told(job, Size(buf), out)
    /\ Filled(job, Size(buf)) => buf.left = 1

Tells ==
    Sure(job, Size(buf)) => TellOpening \/ TellHolding \/ TellWriting \/ TellEnding \/ TellOver

\* a buffer with no room for two quotes
Tiny == job.quoted /\ Size(buf) < 3 => Opening \/ buf.left = 1

LEMMA InvFacts ==
    ASSUME StrInv
    PROVE  /\ buf \in Buffer /\ buf.left \in Nat /\ buf.left > 0 /\ buf.resv \in Nat
           /\ buf.out \in Seq(Bytes) /\ Size(buf) \in Nat /\ Size(buf) = Len(buf.out) + buf.left
           /\ Len(buf.out) \in Nat
           /\ job \in Jobs /\ job.str \in Strs /\ job.flags \in Flags /\ job.quoted \in BOOLEAN
  <1>1. /\ buf \in Buffer /\ buf.left > 0 /\ buf.left \in Nat /\ buf.resv \in Nat
        /\ buf.out \in Seq(Bytes)
    BY DEF StrInv, BufInv, InBounds, Buffer
  <1>2. Len(buf.out) \in Nat
    BY <1>1, LenProperties
  <1>3. job \in Jobs
    BY DEF StrInv, Jobs
  <1> QED
    BY <1>1, <1>2, <1>3, JobTyped DEF Size

\* what is the same after a step
LEMMA Shrinks ==
    ASSUME StrInv, SNext
    PROVE  job' = job /\ Size(buf') = Size(buf) /\ buf'.left <= buf.left
  <1>0. /\ buf \in Buffer /\ buf.left \in Nat /\ buf.left > 0 /\ job.flags \in Flags
    BY InvFacts
  <1>1. ASSUME NEW t \in Seq(Bytes), buf' = Written(buf, t)
        PROVE  Size(buf') = Size(buf) /\ buf'.left <= buf.left
    BY <1>0, <1>1, WrittenKeeps, WrittenFits
  <1>2. ASSUME NEW c \in Chars, buf' = Appended(buf, c, job.flags)
        PROVE  Size(buf') = Size(buf) /\ buf'.left <= buf.left
    <2>1. Escaped(c, job.flags) \in Seq(Bytes)
      BY <1>0, EscapeSize
    <2> QED
      BY <1>1, <1>2, <2>1 DEF Appended
  <1>3. ASSUME NEW n, buf' = Reserved(buf, n)
        PROVE  Size(buf') = Size(buf) /\ buf'.left <= buf.left
    BY <1>0, <1>3 DEF Reserved, Size
  <1>4. CASE Opening
    <2>1. "quote" \in Chars
      BY DEF Chars
    <2> QED
      BY <1>2, <1>4, <2>1, OpenStep
  <1>5. CASE Holding
    BY <1>3, <1>5, HoldStep
  <1>6. CASE Writing
    <2>1. PICK body \in Seq(BodyFrame) : stack = body \o Closing
      BY <1>6 DEF Writing
    <2>2. CASE body # <<>>
      <3>1. BodyStep
        BY <1>6, <2>1, <2>2, WritingSteps
      <3>2. job' = job /\ BodyDoes
        BY <3>1 DEF BodyStep
      <3>3. Marker \in Seq(Bytes) /\ Complaint \in Seq(Bytes)
        BY MessagesTyped
      <3>4. CASE BufferKept
        BY <1>0, <3>2, <3>4 DEF BufferKept
      <3>5. CASE MessageWritten
        BY <1>1, <3>2, <3>3, <3>5 DEF MessageWritten
      <3>6. CASE CharWritten
        BY <1>2, <3>2, <3>6 DEF CharWritten
      <3> QED
        BY <3>2, <3>4, <3>5, <3>6 DEF BodyDoes
    <2>3. CASE body = <<>>
      <3>1. stack = Closing
        <4>1. Closing \in Seq(BodyFrame \cup [op : {"release", "close"}])
          BY FramesTyped, <2>1
        <4>2. <<>> \o Closing = Closing
          BY <4>1, ConcatEmptySeq
        <4> QED
          BY <2>1, <2>3, <4>2
      <3> QED
        BY <1>3, <1>6, <3>1, ReleaseStep
    <2> QED
      BY <2>2, <2>3
  <1>7. CASE Ending
    <2>1. "quote" \in Chars
      BY DEF Chars
    <2> QED
      BY <1>2, <1>7, <2>1, CloseStep
  <1>8. CASE Over
    BY <1>8, TopDecides DEF Over
  <1> QED
    BY <1>4, <1>5, <1>6, <1>7, <1>8 DEF StrInv, Shape

LEMMA TinyStart == SInit => Tiny
  <1> SUFFICES ASSUME SInit, job.quoted PROVE Opening
    BY DEF Tiny
  <1>1. buf.out = <<>> /\ buf.resv = 0
    BY DEF SInit, BufInit, Rewound
  <1>2. job.quoted = TRUE
    BY DEF SInit
  <1> QED
    BY <1>1, <1>2 DEF SInit, Opening

LEMMA TinyStep ==
    ASSUME StrInv, Tiny, [SNext]_svars
    PROVE  Tiny'
  <1>1. CASE UNCHANGED svars
    BY <1>1 DEF svars, Tiny, Opening
  <1>2. CASE SNext
    <2>0. StrInv'
      BY <1>2, StrStep
    <2>1. /\ buf.left \in Nat /\ buf.left > 0 /\ Size(buf) = Len(buf.out) + buf.left
          /\ Len(buf.out) \in Nat
      BY InvFacts
    <2>2. buf'.left \in Nat /\ buf'.left > 0
      BY <2>0 DEF StrInv, BufInv, InBounds, Buffer
    <2>3. job' = job /\ Size(buf') = Size(buf) /\ buf'.left <= buf.left
      BY <1>2, Shrinks
    <2> SUFFICES ASSUME job'.quoted, Size(buf') < 3 PROVE buf'.left = 1
      BY DEF Tiny
    <2>4. CASE Opening
      <3>1. buf' = Appended(buf, "quote", job.flags) /\ buf.resv = 0 /\ buf.out = <<>>
        BY <1>2, <2>4, OpenStep DEF Opening
      <3>2. buf.left >= 2 => buf'.left = buf.left - 1
        BY <3>1, InvFacts, QuoteWritten
      <3>3. buf.left < 3
        BY <2>1, <2>3
      <3> QED
        BY <2>1, <2>2, <2>3, <3>2, <3>3
    <2>5. CASE buf.left = 1
      BY <2>2, <2>3, <2>5
    <2> QED
      BY <2>3, <2>4, <2>5 DEF Tiny
  <1> QED
    BY <1>1, <1>2

-----------------------------------------------------------------------------
(* From the first step to the last: what is in the buffer is what has been *)
(* written so far, and what is on the stack the rest of it.                *)
LEMMA NoBody == <<>> \o Closing = Closing
  <1>1. <<>> \in Seq(BodyFrame)
    BY EmptySeq
  <1>2. Closing \in Seq(BodyFrame \cup [op : {"release", "close"}])
    BY <1>1, FramesTyped
  <1> QED
    BY <1>2, ConcatEmptySeq

LEMMA TellsStart == SInit => Tells
  <1> SUFFICES ASSUME SInit, Sure(job, Size(buf))
               PROVE  TellOpening \/ TellWriting
    BY DEF Tells
  <1>0. StrInv
    BY StrStart
  <1>1. /\ buf.out = <<>> /\ buf.resv = 0 /\ rv = 0
        /\ stack = <<Write(job.str, 0, job.quoted)>>
    BY DEF SInit, BufInit, Rewound
  <1>2. /\ job \in Jobs /\ buf \in Buffer /\ buf.left \in Nat /\ buf.left > 0
        /\ Size(buf) \in Nat /\ job.quoted \in BOOLEAN
    BY <1>0, InvFacts
  <1>3. CASE job.quoted
    <2>1. job.quoted = TRUE
      BY <1>2, <1>3
    <2> QED
      BY <1>1, <1>3, <2>1 DEF TellOpening, Opening
  <1>4. CASE ~job.quoted
    <2>1. job.quoted = FALSE
      BY <1>2, <1>4
    <2>2. Writing
      <3>1. ~Opening /\ ~Holding /\ ~Ending /\ ~Over
        BY <1>4 DEF Opening, Holding, Ending, Over
      <3> QED
        BY <1>0, <3>1 DEF StrInv, Shape
    <2>3. BytesLeft(buf) = RoomOf(job, Size(buf))
      <3>1. Size(buf) = buf.left
        BY <1>1, <1>2 DEF Size
      <3> QED
        BY <1>1, <1>2, <1>4, <3>1 DEF BytesLeft, RoomOf
    <2>4. buf.out = (IF job.quoted THEN <<"quote">> ELSE <<>>)
      BY <1>1, <1>4
    <2> DEFINE body == <<Write(job.str, 0, FALSE)>>
    <2>5. body \in Seq(SoundFrame) /\ Going(job, Size(buf), buf, body)
      BY <1>2, <2>3, <2>4, StartGoing
    <2>6. stack = body
      BY <1>1, <2>1
    <2> HIDE DEF body
    <2>7. stack = body \o Closing
      <3>1. Closing = <<>>
        BY <1>4 DEF Closing
      <3> QED
        BY <2>5, <2>6, <3>1, ConcatEmptySeq
    <2> QED
      BY <1>1, <2>2, <2>5, <2>7 DEF TellWriting, Running
  <1> QED
    BY <1>3, <1>4

LEMMA TellsHeld ==
    ASSUME StrInv, SNext, TellHolding, Sure(job, Size(buf))
    PROVE  TellWriting'
  <1>0. /\ buf \in Buffer /\ buf.left \in Nat /\ buf.left > 0
        /\ Size(buf) \in Nat /\ Size(buf) = Len(buf.out) + buf.left /\ job \in Jobs
    BY InvFacts
  <1>1. /\ job' = job /\ rv' = rv /\ buf' = Reserved(buf, 1) /\ Writing'
        /\ stack' = <<Write(job.str, 0, FALSE)>> \o Closing
    BY HoldStep DEF TellHolding
  <1>2. job.quoted /\ buf.resv = 0 /\ buf.out = <<"quote">> /\ rv = 0
    BY DEF TellHolding, Holding
  <1>3. buf'.out = <<"quote">> /\ buf'.left = buf.left /\ buf'.resv = 1 /\ buf' \in Buffer
    <2>1. buf' = [out |-> buf.out, left |-> buf.left, resv |-> 1]
      BY <1>1, <1>2 DEF Reserved
    <2> QED
      BY <1>0, <1>2, <2>1 DEF Buffer
  <1>4. Size(buf') = Size(buf)
    BY <1>1, Shrinks
  <1>5. BytesLeft(buf') = RoomOf(job, Size(buf))
    <2>1. Len(buf.out) = 1
      BY <1>2
    <2>2. Size(buf) >= 3
      BY <1>0, <1>2 DEF Sure, RoomOf
    <2> QED
      BY <1>0, <1>2, <1>3, <2>1, <2>2 DEF BytesLeft, RoomOf
  <1> DEFINE body == <<Write(job.str, 0, FALSE)>>
  <1>6. body \in Seq(SoundFrame) /\ Going(job, Size(buf), buf', body)
    <2>1. buf'.out = (IF job.quoted THEN <<"quote">> ELSE <<>>)
      BY <1>2, <1>3
    <2> QED
      BY <1>0, <1>3, <1>5, <2>1, StartGoing
  <1>7. stack' = body \o Closing /\ Closing' = Closing
    BY <1>1 DEF Closing
  <1> HIDE DEF body
  <1>8. Running'
    BY <1>1, <1>2, <1>4, <1>6, <1>7 DEF Running
  <1> QED
    BY <1>1, <1>8 DEF TellWriting

LEMMA TellsReleased ==
    ASSUME StrInv, SNext, Writing, stack = Closing, Sure(job, Size(buf)),
           Going(job, Size(buf), buf, <<>>) \/ Halted(job, Size(buf), buf, <<>>)
    PROVE  TellEnding'
  <1>0. /\ buf \in Buffer /\ buf.left \in Nat /\ buf.left > 0 /\ buf.resv \in Nat
        /\ Size(buf) \in Nat /\ job \in Jobs
    BY InvFacts
  <1>1. job' = job /\ buf' = Reserved(buf, -1) /\ Ending'
    BY ReleaseStep
  <1>2. Told(job, Size(buf), buf.out) /\ (Filled(job, Size(buf)) => BytesLeft(buf) = 0)
    BY <1>0, GoneThrough
  <1>3. buf'.out = buf.out /\ buf'.left = buf.left /\ Size(buf') = Size(buf)
    BY <1>1 DEF Reserved, Size
  <1>4. job.quoted
    BY <1>1 DEF Ending
  <1>5. buf.resv = 1 /\ buf.left > buf.resv
    <2>1. Size(buf) >= 3
      BY <1>0, <1>4 DEF Sure, RoomOf
    <2> QED
      BY <1>4, <2>1 DEF Writing, Held
  <1>6. BytesLeft(buf) = 0 => buf.left = 2
    BY <1>0, <1>5 DEF BytesLeft
  <1> QED
    BY <1>1, <1>2, <1>3, <1>6 DEF TellEnding

LEMMA TellsWritten ==
    ASSUME StrInv, SNext, TellWriting, Sure(job, Size(buf))
    PROVE  TellWriting' \/ TellEnding'
  <1>0. /\ buf \in Buffer /\ buf.left \in Nat /\ buf.left > 0 /\ buf.resv \in Nat
        /\ Size(buf) \in Nat /\ job \in Jobs /\ job.flags \in Flags
    BY InvFacts
  <1>1. job' = job /\ Size(buf') = Size(buf)
    BY Shrinks
  <1>2. Closing' = Closing
    BY <1>1 DEF Closing
  <1>3. CASE Running
    <2>1. PICK body \in Seq(SoundFrame) :
             stack = body \o Closing /\ Going(job, Size(buf), buf, body)
      BY <1>3 DEF Running
    <2>2. CASE body = <<>>
      <3>1. stack = Closing
        BY <2>1, <2>2, NoBody
      <3> QED
        BY <2>1, <2>2, <3>1, TellsReleased DEF TellWriting
    <2>3. CASE body # <<>>
      <3>1. PICK next \in Seq(SoundFrame) : BodyMove(body, next)
        BY <1>3, <2>1, <2>3, BodyMoves DEF Running
      <3>2. Going(job, Size(buf), buf', next) \/ Halted(job, Size(buf), buf', next)
        BY <1>0, <2>1, <3>1, GoingOn DEF BodyMove
      <3>3. SoundFrame \subseteq BodyFrame
        BY DEF SoundFrame
      <3>4. body \in Seq(BodyFrame) /\ next \in Seq(BodyFrame)
        BY <3>3, SeqMonotonic
      <3>5. Writing'
        BY <2>1, <2>3, <3>4, WritingSteps DEF TellWriting
      <3>6. stack' = next \o Closing' /\ rv' = 0
        BY <1>2, <3>1 DEF BodyMove
      <3>7. CASE Going(job, Size(buf), buf', next)
        <4>1. Running'
          BY <1>1, <3>6, <3>7 DEF Running
        <4> QED
          BY <3>5, <4>1 DEF TellWriting
      <3>8. CASE Halted(job, Size(buf), buf', next)
        <4>1. BodyFrame' = BodyFrame
          BY DEF BodyFrame, WriteFrame, SecondFrame, FreeFrame, RangeFrame
        <4>2. CutOff'
          BY <1>1, <3>4, <3>6, <3>8, <4>1 DEF CutOff
        <4> QED
          BY <3>5, <4>2 DEF TellWriting
      <3> QED
        BY <3>2, <3>7, <3>8
    <2> QED
      BY <2>2, <2>3
  <1>4. CASE CutOff
    <2>1. PICK body \in Seq(BodyFrame) :
             stack = body \o Closing /\ Halted(job, Size(buf), buf, body)
      BY <1>4 DEF CutOff
    <2>2. CASE body = <<>>
      <3>1. stack = Closing
        BY <2>1, <2>2, NoBody
      <3> QED
        BY <2>1, <2>2, <3>1, TellsReleased DEF TellWriting
    <2>3. CASE body # <<>>
      <3>1. BodyStep /\ Writing'
        BY <2>1, <2>3, WritingSteps DEF TellWriting
      <3>2. BytesLeft(buf) = 0 => BytesLeft(buf') = 0
        <4>1. ASSUME NEW t \in Seq(Bytes), buf' = Written(buf, t)
              PROVE  BytesLeft(buf) = 0 => BytesLeft(buf') = 0
          BY <1>0, <4>1, WrittenFits
        <4>2. CASE BufferKept
          BY <4>2 DEF BufferKept
        <4>3. CASE MessageWritten
          BY <4>1, <4>3, MessagesTyped DEF MessageWritten
        <4>4. CASE CharWritten
          <5>1. PICK c \in Chars : buf' = Appended(buf, c, job.flags)
            BY <4>4 DEF CharWritten
          <5>2. Escaped(c, job.flags) \in Seq(Bytes)
            BY <1>0, EscapeSize
          <5> QED
            BY <4>1, <5>1, <5>2 DEF Appended
        <4> QED
          BY <3>1, <4>2, <4>3, <4>4 DEF BodyStep, BodyDoes
      <3>3. PICK next \in Seq(BodyFrame') : stack' = next \o Closing'
        BY <3>1 DEF Writing
      <3>4. Halted(job, Size(buf), buf', next)
        BY <2>1, <2>3, <3>2 DEF Halted
      <3>5. CutOff'
        BY <1>1, <3>3, <3>4 DEF CutOff
      <3> QED
        BY <3>1, <3>5 DEF TellWriting
    <2> QED
      BY <2>2, <2>3
  <1> QED
    BY <1>3, <1>4 DEF TellWriting

LEMMA TellsStep ==
    ASSUME StrInv, Tells, [SNext]_svars
    PROVE  Tells'
  <1>1. CASE UNCHANGED svars
    <2>1. buf' = buf /\ job' = job /\ stack' = stack /\ rv' = rv
      BY <1>1 DEF svars
    <2>2. BodyFrame' = BodyFrame /\ Closing' = Closing /\ Held' = Held
      BY <2>1 DEF BodyFrame, WriteFrame, SecondFrame, FreeFrame, RangeFrame, Closing, Held
    <2>3. (TellOpening => TellOpening') /\ (TellHolding => TellHolding')
      BY <2>1 DEF TellOpening, TellHolding, Opening, Holding, Begun
    <2>4. TellWriting => TellWriting'
      BY <2>1, <2>2 DEF TellWriting, Writing, Running, CutOff, Begun
    <2>5. TellEnding => TellEnding'
      BY <2>1 DEF TellEnding, Ending, Begun
    <2>6. TellOver => TellOver'
      BY <2>1 DEF TellOver, Over, Begun
    <2>7. Sure(job', Size(buf')) <=> Sure(job, Size(buf))
      BY <2>1
    <2> QED
      BY <2>3, <2>4, <2>5, <2>6, <2>7, Zenon DEF Tells
  <1>2. CASE SNext
    <2>0. /\ buf \in Buffer /\ buf.left \in Nat /\ buf.left > 0 /\ buf.out \in Seq(Bytes)
          /\ Size(buf) \in Nat /\ Size(buf) = Len(buf.out) + buf.left /\ job.flags \in Flags
      BY InvFacts
    <2>1. job' = job /\ Size(buf') = Size(buf)
      BY <1>2, Shrinks
    <2> SUFFICES ASSUME Sure(job, Size(buf))
                 PROVE  TellHolding' \/ TellWriting' \/ TellEnding' \/ TellOver'
      BY <2>1 DEF Tells
    <2>2. job.quoted => Size(buf) >= 3
      BY <2>0 DEF Sure, RoomOf
    <2>3. CASE TellOpening
      <3>1. /\ buf' = Appended(buf, "quote", job.flags) /\ rv' = rv /\ Holding'
            /\ rv = 0 /\ buf.resv = 0 /\ buf.out = <<>> /\ job.quoted
        BY <1>2, <2>3, OpenStep DEF TellOpening, Opening
      <3>2. buf.left >= 2 => buf'.out = buf.out \o <<"quote">>
        BY <2>0, <3>1, QuoteWritten
      <3>3. buf.left >= 2
        BY <2>0, <2>2, <3>1
      <3>4. <<>> \o <<"quote">> = <<"quote">>
        OBVIOUS
      <3> QED
        BY <3>1, <3>2, <3>3, <3>4 DEF TellHolding
    <2>4. CASE TellHolding
      BY <1>2, <2>4, TellsHeld
    <2>5. CASE TellWriting
      BY <1>2, <2>5, TellsWritten
    <2>6. CASE TellEnding
      <3>1. buf' = Appended(buf, "quote", job.flags) /\ Over' /\ job.quoted /\ buf.resv = 0
        BY <1>2, <2>6, CloseStep DEF TellEnding, Ending
      <3>2. buf.left >= 2
        BY <2>2, <2>6, <3>1 DEF TellEnding, Ending
      <3>3. buf'.out = buf.out \o <<"quote">> /\ buf'.left = buf.left - 1
        BY <2>0, <3>1, <3>2, QuoteWritten
      <3>4. /\ Told(job, Size(buf), buf.out)
            /\ Filled(job, Size(buf)) => buf.left = 2
        BY <2>6 DEF TellEnding
      <3>5. Filled(job, Size(buf)) => buf'.left = 1
        BY <2>0, <3>3, <3>4
      <3>6. \E out \in Seq(Bytes) : buf'.out = out \o <<"quote">> /\ Told(job, Size(buf), out)
        BY <2>0, <3>3, <3>4, Zenon
      <3>7. Bytes' = Bytes
        BY DEF Bytes, Chars
      <3> QED
        BY <2>1, <3>1, <3>5, <3>6, <3>7 DEF TellOver
    <2>7. CASE TellOver
      BY <1>2, <2>7, TopDecides DEF TellOver, Over
    <2> QED
      BY <2>3, <2>4, <2>5, <2>6, <2>7 DEF Tells
  <1> QED
    BY <1>1, <1>2

-----------------------------------------------------------------------------
(* What is found at the end.                                               *)

\* the invariant: the one that the quotes need, and what the buffer holds
StrFull == StrInv /\ Tells /\ Tiny

LEMMA StrFullAlways == SSpec => []StrFull
  <1>1. SInit => StrFull
    BY StrStart, TellsStart, TinyStart DEF StrFull
  <1>2. StrFull /\ [SNext]_svars => StrFull'
    BY StrStep, TellsStep, TinyStep DEF StrFull
  <1> QED
    BY <1>1, <1>2, PTL DEF SSpec

\* at the end, for strings that are sound and buffers with room for the quotes
LEMMA AtTheEnd ==
    ASSUME StrInv, Tells, Ended, Sure(job, Size(buf))
    PROVE  /\ \E out \in Seq(Bytes) :
                 /\ buf.out = IF job.quoted THEN out \o <<"quote">> ELSE out
                 /\ Told(job, Size(buf), out)
           /\ Filled(job, Size(buf)) => buf.left = 1
  <1>0. /\ buf \in Buffer /\ buf.left \in Nat /\ buf.left > 0 /\ buf.resv \in Nat
        /\ Size(buf) \in Nat /\ job \in Jobs /\ buf.out \in Seq(Bytes)
    BY InvFacts
  <1>1. ~TellOpening /\ ~TellHolding /\ ~TellEnding
    BY DEF TellOpening, TellHolding, TellEnding, Opening, Holding, Ending, Ended
  <1>2. CASE TellOver
    <2>1. /\ job.quoted
          /\ \E out \in Seq(Bytes) : buf.out = out \o <<"quote">> /\ Told(job, Size(buf), out)
          /\ Filled(job, Size(buf)) => buf.left = 1
      BY <1>2 DEF TellOver, Over
    <2> QED
      BY <2>1
  <1>3. CASE TellWriting
    <2>1. ASSUME NEW body \in Seq(BodyFrame), stack = body \o Closing
          PROVE  body = <<>> /\ Closing = <<>>
      <3> DEFINE A == BodyFrame \cup [op : {"release", "close"}]
      <3>1. body \in Seq(A) /\ Closing \in Seq(A)
        BY FramesTyped
      <3> HIDE DEF A
      <3>2. body \o Closing = <<>> <=> body = <<>> /\ Closing = <<>>
        BY <3>1, ConcatEqualIffEmpty
      <3> QED
        BY <2>1, <3>2 DEF Ended
    <2>2. Seq(SoundFrame) \subseteq Seq(BodyFrame)
      <3>1. SoundFrame \subseteq BodyFrame
        BY DEF SoundFrame
      <3> QED
        BY <3>1, SeqMonotonic
    <2>3. Going(job, Size(buf), buf, <<>>) \/ Halted(job, Size(buf), buf, <<>>)
      BY <1>3, <2>1, <2>2 DEF TellWriting, Running, CutOff
    <2>4. Told(job, Size(buf), buf.out) /\ (Filled(job, Size(buf)) => BytesLeft(buf) = 0)
      BY <1>0, <2>3, GoneThrough
    <2>5. ~job.quoted
      <3>1. Closing = <<>>
        BY <1>3, <2>1 DEF TellWriting, Writing
      <3>2. <<Frame("release"), Frame("close")>> # <<>>
        OBVIOUS
      <3> QED
        BY <3>1, <3>2 DEF Closing
    <2>6. BytesLeft(buf) = 0 => buf.left = 1
      <3>1. buf.resv = 0
        BY <1>3, <2>5 DEF TellWriting, Writing, Held
      <3> QED
        BY <1>0, <3>1 DEF BytesLeft
    <2> QED
      BY <1>0, <2>4, <2>5, <2>6
  <1> QED
    BY <1>1, <1>2, <1>3 DEF Tells

\* between the quotes
LEMMA BetweenQuotes ==
    ASSUME NEW x \in Seq(Bytes)
    PROVE  LET s == (<<"quote">> \o x) \o <<"quote">> IN SubSeq(s, 2, Len(s) - 1) = x
  <1> DEFINE q == <<"quote">>
             a == q \o x
             s == a \o q
             m == SubSeq(s, 2, Len(s) - 1)
  <1>0. q \in Seq(Bytes) /\ Len(q) = 1 /\ Len(x) \in Nat
    BY LenProperties DEF Bytes, Chars
  <1>1. /\ a \in Seq(Bytes) /\ Len(a) = 1 + Len(x)
        /\ \A i \in 1..(1 + Len(x)) : a[i] = IF i <= 1 THEN q[i] ELSE x[i - 1]
    <2> HIDE DEF q
    <2> QED
      BY <1>0, ConcatProperties
  <1>2. /\ s \in Seq(Bytes) /\ Len(s) = 2 + Len(x)
        /\ \A i \in 1..(2 + Len(x)) : s[i] = IF i <= 1 + Len(x) THEN a[i] ELSE q[i - (1 + Len(x))]
    <2> HIDE DEF q, a
    <2>1. /\ s \in Seq(Bytes) /\ Len(s) = Len(a) + Len(q)
          /\ \A i \in 1..(Len(a) + Len(q)) : s[i] = IF i <= Len(a) THEN a[i] ELSE q[i - Len(a)]
      BY <1>0, <1>1, ConcatProperties
    <2> HIDE DEF s
    <2>2. Len(a) + Len(q) = 2 + Len(x) /\ Len(a) = 1 + Len(x)
      BY <1>0, <1>1
    <2> QED
      BY <2>1, <2>2, Zenon
  <1> HIDE DEF q, a, s
  <1>3. m \in Seq(Bytes) /\ Len(m) = Len(x) /\ \A i \in 1..Len(x) : m[i] = s[i + 1]
    <2>1. Len(s) - 1 = 1 + Len(x)
      BY <1>0, <1>2
    <2>2. m = SubSeq(s, 2, 1 + Len(x))
      BY <2>1
    <2>3. ASSUME NEW n \in Nat, n + 2 = Len(s)
          PROVE  LET p == SubSeq(s, 2, 1 + n) IN
                 p \in Seq(Bytes) /\ Len(p) = n /\ \A i \in 1..n : p[i] = s[i + 1]
      BY <1>2, <2>3
    <2> HIDE DEF m
    <2> QED
      BY <1>0, <1>2, <2>2, <2>3
  <1> HIDE DEF m
  <1>4. \A i \in 1..Len(x) : m[i] = x[i]
    <2> SUFFICES ASSUME NEW i \in 1..Len(x) PROVE m[i] = x[i]
      OBVIOUS
    <2>1. i + 1 \in 1..(2 + Len(x)) /\ i + 1 <= 1 + Len(x) /\ i + 1 \in 1..(1 + Len(x))
          /\ ~(i + 1 <= 1) /\ (i + 1) - 1 = i
      BY <1>0
    <2> QED
      BY <1>1, <1>2, <1>3, <2>1
  <1>5. m = x
    BY <1>3, <1>4, SeqEqual
  <1> QED
    BY <1>5 DEF m, s, a, q

-----------------------------------------------------------------------------
(* The properties, as V8String states them.                                *)
LEMMA InsideIs ==
    ASSUME NEW w \in Seq(Chars), NEW t \in Seq(Bytes), job \in Jobs, NEW out,
           out = Begins(job, w) \o t,
           buf.out = IF job.quoted THEN out \o <<"quote">> ELSE out
    PROVE  Inside = Rendering(job.flags)[w] \o t
  <1> DEFINE r == Rendering(job.flags)[w]
             q == <<"quote">>
  <1>1. job.flags \in Flags
    BY JobTyped
  <1>2. r \in Seq(Bytes)
    BY <1>1, RenderingFacts
  <1>3. q \in Seq(Bytes)
    BY DEF Bytes, Chars
  <1> HIDE DEF r
  <1>4. r \o t \in Seq(Bytes)
    BY <1>2, ConcatProperties
  <1>5. CASE job.quoted
    <2> HIDE DEF q
    <2>1. out = (q \o r) \o t /\ buf.out = out \o q
      BY <1>5 DEF Begins, q, r
    <2>2. (q \o r) \o t = q \o (r \o t)
      BY <1>2, <1>3, ConcatAssociative, SMTT(30)
    <2>3. buf.out = (q \o (r \o t)) \o q
      BY <2>1, <2>2
    <2>4. Inside = SubSeq((q \o (r \o t)) \o q, 2, Len((q \o (r \o t)) \o q) - 1)
      BY <1>5, <2>3, Zenon DEF Inside
    <2>5. Inside = r \o t
      BY <1>4, <2>4, BetweenQuotes DEF q
    <2> QED
      BY <2>5 DEF r
  <1>6. CASE ~job.quoted
    <2>1. out = (<<>> \o r) \o t /\ Inside = out
      BY <1>6 DEF Begins, Inside, r
    <2>2. <<>> \o r = r
      BY <1>2, ConcatEmptySeq
    <2> QED
      BY <2>1, <2>2 DEF r
  <1> QED
    BY <1>5, <1>6

LEMMA InsideTold ==
    ASSUME StrInv, Tells, Ended, Sure(job, Size(buf))
    PROVE  /\ Fits(job, Size(buf)) => Inside = Rendered[Contents(job)]
           /\ Marked(job, Size(buf)) =>
                 \/ Inside = Rendered[Contents(job)]
                 \/ \E w \in Seq(Chars), v \in Seq(Chars) :
                       Contents(job) = w \o v /\ Inside = Rendered[w] \o Marker
           /\ Filled(job, Size(buf)) => buf.left = 1
  <1>0. job \in Jobs /\ job.flags \in Flags
    BY InvFacts
  <1>1. PICK out \in Seq(Bytes) :
           /\ buf.out = IF job.quoted THEN out \o <<"quote">> ELSE out
           /\ Told(job, Size(buf), out)
    BY AtTheEnd
  <1>2. Rendered = Rendering(job.flags)
    BY <1>0, RenderedIs
  <1>3. ASSUME out = Begins(job, Contents(job))
        PROVE  Inside = Rendered[Contents(job)]
    <2>1. Contents(job) \in Seq(Chars) /\ Begins(job, Contents(job)) \in Seq(Bytes)
      BY <1>0, JobTyped
    <2>2. <<>> \in Seq(Bytes) /\ out = Begins(job, Contents(job)) \o <<>>
      BY <1>3, <2>1, ConcatEmptySeq, EmptySeq
    <2>3. Inside = Rendering(job.flags)[Contents(job)] \o <<>>
      BY <1>0, <1>1, <2>1, <2>2, InsideIs
    <2>4. Rendering(job.flags)[Contents(job)] \in Seq(Bytes)
      BY <1>0, <2>1, RenderingFacts
    <2> QED
      BY <1>2, <2>3, <2>4, ConcatEmptySeq
  <1>4. ASSUME Broken(job, out)
        PROVE  \E w \in Seq(Chars), v \in Seq(Chars) :
                  Contents(job) = w \o v /\ Inside = Rendered[w] \o Marker
    <2>1. PICK w \in Seq(Chars), v \in Seq(Chars) :
             Contents(job) = w \o v /\ out = Begins(job, w) \o Marker
      BY <1>4 DEF Broken
    <2>2. Inside = Rendering(job.flags)[w] \o Marker
      BY <1>0, <1>1, <2>1, MessagesTyped, InsideIs
    <2> QED
      BY <1>2, <2>1, <2>2
  <1> QED
    BY <1>1, <1>3, <1>4, AtTheEnd DEF Told

\* a string in one piece, and what it is sound to ask for
LEMMA FlatIsSound ==
    ASSUME NEW s \in Strs, Flat(s)
    PROVE  Sound[Half][s] /\ Content[Half][s] = FlatChars(s) /\ FlatChars(s) \in Seq(Chars)
  <1>1. Heap[s].rep # "cons"
    BY DEF Flat
  <1>2. Half \in 0..MaxDepth
    BY HalfFacts
  <1>3. Sound[Half][s]
    BY <1>1, <1>2, SoundSteps DEF SoundWith
  <1>4. Content[Half][s] = FlatChars(s)
    BY <1>1, <1>2, ContentSteps DEF ContentWith
  <1> QED
    BY <1>3, <1>4, FlatCharsTyped

LEMMA WholeFacts ==
    ASSUME StrInv
    PROVE  /\ Content[MaxDepth \div 2][job.str] = Contents(job)
           /\ Sound[MaxDepth \div 2][job.str] <=> Sound[Half][job.str]
           /\ Needed(Contents(job)) = Cost(Contents(job), job.flags)
           /\ Needed(Contents(job)) \in Nat
           /\ Room = RoomOf(job, Size(buf)) /\ Room \in Int
           /\ Len(Marker) \in Nat
  <1>1. job \in Jobs /\ job.quoted \in BOOLEAN /\ Size(buf) \in Nat
    BY InvFacts
  <1>2. Contents(job) \in Seq(Chars)
    BY <1>1, JobTyped
  <1>3. Needed(Contents(job)) = Cost(Contents(job), job.flags)
    BY NeededIsCost
  <1>4. Room = RoomOf(job, Size(buf)) /\ Room \in Int
    BY <1>1 DEF Room, RoomOf
  <1> QED
    BY <1>2, <1>3, <1>4, CostSteps, MessagesTyped, LenProperties DEF Contents, Half

(* A string whose characters fit the buffer is written whole: nothing is   *)
(* lost where a chunk or a part ends, nothing is added, and no look-ahead  *)
(* cuts it for fear of what follows.                                       *)
THEOREM WholeWhenFits == SSpec => []WholeIfFits
  <1>1. StrFull => WholeIfFits
    <2> SUFFICES ASSUME StrInv, Tells, Ended, Sound[MaxDepth \div 2][job.str],
                        Needed(Contents(job)) <= Room
                 PROVE  Inside = Rendered[Contents(job)]
      BY WholeFacts DEF StrFull, WholeIfFits
    <2>1. Sure(job, Size(buf)) /\ Fits(job, Size(buf))
      <3>1. /\ Sound[MaxDepth \div 2][job.str] <=> Sound[Half][job.str]
            /\ Needed(Contents(job)) = Cost(Contents(job), job.flags)
            /\ Needed(Contents(job)) \in Nat
            /\ Room = RoomOf(job, Size(buf)) /\ Room \in Int
        BY WholeFacts
      <3>2. Room >= 0
        BY <3>1
      <3> QED
        BY <3>1, <3>2 DEF Sure, Fits
    <2> QED
      BY <2>1, InsideTold
  <1> QED
    BY <1>1, StrFullAlways, PTL

(* A string that is cut shows it: to a reader by the whole marker, right   *)
(* after a beginning of the string, if it is in one piece; and to          *)
(* jsstr_print's callers by the room that is left, whatever it is made of. *)
THEOREM CutsShown == SSpec => []CutIsShown
  <1>1. StrFull => CutIsShown
    <2> SUFFICES ASSUME StrInv, Tells, Tiny, Ended PROVE CutIsShown
      BY DEF StrFull, CutIsShown, CutIsMarked, CutFills
    <2>0. /\ Content[MaxDepth \div 2][job.str] = Contents(job)
          /\ Sound[MaxDepth \div 2][job.str] <=> Sound[Half][job.str]
          /\ Needed(Contents(job)) = Cost(Contents(job), job.flags)
          /\ Needed(Contents(job)) \in Nat
          /\ Room = RoomOf(job, Size(buf)) /\ Room \in Int
          /\ Len(Marker) \in Nat
      BY WholeFacts
    <2>i. /\ job.str \in Strs /\ job.quoted \in BOOLEAN /\ Size(buf) \in Nat
          /\ buf.left \in Nat /\ buf.left > 0 /\ Len(buf.out) \in Nat
          /\ Size(buf) = Len(buf.out) + buf.left
      BY InvFacts
    <2>1. ASSUME Flat(job.str), Room >= Len(Marker)
          PROVE  \/ Inside = Rendered[FlatChars(job.str)]
                 \/ \E k \in 0..Len(FlatChars(job.str)) :
                       Inside = Rendered[SubSeq(FlatChars(job.str), 1, k)] \o Marker
      <3>1. /\ Sound[Half][job.str] /\ Contents(job) = FlatChars(job.str)
            /\ Contents(job) \in Seq(Chars)
        BY <2>i, <2>1, FlatIsSound DEF Contents
      <3>2. Room >= 0
        BY <2>0, <2>1
      <3>3. Sure(job, Size(buf)) /\ Marked(job, Size(buf))
        BY <2>0, <2>1, <3>1, <3>2 DEF Sure, Marked
      <3>4. CASE Inside = Rendered[Contents(job)]
        BY <3>1, <3>4
      <3>5. ASSUME NEW w \in Seq(Chars), NEW v \in Seq(Chars),
                   Contents(job) = w \o v, Inside = Rendered[w] \o Marker
            PROVE  \E k \in 0..Len(Contents(job)) :
                      Inside = Rendered[SubSeq(Contents(job), 1, k)] \o Marker
        <4>1. Len(w) \in 0..Len(w \o v)
          <5>1. Len(w) \in Nat /\ Len(v) \in Nat /\ Len(w \o v) = Len(w) + Len(v)
            BY LenProperties, ConcatProperties
          <5> QED
            BY <5>1
        <4>2. SubSeq(w \o v, 1, Len(w)) = w
          OBVIOUS
        <4> QED
          BY <3>5, <4>1, <4>2
      <3> QED
        BY <3>1, <3>3, <3>4, <3>5, InsideTold
    <2>2. ASSUME job.flags = "ascii", Sound[Half][job.str], Needed(Contents(job)) > Room
          PROVE  buf.left = 1
      <3>1. CASE Room >= 0
        <4>1. Sure(job, Size(buf)) /\ Filled(job, Size(buf))
          BY <2>0, <2>2, <3>1 DEF Sure, Filled, Fits
        <4> QED
          BY <4>1, InsideTold
      <3>2. CASE Room < 0
        <4>1. job.quoted /\ Size(buf) < 3
          BY <2>0, <2>i, <3>2 DEF RoomOf
        <4>2. ~Opening
          BY DEF Opening, Ended
        <4> QED
          BY <4>1, <4>2 DEF Tiny
      <3> QED
        BY <2>0, <3>1, <3>2
    <2> QED
      BY <2>0, <2>1, <2>2 DEF CutIsShown, CutIsMarked, CutFills
  <1> QED
    BY <1>1, StrFullAlways, PTL
=============================================================================
