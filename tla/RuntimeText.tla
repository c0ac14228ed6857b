----------------------------- MODULE RuntimeText -----------------------------
(***************************************************************************)
(* The strings that dotnet.native.js hands to the .NET code: UTF-16 in     *)
(* JavaScript, UTF-8 ended by a null in the heap.  A behaviour is one call *)
(* that copies a text into a buffer with other bytes in it.                *)
(*                                                                         *)
(* UTF8ArrayToString gives more than 16 bytes to the TextDecoder of the    *)
(* browser; the texts here are shorter.                                    *)
(***************************************************************************)
EXTENDS Integers, SequencesExt

CONSTANTS
    Scalar,      \* code points, and surrogates that stand alone
    MaxLength,   \* bound: scalars in a text
    MaxRoom      \* bound: bytes in a buffer

\* What they are: a text has no null.
ConstantsOK ==
    /\ Scalar \subseteq Nat \ {0} /\ \A c \in Scalar : c <= 1114111
    /\ MaxLength \in Nat /\ MaxRoom \in Nat

VARIABLES
    text,        \* the scalars of the JavaScript string
    room,        \* what the buffer holds
    heap,        \* the buffer and a byte behind it
    answer       \* what the call returned, -1 as an error

vars == <<text, room, heap, answer>>

Old == 255       \* a byte that no text has

Untouched(n) == [i \in 1 .. n |-> Old]

TypeOK ==
    /\ text \in Seq(Scalar) /\ room \in 0 .. MaxRoom
    /\ heap \in Seq(0 .. 255) /\ answer \in Int

Init == text = <<>> /\ room = 0 /\ heap = <<>> /\ answer = -1

-----------------------------------------------------------------------------
(* Strings.                                                                *)

IsSurrogate(u) == 55296 <= u /\ u <= 57343

\* A scalar as charCodeAt shows it.
UnitsOf(c) ==
    IF c < 65536 THEN <<c>>
    ELSE <<55296 + (c - 65536) \div 1024, 56320 + ((c - 65536) % 1024)>>

Units(s) == FlattenSeq([i \in DOMAIN s |-> UnitsOf(s[i])])

\* A surrogate is taken with the unit behind it, whatever that is.
NextUnit(s, i) == IF IsSurrogate(s[i]) THEN i + 2 ELSE i + 1

\* What a unit counts for in lengthBytesUTF8.
SizeOfUnit(u) ==
    IF u <= 127 THEN 1 ELSE IF u <= 2047 THEN 2 ELSE IF IsSurrogate(u) THEN 4 ELSE 3

\* A turn of its loop.
countUnit(s, t) ==
    IF t.i > Len(s) THEN t
    ELSE [i |-> NextUnit(s, t.i), len |-> t.len + SizeOfUnit(s[t.i])]

lengthBytesUTF8(s) ==
    LET turn[k \in 0 .. Len(s)] ==
            IF k = 0 THEN [i |-> 1, len |-> 0] ELSE countUnit(s, turn[k - 1])
    IN turn[Len(s)].len

\* The code point of two surrogates.
Pair(a, b) == 65536 + (a % 1024) * 1024 + (b % 1024)

\* The code point at unit i.  charCodeAt gives NaN behind the end, whose bits
\* are 0.
CodePoint(s, i) ==
    IF ~IsSurrogate(s[i]) THEN s[i]
    ELSE Pair(s[i], IF i < Len(s) THEN s[i + 1] ELSE 0)

Bytes(u) ==
    IF u <= 127 THEN <<u>>
    ELSE IF u <= 2047 THEN <<192 + u \div 64, 128 + (u % 64)>>
    ELSE IF u <= 65535 THEN <<224 + u \div 4096, 128 + ((u \div 64) % 64), 128 + (u % 64)>>
    ELSE <<240 + u \div 262144, 128 + ((u \div 4096) % 64), 128 + ((u \div 64) % 64),
           128 + (u % 64)>>

\* A mutant: no place is kept for the null.
RoomForText(n) == n

\* endIdx - startIdx.
RoomForBytes(n) == n - 1

\* A turn of the loop of stringToUTF8Array, which breaks where the bytes of a
\* code point have no room.
writeUnit(s, n, t) ==
    LET b == Bytes(CodePoint(s, t.i)) IN
    IF t.i > Len(s) THEN t
    ELSE IF Len(t.bytes) + Len(b) > n THEN [t EXCEPT !.i = Len(s) + 1]
    ELSE [i |-> NextUnit(s, t.i), bytes |-> t.bytes \o b]

\* The bytes that have room before the null.
Encoded(s, n) ==
    LET turn[k \in 0 .. Len(s)] ==
            IF k = 0 THEN [i |-> 1, bytes |-> <<>>]
            ELSE writeUnit(s, RoomForBytes(n), turn[k - 1])
    IN turn[Len(s)].bytes

\* stringToUTF8Array of the units s into the first n bytes of h.
Stored(s, h, n) ==
    IF n <= 0 THEN h
    ELSE LET b == Append(Encoded(s, n), 0)
             size == IF Len(b) > Len(h) THEN Len(b) ELSE Len(h)
         IN [i \in 1 .. size |-> IF i <= Len(b) THEN b[i] ELSE h[i]]

\* The six bits of a byte of h that continues another.
Low(h, i) == IF i <= Len(h) THEN h[i] % 64 ELSE 0

\* The code points of two, three and four bytes, of which u1 and on are six bits.
OfTwo(u0, u1) == (u0 % 32) * 64 + u1
OfThree(u0, u1, u2) == (u0 % 16) * 4096 + u1 * 64 + u2
OfFour(u0, u1, u2, u3) == (u0 % 8) * 262144 + u1 * 4096 + u2 * 64 + u3

\* A turn of the second loop of UTF8ArrayToString.
readByte(h, end, t) ==
    LET u0 == h[t.i]  u1 == Low(h, t.i + 1)  u2 == Low(h, t.i + 2)  u3 == Low(h, t.i + 3) IN
    IF t.i >= end THEN t
    ELSE IF u0 < 128 THEN [i |-> t.i + 1, str |-> Append(t.str, u0)]
    ELSE IF u0 \div 32 = 6 THEN [i |-> t.i + 2, str |-> Append(t.str, OfTwo(u0, u1))]
    ELSE IF u0 \div 16 = 14
    THEN [i |-> t.i + 3, str |-> t.str \o UnitsOf(OfThree(u0, u1, u2))]
    ELSE [i |-> t.i + 4, str |-> t.str \o UnitsOf(OfFour(u0, u1, u2, u3))]

\* UTF8ArrayToString of the bytes before the first null.
UTF8ArrayToString(h) ==
    LET end == SelectInSeq(Append(h, 0), LAMBDA b : b = 0)
        turn[k \in 0 .. Len(h)] ==
            IF k = 0 THEN [i |-> 1, str |-> <<>>] ELSE readByte(h, end, turn[k - 1])
    IN turn[Len(h)].str

-----------------------------------------------------------------------------
(* The calls.                                                              *)

\* stringToUTF8, as the names of time zones and files are copied.
StringToUTF8(c, n) ==
    /\ heap = <<>>
    /\ text' = c /\ room' = n
    /\ heap' = Stored(Units(c), Untouched(n + 1), n)
    /\ answer' = IF n > 0 THEN Len(Encoded(Units(c), n)) ELSE 0

\* getcwd: the length with the null, or that the buffer is too small.
Getcwd(c, n) ==
    /\ heap = <<>>
    /\ text' = c /\ room' = n
    /\ IF n = 0 \/ n < lengthBytesUTF8(Units(c)) + 1
       THEN heap' = Untouched(n + 1) /\ answer' = -1
       ELSE /\ heap' = Stored(Units(c), Untouched(n + 1), n)
            /\ answer' = lengthBytesUTF8(Units(c))

\* strftime gives its text to the caller only if the array with the null fits;
\* 0 is its error.
Strftime(c, n) ==
    LET length == lengthBytesUTF8(Units(c)) + 1
        bytes == Stored(Units(c), Untouched(length), length)
    IN /\ heap = <<>>
       /\ text' = c /\ room' = n
       /\ IF Len(bytes) > n THEN heap' = Untouched(n + 1) /\ answer' = -1
          ELSE heap' = bytes \o Untouched(n + 1 - Len(bytes)) /\ answer' = Len(bytes) - 1

\* intArrayFromString without the null, and writeFile of a string: an array of
\* the length expected, cut to what was written.
IntArrayFromString(c) ==
    LET n == lengthBytesUTF8(Units(c)) + 1 IN
    /\ heap = <<>> /\ n <= MaxRoom
    /\ text' = c /\ room' = n
    /\ heap' = Append(Stored(Units(c), Untouched(n), n), Old)
    /\ answer' = Len(Encoded(Units(c), n))

Next == \E k \in 0 .. MaxLength : \E c \in [1 .. k -> Scalar] :
    \/ IntArrayFromString(c)
    \/ \E n \in 0 .. MaxRoom : StringToUTF8(c, n) \/ Getcwd(c, n) \/ Strftime(c, n)

Spec == Init /\ [][Next]_vars

-----------------------------------------------------------------------------

\* What UTF-8 prescribes for a code point.
SizeOf(c) == IF c < 128 THEN 1 ELSE IF c < 2048 THEN 2 ELSE IF c < 65536 THEN 3 ELSE 4

SizeOfFirst(k) ==
    LET size[i \in 0 .. k] == IF i = 0 THEN 0 ELSE size[i - 1] + SizeOf(text[i]) IN size[k]

\* The code points of the text that fit into n bytes, from the first on.
Fitting(n) == Max({k \in 0 .. Len(text) : SizeOfFirst(k) <= n})

\* Whatever the text and the buffer, no byte behind the buffer is touched and
\* the text ends with its null where the call says it does, also where a
\* surrogate stands alone; a text without such comes back as it was, cut if it
\* must be between two code points (stringToUTF8Array, lengthBytesUTF8 and
\* UTF8ArrayToString, which count and convert in loops of their own).
TextIntact ==
    heap # <<>> =>
        /\ \A i \in room + 1 .. Len(heap) : heap[i] = Old
        /\ room > 0 /\ answer >= 0 => SelectInSeq(heap, LAMBDA b : b = 0) = answer + 1
        /\ room > 0 /\ answer >= 0 /\ (\A i \in DOMAIN text : ~IsSurrogate(text[i])) =>
                /\ answer = SizeOfFirst(Fitting(room - 1))
                /\ UTF8ArrayToString(heap) = Units(SubSeq(text, 1, Fitting(room - 1)))
=============================================================================
