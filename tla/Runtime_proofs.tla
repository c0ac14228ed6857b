--------------------------- MODULE Runtime_proofs ---------------------------
(***************************************************************************)
(* The other parts of the runtime.  A file, for any bytes, descriptors,    *)
(* sizes and buffers, is the sequence of bytes that its calls promise;     *)
(* the days of every year are counted as the calendar does; the start goes *)
(* through its waits in order, for any number of timeouts.                 *)
(***************************************************************************)
EXTENDS RuntimeNames_proofs

-----------------------------------------------------------------------------
(* The storage of a file.                                                  *)

\* The bytes of the file f, which the array holds first.
Bytes(f) == SubSeq(f.contents, 1, f.usedBytes)

\* Behind the used bytes the array is zero, and there is none for an empty
\* file.
Clean(f) ==
  /\ f \in [contents : Seq(Byte), usedBytes : Nat] /\ f.usedBytes <= Len(f.contents)
  /\ f.usedBytes = 0 => f.contents = <<>>
  /\ \A i \in f.usedBytes + 1 .. Len(f.contents) : f.contents[i] = 0

\* What the assumption says of the constants of MemoryFile.
LEMMA FileConstants ==
  /\ FileFlags \in [FileFd -> SUBSET {"read", "write", "append"}]
  /\ 0 \in Byte /\ MaxSize \in Nat /\ MinCapacity \in Nat
  /\ Iov \subseteq Seq(Nat) /\ Buffers \subseteq Seq(Seq(Byte)) /\ Offset \subseteq Int
  /\ Seeks \subseteq Int \X {"set", "cur", "end"}
  /\ Lengths \subseteq Int /\ \A n \in Lengths : n <= MaxSize
  /\ Contents \subseteq Seq(Byte) /\ \A d \in Contents : Len(d) <= MaxSize
  /\ Regions \subseteq Nat \X Nat
BY RuntimeAssumption DEF File!ConstantsOK

\* Min and Max of the community modules.
LEMMA FileMin ==
  ASSUME NEW a \in Nat, NEW b \in Nat
  PROVE  File!Min({a, b}) = IF a <= b THEN a ELSE b
BY DEF File!Min

\* Of two numbers.
LEMMA FileMax ==
  ASSUME NEW a \in Nat, NEW b \in Nat
  PROVE  File!Max({a, b}) = IF a >= b THEN a ELSE b
BY DEF File!Max

\* Of three.
LEMMA FileMaxOfThree ==
  ASSUME NEW a \in Nat, NEW b \in Nat, NEW c \in Nat
  PROVE  File!Max({a, b, c}) \in Nat /\ \A x \in {a, b, c} : File!Max({a, b, c}) >= x
<1>1. \E x \in {a, b, c} : \A y \in {a, b, c} : x >= y
  <2>1. CASE a >= b /\ a >= c
    BY <2>1
  <2>2. CASE b >= a /\ b >= c
    BY <2>2
  <2>3. CASE c >= a /\ c >= b
    BY <2>3
  <2>4. QED
    BY <2>1, <2>2, <2>3
<1>2. File!Max({a, b, c}) \in {a, b, c} /\ \A y \in {a, b, c} : File!Max({a, b, c}) >= y
  BY <1>1 DEF File!Max
<1>3. QED
  BY <1>2

\* A sequence given by its elements.
LEMMA SequenceOf ==
  ASSUME NEW S, NEW n \in Nat, NEW s, s \in [1 .. n -> S]
  PROVE  s \in Seq(S) /\ Len(s) = n /\ DOMAIN s = 1 .. n
OBVIOUS

\* Sequences of one length with the same elements.
LEMMA SameSequence ==
  ASSUME NEW S, NEW s \in Seq(S), NEW t \in Seq(S), Len(s) = Len(t),
         \A i \in 1 .. Len(s) : s[i] = t[i]
  PROVE  s = t
OBVIOUS

\* One by one.
LEMMA BytesAre ==
  ASSUME NEW f, Clean(f)
  PROVE  /\ Bytes(f) \in Seq(Byte) /\ Len(Bytes(f)) = f.usedBytes /\ f.usedBytes \in Nat
         /\ \A i \in 1 .. f.usedBytes : Bytes(f)[i] = f.contents[i]
<1>1. f.contents \in Seq(Byte) /\ f.usedBytes \in Nat /\ f.usedBytes <= Len(f.contents)
  BY DEF Clean
<1>2. QED
  BY <1>1 DEF Bytes

\* The i-th byte of the array of a file, zero if it has none.
ByteAt(f, i) == IF i <= f.usedBytes THEN f.contents[i] ELSE 0

\* Behind the array there are zeros.
LEMMA ByteAtIs ==
  ASSUME NEW f, Clean(f), NEW i \in Nat \ {0}
  PROVE  /\ ByteAt(f, i) \in Byte
         /\ i <= Len(f.contents) => f.contents[i] = ByteAt(f, i)
<1>1. f.contents \in Seq(Byte) /\ f.usedBytes \in Nat /\ f.usedBytes <= Len(f.contents)
  BY DEF Clean
<1>2. 0 \in Byte
  BY FileConstants
<1>3. i <= f.usedBytes => f.contents[i] \in Byte
  BY <1>1
<1>4. i <= Len(f.contents) /\ i > f.usedBytes => f.contents[i] = 0
  BY <1>1 DEF Clean
<1>5. QED
  BY <1>1, <1>2, <1>3, <1>4 DEF ByteAt

\* MEMFS.expandFileStorage copies what is used.
LEMMA CopiedIs ==
  ASSUME NEW f, Clean(f), NEW n \in Nat
  PROVE  /\ File!Copied(f, n) \in Seq(Byte) /\ Len(File!Copied(f, n)) = n
         /\ \A i \in 1 .. n : File!Copied(f, n)[i] = ByteAt(f, i)
<1> DEFINE c == File!Copied(f, n)
<1>1. f.usedBytes \in Nat
  BY DEF Clean
<1>2. c = [i \in 1 .. n |-> IF i <= File!Min({n, f.usedBytes}) THEN f.contents[i] ELSE 0]
  BY DEF File!Copied
<1>3. \A i \in 1 .. n : c[i] = ByteAt(f, i)
  <2>1. File!Min({n, f.usedBytes}) = IF n <= f.usedBytes THEN n ELSE f.usedBytes
    BY <1>1, FileMin
  <2>2. QED
    BY <1>1, <1>2, <2>1 DEF ByteAt
<1>4. \A i \in 1 .. n : c[i] \in Byte
  BY <1>3, ByteAtIs
<1>5. c \in [1 .. n -> Byte]
  BY <1>2, <1>4
<1> HIDE DEF c
<1>6. c \in Seq(Byte) /\ Len(c) = n
  BY <1>5, SequenceOf
<1>7. QED
  BY <1>3, <1>6 DEF c

\* However long the array has become, it holds the same bytes.
LEMMA ExpandedIs ==
  ASSUME NEW f, Clean(f), NEW n \in Nat
  PROVE  LET e == File!Expanded(f, n)
         IN /\ e \in [contents : Seq(Byte), usedBytes : Nat]
            /\ e.usedBytes = f.usedBytes /\ n <= Len(e.contents) /\ f.usedBytes <= Len(e.contents)
            /\ \A i \in 1 .. Len(e.contents) : e.contents[i] = ByteAt(f, i)
<1> DEFINE e == File!Expanded(f, n)
           c == Len(f.contents)
           top == File!Grown(c, n)
<1>1. /\ f.contents \in Seq(Byte) /\ f.usedBytes \in Nat /\ f.usedBytes <= c /\ c \in Nat
      /\ f \in [contents : Seq(Byte), usedBytes : Nat]
  BY DEF Clean
<1>2. CASE c >= n
  <2>1. e = f
    BY <1>2 DEF File!Expanded
  <2>2. \A i \in 1 .. c : f.contents[i] = ByteAt(f, i)
    BY <1>1, ByteAtIs
  <2> HIDE DEF e
  <2>3. QED
    BY <1>1, <1>2, <2>1, <2>2 DEF e
<1>3. CASE ~(c >= n)
  <2>1. e = [f EXCEPT !.contents = File!Copied(f, top)]
    BY <1>3 DEF File!Expanded
  <2>2. top \in Nat /\ top >= n /\ top >= 2 * c
    <3>1. CASE c = 0
      <4>1. top = File!Max({n, 2 * c} \union {})
        BY <3>1 DEF File!Grown
      <4>2. {n, 2 * c} \union {} = {n, 2 * c}
        OBVIOUS
      <4>3. 2 * c \in Nat
        BY <1>1
      <4> HIDE DEF c, top
      <4>4. QED
        BY <4>1, <4>2, <4>3, FileMax
    <3>2. CASE c # 0
      <4>1. top = File!Max({n, 2 * c} \union {MinCapacity})
        BY <3>2 DEF File!Grown
      <4>2. {n, 2 * c} \union {MinCapacity} = {n, 2 * c, MinCapacity}
        OBVIOUS
      <4>3. 2 * c \in Nat /\ MinCapacity \in Nat
        BY <1>1, FileConstants
      <4> HIDE DEF c, top
      <4>4. QED
        BY <4>1, <4>2, <4>3, FileMaxOfThree
    <3>3. QED
      BY <3>1, <3>2
  <2> HIDE DEF top
  <2>3. /\ File!Copied(f, top) \in Seq(Byte) /\ Len(File!Copied(f, top)) = top
        /\ \A i \in 1 .. top : File!Copied(f, top)[i] = ByteAt(f, i)
    BY <2>2, CopiedIs
  <2>4. e.contents = File!Copied(f, top) /\ e.usedBytes = f.usedBytes
        /\ e \in [contents : Seq(Byte), usedBytes : Nat]
    BY <1>1, <2>1, <2>3
  <2>5. f.usedBytes <= top
    BY <1>1, <2>2
  <2> HIDE DEF e
  <2>6. QED
    BY <2>2, <2>3, <2>4, <2>5 DEF e
<1>4. QED
  BY <1>2, <1>3

\* MEMFS.resizeFileStorage does what the promise calls Sized.
LEMMA ResizedIs ==
  ASSUME NEW f, Clean(f), NEW n \in Nat
  PROVE  LET g == File!Resized(f, n)
         IN Clean(g) /\ g.usedBytes = n /\ Bytes(g) = File!File!Sized(Bytes(f), n)
<1> DEFINE g == File!Resized(f, n)
           s == File!File!Sized(Bytes(f), n)
<1>1. f.contents \in Seq(Byte) /\ f.usedBytes \in Nat /\ f.usedBytes <= Len(f.contents)
  BY DEF Clean
<1>2. s \in Seq(Byte) /\ Len(s) = n /\ \A i \in 1 .. n : s[i] = ByteAt(f, i)
  <2>1. s = [i \in 1 .. n |-> IF i <= Len(Bytes(f)) THEN Bytes(f)[i] ELSE 0]
    BY DEF File!File!Sized
  <2>2. \A i \in 1 .. n : s[i] = ByteAt(f, i)
    BY <1>1, <2>1, BytesAre DEF ByteAt
  <2>3. \A i \in 1 .. n : s[i] \in Byte
    BY <2>2, ByteAtIs
  <2>4. s \in [1 .. n -> Byte]
    BY <2>1, <2>3
  <2> HIDE DEF s
  <2>5. QED
    BY <2>2, <2>4, SequenceOf
<1>3. Clean(g) /\ g.usedBytes = n /\ \A i \in 1 .. n : g.contents[i] = ByteAt(f, i)
  <2>1. CASE n = f.usedBytes
    <3>1. g = f
      BY <2>1 DEF File!Resized
    <3>2. \A i \in 1 .. n : f.contents[i] = ByteAt(f, i)
      BY <2>1 DEF ByteAt
    <3>3. QED
      BY <2>1, <3>1, <3>2
  <2>2. CASE n # f.usedBytes /\ n = 0
    <3>1. g = [contents |-> <<>>, usedBytes |-> 0]
      BY <2>2 DEF File!Resized, File!NoFile
    <3>2. <<>> \in Seq(Byte) /\ Len(<<>>) = 0
      OBVIOUS
    <3>3. g.contents = <<>> /\ g.usedBytes = 0 /\ g \in [contents : Seq(Byte), usedBytes : Nat]
      BY <3>1, <3>2
    <3> HIDE DEF g
    <3>4. Clean(g)
      BY <3>2, <3>3 DEF Clean
    <3>5. QED
      BY <2>2, <3>3, <3>4
  <2>3. CASE n # f.usedBytes /\ n # 0
    <3>1. g = [contents |-> File!Copied(f, n), usedBytes |-> n]
      BY <2>3 DEF File!Resized
    <3>2. /\ File!Copied(f, n) \in Seq(Byte) /\ Len(File!Copied(f, n)) = n
          /\ \A i \in 1 .. n : File!Copied(f, n)[i] = ByteAt(f, i)
      BY CopiedIs
    <3>3. g.contents = File!Copied(f, n) /\ g.usedBytes = n /\ g \in [contents : Seq(Byte), usedBytes : Nat]
      BY <3>1, <3>2
    <3> HIDE DEF g
    <3>4. Clean(g)
      BY <2>3, <3>2, <3>3 DEF Clean
    <3>5. QED
      BY <3>2, <3>3, <3>4
  <2>4. QED
    BY <2>1, <2>2, <2>3
<1> HIDE DEF g, s
<1>4. Bytes(g) \in Seq(Byte) /\ Len(Bytes(g)) = n /\ \A i \in 1 .. n : Bytes(g)[i] = ByteAt(f, i)
  BY <1>3, BytesAre
<1>5. Bytes(g) = s
  BY <1>2, <1>4, SameSequence
<1>6. QED
  BY <1>3, <1>5 DEF g, s

\* What i-th byte there is when d is laid over s from p on.
Over(s, p, d, i) ==
  IF p < i /\ i <= p + Len(d) THEN d[i - p] ELSE IF i <= Len(s) THEN s[i] ELSE 0

\* The length of s with d written over it from byte p.
OverLength(s, p, d) ==
  IF d = <<>> THEN Len(s) ELSE IF Len(s) < p + Len(d) THEN p + Len(d) ELSE Len(s)

\* Byte by byte.
LEMMA OverlaidIs ==
  ASSUME NEW s \in Seq(Byte), NEW p \in Nat, NEW d \in Seq(Byte)
  PROVE  /\ File!File!Overlaid(s, p, d) \in Seq(Byte)
         /\ OverLength(s, p, d) \in Nat
         /\ Len(File!File!Overlaid(s, p, d)) = OverLength(s, p, d)
         /\ \A i \in 1 .. OverLength(s, p, d) :
              File!File!Overlaid(s, p, d)[i] = Over(s, p, d, i)
<1> DEFINE o == File!File!Overlaid(s, p, d)
           n == OverLength(s, p, d)
<1>0. Len(s) \in Nat /\ Len(d) \in Nat
  OBVIOUS
<1>1. CASE d = <<>>
  <2>1. o = s /\ n = Len(s)
    BY <1>1 DEF File!File!Overlaid, OverLength
  <2>2. \A i \in 1 .. Len(s) : ~(p < i /\ i <= p + Len(d))
    BY <1>1
  <2>3. \A i \in 1 .. Len(s) : Over(s, p, d, i) = s[i]
    BY <2>2 DEF Over
  <2>4. QED
    BY <1>0, <2>1, <2>3
<1>2. CASE d # <<>>
  <2>1. n = File!File!Greater(Len(s), p + Len(d)) /\ n \in Nat
    BY <1>0, <1>2 DEF OverLength, File!File!Greater
  <2>2. o = [i \in 1 .. n |-> Over(s, p, d, i)]
    BY <1>2, <2>1 DEF File!File!Overlaid, Over
  <2>3. \A i \in 1 .. n : Over(s, p, d, i) \in Byte
    <3>1. SUFFICES ASSUME NEW i \in 1 .. n PROVE Over(s, p, d, i) \in Byte
      OBVIOUS
    <3>2. i \in Nat /\ i >= 1 /\ 0 \in Byte
      BY <2>1, FileConstants
    <3>3. CASE p < i /\ i <= p + Len(d)
      <4>1. i - p \in 1 .. Len(d)
        BY <1>0, <3>2, <3>3
      <4>2. d[i - p] \in Byte
        BY <4>1
      <4>3. QED
        BY <3>3, <4>2 DEF Over
    <3>4. CASE ~(p < i /\ i <= p + Len(d))
      <4>1. i <= Len(s) => s[i] \in Byte
        BY <1>0, <3>2
      <4>2. QED
        BY <3>2, <3>4, <4>1 DEF Over
    <3>5. QED
      BY <3>3, <3>4
  <2> HIDE DEF o, n
  <2>4. o \in [1 .. n -> Byte]
    BY <2>2, <2>3
  <2>5. o \in Seq(Byte) /\ Len(o) = n
    BY <2>1, <2>4, SequenceOf
  <2>6. \A i \in 1 .. n : o[i] = Over(s, p, d, i)
    BY <2>2
  <2>7. QED
    BY <2>1, <2>5, <2>6 DEF o, n
<1>3. QED
  BY <1>1, <1>2

\* Writing one chunk behind the other is writing both at once.
LEMMA OverlaidTwice ==
  ASSUME NEW s \in Seq(Byte), NEW p \in Nat, NEW d \in Seq(Byte), NEW e \in Seq(Byte)
  PROVE  File!File!Overlaid(File!File!Overlaid(s, p, d), p + Len(d), e) =
           File!File!Overlaid(s, p, d \o e)
<1> DEFINE o == File!File!Overlaid(s, p, d)
           q == p + Len(d)
           t == d \o e
<1>1. /\ Len(s) \in Nat /\ Len(d) \in Nat /\ Len(e) \in Nat /\ q \in Nat
      /\ t \in Seq(Byte) /\ Len(t) = Len(d) + Len(e)
  OBVIOUS
<1>2. \A i \in 1 .. Len(d) + Len(e) : t[i] = IF i <= Len(d) THEN d[i] ELSE e[i - Len(d)]
  OBVIOUS
<1>3. CASE e = <<>>
  <2>1. t = d
    BY <1>3
  <2>2. QED
    BY <1>3, <2>1 DEF File!File!Overlaid
<1>4. CASE d = <<>>
  <2>1. t = e /\ o = s /\ q = p
    BY <1>4 DEF File!File!Overlaid
  <2>2. QED
    BY <2>1
<1>5. CASE e # <<>> /\ d # <<>>
  <2>1. Len(e) > 0 /\ Len(d) > 0 /\ t # <<>>
    BY <1>1, <1>5
  <2>2. /\ o \in Seq(Byte) /\ Len(o) = OverLength(s, p, d)
        /\ \A i \in 1 .. Len(o) : o[i] = Over(s, p, d, i)
    BY OverlaidIs
  <2> HIDE DEF o, q, t
  <2> DEFINE l == File!File!Overlaid(o, q, e)
             r == File!File!Overlaid(s, p, t)
             n == OverLength(s, p, t)
  <2>3. l \in Seq(Byte) /\ Len(l) = OverLength(o, q, e) /\ \A i \in 1 .. Len(l) : l[i] = Over(o, q, e, i)
    BY <1>1, <2>2, OverlaidIs
  <2>4. r \in Seq(Byte) /\ Len(r) = n /\ n \in Nat /\ \A i \in 1 .. n : r[i] = Over(s, p, t, i)
    BY <1>1, OverlaidIs
  <2>5. /\ n = IF Len(s) < p + Len(d) + Len(e) THEN p + Len(d) + Len(e) ELSE Len(s)
        /\ Len(o) = IF Len(s) < p + Len(d) THEN p + Len(d) ELSE Len(s)
    BY <1>1, <1>5, <2>1, <2>2 DEF OverLength
  <2>6. Len(l) = n
    BY <1>1, <1>5, <2>3, <2>5 DEF OverLength, q
  <2>7. ASSUME NEW i \in 1 .. n PROVE Over(o, q, e, i) = Over(s, p, t, i)
    <3>0. i \in Nat /\ i >= 1 /\ q = p + Len(d)
      BY <2>4 DEF q
    <3>1. CASE q < i /\ i <= q + Len(e)
      <4>1. Over(o, q, e, i) = e[i - q]
        BY <3>1 DEF Over
      <4>2. i - p \in 1 .. Len(d) + Len(e) /\ i - p > Len(d) /\ (i - p) - Len(d) = i - q
            /\ p < i /\ i <= p + Len(t)
        BY <1>1, <3>0, <3>1
      <4>3. Over(s, p, t, i) = t[i - p]
        BY <4>2 DEF Over
      <4>4. t[i - p] = e[i - q]
        BY <1>1, <1>2, <4>2
      <4>5. QED
        BY <4>1, <4>3, <4>4
    <3>2. CASE p < i /\ i <= q
      <4>1. i \in 1 .. Len(o) /\ ~(q < i)
        BY <1>1, <2>5, <3>0, <3>2
      <4>2. Over(o, q, e, i) = o[i]
        BY <4>1 DEF Over
      <4>3. o[i] = d[i - p]
        BY <2>2, <3>0, <3>2, <4>1 DEF Over
      <4>4. i - p \in 1 .. Len(d) + Len(e) /\ i - p <= Len(d) /\ p < i /\ i <= p + Len(t)
        BY <1>1, <3>0, <3>2
      <4>5. t[i - p] = d[i - p]
        BY <1>2, <4>4
      <4>6. Over(s, p, t, i) = t[i - p]
        BY <4>4 DEF Over
      <4>7. QED
        BY <4>2, <4>3, <4>5, <4>6
    <3>3. CASE i <= p \/ i > q + Len(e)
      <4>1. ~(q < i /\ i <= q + Len(e)) /\ ~(p < i /\ i <= p + Len(t)) /\ ~(p < i /\ i <= p + Len(d))
        BY <1>1, <3>0, <3>3
      <4>2. Over(s, p, t, i) = IF i <= Len(s) THEN s[i] ELSE 0
        BY <4>1 DEF Over
      <4>3. Over(o, q, e, i) = IF i <= Len(o) THEN o[i] ELSE 0
        BY <4>1 DEF Over
      <4>4. i <= Len(o) => o[i] = IF i <= Len(s) THEN s[i] ELSE 0
        BY <2>2, <3>0, <4>1 DEF Over
      <4>5. i <= Len(s) => i <= Len(o)
        BY <1>1, <2>5, <3>0
      <4>6. QED
        BY <4>2, <4>3, <4>4, <4>5
    <3>4. QED
      BY <1>1, <3>0, <3>1, <3>2, <3>3
  <2>8. \A i \in 1 .. n : l[i] = r[i]
    BY <2>3, <2>4, <2>6, <2>7
  <2> HIDE DEF l, r, n
  <2>9. l = r
    BY <2>3, <2>4, <2>6, <2>8, SameSequence
  <2>10. QED
    BY <2>9 DEF l, r, o, q, t
<1>6. QED
  BY <1>3, <1>4, <1>5

\* MEMFS.stream_ops.write does what the promise calls Overlaid, whether it
\* replaces the array, writes into it or expands it.
LEMMA WrittenIs ==
  ASSUME NEW f, Clean(f), NEW d \in Seq(Byte), NEW p \in Nat
  PROVE  LET g == File!Written(f, d, p)
         IN /\ Clean(g) /\ Bytes(g) = File!File!Overlaid(Bytes(f), p, d)
            /\ g.usedBytes = OverLength(Bytes(f), p, d)
<1> DEFINE g == File!Written(f, d, p)
           b == Bytes(f)
           n == OverLength(b, p, d)
           o == File!File!Overlaid(b, p, d)
<1>1. /\ b \in Seq(Byte) /\ Len(b) = f.usedBytes /\ f.usedBytes \in Nat /\ Len(d) \in Nat
      /\ \A i \in 1 .. f.usedBytes : b[i] = f.contents[i]
  BY BytesAre
<1> HIDE DEF b
<1>2. o \in Seq(Byte) /\ Len(o) = n /\ n \in Nat /\ \A i \in 1 .. n : o[i] = Over(b, p, d, i)
  BY <1>1, OverlaidIs
<1>3. Clean(g) /\ g.usedBytes = n /\ \A i \in 1 .. n : g.contents[i] = Over(b, p, d, i)
  <2>1. CASE d = <<>>
    <3>1. g = f /\ n = f.usedBytes
      BY <1>1, <2>1 DEF File!Written, OverLength
    <3>2. \A i \in 1 .. n : Over(b, p, d, i) = f.contents[i]
      BY <1>1, <2>1, <3>1 DEF Over
    <3>3. QED
      BY <3>1, <3>2
  <2>2. CASE d # <<>> /\ f.usedBytes = 0 /\ p = 0
    <3>1. g = [contents |-> d, usedBytes |-> Len(d)] /\ n = Len(d) /\ Len(d) > 0
      BY <1>1, <2>2 DEF File!Written, OverLength
    <3>2. g.contents = d /\ g.usedBytes = n /\ g \in [contents : Seq(Byte), usedBytes : Nat]
      BY <1>1, <3>1
    <3>3. \A i \in 1 .. n : Over(b, p, d, i) = d[i]
      BY <1>1, <2>2, <3>1 DEF Over
    <3> HIDE DEF g, n
    <3>4. Clean(g)
      BY <1>1, <3>1, <3>2 DEF Clean
    <3>5. QED
      BY <3>2, <3>3, <3>4
  <2>3. CASE d # <<>> /\ ~(f.usedBytes = 0 /\ p = 0)
    <3> DEFINE k == p + Len(d)
               e == File!Expanded(f, k)
               c == File!Set(e.contents, d, p)
    <3>1. k \in Nat /\ k > 0 /\ Len(d) > 0
      BY <1>1, <2>3
    <3> HIDE DEF k
    <3>2. /\ e.contents \in Seq(Byte) /\ k <= Len(e.contents) /\ f.usedBytes <= Len(e.contents)
          /\ \A i \in 1 .. Len(e.contents) : e.contents[i] = ByteAt(f, i)
      BY <3>1, ExpandedIs
    <3>3. g = [contents |-> c, usedBytes |-> File!Max({f.usedBytes, k})]
      BY <2>3 DEF File!Written, k
    <3>4. File!Max({f.usedBytes, k}) = IF f.usedBytes >= k THEN f.usedBytes ELSE k
      BY <1>1, <3>1, FileMax
    <3>5. n = IF f.usedBytes < k THEN k ELSE f.usedBytes
      BY <1>1, <2>3 DEF OverLength, k
    <3>6. File!Max({f.usedBytes, k}) = n /\ n > 0 /\ n <= Len(e.contents)
      BY <1>1, <3>1, <3>2, <3>4, <3>5
    <3> HIDE DEF e
    <3> DEFINE x == e.contents
    <3>7. x \in Seq(Byte) /\ Len(x) \in Nat /\ \A i \in 1 .. Len(x) : x[i] = ByteAt(f, i)
      BY <3>2
    <3>8. c = [i \in 1 .. Len(x) |-> IF p < i /\ i <= p + Len(d) THEN d[i - p] ELSE x[i]]
      BY <3>7 DEF File!Set
    <3>9. n <= Len(x)
      BY <3>6
    <3> HIDE DEF x, c, n
    <3>10. ASSUME NEW i \in 1 .. Len(x)
           PROVE  /\ i <= n => c[i] = Over(b, p, d, i)
                  /\ i > n => c[i] = 0
                  /\ c[i] \in Byte
      <4>1. i \in Nat \ {0}
        BY <3>7
      <4>2. CASE p < i /\ i <= p + Len(d)
        <5>1. c[i] = d[i - p] /\ i - p \in 1 .. Len(d)
          BY <1>1, <3>8, <4>1, <4>2
        <5>2. i <= n
          BY <1>1, <1>2, <3>5, <4>1, <4>2 DEF k
        <5>3. d[i - p] \in Byte
          BY <5>1
        <5>4. QED
          BY <1>2, <4>1, <4>2, <5>1, <5>2, <5>3 DEF Over
      <4>3. CASE ~(p < i /\ i <= p + Len(d))
        <5>1. c[i] = x[i] /\ x[i] = ByteAt(f, i) /\ x[i] \in Byte
          BY <3>7, <3>8, <4>3
        <5>2. Over(b, p, d, i) = IF i <= f.usedBytes THEN b[i] ELSE 0
          BY <1>1, <4>3 DEF Over
        <5>3. i <= f.usedBytes => b[i] = f.contents[i]
          BY <1>1, <4>1
        <5>4. i > n => ~(i <= f.usedBytes)
          BY <1>1, <1>2, <3>1, <3>5, <4>1
        <5>5. QED
          BY <5>1, <5>2, <5>3, <5>4 DEF ByteAt
      <4>4. QED
        BY <4>2, <4>3
    <3>11. c \in [1 .. Len(x) -> Byte]
      BY <3>8, <3>10
    <3>12. c \in Seq(Byte) /\ Len(c) = Len(x)
      BY <3>7, <3>11, SequenceOf
    <3>13. g.contents = c /\ g.usedBytes = n /\ g \in [contents : Seq(Byte), usedBytes : Nat]
      BY <1>2, <3>3, <3>6, <3>12
    <3> HIDE DEF g
    <3>14. n <= Len(g.contents) /\ \A i \in n + 1 .. Len(g.contents) : g.contents[i] = 0
      BY <1>2, <3>7, <3>9, <3>10, <3>12, <3>13
    <3>15. Clean(g)
      BY <3>6, <3>13, <3>14 DEF Clean
    <3>16. \A i \in 1 .. n : i \in 1 .. Len(x) /\ i <= n
      BY <1>2, <3>7, <3>9
    <3>17. QED
      BY <3>10, <3>13, <3>15, <3>16
  <2>4. QED
    BY <2>1, <2>2, <2>3
<1> HIDE DEF g, o, n
<1>4. Bytes(g) \in Seq(Byte) /\ Len(Bytes(g)) = n /\ \A i \in 1 .. n : Bytes(g)[i] = Over(b, p, d, i)
  BY <1>3, BytesAre
<1>5. Bytes(g) = o
  BY <1>2, <1>4, SameSequence
<1>6. QED
  BY <1>3, <1>5 DEF g, o, n, b

-----------------------------------------------------------------------------
(* Pieces of a sequence of bytes.                                          *)

\* What the promise reads.
Piece(s, p, n) == File!File!Piece(s, p, n)

\* What makes t the piece of s of at most n bytes from p on.
IsPiece(t, s, p, n) ==
  /\ t \in Seq(Byte) /\ Len(t) \in Nat
  /\ Len(t) = IF p >= Len(s) THEN 0 ELSE IF Len(s) <= p + n THEN Len(s) - p ELSE n
  /\ \A i \in 1 .. Len(t) : t[i] = s[p + i]

\* Byte by byte.
LEMMA PieceIs ==
  ASSUME NEW s \in Seq(Byte), NEW p \in Nat, NEW n \in Nat
  PROVE  IsPiece(Piece(s, p, n), s, p, n)
<1> DEFINE q == File!File!Lesser(Len(s), p + n)
           t == SubSeq(s, p + 1, q)
<1>1. Len(s) \in Nat
  OBVIOUS
<1>2. q = IF Len(s) < p + n THEN Len(s) ELSE p + n
  BY DEF File!File!Lesser
<1>3. q \in Nat /\ q <= Len(s)
  BY <1>1, <1>2
<1>4. Piece(s, p, n) = t
  BY DEF Piece, File!File!Piece
<1> HIDE DEF q
<1>5. t \in Seq(Byte) /\ Len(t) = IF p + 1 <= q THEN q - p ELSE 0
  <2>1. CASE p + 1 <= q
    BY <1>1, <1>3, <2>1
  <2>2. CASE ~(p + 1 <= q)
    BY <1>1, <1>3, <2>2
  <2>3. QED
    BY <2>1, <2>2
<1>6. \A i \in 1 .. Len(t) : t[i] = s[p + i]
  BY <1>1, <1>3, <1>5
<1>7. (IF p + 1 <= q THEN q - p ELSE 0) =
        IF p >= Len(s) THEN 0 ELSE IF Len(s) <= p + n THEN Len(s) - p ELSE n
  BY <1>1, <1>2
<1> HIDE DEF t
<1>8. Len(t) \in Nat
  BY <1>5
<1>9. IsPiece(t, s, p, n)
  BY <1>5, <1>6, <1>7, <1>8 DEF IsPiece
<1>10. QED
  BY <1>4, <1>9

\* A piece is as long as it came out.
LEMMA PieceAgain ==
  ASSUME NEW s \in Seq(Byte), NEW p \in Nat, NEW n \in Nat
  PROVE  Piece(s, p, Len(Piece(s, p, n))) = Piece(s, p, n)
<1> DEFINE t == Piece(s, p, n)
           u == Piece(s, p, Len(t))
<1>0. Len(s) \in Nat
  OBVIOUS
<1>1. IsPiece(t, s, p, n)
  BY PieceIs
<1> HIDE DEF t
<1>2. IsPiece(u, s, p, Len(t))
  <2>1. Len(t) \in Nat
    BY <1>1 DEF IsPiece
  <2>2. QED
    BY <2>1, PieceIs
<1> HIDE DEF u
<1>3. Len(u) = Len(t)
  BY <1>0, <1>1, <1>2 DEF IsPiece
<1>4. u = t
  <2>1. u \in Seq(Byte) /\ t \in Seq(Byte) /\ \A i \in 1 .. Len(u) : u[i] = t[i]
    BY <1>1, <1>2, <1>3 DEF IsPiece
  <2>2. QED
    BY <1>3, <2>1, SameSequence
<1>5. QED
  BY <1>4 DEF t, u

\* Two pieces, one behind the other, are one.
LEMMA PieceOn ==
  ASSUME NEW s \in Seq(Byte), NEW p \in Nat, NEW t \in Seq(Byte), NEW n \in Nat,
         t = Piece(s, p, Len(t))
  PROVE  LET d == Piece(s, p + Len(t), n)
         IN t \o d = Piece(s, p, Len(t) + Len(d))
<1> DEFINE d == Piece(s, p + Len(t), n)
           q == p + Len(t)
           u == Piece(s, p, Len(t) + Len(d))
           w == t \o d
<1>1. Len(t) \in Nat /\ q \in Nat /\ Len(s) \in Nat
  OBVIOUS
<1>2. IsPiece(d, s, q, n)
  BY <1>1, PieceIs
<1>3. IsPiece(t, s, p, Len(t))
  <2>1. IsPiece(Piece(s, p, Len(t)), s, p, Len(t))
    BY <1>1, PieceIs
  <2>2. QED
    BY <2>1
<1> HIDE DEF d
<1>4. IsPiece(u, s, p, Len(t) + Len(d))
  <2>1. Len(t) + Len(d) \in Nat
    BY <1>1, <1>2 DEF IsPiece
  <2>2. QED
    BY <2>1, PieceIs
<1> HIDE DEF u
<1> USE DEF IsPiece
<1>5. w \in Seq(Byte) /\ Len(w) = Len(t) + Len(d)
      /\ \A i \in 1 .. Len(t) + Len(d) : w[i] = IF i <= Len(t) THEN t[i] ELSE d[i - Len(t)]
  <2>1. d \in Seq(Byte)
    BY <1>2
  <2> HIDE DEF IsPiece
  <2>2. w \in Seq(Byte) /\ Len(w) = Len(t) + Len(d)
    BY <2>1
  <2>3. QED
    BY <2>1, <2>2
<1> HIDE DEF w
<1>6. Len(u) = Len(w)
  <2> DEFINE a == Len(t)
             b == Len(d)
             c == Len(s)
  <2>1. /\ a \in Nat /\ b \in Nat /\ c \in Nat
        /\ b = IF p + a >= c THEN 0 ELSE IF c <= p + a + n THEN c - (p + a) ELSE n
    BY <1>1, <1>2 DEF q
  <2>2. a = IF p >= c THEN 0 ELSE IF c <= p + a THEN c - p ELSE a
    BY <1>3
  <2>3. Len(u) = IF p >= c THEN 0 ELSE IF c <= p + (a + b) THEN c - p ELSE a + b
    BY <1>4
  <2>4. Len(w) = a + b
    BY <1>5
  <2> HIDE DEF a, b, c
  <2>5. QED
    BY <2>1, <2>2, <2>3, <2>4
<1>7. \A i \in 1 .. Len(w) : w[i] = u[i]
  <2>1. SUFFICES ASSUME NEW i \in 1 .. Len(w) PROVE w[i] = u[i]
    OBVIOUS
  <2>2. u[i] = s[p + i] /\ i \in Nat /\ i >= 1 /\ i <= Len(t) + Len(d)
    BY <1>1, <1>2, <1>4, <1>5, <1>6
  <2>3. CASE i <= Len(t)
    BY <1>1, <1>2, <1>3, <1>5, <2>2, <2>3
  <2>4. CASE i > Len(t)
    <3>1. i - Len(t) \in 1 .. Len(d) /\ q + (i - Len(t)) = p + i
      BY <1>1, <1>2, <2>2, <2>4 DEF q
    <3>2. d[i - Len(t)] = s[p + i]
      BY <1>2, <3>1
    <3>3. w[i] = d[i - Len(t)]
      BY <1>1, <1>2, <1>5, <2>2, <2>4
    <3>4. QED
      BY <2>2, <3>2, <3>3
  <2>5. QED
    BY <1>1, <2>2, <2>3, <2>4
<1>8. w = u
  BY <1>4, <1>5, <1>6, <1>7, SameSequence
<1>9. QED
  BY <1>8 DEF w, u, d, q

-----------------------------------------------------------------------------
(* Reading.                                                                *)

\* MEMFS.stream_ops.read gives it.
LEMMA GotIs ==
  ASSUME Clean(node), NEW p \in Nat, NEW n \in Nat
  PROVE  File!Got(p, n) = Piece(Bytes(node), p, n)
<1> DEFINE b == Bytes(node)
           u == Piece(b, p, n)
           g == File!Got(p, n)
<1>1. /\ b \in Seq(Byte) /\ Len(b) = node.usedBytes /\ node.usedBytes \in Nat
      /\ \A i \in 1 .. node.usedBytes : b[i] = node.contents[i]
      /\ node.contents \in Seq(Byte) /\ node.usedBytes <= Len(node.contents)
  BY BytesAre DEF Clean
<1> HIDE DEF b
<1>2. /\ u \in Seq(Byte)
      /\ Len(u) = IF p >= Len(b) THEN 0 ELSE IF Len(b) <= p + n THEN Len(b) - p ELSE n
      /\ \A i \in 1 .. Len(u) : u[i] = b[p + i]
  <2>1. IsPiece(u, b, p, n)
    BY <1>1, PieceIs
  <2> HIDE DEF u
  <2>2. QED
    BY <2>1 DEF IsPiece
<1> HIDE DEF u
<1>3. CASE p >= node.usedBytes
  <2>1. g = <<>>
    BY <1>3 DEF File!Got
  <2>2. u = <<>>
    BY <1>1, <1>2, <1>3
  <2>3. QED
    BY <2>1, <2>2 DEF u, b
<1>4. CASE ~(p >= node.usedBytes)
  <2> DEFINE top == File!Min({node.usedBytes - p, n})
  <2>1. node.usedBytes - p \in Nat
    BY <1>1, <1>4
  <2>2. top = IF node.usedBytes - p <= n THEN node.usedBytes - p ELSE n
    BY <2>1, FileMin
  <2>3. g = SubSeq(node.contents, p + 1, p + top)
    BY <1>4 DEF File!Got
  <2>4. top \in Nat /\ p + top <= node.usedBytes /\ top = Len(u)
    BY <1>1, <1>2, <1>4, <2>1, <2>2
  <2> HIDE DEF top, g
  <2>5. g \in Seq(Byte) /\ Len(g) = top
    BY <1>1, <2>3, <2>4
  <2>6. \A i \in 1 .. top : g[i] = node.contents[p + i]
    BY <1>1, <2>3, <2>4
  <2>7. \A i \in 1 .. top : g[i] = u[i]
    <3>1. SUFFICES ASSUME NEW i \in 1 .. top PROVE g[i] = u[i]
      OBVIOUS
    <3>2. p + i \in 1 .. node.usedBytes
      <4>1. i \in Nat /\ 1 <= i /\ i <= top
        BY <2>4
      <4>2. QED
        BY <1>1, <2>4, <4>1
    <3>3. b[p + i] = node.contents[p + i]
      BY <1>1, <3>2
    <3>4. QED
      BY <1>2, <2>4, <2>6, <3>3
  <2>8. g = u
    BY <1>2, <2>4, <2>5, <2>7, SameSequence
  <2>9. QED
    BY <2>8 DEF g, u, b
<1>5. QED
  BY <1>3, <1>4

\* Where doReadv is after some of the buffers, for a read from p on.
Reads(p) ==
  {r \in [at : Nat, out : Seq(Byte), ended : BOOLEAN] :
     r.at = p + Len(r.out) /\ r.out = Piece(Bytes(node), p, Len(r.out))}

\* FS.read of one buffer extends what was read.
LEMMA ReadBufferIs ==
  ASSUME Clean(node), NEW p \in Nat, NEW r \in Reads(p), NEW n \in Nat
  PROVE  File!ReadBuffer(r, n) \in Reads(p)
<1> DEFINE d == File!Got(r.at, n)
           x == [at |-> r.at + Len(d), out |-> r.out \o d, ended |-> Len(d) < n]
           b == Bytes(node)
<1>1. r.at \in Nat /\ r.out \in Seq(Byte) /\ r.at = p + Len(r.out) /\ r.out = Piece(b, p, Len(r.out))
  BY DEF Reads
<1>2. b \in Seq(Byte)
  BY BytesAre
<1> HIDE DEF b
<1>3. d = Piece(b, p + Len(r.out), n)
  BY <1>1, GotIs DEF b
<1>4. d \in Seq(Byte) /\ Len(d) \in Nat
  <2>1. p + Len(r.out) \in Nat
    BY <1>1
  <2>2. IsPiece(d, b, p + Len(r.out), n)
    BY <1>2, <1>3, <2>1, PieceIs
  <2> HIDE DEF d
  <2>3. QED
    BY <2>2 DEF IsPiece
<1>5. r.out \o d = Piece(b, p, Len(r.out) + Len(d))
  <2> DEFINE o == r.out
  <2>1. o \in Seq(Byte) /\ o = Piece(b, p, Len(o)) /\ d = Piece(b, p + Len(o), n)
    BY <1>1, <1>3
  <2> HIDE DEF o, d
  <2>2. o \o d = Piece(b, p, Len(o) + Len(d))
    BY <1>2, <2>1, PieceOn
  <2>3. QED
    BY <2>2 DEF o
<1>6. File!ReadBuffer(r, n) = IF r.ended THEN r ELSE x
  BY DEF File!ReadBuffer
<1> HIDE DEF d
<1>7. r.out \o d \in Seq(Byte) /\ Len(r.out \o d) = Len(r.out) + Len(d)
  BY <1>1, <1>4
<1>8. r.at + Len(d) = p + Len(r.out \o d) /\ r.at + Len(d) \in Nat
  BY <1>1, <1>4, <1>7
<1>9. x \in [at : Nat, out : Seq(Byte), ended : BOOLEAN]
  BY <1>7, <1>8
<1>10. x.at = r.at + Len(d) /\ x.out = r.out \o d
  OBVIOUS
<1> HIDE DEF x
<1>11. x \in Reads(p)
  BY <1>5, <1>7, <1>8, <1>9, <1>10 DEF Reads, b
<1>12. QED
  BY <1>6, <1>11

\* A vectored read gets one piece of the file, however many buffers there are.
LEMMA ReadvIs ==
  ASSUME Clean(node), NEW p \in Nat, NEW iov \in Seq(Nat)
  PROVE  File!Readv(p, iov) \in Reads(p)
<1> DEFINE D == 0 .. Len(iov)
           T == Reads(p)
           a == [at |-> p, out |-> <<>>, ended |-> FALSE]
           step == [k \in 1 .. Len(iov) |-> [t \in T |-> File!ReadBuffer(t, iov[k])]]
           Solves(f) == f = [i \in D |-> IF i = 0 THEN a ELSE File!ReadBuffer(f[i - 1], iov[i])]
<1>0. Len(iov) \in Nat /\ \A k \in 1 .. Len(iov) : iov[k] \in Nat
  OBVIOUS
<1>1. a \in T
  <2>1. Bytes(node) \in Seq(Byte)
    BY BytesAre
  <2>2. Piece(Bytes(node), p, 0) = <<>>
    <3>0. IsPiece(Piece(Bytes(node), p, 0), Bytes(node), p, 0)
      BY <2>1, PieceIs
    <3>1. Len(Piece(Bytes(node), p, 0)) = 0 /\ Piece(Bytes(node), p, 0) \in Seq(Byte)
      <4>1. Len(Bytes(node)) \in Nat
        BY <2>1
      <4>2. QED
        BY <3>0, <4>1 DEF IsPiece
    <3>2. QED
      BY <3>1
  <2>3. QED
    BY <2>2 DEF Reads
<1>2. \A k \in 1 .. Len(iov), t \in T : File!ReadBuffer(t, iov[k]) \in T
  BY <1>0, ReadBufferIs
<1>3. PICK f \in [D -> T] : f[0] = a /\ \A k \in 1 .. Len(iov) : f[k] = step[k][f[k - 1]]
  <2> HIDE DEF Solves, a, T
  <2>1. step \in [1 .. Len(iov) -> [T -> T]]
    BY <1>2
  <2> HIDE DEF step
  <2>2. Stepwise(T, Len(iov), a, step)
    BY <1>0, <1>1, <2>1 DEF Stepwise
  <2>3. QED
    BY <2>2, StepByStep
<1>4. \A n \in D : f[n] = IF n = 0 THEN a ELSE File!ReadBuffer(f[n - 1], iov[n])
  <2> HIDE DEF a, T
  <2>1. \A k \in 1 .. Len(iov) : f[k - 1] \in T
    BY <1>0, <1>3
  <2>2. ASSUME NEW n \in 1 .. Len(iov) PROVE f[n] = File!ReadBuffer(f[n - 1], iov[n])
    <3>1. step[n][f[n - 1]] = File!ReadBuffer(f[n - 1], iov[n])
      BY <2>1
    <3> HIDE DEF step
    <3>2. QED
      BY <1>3, <3>1
  <2>3. \A n \in D : n = 0 \/ n \in 1 .. Len(iov)
    BY <1>0
  <2>4. QED
    BY <1>3, <2>2, <2>3
<1> HIDE DEF T, a
<1>5. Solves(f)
  BY <1>3, <1>4
<1> DEFINE acc == CHOOSE g : Solves(g)
<1>6. Solves(acc)
  <2> HIDE DEF Solves
  <2>1. QED
    BY <1>5
<1>7. File!Readv(p, iov) = acc[Len(iov)]
  BY DEF File!Readv, a
<1>8. acc[0] = a /\ \A n \in 1 .. Len(iov) : acc[n] = File!ReadBuffer(acc[n - 1], iov[n])
  <2> HIDE DEF acc
  <2>1. QED
    BY <1>0, <1>6
<1> HIDE DEF acc
<1>9. \A n \in 0 .. Len(iov) : acc[n] \in T
  BY <1>0, <1>1, <1>2, <1>8, EveryStep
<1>10. QED
  BY <1>0, <1>7, <1>9 DEF T

-----------------------------------------------------------------------------
(* Writing.                                                                *)

\* Where doWritev is after some of the buffers.
Writes ==
  {w \in [node : [contents : Seq(Byte), usedBytes : Nat], offset : Nat, position : Nat] :
     Clean(w.node)}

\* FS.write of one buffer.
LEMMA WriteBufferIs ==
  ASSUME NEW w \in Writes, NEW f \in FileFd, NEW explicit \in BOOLEAN, NEW d \in Seq(Byte)
  PROVE  LET end == IF File!Appends(f) THEN w.node.usedBytes ELSE w.position
             at == IF explicit THEN w.offset ELSE end
             x == File!WriteBuffer(f, explicit, w, d)
         IN /\ x \in Writes /\ x.offset = w.offset + Len(d)
            /\ x.position = IF explicit THEN end ELSE end + Len(d)
            /\ Bytes(x.node) = File!File!Overlaid(Bytes(w.node), at, d)
            /\ x.node.usedBytes = OverLength(Bytes(w.node), at, d)
<1> DEFINE end == IF File!Appends(f) THEN w.node.usedBytes ELSE w.position
           at == IF explicit THEN w.offset ELSE end
           x == File!WriteBuffer(f, explicit, w, d)
           g == File!Written(w.node, d, at)
<1>1. Clean(w.node) /\ w.node.usedBytes \in Nat /\ w.offset \in Nat /\ w.position \in Nat
  BY DEF Writes
<1>2. end \in Nat /\ at \in Nat /\ Len(d) \in Nat
  BY <1>1
<1>3. x = [node |-> g, offset |-> w.offset + Len(d),
           position |-> IF explicit THEN end ELSE end + Len(d)]
  BY DEF File!WriteBuffer
<1> HIDE DEF end, at
<1>4. /\ Clean(g) /\ Bytes(g) = File!File!Overlaid(Bytes(w.node), at, d)
      /\ g.usedBytes = OverLength(Bytes(w.node), at, d)
  BY <1>1, <1>2, WrittenIs
<1>5. g \in [contents : Seq(Byte), usedBytes : Nat]
  BY <1>4 DEF Clean
<1> HIDE DEF g, x
<1>6. /\ x.node = g /\ x.offset = w.offset + Len(d)
      /\ x.position = IF explicit THEN end ELSE end + Len(d)
      /\ x \in [node : [contents : Seq(Byte), usedBytes : Nat], offset : Nat, position : Nat]
  BY <1>1, <1>2, <1>3, <1>5
<1>7. x \in Writes
  BY <1>4, <1>6 DEF Writes
<1>8. QED
  BY <1>4, <1>6, <1>7 DEF end, at, x

\* doWritev goes through the buffers one by one.
IsWritev(acc, f, explicit, chunks, p) ==
  /\ acc \in [0 .. Len(chunks) -> Writes]
  /\ acc[0] = [node |-> node, offset |-> p, position |-> position[f]]
  /\ \A k \in 1 .. Len(chunks) : acc[k] = File!WriteBuffer(f, explicit, acc[k - 1], chunks[k])
  /\ File!Writev(f, explicit, chunks, p) = acc[Len(chunks)]

\* doWritev goes from buffer to buffer.
LEMMA WritevSteps ==
  ASSUME Clean(node), NEW f \in FileFd, position[f] \in Nat, NEW explicit \in BOOLEAN,
         NEW chunks \in Seq(Seq(Byte)), NEW p \in Nat
  PROVE  \E acc : IsWritev(acc, f, explicit, chunks, p)
<1> DEFINE n == Len(chunks)
           D == 0 .. n
           T == Writes
           a == [node |-> node, offset |-> p, position |-> position[f]]
           step == [k \in 1 .. n |-> [t \in T |-> File!WriteBuffer(f, explicit, t, chunks[k])]]
           Solves(g) == g = [i \in D |-> IF i = 0 THEN a
                                         ELSE File!WriteBuffer(f, explicit, g[i - 1], chunks[i])]
<1>0. n \in Nat /\ \A k \in 1 .. n : chunks[k] \in Seq(Byte)
  OBVIOUS
<1>1. a \in T
  <2>1. node \in [contents : Seq(Byte), usedBytes : Nat]
    BY DEF Clean
  <2>2. a \in [node : [contents : Seq(Byte), usedBytes : Nat], offset : Nat, position : Nat]
    BY <2>1
  <2>3. a.node = node
    OBVIOUS
  <2> HIDE DEF a
  <2>4. QED
    BY <2>2, <2>3 DEF Writes
<1> HIDE DEF T, n, a
<1>2. \A k \in 1 .. n, t \in T : File!WriteBuffer(f, explicit, t, chunks[k]) \in T
  <2>1. ASSUME NEW k \in 1 .. n, NEW t \in T
        PROVE  File!WriteBuffer(f, explicit, t, chunks[k]) \in T
    <3>1. chunks[k] \in Seq(Byte) /\ t \in Writes
      BY <1>0 DEF T
    <3>2. QED
      BY <3>1, WriteBufferIs DEF T
  <2>2. QED
    BY <2>1
<1>3. PICK g \in [D -> T] : g[0] = a /\ \A k \in 1 .. n : g[k] = step[k][g[k - 1]]
  <2> HIDE DEF Solves
  <2>1. step \in [1 .. n -> [T -> T]]
    BY <1>2
  <2> HIDE DEF step
  <2>2. Stepwise(T, n, a, step)
    BY <1>0, <1>1, <2>1 DEF Stepwise
  <2>3. QED
    BY <2>2, StepByStep
<1>4. \A k \in D : g[k] = IF k = 0 THEN a ELSE File!WriteBuffer(f, explicit, g[k - 1], chunks[k])
  <2>1. \A k \in 1 .. n : g[k - 1] \in T
    BY <1>0, <1>3
  <2>2. ASSUME NEW k \in 1 .. n PROVE g[k] = File!WriteBuffer(f, explicit, g[k - 1], chunks[k])
    <3>1. step[k][g[k - 1]] = File!WriteBuffer(f, explicit, g[k - 1], chunks[k])
      BY <2>1
    <3> HIDE DEF step
    <3>2. QED
      BY <1>3, <3>1
  <2>3. \A k \in D : k = 0 \/ k \in 1 .. n
    BY <1>0
  <2>4. QED
    BY <1>3, <2>2, <2>3
<1>5. Solves(g)
  BY <1>3, <1>4
<1> DEFINE acc == CHOOSE s : Solves(s)
<1>6. Solves(acc)
  <2> HIDE DEF Solves
  <2>1. QED
    BY <1>5
<1>7. File!Writev(f, explicit, chunks, p) = acc[n]
  BY DEF File!Writev, a, n
<1>8. /\ acc = [k \in D |-> acc[k]] /\ acc[0] = a
      /\ \A k \in 1 .. n : acc[k] = File!WriteBuffer(f, explicit, acc[k - 1], chunks[k])
  <2> HIDE DEF acc
  <2>1. acc = [i \in D |-> IF i = 0 THEN a ELSE File!WriteBuffer(f, explicit, acc[i - 1], chunks[i])]
    BY <1>6
  <2> HIDE DEF Solves, step
  <2>2. DOMAIN acc = D /\ 0 \in D /\ \A k \in 1 .. n : k \in D /\ k # 0
    BY <1>0, <2>1
  <2>3. acc = [k \in D |-> acc[k]]
    BY <2>1
  <2>4. QED
    BY <2>1, <2>2, <2>3
<1> HIDE DEF acc
<1>9. \A k \in 0 .. n : acc[k] \in T
  BY <1>0, <1>1, <1>2, <1>8, EveryStep
<1>10. acc \in [0 .. n -> T]
  BY <1>8, <1>9
<1>11. IsWritev(acc, f, explicit, chunks, p)
  BY <1>7, <1>8, <1>10 DEF IsWritev, T, a, n
<1>12. QED
  BY <1>11

\* Writing never makes a file shorter.
LEMMA OverLengthIs ==
  ASSUME NEW s \in Seq(Byte), NEW p \in Nat, NEW d \in Seq(Byte)
  PROVE  /\ OverLength(s, p, d) \in Nat /\ OverLength(s, p, d) >= Len(s)
         /\ d # <<>> => OverLength(s, p, d) >= p + Len(d)
         /\ p = Len(s) => OverLength(s, p, d) = p + Len(d)
<1>1. Len(s) \in Nat /\ Len(d) \in Nat /\ (d = <<>> => Len(d) = 0)
  OBVIOUS
<1>2. QED
  BY <1>1 DEF OverLength

\* A vectored write lays the bytes of all the buffers over the file, from the
\* position of the stream on or behind the file.
LEMMA WritevIs ==
  ASSUME Clean(node), NEW f \in FileFd, position[f] \in Nat, NEW chunks \in Seq(Seq(Byte))
  PROVE  LET b == Bytes(node)
             d == File!FlattenSeq(chunks)
             p == IF File!Appends(f) THEN Len(b) ELSE position[f]
             w == File!Writev(f, FALSE, chunks, 0)
         IN /\ d \in Seq(Byte) /\ Clean(w.node) /\ Bytes(w.node) = File!File!Overlaid(b, p, d)
            /\ w.node.usedBytes = OverLength(b, p, d)
            /\ chunks # <<>> \/ ~File!Appends(f) => w.position = p + Len(d)
            /\ chunks = <<>> => d = <<>> /\ w.node = node /\ w.position = position[f]
<1> DEFINE b == Bytes(node)
           p == IF File!Appends(f) THEN Len(b) ELSE position[f]
           w == File!Writev(f, FALSE, chunks, 0)
           n == Len(chunks)
<1>1. PICK flat : IsFlat(Byte, flat, chunks)
  BY FlatSteps
<1>2. PICK acc : IsWritev(acc, f, FALSE, chunks, 0)
  BY WritevSteps
<1>3. /\ n \in Nat /\ \A k \in 1 .. n : chunks[k] \in Seq(Byte)
      /\ flat \in [0 .. n -> Seq(Byte)] /\ flat[0] = <<>>
      /\ \A k \in 1 .. n : flat[k] = flat[k - 1] \o chunks[k]
      /\ File!FlattenSeq(chunks) = flat[n]
  <2>1. n \in Nat /\ \A k \in 1 .. n : chunks[k] \in Seq(Byte)
    OBVIOUS
  <2>2. QED
    BY <1>1, <2>1 DEF IsFlat
<1>4. /\ acc \in [0 .. n -> Writes] /\ acc[0] = [node |-> node, offset |-> 0, position |-> position[f]]
      /\ \A k \in 1 .. n : acc[k] = File!WriteBuffer(f, FALSE, acc[k - 1], chunks[k])
      /\ w = acc[n]
  BY <1>2 DEF IsWritev
<1>5. b \in Seq(Byte) /\ Len(b) \in Nat /\ p \in Nat /\ Len(b) = node.usedBytes
  BY BytesAre
<1> HIDE DEF b, p, w
<1> DEFINE S == {k \in 0 .. n :
                   /\ Bytes(acc[k].node) = File!File!Overlaid(b, p, flat[k])
                   /\ k # 0 \/ ~File!Appends(f) => acc[k].position = p + Len(flat[k])}
<1> HIDE DEF n
<1>6. 0 \in S
  <2>1. File!File!Overlaid(b, p, <<>>) = b
    BY DEF File!File!Overlaid
  <2>2. acc[0].node = node /\ acc[0].position = position[f] /\ flat[0] = <<>> /\ Len(flat[0]) = 0
    BY <1>3, <1>4
  <2>3. ~File!Appends(f) => position[f] = p + 0
    BY DEF p
  <2>4. 0 \in 0 .. n
    BY <1>3
  <2>5. QED
    BY <2>1, <2>2, <2>3, <2>4 DEF b
<1>7. ASSUME NEW k \in 1 .. n, k - 1 \in S PROVE k \in S
  <2> DEFINE c == acc[k - 1]
             e == flat[k - 1]
             d == chunks[k]
             x == acc[k]
             end == IF File!Appends(f) THEN c.node.usedBytes ELSE c.position
  <2>1. k - 1 \in 0 .. n /\ k \in 0 .. n /\ k # 0
    BY <1>3
  <2>2. c \in Writes /\ e \in Seq(Byte) /\ d \in Seq(Byte) /\ flat[k] = e \o d
    BY <1>3, <1>4, <2>1
  <2>3. /\ Bytes(c.node) = File!File!Overlaid(b, p, e)
        /\ k - 1 # 0 \/ ~File!Appends(f) => c.position = p + Len(e)
    BY <1>7
  <2>4. x = File!WriteBuffer(f, FALSE, c, d)
    BY <1>4
  <2> HIDE DEF c, e, d, x, S
  <2>5. x.position = end + Len(d) /\ Bytes(x.node) = File!File!Overlaid(Bytes(c.node), end, d)
    <3>1. FALSE \in BOOLEAN
      OBVIOUS
    <3>2. QED
      BY <2>2, <2>4, <3>1, WriteBufferIs
  <2>6. end = p + Len(e)
    <3>1. CASE File!Appends(f)
      <4>1. c.node.usedBytes = Len(Bytes(c.node))
        BY <2>2, BytesAre DEF Writes
      <4>2. Len(File!File!Overlaid(b, p, e)) = OverLength(b, p, e)
        BY <1>5, <2>2, OverlaidIs
      <4>3. p = Len(b)
        BY <3>1 DEF p
      <4>4. OverLength(b, p, e) = p + Len(e)
        BY <1>5, <2>2, <4>3, OverLengthIs
      <4>5. QED
        BY <2>3, <3>1, <4>1, <4>2, <4>4
    <3>2. CASE ~File!Appends(f)
      BY <2>3, <3>2
    <3>3. QED
      BY <3>1, <3>2
  <2>7. Bytes(x.node) = File!File!Overlaid(b, p, e \o d)
    <3>1. File!File!Overlaid(File!File!Overlaid(b, p, e), p + Len(e), d) = File!File!Overlaid(b, p, e \o d)
      BY <1>5, <2>2, OverlaidTwice
    <3>2. QED
      BY <2>3, <2>5, <2>6, <3>1
  <2>8. x.position = p + Len(flat[k])
    <3>1. Len(e \o d) = Len(e) + Len(d) /\ Len(e) \in Nat /\ Len(d) \in Nat
      BY <2>2
    <3>2. QED
      BY <1>5, <2>2, <2>5, <2>6, <3>1
  <2>9. QED
    BY <2>1, <2>2, <2>7, <2>8 DEF x, S
<1>8. n \in S
  <2> HIDE DEF S
  <2>1. \A k \in 0 .. n : k \in S
    BY <1>3, <1>6, <1>7, UpTo
  <2>2. QED
    BY <1>3, <2>1
<1> DEFINE d == flat[n]
<1>9. /\ d \in Seq(Byte) /\ Bytes(w.node) = File!File!Overlaid(b, p, d)
      /\ n # 0 \/ ~File!Appends(f) => w.position = p + Len(d)
      /\ Clean(w.node)
  <2>1. d \in Seq(Byte) /\ w \in Writes
    BY <1>3, <1>4
  <2>2. Clean(w.node)
    BY <2>1 DEF Writes
  <2>3. QED
    BY <1>4, <1>8, <2>1, <2>2
<1>10. n = 0 => d = <<>> /\ w.node = node /\ w.position = position[f]
  BY <1>3, <1>4
<1>11. chunks = <<>> <=> n = 0
  BY DEF n
<1> HIDE DEF d, S
<1>12. w.node.usedBytes = OverLength(b, p, d)
  <2>1. Len(Bytes(w.node)) = w.node.usedBytes
    BY <1>9, BytesAre
  <2>2. Len(File!File!Overlaid(b, p, d)) = OverLength(b, p, d)
    BY <1>5, <1>9, OverlaidIs
  <2>3. QED
    BY <1>9, <2>1, <2>2
<1>13. d = File!FlattenSeq(chunks)
  BY <1>3 DEF d
<1>14. QED
  BY <1>9, <1>10, <1>11, <1>12, <1>13 DEF b, p, w

\* With an offset of its own the bytes go there, and the position of the stream
\* stays, unless it appends: then it ends somewhere in the file.
LEMMA PwritevIs ==
  ASSUME Clean(node), NEW f \in FileFd, position[f] \in Nat, NEW chunks \in Seq(Seq(Byte)),
         NEW p \in Nat
  PROVE  LET b == Bytes(node)
             d == File!FlattenSeq(chunks)
             w == File!Writev(f, TRUE, chunks, p)
         IN /\ d \in Seq(Byte) /\ Clean(w.node) /\ Bytes(w.node) = File!File!Overlaid(b, p, d)
            /\ w.node.usedBytes = OverLength(b, p, d) /\ w.position \in Nat
            /\ w.position = position[f] \/ (File!Appends(f) /\ w.position <= w.node.usedBytes)
<1> DEFINE b == Bytes(node)
           w == File!Writev(f, TRUE, chunks, p)
           n == Len(chunks)
<1>1. PICK flat : IsFlat(Byte, flat, chunks)
  BY FlatSteps
<1>2. PICK acc : IsWritev(acc, f, TRUE, chunks, p)
  BY WritevSteps
<1>3. /\ n \in Nat /\ \A k \in 1 .. n : chunks[k] \in Seq(Byte)
      /\ flat \in [0 .. n -> Seq(Byte)] /\ flat[0] = <<>>
      /\ \A k \in 1 .. n : flat[k] = flat[k - 1] \o chunks[k]
      /\ File!FlattenSeq(chunks) = flat[n]
  <2>1. n \in Nat /\ \A k \in 1 .. n : chunks[k] \in Seq(Byte)
    OBVIOUS
  <2>2. QED
    BY <1>1, <2>1 DEF IsFlat
<1>4. /\ acc \in [0 .. n -> Writes] /\ acc[0] = [node |-> node, offset |-> p, position |-> position[f]]
      /\ \A k \in 1 .. n : acc[k] = File!WriteBuffer(f, TRUE, acc[k - 1], chunks[k])
      /\ w = acc[n]
  BY <1>2 DEF IsWritev
<1>5. b \in Seq(Byte) /\ Len(b) \in Nat /\ Len(b) = node.usedBytes
  BY BytesAre
<1> HIDE DEF b, w
<1> DEFINE S == {k \in 0 .. n :
                   /\ Bytes(acc[k].node) = File!File!Overlaid(b, p, flat[k])
                   /\ acc[k].offset = p + Len(flat[k])
                   /\ \/ acc[k].position = position[f]
                      \/ File!Appends(f) /\ acc[k].position <= acc[k].node.usedBytes}
<1> HIDE DEF n
<1>6. 0 \in S
  <2>1. File!File!Overlaid(b, p, <<>>) = b
    BY DEF File!File!Overlaid
  <2>2. /\ acc[0].node = node /\ acc[0].position = position[f] /\ acc[0].offset = p
        /\ flat[0] = <<>> /\ Len(flat[0]) = 0 /\ p + 0 = p
    BY <1>3, <1>4
  <2>3. 0 \in 0 .. n
    BY <1>3
  <2>4. QED
    BY <2>1, <2>2, <2>3 DEF b
<1>7. ASSUME NEW k \in 1 .. n, k - 1 \in S PROVE k \in S
  <2> DEFINE c == acc[k - 1]
             e == flat[k - 1]
             d == chunks[k]
             x == acc[k]
             end == IF File!Appends(f) THEN c.node.usedBytes ELSE c.position
  <2>1. k - 1 \in 0 .. n /\ k \in 0 .. n
    BY <1>3
  <2>2. c \in Writes /\ e \in Seq(Byte) /\ d \in Seq(Byte) /\ flat[k] = e \o d
    BY <1>3, <1>4, <2>1
  <2>3. /\ Bytes(c.node) = File!File!Overlaid(b, p, e)
        /\ c.offset = p + Len(e)
        /\ c.position = position[f] \/ (File!Appends(f) /\ c.position <= c.node.usedBytes)
    BY <1>7
  <2>4. x = File!WriteBuffer(f, TRUE, c, d)
    BY <1>4
  <2> HIDE DEF c, e, d, x, S
  <2>5. /\ x.position = end /\ x.offset = c.offset + Len(d)
        /\ Bytes(x.node) = File!File!Overlaid(Bytes(c.node), c.offset, d)
        /\ x.node.usedBytes = OverLength(Bytes(c.node), c.offset, d)
    <3>1. TRUE \in BOOLEAN
      OBVIOUS
    <3>2. QED
      BY <2>2, <2>4, <3>1, WriteBufferIs
  <2>6. Bytes(x.node) = File!File!Overlaid(b, p, e \o d)
    <3>1. File!File!Overlaid(File!File!Overlaid(b, p, e), p + Len(e), d) = File!File!Overlaid(b, p, e \o d)
      BY <1>5, <2>2, OverlaidTwice
    <3>2. QED
      BY <2>3, <2>5, <3>1
  <2>7. x.offset = p + Len(flat[k])
    <3>1. Len(e \o d) = Len(e) + Len(d) /\ Len(e) \in Nat /\ Len(d) \in Nat
      BY <2>2
    <3>2. QED
      BY <2>2, <2>3, <2>5, <3>1
  <2>8. x.position = position[f] \/ (File!Appends(f) /\ x.position <= x.node.usedBytes)
    <3>1. CASE ~File!Appends(f)
      BY <2>3, <2>5, <3>1
    <3>2. CASE File!Appends(f)
      <4>1. Clean(c.node) /\ c.offset \in Nat
        BY <2>2 DEF Writes
      <4>2. Bytes(c.node) \in Seq(Byte) /\ Len(Bytes(c.node)) = c.node.usedBytes
        BY <4>1, BytesAre
      <4>3. OverLength(Bytes(c.node), c.offset, d) >= Len(Bytes(c.node))
        BY <2>2, <4>1, <4>2, OverLengthIs
      <4>4. QED
        BY <2>5, <3>2, <4>2, <4>3
    <3>3. QED
      BY <3>1, <3>2
  <2>9. QED
    BY <2>1, <2>2, <2>6, <2>7, <2>8 DEF x, S
<1>8. n \in S
  <2> HIDE DEF S
  <2>1. \A k \in 0 .. n : k \in S
    BY <1>3, <1>6, <1>7, UpTo
  <2>2. QED
    BY <1>3, <2>1
<1> DEFINE d == flat[n]
<1>9. /\ d \in Seq(Byte) /\ Bytes(w.node) = File!File!Overlaid(b, p, d)
      /\ w.position = position[f] \/ (File!Appends(f) /\ w.position <= w.node.usedBytes)
      /\ Clean(w.node) /\ w.position \in Nat
  <2>1. d \in Seq(Byte) /\ w \in Writes
    BY <1>3, <1>4
  <2>2. Clean(w.node) /\ w.position \in Nat
    BY <2>1 DEF Writes
  <2>3. QED
    BY <1>4, <1>8, <2>1, <2>2
<1> HIDE DEF d, S
<1>10. w.node.usedBytes = OverLength(b, p, d)
  <2>1. Len(Bytes(w.node)) = w.node.usedBytes
    BY <1>9, BytesAre
  <2>2. Len(File!File!Overlaid(b, p, d)) = OverLength(b, p, d)
    BY <1>5, <1>9, OverlaidIs
  <2>3. QED
    BY <1>9, <2>1, <2>2
<1>11. d = File!FlattenSeq(chunks)
  BY <1>3 DEF d
<1>12. QED
  BY <1>9, <1>10, <1>11 DEF b, w

-----------------------------------------------------------------------------
(* The invariant of the file, and its steps.                               *)

\* What is mapped lies within the longest file.
Mapped(x) ==
  /\ x \in [at : Nat, shared : BOOLEAN, bytes : Seq(Byte)]
  /\ x.at + Len(x.bytes) <= MaxSize

\* The inductive invariant of the file.
FileInv ==
  /\ Clean(node) /\ node.usedBytes <= MaxSize
  /\ position \in [FileFd -> 0 .. MaxSize]
  /\ Mapped(mapping)

\* The new file is empty, as promised.
LEMMA FileInit ==
  ASSUME File!Init
  PROVE  FileInv /\ File!File!Init
<1>1. node = [contents |-> <<>>, usedBytes |-> 0] /\ MaxSize \in Nat
      /\ position = [f \in FileFd |-> 0] /\ mapping = [at |-> 0, shared |-> FALSE, bytes |-> <<>>]
  BY FileConstants DEF File!Init, File!NoFile, File!NoMapping
<1>2. <<>> \in Seq(Byte) /\ Len(<<>>) = 0
  OBVIOUS
<1>3. Clean(node)
  <2>1. node.contents = <<>> /\ node.usedBytes = 0 /\ node \in [contents : Seq(Byte), usedBytes : Nat]
    BY <1>1, <1>2
  <2>2. QED
    BY <1>2, <2>1 DEF Clean
<1>4. Mapped(mapping)
  <2>1. /\ mapping.at = 0 /\ mapping.bytes = <<>>
        /\ mapping \in [at : Nat, shared : BOOLEAN, bytes : Seq(Byte)]
    BY <1>1, <1>2
  <2>2. QED
    BY <1>1, <1>2, <2>1 DEF Mapped
<1>5. FileInv
  BY <1>1, <1>3, <1>4 DEF FileInv
<1>6. Bytes(node) = <<>>
  BY <1>1, <1>3, BytesAre
<1>7. File!File!Init
  BY <1>1, <1>6 DEF Bytes, File!Init, File!File!Init, File!NoMapping, File!File!NoMapping,
     File!Count, File!File!Count
<1>8. QED
  BY <1>5, <1>7

\* What a step of the file preserves and implements.
FileStep == FileInv' /\ File!File!Next

\* The steps that leave the file alone.
LEMMA SameFile ==
  ASSUME FileInv, UNCHANGED node
  PROVE  Clean(node)' /\ (node.usedBytes <= MaxSize)' /\ Bytes(node)' = Bytes(node)
BY DEF FileInv, Clean, Bytes

\* What the invariant says in single facts.
LEMMA InvFacts ==
  ASSUME FileInv
  PROVE  /\ Clean(node) /\ Bytes(node) \in Seq(Byte) /\ MaxSize \in Nat
         /\ Len(Bytes(node)) = node.usedBytes /\ node.usedBytes \in 0 .. MaxSize
         /\ \A f \in FileFd : position[f] \in Nat /\ position[f] <= MaxSize
<1>1. Clean(node) /\ MaxSize \in Nat /\ node.usedBytes <= MaxSize /\ position \in [FileFd -> 0 .. MaxSize]
  BY FileConstants DEF FileInv
<1>2. Bytes(node) \in Seq(Byte) /\ Len(Bytes(node)) = node.usedBytes /\ node.usedBytes \in Nat
  BY <1>1, BytesAre
<1>3. QED
  BY <1>1, <1>2

\* A read of a descriptor without the right to.
LEMMA RefusedStep ==
  ASSUME FileInv, File!Refused
  PROVE  FileStep
<1>1. UNCHANGED <<node, position, mapping>>
  BY DEF File!Refused
<1>2. FileInv'
  <2>1. Clean(node)' /\ (node.usedBytes <= MaxSize)'
    BY <1>1, SameFile
  <2>2. QED
    BY <1>1, <2>1 DEF FileInv, Mapped
<1>3. File!File!Refuse
  <2>1. Bytes(node)' = Bytes(node)
    BY <1>1, SameFile
  <2>2. QED
    BY <1>1, <2>1 DEF Bytes, File!Refused, File!Refusal, File!File!Refuse, File!File!Refusal
<1>4. QED
  BY <1>2, <1>3 DEF FileStep, File!File!Next

\* _fd_read.
LEMMA ReadFdStep ==
  ASSUME FileInv, NEW f \in FileFd, NEW iov \in Iov, File!ReadFd(f, iov)
  PROVE  FileStep
<1>1. CASE ~File!CanRead(f)
  BY <1>1, RefusedStep DEF File!ReadFd
<1>2. CASE File!CanRead(f)
  <2> DEFINE r == File!Readv(position[f], iov)
             b == Bytes(node)
             n == Len(r.out)
  <2>1. /\ answer' = File!Data(r.out) /\ position' = [position EXCEPT ![f] = r.at]
        /\ UNCHANGED <<node, mapping>>
    BY <1>2 DEF File!ReadFd
  <2>2. /\ Clean(node) /\ b \in Seq(Byte) /\ MaxSize \in Nat
        /\ Len(b) \in 0 .. MaxSize /\ position[f] \in Nat /\ position[f] <= MaxSize
    BY InvFacts
  <2>3. iov \in Seq(Nat)
    BY FileConstants
  <2>4. r \in Reads(position[f])
    BY <2>2, <2>3, ReadvIs
  <2> HIDE DEF r, b
  <2>5. r.out \in Seq(Byte) /\ r.at = position[f] + n /\ r.out = Piece(b, position[f], n) /\ n \in Nat
    BY <2>4 DEF Reads, b
  <2> HIDE DEF n
  <2>6. IsPiece(r.out, b, position[f], n)
    BY <2>2, <2>5, PieceIs
  <2>7. n \in 0 .. MaxSize /\ position[f] + n \in 0 .. MaxSize
    BY <2>2, <2>5, <2>6 DEF IsPiece, n
  <2>8. FileInv'
    <3>1. Clean(node)' /\ (node.usedBytes <= MaxSize)'
      BY <2>1, SameFile
    <3>2. position' \in [FileFd -> 0 .. MaxSize]
      BY <2>1, <2>5, <2>7 DEF FileInv
    <3>3. Mapped(mapping)'
      BY <2>1 DEF FileInv, Mapped
    <3>4. QED
      BY <3>1, <3>2, <3>3 DEF FileInv
  <2>9. File!File!Read(f, n)
    <3>1. Bytes(node)' = Bytes(node)
      BY <2>1, SameFile
    <3>2. answer' = File!File!Data(r.out)
      BY <2>1 DEF File!Data, File!File!Data
    <3>3. position' = [position EXCEPT ![f] = @ + Len(r.out)]
      BY <2>1, <2>5 DEF FileInv, n
    <3>4. r.out = File!File!Piece(Bytes(node), position[f], n)
      BY <2>5 DEF Piece, b
    <3>5. QED
      BY <2>1, <3>1, <3>2, <3>3, <3>4 DEF Bytes, File!File!Read
  <2>10. QED
    BY <2>7, <2>8, <2>9 DEF FileStep, File!File!Next, File!File!Amount
<1>3. QED
  BY <1>1, <1>2

\* Reading nothing.
LEMMA NothingRead ==
  ASSUME NEW s \in Seq(Byte)
  PROVE  Piece(s, 0, 0) = <<>>
<1>1. IsPiece(Piece(s, 0, 0), s, 0, 0)
  BY PieceIs
<1>2. Len(s) \in Nat
  OBVIOUS
<1>3. Piece(s, 0, 0) \in Seq(Byte) /\ Len(Piece(s, 0, 0)) = 0
  BY <1>1, <1>2 DEF IsPiece
<1>4. QED
  BY <1>3

\* A call that answers with a piece of the file and leaves everything else.
LEMMA ReadAtStep ==
  ASSUME FileInv, NEW p \in Nat, NEW d \in Seq(Byte), d = Piece(Bytes(node), p, Len(d)),
         answer' = File!Data(d), UNCHANGED <<node, position, mapping>>
  PROVE  FileStep
<1> DEFINE b == Bytes(node)
           n == Len(d)
<1>1. b \in Seq(Byte) /\ MaxSize \in Nat /\ Len(b) \in 0 .. MaxSize /\ n \in Nat
  BY InvFacts
<1>2. IsPiece(d, b, p, n)
  BY <1>1, PieceIs
<1> HIDE DEF b, n
<1>3. FileInv'
  <2>1. Clean(node)' /\ (node.usedBytes <= MaxSize)'
    BY SameFile
  <2>2. QED
    BY <2>1 DEF FileInv, Mapped
<1>4. Bytes(node)' = Bytes(node)
  BY SameFile
<1>5. CASE p > MaxSize
  <2>1. d = <<>>
    BY <1>1, <1>2, <1>5 DEF IsPiece
  <2>2. File!File!Piece(Bytes(node), 0, 0) = <<>>
    BY <1>1, NothingRead DEF Piece, b
  <2>3. File!File!ReadAt(0, 0)
    BY <1>4, <2>1, <2>2 DEF Bytes, File!Data, File!File!Data, File!File!ReadAt
  <2>4. QED
    BY <1>1, <1>3, <2>3 DEF FileStep, File!File!Next, File!File!Amount
<1>6. CASE ~(p > MaxSize)
  <2>1. n \in 0 .. MaxSize /\ p \in 0 .. MaxSize
    BY <1>1, <1>2, <1>6 DEF IsPiece, n
  <2>2. File!File!ReadAt(p, n)
    BY <1>4 DEF Bytes, Piece, File!Data, File!File!Data, File!File!ReadAt, n
  <2>3. QED
    BY <1>3, <2>1, <2>2 DEF FileStep, File!File!Next, File!File!Amount
<1>7. QED
  BY <1>5, <1>6

\* _fd_pread.
LEMMA PreadFdStep ==
  ASSUME FileInv, NEW f \in FileFd, NEW iov \in Iov, NEW p \in Offset, File!PreadFd(f, iov, p)
  PROVE  FileStep
<1>1. CASE ~File!CanRead(f) \/ p < 0
  BY <1>1, RefusedStep DEF File!PreadFd
<1>2. CASE ~(~File!CanRead(f) \/ p < 0)
  <2> DEFINE r == File!Readv(p, iov)
  <2>1. answer' = File!Data(r.out) /\ UNCHANGED <<node, position, mapping>>
    BY <1>2 DEF File!PreadFd
  <2>2. iov \in Seq(Nat) /\ p \in Nat /\ Clean(node)
    BY <1>2, FileConstants, InvFacts
  <2>3. r \in Reads(p)
    BY <2>2, ReadvIs
  <2> HIDE DEF r
  <2> DEFINE d == r.out
  <2>4. d \in Seq(Byte) /\ d = Piece(Bytes(node), p, Len(d))
    BY <2>3 DEF Reads
  <2>5. answer' = File!Data(d)
    BY <2>1
  <2> HIDE DEF d
  <2>6. QED
    BY <2>1, <2>2, <2>4, <2>5, ReadAtStep
<1>3. QED
  BY <1>1, <1>2

\* FS.readFile.
LEMMA ReadFileStep ==
  ASSUME FileInv, File!ReadFile
  PROVE  FileStep
<1> DEFINE n == node.usedBytes
           b == Bytes(node)
           d == Piece(b, 0, n)
<1>1. Clean(node) /\ n \in Nat /\ b \in Seq(Byte)
  BY InvFacts
<1>2. answer' = File!Data(File!Got(0, n)) /\ UNCHANGED <<node, position, mapping>>
  BY DEF File!ReadFile
<1>3. File!Got(0, n) = d
  BY <1>1, GotIs
<1> HIDE DEF n, b
<1>4. IsPiece(d, b, 0, n)
  BY <1>1, PieceIs
<1>5. d = Piece(b, 0, Len(d))
  BY <1>1, PieceAgain
<1> HIDE DEF d
<1>6. d \in Seq(Byte) /\ answer' = File!Data(d)
  BY <1>2, <1>3, <1>4 DEF IsPiece
<1>7. QED
  BY <1>2, <1>5, <1>6, ReadAtStep DEF b

\* The invariant after a call that has changed the file, or a position.
LEMMA NewFile ==
  ASSUME FileInv, Clean(node'), node'.usedBytes <= MaxSize, UNCHANGED mapping,
         position' \in [FileFd -> 0 .. MaxSize]
  PROVE  FileInv'
BY DEF FileInv, Clean, Mapped

\* _fd_write.
LEMMA WriteFdStep ==
  ASSUME FileInv, NEW f \in FileFd, NEW chunks \in Buffers, File!WriteFd(f, chunks)
  PROVE  FileStep
<1>1. CASE ~File!CanWrite(f)
  BY <1>1, RefusedStep DEF File!WriteFd
<1>2. CASE File!CanWrite(f)
  <2> DEFINE b == Bytes(node)
             d == File!FlattenSeq(chunks)
             p == IF File!Appends(f) THEN Len(b) ELSE position[f]
             w == File!Writev(f, FALSE, chunks, 0)
             n == Len(d)
  <2>1. /\ w.node.usedBytes <= MaxSize /\ node' = w.node
        /\ position' = [position EXCEPT ![f] = w.position]
        /\ answer' = File!Data(d) /\ UNCHANGED mapping
    BY <1>2 DEF File!WriteFd
  <2>2. /\ Clean(node) /\ b \in Seq(Byte) /\ MaxSize \in Nat
        /\ Len(b) \in 0 .. MaxSize /\ position[f] \in Nat /\ position[f] <= MaxSize
    BY InvFacts
  <2>3. p \in 0 .. MaxSize
    BY <2>2
  <2>4. chunks \in Seq(Seq(Byte))
    BY FileConstants
  <2>5. /\ d \in Seq(Byte) /\ Clean(w.node) /\ Bytes(w.node) = File!File!Overlaid(b, p, d)
        /\ w.node.usedBytes = OverLength(b, p, d)
        /\ chunks # <<>> \/ ~File!Appends(f) => w.position = p + Len(d)
        /\ chunks = <<>> => d = <<>> /\ w.node = node /\ w.position = position[f]
    BY <2>2, <2>4, WritevIs
  <2>6. f \in {g \in FileFd : File!Appends(g)} <=> File!Appends(f)
    OBVIOUS
  <2> HIDE DEF d, w
  <2>7. n \in Nat /\ (d = <<>> <=> n = 0) /\ (n # 0 => p + n <= MaxSize)
    <3>1. n \in Nat /\ (d = <<>> <=> n = 0)
      BY <2>5
    <3>2. p \in Nat
      BY <2>3
    <3> HIDE DEF b, p
    <3>3. d # <<>> => OverLength(b, p, d) >= p + n /\ OverLength(b, p, d) \in Nat
      BY <2>2, <2>5, <3>2, OverLengthIs
    <3>4. QED
      BY <2>1, <2>2, <2>5, <3>1, <3>2, <3>3
  <2>8. p + n \in 0 .. MaxSize /\ n \in 0 .. MaxSize
    BY <2>2, <2>3, <2>7
  <2>9. CASE chunks # <<>> \/ ~File!Appends(f)
    <3>1. w.position = p + n
      BY <2>5, <2>9
    <3>2. position' = [position EXCEPT ![f] = p + n]
      BY <2>1, <3>1
    <3> HIDE DEF p, b, n
    <3>3. FileInv'
      <4>1. position' \in [FileFd -> 0 .. MaxSize]
        BY <2>8, <3>2 DEF FileInv
      <4>2. Clean(node') /\ node'.usedBytes <= MaxSize
        BY <2>1, <2>5
      <4>3. QED
        BY <2>1, <4>1, <4>2, NewFile
    <3>4. Bytes(node') = File!File!Overlaid(b, p, d)
      BY <2>1, <2>5
    <3>5. p = IF f \in {g \in FileFd : File!Appends(g)} THEN Len(Bytes(node)) ELSE position[f]
      BY DEF p, b
    <3>6. d \in [1 .. n -> Byte] /\ File!File!Data(d).count = n /\ answer' = File!File!Data(d)
      BY <2>1, <2>5, <2>7 DEF File!Data, File!File!Data, n
    <3>7. File!File!Write(f, n)
      BY <2>1, <3>2, <3>4, <3>5, <3>6 DEF File!File!Write, Bytes, b
    <3>8. QED
      BY <2>8, <3>3, <3>7 DEF FileStep, File!File!Next, File!File!Amount
  <2>10. CASE chunks = <<>> /\ File!Appends(f)
    <3>1. d = <<>> /\ node' = node /\ position' = position
      BY <2>1, <2>5, <2>10 DEF FileInv
    <3>2. FileInv'
      <4>1. Clean(node') /\ node'.usedBytes <= MaxSize /\ position' \in [FileFd -> 0 .. MaxSize]
        BY <3>1 DEF FileInv
      <4>2. QED
        BY <2>1, <4>1, NewFile
    <3>3. Bytes(node') = File!File!Overlaid(Bytes(node), 0, d)
      BY <3>1 DEF File!File!Overlaid
    <3>4. d \in [1 .. 0 -> Byte] /\ File!File!Data(d).count = 0 /\ answer' = File!File!Data(d)
      BY <2>1, <3>1 DEF File!Data, File!File!Data
    <3>5. File!File!WriteAt(f, 0, 0)
      BY <2>1, <3>1, <3>3, <3>4 DEF File!File!WriteAt, Bytes
    <3>6. QED
      BY <2>2, <3>2, <3>5 DEF FileStep, File!File!Next, File!File!Amount
  <2>11. QED
    BY <2>9, <2>10
<1>3. QED
  BY <1>1, <1>2

\* _fd_pwrite.
LEMMA PwriteFdStep ==
  ASSUME FileInv, NEW f \in FileFd, NEW chunks \in Buffers, NEW p \in Offset,
         File!PwriteFd(f, chunks, p)
  PROVE  FileStep
<1>1. CASE ~File!CanWrite(f) \/ p < 0
  BY <1>1, RefusedStep DEF File!PwriteFd
<1>2. CASE ~(~File!CanWrite(f) \/ p < 0)
  <2> DEFINE b == Bytes(node)
             d == File!FlattenSeq(chunks)
             w == File!Writev(f, TRUE, chunks, p)
             n == Len(d)
             q == w.position
  <2>1. /\ w.node.usedBytes <= MaxSize /\ node' = w.node
        /\ position' = [position EXCEPT ![f] = q]
        /\ answer' = File!Data(d) /\ UNCHANGED mapping
    BY <1>2 DEF File!PwriteFd
  <2>2. /\ Clean(node) /\ b \in Seq(Byte) /\ MaxSize \in Nat
        /\ Len(b) \in 0 .. MaxSize /\ position[f] \in Nat /\ position[f] <= MaxSize
    BY InvFacts
  <2>3. p \in Nat /\ chunks \in Seq(Seq(Byte))
    BY <1>2, FileConstants
  <2>4. /\ d \in Seq(Byte) /\ Clean(w.node) /\ Bytes(w.node) = File!File!Overlaid(b, p, d)
        /\ w.node.usedBytes = OverLength(b, p, d) /\ q \in Nat
        /\ q = position[f] \/ (File!Appends(f) /\ q <= w.node.usedBytes)
    BY <2>2, <2>3, PwritevIs
  <2> HIDE DEF d, w, b, q
  <2>5. n \in Nat /\ (d = <<>> <=> n = 0) /\ (n # 0 => p + n <= MaxSize)
    <3>1. n \in Nat /\ (d = <<>> <=> n = 0)
      BY <2>4
    <3>2. d # <<>> => OverLength(b, p, d) >= p + n /\ OverLength(b, p, d) \in Nat
      BY <2>2, <2>3, <2>4, OverLengthIs
    <3>3. QED
      BY <2>1, <2>2, <2>3, <2>4, <3>1, <3>2
  <2>6. Clean(node') /\ node'.usedBytes \in 0 .. MaxSize /\ Len(Bytes(node')) = node'.usedBytes
    <3>1. Clean(node')
      BY <2>1, <2>4
    <3>2. QED
      BY <2>1, <2>2, <3>1, BytesAre
  <2>7. q \in 0 .. MaxSize
    BY <2>1, <2>2, <2>4, <2>6
  <2>8. FileInv'
    <3>1. position' \in [FileFd -> 0 .. MaxSize]
      BY <2>1, <2>7 DEF FileInv
    <3>2. Clean(node') /\ node'.usedBytes <= MaxSize
      BY <2>2, <2>6
    <3>3. QED
      BY <2>1, <3>1, <3>2, NewFile
  <2>9. \/ UNCHANGED position
        \/ /\ f \in {g \in FileFd : File!Appends(g)} /\ q \in 0 .. Len(Bytes(node'))
           /\ position' = [position EXCEPT ![f] = q]
    <3>1. CASE q = position[f]
      BY <2>1, <3>1 DEF FileInv
    <3>2. CASE File!Appends(f) /\ q <= w.node.usedBytes
      BY <2>1, <2>4, <2>6, <3>2
    <3>3. QED
      BY <2>4, <3>1, <3>2
  <2>10. d \in [1 .. n -> Byte] /\ File!File!Data(d).count = n /\ answer' = File!File!Data(d)
    BY <2>1, <2>4, <2>5 DEF File!Data, File!File!Data
  <2>11. Bytes(node') = File!File!Overlaid(Bytes(node), p, d)
    BY <2>1, <2>4 DEF b
  <2> HIDE DEF n
  <2>12. CASE n # 0
    <3>1. p \in 0 .. MaxSize /\ n \in 0 .. MaxSize
      BY <2>2, <2>3, <2>5, <2>12
    <3>2. File!File!WriteAt(f, p, n)
      BY <2>1, <2>9, <2>10, <2>11 DEF File!File!WriteAt, Bytes
    <3>3. QED
      BY <2>8, <3>1, <3>2 DEF FileStep, File!File!Next, File!File!Amount
  <2>13. CASE n = 0
    <3>1. Bytes(node') = File!File!Overlaid(Bytes(node), 0, d)
      BY <2>5, <2>11, <2>13 DEF File!File!Overlaid
    <3>2. File!File!WriteAt(f, 0, 0)
      BY <2>1, <2>9, <2>10, <2>13, <3>1 DEF File!File!WriteAt, Bytes
    <3>3. QED
      BY <2>2, <2>8, <3>2 DEF FileStep, File!File!Next, File!File!Amount
  <2>14. QED
    BY <2>12, <2>13
<1>3. QED
  BY <1>1, <1>2

\* _fd_seek.
LEMMA SeekFdStep ==
  ASSUME FileInv, NEW f \in FileFd, NEW s \in Seeks, File!SeekFd(f, s[1], s[2])
  PROVE  FileStep
<1> DEFINE to == s[1] + CASE s[2] = "set" -> 0
                          [] s[2] = "cur" -> position[f]
                          [] s[2] = "end" -> node.usedBytes
<1>1. s[1] \in Int /\ s[2] \in {"set", "cur", "end"}
  BY FileConstants
<1>2. position[f] \in Nat /\ node.usedBytes \in Nat /\ MaxSize \in Nat
  BY InvFacts
<1>3. to \in Int
  <2>1. CASE s[2] = "set"
    BY <1>1, <2>1
  <2>2. CASE s[2] = "cur"
    BY <1>1, <1>2, <2>2
  <2>3. CASE s[2] = "end"
    BY <1>1, <1>2, <2>3
  <2>4. QED
    BY <1>1, <2>1, <2>2, <2>3
<1>4. IF to < 0 THEN File!Refused
      ELSE /\ to <= MaxSize /\ position' = [position EXCEPT ![f] = to]
           /\ answer' = File!Count(to) /\ UNCHANGED <<node, mapping>>
  BY DEF File!SeekFd
<1> HIDE DEF to
<1>5. CASE to < 0
  BY <1>4, <1>5, RefusedStep
<1>6. CASE ~(to < 0)
  <2>1. to \in 0 .. MaxSize
    BY <1>2, <1>3, <1>4, <1>6
  <2>2. FileInv'
    <3>1. position' \in [FileFd -> 0 .. MaxSize]
      BY <1>4, <1>6, <2>1 DEF FileInv
    <3>2. Clean(node') /\ node'.usedBytes <= MaxSize
      BY <1>4, <1>6 DEF FileInv
    <3>3. QED
      BY <1>4, <1>6, <3>1, <3>2, NewFile
  <2>3. File!File!Seek(f, to)
    BY <1>4, <1>6 DEF File!Count, File!File!Count, File!File!Seek
  <2>4. QED
    BY <2>1, <2>2, <2>3 DEF FileStep, File!File!Next, File!File!Amount
<1>7. QED
  BY <1>5, <1>6

\* The calls that cut or extend the file.
LEMMA ResizeStep ==
  ASSUME FileInv, NEW n \in 0 .. MaxSize, Clean(node'), node'.usedBytes = n,
         Bytes(node') = File!File!Sized(Bytes(node), n),
         answer' = File!Count(0), UNCHANGED <<position, mapping>>
  PROVE  FileStep
<1>1. FileInv'
  <2>1. position' \in [FileFd -> 0 .. MaxSize] /\ node'.usedBytes <= MaxSize
    BY FileConstants DEF FileInv
  <2>2. QED
    BY <2>1, NewFile
<1>2. File!File!Resize(n)
  BY DEF Bytes, File!Count, File!File!Count, File!File!Resize
<1>3. QED
  BY <1>1, <1>2 DEF FileStep, File!File!Next, File!File!Amount

\* FS.truncate.
LEMMA TruncateStep ==
  ASSUME FileInv, NEW f \in FileFd, NEW n \in Lengths, File!Truncate(f, n)
  PROVE  FileStep
<1>1. CASE ~File!CanWrite(f) \/ n < 0
  BY <1>1, RefusedStep DEF File!Truncate
<1>2. CASE ~(~File!CanWrite(f) \/ n < 0)
  <2>1. n \in 0 .. MaxSize /\ n \in Nat
    BY <1>2, FileConstants
  <2>2. node' = File!Resized(node, n) /\ answer' = File!Count(0) /\ UNCHANGED <<position, mapping>>
    BY <1>2 DEF File!Truncate
  <2>3. Clean(node)
    BY InvFacts
  <2>4. Clean(node') /\ node'.usedBytes = n /\ Bytes(node') = File!File!Sized(Bytes(node), n)
    BY <2>1, <2>2, <2>3, ResizedIs
  <2>5. QED
    BY <2>1, <2>2, <2>4, ResizeStep
<1>3. QED
  BY <1>1, <1>2

\* FS.allocate.
LEMMA AllocateStep ==
  ASSUME FileInv, NEW f \in FileFd, NEW p \in Offset, NEW n \in Lengths, File!Allocate(f, p, n)
  PROVE  FileStep
<1>1. CASE ~File!CanWrite(f) \/ p < 0 \/ n <= 0
  BY <1>1, RefusedStep DEF File!Allocate
<1>2. CASE ~(~File!CanWrite(f) \/ p < 0 \/ n <= 0)
  <2> DEFINE k == p + n
             e == File!Expanded(node, k)
             top == File!Max({node.usedBytes, k})
             b == Bytes(node)
             s == File!File!Sized(b, top)
  <2>1. k \in Nat /\ k > 0
    BY <1>2, FileConstants
  <2>2. /\ k <= MaxSize /\ node' = [e EXCEPT !.usedBytes = File!Max({@, k})]
        /\ answer' = File!Count(0) /\ UNCHANGED <<position, mapping>>
    BY <1>2 DEF File!Allocate
  <2> HIDE DEF k
  <2>3. Clean(node) /\ b \in Seq(Byte) /\ MaxSize \in Nat /\ Len(b) = node.usedBytes
        /\ node.usedBytes \in 0 .. MaxSize
    BY InvFacts
  <2>4. /\ e \in [contents : Seq(Byte), usedBytes : Nat]
        /\ e.usedBytes = node.usedBytes /\ k <= Len(e.contents) /\ node.usedBytes <= Len(e.contents)
        /\ \A i \in 1 .. Len(e.contents) : e.contents[i] = ByteAt(node, i)
    BY <2>1, <2>3, ExpandedIs
  <2>5. top = IF node.usedBytes >= k THEN node.usedBytes ELSE k
    BY <2>1, <2>3, FileMax
  <2> HIDE DEF e, top
  <2>6. top \in 0 .. MaxSize /\ top > 0 /\ top >= node.usedBytes /\ top <= Len(e.contents)
    BY <2>1, <2>2, <2>3, <2>4, <2>5
  <2>7. node' = [e EXCEPT !.usedBytes = top]
    BY <2>2, <2>4 DEF top
  <2>8. /\ node'.contents = e.contents /\ node'.usedBytes = top
        /\ node' \in [contents : Seq(Byte), usedBytes : Nat]
    BY <2>4, <2>6, <2>7
  <2>9. Clean(node')
    <3>1. ASSUME NEW i \in top + 1 .. Len(e.contents) PROVE e.contents[i] = 0
      <4>1. i \in 1 .. Len(e.contents) /\ ~(i <= node.usedBytes)
        BY <2>3, <2>4, <2>6
      <4>2. QED
        BY <2>4, <4>1 DEF ByteAt
    <3>2. QED
      BY <2>6, <2>8, <3>1 DEF Clean
  <2>10. s \in Seq(Byte) /\ Len(s) = top /\ \A i \in 1 .. top : s[i] = ByteAt(node, i)
    <3>1. s = [i \in 1 .. top |-> IF i <= Len(b) THEN b[i] ELSE 0]
      BY DEF File!File!Sized
    <3>2. ASSUME NEW i \in 1 .. top PROVE s[i] = ByteAt(node, i) /\ s[i] \in Byte
      <4>1. i \in Nat \ {0}
        BY <2>6
      <4>2. i <= Len(b) => b[i] = node.contents[i]
        BY <2>3, <4>1, BytesAre
      <4>3. s[i] = ByteAt(node, i)
        BY <2>3, <3>1, <4>2 DEF ByteAt
      <4>4. QED
        BY <2>3, <4>1, <4>3, ByteAtIs
    <3>3. s \in [1 .. top -> Byte]
      BY <3>1, <3>2
    <3> HIDE DEF s
    <3>4. top \in Nat
      BY <2>6
    <3>5. QED
      BY <3>2, <3>3, <3>4, SequenceOf
  <2> HIDE DEF s, b
  <2>11. Bytes(node') = s
    <3>1. /\ Bytes(node') \in Seq(Byte) /\ Len(Bytes(node')) = top
          /\ \A i \in 1 .. top : Bytes(node')[i] = node'.contents[i]
      BY <2>8, <2>9, BytesAre
    <3>2. \A i \in 1 .. top : i \in 1 .. Len(e.contents)
      BY <2>6
    <3>3. \A i \in 1 .. top : Bytes(node')[i] = s[i]
      BY <2>4, <2>8, <2>10, <3>1, <3>2
    <3>4. QED
      BY <2>10, <3>1, <3>3, SameSequence
  <2>12. QED
    BY <2>2, <2>6, <2>8, <2>9, <2>11, ResizeStep DEF s, b
<1>3. QED
  BY <1>1, <1>2

\* FS.writeFile.
LEMMA WriteFileStep ==
  ASSUME FileInv, NEW d \in Contents, File!WriteFile(d)
  PROVE  FileStep
<1>1. d \in Seq(Byte) /\ Len(d) \in 0 .. MaxSize
  BY FileConstants
<1>2. /\ node' = IF d = <<>> THEN File!NoFile ELSE [contents |-> d, usedBytes |-> Len(d)]
      /\ answer' = File!Data(d) /\ UNCHANGED <<position, mapping>>
  BY DEF File!WriteFile
<1>3. node'.contents = d /\ node'.usedBytes = Len(d) /\ node' \in [contents : Seq(Byte), usedBytes : Nat]
  <2>1. CASE d = <<>>
    BY <1>1, <1>2, <2>1 DEF File!NoFile
  <2>2. CASE d # <<>>
    BY <1>1, <1>2, <2>2
  <2>3. QED
    BY <2>1, <2>2
<1>4. Clean(node')
  BY <1>1, <1>3 DEF Clean
<1>5. Bytes(node') = d
  <2>1. /\ Bytes(node') \in Seq(Byte) /\ Len(Bytes(node')) = Len(d)
        /\ \A i \in 1 .. Len(d) : Bytes(node')[i] = d[i]
    BY <1>3, <1>4, BytesAre
  <2>2. QED
    BY <1>1, <2>1, SameSequence
<1>6. FileInv'
  <2>1. position' \in [FileFd -> 0 .. MaxSize] /\ node'.usedBytes <= MaxSize /\ UNCHANGED mapping
    BY <1>1, <1>2, <1>3, FileConstants DEF FileInv
  <2>2. QED
    BY <1>4, <2>1, NewFile
<1>7. File!File!Replace(d)
  BY <1>2, <1>5 DEF Bytes, File!Data, File!File!Data, File!File!Replace
<1>8. d \in [1 .. Len(d) -> Byte]
  BY <1>1
<1>9. QED
  BY <1>1, <1>6, <1>7, <1>8 DEF FileStep, File!File!Next, File!File!Amount

\* What mmap copies from the array, capacity included, is the file from p on
\* and zeros.
LEMMA CopyForIs ==
  ASSUME Clean(node), NEW p \in Nat, NEW n \in Nat
  PROVE  /\ File!CopyFor(p, n) \in Seq(Byte) /\ Len(File!CopyFor(p, n)) = n
         /\ File!CopyFor(p, n) = File!File!Sized(File!File!Piece(Bytes(node), p, n), n)
<1> DEFINE c == node.contents
           top == File!Min({p + n, Len(c)})
           t == SubSeq(c, p + 1, top)
           x == File!CopyFor(p, n)
           b == Bytes(node)
           u == Piece(b, p, n)
           y == File!File!Sized(u, n)
<1>1. /\ c \in Seq(Byte) /\ Len(c) \in Nat /\ node.usedBytes \in Nat /\ node.usedBytes <= Len(c)
      /\ b \in Seq(Byte) /\ Len(b) = node.usedBytes
      /\ \A i \in 1 .. Len(b) : b[i] = c[i]
  BY BytesAre DEF Clean
<1> HIDE DEF b
<1>2. top = IF p + n <= Len(c) THEN p + n ELSE Len(c)
  BY <1>1, FileMin
<1>3. x = [i \in 1 .. n |-> IF i <= Len(t) THEN t[i] ELSE 0]
  BY DEF File!CopyFor
<1>4. IsPiece(u, b, p, n)
  BY <1>1, PieceIs
<1>5. y = [i \in 1 .. n |-> IF i <= Len(u) THEN u[i] ELSE 0]
  BY DEF File!File!Sized
<1> HIDE DEF top, u
<1>6. t \in Seq(Byte) /\ Len(t) = IF p + 1 <= top THEN top - p ELSE 0
  <2>1. top \in Nat /\ top <= Len(c)
    BY <1>1, <1>2
  <2> HIDE DEF c
  <2>2. CASE p + 1 <= top
    BY <1>1, <2>1, <2>2
  <2>3. CASE ~(p + 1 <= top)
    BY <1>1, <2>1, <2>3
  <2>4. QED
    BY <2>2, <2>3
<1>7. \A i \in 1 .. Len(t) : t[i] = c[p + i]
  <2>1. top \in Nat /\ top <= Len(c)
    BY <1>1, <1>2
  <2> HIDE DEF c
  <2>2. QED
    BY <1>1, <1>6, <2>1
<1> HIDE DEF t, x, y
<1>8. ASSUME NEW i \in 1 .. n PROVE x[i] = ByteAt(node, p + i) /\ y[i] = ByteAt(node, p + i)
  <2>1. i \in Nat /\ i >= 1 /\ i <= n /\ p + i \in Nat \ {0}
    OBVIOUS
  <2>2. p + i <= Len(c) => c[p + i] = ByteAt(node, p + i)
    BY <1>1, <2>1, ByteAtIs
  <2>3. x[i] = ByteAt(node, p + i)
    <3>1. CASE i <= Len(t)
      <4>1. p + i <= Len(c) /\ i \in 1 .. Len(t)
        BY <1>1, <1>2, <1>6, <2>1, <3>1
      <4>2. x[i] = t[i]
        BY <1>3, <3>1
      <4>3. QED
        BY <1>7, <2>2, <4>1, <4>2
    <3>2. CASE ~(i <= Len(t))
      <4>1. p + i > Len(c)
        BY <1>1, <1>2, <1>6, <2>1, <3>2
      <4>2. ~(p + i <= node.usedBytes)
        BY <1>1, <2>1, <4>1
      <4>3. x[i] = 0
        BY <1>3, <3>2
      <4>4. QED
        BY <4>2, <4>3 DEF ByteAt
    <3>3. QED
      BY <3>1, <3>2
  <2>4. y[i] = ByteAt(node, p + i)
    <3>1. CASE i <= Len(u)
      <4>1. p + i <= node.usedBytes /\ i \in 1 .. Len(u) /\ p + i \in 1 .. Len(b)
        BY <1>1, <1>4, <2>1, <3>1 DEF IsPiece
      <4>2. y[i] = u[i]
        BY <1>5, <3>1
      <4>3. u[i] = b[p + i]
        BY <1>4, <4>1 DEF IsPiece
      <4>4. b[p + i] = c[p + i]
        BY <1>1, <4>1
      <4>5. QED
        BY <4>1, <4>2, <4>3, <4>4 DEF ByteAt
    <3>2. CASE ~(i <= Len(u))
      <4>1. ~(p + i <= node.usedBytes)
        BY <1>1, <1>4, <2>1, <3>2 DEF IsPiece
      <4>2. y[i] = 0
        BY <1>5, <3>2
      <4>3. QED
        BY <4>1, <4>2 DEF ByteAt
    <3>3. QED
      BY <3>1, <3>2
  <2>5. QED
    BY <2>3, <2>4
<1>9. x = y
  BY <1>3, <1>5, <1>8
<1>10. x \in [1 .. n -> Byte]
  <2>1. \A i \in 1 .. n : p + i \in Nat \ {0}
    OBVIOUS
  <2>2. \A i \in 1 .. n : x[i] \in Byte
    BY <1>8, <2>1, ByteAtIs
  <2>3. QED
    BY <1>3, <2>2
<1>11. x \in Seq(Byte) /\ Len(x) = n
  BY <1>10, SequenceOf
<1>12. QED
  BY <1>9, <1>11 DEF x, y, u, b, Piece

\* FS.mmap.
LEMMA MmapStep ==
  ASSUME FileInv, NEW f \in FileFd, NEW r \in Regions, NEW s \in BOOLEAN,
         File!Mmap(f, r[1], r[2], s)
  PROVE  FileStep
<1> DEFINE p == r[1]
           n == r[2]
           c == File!CopyFor(p, n)
<1>1. p \in Nat /\ n \in Nat
  BY FileConstants
<1>2. CASE ~File!CanRead(f) \/ (s /\ ~File!CanWrite(f)) \/ node.contents = <<>>
  BY <1>2, RefusedStep DEF File!Mmap
<1>3. CASE ~(~File!CanRead(f) \/ (s /\ ~File!CanWrite(f)) \/ node.contents = <<>>)
  <2>1. /\ p + n <= MaxSize /\ node.contents # <<>>
        /\ mapping' = [at |-> p, shared |-> s, bytes |-> c]
        /\ answer' = File!Count(0) /\ UNCHANGED <<node, position>>
    BY <1>3 DEF File!Mmap
  <2>2. Clean(node) /\ MaxSize \in Nat /\ Bytes(node) \in Seq(Byte) /\ Len(Bytes(node)) = node.usedBytes
    BY InvFacts
  <2> HIDE DEF p, n
  <2>3. c \in Seq(Byte) /\ Len(c) = n /\ c = File!File!Sized(File!File!Piece(Bytes(node), p, n), n)
    BY <1>1, <2>2, CopyForIs
  <2> HIDE DEF c
  <2>4. FileInv'
    <3>1. Mapped(mapping')
      <4>1. /\ mapping'.at = p /\ mapping'.bytes = c
            /\ mapping' \in [at : Nat, shared : BOOLEAN, bytes : Seq(Byte)]
        BY <1>1, <2>1, <2>3
      <4>2. QED
        BY <2>1, <2>3, <4>1 DEF Mapped
    <3>2. Clean(node') /\ node'.usedBytes <= MaxSize /\ position' \in [FileFd -> 0 .. MaxSize]
      BY <2>1 DEF FileInv
    <3>3. QED
      BY <3>1, <3>2 DEF FileInv, Clean, Mapped
  <2>5. Bytes(node') = Bytes(node) /\ Bytes(node) # <<>>
    <3>1. node.usedBytes # 0
      BY <2>1, <2>2 DEF Clean
    <3>2. QED
      BY <2>1, <2>2, <3>1
  <2>6. File!File!Map(p, n, s)
    BY <2>1, <2>3, <2>5 DEF Bytes, File!Count, File!File!Count, File!File!Map
  <2>7. p \in 0 .. MaxSize /\ n \in 0 .. MaxSize
    BY <1>1, <2>1, <2>2
  <2>8. QED
    BY <2>4, <2>6, <2>7 DEF FileStep, File!File!Next, File!File!Amount
<1>4. QED
  BY <1>2, <1>3

\* The program writes to a mapping.
LEMMA StoreStep ==
  ASSUME FileInv, NEW i \in DOMAIN mapping.bytes, NEW b \in Byte, File!Store(i, b)
  PROVE  FileStep
<1>1. mapping' = [mapping EXCEPT !.bytes[i] = b] /\ UNCHANGED <<node, position, answer>>
  BY DEF File!Store
<1>2. mapping \in [at : Nat, shared : BOOLEAN, bytes : Seq(Byte)]
      /\ mapping.at + Len(mapping.bytes) <= MaxSize
  BY DEF FileInv, Mapped
<1> DEFINE c == [mapping.bytes EXCEPT ![i] = b]
<1>3. c \in Seq(Byte) /\ Len(c) = Len(mapping.bytes)
  <2>1. mapping.bytes \in Seq(Byte)
    BY <1>2
  <2>2. QED
    BY <2>1
<1>4. mapping' = [mapping EXCEPT !.bytes = c]
  BY <1>1, <1>2
<1> HIDE DEF c
<1>5. /\ mapping'.at = mapping.at /\ mapping'.bytes = c
      /\ mapping' \in [at : Nat, shared : BOOLEAN, bytes : Seq(Byte)]
  BY <1>2, <1>3, <1>4
<1>6. FileInv'
  <2>1. Mapped(mapping')
    BY <1>2, <1>3, <1>5 DEF Mapped
  <2>2. Clean(node') /\ node'.usedBytes <= MaxSize /\ position' \in [FileFd -> 0 .. MaxSize]
    BY <1>1 DEF FileInv
  <2>3. QED
    BY <2>1, <2>2 DEF FileInv, Clean, Mapped
<1>7. File!File!Poke(i, b)
  BY <1>1 DEF Bytes, File!File!Poke
<1>8. QED
  BY <1>6, <1>7 DEF FileStep, File!File!Next

\* __munmap_js.
LEMMA MunmapStep ==
  ASSUME FileInv, File!Munmap
  PROVE  FileStep
<1> DEFINE d == mapping.bytes
           p == mapping.at
           b == Bytes(node)
<1>1. /\ mapping # File!NoMapping
      /\ node' = IF mapping.shared THEN File!Written(node, d, p) ELSE node
      /\ mapping' = File!NoMapping /\ answer' = File!Count(0) /\ UNCHANGED position
  BY DEF File!Munmap
<1>2. d \in Seq(Byte) /\ p \in Nat /\ p + Len(d) <= MaxSize
  BY DEF FileInv, Mapped
<1>3. Clean(node) /\ b \in Seq(Byte) /\ MaxSize \in Nat /\ Len(b) = node.usedBytes
      /\ node.usedBytes \in 0 .. MaxSize
  BY InvFacts
<1> HIDE DEF d, p
<1>4. /\ Clean(node') /\ node'.usedBytes <= MaxSize
      /\ Bytes(node') = IF mapping.shared THEN File!File!Overlaid(b, p, d) ELSE b
  <2>1. CASE mapping.shared
    <3>1. /\ Clean(node') /\ Bytes(node') = File!File!Overlaid(b, p, d)
          /\ node'.usedBytes = OverLength(b, p, d)
      BY <1>1, <1>2, <1>3, <2>1, WrittenIs
    <3>2. OverLength(b, p, d) <= MaxSize
      <4>1. Len(d) \in Nat
        BY <1>2
      <4>2. QED
        BY <1>2, <1>3, <4>1 DEF OverLength
    <3>3. QED
      BY <2>1, <3>1, <3>2
  <2>2. CASE ~mapping.shared
    BY <1>1, <1>3, <2>2
  <2>3. QED
    BY <2>1, <2>2
<1>5. FileInv'
  <2>1. Mapped(mapping')
    <3>1. <<>> \in Seq(Byte) /\ Len(<<>>) = 0
      OBVIOUS
    <3>2. /\ mapping'.at = 0 /\ mapping'.bytes = <<>>
          /\ mapping' \in [at : Nat, shared : BOOLEAN, bytes : Seq(Byte)]
      BY <1>1, <3>1 DEF File!NoMapping
    <3>3. QED
      BY <1>3, <3>1, <3>2 DEF Mapped
  <2>2. position' \in [FileFd -> 0 .. MaxSize]
    BY <1>1 DEF FileInv
  <2>3. QED
    BY <1>4, <2>1, <2>2 DEF FileInv, Clean, Mapped
<1>6. File!File!Unmap
  BY <1>1, <1>4 DEF Bytes, File!Count, File!File!Count, File!NoMapping, File!File!NoMapping,
     File!File!Unmap, b, d, p
<1>7. QED
  BY <1>5, <1>6 DEF FileStep, File!File!Next

\* Every step of the file preserves the invariant and is one of a plain file.
LEMMA FileNextStep ==
  ASSUME FileInv, File!Next
  PROVE  FileStep
<1>1. ASSUME NEW f \in FileFd, NEW iov \in Iov,
             File!ReadFd(f, iov) \/ \E p \in Offset : File!PreadFd(f, iov, p)
      PROVE  FileStep
  BY <1>1, ReadFdStep, PreadFdStep
<1>2. ASSUME NEW f \in FileFd, NEW c \in Buffers,
             File!WriteFd(f, c) \/ \E p \in Offset : File!PwriteFd(f, c, p)
      PROVE  FileStep
  BY <1>2, WriteFdStep, PwriteFdStep
<1>3. ASSUME NEW f \in FileFd, NEW s \in Seeks, File!SeekFd(f, s[1], s[2])
      PROVE  FileStep
  BY <1>3, SeekFdStep
<1>4. ASSUME NEW f \in FileFd, NEW n \in Lengths,
             File!Truncate(f, n) \/ \E p \in Offset : File!Allocate(f, p, n)
      PROVE  FileStep
  BY <1>4, TruncateStep, AllocateStep
<1>5. ASSUME NEW d \in Contents, File!WriteFile(d)
      PROVE  FileStep
  BY <1>5, WriteFileStep
<1>6. CASE File!ReadFile \/ File!Munmap
  BY <1>6, ReadFileStep, MunmapStep
<1>7. ASSUME NEW f \in FileFd, NEW r \in Regions, NEW s \in BOOLEAN, File!Mmap(f, r[1], r[2], s)
      PROVE  FileStep
  BY <1>7, MmapStep
<1>8. ASSUME NEW i \in DOMAIN mapping.bytes, NEW b \in Byte, File!Store(i, b)
      PROVE  FileStep
  BY <1>8, StoreStep
<1>9. QED
  BY <1>1, <1>2, <1>3, <1>4, <1>5, <1>6, <1>7, <1>8 DEF File!Next

\* The steps of the runtime.
LEMMA RuntimeFileStep ==
  ASSUME FileInv, [RuntimeNext]_runtimeVars
  PROVE  FileInv' /\ [File!File!Next]_(File!File!fileVars)
<1>1. File!Next \/ UNCHANGED fileVars
  BY DEF RuntimeNext, runtimeVars
<1>2. CASE File!Next
  BY <1>2, FileNextStep DEF FileStep
<1>3. CASE UNCHANGED fileVars
  <2>1. FileInv'
    BY <1>3 DEF fileVars, FileInv, Clean, Mapped
  <2>2. UNCHANGED File!File!fileVars
    BY <1>3 DEF fileVars, File!File!fileVars
  <2>3. QED
    BY <2>1, <2>2
<1>4. QED
  BY <1>1, <1>2, <1>3

\* The array of the file holds all its bytes, with nothing but zeros before a
\* byte that is written behind the end.
THEOREM FileSound == RuntimeSpec => []FileInv
<1>1. RuntimeInit => FileInv
  BY FileInit DEF RuntimeInit
<1>2. FileInv /\ [RuntimeNext]_runtimeVars => FileInv'
  BY RuntimeFileStep
<1>3. QED
  BY <1>1, <1>2, PTL DEF RuntimeSpec

\* MemoryFile implements PlainFile: a file kept in an array that grows by
\* guesses, read and written in pieces, is a sequence of bytes.
THEOREM FilesArePlain == RuntimeSpec => ImplementsPlainFile
<1>1. RuntimeInit => File!File!Init
  BY FileInit DEF RuntimeInit
<1>2. FileInv /\ [RuntimeNext]_runtimeVars => [File!File!Next]_(File!File!fileVars)
  BY RuntimeFileStep
<1>3. RuntimeSpec => File!File!Init /\ [][File!File!Next]_(File!File!fileVars)
  BY <1>1, <1>2, FileSound, PTL DEF RuntimeSpec
<1>4. QED
  BY <1>3 DEF ImplementsPlainFile, File!ImplementsPlainFile, File!File!Spec

\* The invariant includes the type invariant of the file.
LEMMA FileTyped ==
  ASSUME FileInv
  PROVE  File!TypeOK
<1>1. /\ node.contents \in Seq(Byte) /\ node.usedBytes \in 0 .. Len(node.contents)
      /\ node.usedBytes <= MaxSize /\ MaxSize \in Nat
      /\ mapping.at \in Nat /\ mapping.bytes \in Seq(Byte)
      /\ mapping.at + Len(mapping.bytes) <= MaxSize
  BY FileConstants DEF FileInv, Clean, Mapped
<1> DEFINE d == mapping.bytes
<1>2. d \in Seq(Byte) /\ Len(d) \in Nat
  BY <1>1
<1>3. Len(d) \in 0 .. MaxSize /\ mapping.at \in 0 .. MaxSize
  BY <1>1, <1>2
<1> HIDE DEF d
<1>4. d \in [1 .. Len(d) -> Byte]
  BY <1>2
<1>5. d \in File!Chunk
  BY <1>3, <1>4 DEF File!Chunk, File!Amount
<1>6. QED
  BY <1>1, <1>3, <1>5 DEF FileInv, File!TypeOK, File!Amount, d

-----------------------------------------------------------------------------
(* The calendar.                                                           *)

\* The numbers of the calendar, with shorter names.
Leap(y) == Calendar!isLeapYear(y)
NewYear(y) == Calendar!NewYear(y)

\* The length of a year, and the days before each month.
LengthOf(y) == IF Leap(y) THEN 366 ELSE 365
Before(y) == IF Leap(y) THEN Calendar!MONTH_DAYS_LEAP_CUMULATIVE
             ELSE Calendar!MONTH_DAYS_REGULAR_CUMULATIVE

\* A year is 365 or 366 days after the one before.
LEMMA YearLength ==
  ASSUME NEW y \in Nat \ {0}
  PROVE  NewYear(y) \in Nat /\ NewYear(y + 1) = NewYear(y) + LengthOf(y)
<1> DEFINE z == y - 1
<1>1. z \in Nat /\ y = z + 1
  OBVIOUS
<1> HIDE DEF z
<1>2. /\ (z + 1) \div 4 = z \div 4 + (IF (z + 1) % 4 = 0 THEN 1 ELSE 0)
      /\ (z + 1) \div 100 = z \div 100 + (IF (z + 1) % 100 = 0 THEN 1 ELSE 0)
      /\ (z + 1) \div 400 = z \div 400 + (IF (z + 1) % 400 = 0 THEN 1 ELSE 0)
  BY <1>1
<1>3. (z + 1) % 100 = 0 => (z + 1) % 4 = 0
  BY <1>1
<1>4. (z + 1) % 400 = 0 => (z + 1) % 100 = 0
  BY <1>1
<1>5. /\ NewYear(z + 1) = 365 * z + z \div 4 - z \div 100 + z \div 400
      /\ NewYear(z + 2) = 365 * (z + 1) + (z + 1) \div 4 - (z + 1) \div 100 + (z + 1) \div 400
  BY <1>1 DEF NewYear, Calendar!NewYear
<1>6. NewYear(z + 1) \in Nat
  <2>1. z \div 4 \in Nat /\ z \div 100 \in Nat /\ z \div 400 \in Nat /\ z \div 100 <= z
    BY <1>1
  <2>2. QED
    BY <1>1, <1>5, <2>1
<1>7. z + 2 = y + 1
  BY <1>1
<1>8. NewYear(z + 2) = NewYear(z + 1) + LengthOf(z + 1)
  BY <1>1, <1>2, <1>3, <1>4, <1>5 DEF LengthOf, Leap, Calendar!isLeapYear
<1>9. QED
  BY <1>1, <1>6, <1>7, <1>8

\* A year by its place in the cycles of 400, 100 and 4 years.
LEMMA Cycles ==
  ASSUME NEW y \in Nat \ {0}
  PROVE  \E a \in Nat, b \in 0 .. 3, c \in 0 .. 24, d \in 0 .. 3 :
           /\ y - 1 = 400 * a + 100 * b + 4 * c + d
           /\ NewYear(y) = 146097 * a + 36524 * b + 1461 * c + 365 * d
<1> DEFINE z == y - 1
           a == z \div 400
           r == z % 400
           b == r \div 100
           q == r % 100
           c == q \div 4
           d == q % 4
<1>1. z \in Nat /\ a \in Nat /\ r \in 0 .. 399 /\ z = 400 * a + r
  OBVIOUS
<1>2. NewYear(y) = 365 * z + z \div 4 - z \div 100 + z \div 400
  BY DEF NewYear, Calendar!NewYear
<1> HIDE DEF z
<1>3. z \div 400 = a
  OBVIOUS
<1> HIDE DEF a, r
<1>4. b \in 0 .. 3 /\ q \in 0 .. 99 /\ r = 100 * b + q
  BY <1>1
<1> HIDE DEF b, q
<1>5. c \in 0 .. 24 /\ d \in 0 .. 3 /\ q = 4 * c + d
  BY <1>4
<1> HIDE DEF c, d
<1>6. z = 400 * a + 100 * b + 4 * c + d
  BY <1>1, <1>4, <1>5
<1>7. z \div 100 = 4 * a + b
  BY <1>1, <1>4, <1>5, <1>6
<1>8. z \div 4 = 100 * a + 25 * b + c
  BY <1>1, <1>4, <1>5, <1>6
<1>9. NewYear(y) = 146097 * a + 36524 * b + 1461 * c + 365 * d
  BY <1>1, <1>2, <1>3, <1>4, <1>5, <1>6, <1>7, <1>8
<1>10. QED
  BY <1>1, <1>4, <1>5, <1>6, <1>9 DEF z

\* The months of a year follow each other.
LEMMA Months ==
  ASSUME NEW y
  PROVE  /\ Before(y)[1] = 0
         /\ \A i \in 1 .. 12 : Before(y)[i] \in Nat /\ Calendar!MonthDays(y)[i] \in 28 .. 31
         /\ \A i \in 1 .. 11 : Before(y)[i + 1] = Before(y)[i] + Calendar!MonthDays(y)[i]
         /\ Before(y)[12] + 31 = LengthOf(y) /\ Calendar!MonthDays(y)[12] = 31
         /\ Calendar!MonthDays(y)[1] = 31
<1>1. \A i \in 1 .. 12 : i = 1 \/ i = 2 \/ i = 3 \/ i = 4 \/ i = 5 \/ i = 6 \/ i = 7 \/ i = 8
                         \/ i = 9 \/ i = 10 \/ i = 11 \/ i = 12
  OBVIOUS
<1>2. CASE Leap(y)
  <2>1. /\ Before(y) = <<0, 31, 60, 91, 121, 152, 182, 213, 244, 274, 305, 335>>
        /\ Calendar!MonthDays(y) = <<31, 29, 31, 30, 31, 30, 31, 31, 30, 31, 30, 31>>
        /\ LengthOf(y) = 366
    BY <1>2 DEF Before, Calendar!MonthDays, Leap, LengthOf, Calendar!MONTH_DAYS_LEAP,
       Calendar!MONTH_DAYS_LEAP_CUMULATIVE
  <2>2. QED
    BY <1>1, <2>1
<1>3. CASE ~Leap(y)
  <2>1. /\ Before(y) = <<0, 31, 59, 90, 120, 151, 181, 212, 243, 273, 304, 334>>
        /\ Calendar!MonthDays(y) = <<31, 28, 31, 30, 31, 30, 31, 31, 30, 31, 30, 31>>
        /\ LengthOf(y) = 365
    BY <1>3 DEF Before, Calendar!MonthDays, Leap, LengthOf, Calendar!MONTH_DAYS_REGULAR,
       Calendar!MONTH_DAYS_REGULAR_CUMULATIVE
  <2>2. QED
    BY <1>1, <2>1
<1>4. QED
  BY <1>2, <1>3

\* A day of the calendar, by its year, month and day, and its place in the year.
Day(y, mo, d) ==
  y \in Nat /\ y >= 1900 /\ mo \in 0 .. 11 /\ d \in 1 .. Calendar!MonthDays(y)[mo + 1]
\* The day of the year.
Place(y, mo, d) == Before(y)[mo + 1] + d - 1

\* The months follow one another.
LEMMA MonthsFollow ==
  ASSUME NEW y
  PROVE  \A i, j \in 1 .. 12 : i < j => Before(y)[i] + Calendar!MonthDays(y)[i] <= Before(y)[j]
<1> DEFINE b == Before(y)
           l == Calendar!MonthDays(y)
<1>1. /\ \A i \in 1 .. 12 : b[i] \in Nat /\ l[i] \in 28 .. 31
      /\ \A i \in 1 .. 11 : b[i + 1] = b[i] + l[i]
  BY Months
<1> HIDE DEF b, l
<1>2. SUFFICES ASSUME NEW i \in 1 .. 12 PROVE \A j \in 1 .. 12 : i < j => b[i] + l[i] <= b[j]
  BY DEF b, l
<1> DEFINE S == {k \in 0 .. 12 : i < k => b[i] + l[i] <= b[k]}
<1>3. 0 \in S
  OBVIOUS
<1>4. ASSUME NEW k \in 1 .. 12, k - 1 \in S PROVE k \in S
  <2>1. CASE k <= i
    BY <2>1
  <2>2. CASE k = i + 1
    BY <1>1, <2>2
  <2>3. CASE k > i + 1
    <3>1. k - 1 \in 1 .. 11 /\ i < k - 1 /\ (k - 1) + 1 = k /\ k \in 1 .. 12
      BY <2>3
    <3>2. b[i] + l[i] <= b[k - 1] /\ b[k] = b[k - 1] + l[k - 1]
      BY <1>1, <1>4, <3>1
    <3>3. b[k - 1] \in Nat /\ l[k - 1] \in 28 .. 31 /\ b[i] \in Nat /\ l[i] \in 28 .. 31
      BY <1>1, <3>1
    <3>4. QED
      BY <3>1, <3>2, <3>3
  <2>4. QED
    BY <2>1, <2>2, <2>3
<1> HIDE DEF S
<1>5. \A k \in 0 .. 12 : k \in S
  <2>1. 12 \in Nat
    OBVIOUS
  <2>2. QED
    BY <1>3, <1>4, <2>1, UpTo
<1>6. QED
  BY <1>5 DEF S

\* Where in the year a day can be.
LEMMA Places ==
  ASSUME NEW y, NEW mo, NEW d, Day(y, mo, d)
  PROVE  /\ y \in Nat \ {0} /\ mo \in 0 .. 11 /\ d \in 1 .. 31 /\ Place(y, mo, d) \in 0 .. LengthOf(y) - 1
         /\ mo = 0 => Place(y, mo, d) = d - 1
         /\ mo > 0 => Place(y, mo, d) >= 31
         /\ mo = 11 => Place(y, mo, d) = LengthOf(y) - 32 + d
         /\ mo < 11 => Place(y, mo, d) < LengthOf(y) - 31
         /\ LengthOf(y) \in {365, 366}
<1> DEFINE b == Before(y)
           l == Calendar!MonthDays(y)
<1>1. /\ \A i \in 1 .. 12 : b[i] \in Nat /\ l[i] \in 28 .. 31
      /\ b[12] + 31 = LengthOf(y) /\ b[1] = 0 /\ l[1] = 31 /\ l[12] = 31
  BY Months
<1>2. \A i, j \in 1 .. 12 : i < j => b[i] + l[i] <= b[j]
  BY MonthsFollow
<1>3. y \in Nat \ {0} /\ mo \in 0 .. 11 /\ d \in 1 .. l[mo + 1]
  BY DEF Day
<1>4. Place(y, mo, d) = b[mo + 1] + d - 1
  BY DEF Place
<1> HIDE DEF b, l
<1>5. LengthOf(y) \in {365, 366}
  BY DEF LengthOf
<1>6. mo + 1 \in 1 .. 12 /\ l[mo + 1] \in 28 .. 31 /\ b[mo + 1] \in Nat /\ d \in 1 .. 31
  <2>1. mo + 1 \in 1 .. 12
    BY <1>3
  <2>2. l[mo + 1] \in 28 .. 31 /\ b[mo + 1] \in Nat
    BY <1>1, <2>1
  <2>3. QED
    BY <1>3, <2>1, <2>2
<1>7. CASE mo = 0
  <2>1. b[mo + 1] = 0
    BY <1>1, <1>7
  <2>2. QED
    BY <1>3, <1>4, <1>5, <1>6, <1>7, <2>1
<1>8. CASE mo > 0 /\ mo < 11
  <2>1. b[1] + l[1] <= b[mo + 1] /\ b[mo + 1] + l[mo + 1] <= b[12]
    <3>1. 1 \in 1 .. 12 /\ 12 \in 1 .. 12 /\ 1 < mo + 1 /\ mo + 1 < 12
      BY <1>3, <1>8
    <3>2. QED
      BY <1>2, <1>6, <3>1
  <2>2. b[12] \in Nat
    BY <1>1
  <2>3. QED
    BY <1>1, <1>3, <1>4, <1>5, <1>6, <1>8, <2>1, <2>2
<1>9. CASE mo = 11
  <2>1. b[mo + 1] = LengthOf(y) - 31
    BY <1>1, <1>5, <1>6, <1>9
  <2>2. l[mo + 1] = 31
    BY <1>1, <1>9
  <2>3. QED
    BY <1>3, <1>4, <1>5, <1>6, <1>9, <2>1, <2>2
<1>10. QED
  BY <1>3, <1>7, <1>8, <1>9

\* %j adds up the months before.
LEMMA DayOfYearIs ==
  ASSUME NEW t, NEW y, NEW mo, NEW d, Day(y, mo, d),
         t.tm_year + 1900 = y, t.tm_mon = mo, t.tm_mday = d
  PROVE  Calendar!DayOfYear(t) = Place(y, mo, d) + 1
<1> DEFINE days == Calendar!MonthDays(y)
           D == 0 .. 12
           step == [k \in 1 .. 12 |-> [n \in Int |-> n + days[k]]]
           Solves(f) == f = [i \in D |-> IF i = 0 THEN 0 ELSE f[i - 1] + days[i]]
<1>0. /\ \A i \in 1 .. 12 : days[i] \in Int /\ Before(y)[i] \in Nat
      /\ \A i \in 1 .. 11 : Before(y)[i + 1] = Before(y)[i] + days[i]
      /\ Before(y)[1] = 0
  BY Months
<1> HIDE DEF days
<1>1. PICK f \in [D -> Int] : f[0] = 0 /\ \A k \in 1 .. 12 : f[k] = step[k][f[k - 1]]
  <2>1. step \in [1 .. 12 -> [Int -> Int]]
    BY <1>0
  <2> HIDE DEF step, Solves
  <2>2. 0 \in Int /\ 12 \in Nat
    OBVIOUS
  <2>3. Stepwise(Int, 12, 0, step)
    BY <2>1, <2>2 DEF Stepwise
  <2> DEFINE T == Int
             n == 12
  <2>4. Stepwise(T, n, 0, step)
    BY <2>3
  <2> HIDE DEF T, n
  <2>5. \E f \in [0 .. n -> T] : f[0] = 0 /\ \A k \in 1 .. n : f[k] = step[k][f[k - 1]]
    BY <2>4, StepByStep
  <2>6. QED
    BY <2>5 DEF T, n
<1>2. \A i \in D : f[i] = IF i = 0 THEN 0 ELSE f[i - 1] + days[i]
  <2>1. ASSUME NEW i \in 1 .. 12 PROVE f[i] = f[i - 1] + days[i]
    <3>1. f[i - 1] \in Int
      BY <1>1
    <3>2. step[i][f[i - 1]] = f[i - 1] + days[i]
      BY <3>1
    <3> HIDE DEF step
    <3>3. QED
      BY <1>1, <3>2
  <2>2. QED
    BY <1>1, <2>1
<1>3. Solves(f)
  BY <1>1, <1>2
<1> DEFINE sum == CHOOSE f1 : Solves(f1)
<1>4. Solves(sum)
  <2> HIDE DEF Solves
  <2>1. QED
    BY <1>3
<1>5. Calendar!DayOfYear(t) = d + sum[mo]
  <2>1. t.tm_mday = d /\ t.tm_mon = mo /\ t.tm_year + 1900 = y
    OBVIOUS
  <2>2. Calendar!DayOfYear(t) =
          t.tm_mday
          + (CHOOSE g : g = [i \in 0 .. 12 |-> IF i = 0 THEN 0
                                            ELSE g[i - 1] + Calendar!MonthDays(t.tm_year + 1900)[i]])[t.tm_mon]
    BY DEF Calendar!DayOfYear
  <2> DEFINE Sum(l) == CHOOSE g : g = [i \in 0 .. 12 |-> IF i = 0 THEN 0 ELSE g[i - 1] + l[i]]
  <2>3. Calendar!DayOfYear(t) = t.tm_mday + Sum(Calendar!MonthDays(t.tm_year + 1900))[t.tm_mon]
    BY <2>2
  <2>4. Sum(days) = sum
    OBVIOUS
  <2> HIDE DEF Sum, sum
  <2>5. QED
    BY <2>1, <2>3, <2>4 DEF days
<1>6. sum[0] = 0 /\ \A i \in 1 .. 12 : sum[i] = sum[i - 1] + days[i]
  <2> HIDE DEF sum
  <2>1. sum = [i \in D |-> IF i = 0 THEN 0 ELSE sum[i - 1] + days[i]]
    BY <1>4
  <2>2. QED
    BY <2>1
<1> HIDE DEF sum
<1> DEFINE S == {k \in 0 .. 11 : sum[k] = Before(y)[k + 1]}
<1>7. 0 \in S
  BY <1>0, <1>6
<1>8. ASSUME NEW k \in 1 .. 11, k - 1 \in S PROVE k \in S
  <2>1. k \in 1 .. 12 /\ k \in 0 .. 11 /\ (k - 1) + 1 = k
    OBVIOUS
  <2>2. sum[k - 1] = Before(y)[k]
    BY <1>8, <2>1
  <2>3. QED
    BY <1>0, <1>6, <2>1, <2>2
<1> HIDE DEF S
<1>9. \A k \in 0 .. 11 : k \in S
  <2>1. 11 \in Nat
    OBVIOUS
  <2>2. QED
    BY <1>7, <1>8, <2>1, UpTo
<1>10. mo \in 0 .. 11 /\ d \in 1 .. 31
  BY Places
<1>11. sum[mo] = Before(y)[mo + 1] /\ Before(y)[mo + 1] \in Nat
  <2>1. mo + 1 \in 1 .. 12
    BY <1>10
  <2>2. QED
    BY <1>0, <1>9, <1>10, <2>1 DEF S
<1>12. QED
  BY <1>5, <1>10, <1>11 DEF Place

\* Where addDays is after k of its turns, on its way to the month mo.
OnTheWay(y, mo, d, k) ==
  LET at == IF k <= mo THEN k ELSE mo
  IN [days |-> Before(y)[mo + 1] + d - 1 - Before(y)[at + 1], at |-> Calendar!Date(y, at, 1)]

\* A turn of the loop of addDays leaves one month, or stays.
LEMMA LeaveMonth ==
  ASSUME NEW y, NEW mo, NEW d, Day(y, mo, d), NEW k \in 1 .. 12
  PROVE  Calendar!leaveMonth(OnTheWay(y, mo, d, k - 1)) = OnTheWay(y, mo, d, k)
<1> DEFINE b == Before(y)
           l == Calendar!MonthDays(y)
           s == OnTheWay(y, mo, d, k - 1)
<1>1. /\ \A i \in 1 .. 12 : b[i] \in Nat /\ l[i] \in 28 .. 31
      /\ \A i \in 1 .. 11 : b[i + 1] = b[i] + l[i]
  BY Months
<1>2. \A i, j \in 1 .. 12 : i < j => b[i] + l[i] <= b[j]
  BY MonthsFollow
<1>3. mo \in 0 .. 11 /\ mo + 1 \in 1 .. 12 /\ d \in 1 .. l[mo + 1] /\ l[mo + 1] \in 28 .. 31
  <2>1. mo \in 0 .. 11 /\ d \in 1 .. l[mo + 1]
    BY DEF Day
  <2>2. mo + 1 \in 1 .. 12
    BY <2>1
  <2>3. l[mo + 1] \in 28 .. 31
    BY <1>1, <2>2
  <2>4. QED
    BY <2>1, <2>2, <2>3
<1> HIDE DEF b, l
<1>4. CASE k - 1 < mo
  <2>1. s = [days |-> b[mo + 1] + d - 1 - b[k], at |-> Calendar!Date(y, k - 1, 1)]
    BY <1>3, <1>4 DEF OnTheWay, b
  <2>2. s.days = b[mo + 1] + d - 1 - b[k] /\ s.at.year = y /\ s.at.month = k - 1 /\ s.at.day = 1
    BY <2>1 DEF Calendar!Date
  <2>3. k \in 1 .. 11 /\ k + 1 \in 1 .. 12 /\ k < mo + 1 /\ k <= mo /\ k - 1 < 11
    BY <1>3, <1>4
  <2>4. b[k] + l[k] <= b[mo + 1] /\ b[k + 1] = b[k] + l[k] /\ b[mo + 1] \in Nat
        /\ b[k] \in Nat /\ l[k] \in 28 .. 31
    BY <1>1, <1>2, <1>3, <2>3
  <2>5. l[s.at.month + 1] = l[k]
    BY <2>2
  <2> DEFINE left == l[s.at.month + 1] - s.at.day
  <2>6. left = l[k] - 1 /\ ~(s.days <= left)
    BY <1>3, <2>2, <2>4, <2>5
  <2>7. Calendar!leaveMonth(s) =
          IF s.days <= left THEN s
          ELSE [days |-> s.days - (left + 1),
                at |-> IF s.at.month < 11 THEN Calendar!Date(s.at.year, s.at.month + 1, 1)
                       ELSE Calendar!Date(s.at.year + 1, 0, 1)]
    BY <2>2 DEF Calendar!leaveMonth, l
  <2> HIDE DEF s, left
  <2>8. Calendar!leaveMonth(s) = [days |-> s.days - (left + 1), at |-> Calendar!Date(y, k, 1)]
    <3>1. s.at.month < 11 /\ s.at.month + 1 = k
      BY <2>2, <2>3
    <3>2. QED
      BY <2>2, <2>6, <2>7, <3>1
  <2>9. s.days - (left + 1) = b[mo + 1] + d - 1 - b[k + 1]
    BY <1>3, <2>2, <2>4, <2>6
  <2>10. OnTheWay(y, mo, d, k) = [days |-> b[mo + 1] + d - 1 - b[k + 1], at |-> Calendar!Date(y, k, 1)]
    BY <2>3 DEF OnTheWay, b
  <2>11. QED
    BY <2>8, <2>9, <2>10 DEF s
<1>5. CASE ~(k - 1 < mo)
  <2>1. s = [days |-> b[mo + 1] + d - 1 - b[mo + 1], at |-> Calendar!Date(y, mo, 1)]
    <3>1. (IF k - 1 <= mo THEN k - 1 ELSE mo) = mo
      BY <1>3, <1>5
    <3>2. QED
      BY <3>1 DEF OnTheWay, b
  <2>2. OnTheWay(y, mo, d, k) = s
    <3>1. (IF k <= mo THEN k ELSE mo) = mo
      BY <1>3, <1>5
    <3>2. QED
      BY <2>1, <3>1 DEF OnTheWay, b
  <2>3. s.days = d - 1 /\ s.at.year = y /\ s.at.month = mo /\ s.at.day = 1
    <3>1. b[mo + 1] \in Nat
      BY <1>1, <1>3
    <3>2. b[mo + 1] + d - 1 - b[mo + 1] = d - 1
      BY <1>3, <3>1
    <3>3. QED
      BY <2>1, <3>2 DEF Calendar!Date
  <2>4. s.days <= l[s.at.month + 1] - s.at.day
    BY <1>3, <2>3
  <2>5. Calendar!leaveMonth(s) = s
    BY <2>3, <2>4 DEF Calendar!leaveMonth, l
  <2>6. QED
    BY <2>2, <2>5
<1>6. QED
  BY <1>4, <1>5

\* From the first of January on, the place of a day in its year leads there.
LEMMA AddDays ==
  ASSUME NEW y, NEW mo, NEW d, Day(y, mo, d)
  PROVE  Calendar!addDays(Calendar!Date(y, 0, 1), Place(y, mo, d)) = Calendar!Date(y, mo, d)
<1> DEFINE n == Place(y, mo, d)
           a == [days |-> n, at |-> Calendar!Date(y, 0, 1)]
           D == 0 .. 12
           f == [k \in D |-> OnTheWay(y, mo, d, k)]
           Solves(g) == g = [k \in D |-> IF k = 0 THEN a ELSE Calendar!leaveMonth(g[k - 1])]
<1>1. mo \in 0 .. 11 /\ d \in 1 .. 31
  BY Places
<1>2. OnTheWay(y, mo, d, 0) = a
  <2>1. Before(y)[1] = 0 /\ Before(y)[mo + 1] \in Nat
    <3>1. mo + 1 \in 1 .. 12
      BY <1>1
    <3>2. QED
      BY <3>1, Months
  <2>2. OnTheWay(y, mo, d, 0) = [days |-> Before(y)[mo + 1] + d - 1 - Before(y)[0 + 1],
                                at |-> Calendar!Date(y, 0, 1)]
    BY <1>1 DEF OnTheWay
  <2>3. Before(y)[mo + 1] + d - 1 - Before(y)[0 + 1] = n
    BY <1>1, <2>1 DEF Place
  <2>4. QED
    BY <2>2, <2>3
<1> HIDE DEF a
<1>3. Solves(f)
  <2>1. \A k \in D : f[k] = IF k = 0 THEN a ELSE Calendar!leaveMonth(f[k - 1])
    <3>1. ASSUME NEW k \in 1 .. 12 PROVE f[k] = Calendar!leaveMonth(f[k - 1])
      <4>1. f[k] = OnTheWay(y, mo, d, k) /\ f[k - 1] = OnTheWay(y, mo, d, k - 1)
        OBVIOUS
      <4> HIDE DEF f
      <4>2. QED
        BY <4>1, LeaveMonth
    <3>2. f[0] = a
      BY <1>2
    <3> HIDE DEF f
    <3>3. QED
      BY <3>1, <3>2
  <2>2. QED
    BY <2>1
<1> HIDE DEF f
<1> DEFINE turn == CHOOSE g : Solves(g)
<1>4. Solves(turn)
  <2> HIDE DEF Solves
  <2>1. QED
    BY <1>3
<1>5. Calendar!addDays(Calendar!Date(y, 0, 1), n) =
        [turn[12].at EXCEPT !.day = @ + turn[12].days]
  BY DEF Calendar!addDays, a
<1>6. turn[0] = a /\ \A k \in 1 .. 12 : turn[k] = Calendar!leaveMonth(turn[k - 1])
  <2> HIDE DEF turn
  <2>1. turn = [k \in D |-> IF k = 0 THEN a ELSE Calendar!leaveMonth(turn[k - 1])]
    BY <1>4
  <2>2. QED
    BY <2>1
<1> HIDE DEF turn, n
<1> DEFINE S == {k \in D : turn[k] = OnTheWay(y, mo, d, k)}
<1>7. 0 \in S
  BY <1>2, <1>6
<1>8. ASSUME NEW k \in 1 .. 12, k - 1 \in S PROVE k \in S
  <2>1. turn[k - 1] = OnTheWay(y, mo, d, k - 1)
    BY <1>8
  <2>2. QED
    BY <1>6, <2>1, LeaveMonth
<1> HIDE DEF S
<1>9. \A k \in 0 .. 12 : k \in S
  <2>1. 12 \in Nat
    OBVIOUS
  <2>2. QED
    BY <1>7, <1>8, <2>1, UpTo
<1>10. turn[12] = [days |-> d - 1, at |-> Calendar!Date(y, mo, 1)]
  <2>1. turn[12] = OnTheWay(y, mo, d, 12)
    BY <1>9 DEF S
  <2>2. OnTheWay(y, mo, d, 12) = [days |-> Before(y)[mo + 1] + d - 1 - Before(y)[mo + 1],
                                 at |-> Calendar!Date(y, mo, 1)]
    BY <1>1 DEF OnTheWay
  <2>3. Before(y)[mo + 1] \in Nat
    <3>1. mo + 1 \in 1 .. 12
      BY <1>1
    <3>2. QED
      BY <3>1, Months
  <2>4. Before(y)[mo + 1] + d - 1 - Before(y)[mo + 1] = d - 1
    BY <1>1, <2>3
  <2>5. QED
    BY <2>1, <2>2, <2>4
<1>11. [turn[12].at EXCEPT !.day = @ + turn[12].days] = Calendar!Date(y, mo, d)
  <2>1. turn[12].at = [year |-> y, month |-> mo, day |-> 1] /\ turn[12].days = d - 1
    BY <1>10 DEF Calendar!Date
  <2>2. 1 + (d - 1) = d
    BY <1>1
  <2>3. QED
    BY <2>1, <2>2 DEF Calendar!Date
<1>12. QED
  BY <1>5, <1>11 DEF n

\* The weekday of the first of January, with Monday as 0.
First(y) == NewYear(y) % 7

\* The first of January by the year's place in its cycles.
LEMMA FirstIs ==
  ASSUME NEW y \in Nat \ {0}
  PROVE  \E a \in Nat, b \in 0 .. 3, c \in 0 .. 24, d \in 0 .. 3 :
           /\ y - 1 = 400 * a + 100 * b + 4 * c + d
           /\ First(y) = (5 * b + 5 * c + d) % 7
<1>1. PICK a \in Nat, b \in 0 .. 3, c \in 0 .. 24, d \in 0 .. 3 :
           /\ y - 1 = 400 * a + 100 * b + 4 * c + d
           /\ NewYear(y) = 146097 * a + 36524 * b + 1461 * c + 365 * d
  BY Cycles
<1> DEFINE e == 5 * b + 5 * c + d
           q == 20871 * a + 5217 * b + 208 * c + 52 * d
<1>2. NewYear(y) = 7 * q + e /\ q \in Nat /\ e \in Nat
  BY <1>1
<1> HIDE DEF q
<1>3. (7 * q + e) % 7 = e % 7
  BY <1>2
<1>4. QED
  BY <1>1, <1>2, <1>3 DEF First

\* LongYear asks the years since 1900 whether they are leap years: a mistake
\* only for centuries that do not begin on a Wednesday.
LEMMA LeapFromWednesday ==
  ASSUME NEW y \in Nat, y >= 1900, First(y) = 2
  PROVE  Leap(y - 1900) <=> Leap(y)
<1>1. PICK a \in Nat, b \in 0 .. 3, c \in 0 .. 24, d \in 0 .. 3 :
           /\ y - 1 = 400 * a + 100 * b + 4 * c + d
           /\ First(y) = (5 * b + 5 * c + d) % 7
  BY FirstIs
<1> DEFINE r == 100 * b + 4 * c + d + 1
<1>2. y = 400 * a + r /\ r \in 1 .. 400
  BY <1>1
<1>3. y % 400 = r % 400 /\ (y - 1900) % 400 = (r + 100) % 400
  BY <1>2
<1>4. r % 100 = 0 => c = 24 /\ d = 3
  BY <1>1
<1>5. r % 100 = 0 => b = 1
  BY <1>1, <1>4
<1>6. y % 100 = r % 100 /\ (y - 1900) % 100 = r % 100 /\ y % 4 = r % 4 /\ (y - 1900) % 4 = r % 4
  BY <1>2
<1>7. CASE r % 100 = 0
  <2>1. r = 200
    BY <1>4, <1>5, <1>7
  <2>2. y % 400 = 200 /\ (y - 1900) % 400 = 300
    BY <1>3, <2>1
  <2> HIDE DEF r
  <2>3. QED
    BY <1>6, <1>7, <2>2 DEF Leap, Calendar!isLeapYear
<1>8. CASE r % 100 # 0
  <2> HIDE DEF r
  <2>1. QED
    BY <1>6, <1>8 DEF Leap, Calendar!isLeapYear
<1>9. QED
  BY <1>7, <1>8

\* LongBefore asks a number for the year before: a mistake only where that is a
\* century that does not end on a Friday.
LEMMA LeapBeforeSaturday ==
  ASSUME NEW y \in Nat, y >= 1900, First(y) = 5
  PROVE  Leap(((y - 1900) % 400) - 1) <=> Leap(y - 1)
<1>1. PICK a \in Nat, b \in 0 .. 3, c \in 0 .. 24, d \in 0 .. 3 :
           /\ y - 1 = 400 * a + 100 * b + 4 * c + d
           /\ First(y) = (5 * b + 5 * c + d) % 7
  BY FirstIs
<1> DEFINE r == 100 * b + 4 * c + d
           z == ((y - 1900) % 400) - 1
<1>2. y = 400 * a + r + 1 /\ r \in 0 .. 399
  BY <1>1
<1>3. (y - 1) % 400 = r /\ z = ((r + 101) % 400) - 1
  BY <1>2
<1>4. r % 100 = 0 => c = 0 /\ d = 0
  BY <1>1
<1>5. r % 100 = 0 => b = 1
  BY <1>1, <1>4
<1>6. z \in -1 .. 398 /\ (y - 1) % 100 = r % 100 /\ (y - 1) % 4 = r % 4
  BY <1>2, <1>3
<1>7. CASE r % 100 = 0
  <2>1. r = 100
    BY <1>4, <1>5, <1>7
  <2>2. (y - 1) % 400 = 100 /\ z = 200
    BY <1>3, <2>1
  <2>3. z % 100 = 0 /\ z % 400 = 200
    BY <2>2
  <2> HIDE DEF r, z
  <2>4. Leap(z) <=> FALSE
    BY <2>3 DEF Leap, Calendar!isLeapYear
  <2>5. Leap(y - 1) <=> FALSE
    BY <1>6, <1>7, <2>2 DEF Leap, Calendar!isLeapYear
  <2>6. QED
    BY <2>4, <2>5 DEF z
<1>8. CASE r % 100 # 0
  <2> HIDE DEF r
  <2>1. z % 4 = r % 4 /\ z % 100 = r % 100
    BY <1>2, <1>3 DEF z
  <2> HIDE DEF z
  <2>2. Leap(z) <=> r % 4 = 0
    BY <1>8, <2>1 DEF Leap, Calendar!isLeapYear
  <2>3. Leap(y - 1) <=> r % 4 = 0
    BY <1>6, <1>8 DEF Leap, Calendar!isLeapYear
  <2>4. QED
    BY <2>2, <2>3 DEF z
<1>9. QED
  BY <1>7, <1>8

\* The days up to n with the weekday w, where day 0 has the weekday a % 7, and
\* that the last of them is g days before n.
DaysOn(n, a, w) == Cardinality({i \in 0 .. n : (a + i) % 7 = w})
\* Day g of the week came last n + a days ago.
LastSeen(n, a, w, g) == n \in Nat /\ a \in Int /\ w \in 0 .. 6 /\ g \in 0 .. 6 /\ (a + n - g) % 7 = w

\* The weekday comes every seven days.
LEMMA EveryWeek ==
  ASSUME NEW n, NEW a, NEW w, NEW g, LastSeen(n, a, w, g)
  PROVE  DaysOn(n, a, w) = (n + 7 - g) \div 7
<1>0. n \in Nat /\ a \in Int /\ w \in 0 .. 6 /\ g \in 0 .. 6 /\ (a + n - g) % 7 = w
  BY DEF LastSeen
<1> DEFINE S == {i \in 0 .. n : (a + i) % 7 = w}
           c == (n + 7 - g) \div 7
           f == [k \in 1 .. c |-> n - g - 7 * (k - 1)]
<1>1. c \in Nat /\ 7 * c <= n + 7 - g /\ n + 7 - g < 7 * c + 7
  BY <1>0
<1> HIDE DEF c
<1>2. \A k \in 1 .. c : f[k] \in S
  <2>1. SUFFICES ASSUME NEW k \in 1 .. c PROVE n - g - 7 * (k - 1) \in S
    OBVIOUS
  <2> DEFINE i == n - g - 7 * (k - 1)
  <2>2. i \in 0 .. n
    BY <1>0, <1>1
  <2>3. (a + i) % 7 = w
    <3> DEFINE b == a + n - g
    <3>1. a + i = b - 7 * (k - 1) /\ b \in Int /\ b % 7 = w /\ k - 1 \in Int
      BY <1>0, <1>1
    <3> HIDE DEF b, i
    <3>2. (b - 7 * (k - 1)) % 7 = b % 7
      BY <3>1
    <3>3. QED
      BY <3>1, <3>2
  <2>4. QED
    BY <2>2, <2>3
<1>3. \A k, l \in 1 .. c : f[k] = f[l] => k = l
  BY <1>0, <1>1
<1>4. \A i \in S : \E k \in 1 .. c : f[k] = i
  <2>1. SUFFICES ASSUME NEW i \in S PROVE \E k \in 1 .. c : n - g - 7 * (k - 1) = i
    OBVIOUS
  <2>2. i \in 0 .. n /\ (a + i) % 7 = (a + n - g) % 7
    BY <1>0
  <2> DEFINE p == (a + i) \div 7
             q == (a + n - g) \div 7
  <2>3. p \in Int /\ q \in Int /\ a + i = 7 * p + w /\ a + n - g = 7 * q + w
    BY <1>0, <2>2
  <2> HIDE DEF p, q
  <2>4. n - g - i = 7 * (q - p)
    BY <1>0, <2>2, <2>3
  <2>5. q - p \in 0 .. c - 1
    BY <1>0, <1>1, <2>2, <2>3, <2>4
  <2>6. n - g - 7 * ((q - p + 1) - 1) = i /\ q - p + 1 \in 1 .. c
    BY <1>0, <1>1, <2>2, <2>3, <2>4, <2>5
  <2>7. QED
    BY <2>6
<1> HIDE DEF S
<1>5. f \in [1 .. c -> S]
  BY <1>2
<1>6. ExistsBijection(1 .. c, S)
  <2> HIDE DEF f
  <2>1. f \in Bijection(1 .. c, S)
    BY <1>3, <1>4, <1>5 DEF Bijection, Injection, Surjection, IsInjective
  <2>2. QED
    BY <2>1 DEF ExistsBijection
<1>7. Cardinality(S) = c
  BY <1>1, <1>6, FS_CountingElements
<1>8. QED
  BY <1>7 DEF S, c, DaysOn

\* What localtime fills in for a day.
TmOf(y, mo, d) ==
  [tm_year |-> y - 1900, tm_mon |-> mo, tm_mday |-> d,
   tm_wday |-> (NewYear(y) + Place(y, mo, d) + 1) % 7, tm_yday |-> Place(y, mo, d)]

\* The days since the Monday of its week, and those from Monday to Thursday.
SinceMonday(y, mo, d) == (NewYear(y) + Place(y, mo, d)) % 7
\* The Thursday of the week of a day, which decides the year of the week.
ThursdayOf(y, mo, d) == NewYear(y) + Place(y, mo, d) - SinceMonday(y, mo, d) + 3

\* With the year beginning e days after a Monday, its day p is r days after one,
\* q weeks later, and w days after a Sunday.
Weekly(p, r, e, w) ==
  /\ r \in 0 .. 6 /\ e \in 0 .. 6 /\ w \in 0 .. 6 /\ (w + 6) % 7 = r
  /\ \E q \in Nat : p - r = 7 * q - e

\* Days of the week of neighbouring days.
LEMMA WeekOfDay ==
  ASSUME NEW n \in Nat, NEW p \in Nat
  PROVE  Weekly(p, (n + p) % 7, n % 7, (n + p + 1) % 7)
<1> DEFINE r == (n + p) % 7
           e == n % 7
           w == (n + p + 1) % 7
<1> DEFINE k == (n + p) \div 7
           j == n \div 7
<1>1. r \in 0 .. 6 /\ k \in Nat /\ n + p = 7 * k + r
  OBVIOUS
<1>2. e \in 0 .. 6 /\ j \in Nat /\ n = 7 * j + e
  OBVIOUS
<1>3. w \in 0 .. 6 /\ (w + 6) % 7 = r
  OBVIOUS
<1> HIDE DEF k, j, r, e, w
<1>4. k - j \in Nat /\ p - r = 7 * (k - j) - e
  BY <1>1, <1>2
<1>5. Weekly(p, r, e, w)
  BY <1>1, <1>2, <1>3, <1>4 DEF Weekly
<1>6. QED
  BY <1>5 DEF r, e, w

\* Three years, one after the other.
LEMMA YearsFollow ==
  ASSUME NEW y \in Nat, y >= 1900
  PROVE  /\ NewYear(y) \in Nat /\ NewYear(y - 1) \in Nat /\ NewYear(y + 1) \in Nat /\ NewYear(y + 2) \in Nat
         /\ NewYear(y) = NewYear(y - 1) + LengthOf(y - 1)
         /\ NewYear(y + 1) = NewYear(y) + LengthOf(y)
         /\ NewYear(y + 2) = NewYear(y + 1) + LengthOf(y + 1)
         /\ LengthOf(y - 1) \in {365, 366} /\ LengthOf(y) \in {365, 366} /\ LengthOf(y + 1) \in {365, 366}
<1>1. y - 1 \in Nat \ {0} /\ y \in Nat \ {0} /\ y + 1 \in Nat \ {0} /\ y + 2 \in Nat \ {0}
      /\ (y - 1) + 1 = y /\ (y + 1) + 1 = y + 2
  OBVIOUS
<1>2. /\ NewYear(y - 1) \in Nat /\ NewYear((y - 1) + 1) = NewYear(y - 1) + LengthOf(y - 1)
      /\ NewYear(y) \in Nat /\ NewYear(y + 1) = NewYear(y) + LengthOf(y)
      /\ NewYear(y + 1) \in Nat /\ NewYear((y + 1) + 1) = NewYear(y + 1) + LengthOf(y + 1)
      /\ NewYear(y + 2) \in Nat
  BY <1>1, YearLength
<1>3. QED
  BY <1>1, <1>2 DEF LengthOf

\* The year that a day is in.
LEMMA YearOfIs ==
  ASSUME NEW y \in Nat, y >= 1900, tm.tm_year = y - 1900,
         NEW z \in y - 1 .. y + 1, NEW n \in Int, NewYear(z) <= n, n < NewYear(z + 1)
  PROVE  Calendar!YearOf(n) = z
<1> DEFINE R == tm.tm_year + 1899 .. tm.tm_year + 1901
           At(x) == NewYear(x) <= n /\ n < NewYear(x + 1)
<1>1. R = y - 1 .. y + 1 /\ R = {y - 1, y, y + 1}
  OBVIOUS
<1>2. Calendar!YearOf(n) = CHOOSE x \in R : At(x)
  BY DEF Calendar!YearOf, NewYear
<1>3. ASSUME NEW x \in R, At(x) PROVE x = z
  <2>1. x \in {y - 1, y, y + 1} /\ z \in {y - 1, y, y + 1}
    BY <1>1
  <2>2. /\ NewYear(y) \in Nat /\ NewYear(y - 1) \in Nat /\ NewYear(y + 1) \in Nat /\ NewYear(y + 2) \in Nat
        /\ NewYear(y - 1) < NewYear(y) /\ NewYear(y) < NewYear(y + 1) /\ NewYear(y + 1) < NewYear(y + 2)
    BY YearsFollow
  <2>3. (y - 1) + 1 = y /\ (y + 1) + 1 = y + 2
    OBVIOUS
  <2> HIDE DEF R
  <2>4. CASE x = y - 1
    <3>1. n < NewYear(y)
      BY <1>3, <2>3, <2>4
    <3>2. CASE z = y
      BY <2>2, <3>1, <3>2
    <3>3. CASE z = y + 1
      BY <2>2, <3>1, <3>3
    <3>4. QED
      BY <2>1, <2>4, <3>2, <3>3
  <2>5. CASE x = y
    <3>1. NewYear(y) <= n /\ n < NewYear(y + 1)
      BY <1>3, <2>5
    <3>2. CASE z = y - 1
      <4>1. n < NewYear(y)
        BY <2>3, <3>2
      <4>2. QED
        BY <2>2, <3>1, <4>1
    <3>3. CASE z = y + 1
      BY <2>2, <3>1, <3>3
    <3>4. QED
      BY <2>1, <2>5, <3>2, <3>3
  <2>6. CASE x = y + 1
    <3>1. NewYear(y + 1) <= n
      BY <1>3, <2>6
    <3>2. CASE z = y - 1
      <4>1. n < NewYear(y)
        BY <2>3, <3>2
      <4>2. QED
        BY <2>2, <3>1, <4>1
    <3>3. CASE z = y
      BY <2>2, <3>1, <3>3
    <3>4. QED
      BY <2>1, <2>6, <3>2, <3>3
  <2>7. QED
    BY <2>1, <2>4, <2>5, <2>6
<1>4. z \in R /\ At(z)
  BY <1>1
<1> HIDE DEF R, At
<1>5. QED
  BY <1>2, <1>3, <1>4

\* Whether the first week of the year has begun on a day of the year.
LEMMA StartedThisYear ==
  ASSUME NEW y, NEW mo, NEW d, Day(y, mo, d)
  PROVE  Calendar!NotAfter(Calendar!getFirstWeekStartDate(Calendar!Date(y, 0, 4)), Calendar!Date(y, mo, d))
         <=> Place(y, mo, d) >= (IF First(y) <= 3 THEN 0 ELSE 7 - First(y))
<1> DEFINE j == Calendar!Date(y, 0, 4)
           g == Calendar!getDay(j)
           e == First(y)
           s == Calendar!getFirstWeekStartDate(j)
           a == Calendar!Date(y, mo, d)
           p == Place(y, mo, d)
<1>1. /\ y \in Nat \ {0} /\ mo \in 0 .. 11 /\ d \in 1 .. 31 /\ p \in 0 .. LengthOf(y) - 1
      /\ mo = 0 => p = d - 1
      /\ mo > 0 => p >= 31
  BY Places
<1>2. e \in 0 .. 6 /\ g = (e + 4) % 7
  <2>1. NewYear(y) \in Nat
    BY <1>1, YearLength
  <2>2. Calendar!ydayFromDate(j) = 3
    <3>1. Before(y)[1] = 0
      BY Months
    <3>2. QED
      BY <3>1 DEF Calendar!ydayFromDate, Calendar!Date, Before, Leap
  <2>3. g = (NewYear(y) + 3 + 1) % 7
    BY <2>2 DEF Calendar!getDay, Calendar!Date, NewYear
  <2> DEFINE n == NewYear(y)
  <2>4. n \in Nat /\ e = n % 7 /\ g = (n + 3 + 1) % 7
    BY <2>1, <2>3 DEF First
  <2> HIDE DEF n, g, e
  <2>5. QED
    BY <2>4
<1>3. a.year = y /\ a.month = mo /\ a.day = d /\ j.year = y
  BY DEF Calendar!Date
<1> HIDE DEF p
<1>4. CASE e = 3
  <2>1. g = 0
    BY <1>2, <1>4
  <2>2. s = Calendar!Date(y - 1, 11, 29)
    BY <1>3, <2>1 DEF Calendar!getFirstWeekStartDate
  <2>3. s.year = y - 1
    BY <2>2 DEF Calendar!Date
  <2> HIDE DEF s, a, e
  <2>4. Calendar!NotAfter(s, a)
    BY <1>1, <1>3, <2>3 DEF Calendar!NotAfter
  <2>5. QED
    BY <1>1, <1>4, <2>4 DEF s, a, e, p, j
<1>5. CASE e = 1 \/ e = 2
  <2>1. g = 5 \/ g = 6
    BY <1>2, <1>5
  <2>2. s = Calendar!Date(y - 1, 11, IF g = 5 THEN 31 ELSE 30)
    <3> HIDE DEF g, j
    <3>1. QED
      BY <1>3, <2>1 DEF Calendar!getFirstWeekStartDate, g
  <2>3. s.year = y - 1
    BY <2>2 DEF Calendar!Date
  <2> HIDE DEF s, a, e
  <2>4. Calendar!NotAfter(s, a)
    BY <1>1, <1>3, <2>3 DEF Calendar!NotAfter
  <2>5. QED
    BY <1>1, <1>5, <2>4 DEF s, a, e, p, j
<1>6. CASE e = 0 \/ e \in 4 .. 6
  <2>1. g \in 1 .. 4 /\ 5 - g = (IF e = 0 THEN 1 ELSE 8 - e)
    BY <1>2, <1>6
  <2>2. s = Calendar!Date(y, 0, 5 - g)
    <3>1. g # 0
      BY <2>1
    <3> HIDE DEF g, j
    <3>2. QED
      BY <1>3, <2>1, <3>1 DEF Calendar!getFirstWeekStartDate, g
  <2>3. s.year = y /\ s.month = 0 /\ s.day = 5 - g
    BY <2>2 DEF Calendar!Date
  <2> HIDE DEF s, a, e, g
  <2>4. Calendar!NotAfter(s, a) <=> mo > 0 \/ 5 - g <= d
    BY <1>1, <1>3, <2>3 DEF Calendar!NotAfter
  <2>5. (mo > 0 \/ 5 - g <= d) <=> p >= (IF e <= 3 THEN 0 ELSE 7 - e)
    BY <1>1, <1>2, <1>6, <2>1
  <2>6. QED
    BY <2>4, <2>5 DEF s, a, e, p, j
<1>7. QED
  BY <1>2, <1>4, <1>5, <1>6

\* Whether the first week of the next year has begun.
LEMMA StartedNextYear ==
  ASSUME NEW y, NEW mo, NEW d, Day(y, mo, d)
  PROVE  Calendar!NotAfter(Calendar!getFirstWeekStartDate(Calendar!Date(y + 1, 0, 4)), Calendar!Date(y, mo, d))
         <=> First(y + 1) <= 3 /\ Place(y, mo, d) >= LengthOf(y) - First(y + 1)
<1> DEFINE j == Calendar!Date(y + 1, 0, 4)
           g == Calendar!getDay(j)
           e == First(y + 1)
           s == Calendar!getFirstWeekStartDate(j)
           a == Calendar!Date(y, mo, d)
           p == Place(y, mo, d)
<1>1. /\ y \in Nat \ {0} /\ mo \in 0 .. 11 /\ d \in 1 .. 31 /\ p \in 0 .. LengthOf(y) - 1
      /\ mo = 11 => p = LengthOf(y) - 32 + d
      /\ mo < 11 => p < LengthOf(y) - 31
      /\ LengthOf(y) \in {365, 366}
  BY Places
<1>2. e \in 0 .. 6 /\ g = (e + 4) % 7
  <2>1. y + 1 \in Nat \ {0}
    BY <1>1
  <2>2. NewYear(y + 1) \in Nat
    BY <2>1, YearLength
  <2>3. Calendar!ydayFromDate(j) = 3
    <3>1. Before(y + 1)[1] = 0
      BY Months
    <3>2. QED
      BY <3>1 DEF Calendar!ydayFromDate, Calendar!Date, Before, Leap
  <2>4. g = (NewYear(y + 1) + 3 + 1) % 7
    BY <2>3 DEF Calendar!getDay, Calendar!Date, NewYear
  <2> DEFINE n == NewYear(y + 1)
  <2>5. n \in Nat /\ e = n % 7 /\ g = (n + 3 + 1) % 7
    BY <2>2, <2>4 DEF First
  <2> HIDE DEF n, g, e
  <2>6. QED
    BY <2>5
<1>3. a.year = y /\ a.month = mo /\ a.day = d /\ j.year = y + 1 /\ j.year - 1 = y
  BY <1>1 DEF Calendar!Date
<1> HIDE DEF p
<1>4. CASE e \in 1 .. 3
  <2>1. g = (IF e = 3 THEN 0 ELSE e + 4)
    BY <1>2, <1>4
  <2>2. s = Calendar!Date(y, 11, 32 - e)
    <3>1. CASE e = 3
      <4>1. s = Calendar!Date(j.year - 1, 11, 29)
        BY <2>1, <3>1 DEF Calendar!getFirstWeekStartDate
      <4>2. 32 - e = 29
        BY <3>1
      <4> HIDE DEF s, j, e
      <4>3. QED
        BY <1>3, <4>1, <4>2
    <3>2. CASE e = 1
      <4>1. g = 5
        BY <2>1, <3>2
      <4>2. s = Calendar!Date(j.year - 1, 11, 31)
        <5> HIDE DEF g, j
        <5>1. QED
          BY <4>1 DEF Calendar!getFirstWeekStartDate, g
      <4>3. 32 - e = 31
        BY <3>2
      <4> HIDE DEF s, j, e
      <4>4. QED
        BY <1>3, <4>2, <4>3
    <3>3. CASE e = 2
      <4>1. g = 6
        BY <2>1, <3>3
      <4>2. s = Calendar!Date(j.year - 1, 11, 30)
        <5> HIDE DEF g, j
        <5>1. QED
          BY <4>1 DEF Calendar!getFirstWeekStartDate, g
      <4>3. 32 - e = 30
        BY <3>3
      <4> HIDE DEF s, j, e
      <4>4. QED
        BY <1>3, <4>2, <4>3
    <3> HIDE DEF s, e
    <3>4. QED
      BY <1>4, <3>1, <3>2, <3>3
  <2>3. s.year = y /\ s.month = 11 /\ s.day = 32 - e
    BY <2>2 DEF Calendar!Date
  <2> HIDE DEF s, a, e
  <2>4. Calendar!NotAfter(s, a) <=> mo = 11 /\ 32 - e <= d
    BY <1>1, <1>3, <1>4, <2>3 DEF Calendar!NotAfter
  <2>5. (mo = 11 /\ 32 - e <= d) <=> e <= 3 /\ p >= LengthOf(y) - e
    BY <1>1, <1>4
  <2>6. QED
    BY <2>4, <2>5 DEF s, a, e, p, j
<1>5. CASE e = 0 \/ e \in 4 .. 6
  <2>1. g \in 1 .. 4
    BY <1>2, <1>5
  <2>2. s = Calendar!Date(j.year, 0, 5 - g)
    <3>1. g # 0
      BY <2>1
    <3> HIDE DEF g, j
    <3>2. QED
      BY <2>1, <3>1 DEF Calendar!getFirstWeekStartDate, g
  <2>3. s.year = y + 1
    BY <1>3, <2>2 DEF Calendar!Date
  <2> HIDE DEF s, a, e, g
  <2>4. ~Calendar!NotAfter(s, a)
    BY <1>1, <1>3, <2>3 DEF Calendar!NotAfter
  <2>5. ~(e <= 3 /\ p >= LengthOf(y) - e)
    BY <1>1, <1>5
  <2>6. QED
    BY <2>4, <2>5 DEF s, a, e, p, j
<1>6. QED
  BY <1>2, <1>4, <1>5

\* The week of a day is in the year before, in the year or in the next one, by
\* its Thursday and by the first weeks of the years.
LEMMA ThursdayPlace ==
  ASSUME NEW e \in 0 .. 6, NEW q \in Nat, NEW r \in 0 .. 6, NEW p \in Nat, NEW l \in {365, 366},
         p <= l - 1, p - r = 7 * q - e, NEW k \in Nat, NEW f \in 0 .. 6, l + e = 7 * k + f
  PROVE  /\ p - r + 3 < 0 <=> ~(p >= (IF e <= 3 THEN 0 ELSE 7 - e))
         /\ p - r + 3 >= l <=> f <= 3 /\ p >= l - f
         /\ p - r + 3 < 0 => q = 0 /\ e >= 4
         /\ q = 0 /\ e >= 4 => p - r + 3 < 0
<1>1. p = 7 * q + r - e
  OBVIOUS
<1>2. p - r + 3 < 0 <=> q = 0 /\ e >= 4
  BY <1>1
<1>3. ~(p >= (IF e <= 3 THEN 0 ELSE 7 - e)) <=> q = 0 /\ e >= 4
  BY <1>1
<1>4. p >= l - f <=> q >= k
  BY <1>1
<1>5. q <= k
  <2>1. CASE q >= k + 1
    BY <1>1, <2>1
  <2>2. QED
    BY <2>1
<1>6. p - r + 3 >= l <=> 7 * q >= 7 * k + f - 3
  BY <1>1
<1>7. 7 * q >= 7 * k + f - 3 <=> q >= k /\ f <= 3
  BY <1>5
<1>8. QED
  BY <1>2, <1>3, <1>4, <1>6, <1>7

\* The year that %G finds.
LEMMA WeekBasedYear ==
  ASSUME NEW y, NEW mo, NEW d, Day(y, mo, d)
  PROVE  LET u == Place(y, mo, d) - SinceMonday(y, mo, d) + 3
         IN Calendar!getWeekBasedYear(TmOf(y, mo, d)) =
              IF u < 0 THEN y - 1 ELSE IF u >= LengthOf(y) THEN y + 1 ELSE y
<1> DEFINE p == Place(y, mo, d)
           r == SinceMonday(y, mo, d)
           u == p - r + 3
           e == First(y)
           f == First(y + 1)
           l == LengthOf(y)
           t == TmOf(y, mo, d)
           Started(x) == Calendar!NotAfter(Calendar!getFirstWeekStartDate(Calendar!Date(x, 0, 4)),
                                           Calendar!Date(y, mo, d))
<1>1. y \in Nat /\ y >= 1900 /\ p \in Nat /\ p <= l - 1 /\ l \in {365, 366}
  <2>1. p \in 0 .. l - 1 /\ l \in {365, 366}
    BY Places
  <2>2. y \in Nat /\ y >= 1900
    BY DEF Day
  <2>3. QED
    BY <2>1, <2>2
<1>2. NewYear(y) \in Nat /\ NewYear(y + 1) = NewYear(y) + l
  BY <1>1, YearsFollow
<1>3. PICK q \in Nat : r \in 0 .. 6 /\ e \in 0 .. 6 /\ p - r = 7 * q - e
  <2> DEFINE n == NewYear(y)
  <2>1. r = (n + p) % 7 /\ e = n % 7 /\ n \in Nat
    BY <1>2 DEF SinceMonday, First
  <2> HIDE DEF n, p, r, e
  <2>2. Weekly(p, (n + p) % 7, n % 7, (n + p + 1) % 7)
    BY <1>1, <2>1, WeekOfDay
  <2>3. QED
    BY <2>1, <2>2 DEF Weekly
<1>4. PICK k \in Nat : f \in 0 .. 6 /\ l + e = 7 * k + f
  <2> DEFINE n == NewYear(y)
             m1 == NewYear(y + 1)
             k == m1 \div 7 - n \div 7
  <2>1. n \in Nat /\ m1 = n + l /\ l \in Nat
    BY <1>1, <1>2
  <2> HIDE DEF m1, l
  <2>2. f = m1 % 7 /\ e = n % 7
    BY DEF First, m1
  <2> HIDE DEF n, e, f
  <2>3. k \in Nat /\ f \in 0 .. 6 /\ l + e = 7 * k + f
    BY <2>1, <2>2
  <2>4. QED
    BY <2>3
<1>5. /\ u < 0 <=> ~(p >= (IF e <= 3 THEN 0 ELSE 7 - e))
      /\ u >= l <=> f <= 3 /\ p >= l - f
  <2> HIDE DEF p, r, e, f, l
  <2>1. QED
    BY <1>1, <1>3, <1>4, ThursdayPlace
<1>6. Started(y) <=> ~(u < 0)
  <2>1. Started(y) <=> p >= (IF e <= 3 THEN 0 ELSE 7 - e)
    BY StartedThisYear
  <2> HIDE DEF Started
  <2>2. QED
    BY <1>5, <2>1
<1>7. Started(y + 1) <=> u >= l
  <2>1. Started(y + 1) <=> f <= 3 /\ p >= l - f
    BY StartedNextYear
  <2> HIDE DEF Started
  <2>2. QED
    BY <1>5, <2>1
<1>8. Calendar!getWeekBasedYear(t) =
        CASE Started(y) /\ Started(y + 1)  -> y + 1
          [] Started(y) /\ ~Started(y + 1) -> y
          [] OTHER -> y - 1
  <2>1. t.tm_year + 1900 = y /\ t.tm_yday = p
    BY <1>1 DEF TmOf
  <2>2. Calendar!addDays(Calendar!Date(y, 0, 1), p) = Calendar!Date(y, mo, d)
    BY AddDays
  <2>3. Calendar!Date(y, mo, d).year = y
    BY DEF Calendar!Date
  <2> HIDE DEF t, p
  <2>4. QED
    BY <2>1, <2>2, <2>3 DEF Calendar!getWeekBasedYear
<1>9. u < 0 => ~(u >= l)
  <2> HIDE DEF l, p, r
  <2>1. QED
    BY <1>1, <1>3
<1> HIDE DEF Started, t, u, l
<1>10. QED
  BY <1>6, <1>7, <1>8, <1>9 DEF u, l, t

\* The week that %V finds.
LEMMA WeekNumber ==
  ASSUME NEW y, NEW mo, NEW d, Day(y, mo, d)
  PROVE  LET u == Place(y, mo, d) - SinceMonday(y, mo, d) + 3
             l == LengthOf(y)
         IN Calendar!WeekOfYear(TmOf(y, mo, d)) =
              (IF u < 0 THEN (LengthOf(y - 1) + u) \div 7
               ELSE IF u >= l THEN (u - l) \div 7 ELSE u \div 7) + 1
<1> DEFINE p == Place(y, mo, d)
           r == SinceMonday(y, mo, d)
           n == NewYear(y)
           u == p - r + 3
           e == First(y)
           l == LengthOf(y)
           b == LengthOf(y - 1)
           t == TmOf(y, mo, d)
           w == (n + p + 1) % 7
           week == Calendar!WeekFromMonday(t)
                   + IF (t.tm_wday + 371 - t.tm_yday - 2) % 7 <= 2 THEN 1 ELSE 0
<1>1. y \in Nat /\ y >= 1900 /\ p \in Nat /\ p <= l - 1 /\ l \in {365, 366}
  <2>1. p \in 0 .. l - 1 /\ l \in {365, 366}
    BY Places
  <2>2. y \in Nat /\ y >= 1900
    BY DEF Day
  <2>3. QED
    BY <2>1, <2>2
<1>2. n \in Nat
  BY <1>1, YearsFollow
<1>3. t.tm_year = y - 1900 /\ t.tm_wday = w /\ t.tm_yday = p
  BY DEF TmOf
<1>4. PICK q \in Nat : r \in 0 .. 6 /\ e \in 0 .. 6 /\ p - r = 7 * q - e
                       /\ w \in 0 .. 6 /\ (w + 6) % 7 = r
  <2>1. r = (n + p) % 7 /\ e = n % 7
    BY DEF SinceMonday, First
  <2> HIDE DEF n, p, r, e
  <2>2. Weekly(p, (n + p) % 7, n % 7, w)
    BY <1>1, <1>2, WeekOfDay
  <2> HIDE DEF w
  <2>3. QED
    BY <2>1, <2>2 DEF Weekly
<1>5. e = n % 7
  BY DEF First
<1> HIDE DEF p, n
<1>6. (w + 371 - p - 2) % 7 = (e + 6) % 7 /\ (w + 7 - p - 1) % 7 = e /\ (w + 371 - p) % 7 = (e + 1) % 7
  <2> DEFINE i == (n + p + 1) \div 7
             j == n \div 7
  <2>1. i \in Int /\ j \in Int /\ n + p + 1 = 7 * i + w /\ n = 7 * j + e
    BY <1>1, <1>2, <1>4, <1>5
  <2> HIDE DEF i, j, w, e
  <2>2. w - p = 7 * (j - i) + e + 1 /\ j - i \in Int
    BY <1>1, <1>2, <1>4, <2>1
  <2>3. /\ w + 371 - p - 2 = 7 * (j - i + 52) + (e + 6)
        /\ w + 7 - p - 1 = 7 * (j - i + 1) + e
        /\ w + 371 - p = 7 * (j - i + 53) + (e + 1)
    BY <1>1, <1>4, <2>1, <2>2
  <2>4. \A x, z \in Int : (7 * x + z) % 7 = z % 7
    OBVIOUS
  <2>5. e % 7 = e
    BY <1>4
  <2>6. j - i + 52 \in Int /\ j - i + 1 \in Int /\ j - i + 53 \in Int /\ e \in Int /\ e + 6 \in Int /\ e + 1 \in Int
    BY <1>4, <2>2
  <2>7. QED
    BY <2>3, <2>4, <2>5, <2>6
<1> HIDE DEF w, e
<1>7. week = q + IF e <= 3 THEN 1 ELSE 0
  <2>1. Calendar!WeekFromMonday(t) = (p + 7 - r) \div 7
    BY <1>3, <1>4 DEF Calendar!WeekFromMonday
  <2>2. week = ((p + 7 - r) \div 7) + IF (e + 6) % 7 <= 2 THEN 1 ELSE 0
    BY <1>3, <1>6, <2>1
  <2>3. p + 7 - r = 7 * q + (7 - e)
    BY <1>1, <1>4
  <2>4. (7 * q + (7 - e)) \div 7 = q + IF e = 0 THEN 1 ELSE 0
    BY <1>4
  <2>5. (e + 6) % 7 <= 2 <=> e \in 1 .. 3
    BY <1>4
  <2> HIDE DEF week
  <2>6. QED
    BY <1>4, <2>2, <2>3, <2>4, <2>5
<1>8. Calendar!LongBefore(t) <=> e = 4 \/ (e = 5 /\ Leap(y - 1))
  <2>1. Calendar!LongBefore(t) <=> e = 4 \/ (e = 5 /\ Leap(((y - 1900) % 400) - 1))
    BY <1>3, <1>6 DEF Calendar!LongBefore, Leap
  <2>2. e = 5 => (Leap(((y - 1900) % 400) - 1) <=> Leap(y - 1))
    BY <1>1, LeapBeforeSaturday DEF e
  <2>3. QED
    BY <2>1, <2>2
<1>9. Calendar!LongYear(t) <=> e = 3 \/ (e = 2 /\ Leap(y))
  <2>1. Calendar!LongYear(t) <=> (e + 1) % 7 = 4 \/ ((e + 1) % 7 = 3 /\ Leap(y - 1900))
    BY <1>3, <1>6 DEF Calendar!LongYear, Leap
  <2>2. e = 2 => (Leap(y - 1900) <=> Leap(y))
    BY <1>1, LeapFromWednesday DEF e
  <2>3. ((e + 1) % 7 = 4 <=> e = 3) /\ ((e + 1) % 7 = 3 <=> e = 2)
    BY <1>4
  <2>4. QED
    BY <2>1, <2>2, <2>3
<1>10. Calendar!WeekOfYear(t) =
         IF week = 0 THEN IF Calendar!LongBefore(t) THEN 53 ELSE 52
         ELSE IF week = 53 THEN IF Calendar!LongYear(t) THEN 53 ELSE 1 ELSE week
  <2>1. Calendar!WeekOfYear(t) =
          CASE week = 0 -> IF Calendar!LongBefore(t) THEN 53 ELSE 52
            [] week = 53 -> IF Calendar!LongYear(t) THEN 53 ELSE 1
            [] OTHER -> week
    BY DEF Calendar!WeekOfYear
  <2> HIDE DEF week, t
  <2>2. ~(week = 0 /\ week = 53)
    OBVIOUS
  <2>3. QED
    BY <2>1, <2>2
<1>11. b = (IF Leap(y - 1) THEN 366 ELSE 365) /\ l = (IF Leap(y) THEN 366 ELSE 365)
  BY DEF LengthOf
<1> DEFINE long == Leap(y)
           longBefore == Leap(y - 1)
           v == Calendar!WeekOfYear(t)
           Goal == v = (IF u < 0 THEN (b + u) \div 7 ELSE IF u >= l THEN (u - l) \div 7 ELSE u \div 7) + 1
<1>12. /\ week = q + (IF e <= 3 THEN 1 ELSE 0)
       /\ v = IF week = 0 THEN IF e = 4 \/ (e = 5 /\ longBefore) THEN 53 ELSE 52
              ELSE IF week = 53 THEN IF e = 3 \/ (e = 2 /\ long) THEN 53 ELSE 1 ELSE week
       /\ b = (IF longBefore THEN 366 ELSE 365) /\ l = (IF long THEN 366 ELSE 365)
       /\ u = 7 * q - e + 3 /\ u \in Int /\ 7 * q - e <= l - 1
  BY <1>1, <1>4, <1>7, <1>8, <1>9, <1>10, <1>11
<1> HIDE DEF long, longBefore, week, v, b, l, u
<1>13. ASSUME q = 0 /\ e >= 4 PROVE Goal
  <2>1. week = 0 /\ u = 3 - e /\ u < 0
    BY <1>4, <1>12, <1>13
  <2>2. CASE longBefore
    BY <1>4, <1>12, <1>13, <2>1, <2>2
  <2>3. CASE ~longBefore
    BY <1>4, <1>12, <1>13, <2>1, <2>3
  <2>4. QED
    BY <2>2, <2>3
<1>14. ASSUME ~(q = 0 /\ e >= 4) PROVE Goal
  <2>1. u >= 0 /\ ~(u < 0) /\ week # 0 /\ week >= 1 /\ u \div 7 = q - (IF e <= 3 THEN 0 ELSE 1)
    BY <1>4, <1>12, <1>14
  <2>2. u \div 7 + 1 = week
    BY <1>4, <1>12, <2>1
  <2>3. CASE week # 53
    <3>1. week <= 52 /\ v = week
      <4>1. q <= 53
        BY <1>4, <1>12
      <4>2. week <= 54
        BY <1>4, <1>12, <4>1
      <4>3. week # 54
        BY <1>4, <1>12, <4>1
      <4>4. QED
        BY <1>4, <1>12, <2>1, <2>3, <4>2, <4>3
    <3>2. ~(u >= l)
      BY <1>4, <1>12, <2>2, <3>1
    <3>3. QED
      BY <2>1, <2>2, <3>1, <3>2
  <2>4. CASE week = 53
    <3>1. (q = 53 /\ e >= 4) \/ (q = 52 /\ e <= 3)
      BY <1>4, <1>12, <2>4
    <3>2. v = IF e = 3 \/ (e = 2 /\ long) THEN 53 ELSE 1
      BY <1>12, <2>4
    <3>3. u >= l <=> ~(e = 3 \/ (e = 2 /\ long))
      <4>1. CASE q = 53 /\ e >= 4
        BY <1>4, <1>12, <4>1
      <4>2. CASE q = 52 /\ e <= 3
        <5>1. CASE long
          BY <1>4, <1>12, <4>2, <5>1
        <5>2. CASE ~long
          BY <1>4, <1>12, <4>2, <5>2
        <5>3. QED
          BY <5>1, <5>2
      <4>3. QED
        BY <3>1, <4>1, <4>2
    <3>4. u >= l => (u - l) \div 7 = 0
      <4>1. u - l \in Int /\ u - l < 7
        BY <1>4, <1>12, <3>1
      <4>2. QED
        BY <1>12, <4>1
    <3>5. u \div 7 + 1 = 53
      BY <2>2, <2>4
    <3>6. QED
      BY <1>12, <2>1, <3>2, <3>3, <3>4, <3>5
  <2>5. QED
    BY <2>3, <2>4
<1>15. Goal
  BY <1>13, <1>14
<1>16. QED
  BY <1>15 DEF v, u, b, l, p

\* What strftime gives for a day.
FieldsOf(t) ==
  [j |-> Calendar!DayOfYear(t), U |-> Calendar!WeekFromSunday(t), W |-> Calendar!WeekFromMonday(t),
   V |-> Calendar!WeekOfYear(t), G |-> Calendar!getWeekBasedYear(t)]

\* The inductive invariant: the time is that of a day, the fields are its own.
CalendarInv ==
  \/ tm = Calendar!NoTime /\ fields = Calendar!NoFields
  \/ \E y \in Year : \E mo \in 0 .. 11 : \E d \in 1 .. Calendar!MonthDays(y)[mo + 1] :
       tm = TmOf(y, mo, d) /\ fields \in {Calendar!NoFields, FieldsOf(tm)}

\* What tm holds of a day, in single facts.
LEMMA DayShape ==
  ASSUME NEW y, NEW mo, NEW d, Day(y, mo, d), tm = TmOf(y, mo, d)
  PROVE  LET p == Place(y, mo, d)
             r == SinceMonday(y, mo, d)
         IN /\ y \in Nat /\ y >= 1900 /\ mo \in 0 .. 11 /\ p \in 0 .. LengthOf(y) - 1
            /\ LengthOf(y) \in {365, 366} /\ NewYear(y) \in Nat
            /\ tm.tm_year = y - 1900 /\ tm.tm_mon = mo /\ tm.tm_mday = d /\ tm.tm_yday = p
            /\ tm.tm_wday \in 0 .. 6 /\ tm.tm_wday = (NewYear(y) + p + 1) % 7
            /\ r \in 0 .. 6 /\ r = (NewYear(y) + p) % 7 /\ (tm.tm_wday + 6) % 7 = r
<1> DEFINE p == Place(y, mo, d)
           r == SinceMonday(y, mo, d)
           n == NewYear(y)
           w == tm.tm_wday
<1>1. mo \in 0 .. 11 /\ p \in 0 .. LengthOf(y) - 1 /\ LengthOf(y) \in {365, 366}
  BY Places
<1>2. y \in Nat /\ y >= 1900
  BY DEF Day
<1>3. n \in Nat
  BY <1>2, YearsFollow
<1>4. /\ tm.tm_year = y - 1900 /\ tm.tm_mon = mo /\ tm.tm_mday = d /\ tm.tm_yday = p
      /\ w = (n + p + 1) % 7
  BY DEF TmOf
<1>5. r = (n + p) % 7
  BY DEF SinceMonday
<1>6. Weekly(p, r, n % 7, w)
  <2> HIDE DEF p, n, r, w
  <2>1. p \in Nat
    BY <1>1
  <2>2. QED
    BY <1>3, <1>4, <1>5, <2>1, WeekOfDay
<1> HIDE DEF p, n, r, w
<1>7. r \in 0 .. 6 /\ w \in 0 .. 6 /\ (w + 6) % 7 = r
  BY <1>6 DEF Weekly
<1>8. QED
  BY <1>1, <1>2, <1>3, <1>4, <1>5, <1>7 DEF p, n, r, w

\* The calendar counts with a Cardinality of its own instance.
LEMMA Cardinals == \A S : Calendar!Cardinality(S) = Cardinality(S)
BY Zenon DEF Calendar!Cardinality, Cardinality

\* The conversions of a day are exact.
LEMMA DayExact ==
  ASSUME NEW y, NEW mo, NEW d, Day(y, mo, d), tm = TmOf(y, mo, d), fields = FieldsOf(tm)
  PROVE  Calendar!CalendarExact
<1> DEFINE p == Place(y, mo, d)
           r == SinceMonday(y, mo, d)
           n == NewYear(y)
           w == tm.tm_wday
           l == LengthOf(y)
           u == p - r + 3
<1>1. /\ y \in Nat /\ y >= 1900 /\ mo \in 0 .. 11 /\ p \in 0 .. l - 1
      /\ l \in {365, 366} /\ n \in Nat
      /\ tm.tm_year = y - 1900 /\ tm.tm_mon = mo /\ tm.tm_mday = d /\ tm.tm_yday = p
      /\ w \in 0 .. 6 /\ w = (n + p + 1) % 7
      /\ r \in 0 .. 6 /\ r = (n + p) % 7 /\ (w + 6) % 7 = r
  BY DayShape
<1>2. Calendar!Today = n + p /\ Calendar!Thursday = n + u
  <2>1. tm.tm_year + 1900 = y
    BY <1>1
  <2>2. Calendar!Today = n + p
    BY <1>1, <2>1 DEF Calendar!Today, NewYear
  <2>3. Calendar!Thursday = Calendar!Today - (Calendar!Today % 7) + 3
    BY DEF Calendar!Thursday
  <2> HIDE DEF n, p, r
  <2>4. QED
    BY <1>1, <2>2, <2>3
<1>3. /\ NewYear(y - 1) \in Nat
      /\ NewYear(y) = NewYear(y - 1) + LengthOf(y - 1) /\ LengthOf(y - 1) \in {365, 366}
      /\ NewYear(y + 1) = n + l /\ NewYear(y + 2) \in Nat
      /\ NewYear(y + 2) = NewYear(y + 1) + LengthOf(y + 1) /\ LengthOf(y + 1) \in {365, 366}
  BY <1>1, YearsFollow
<1>4. fields.j = p + 1
  <2>1. Calendar!DayOfYear(tm) = p + 1
    <3>1. tm.tm_year + 1900 = y
      BY <1>1
    <3>2. QED
      BY <1>1, <3>1, DayOfYearIs
  <2>2. QED
    BY <2>1 DEF FieldsOf
<1>5. Calendar!YearOf(Calendar!Today) = y
  <2>1. n + p \in Int /\ NewYear(y) <= n + p /\ n + p < NewYear(y + 1) /\ y \in y - 1 .. y + 1
    BY <1>1, <1>3
  <2> DEFINE m0 == n + p
  <2> HIDE DEF n, p, m0
  <2>2. QED
    BY <1>1, <1>2, <2>1, YearOfIs
<1>6. fields.U = Calendar!Count(0) /\ fields.W = Calendar!Count(1)
  <2> DEFINE a == w + 371 - p
  <2>1. fields.U = (p + 7 - w) \div 7 /\ fields.W = (p + 7 - r) \div 7
    BY <1>1 DEF FieldsOf, Calendar!WeekFromSunday, Calendar!WeekFromMonday
  <2>2. \A x : Calendar!Count(x) = DaysOn(tm.tm_yday, tm.tm_wday + 371 - tm.tm_yday, x)
    BY Zenon, Cardinals DEF Calendar!Count, DaysOn
  <2>10. w = tm.tm_wday
    OBVIOUS
  <2> HIDE DEF p, n, r, w, l
  <2>3. a \in Int /\ a + p - w = 371 /\ a + p - r = 371 + w - r
    BY <1>1
  <2>4. (a + p - w) % 7 = 0 /\ (a + p - r) % 7 = 1
    <3>1. (371 + w - r) % 7 = 1
      BY <1>1
    <3>2. 371 % 7 = 0
      OBVIOUS
    <3>3. QED
      BY <2>3, <3>1, <3>2
  <2>5. Calendar!Count(0) = DaysOn(p, a, 0) /\ Calendar!Count(1) = DaysOn(p, a, 1)
    BY <1>1, <2>2, <2>10
  <2> HIDE DEF a
  <2>6. p \in Nat /\ 0 \in 0 .. 6 /\ 1 \in 0 .. 6
    BY <1>1
  <2>7. LastSeen(p, a, 0, w) /\ LastSeen(p, a, 1, r)
    BY <1>1, <2>3, <2>4, <2>6 DEF LastSeen
  <2>8. DaysOn(p, a, 0) = (p + 7 - w) \div 7 /\ DaysOn(p, a, 1) = (p + 7 - r) \div 7
    BY <2>7, EveryWeek
  <2>9. QED
    BY <2>1, <2>5, <2>8
<1> DEFINE z == IF u < 0 THEN y - 1 ELSE IF u >= l THEN y + 1 ELSE y
<1>7. fields.G = z
  BY WeekBasedYear DEF FieldsOf
<1>8. fields.V = (IF u < 0 THEN (LengthOf(y - 1) + u) \div 7
                  ELSE IF u >= l THEN (u - l) \div 7 ELSE u \div 7) + 1
  BY WeekNumber DEF FieldsOf
<1>9. u \in Int /\ u <= l + 2 /\ u >= -3
  <2> HIDE DEF p, r, l
  <2>1. QED
    BY <1>1
<1> HIDE DEF u, p, r, l, w
<1>10. /\ z \in y - 1 .. y + 1 /\ NewYear(z) <= n + u /\ n + u < NewYear(z + 1)
       /\ n + u - NewYear(z) = IF u < 0 THEN LengthOf(y - 1) + u ELSE IF u >= l THEN u - l ELSE u
  <2>1. CASE u < 0
    <3>1. z = y - 1 /\ z + 1 = y
      BY <1>1, <2>1
    <3> HIDE DEF z
    <3>2. NewYear(z) = NewYear(y - 1) /\ NewYear(z + 1) = n /\ n = NewYear(y - 1) + LengthOf(y - 1)
      BY <1>3, <3>1
    <3>3. NewYear(y - 1) \in Nat /\ LengthOf(y - 1) \in {365, 366}
      BY <1>3
    <3> HIDE DEF n
    <3>4. NewYear(z) <= n + u /\ n + u < NewYear(z + 1) /\ n + u - NewYear(z) = LengthOf(y - 1) + u
      BY <1>9, <2>1, <3>2, <3>3
    <3>5. QED
      BY <1>1, <2>1, <3>1, <3>4
  <2>2. CASE ~(u < 0) /\ u >= l
    <3>1. z = y + 1 /\ z + 1 = y + 2
      BY <1>1, <2>2
    <3> HIDE DEF z
    <3>2. NewYear(z) = n + l /\ NewYear(z + 1) = n + l + LengthOf(y + 1)
      BY <1>3, <3>1
    <3> HIDE DEF n
    <3>3. QED
      BY <1>1, <1>3, <1>9, <2>2, <3>1, <3>2
  <2>3. CASE ~(u < 0) /\ ~(u >= l)
    <3>1. z = y
      BY <2>3
    <3> HIDE DEF z
    <3>2. NewYear(z) = n /\ NewYear(z + 1) = n + l
      BY <1>3, <3>1
    <3> HIDE DEF n
    <3>3. QED
      BY <1>1, <1>3, <1>9, <2>3, <3>1, <3>2
  <2>4. QED
    BY <2>1, <2>2, <2>3
<1> HIDE DEF z
<1>11. Calendar!YearOf(Calendar!Thursday) = z
  <2>1. n + u \in Int
    BY <1>1, <1>9
  <2>2. QED
    BY <1>1, <1>2, <1>10, <2>1, YearOfIs
<1>12. Calendar!NewYear(z) = NewYear(z)
  BY DEF NewYear
<1> HIDE DEF n
<1>13. fields.V = (Calendar!Thursday - Calendar!NewYear(Calendar!YearOf(Calendar!Thursday))) \div 7 + 1
  <2> DEFINE x == n + u - NewYear(z)
  <2> DEFINE a == Calendar!Thursday
             b == Calendar!NewYear(Calendar!YearOf(Calendar!Thursday))
  <2>0. a = n + u /\ b = NewYear(z)
    BY <1>2, <1>11, <1>12
  <2>1. Calendar!Thursday - Calendar!NewYear(Calendar!YearOf(Calendar!Thursday)) = x
    <3>1. a - b = x
      <4>1. a = n + u
        BY <2>0
      <4>2. b = NewYear(z)
        BY <2>0
      <4>3. x = n + u - NewYear(z)
        OBVIOUS
      <4>4. n \in Int /\ u \in Int /\ NewYear(z) \in Int
        BY <1>1, <1>9, <1>12, YearsFollow DEF z
      <4> HIDE DEF a, b, x
      <4>5. QED
        BY <4>1, <4>2, <4>3, <4>4
    <3>2. QED
      BY <3>1
  <2>2. x = IF u < 0 THEN LengthOf(y - 1) + u ELSE IF u >= l THEN u - l ELSE u
    BY <1>10
  <2> HIDE DEF x
  <2>3. fields.V = x \div 7 + 1
    <3>1. CASE u < 0
      BY <1>8, <2>2, <3>1
    <3>2. CASE ~(u < 0) /\ u >= l
      BY <1>8, <2>2, <3>2
    <3>3. CASE ~(u < 0) /\ ~(u >= l)
      BY <1>8, <2>2, <3>3
    <3>4. QED
      BY <3>1, <3>2, <3>3
  <2>4. QED
    BY <2>1, <2>3
<1>14. fields.j = tm.tm_yday + 1 /\ tm.tm_year + 1900 = y
  BY <1>1, <1>4
<1>15. QED
  BY <1>5, <1>6, <1>7, <1>11, <1>13, <1>14 DEF Calendar!CalendarExact

\* From the invariant.
LEMMA CalendarShown ==
  ASSUME RuntimeAssumption, CalendarInv
  PROVE  Calendar!CalendarExact /\ Calendar!TypeOK
<1>1. \A y \in Year : y \in Nat /\ y >= 1900
  BY DEF RuntimeAssumption, Calendar!ConstantsOK
<1>2. CASE fields = Calendar!NoFields /\ tm = Calendar!NoTime
  BY <1>2 DEF Calendar!CalendarExact, Calendar!TypeOK, Calendar!NoFields, Calendar!NoTime
<1>3. CASE \E y \in Year : \E mo \in 0 .. 11 : \E d \in 1 .. Calendar!MonthDays(y)[mo + 1] :
             tm = TmOf(y, mo, d) /\ fields \in {Calendar!NoFields, FieldsOf(tm)}
  <2>1. PICK y \in Year, mo \in 0 .. 11 : \E d \in 1 .. Calendar!MonthDays(y)[mo + 1] :
             tm = TmOf(y, mo, d) /\ fields \in {Calendar!NoFields, FieldsOf(tm)}
    BY <1>3
  <2>2. PICK d \in 1 .. Calendar!MonthDays(y)[mo + 1] :
             tm = TmOf(y, mo, d) /\ fields \in {Calendar!NoFields, FieldsOf(tm)}
    BY <2>1
  <2>3. Day(y, mo, d)
    BY <1>1 DEF Day
  <2> DEFINE p == Place(y, mo, d)
             r == SinceMonday(y, mo, d)
  <2>4. /\ mo \in 0 .. 11 /\ p \in 0 .. LengthOf(y) - 1 /\ LengthOf(y) \in {365, 366}
        /\ tm.tm_year = y - 1900 /\ tm.tm_mon = mo /\ tm.tm_yday = p
        /\ tm.tm_wday \in 0 .. 6 /\ (tm.tm_wday + 6) % 7 \in 0 .. 6
    BY <2>2, <2>3, DayShape
  <2> HIDE DEF p
  <2>5. tm.tm_year \in {0} \union {x - 1900 : x \in Year} /\ tm.tm_yday \in 0 .. 365
    BY <2>4
  <2>6. CASE fields = Calendar!NoFields
    <3>1. Calendar!CalendarExact
      BY <2>6 DEF Calendar!CalendarExact
    <3>2. fields.V \in 0 .. 53 /\ fields.U \in 0 .. 53 /\ fields.W \in 0 .. 53
      BY <2>6 DEF Calendar!NoFields
    <3>3. QED
      BY <2>4, <2>5, <3>1, <3>2 DEF Calendar!TypeOK
  <2>7. CASE fields = FieldsOf(tm)
    <3>1. Calendar!CalendarExact
      BY <2>2, <2>3, <2>7, DayExact
    <3>2. fields.U = (p + 7 - tm.tm_wday) \div 7 /\ fields.W = (p + 7 - ((tm.tm_wday + 6) % 7)) \div 7
      BY <2>4, <2>7 DEF FieldsOf, Calendar!WeekFromSunday, Calendar!WeekFromMonday
    <3> DEFINE v == tm.tm_wday
               x == (tm.tm_wday + 6) % 7
    <3>3. v \in 0 .. 6 /\ x \in 0 .. 6 /\ p \in 0 .. 365
      BY <2>4
    <3> HIDE DEF v, x
    <3>4. (p + 7 - v) \div 7 \in 0 .. 53 /\ (p + 7 - x) \div 7 \in 0 .. 53
      BY <3>3
    <3>5. fields.V = Calendar!WeekOfYear(tm)
      BY <2>7 DEF FieldsOf
    <3>6. Calendar!WeekOfYear(tm) \in 0 .. 53
      <4> DEFINE u == Place(y, mo, d) - r + 3
                 l == LengthOf(y)
                 b == LengthOf(y - 1)
      <4>1. Calendar!WeekOfYear(tm) =
              (IF u < 0 THEN (b + u) \div 7 ELSE IF u >= l THEN (u - l) \div 7 ELSE u \div 7) + 1
        BY <2>2, <2>3, WeekNumber
      <4>2. u \in -3 .. l + 2 /\ l \in {365, 366} /\ b \in {365, 366}
        <5>1. r \in 0 .. 6
          BY <2>2, <2>3, DayShape
        <5>2. u = p - r + 3 /\ p \in 0 .. l - 1 /\ l \in {365, 366}
          BY <2>4 DEF p
        <5>3. b \in {365, 366}
          BY DEF LengthOf
        <5> HIDE DEF u, l, b, r
        <5>4. QED
          BY <5>1, <5>2, <5>3
      <4> HIDE DEF u, l, b
      <4>3. CASE u < 0
        BY <4>1, <4>2, <4>3
      <4>4. CASE ~(u < 0) /\ u >= l
        BY <4>1, <4>2, <4>4
      <4>5. CASE ~(u < 0) /\ ~(u >= l)
        BY <4>1, <4>2, <4>5
      <4>6. QED
        BY <4>3, <4>4, <4>5
    <3>7. QED
      BY <2>4, <2>5, <3>1, <3>2, <3>4, <3>5, <3>6 DEF Calendar!TypeOK, v, x
  <2>8. QED
    BY <2>2, <2>6, <2>7
<1>4. QED
  BY <1>2, <1>3 DEF CalendarInv

\* localtime gives the time of a day.
LEMMA LocaltimeIs ==
  ASSUME NEW y, NEW mo, NEW d, Calendar!localtime(Calendar!Date(y, mo, d))
  PROVE  tm' = TmOf(y, mo, d) /\ fields' = fields
<1> DEFINE a == Calendar!Date(y, mo, d)
<1>1. a.year = y /\ a.month = mo /\ a.day = d
  BY DEF Calendar!Date
<1>2. tm' = [tm_year |-> a.year - 1900, tm_mon |-> a.month, tm_mday |-> a.day,
             tm_wday |-> Calendar!getDay(a), tm_yday |-> Calendar!ydayFromDate(a)]
      /\ fields' = fields
  BY DEF Calendar!localtime
<1> HIDE DEF a
<1>3. Calendar!ydayFromDate(a) = Place(y, mo, d)
  BY <1>1 DEF Calendar!ydayFromDate, Place, Before, Leap
<1>4. Calendar!getDay(a) = (NewYear(y) + Place(y, mo, d) + 1) % 7
  BY <1>1, <1>3 DEF Calendar!getDay, NewYear
<1>5. QED
  BY <1>1, <1>2, <1>3, <1>4 DEF TmOf

\* Both calls preserve the invariant.
LEMMA CalendarStep ==
  ASSUME CalendarInv, Calendar!Next
  PROVE  CalendarInv'
<1>1. ASSUME NEW y \in Year, NEW mo \in 0 .. 11, NEW d \in 1 .. Calendar!MonthDays(y)[mo + 1],
             Calendar!localtime(Calendar!Date(y, mo, d))
      PROVE  CalendarInv'
  <2>1. tm' = TmOf(y, mo, d) /\ fields' = fields
    BY <1>1, LocaltimeIs
  <2>2. tm = Calendar!NoTime
    BY <1>1 DEF Calendar!localtime
  <2>3. ASSUME NEW z \in Year, NEW k \in 0 .. 11, NEW i \in 1 .. Calendar!MonthDays(z)[k + 1],
               tm = TmOf(z, k, i)
        PROVE  FALSE
    <3>1. tm.tm_mday = i /\ tm.tm_mday = 0
      BY <2>2, <2>3 DEF TmOf, Calendar!NoTime
    <3>2. QED
      BY <3>1
  <2>4. fields = Calendar!NoFields
    BY <2>3 DEF CalendarInv
  <2>5. tm' = TmOf(y, mo, d) /\ fields' \in {Calendar!NoFields, FieldsOf(tm')}
    BY <2>1, <2>4
  <2>6. QED
    BY <2>5 DEF CalendarInv
<1>2. CASE Calendar!strftime
  <2>1. tm # Calendar!NoTime /\ tm' = tm /\ fields' = FieldsOf(tm)
    BY <1>2 DEF Calendar!strftime, FieldsOf
  <2>2. PICK y \in Year, mo \in 0 .. 11 : \E d \in 1 .. Calendar!MonthDays(y)[mo + 1] :
          tm = TmOf(y, mo, d)
    BY <2>1 DEF CalendarInv
  <2>3. PICK d \in 1 .. Calendar!MonthDays(y)[mo + 1] : tm = TmOf(y, mo, d)
    BY <2>2
  <2>4. tm' = TmOf(y, mo, d) /\ fields' \in {Calendar!NoFields, FieldsOf(tm')}
    BY <2>1, <2>3
  <2>5. QED
    BY <2>4 DEF CalendarInv
<1>3. QED
  BY <1>1, <1>2 DEF Calendar!Next

\* The steps of the runtime.
LEMMA RuntimeCalendarStep ==
  ASSUME CalendarInv, [RuntimeNext]_runtimeVars
  PROVE  CalendarInv'
<1>1. Calendar!Next \/ UNCHANGED calendarVars
  BY DEF RuntimeNext, runtimeVars
<1>2. CASE Calendar!Next
  BY <1>2, CalendarStep
<1>3. CASE UNCHANGED calendarVars
  BY <1>3 DEF calendarVars, CalendarInv
<1>4. QED
  BY <1>1, <1>2, <1>3

\* tm always holds a day of the calendar.
THEOREM CalendarSound == RuntimeSpec => []CalendarInv
<1>1. RuntimeInit => CalendarInv
  BY DEF RuntimeInit, Calendar!Init, CalendarInv
<1>2. CalendarInv /\ [RuntimeNext]_runtimeVars => CalendarInv'
  BY RuntimeCalendarStep
<1>3. QED
  BY <1>1, <1>2, PTL DEF RuntimeSpec

\* The day of the year, the week counts and the ISO week and year are those of
\* the calendar, on every day of every year from 1900 on (__localtime_js,
\* _strftime, addDays).
THEOREM DaysAreExact == RuntimeSpec => []CalendarExact
<1>1. CalendarInv => CalendarExact
  BY RuntimeAssumption, CalendarShown DEF CalendarExact
<1>2. QED
  BY <1>1, CalendarSound, PTL

\* What the module can look like; the counter is an integer to begin with.
Module ==
    [deps : Int, armed : BOOLEAN, calledRun : BOOLEAN, inits : Int,
     instance : {"none", "config", "compiling", "received", "failed"},
     preInit : {"none", "waiting", "done"},
     preRun : {"none", "waiting", "done"},
     onInit : {"none", "waiting", "loading", "done", "failed"},
     postRun : {"none", "waiting", "done"}]

\* The dependencies of createWasm and instantiateWasm that are not removed.
WasmShare(x) ==
    IF x.instance = "config" THEN 1
    ELSE IF x.instance \in {"compiling", "failed"} THEN 2 ELSE 0

\* The dependency of a hook that has not ended.
HookShare(hook) == IF hook = "waiting" THEN 1 ELSE 0

\* Where a module stands once its body has run: the dependencies are those of
\* the waits that have not ended, preRun begins when all others have ended,
\* and run has been called when preRun has ended, else it is set up again.
Staged(x) ==
    /\ x \in Module
    /\ x.deps = WasmShare(x) + HookShare(x.preInit) + HookShare(x.preRun)
    /\ x.preInit = "none" <=> x.instance = "none"
    /\ x.preRun # "none" <=> x.instance = "received" /\ x.preInit = "done"
    /\ x.calledRun <=> x.preRun = "done"
    /\ x.armed <=> x.instance # "none" /\ ~x.calledRun
    /\ x.inits = IF x.calledRun THEN 1 ELSE 0
    /\ x.onInit = "none" <=> ~x.calledRun
    /\ x.postRun = "none" <=> ~x.calledRun

\* The main function's share of the keepalive counter.
MainShare == IF main = "running" THEN 1 ELSE 0

\* The timeouts that are pending have been set, and the kept one is pending.
TimersSet ==
    /\ set \in 0 .. MaxTimers
    /\ timers \subseteq 1 .. set
    /\ timer \in {Idle} \union timers

\* What the keepalive counter holds, before, during and after the run.
KeptAlive ==
    /\ counter \in Int
    /\ main \in {"none", "running", "returned"}
    /\ status \in {"starting", "ready", "exited", "aborted"}
    /\ ended \in {"nobody", "exit"}
    /\ counter >= Cardinality(timers) - set - 1
    /\ counter <= set + 2
    /\ status = "starting" =>
         /\ set = 0 /\ main = "none" /\ m.onInit # "done"
         /\ counter <= 1
         /\ m.onInit = "loading" => counter = 1
         /\ m.onInit \in {"none", "waiting"} => counter = 0
    /\ status # "starting" => m.onInit = "done"
    /\ status = "ready" =>
         /\ counter >= 1 + MainShare + Cardinality(timers)
         /\ counter <= 1 + MainShare + set

\* The inductive invariant of the start.
StartInv == Staged(m) /\ TimersSet /\ KeptAlive

-----------------------------------------------------------------------------
(* The run dependencies.                                                   *)

\* The values of the fields of a module, in order.
Fields(x, deps, armed, calledRun, inits, instance, preInit, preRunAt, onInit, postRun) ==
    /\ x.deps = deps /\ x.armed = armed /\ x.calledRun = calledRun /\ x.inits = inits
    /\ x.instance = instance /\ x.preInit = preInit /\ x.preRun = preRunAt
    /\ x.onInit = onInit /\ x.postRun = postRun

\* Adding a dependency counts it and changes nothing else.
LEMMA AddOne ==
    ASSUME NEW x \in Module
    PROVE  /\ addRunDependency(x) \in Module
           /\ Fields(addRunDependency(x), x.deps + 1, x.armed, x.calledRun, x.inits, x.instance,
                     x.preInit, x.preRun, x.onInit, x.postRun)
<1>1. PICK y : y = [x EXCEPT !.deps = @ + 1]
  OBVIOUS
<1>2. y \in Module
  BY <1>1 DEF Module
<1>3. Fields(y, x.deps + 1, x.armed, x.calledRun, x.inits, x.instance, x.preInit, x.preRun,
             x.onInit, x.postRun)
  BY <1>1 DEF Module, Fields
<1> QED
  BY <1>1, <1>2, <1>3 DEF addRunDependency

\* Removing a dependency that is not the last one only counts it.
LEMMA RemoveOne ==
    ASSUME NEW x \in Module, x.deps > 1
    PROVE  /\ removeRunDependency(x) \in Module
           /\ Fields(removeRunDependency(x), x.deps - 1, x.armed, x.calledRun, x.inits, x.instance,
                     x.preInit, x.preRun, x.onInit, x.postRun)
<1>1. PICK y : y = [x EXCEPT !.deps = @ - 1]
  OBVIOUS
<1>2. y \in Module /\ y.deps # 0
  BY <1>1 DEF Module
<1>3. Fields(y, x.deps - 1, x.armed, x.calledRun, x.inits, x.instance, x.preInit, x.preRun,
             x.onInit, x.postRun)
  BY <1>1 DEF Module, Fields
<1>4. removeRunDependency(x) = y
  BY <1>1, <1>2 DEF removeRunDependency
<1> QED
  BY <1>2, <1>3, <1>4

\* Removing the last dependency before preRun starts that hook, whose own
\* dependency makes run wait, and the caller sets itself up again.
LEMMA RemoveLastStartsPreRun ==
    ASSUME NEW x \in Module, x.deps = 1, x.armed, x.preRun = "none", ~x.calledRun
    PROVE  /\ removeRunDependency(x) \in Module
           /\ Fields(removeRunDependency(x), 1, TRUE, FALSE, x.inits, x.instance, x.preInit,
                     "waiting", x.onInit, x.postRun)
<1>y. PICK y : y = [x EXCEPT !.deps = @ - 1]
  OBVIOUS
<1>z. PICK z : z = [y EXCEPT !.armed = FALSE]
  OBVIOUS
<1>w. PICK w : w = [z EXCEPT !.preRun = "waiting"]
  OBVIOUS
<1>v. PICK v : v = addRunDependency(w)
  OBVIOUS
<1>u. PICK u : u = [v EXCEPT !.armed = TRUE]
  OBVIOUS
<1>0. x.armed = TRUE /\ x.calledRun = FALSE
  BY DEF Module
<1>1. y \in Module
  BY <1>y DEF Module
<1>2. Fields(y, 0, TRUE, FALSE, x.inits, x.instance, x.preInit, "none", x.onInit, x.postRun)
  BY <1>0, <1>y DEF Module, Fields
<1>3. z \in Module
  BY <1>z, <1>1 DEF Module
<1>4. Fields(z, 0, FALSE, FALSE, x.inits, x.instance, x.preInit, "none", x.onInit, x.postRun)
  BY <1>z, <1>1, <1>2 DEF Module, Fields
<1>5. w \in Module
  BY <1>w, <1>3 DEF Module
<1>6. Fields(w, 0, FALSE, FALSE, x.inits, x.instance, x.preInit, "waiting", x.onInit, x.postRun)
  BY <1>w, <1>3, <1>4 DEF Module, Fields
<1>7. /\ v \in Module
      /\ Fields(v, 1, FALSE, FALSE, x.inits, x.instance, x.preInit, "waiting", x.onInit, x.postRun)
  BY <1>v, <1>5, <1>6, AddOne DEF Fields
<1>8. preRun(z) = v
  BY <1>4, <1>w, <1>v DEF preRun, Fields
<1>9. run(z) = v
  BY <1>4, <1>7, <1>8 DEF run, Fields
<1>10. runCaller(y) = u
  BY <1>7, <1>9, <1>z, <1>u DEF runCaller, Fields
<1>11. removeRunDependency(x) = u
  BY <1>2, <1>10, <1>y DEF removeRunDependency, Fields
<1>12. u \in Module
  BY <1>u, <1>7 DEF Module
<1>13. Fields(u, 1, TRUE, FALSE, x.inits, x.instance, x.preInit, "waiting", x.onInit, x.postRun)
  BY <1>u, <1>7 DEF Module, Fields
<1> QED
  BY <1>11, <1>12, <1>13

\* doRun runs the program: it sets what says so, and starts the two hooks.
LEMMA RunsOnce ==
    ASSUME NEW x \in Module, ~x.calledRun
    PROVE  /\ doRun(x) \in Module
           /\ Fields(doRun(x), x.deps, x.armed, TRUE, x.inits + 1, x.instance, x.preInit, x.preRun,
                     "waiting", "waiting")
<1>n. PICK n \in Int : n = x.inits + 1
  BY DEF Module
<1>u. PICK u : u = [x EXCEPT !.calledRun = TRUE]
  OBVIOUS
<1>v. PICK v : v = [u EXCEPT !.inits = n]
  OBVIOUS
<1>w. PICK w : w = [v EXCEPT !.onInit = "waiting"]
  OBVIOUS
<1>y. PICK y : y = [w EXCEPT !.postRun = "waiting"]
  OBVIOUS
<1>1. u \in Module
  BY <1>u DEF Module
<1>2. Fields(u, x.deps, x.armed, TRUE, x.inits, x.instance, x.preInit, x.preRun, x.onInit,
             x.postRun)
  BY <1>u DEF Module, Fields
<1>3. v \in Module
  BY <1>1, <1>v DEF Module
<1>4. Fields(v, x.deps, x.armed, TRUE, n, x.instance, x.preInit, x.preRun, x.onInit, x.postRun)
  BY <1>1, <1>2, <1>v DEF Module, Fields
<1>5. w \in Module
  BY <1>3, <1>w DEF Module
<1>6. Fields(w, x.deps, x.armed, TRUE, n, x.instance, x.preInit, x.preRun, "waiting", x.postRun)
  BY <1>3, <1>4, <1>w DEF Module, Fields
<1>7. y \in Module
  BY <1>5, <1>y DEF Module
<1>8. Fields(y, x.deps, x.armed, TRUE, n, x.instance, x.preInit, x.preRun, "waiting", "waiting")
  BY <1>5, <1>6, <1>y DEF Module, Fields
<1>9. doRun(x) = y
  BY <1>n, <1>u, <1>v, <1>w, <1>y DEF doRun
<1> QED
  BY <1>7, <1>8, <1>9, <1>n

\* Removing the dependency of preRun runs the program.
LEMMA RemoveLastRuns ==
    ASSUME NEW x \in Module, x.deps = 1, x.armed, x.preRun = "done", ~x.calledRun
    PROVE  /\ removeRunDependency(x) \in Module
           /\ Fields(removeRunDependency(x), 0, FALSE, TRUE, x.inits + 1, x.instance, x.preInit,
                     "done", "waiting", "waiting")
<1>y. PICK y : y = [x EXCEPT !.deps = @ - 1]
  OBVIOUS
<1>z. PICK z : z = [y EXCEPT !.armed = FALSE]
  OBVIOUS
<1>w. PICK w : w = doRun(z)
  OBVIOUS
<1>u. PICK u : u = [w EXCEPT !.armed = FALSE]
  OBVIOUS
<1>0. x.armed = TRUE /\ x.calledRun = FALSE
  BY DEF Module
<1>1. y \in Module
  BY <1>y DEF Module
<1>2. Fields(y, 0, TRUE, FALSE, x.inits, x.instance, x.preInit, "done", x.onInit, x.postRun)
  BY <1>0, <1>y DEF Module, Fields
<1>3. z \in Module
  BY <1>z, <1>1 DEF Module
<1>4. Fields(z, 0, FALSE, FALSE, x.inits, x.instance, x.preInit, "done", x.onInit, x.postRun)
  BY <1>z, <1>1, <1>2 DEF Module, Fields
<1>5. /\ w \in Module
      /\ Fields(w, 0, FALSE, TRUE, x.inits + 1, x.instance, x.preInit, "done", "waiting", "waiting")
  BY <1>3, <1>4, <1>w, RunsOnce DEF Fields
<1>6. preRun(z) = z
  BY <1>4 DEF preRun, Fields
<1>7. run(z) = w
  BY <1>4, <1>6, <1>w DEF run, Fields
<1>8. runCaller(y) = u
  BY <1>5, <1>7, <1>z, <1>u DEF runCaller, Fields
<1>9. removeRunDependency(x) = u
  BY <1>2, <1>8, <1>y DEF removeRunDependency, Fields
<1>10. u \in Module
  BY <1>u, <1>5 DEF Module
<1>11. Fields(u, 0, FALSE, TRUE, x.inits + 1, x.instance, x.preInit, "done", "waiting", "waiting")
  BY <1>u, <1>5 DEF Module, Fields
<1> QED
  BY <1>9, <1>10, <1>11

-----------------------------------------------------------------------------
(* The start keeps the stages.                                             *)

\* The body of the module leaves two dependencies, of the configuration and
\* of preInit, and the caller of run set up.
LEMMA BodyStaged ==
    ASSUME Staged(m), Body
    PROVE  /\ Staged(m')
           /\ m'.onInit = m.onInit
<1>0. /\ m \in Module
      /\ Fields(m, 0, FALSE, FALSE, 0, "none", "none", "none", "none", "none")
  BY DEF Staged, Body, WasmShare, HookShare, Module, Fields
<1>a. PICK a : a = [m EXCEPT !.instance = "config"]
  OBVIOUS
<1>b. PICK b : b = addRunDependency(a)
  OBVIOUS
<1>c. PICK c : c = [b EXCEPT !.armed = TRUE]
  OBVIOUS
<1>d. PICK d : d = addRunDependency(c)
  OBVIOUS
<1>e. PICK e : e = addRunDependency(d)
  OBVIOUS
<1>f. PICK f : f = removeRunDependency(e)
  OBVIOUS
<1>g. PICK g : g = addRunDependency(f)
  OBVIOUS
<1>h. PICK h : h = removeRunDependency(g)
  OBVIOUS
<1>i. PICK i : i = [h EXCEPT !.preInit = "waiting"]
  OBVIOUS
<1>1. a \in Module
  BY <1>0, <1>a DEF Module
<1>2. Fields(a, 0, FALSE, FALSE, 0, "config", "none", "none", "none", "none")
  BY <1>0, <1>a DEF Module, Fields
<1>3. b \in Module /\ Fields(b, 1, FALSE, FALSE, 0, "config", "none", "none", "none", "none")
  BY <1>1, <1>2, <1>b, AddOne DEF Fields
<1>4. c \in Module
  BY <1>3, <1>c DEF Module
<1>5. Fields(c, 1, TRUE, FALSE, 0, "config", "none", "none", "none", "none")
  BY <1>3, <1>c DEF Module, Fields
<1>6. d \in Module /\ Fields(d, 2, TRUE, FALSE, 0, "config", "none", "none", "none", "none")
  BY <1>4, <1>5, <1>d, AddOne DEF Fields
<1>7. e \in Module /\ Fields(e, 3, TRUE, FALSE, 0, "config", "none", "none", "none", "none")
  BY <1>6, <1>e, AddOne DEF Fields
<1>8. f \in Module /\ Fields(f, 2, TRUE, FALSE, 0, "config", "none", "none", "none", "none")
  BY <1>7, <1>f, RemoveOne DEF Fields
<1>9. g \in Module /\ Fields(g, 3, TRUE, FALSE, 0, "config", "none", "none", "none", "none")
  BY <1>8, <1>g, AddOne DEF Fields
<1>10. h \in Module /\ Fields(h, 2, TRUE, FALSE, 0, "config", "none", "none", "none", "none")
  BY <1>9, <1>h, RemoveOne DEF Fields
<1>11. i \in Module
  BY <1>10, <1>i DEF Module
<1>12. Fields(i, 2, TRUE, FALSE, 0, "config", "waiting", "none", "none", "none")
  BY <1>10, <1>i DEF Module, Fields
<1>13. m' = run(i)
  BY <1>a, <1>b, <1>c, <1>d, <1>e, <1>f, <1>g, <1>h, <1>i DEF Body
<1>14. m' = i
  BY <1>12, <1>13 DEF run, Fields
<1> QED
  BY <1>0, <1>11, <1>12, <1>14 DEF Staged, WasmShare, HookShare, Fields

\* The end of preInit.
LEMMA PreInitStaged ==
    ASSUME Staged(m), PreInit
    PROVE  /\ Staged(m')
           /\ m'.onInit = m.onInit
<1>x. PICK x : x = [m EXCEPT !.preInit = "done"]
  OBVIOUS
<1>0. m \in Module /\ m.preInit = "waiting" /\ m' = removeRunDependency(x)
  BY <1>x DEF PreInit, Staged
<1>1. x \in Module
  BY <1>0, <1>x DEF Module
<1>2. Fields(x, m.deps, m.armed, m.calledRun, m.inits, m.instance, "done", m.preRun, m.onInit,
             m.postRun)
  BY <1>0, <1>x DEF Module, Fields
<1>3. /\ m.armed = TRUE /\ m.preRun = "none" /\ m.calledRun = FALSE /\ m.instance # "none"
      /\ m.deps = WasmShare(m) + 1
  BY <1>0 DEF Staged, Module, HookShare, WasmShare
<1>4. CASE m.instance = "received"
  <2>1. m.deps = 1
    BY <1>3, <1>4 DEF WasmShare
  <2>2. /\ m' \in Module
        /\ Fields(m', 1, TRUE, FALSE, m.inits, m.instance, "done", "waiting", m.onInit, m.postRun)
    BY <1>0, <1>1, <1>2, <1>3, <2>1, RemoveLastStartsPreRun DEF Fields
  <2> QED
    BY <1>3, <1>4, <2>2 DEF Staged, WasmShare, HookShare, Fields
<1>5. CASE m.instance # "received"
  <2>1. m.deps > 1
    BY <1>0, <1>3, <1>5 DEF WasmShare, Module
  <2>2. /\ m' \in Module
        /\ Fields(m', m.deps - 1, m.armed, m.calledRun, m.inits, m.instance, "done", m.preRun,
                  m.onInit, m.postRun)
    BY <1>0, <1>1, <1>2, <2>1, RemoveOne DEF Fields
  <2> QED
    BY <1>0, <1>3, <1>5, <2>2 DEF Staged, WasmShare, HookShare, Fields
<1> QED
  BY <1>4, <1>5

\* The configuration is loaded: instantiateWasm adds its own dependency.
LEMMA InstantiateStaged ==
    ASSUME Staged(m), Instantiate
    PROVE  /\ Staged(m')
           /\ m'.onInit = m.onInit
<1>x. PICK x : x = [m EXCEPT !.instance = "compiling"]
  OBVIOUS
<1>0. m \in Module /\ m.instance = "config" /\ m' = addRunDependency(x)
  BY <1>x DEF Instantiate, Staged
<1>1. x \in Module
  BY <1>0, <1>x DEF Module
<1>2. Fields(x, m.deps, m.armed, m.calledRun, m.inits, "compiling", m.preInit, m.preRun, m.onInit,
             m.postRun)
  BY <1>0, <1>x DEF Module, Fields
<1>3. /\ m' \in Module
      /\ Fields(m', m.deps + 1, m.armed, m.calledRun, m.inits, "compiling", m.preInit, m.preRun,
                m.onInit, m.postRun)
  BY <1>0, <1>1, <1>2, AddOne DEF Fields
<1> QED
  BY <1>0, <1>3 DEF Staged, WasmShare, HookShare, Fields

\* The instance is there: two dependencies go, and if preInit has ended preRun
\* begins.
LEMMA ReceiveStaged ==
    ASSUME Staged(m), ReceiveInstance
    PROVE  /\ Staged(m')
           /\ m'.onInit = m.onInit
<1>x. PICK x : x = [m EXCEPT !.instance = "received"]
  OBVIOUS
<1>y. PICK y : y = removeRunDependency(x)
  OBVIOUS
<1>0. m \in Module /\ m.instance = "compiling" /\ m' = removeRunDependency(y)
  BY <1>x, <1>y DEF ReceiveInstance, Staged
<1>1. x \in Module
  BY <1>0, <1>x DEF Module
<1>2. Fields(x, m.deps, m.armed, m.calledRun, m.inits, "received", m.preInit, m.preRun, m.onInit,
             m.postRun)
  BY <1>0, <1>x DEF Module, Fields
<1>3. /\ m.armed = TRUE /\ m.preRun = "none" /\ m.calledRun = FALSE
      /\ m.preInit \in {"waiting", "done"} /\ m.deps = 2 + HookShare(m.preInit)
  BY <1>0 DEF Staged, Module, HookShare, WasmShare
<1>4. m.deps > 1
  BY <1>3 DEF HookShare
<1>5. /\ y \in Module
      /\ Fields(y, 1 + HookShare(m.preInit), TRUE, FALSE, m.inits, "received", m.preInit, "none",
                m.onInit, m.postRun)
  BY <1>y, <1>1, <1>2, <1>3, <1>4, RemoveOne DEF Fields, HookShare
<1>6. CASE m.preInit = "done"
  <2>1. y.deps = 1
    BY <1>5, <1>6 DEF HookShare, Fields
  <2>2. /\ m' \in Module
        /\ Fields(m', 1, TRUE, FALSE, m.inits, "received", "done", "waiting", m.onInit, m.postRun)
    BY <1>0, <1>5, <1>6, <2>1, RemoveLastStartsPreRun DEF Fields
  <2> QED
    BY <1>0, <1>3, <1>6, <2>2 DEF Staged, WasmShare, HookShare, Fields
<1>7. CASE m.preInit = "waiting"
  <2>1. y.deps = 2
    BY <1>5, <1>7 DEF HookShare, Fields
  <2>2. /\ m' \in Module
        /\ Fields(m', 1, TRUE, FALSE, m.inits, "received", "waiting", "none", m.onInit, m.postRun)
    BY <1>0, <1>5, <1>7, <2>1, RemoveOne DEF Fields
  <2> QED
    BY <1>0, <1>3, <1>7, <2>2 DEF Staged, WasmShare, HookShare, Fields
<1> QED
  BY <1>3, <1>6, <1>7

\* The instance fails: the dependencies stay.
LEMMA FailsStaged ==
    ASSUME Staged(m), InstantiateFails
    PROVE  /\ Staged(m')
           /\ m'.onInit = m.onInit
<1>0. m \in Module /\ m.instance = "compiling" /\ m' = [m EXCEPT !.instance = "failed"]
  BY DEF InstantiateFails, Staged
<1>1. m' \in Module
  BY <1>0 DEF Module
<1>2. Fields(m', m.deps, m.armed, m.calledRun, m.inits, "failed", m.preInit, m.preRun, m.onInit,
             m.postRun)
  BY <1>0 DEF Module, Fields
<1> QED
  BY <1>0, <1>1, <1>2 DEF Staged, WasmShare, HookShare, Fields

\* The end of preRun runs the program.
LEMMA PreRunStaged ==
    ASSUME Staged(m), PreRun
    PROVE  /\ Staged(m')
           /\ m.onInit = "none" /\ m'.onInit = "waiting"
<1>x. PICK x : x = [m EXCEPT !.preRun = "done"]
  OBVIOUS
<1>0. /\ m \in Module /\ m.preRun = "waiting" /\ m.instance = "received" /\ m.preInit = "done"
      /\ m' = removeRunDependency(x)
  BY <1>x DEF PreRun, Staged
<1>1. x \in Module
  BY <1>0, <1>x DEF Module
<1>2. /\ m.deps = 1 /\ m.armed = TRUE /\ m.calledRun = FALSE /\ m.inits = 0 /\ m.onInit = "none"
  BY <1>0 DEF Staged, Module, HookShare, WasmShare
<1>3. Fields(x, 1, TRUE, FALSE, 0, "received", "done", "done", "none", m.postRun)
  BY <1>0, <1>2, <1>x DEF Module, Fields
<1>4. /\ m' \in Module
      /\ Fields(m', 0, FALSE, TRUE, 1, "received", "done", "done", "waiting", "waiting")
  <2>1. x.deps = 1 /\ x.armed /\ x.preRun = "done" /\ ~x.calledRun /\ x.inits + 1 = 1
    BY <1>3 DEF Fields
  <2>2. /\ removeRunDependency(x) \in Module
        /\ Fields(removeRunDependency(x), 0, FALSE, TRUE, x.inits + 1, x.instance, x.preInit,
                  "done", "waiting", "waiting")
    BY <1>1, <2>1, RemoveLastRuns
  <2> QED
    BY <1>0, <1>3, <2>1, <2>2 DEF Fields
<1> QED
  BY <1>2, <1>4 DEF Staged, WasmShare, HookShare, Fields

\* The hooks that follow change only their own places.
LEMMA HookStaged ==
    ASSUME Staged(m), LoadMono \/ MonoReady \/ LoadFails \/ PostRun
    PROVE  Staged(m')
<1>1. m \in Module /\ m.calledRun = TRUE
  BY DEF LoadMono, MonoReady, LoadFails, PostRun, Staged, Module
<1>2. CASE LoadMono \/ MonoReady \/ LoadFails
  <2>1. PICK o \in {"loading", "done", "failed"} : m' = [m EXCEPT !.onInit = o]
    BY <1>2 DEF LoadMono, MonoReady, LoadFails
  <2>2. m' \in Module
    BY <1>1, <2>1 DEF Module
  <2>3. Fields(m', m.deps, m.armed, m.calledRun, m.inits, m.instance, m.preInit, m.preRun, o,
               m.postRun)
    BY <1>1, <2>1 DEF Module, Fields
  <2> QED
    BY <1>1, <2>1, <2>2, <2>3 DEF Staged, WasmShare, HookShare, Fields
<1>3. CASE PostRun
  <2>1. m' = [m EXCEPT !.postRun = "done"]
    BY <1>3 DEF PostRun
  <2>2. m' \in Module
    BY <1>1, <2>1 DEF Module
  <2>3. Fields(m', m.deps, m.armed, m.calledRun, m.inits, m.instance, m.preInit, m.preRun,
               m.onInit, "done")
    BY <1>1, <2>1 DEF Module, Fields
  <2> QED
    BY <1>1, <2>2, <2>3 DEF Staged, WasmShare, HookShare, Fields
<1> QED
  BY <1>2, <1>3

-----------------------------------------------------------------------------
(* The timeouts and the keepalive counter.                                 *)

\* Pending timeouts are finitely many, no more than were set.
LEMMA TimersCounted ==
    ASSUME TimersSet
    PROVE  /\ IsFiniteSet(timers)
           /\ Cardinality(timers) \in Nat
           /\ Cardinality(timers) <= set
<1>1. IsFiniteSet(1 .. set) /\ Cardinality(1 .. set) = set
  BY FS_Interval DEF TimersSet
<1>2. IsFiniteSet(timers) /\ Cardinality(timers) <= Cardinality(1 .. set)
  BY <1>1, FS_Subset DEF TimersSet
<1> QED
  BY <1>1, <1>2, FS_CardinalityType

\* A new timeout is one more, whether or not it replaces another one.
LEMMA TimerAdded ==
    ASSUME TimersSet
    PROVE  /\ Cardinality(timers \union {set + 1}) = Cardinality(timers) + 1
           /\ Cardinality((timers \ {timer}) \union {set + 1}) <= Cardinality(timers) + 1
           /\ Cardinality((timers \ {timer}) \union {set + 1}) \in Nat
<1>1. IsFiniteSet(timers) /\ Cardinality(timers) \in Nat
  BY TimersCounted
<1>2. set + 1 \notin timers
  BY DEF TimersSet
<1>3. Cardinality(timers \union {set + 1}) = Cardinality(timers) + 1
  BY <1>1, <1>2, FS_AddElement
<1>4. IsFiniteSet(timers \union {set + 1})
  BY <1>1, FS_AddElement
<1>5. (timers \ {timer}) \union {set + 1} \subseteq timers \union {set + 1}
  OBVIOUS
<1>6. /\ Cardinality((timers \ {timer}) \union {set + 1}) <= Cardinality(timers \union {set + 1})
      /\ Cardinality((timers \ {timer}) \union {set + 1}) \in Nat
  BY <1>4, <1>5, FS_Subset, FS_CardinalityType
<1> QED
  BY <1>3, <1>6

\* A timeout that fires is one less.
LEMMA TimerFired ==
    ASSUME TimersSet, NEW t \in timers
    PROVE  /\ Cardinality(timers \ {t}) = Cardinality(timers) - 1
           /\ Cardinality(timers \ {t}) \in Nat
<1>1. IsFiniteSet(timers)
  BY TimersCounted
<1>2. IsFiniteSet(timers \ {t}) /\ Cardinality(timers \ {t}) = Cardinality(timers) - 1
  BY <1>1, FS_RemoveElement
<1> QED
  BY <1>2, FS_CardinalityType

\* In the first state nothing waits and nothing is kept alive.
LEMMA InitStart ==
    ASSUME Init
    PROVE  StartInv
<1>1. Staged(m)
  BY DEF Init, Staged, Module, WasmShare, HookShare
<1>2. TimersSet
  BY TimersAssumption DEF Init, TimersSet, Idle
<1>3. Cardinality(timers) = 0
  BY FS_EmptySet DEF Init
<1>4. KeptAlive
  BY <1>3 DEF Init, KeptAlive, MainShare, Idle
<1> QED
  BY <1>1, <1>2, <1>4 DEF StartInv

\* A step of the start keeps the invariant.
LEMMA StartingKeeps ==
    ASSUME StartInv, Starting
    PROVE  StartInv'
<1> USE DEF StartInv
<1>0. Cardinality(timers) \in Nat /\ Cardinality(timers) <= set /\ set \in Nat
  BY TimersCounted DEF TimersSet
<1>t. UNCHANGED <<timers, timer, set, main>>
  BY DEF Starting, Body, PreInit, Instantiate, PreRun, PostRun, ReceiveInstance,
         InstantiateFails, LoadMono, MonoReady, LoadFails
<1>s. TimersSet'
  BY <1>t DEF TimersSet
<1>1. CASE Body \/ PreInit \/ Instantiate \/ ReceiveInstance \/ InstantiateFails
  <2>1. Staged(m') /\ m'.onInit = m.onInit
    BY <1>1, BodyStaged, PreInitStaged, InstantiateStaged, ReceiveStaged, FailsStaged
  <2>2. UNCHANGED <<counter, status>> /\ ended' \in {"nobody", "exit"}
    BY <1>1 DEF Body, PreInit, Instantiate, ReceiveInstance, InstantiateFails, KeptAlive
  <2>3. KeptAlive'
    BY <1>0, <1>t, <2>1, <2>2 DEF KeptAlive, MainShare
  <2> QED
    BY <1>s, <2>1, <2>3
<1>2. CASE PreRun
  <2>1. Staged(m') /\ m.onInit = "none" /\ m'.onInit = "waiting"
    BY <1>2, PreRunStaged
  <2>2. UNCHANGED <<counter, status, ended>>
    BY <1>2 DEF PreRun
  <2>3. KeptAlive'
    BY <1>0, <1>t, <2>1, <2>2 DEF KeptAlive, MainShare
  <2> QED
    BY <1>s, <2>1, <2>3
<1>3. CASE LoadMono \/ MonoReady \/ LoadFails \/ PostRun
  <2>1. Staged(m') /\ m \in Module
    BY <1>3, HookStaged DEF Staged
  <2>2. CASE LoadMono
    BY <1>0, <1>t, <2>1, <2>2 DEF LoadMono, KeptAlive, MainShare, Module, TimersSet
  <2>3. CASE MonoReady
    <3>1. status = "starting" /\ set = 0 /\ main = "none" /\ counter = 1
      BY <2>3 DEF MonoReady, KeptAlive
    <3>2. Cardinality(timers) = 0
      BY <1>0, <3>1
    <3>3. KeptAlive'
      BY <1>t, <2>1, <2>3, <3>1, <3>2 DEF MonoReady, KeptAlive, MainShare, Module
    <3> QED
      BY <1>s, <2>1, <3>3
  <2>4. CASE LoadFails
    <3>1. status = "starting" /\ set = 0 /\ main = "none" /\ counter \in {0, 1}
      BY <2>4 DEF LoadFails, KeptAlive
    <3>2. Cardinality(timers) = 0
      BY <1>0, <3>1
    <3>3. KeptAlive'
      BY <1>t, <2>1, <2>4, <3>1, <3>2 DEF LoadFails, KeptAlive, MainShare, Module
    <3> QED
      BY <1>s, <2>1, <3>3
  <2>5. CASE PostRun
    <3>1. m'.onInit = m.onInit /\ UNCHANGED <<counter, status, ended>>
      BY <2>1, <2>5 DEF PostRun, Module
    <3>2. KeptAlive'
      BY <1>t, <3>1 DEF KeptAlive, MainShare
    <3> QED
      BY <1>s, <2>1, <3>2
  <2> QED
    BY <1>3, <1>s, <2>1, <2>2, <2>3, <2>4, <2>5
<1> QED
  BY <1>1, <1>2, <1>3 DEF Starting

\* While .NET runs, every change of the counter goes with one of the timeouts
\* or of the main function, and a replaced timeout only raises it.
LEMMA RunningKeeps ==
    ASSUME StartInv,
           RunMain \/ MainReturns \/ SetTimeout \/ ScheduleTimer \/ ForceExit \/ Abort
    PROVE  StartInv'
<1> USE DEF StartInv
<1> DEFINE pending == Cardinality(timers)
<1>0. pending \in Nat /\ pending <= set /\ set \in Nat
  BY TimersCounted DEF TimersSet
<1>m. Staged(m') /\ m' = m /\ status = "ready" /\ m.onInit = "done"
  BY DEF RunMain, MainReturns, SetTimeout, ScheduleTimer, ForceExit, Abort, KeptAlive
<1>c. /\ counter \in Int /\ counter >= 1 + MainShare + pending
      /\ counter <= 1 + MainShare + set
  BY <1>m DEF KeptAlive
<1> HIDE DEF pending
<1>1. CASE RunMain
  <2>1. TimersSet' /\ Cardinality(timers') = pending
    BY <1>1 DEF RunMain, TimersSet, pending
  <2>2. KeptAlive'
    BY <1>0, <1>1, <1>m, <1>c, <2>1 DEF RunMain, KeptAlive, MainShare
  <2> QED
    BY <1>m, <2>1, <2>2
<1>2. CASE MainReturns
  <2>1. TimersSet' /\ Cardinality(timers') = pending
    BY <1>2 DEF MainReturns, TimersSet, pending
  <2>2. KeptAlive'
    BY <1>0, <1>2, <1>m, <1>c, <2>1 DEF MainReturns, KeptAlive, MainShare
  <2> QED
    BY <1>m, <2>1, <2>2
<1>3. CASE SetTimeout \/ ScheduleTimer
  <2>1. /\ set' = set + 1 /\ counter' = counter + 1
        /\ UNCHANGED <<main, status, ended>>
    BY <1>3 DEF SetTimeout, ScheduleTimer, Pushed
  <2>2. TimersSet'
    <3>1. set + 1 \in 0 .. MaxTimers /\ 1 .. set \subseteq 1 .. set + 1 /\ set + 1 \in 1 .. set + 1
      BY TimersAssumption, <1>3 DEF SetTimeout, ScheduleTimer, TimersSet
    <3>2. CASE SetTimeout
      BY <3>1, <3>2 DEF SetTimeout, TimersSet
    <3>3. CASE ScheduleTimer
      BY <3>1, <3>3 DEF ScheduleTimer, TimersSet
    <3> QED
      BY <1>3, <3>2, <3>3
  <2>3. Cardinality(timers') \in Nat /\ Cardinality(timers') <= pending + 1
    BY <1>0, <1>3, TimerAdded DEF SetTimeout, ScheduleTimer, pending
  <2>4. KeptAlive'
    BY <1>0, <1>m, <1>c, <2>1, <2>3 DEF KeptAlive, MainShare
  <2> QED
    BY <1>m, <2>2, <2>4
<1>4. CASE ForceExit \/ Abort
  <2>1. TimersSet' /\ Cardinality(timers') = pending /\ set' = set
    BY <1>4 DEF ForceExit, Abort, TimersSet, pending
  <2>2. KeptAlive'
    BY <1>0, <1>4, <1>m, <1>c, <2>1 DEF ForceExit, Abort, KeptAlive, MainShare
  <2> QED
    BY <1>m, <2>1, <2>2
<1> QED
  BY <1>1, <1>2, <1>3, <1>4

\* A timeout that fires in a running program leaves mono's share, so that
\* maybeExit finds the runtime kept alive.
LEMMA FireKeeps ==
    ASSUME StartInv, NEW t \in Timers, Fire(t)
    PROVE  StartInv'
<1> USE DEF StartInv
<1> DEFINE pending == Cardinality(timers)
<1>0. pending \in Nat /\ pending <= set /\ set \in Nat
  BY TimersCounted DEF TimersSet
<1>m. Staged(m') /\ m' = m /\ set' = set /\ main' = main /\ counter' = counter - 1
  BY DEF Fire
<1>1. Cardinality(timers') = pending - 1 /\ Cardinality(timers') \in Nat
  BY TimerFired DEF Fire
<1> HIDE DEF pending
<1>2. TimersSet'
  BY DEF Fire, TimersSet, Idle
<1>3. status # "starting"
  BY DEF Fire, KeptAlive, TimersSet
<1>4. status = "ready" => counter' > 0
  BY <1>0, <1>1, <1>m DEF KeptAlive, MainShare, pending
<1>5. UNCHANGED <<status, ended>>
  BY <1>4, <1>m DEF Fire, KeptAlive
<1>6. counter >= pending - set - 1
  BY DEF KeptAlive, pending
<1>7. status = "ready" => counter >= 1 + MainShare + pending
  BY DEF KeptAlive, pending
<1>8. KeptAlive'
  BY <1>0, <1>1, <1>3, <1>5, <1>6, <1>7, <1>m DEF KeptAlive, MainShare
<1> QED
  BY <1>2, <1>8, <1>m

-----------------------------------------------------------------------------
(* The theorems.                                                           *)

\* The dependencies of a start are the waits that have not ended, and the
\* keepalive counter covers mono, the main function and all timeouts.
THEOREM StartStaged == Init /\ [][Next]_vars => []StartInv
<1>1. Init => StartInv
  BY InitStart
<1>2. StartInv /\ [Next]_vars => StartInv'
  <2> SUFFICES ASSUME StartInv, [Next]_vars PROVE StartInv'
    OBVIOUS
  <2>1. CASE Starting
    BY <2>1, StartingKeeps
  <2>2. CASE RunMain \/ MainReturns \/ SetTimeout \/ ScheduleTimer \/ ForceExit \/ Abort
    BY <2>2, RunningKeeps
  <2>3. CASE \E t \in Timers : Fire(t)
    BY <2>3, FireKeeps
  <2>4. CASE UNCHANGED vars
    BY <2>4 DEF vars, StartInv, TimersSet, KeptAlive, MainShare
  <2> QED
    BY <2>1, <2>2, <2>3, <2>4 DEF Next
<1> QED
  BY <1>1, <1>2, PTL

\* The steps of the runtime are steps of its start or leave it alone.
LEMMA StartPart == RuntimeSpec => Init /\ [][Next]_vars
<1>1. RuntimeInit => Init
  BY DEF RuntimeInit
<1>2. [RuntimeNext]_runtimeVars => [Next]_vars
  BY DEF RuntimeNext, runtimeVars
<1> QED
  BY <1>1, <1>2, PTL DEF RuntimeSpec

\* The runtime is initialized once, after the instance has been received and
\* both hooks have ended, in whatever order their awaits end (run,
\* addRunDependency and removeRunDependency).
THEOREM RunsOnceAfterHooks == RuntimeSpec => []RunsAfterHooks
<1>1. StartInv => RunsAfterHooks
  BY DEF StartInv, Staged, Module, RunsAfterHooks
<1> QED
  BY <1>1, StartPart, StartStaged, PTL

\* A running program ends by mono_exit or abort only: however its timeouts are
\* set, replaced and fired, maybeExit never finds the counter at zero.
THEOREM NeverEndsByItself == RuntimeSpec => []EndsOnlyByExit
<1>1. StartInv => EndsOnlyByExit
  BY DEF StartInv, KeptAlive, EndsOnlyByExit
<1> QED
  BY <1>1, StartPart, StartStaged, PTL

\* Every variable of the start has its type: there are never more than four
\* run dependencies, and the keepalive counter stays between the bounds that
\* the number of timeouts gives.
THEOREM StartTypeCorrect == RuntimeSpec => []TypeOK
<1>1. StartInv => TypeOK
  <2> SUFFICES ASSUME StartInv PROVE TypeOK
    OBVIOUS
  <2>1. m \in Module /\ m.deps \in 0 .. 4 /\ m.inits \in Nat
    BY DEF StartInv, Staged, Module, WasmShare, HookShare
  <2>2. timers \subseteq Timers /\ timer \in {Idle} \union Timers /\ set \in {Idle} \union Timers
    BY TimersAssumption DEF StartInv, TimersSet, Timers, Idle
  <2>3. counter \in -MaxTimers - 1 .. MaxTimers + 2
    <3>1. Cardinality(timers) \in Nat /\ set \in Nat /\ set <= MaxTimers
      BY TimersCounted DEF StartInv, TimersSet
    <3> QED
      BY TimersAssumption, <3>1 DEF StartInv, KeptAlive
  <2> QED
    BY <2>1, <2>2, <2>3 DEF TypeOK, Module, StartInv, KeptAlive
<1> QED
  BY <1>1, StartPart, StartStaged, PTL

\* Every variable of the parts of the runtime has its type.
THEOREM RuntimeTypeCorrect == RuntimeSpec => []RuntimeTypeOK
<1>1. FileInv /\ NamesInv /\ TextInv /\ CalendarInv /\ TypeOK => RuntimeTypeOK
  BY RuntimeAssumption, FileTyped, NamesTyped, TextShown, CalendarShown DEF RuntimeTypeOK
<1>2. QED
  BY <1>1, FileSound, NamesSound, TextSound, CalendarSound, StartTypeCorrect, PTL
=============================================================================
