------------------------- MODULE RuntimeNames_proofs -------------------------
(***************************************************************************)
(* The strings and the names of the files of the runtime.  A string of any *)
(* length comes back from any buffer as it was, cut between code points if *)
(* it must be.  For any names, paths, hashes, descriptors and number of    *)
(* nodes and buckets the chains of the table file every node exactly once, *)
(* a listing in several calls is complete, and the whole is a tree of      *)
(* paths.  The first part is what these and the proofs of the other parts  *)
(* of the runtime need of recursive functions.                             *)
(***************************************************************************)
EXTENDS Runtime, FiniteSets, FiniteSetTheorems, WellFoundedInduction, TLAPS

-----------------------------------------------------------------------------
(* Induction and recursion over data.                                      *)

\* A set of numbers that is not empty has a least one.
LEMMA LeastNumber ==
  ASSUME NEW S, S \subseteq Nat, S # {}
  PROVE  \E i \in S : \A j \in S : i <= j
<1>1. PICK i \in S : \A j \in S : <<j, i>> \notin OpToRel(<, Nat)
  BY NatLessThanWellFounded, WFMin
<1>2. \A j \in S : ~(j < i)
  BY <1>1 DEF OpToRel
<1>3. QED
  BY <1>2

\* Induction, with a set for the predicate.
LEMMA Induction ==
  ASSUME NEW S, 0 \in S, \A n \in Nat : n \in S => n + 1 \in S
  PROVE  \A n \in Nat : n \in S
<1>1. SUFFICES ASSUME Nat \ S # {} PROVE FALSE
  OBVIOUS
<1>2. PICK i \in Nat \ S : \A j \in Nat \ S : i <= j
  BY <1>1, LeastNumber
<1>3. i # 0 /\ i - 1 \in Nat
  BY <1>2
<1>4. i - 1 \in S
  BY <1>2, <1>3
<1>5. QED
  BY <1>2, <1>3, <1>4

\* What a recursive definition over D is made of: base is its value on the
\* elements of B, step[x] gives it on another element x, from its value on
\* next[x], whose rank is less.
Recursive(D, T, B, n, rank, base, next, step) ==
  /\ n \in Nat /\ rank \in [D -> 0 .. n] /\ base \in [B -> T]
  /\ next \in [D \ B -> D] /\ step \in [D \ B -> [T -> T]]
  /\ \A x \in D \ B : rank[next[x]] < rank[x]

\* The function that is so defined exists.
LEMMA Recursion ==
  ASSUME NEW D, NEW T, NEW B, NEW n, NEW rank, NEW base, NEW next, NEW step,
         Recursive(D, T, B, n, rank, base, next, step)
  PROVE  \E f \in [D -> T] :
           \A x \in D : f[x] = IF x \in B THEN base[x] ELSE step[x][f[next[x]]]
<1> USE DEF Recursive
<1> DEFINE Below(k) == {x \in D : rank[x] < k}
           Solves(f, k) ==
             /\ f \in [Below(k) -> T]
             /\ \A x \in Below(k) : f[x] = IF x \in B THEN base[x] ELSE step[x][f[next[x]]]
           S == {k \in Nat : \E f : Solves(f, k)}
<1>1. 0 \in S
  <2>1. Below(0) = {}
    OBVIOUS
  <2>2. Solves([x \in {} |-> x], 0)
    BY <2>1
  <2>3. QED
    BY <2>2
<1>2. \A k \in Nat : k \in S => k + 1 \in S
  <2> SUFFICES ASSUME NEW k \in Nat, k \in S PROVE k + 1 \in S
    OBVIOUS
  <2>1. PICK f : Solves(f, k)
    OBVIOUS
  <2> DEFINE g == [x \in Below(k + 1) |-> IF x \in B THEN base[x] ELSE step[x][f[next[x]]]]
  <2>2. \A x \in Below(k + 1) \ B : next[x] \in Below(k)
    OBVIOUS
  <2>3. \A x \in Below(k + 1) : g[x] \in T
    <3>1. SUFFICES ASSUME NEW x \in Below(k + 1) PROVE g[x] \in T
      OBVIOUS
    <3>2. CASE x \in B
      BY <3>2
    <3>3. CASE x \notin B
      <4>1. f[next[x]] \in T
        BY <2>1, <2>2, <3>3
      <4>2. step[x] \in [T -> T]
        BY <3>3
      <4>3. QED
        BY <3>3, <4>1, <4>2
    <3>4. QED
      BY <3>2, <3>3
  <2>4. \A x \in Below(k) : g[x] = f[x]
    BY <2>1
  <2>5. \A x \in Below(k + 1) : g[x] = IF x \in B THEN base[x] ELSE step[x][g[next[x]]]
    BY <2>2, <2>4
  <2>6. g \in [Below(k + 1) -> T]
    BY <2>3
  <2>7. Solves(g, k + 1)
    BY <2>5, <2>6
  <2>8. QED
    <3> HIDE DEF Solves, g
    <3>1. QED
      BY <2>7
<1>3. n + 1 \in S
  <2> HIDE DEF S
  <2>1. QED
    BY <1>1, <1>2, Induction
<1>4. Below(n + 1) = D
  OBVIOUS
<1>5. QED
  BY <1>3, <1>4

\* The same from 0 up to n, one step at a time.
Stepwise(T, n, a, step) == n \in Nat /\ a \in T /\ step \in [1 .. n -> [T -> T]]

\* A step for each number defines a function.
LEMMA StepByStep ==
  ASSUME NEW T, NEW n, NEW a, NEW step, Stepwise(T, n, a, step)
  PROVE  \E f \in [0 .. n -> T] : f[0] = a /\ \A k \in 1 .. n : f[k] = step[k][f[k - 1]]
<1> DEFINE D == 0 .. n
           B == {0}
           base == [x \in B |-> a]
           rank == [x \in D |-> x]
           next == [x \in D \ B |-> x - 1]
<1>0. n \in Nat /\ a \in T /\ step \in [1 .. n -> [T -> T]]
  BY DEF Stepwise
<1>1. D \ B = 1 .. n
  BY <1>0
<1>2. rank \in [D -> 0 .. n] /\ base \in [B -> T] /\ next \in [D \ B -> D]
  BY <1>0
<1>3. \A x \in D \ B : rank[next[x]] < rank[x]
  BY <1>0, <1>1
<1>4. step \in [D \ B -> [T -> T]]
  BY <1>0, <1>1
<1>5. base[0] = a /\ 0 \in B /\ 0 \in D /\ \A x \in 1 .. n : next[x] = x - 1 /\ x \in D /\ x \notin B
  BY <1>0
<1> HIDE DEF D, B, base, rank, next
<1>6. PICK f \in [D -> T] :
        \A x \in D : f[x] = IF x \in B THEN base[x] ELSE step[x][f[next[x]]]
  <2>1. Recursive(D, T, B, n, rank, base, next, step)
    BY <1>0, <1>2, <1>3, <1>4 DEF Recursive
  <2>2. QED
    BY <2>1, Recursion
<1>7. f[0] = a /\ \A k \in 1 .. n : f[k] = step[k][f[k - 1]]
  BY <1>5, <1>6
<1>8. QED
  BY <1>6, <1>7 DEF D

\* What holds at 0 and from each step to the next holds at every step.
LEMMA EveryStep ==
  ASSUME NEW T, NEW n \in Nat, NEW f, f[0] \in T,
         \A k \in 1 .. n : f[k - 1] \in T => f[k] \in T
  PROVE  \A k \in 0 .. n : f[k] \in T
<1> DEFINE S == {k \in Nat : k <= n => f[k] \in T}
<1>1. 0 \in S
  OBVIOUS
<1>2. ASSUME NEW k \in Nat, k \in S PROVE k + 1 \in S
  <2>1. SUFFICES ASSUME k + 1 <= n PROVE f[k + 1] \in T
    OBVIOUS
  <2>2. k + 1 \in 1 .. n /\ (k + 1) - 1 = k /\ k <= n
    BY <2>1
  <2>3. QED
    BY <1>2, <2>2
<1>3. \A k \in Nat : k \in S
  <2> HIDE DEF S
  <2>1. QED
    BY <1>1, <1>2, Induction
<1>4. QED
  BY <1>3

\* Induction up to n, with a set for the predicate.
LEMMA UpTo ==
  ASSUME NEW n \in Nat, NEW S, 0 \in S, \A k \in 1 .. n : k - 1 \in S => k \in S
  PROVE  \A k \in 0 .. n : k \in S
<1> DEFINE f == [k \in 0 .. n |-> k]
<1>1. f[0] \in S /\ \A k \in 1 .. n : f[k - 1] \in S => f[k] \in S
  OBVIOUS
<1>2. \A k \in 0 .. n : f[k] = k
  OBVIOUS
<1> HIDE DEF f
<1>3. \A k \in 0 .. n : f[k] \in S
  BY <1>1, EveryStep
<1>4. QED
  BY <1>2, <1>3

\* The elements of sequences in one, the first of them and one more at a time.
IsFlat(E, flat, chunks) ==
  /\ flat \in [0 .. Len(chunks) -> Seq(E)] /\ flat[0] = <<>>
  /\ \A k \in 1 .. Len(chunks) : flat[k] = flat[k - 1] \o chunks[k]
  /\ File!FlattenSeq(chunks) = flat[Len(chunks)]

\* FlattenSeq goes through them.
LEMMA FlatSteps ==
  ASSUME NEW E, NEW chunks \in Seq(Seq(E))
  PROVE  \E flat : IsFlat(E, flat, chunks)
<1> DEFINE n == Len(chunks)
           T == Seq(E)
           D == 1 .. n
           step == [k \in D |-> [t \in T |-> t \o chunks[k]]]
           Solves(f) == f = [i \in D |-> IF i = 1 THEN chunks[i] ELSE f[i - 1] \o chunks[i]]
<1>0. n \in Nat /\ \A k \in 1 .. n : chunks[k] \in T
  OBVIOUS
<1>1. <<>> \in T /\ \A t \in T : <<>> \o t = t
  OBVIOUS
<1>2. \A t, u \in T : t \o u \in T
  OBVIOUS
<1>3. PICK f \in [0 .. n -> T] : f[0] = <<>> /\ \A k \in 1 .. n : f[k] = step[k][f[k - 1]]
  <2> HIDE DEF Solves, T, n
  <2>1. step \in [1 .. n -> [T -> T]]
    BY <1>0, <1>2
  <2> HIDE DEF step
  <2>2. Stepwise(T, n, <<>>, step)
    BY <1>0, <1>1, <2>1 DEF Stepwise
  <2>3. QED
    BY <2>2, StepByStep
<1> HIDE DEF T
<1>4. \A k \in 1 .. n : f[k] = f[k - 1] \o chunks[k]
  <2> HIDE DEF n
  <2>1. ASSUME NEW k \in 1 .. n PROVE f[k] = f[k - 1] \o chunks[k]
    <3>1. f[k - 1] \in T
      BY <1>0, <1>3
    <3>2. step[k][f[k - 1]] = f[k - 1] \o chunks[k]
      BY <3>1
    <3> HIDE DEF step
    <3>3. QED
      BY <1>3, <3>2
  <2>2. QED
    BY <2>1
<1>5. CASE n = 0
  <2>1. chunks = <<>> /\ File!FlattenSeq(chunks) = chunks
    BY <1>5 DEF File!FlattenSeq
  <2>2. IsFlat(E, f, chunks)
    BY <1>3, <1>4, <1>5, <2>1 DEF IsFlat, T
  <2>3. QED
    BY <2>2
<1>6. CASE n # 0
  <2> DEFINE g == [i \in D |-> f[i]]
  <2>1. Solves(g)
    <3>1. \A i \in D : g[i] = IF i = 1 THEN chunks[i] ELSE g[i - 1] \o chunks[i]
      <4> HIDE DEF n
      <4>1. ASSUME NEW i \in D PROVE g[i] = IF i = 1 THEN chunks[i] ELSE g[i - 1] \o chunks[i]
        <5>1. g[i] = f[i - 1] \o chunks[i] /\ chunks[i] \in T
          BY <1>0, <1>4
        <5>2. CASE i = 1
          <6>1. f[i - 1] = <<>>
            BY <1>3, <5>2
          <6>2. <<>> \o chunks[i] = chunks[i]
            BY <1>1, <5>1
          <6> HIDE DEF g
          <6>3. QED
            BY <5>1, <5>2, <6>1, <6>2
        <5>3. CASE i # 1
          <6>1. i - 1 \in D
            BY <1>0, <5>3
          <6>2. QED
            BY <5>1, <5>3, <6>1
        <5>4. QED
          BY <5>2, <5>3
      <4>2. QED
        BY <4>1
    <3>2. QED
      BY <3>1
  <2> HIDE DEF g
  <2> DEFINE h == CHOOSE s : Solves(s)
  <2>2. Solves(h)
    <3> HIDE DEF Solves
    <3>1. QED
      BY <2>1
  <2>3. File!FlattenSeq(chunks) = h[n]
    BY <1>6 DEF File!FlattenSeq
  <2>4. \A i \in D : h[i] = IF i = 1 THEN chunks[i] ELSE h[i - 1] \o chunks[i]
    <3> HIDE DEF h, n
    <3>1. QED
      BY <2>2
  <2> HIDE DEF h, Solves
  <2>5. \A k \in 0 .. n : k \in {j \in 0 .. n : j = 0 \/ h[j] = f[j]}
    <3> DEFINE S == {j \in 0 .. n : j = 0 \/ h[j] = f[j]}
    <3> HIDE DEF n
    <3>1. 0 \in S
      BY <1>0
    <3>2. ASSUME NEW k \in 1 .. n, k - 1 \in S PROVE k \in S
      <4>0. k \in D /\ k \in 0 .. n /\ f[k] = f[k - 1] \o chunks[k] /\ chunks[k] \in T
        <5>1. k \in D /\ k \in 0 .. n
          BY <1>0
        <5>2. f[k] = f[k - 1] \o chunks[k]
          BY <1>4
        <5>3. chunks[k] \in T
          BY <1>0
        <5>4. QED
          BY <5>1, <5>2, <5>3
      <4>1. CASE k = 1
        <5>1. h[k] = chunks[k] /\ f[k] = <<>> \o chunks[k]
          <6>1. k - 1 = 0
            BY <4>1
          <6>2. f[k - 1] = <<>>
            BY <1>3, <6>1
          <6>3. h[k] = chunks[k]
            BY <2>4, <4>0, <4>1
          <6>4. QED
            BY <4>0, <6>2, <6>3
        <5>2. QED
          BY <1>1, <4>0, <5>1
      <4>2. CASE k # 1
        <5>1. h[k - 1] = f[k - 1]
          BY <1>0, <3>2, <4>2
        <5>2. QED
          BY <2>4, <4>0, <4>2, <5>1
      <4>3. QED
        BY <4>1, <4>2
    <3> HIDE DEF S, D, step
    <3>3. \A k \in 0 .. n : k \in S
      BY <1>0, <3>1, <3>2, UpTo
    <3>4. QED
      BY <3>3 DEF S
  <2>6. File!FlattenSeq(chunks) = f[n]
    <3>1. n \in 0 .. n
      BY <1>0
    <3>2. QED
      BY <1>6, <2>3, <2>5, <3>1
  <2>7. IsFlat(E, f, chunks)
    BY <1>3, <1>4, <2>6 DEF IsFlat, T
  <2>8. QED
    BY <2>7
<1>7. QED
  BY <1>5, <1>6

-----------------------------------------------------------------------------
(* Strings: the arithmetic of UTF-16 and UTF-8.                            *)

\* The bytes of a code point that takes two.
TwoBytes(c, x, y) ==
  /\ x \in Nat /\ 192 <= x /\ x <= 223 /\ y \in Nat /\ 128 <= y /\ y <= 191
  /\ x \div 32 = 6 /\ Text!OfTwo(x, y % 64) = c
\* And of three bytes.
ThreeBytes(c, x, y, z) ==
  /\ x \in Nat /\ 224 <= x /\ x <= 239 /\ y \in Nat /\ 128 <= y /\ y <= 191
  /\ z \in Nat /\ 128 <= z /\ z <= 191
  /\ x \div 32 = 7 /\ x \div 16 = 14 /\ Text!OfThree(x, y % 64, z % 64) = c
\* And of four.
FourBytes(c, w, x, y, z) ==
  /\ w \in Nat /\ 240 <= w /\ w <= 247 /\ x \in Nat /\ 128 <= x /\ x <= 191
  /\ y \in Nat /\ 128 <= y /\ y <= 191 /\ z \in Nat /\ 128 <= z /\ z <= 191
  /\ w \div 32 = 7 /\ w \div 16 = 15
  /\ Text!OfFour(w, x % 64, y % 64, z % 64) = c

\* Six bits go into a byte that continues another.
LEMMA SixBits ==
  ASSUME NEW n \in Nat, n <= 63
  PROVE  128 + n \in Nat /\ 128 <= 128 + n /\ 128 + n <= 191 /\ (128 + n) % 64 = n
  BY SMT

\* A code point up to 2047 takes two bytes.
LEMMA TwoBytesAre ==
  ASSUME NEW c \in Nat, 128 <= c, c <= 2047
  PROVE  TwoBytes(c, 192 + c \div 64, 128 + (c % 64))
<1> DEFINE q == c \div 64
           r == c % 64
<1>1. q \in Nat /\ q <= 31 /\ r \in Nat /\ r <= 63 /\ c = q * 64 + r
  BY SMT
<1> HIDE DEF q, r
<1>2. (192 + q) \div 32 = 6 /\ (192 + q) % 32 = q
  BY SMT, <1>1
<1>3. TwoBytes(c, 192 + q, 128 + r)
  BY SMT, <1>1, <1>2, SixBits DEF TwoBytes, Text!OfTwo
<1>4. QED
  BY <1>3 DEF q, r

\* A code point up to 65535 takes three bytes.
LEMMA ThreeBytesAre ==
  ASSUME NEW c \in Nat, 2048 <= c, c <= 65535
  PROVE  ThreeBytes(c, 224 + c \div 4096, 128 + ((c \div 64) % 64), 128 + (c % 64))
<1> DEFINE p == c \div 4096
           q == (c \div 64) % 64
           r == c % 64
<1>1. /\ p \in Nat /\ p <= 15 /\ q \in Nat /\ q <= 63 /\ r \in Nat /\ r <= 63
      /\ c = p * 4096 + q * 64 + r
  BY SMT
<1> HIDE DEF p, q, r
<1>2. (224 + p) \div 32 = 7 /\ (224 + p) \div 16 = 14 /\ (224 + p) % 16 = p
  BY SMT, <1>1
<1>3. ThreeBytes(c, 224 + p, 128 + q, 128 + r)
  BY SMT, <1>1, <1>2, SixBits DEF ThreeBytes, Text!OfThree
<1>4. QED
  BY <1>3 DEF p, q, r

\* A code point beyond takes four bytes.
LEMMA FourBytesAre ==
  ASSUME NEW c \in Nat, 65536 <= c, c <= 1114111
  PROVE  FourBytes(c, 240 + c \div 262144, 128 + ((c \div 4096) % 64),
                   128 + ((c \div 64) % 64), 128 + (c % 64))
<1> DEFINE o == c \div 262144
           p == (c \div 4096) % 64
           q == (c \div 64) % 64
           r == c % 64
<1>1. /\ o \in Nat /\ o <= 7 /\ p \in Nat /\ p <= 63 /\ q \in Nat /\ q <= 63
      /\ r \in Nat /\ r <= 63 /\ c = o * 262144 + p * 4096 + q * 64 + r
  BY SMT
<1> HIDE DEF o, p, q, r
<1>2. (240 + o) \div 32 = 7 /\ (240 + o) \div 16 = 15 /\ (240 + o) % 8 = o
  BY SMT, <1>1
<1>3. FourBytes(c, 240 + o, 128 + p, 128 + q, 128 + r)
  BY SMT, <1>1, <1>2, SixBits DEF FourBytes, Text!OfFour
<1>4. QED
  BY SMT, <1>3 DEF o, p, q, r

\* What the first byte says of them, and that two are of one unit.
LEMMA FirstOfTwo ==
  ASSUME NEW c, NEW x, NEW y, TwoBytes(c, x, y)
  PROVE  ~(x < 128) /\ x \div 32 = 6 /\ Text!OfTwo(x, y % 64) = c /\ c <= 2047
<1>1. ~(x < 128) /\ x \div 32 = 6 /\ Text!OfTwo(x, y % 64) = c
  BY SMT DEF TwoBytes
<1> DEFINE q == x % 32
           e == y % 64
<1>2. q * 64 + e = c
  BY SMT DEF TwoBytes, Text!OfTwo
<1>3. x \in Nat /\ 192 <= x /\ x <= 223 /\ y \in Nat
  BY SMT DEF TwoBytes
<1>4. q \in Nat /\ q <= 31 /\ e \in Nat /\ e <= 63
  BY SMT, <1>3
<1> HIDE DEF q, e
<1>5. c <= 2047
  BY SMT, <1>2, <1>4
<1>6. QED
  BY <1>1, <1>5

\* The first of three bytes says that there are three.
LEMMA FirstOfThree ==
  ASSUME NEW c, NEW x, NEW y, NEW z, ThreeBytes(c, x, y, z)
  PROVE  /\ ~(x < 128) /\ ~(x \div 32 = 6) /\ x \div 16 = 14
         /\ Text!OfThree(x, y % 64, z % 64) = c
  BY SMT DEF ThreeBytes

\* The first of four bytes says that there are four.
LEMMA FirstOfFour ==
  ASSUME NEW c, NEW w, NEW x, NEW y, NEW z, FourBytes(c, w, x, y, z)
  PROVE  /\ ~(w < 128) /\ ~(w \div 32 = 6) /\ ~(w \div 16 = 14)
         /\ Text!OfFour(w, x % 64, y % 64, z % 64) = c
  BY SMT DEF FourBytes

\* The two units of a code point beyond 16 bits.
Halves(c, a, b) ==
  /\ a \in Nat /\ 55296 <= a /\ a <= 56319 /\ b \in Nat /\ 56320 <= b /\ b <= 57343
  /\ Text!Pair(a, b) = c

\* A code point beyond 16 bits is split into a pair of surrogates.
LEMMA HalvesAre ==
  ASSUME NEW c \in Nat, 65536 <= c, c <= 1114111
  PROVE  Halves(c, 55296 + (c - 65536) \div 1024, 56320 + ((c - 65536) % 1024))
<1> DEFINE p == (c - 65536) \div 1024
           q == (c - 65536) % 1024
<1>1. p \in Nat /\ p <= 1023 /\ q \in Nat /\ q <= 1023 /\ c = 65536 + p * 1024 + q
  BY SMT
<1> HIDE DEF p, q
<1>2. (55296 + p) % 1024 = p /\ (56320 + q) % 1024 = q
  BY SMT, <1>1
<1>3. Halves(c, 55296 + p, 56320 + q)
  BY SMT, <1>1, <1>2 DEF Halves, Text!Pair
<1>4. QED
  BY SMT, <1>3 DEF p, q

\* The code point read from a surrogate and whatever is behind it.
LEMMA Paired ==
  ASSUME NEW a \in Nat, NEW b \in Nat
  PROVE  LET c == Text!Pair(a, b) IN c \in Nat /\ 65536 <= c /\ c <= 1114111
<1> DEFINE p == a % 1024
           q == b % 1024
<1>1. p \in Nat /\ p <= 1023 /\ q \in Nat /\ q <= 1023
  BY SMT
<1> HIDE DEF p, q
<1>2. LET c == 65536 + p * 1024 + q IN c \in Nat /\ 65536 <= c /\ c <= 1114111
  BY SMT, <1>1
<1>3. QED
  BY SMT, <1>2 DEF p, q, Text!Pair

\* One operator, of two instances.
LEMMA FlatSame ==
  ASSUME NEW c
  PROVE  Text!FlattenSeq(c) = File!FlattenSeq(c)
  BY DEF Text!FlattenSeq, File!FlattenSeq

\* The first null of a buffer.
LEMMA NullAt ==
  ASSUME NEW h \in Seq(Nat), NEW p \in 1 .. Len(h), h[p] = 0, \A i \in 1 .. p - 1 : h[i] # 0
  PROVE  Text!SelectInSeq(h, LAMBDA b : b = 0) = p
<1> DEFINE I == {i \in 1 .. Len(h) : h[i] = 0}
<1>1. p \in I /\ \A i \in I : p <= i
  OBVIOUS
<1>2. Text!SelectInSeq(h, LAMBDA b : b = 0) = IF I # {} THEN Text!Min(I) ELSE 0
  BY DEF Text!SelectInSeq
<1>3. Text!Min(I) = CHOOSE x \in I : \A y \in I : x <= y
  BY DEF Text!Min
<1>4. \A x \in I : (\A y \in I : x <= y) => x = p
  BY <1>1
<1> HIDE DEF I
<1>5. QED
  BY <1>1, <1>2, <1>3, <1>4

-----------------------------------------------------------------------------
(* Units, code points and bytes.                                           *)

\* Units but the null.
Unit == {u \in Nat : 1 <= u /\ u <= 65535}
\* Code points but the null.
Code == {c \in Nat : 1 <= c /\ c <= 1114111}
\* Bytes that are not null.
TextByte == {b \in Nat : 1 <= b /\ b <= 255}

\* A code point that takes two units.
Wide(c) == ~(c < 65536)

\* The units of a code point.
LEMMA UnitsOfIs ==
  ASSUME NEW c \in Code
  PROVE  /\ Text!UnitsOf(c) \in Seq(Unit)
         /\ ~Wide(c) => Text!UnitsOf(c) = <<c>> /\ c \in Unit
         /\ Wide(c) => \E a, b \in Unit : Text!UnitsOf(c) = <<a, b>> /\ Halves(c, a, b)
<1>1. CASE ~Wide(c)
  <2>1. Text!UnitsOf(c) = <<c>> /\ c \in Unit
    BY SMT, <1>1 DEF Text!UnitsOf, Unit, Code, Wide
  <2>2. <<c>> \in Seq(Unit)
    BY SMT, <2>1
  <2>3. QED
    BY Zenon, <1>1, <2>1, <2>2
<1>2. CASE Wide(c)
  <2> DEFINE a == 55296 + (c - 65536) \div 1024
             b == 56320 + ((c - 65536) % 1024)
  <2>1. Text!UnitsOf(c) = <<a, b>>
    BY SMT, <1>2 DEF Text!UnitsOf, Code, Wide
  <2>2. Halves(c, a, b)
    BY SMT, <1>2, HalvesAre DEF Code, Wide
  <2> HIDE DEF a, b
  <2>3. a \in Unit /\ b \in Unit
    BY SMT, <2>2 DEF Halves, Unit
  <2>4. <<a, b>> \in Seq(Unit)
    BY SMT, <2>3
  <2>5. QED
    BY Zenon, <1>2, <2>1, <2>2, <2>3, <2>4
<1>3. QED
  BY Zenon, <1>1, <1>2

\* The bytes of a code point, as many as UTF-8 prescribes, and the code point
\* in them.
IsBytes(c, b) ==
  \/ c <= 127 /\ b = <<c>> /\ Text!SizeOf(c) = 1
  \/ \E x, y \in TextByte : b = <<x, y>> /\ TwoBytes(c, x, y) /\ Text!SizeOf(c) = 2
  \/ \E x, y, z \in TextByte : b = <<x, y, z>> /\ ThreeBytes(c, x, y, z) /\ Text!SizeOf(c) = 3
  \/ \E w, x, y, z \in TextByte :
        b = <<w, x, y, z>> /\ FourBytes(c, w, x, y, z) /\ Text!SizeOf(c) = 4

\* The bytes that stringToUTF8Array stores for a code point.
LEMMA BytesOfCode ==
  ASSUME NEW c \in Code
  PROVE  IsBytes(c, Text!Bytes(c))
<1>1. CASE c <= 127
  BY SMT, <1>1 DEF Text!Bytes, Text!SizeOf, Code, IsBytes
<1>2. CASE 128 <= c /\ c <= 2047
  <2> DEFINE x == 192 + c \div 64
             y == 128 + (c % 64)
  <2>1. Text!Bytes(c) = <<x, y>> /\ Text!SizeOf(c) = 2
    BY SMT, <1>2 DEF Text!Bytes, Text!SizeOf, Code
  <2>2. TwoBytes(c, x, y)
    BY SMT, <1>2, TwoBytesAre DEF Code
  <2> HIDE DEF x, y
  <2>3. x \in TextByte /\ y \in TextByte
    BY SMT, <2>2 DEF TwoBytes, TextByte
  <2>4. QED
    BY Zenon, <2>1, <2>2, <2>3 DEF IsBytes
<1>3. CASE 2048 <= c /\ c <= 65535
  <2> DEFINE x == 224 + c \div 4096
             y == 128 + ((c \div 64) % 64)
             z == 128 + (c % 64)
  <2>1. Text!Bytes(c) = <<x, y, z>> /\ Text!SizeOf(c) = 3
    BY SMT, <1>3 DEF Text!Bytes, Text!SizeOf, Code
  <2>2. ThreeBytes(c, x, y, z)
    BY SMT, <1>3, ThreeBytesAre DEF Code
  <2> HIDE DEF x, y, z
  <2>3. x \in TextByte /\ y \in TextByte /\ z \in TextByte
    BY SMT, <2>2 DEF ThreeBytes, TextByte
  <2>4. QED
    BY Zenon, <2>1, <2>2, <2>3 DEF IsBytes
<1>4. CASE 65536 <= c
  <2> DEFINE w == 240 + c \div 262144
             x == 128 + ((c \div 4096) % 64)
             y == 128 + ((c \div 64) % 64)
             z == 128 + (c % 64)
  <2>1. Text!Bytes(c) = <<w, x, y, z>> /\ Text!SizeOf(c) = 4
    BY SMT, <1>4 DEF Text!Bytes, Text!SizeOf, Code
  <2>2. FourBytes(c, w, x, y, z)
    BY SMT, <1>4, FourBytesAre DEF Code
  <2> HIDE DEF w, x, y, z
  <2>3. w \in TextByte /\ x \in TextByte /\ y \in TextByte /\ z \in TextByte
    BY SMT, <2>2 DEF FourBytes, TextByte
  <2>4. QED
    BY Zenon, <2>1, <2>2, <2>3 DEF IsBytes
<1>5. QED
  BY SMT, <1>1, <1>2, <1>3, <1>4 DEF Code

\* The bytes are not null, and there is one at least.
LEMMA BytesTyped ==
  ASSUME NEW c \in Code
  PROVE  LET b == Text!Bytes(c)
         IN b \in Seq(TextByte) /\ Len(b) = Text!SizeOf(c) /\ 1 <= Len(b) /\ Len(b) <= 4
<1> DEFINE b == Text!Bytes(c)
<1>1. IsBytes(c, b)
  BY BytesOfCode
<1> HIDE DEF b
<1>2. CASE c <= 127 /\ b = <<c>> /\ Text!SizeOf(c) = 1
  <2>1. c \in TextByte
    BY SMT, <1>2 DEF Code, TextByte
  <2>2. QED
    BY SMT, <1>2, <2>1 DEF b
<1>3. CASE \E x, y \in TextByte : b = <<x, y>> /\ TwoBytes(c, x, y) /\ Text!SizeOf(c) = 2
  <2>1. PICK x, y \in TextByte : b = <<x, y>> /\ Text!SizeOf(c) = 2
    BY Zenon, <1>3
  <2>2. QED
    BY SMT, <2>1 DEF b
<1>4. CASE \E x, y, z \in TextByte :
             b = <<x, y, z>> /\ ThreeBytes(c, x, y, z) /\ Text!SizeOf(c) = 3
  <2>1. PICK x, y, z \in TextByte : b = <<x, y, z>> /\ Text!SizeOf(c) = 3
    BY Zenon, <1>4
  <2>2. QED
    BY SMT, <2>1 DEF b
<1>5. CASE \E w, x, y, z \in TextByte :
             b = <<w, x, y, z>> /\ FourBytes(c, w, x, y, z) /\ Text!SizeOf(c) = 4
  <2>1. PICK w, x, y, z \in TextByte : b = <<w, x, y, z>> /\ Text!SizeOf(c) = 4
    BY Zenon, <1>5
  <2>2. QED
    BY SMT, <2>1 DEF b
<1>6. QED
  BY Zenon, <1>1, <1>2, <1>3, <1>4, <1>5 DEF IsBytes, b

\* charCodeAt and what is made of it, which takes the bytes that its unit
\* counts for.
LEMMA CodePointIs ==
  ASSUME NEW s \in Seq(Unit), NEW i \in 1 .. Len(s)
  PROVE  /\ Text!CodePoint(s, i) \in Code
         /\ Text!SizeOf(Text!CodePoint(s, i)) = Text!SizeOfUnit(s[i])
<1>1. s[i] \in Unit /\ (i < Len(s) => s[i + 1] \in Unit)
  BY SMT
<1> DEFINE a == s[i]
           b == IF i < Len(s) THEN s[i + 1] ELSE 0
           c == Text!CodePoint(s, i)
<1>2. c = IF ~Text!IsSurrogate(a) THEN a ELSE Text!Pair(a, b)
  BY Zenon DEF Text!CodePoint
<1>3. a \in Unit /\ b \in Nat
  BY SMT, <1>1 DEF Unit
<1> HIDE DEF a, b, c
<1>4. CASE ~Text!IsSurrogate(a)
  <2>1. c = a
    BY Zenon, <1>2, <1>4
  <2>2. c \in Code /\ Text!SizeOf(c) = Text!SizeOfUnit(a)
    BY SMT, <1>3, <1>4, <2>1 DEF Unit, Code, Text!SizeOf, Text!SizeOfUnit
  <2>3. QED
    BY Zenon, <2>2 DEF a, c
<1>5. CASE Text!IsSurrogate(a)
  <2>0. a \in Nat
    BY SMT, <1>3 DEF Unit
  <2>1. c = Text!Pair(a, b)
    BY Zenon, <1>2, <1>5
  <2>2. c \in Nat /\ 65536 <= c /\ c <= 1114111
    BY SMT, <1>3, <2>0, <2>1, Paired
  <2>3. c \in Code /\ Text!SizeOf(c) = 4
    BY SMT, <2>2 DEF Code, Text!SizeOf
  <2>4. Text!SizeOfUnit(a) = 4
    BY SMT, <1>5, <2>0 DEF Text!SizeOfUnit, Text!IsSurrogate
  <2>5. QED
    BY Zenon, <2>3, <2>4 DEF a, c
<1>6. QED
  BY Zenon, <1>4, <1>5

-----------------------------------------------------------------------------
(* The loops of lengthBytesUTF8 and stringToUTF8Array, of any units.       *)

\* What the loop of lengthBytesUTF8 keeps.
Measures == [i : Nat \ {0}, len : Nat]
\* What the loop of stringToUTF8Array keeps.
Writing == [i : Nat \ {0}, bytes : Seq(TextByte)]

\* The place of the next code point is a place.
LEMMA NextUnitIs ==
  ASSUME NEW s, NEW i \in Nat \ {0}
  PROVE  Text!NextUnit(s, i) \in Nat \ {0}
  BY DEF Text!NextUnit

\* A turn of lengthBytesUTF8 adds the size of the code point it is at.
LEMMA CountUnitIs ==
  ASSUME NEW s \in Seq(Unit), NEW t \in Measures
  PROVE  LET c == Text!countUnit(s, t)
         IN /\ c \in Measures /\ t.len <= c.len
            /\ t.i > Len(s) => c = t
            /\ ~(t.i > Len(s)) =>
                 /\ c.i = Text!NextUnit(s, t.i)
                 /\ c.len = t.len + Len(Text!Bytes(Text!CodePoint(s, t.i)))
<1> DEFINE c == Text!countUnit(s, t)
<1>0. t.i \in Nat \ {0} /\ t.len \in Nat /\ Len(s) \in Nat
  BY DEF Measures
<1>1. CASE t.i > Len(s)
  <2>1. c = t
    BY <1>1 DEF Text!countUnit
  <2>2. QED
    BY SMT, <1>0, <1>1, <2>1
<1>2. CASE ~(t.i > Len(s))
  <2> DEFINE l == Len(Text!Bytes(Text!CodePoint(s, t.i)))
             j == Text!NextUnit(s, t.i)
             u == Text!SizeOfUnit(s[t.i])
  <2>1. t.i \in 1 .. Len(s)
    BY SMT, <1>0, <1>2
  <2>2. l = u /\ 1 <= l /\ l <= 4 /\ l \in Nat
    <3>1. Text!CodePoint(s, t.i) \in Code /\ Text!SizeOf(Text!CodePoint(s, t.i)) = u
      BY <2>1, CodePointIs
    <3>2. Text!Bytes(Text!CodePoint(s, t.i)) \in Seq(TextByte)
      BY Zenon, <3>1, BytesTyped
    <3>3. l \in Nat
      BY <3>2
    <3> HIDE DEF u
    <3>4. QED
      BY Zenon, <3>1, <3>3, BytesTyped
  <2>3. c = [i |-> j, len |-> t.len + u]
    BY <1>2 DEF Text!countUnit
  <2>4. j \in Nat \ {0}
    BY <1>0, NextUnitIs
  <2> HIDE DEF l, j, u, c
  <2>5. c \in Measures /\ t.len <= c.len /\ c.i = j /\ c.len = t.len + l
    BY SMT, <1>0, <2>2, <2>3, <2>4 DEF Measures
  <2>6. QED
    BY Zenon, <1>2, <2>5 DEF c, j, l
<1>3. QED
  BY <1>1, <1>2

\* A turn of stringToUTF8Array adds the bytes of the code point it is at, if
\* there is room for them, and is the last turn if there is none.
LEMMA WriteUnitIs ==
  ASSUME NEW s \in Seq(Unit), NEW n \in Nat, NEW t \in Writing, Len(t.bytes) <= n
  PROVE  LET w == Text!writeUnit(s, n, t)
             b == Text!Bytes(Text!CodePoint(s, t.i))
         IN /\ w \in Writing /\ Len(w.bytes) <= n
            /\ t.i > Len(s) => w = t
            /\ ~(t.i > Len(s)) /\ Len(t.bytes) + Len(b) <= n =>
                 /\ w.i = Text!NextUnit(s, t.i) /\ w.bytes = t.bytes \o b
                 /\ Len(w.bytes) = Len(t.bytes) + Len(b)
            /\ ~(t.i > Len(s)) /\ Len(t.bytes) + Len(b) > n =>
                 w.i = Len(s) + 1 /\ w.bytes = t.bytes
<1> DEFINE b == Text!Bytes(Text!CodePoint(s, t.i))
           w == Text!writeUnit(s, n, t)
           j == Text!NextUnit(s, t.i)
<1>1. t.i \in Nat \ {0} /\ t.bytes \in Seq(TextByte) /\ Len(t.bytes) \in Nat /\ Len(s) \in Nat
  BY DEF Writing
<1>2. w = IF t.i > Len(s) THEN t
          ELSE IF Len(t.bytes) + Len(b) > n THEN [t EXCEPT !.i = Len(s) + 1]
          ELSE [i |-> j, bytes |-> t.bytes \o b]
  BY DEF Text!writeUnit
<1>3. ASSUME ~(t.i > Len(s)) PROVE b \in Seq(TextByte) /\ Len(b) \in Nat
  <2>1. t.i \in 1 .. Len(s)
    BY SMT, <1>1, <1>3
  <2>2. Text!CodePoint(s, t.i) \in Code
    BY <2>1, CodePointIs
  <2>3. b \in Seq(TextByte)
    BY Zenon, <2>2, BytesTyped
  <2>4. QED
    BY <2>3
<1>4. j \in Nat \ {0}
  BY <1>1, NextUnitIs
<1> HIDE DEF b, w, j
<1>5. CASE t.i > Len(s)
  <2>1. w = t
    BY <1>2, <1>5
  <2>2. QED
    BY <1>5, <2>1 DEF b, w
<1>6. CASE ~(t.i > Len(s)) /\ Len(t.bytes) + Len(b) > n
  <2>1. w = [t EXCEPT !.i = Len(s) + 1]
    BY <1>2, <1>6
  <2>2. w \in Writing /\ w.bytes = t.bytes /\ w.i = Len(s) + 1
    BY SMT, <1>1, <2>1 DEF Writing
  <2>3. ~(Len(t.bytes) + Len(b) <= n)
    BY SMT, <1>1, <1>3, <1>6
  <2>4. QED
    BY Zenon, <1>6, <2>2, <2>3 DEF b, w
<1>7. CASE ~(t.i > Len(s)) /\ ~(Len(t.bytes) + Len(b) > n)
  <2>1. w = [i |-> j, bytes |-> t.bytes \o b] /\ b \in Seq(TextByte)
    BY <1>2, <1>3, <1>7
  <2>2. t.bytes \o b \in Seq(TextByte) /\ Len(t.bytes \o b) = Len(t.bytes) + Len(b)
    BY SMT, <1>1, <2>1
  <2>3. w \in Writing /\ w.i = j /\ w.bytes = t.bytes \o b /\ Len(w.bytes) = Len(t.bytes) + Len(b)
    <3> DEFINE x == t.bytes \o b
    <3>1. x \in Seq(TextByte) /\ w = [i |-> j, bytes |-> x] /\ Len(x) = Len(t.bytes) + Len(b)
      BY <2>1, <2>2
    <3> HIDE DEF x
    <3>2. w \in Writing /\ w.i = j /\ w.bytes = x
      BY <1>4, <3>1 DEF Writing
    <3>3. QED
      BY <3>1, <3>2 DEF x
  <2>4. Len(w.bytes) <= n
    BY SMT, <1>1, <1>3, <1>7, <2>3
  <2>5. QED
    BY Zenon, <1>7, <2>3, <2>4 DEF b, w, j
<1>8. QED
  BY Zenon, <1>5, <1>6, <1>7

\* The turns of lengthBytesUTF8.
IsCount(turn, s) ==
  /\ turn \in [0 .. Len(s) -> Measures] /\ turn[0] = [i |-> 1, len |-> 0]
  /\ \A k \in 1 .. Len(s) : turn[k] = Text!countUnit(s, turn[k - 1])
  /\ Text!lengthBytesUTF8(s) = turn[Len(s)].len

\* lengthBytesUTF8 takes a turn for each unit, at most.
LEMMA CountSteps ==
  ASSUME NEW s \in Seq(Unit)
  PROVE  \E turn : IsCount(turn, s)
<1> DEFINE n == Len(s)
           D == 0 .. n
           T == Measures
           a == [i |-> 1, len |-> 0]
           step == [k \in 1 .. n |-> [t \in T |-> Text!countUnit(s, t)]]
           Solves(g) == g = [k \in D |-> IF k = 0 THEN a ELSE Text!countUnit(s, g[k - 1])]
<1>0. n \in Nat
  OBVIOUS
<1>1. a \in T
  BY DEF Measures
<1> HIDE DEF T, n, a
<1>2. \A t \in T : Text!countUnit(s, t) \in T
  BY CountUnitIs DEF T
<1>3. PICK g \in [D -> T] : g[0] = a /\ \A k \in 1 .. n : g[k] = step[k][g[k - 1]]
  <2> HIDE DEF Solves
  <2>1. step \in [1 .. n -> [T -> T]]
    BY <1>2
  <2> HIDE DEF step
  <2>2. Stepwise(T, n, a, step)
    BY <1>0, <1>1, <2>1 DEF Stepwise
  <2>3. QED
    BY <2>2, StepByStep
<1>4. \A k \in D : g[k] = IF k = 0 THEN a ELSE Text!countUnit(s, g[k - 1])
  <2>1. \A k \in 1 .. n : g[k - 1] \in T
    BY <1>0, <1>3
  <2>2. ASSUME NEW k \in 1 .. n PROVE g[k] = Text!countUnit(s, g[k - 1])
    <3>1. step[k][g[k - 1]] = Text!countUnit(s, g[k - 1])
      BY <2>1
    <3> HIDE DEF step
    <3>2. QED
      BY <1>3, <3>1
  <2>3. \A k \in D : k = 0 \/ k \in 1 .. n
    BY <1>0
  <2>4. QED
    BY <1>3, <2>2, <2>3
<1>5. Solves(g)
  BY <1>3, <1>4
<1> DEFINE turn == CHOOSE f : Solves(f)
<1>6. Solves(turn)
  <2> HIDE DEF Solves
  <2>1. QED
    BY <1>5
<1>7. Text!lengthBytesUTF8(s) = turn[n].len
  BY DEF Text!lengthBytesUTF8, a, n
<1>8. /\ turn = [k \in D |-> turn[k]] /\ turn[0] = a
      /\ \A k \in 1 .. n : turn[k] = Text!countUnit(s, turn[k - 1])
  <2> HIDE DEF turn
  <2>1. turn = [k \in D |-> IF k = 0 THEN a ELSE Text!countUnit(s, turn[k - 1])]
    BY <1>6
  <2> HIDE DEF Solves, step
  <2>2. DOMAIN turn = D /\ 0 \in D /\ \A k \in 1 .. n : k \in D /\ k # 0
    BY <1>0, <2>1
  <2>3. turn = [k \in D |-> turn[k]]
    BY <2>1
  <2>4. QED
    BY <2>1, <2>2, <2>3
<1> HIDE DEF turn
<1>9. \A k \in 0 .. n : turn[k] \in T
  <2> HIDE DEF Solves, step
  <2>1. turn[0] \in T /\ \A k \in 1 .. n : turn[k - 1] \in T => turn[k] \in T
    BY <1>1, <1>2, <1>8
  <2>2. QED
    BY <1>0, <2>1, EveryStep
<1>10. turn \in [0 .. n -> T]
  BY <1>8, <1>9
<1>11. IsCount(turn, s)
  BY <1>7, <1>8, <1>10 DEF IsCount, T, a, n
<1>12. QED
  BY <1>11

\* The turns of stringToUTF8Array into a buffer of n bytes.
IsEncoding(turn, s, n) ==
  /\ turn \in [0 .. Len(s) -> {t \in Writing : Len(t.bytes) <= n - 1}]
  /\ turn[0] = [i |-> 1, bytes |-> <<>>]
  /\ \A k \in 1 .. Len(s) : turn[k] = Text!writeUnit(s, n - 1, turn[k - 1])
  /\ Text!Encoded(s, n) = turn[Len(s)].bytes

\* stringToUTF8Array takes a turn for each unit, at most.
LEMMA EncodingSteps ==
  ASSUME NEW s \in Seq(Unit), NEW size \in Nat \ {0}
  PROVE  \E turn : IsEncoding(turn, s, size)
<1> DEFINE n == Len(s)
           D == 0 .. n
           T == {t \in Writing : Len(t.bytes) <= size - 1}
           a == [i |-> 1, bytes |-> <<>>]
           Turn(t) == Text!writeUnit(s, size - 1, t)
           step == [k \in 1 .. n |-> [t \in T |-> Turn(t)]]
           Solves(g) == g = [k \in D |-> IF k = 0 THEN a ELSE Turn(g[k - 1])]
<1>0. n \in Nat /\ size - 1 \in Nat
  OBVIOUS
<1>1. a \in T
  <2>1. <<>> \in Seq(TextByte) /\ Len(<<>>) = 0
    OBVIOUS
  <2>2. a \in Writing /\ a.bytes = <<>>
    BY <2>1 DEF Writing
  <2> HIDE DEF a
  <2>3. QED
    BY <1>0, <2>1, <2>2
<1>2. \A t \in T : Turn(t) \in T
  <2>1. SUFFICES ASSUME NEW t \in Writing, Len(t.bytes) <= size - 1
                 PROVE  Turn(t) \in Writing /\ Len(Turn(t).bytes) <= size - 1
    OBVIOUS
  <2>2. QED
    BY <1>0, <2>1, WriteUnitIs
<1> HIDE DEF T, n, a, Turn
<1>3. PICK g \in [D -> T] : g[0] = a /\ \A k \in 1 .. n : g[k] = step[k][g[k - 1]]
  <2> HIDE DEF Solves
  <2>1. step \in [1 .. n -> [T -> T]]
    BY <1>2
  <2> HIDE DEF step
  <2>2. Stepwise(T, n, a, step)
    BY <1>0, <1>1, <2>1 DEF Stepwise
  <2>3. QED
    BY <2>2, StepByStep
<1>4. \A k \in D : g[k] = IF k = 0 THEN a ELSE Turn(g[k - 1])
  <2>1. \A k \in 1 .. n : g[k - 1] \in T
    BY <1>0, <1>3
  <2>2. ASSUME NEW k \in 1 .. n PROVE g[k] = Turn(g[k - 1])
    <3>1. step[k][g[k - 1]] = Turn(g[k - 1])
      BY <2>1
    <3> HIDE DEF step
    <3>2. QED
      BY <1>3, <3>1
  <2>3. \A k \in D : k = 0 \/ k \in 1 .. n
    BY <1>0
  <2>4. QED
    BY <1>3, <2>2, <2>3
<1>5. Solves(g)
  BY <1>3, <1>4
<1> DEFINE turn == CHOOSE f : Solves(f)
<1>6. Solves(turn)
  <2> HIDE DEF Solves
  <2>1. QED
    BY <1>5
<1>7. Text!Encoded(s, size) = turn[n].bytes
  BY DEF Text!Encoded, Text!RoomForBytes, a, n, Turn
<1>8. /\ turn = [k \in D |-> turn[k]] /\ turn[0] = a
      /\ \A k \in 1 .. n : turn[k] = Turn(turn[k - 1])
  <2> HIDE DEF turn
  <2>1. turn = [k \in D |-> IF k = 0 THEN a ELSE Turn(turn[k - 1])]
    BY <1>6
  <2> HIDE DEF Solves, step
  <2>2. DOMAIN turn = D /\ 0 \in D /\ \A k \in 1 .. n : k \in D /\ k # 0
    BY <1>0, <2>1
  <2>3. turn = [k \in D |-> turn[k]]
    BY <2>1
  <2>4. QED
    BY <2>1, <2>2, <2>3
<1> HIDE DEF turn
<1>9. \A k \in 0 .. n : turn[k] \in T
  <2> HIDE DEF Solves, step
  <2>1. turn[0] \in T /\ \A k \in 1 .. n : turn[k - 1] \in T => turn[k] \in T
    BY <1>1, <1>2, <1>8
  <2>2. QED
    BY <1>0, <2>1, EveryStep
<1>10. turn \in [0 .. n -> T]
  BY <1>8, <1>9
<1>11. IsEncoding(turn, s, size)
  BY <1>7, <1>8, <1>10 DEF IsEncoding, T, a, n, Turn
<1>12. QED
  BY <1>11

\* stringToUTF8Array leaves a place for the null.
LEMMA EncodedFits ==
  ASSUME NEW s \in Seq(Unit), NEW n \in Nat \ {0}
  PROVE  Text!Encoded(s, n) \in Seq(TextByte) /\ Len(Text!Encoded(s, n)) <= n - 1
<1>1. PICK turn : IsEncoding(turn, s, n)
  BY EncodingSteps
<1>2. Len(s) \in 0 .. Len(s)
  OBVIOUS
<1>3. turn[Len(s)] \in Writing /\ Len(turn[Len(s)].bytes) <= n - 1
  BY <1>1, <1>2 DEF IsEncoding
<1>4. QED
  BY <1>1, <1>3 DEF IsEncoding, Writing

\* lengthBytesUTF8 gives a number.
LEMMA LengthIsNat ==
  ASSUME NEW s \in Seq(Unit)
  PROVE  Text!lengthBytesUTF8(s) \in Nat
<1>1. PICK turn : IsCount(turn, s)
  BY CountSteps
<1>2. Len(s) \in 0 .. Len(s)
  OBVIOUS
<1>3. QED
  BY <1>1, <1>2 DEF IsCount, Measures

\* The count never shrinks.
LEMMA CountGrows ==
  ASSUME NEW s \in Seq(Unit), NEW turn, IsCount(turn, s)
  PROVE  \A k \in 0 .. Len(s) : turn[k].len <= Text!lengthBytesUTF8(s)
<1> DEFINE n == Len(s)
           S == {j \in 0 .. n : turn[n - j].len <= turn[n].len}
<1>0. n \in Nat
  OBVIOUS
<1>1. /\ \A k \in 0 .. n : turn[k] \in Measures
      /\ \A k \in 1 .. n : turn[k] = Text!countUnit(s, turn[k - 1])
      /\ Text!lengthBytesUTF8(s) = turn[n].len
  BY DEF IsCount
<1> HIDE DEF n
<1>2. \A k \in 0 .. n : turn[k].len \in Nat
  BY <1>1 DEF Measures
<1>3. \A k \in 1 .. n : turn[k - 1].len <= turn[k].len
  <2>1. ASSUME NEW k \in 1 .. n PROVE turn[k - 1].len <= turn[k].len
    <3>1. k - 1 \in 0 .. n
      BY <1>0
    <3>2. turn[k - 1] \in Measures
      BY <1>1, <3>1
    <3>3. QED
      BY <1>1, <3>2, CountUnitIs
  <2>2. QED
    BY <2>1
<1>4. 0 \in S
  <2>1. n - 0 = n /\ n \in 0 .. n /\ 0 \in 0 .. n
    BY <1>0
  <2>2. turn[n].len <= turn[n].len
    BY <1>2, <2>1
  <2>3. QED
    BY <2>1, <2>2
<1>5. \A j \in 1 .. n : j - 1 \in S => j \in S
  <2>1. ASSUME NEW j \in 1 .. n, j - 1 \in S PROVE j \in S
    <3>1. n - (j - 1) \in 1 .. n /\ (n - (j - 1)) - 1 = n - j /\ n - j \in 0 .. n /\ j \in 0 .. n
      BY <1>0
    <3>2. turn[n - j].len <= turn[n - (j - 1)].len
      BY <1>3, <3>1
    <3>3. turn[n - (j - 1)].len <= turn[n].len
      BY <2>1
    <3>4. /\ turn[n - j].len \in Nat /\ turn[n - (j - 1)].len \in Nat /\ turn[n].len \in Nat
      BY <1>0, <1>2, <3>1
    <3>5. turn[n - j].len <= turn[n].len
      BY <3>2, <3>3, <3>4
    <3>6. QED
      BY <3>1, <3>5
  <2>2. QED
    BY <2>1
<1> HIDE DEF S
<1>6. \A j \in 0 .. n : j \in S
  BY <1>0, <1>4, <1>5, UpTo
<1>7. ASSUME NEW k \in 0 .. n PROVE turn[k].len <= turn[n].len
  <2>1. n - k \in 0 .. n /\ n - (n - k) = k
    BY <1>0
  <2>2. n - k \in S
    BY <1>6, <2>1
  <2>3. QED
    BY <2>1, <2>2 DEF S
<1>8. QED
  BY <1>1, <1>7 DEF n

\* Where the text fits, it is stored in the bytes that were counted.
LEMMA EncodedWhole ==
  ASSUME NEW s \in Seq(Unit), NEW n \in Nat \ {0}, Text!lengthBytesUTF8(s) <= n - 1
  PROVE  Len(Text!Encoded(s, n)) = Text!lengthBytesUTF8(s)
<1> DEFINE size == Len(s)
<1>0. size \in Nat /\ n - 1 \in Nat /\ size \in 0 .. size
  OBVIOUS
<1>1. PICK c : IsCount(c, s)
  BY CountSteps
<1>2. PICK w : IsEncoding(w, s, n)
  BY EncodingSteps
<1>3. /\ \A k \in 0 .. size : c[k] \in Measures
      /\ c[0] = [i |-> 1, len |-> 0]
      /\ \A k \in 1 .. size : c[k] = Text!countUnit(s, c[k - 1])
      /\ Text!lengthBytesUTF8(s) = c[size].len
  BY <1>1 DEF IsCount
<1>4. /\ \A k \in 0 .. size : w[k] \in Writing /\ Len(w[k].bytes) <= n - 1
      /\ w[0] = [i |-> 1, bytes |-> <<>>]
      /\ \A k \in 1 .. size : w[k] = Text!writeUnit(s, n - 1, w[k - 1])
      /\ Text!Encoded(s, n) = w[size].bytes
  BY <1>2 DEF IsEncoding
<1>5. \A k \in 0 .. size : c[k].len <= n - 1
  <2>1. \A k \in 0 .. size : c[k].len <= c[size].len
    BY <1>1, <1>3, CountGrows
  <2>2. \A k \in 0 .. size : c[k].len \in Nat
    BY <1>3 DEF Measures
  <2> HIDE DEF size
  <2>3. QED
    BY <1>0, <1>3, <2>1, <2>2
<1> DEFINE S == {k \in 0 .. size : w[k].i = c[k].i /\ Len(w[k].bytes) = c[k].len}
<1>6. 0 \in S
  <2>1. w[0].i = 1 /\ w[0].bytes = <<>> /\ c[0].i = 1 /\ c[0].len = 0 /\ Len(<<>>) = 0
    BY <1>3, <1>4
  <2>2. QED
    BY <1>0, <2>1
<1>7. \A k \in 1 .. size : k - 1 \in S => k \in S
  <2>1. ASSUME NEW k \in 1 .. size, k - 1 \in S PROVE k \in S
    <3> DEFINE t == w[k - 1]
               d == c[k - 1]
               l == Len(Text!Bytes(Text!CodePoint(s, t.i)))
    <3>1. k - 1 \in 0 .. size /\ k \in 0 .. size
      BY <1>0
    <3>2. t \in Writing /\ Len(t.bytes) <= n - 1 /\ d \in Measures
      BY <1>3, <1>4, <3>1
    <3>3. t.i = d.i /\ Len(t.bytes) = d.len
      BY <2>1
    <3>4. w[k] = Text!writeUnit(s, n - 1, t) /\ c[k] = Text!countUnit(s, d) /\ c[k].len <= n - 1
      BY <1>3, <1>4, <1>5, <3>1
    <3> HIDE DEF t, d, size
    <3>5. CASE t.i > Len(s)
      <4>1. w[k] = t
        BY <1>0, <3>2, <3>4, <3>5, WriteUnitIs
      <4>2. c[k] = d
        BY <3>2, <3>3, <3>4, <3>5, CountUnitIs
      <4>3. QED
        BY <3>1, <3>3, <4>1, <4>2
    <3>6. CASE ~(t.i > Len(s))
      <4>1. c[k].i = Text!NextUnit(s, t.i) /\ c[k].len = d.len + l
        BY <3>2, <3>3, <3>4, <3>6, CountUnitIs
      <4>2. Len(t.bytes) + l <= n - 1
        BY <3>3, <3>4, <4>1
      <4>3. w[k].i = Text!NextUnit(s, t.i) /\ Len(w[k].bytes) = Len(t.bytes) + l
        <5> DEFINE most == n - 1
        <5>1. most \in Nat /\ Len(t.bytes) <= most /\ Len(t.bytes) + l <= most
          BY <1>0, <3>2, <4>2
        <5>2. w[k] = Text!writeUnit(s, most, t)
          BY <3>4
        <5> HIDE DEF most
        <5> DEFINE v == Text!writeUnit(s, most, t)
        <5>3. v.i = Text!NextUnit(s, t.i) /\ Len(v.bytes) = Len(t.bytes) + l
          BY Zenon, <3>2, <3>6, <5>1, WriteUnitIs
        <5>4. QED
          BY Zenon, <5>2, <5>3
      <4>4. QED
        BY <3>1, <3>3, <4>1, <4>3
    <3>7. QED
      BY <3>5, <3>6
  <2>2. QED
    BY <2>1
<1> HIDE DEF S
<1>8. \A k \in 0 .. size : k \in S
  <2> HIDE DEF size
  <2>1. QED
    BY <1>0, <1>6, <1>7, UpTo
<1>9. size \in S
  BY <1>0, <1>8
<1>10. QED
  BY <1>3, <1>4, <1>9 DEF S

-----------------------------------------------------------------------------
(* The units of a text.                                                    *)

\* The units of each code point.
Chunks(t) == [i \in DOMAIN t |-> Text!UnitsOf(t[i])]

\* The units of a text are those of its code points, one after the other.
LEMMA UnitsSteps ==
  ASSUME NEW t \in Seq(Code)
  PROVE  /\ Chunks(t) \in Seq(Seq(Unit)) /\ Len(Chunks(t)) = Len(t)
         /\ \A k \in 1 .. Len(t) : Chunks(t)[k] = Text!UnitsOf(t[k])
         /\ \E flat : IsFlat(Unit, flat, Chunks(t)) /\ Text!Units(t) = flat[Len(t)]
<1>1. DOMAIN t = 1 .. Len(t) /\ Len(t) \in Nat
  OBVIOUS
<1>2. \A i \in 1 .. Len(t) : Text!UnitsOf(t[i]) \in Seq(Unit)
  <2>1. ASSUME NEW i \in 1 .. Len(t) PROVE Text!UnitsOf(t[i]) \in Seq(Unit)
    <3>1. t[i] \in Code
      OBVIOUS
    <3>2. QED
      BY <3>1, UnitsOfIs
  <2>2. QED
    BY <2>1
<1>3. Chunks(t) = [i \in 1 .. Len(t) |-> Text!UnitsOf(t[i])]
  BY <1>1 DEF Chunks
<1>4. Chunks(t) \in [1 .. Len(t) -> Seq(Unit)]
  BY <1>2, <1>3
<1>5. Chunks(t) \in Seq(Seq(Unit)) /\ Len(Chunks(t)) = Len(t)
  BY <1>1, <1>4
<1>6. PICK flat : IsFlat(Unit, flat, Chunks(t))
  BY <1>5, FlatSteps
<1>7. Text!Units(t) = flat[Len(t)]
  <2>1. Text!Units(t) = Text!FlattenSeq(Chunks(t))
    BY DEF Text!Units, Chunks
  <2>2. Text!Units(t) = File!FlattenSeq(Chunks(t))
    BY <2>1, FlatSame
  <2>3. QED
    BY <1>5, <1>6, <2>2 DEF IsFlat
<1>8. QED
  BY <1>3, <1>5, <1>6, <1>7

\* The units of the first k scalars of t, for each k, and what they begin.
IsUnits(flat, t) ==
  /\ flat \in [0 .. Len(t) -> Seq(Unit)] /\ flat[0] = <<>>
  /\ \A k \in 1 .. Len(t) : flat[k] = flat[k - 1] \o Text!UnitsOf(t[k])
  /\ Text!Units(t) = flat[Len(t)]

\* There are beginnings of the units, one for each beginning of the text.
LEMMA UnitsInSteps ==
  ASSUME NEW t \in Seq(Code)
  PROVE  \E flat : IsUnits(flat, t)
<1>1. /\ Len(Chunks(t)) = Len(t)
      /\ \A k \in 1 .. Len(t) : Chunks(t)[k] = Text!UnitsOf(t[k])
  BY UnitsSteps
<1>2. PICK flat : IsFlat(Unit, flat, Chunks(t)) /\ Text!Units(t) = flat[Len(t)]
  BY UnitsSteps
<1>3. IsUnits(flat, t)
  BY <1>1, <1>2 DEF IsFlat, IsUnits
<1>4. QED
  BY <1>3

\* Each sequence is the one before it, and more.
AddedUp(E, n, f, x) ==
  /\ n \in Nat /\ f \in [0 .. n -> Seq(E)]
  /\ \A k \in 1 .. n : x[k] \in Seq(E) /\ f[k] = f[k - 1] \o x[k]

\* What adds up begins with all that it adds up from.
LEMMA Beginnings ==
  ASSUME NEW E, NEW n, NEW f, NEW x, AddedUp(E, n, f, x)
  PROVE  \A k \in 0 .. n :
           Len(f[k]) <= Len(f[n]) /\ \A i \in 1 .. Len(f[k]) : f[n][i] = f[k][i]
<1> DEFINE s == f[n]
           Begins(g) == Len(g) <= Len(s) /\ \A i \in 1 .. Len(g) : s[i] = g[i]
           S == {j \in 0 .. n : Begins(f[n - j])}
<1>0. /\ n \in Nat /\ f \in [0 .. n -> Seq(E)]
      /\ \A k \in 1 .. n : x[k] \in Seq(E) /\ f[k] = f[k - 1] \o x[k]
  BY DEF AddedUp
<1>1. n \in 0 .. n /\ s \in Seq(E)
  BY <1>0
<1> HIDE DEF s
<1>2. 0 \in S
  <2>1. n - 0 = n /\ 0 \in 0 .. n
    BY <1>0
  <2>2. Begins(s)
    BY <1>1
  <2> HIDE DEF Begins
  <2>3. QED
    BY <2>1, <2>2 DEF s
<1>3. \A j \in 1 .. n : j - 1 \in S => j \in S
  <2>1. ASSUME NEW j \in 1 .. n, j - 1 \in S PROVE j \in S
    <3> DEFINE k == n - (j - 1)
               g == f[k - 1]
               u == x[k]
    <3>1. k \in 1 .. n /\ k - 1 = n - j /\ k - 1 \in 0 .. n /\ j \in 0 .. n
      BY <1>0
    <3>2. f[k] = g \o u /\ g \in Seq(E) /\ u \in Seq(E)
      BY <1>0, <3>1
    <3>3. Begins(g \o u)
      BY <2>1, <3>2
    <3> HIDE DEF g, u, k
    <3>4. Begins(g)
      <4>1. Len(g \o u) = Len(g) + Len(u) /\ \A i \in 1 .. Len(g) : (g \o u)[i] = g[i]
        BY <3>2
      <4>2. Len(g) \in Nat /\ Len(u) \in Nat /\ Len(s) \in Nat
        BY <1>1, <3>2
      <4>3. Len(g) <= Len(s) /\ \A i \in 1 .. Len(g) : i \in 1 .. Len(g \o u)
        BY <3>3, <4>1, <4>2
      <4>4. QED
        BY <3>3, <4>1, <4>3
    <3> HIDE DEF Begins
    <3>5. QED
      BY <3>1, <3>4 DEF g
  <2>2. QED
    BY <2>1
<1> HIDE DEF S
<1>4. \A j \in 0 .. n : j \in S
  BY <1>0, <1>2, <1>3, UpTo
<1>5. ASSUME NEW k \in 0 .. n PROVE Begins(f[k])
  <2>1. n - k \in 0 .. n /\ n - (n - k) = k
    BY <1>0
  <2>2. n - k \in S
    BY <1>4, <2>1
  <2>3. QED
    BY <2>1, <2>2 DEF S
<1>6. QED
  BY <1>5 DEF s

\* The units of a text begin with those of its beginnings.
LEMMA UnitsBegin ==
  ASSUME NEW t \in Seq(Code), NEW flat, IsUnits(flat, t)
  PROVE  /\ Text!Units(t) \in Seq(Unit)
         /\ \A k \in 0 .. Len(t) :
              /\ Len(flat[k]) <= Len(Text!Units(t))
              /\ \A i \in 1 .. Len(flat[k]) : Text!Units(t)[i] = flat[k][i]
<1> DEFINE n == Len(t)
           x == [k \in 1 .. n |-> Text!UnitsOf(t[k])]
<1>0. n \in Nat /\ n \in 0 .. n
  OBVIOUS
<1>1. \A k \in 1 .. n : x[k] \in Seq(Unit)
  <2>1. ASSUME NEW k \in 1 .. n PROVE Text!UnitsOf(t[k]) \in Seq(Unit)
    <3>1. t[k] \in Code
      OBVIOUS
    <3>2. QED
      BY <3>1, UnitsOfIs
  <2>2. QED
    BY <2>1
<1>2. /\ flat \in [0 .. n -> Seq(Unit)] /\ Text!Units(t) = flat[n]
      /\ \A k \in 1 .. n : flat[k] = flat[k - 1] \o x[k]
  BY DEF IsUnits
<1> HIDE DEF n, x
<1>3. \A k \in 0 .. n : Len(flat[k]) <= Len(flat[n]) /\ \A i \in 1 .. Len(flat[k]) : flat[n][i] = flat[k][i]
  <2>1. \A k \in 1 .. n : x[k] \in Seq(Unit) /\ flat[k] = flat[k - 1] \o x[k]
    BY <1>1, <1>2
  <2>2. AddedUp(Unit, n, flat, x)
    BY <1>0, <1>2, <2>1 DEF AddedUp
  <2>3. QED
    BY <2>2, Beginnings
<1>4. flat[n] \in Seq(Unit)
  BY <1>0, <1>2
<1>5. QED
  BY <1>2, <1>3, <1>4 DEF n

\* Where the scalar k is in the units: after those of the scalars before it.
UnitsPlaced(t, flat, k) ==
  LET p == Len(flat[k - 1])
      u == Text!UnitsOf(t[k])
      s == Text!Units(t)
  IN /\ p \in Nat /\ Len(u) \in Nat /\ Len(flat[k]) = p + Len(u) /\ p + Len(u) <= Len(s)
     /\ \A i \in 1 .. Len(u) : s[p + i] = u[i]

\* That is where they are.
LEMMA UnitsAt ==
  ASSUME NEW t \in Seq(Code), NEW flat, IsUnits(flat, t), NEW k \in 1 .. Len(t)
  PROVE  UnitsPlaced(t, flat, k)
<1> DEFINE p == Len(flat[k - 1])
           u == Text!UnitsOf(t[k])
           s == Text!Units(t)
<1>0. k - 1 \in 0 .. Len(t) /\ k \in 0 .. Len(t) /\ t[k] \in Code
  OBVIOUS
<1>1. u \in Seq(Unit)
  BY <1>0, UnitsOfIs
<1>2. flat[k] = flat[k - 1] \o u /\ flat[k - 1] \in Seq(Unit)
  BY <1>0 DEF IsUnits
<1>3. Len(flat[k]) <= Len(s) /\ \A i \in 1 .. Len(flat[k]) : s[i] = flat[k][i]
  BY <1>0, UnitsBegin
<1> HIDE DEF u, s
<1> DEFINE f == flat[k - 1]
           g == flat[k]
<1>4. /\ Len(f) \in Nat /\ Len(u) \in Nat /\ Len(g) = Len(f) + Len(u)
      /\ \A i \in 1 .. Len(u) : g[Len(f) + i] = u[i]
  <2>1. f \in Seq(Unit) /\ g = f \o u
    BY <1>2
  <2> HIDE DEF f, g
  <2>2. QED
    BY <1>1, <2>1
<1> HIDE DEF f, g
<1>5. ASSUME NEW i \in 1 .. Len(u) PROVE s[Len(f) + i] = u[i]
  <2>1. Len(f) + i \in 1 .. Len(g)
    BY <1>4
  <2>2. QED
    BY <1>3, <1>4, <2>1 DEF g
<1>6. QED
  BY <1>3, <1>4, <1>5 DEF f, g, u, s, UnitsPlaced

\* What no longer changes.
LEMMA Stays ==
  ASSUME NEW n \in Nat, NEW f, NEW from \in 0 .. n,
         \A k \in from + 1 .. n : f[k - 1] = f[from] => f[k] = f[from]
  PROVE  f[n] = f[from]
<1> DEFINE S == {k \in 0 .. n - from : f[from + k] = f[from]}
<1>1. n - from \in Nat /\ 0 \in S
  OBVIOUS
<1>2. \A k \in 1 .. n - from : k - 1 \in S => k \in S
  <2>1. ASSUME NEW k \in 1 .. n - from, k - 1 \in S PROVE k \in S
    <3>1. from + k \in from + 1 .. n /\ (from + k) - 1 = from + (k - 1) /\ k \in 0 .. n - from
      OBVIOUS
    <3>2. f[from + (k - 1)] = f[from]
      BY <2>1
    <3>3. f[from + k] = f[from]
      BY <3>1, <3>2
    <3>4. QED
      BY <3>1, <3>3
  <2>2. QED
    BY <2>1
<1> HIDE DEF S
<1>3. \A k \in 0 .. n - from : k \in S
  BY <1>1, <1>2, UpTo
<1>4. n - from \in S
  BY <1>1, <1>3
<1>5. f[from + (n - from)] = f[from]
  BY <1>4 DEF S
<1>6. from + (n - from) = n
  OBVIOUS
<1>7. QED
  BY <1>5, <1>6

\* What never falls from one step to the next.
LEMMA NeverFalls ==
  ASSUME NEW n \in Nat, NEW f \in [0 .. n -> Nat], \A k \in 1 .. n : f[k - 1] <= f[k]
  PROVE  \A j, k \in 0 .. n : j <= k => f[j] <= f[k]
<1>1. SUFFICES ASSUME NEW j \in 0 .. n PROVE \A k \in 0 .. n : j <= k => f[j] <= f[k]
  OBVIOUS
<1> DEFINE S == {k \in 0 .. n : j <= k => f[j] <= f[k]}
<1>2. 0 \in S
  OBVIOUS
<1>3. \A k \in 1 .. n : k - 1 \in S => k \in S
  <2>1. ASSUME NEW k \in 1 .. n, k - 1 \in S PROVE k \in S
    <3>1. k \in 0 .. n /\ k - 1 \in 0 .. n /\ f[k] \in Nat /\ f[k - 1] \in Nat /\ f[j] \in Nat
      OBVIOUS
    <3>2. f[k - 1] <= f[k]
      OBVIOUS
    <3>3. CASE j = k
      BY <3>1, <3>3
    <3>4. CASE j # k
      <4>1. j <= k => j <= k - 1
        BY <3>4
      <4>2. j <= k - 1 => f[j] <= f[k - 1]
        BY <2>1
      <4>3. QED
        BY <3>1, <3>2, <4>1, <4>2
    <3>5. QED
      BY <3>3, <3>4
  <2>2. QED
    BY <2>1
<1> HIDE DEF S
<1>4. \A k \in 0 .. n : k \in S
  BY <1>2, <1>3, UpTo
<1>5. QED
  BY <1>4 DEF S

\* A text without a surrogate that stands alone.
Whole(t) == \A i \in DOMAIN t : ~Text!IsSurrogate(t[i])

\* The code point that is read where the scalar k is, and where the next is.
LEMMA WholeAt ==
  ASSUME NEW t \in Seq(Code), Whole(t), NEW flat, IsUnits(flat, t), NEW k \in 1 .. Len(t)
  PROVE  LET i == Len(flat[k - 1]) + 1
             s == Text!Units(t)
         IN /\ i \in 1 .. Len(s) /\ Text!CodePoint(s, i) = t[k]
            /\ Text!NextUnit(s, i) = Len(flat[k]) + 1
<1> DEFINE p == Len(flat[k - 1])
           q == Len(flat[k])
           s == Text!Units(t)
           u == Text!UnitsOf(t[k])
           c == t[k]
<1>1. c \in Code /\ ~Text!IsSurrogate(c)
  BY DEF Whole
<1>2. /\ p \in Nat /\ Len(u) \in Nat /\ q = p + Len(u) /\ p + Len(u) <= Len(s)
      /\ \A i \in 1 .. Len(u) : s[p + i] = u[i]
  <2>1. UnitsPlaced(t, flat, k)
    BY UnitsAt
  <2>2. QED
    BY <2>1 DEF UnitsPlaced
<1>3. Len(s) \in Nat
  <2>1. s \in Seq(Unit)
    BY UnitsBegin
  <2> HIDE DEF s
  <2>2. QED
    BY <2>1
<1> HIDE DEF p, q, s, c
<1>4. CASE ~Wide(c)
  <2>1. u = <<c>>
    BY Zenon, <1>1, <1>4, UnitsOfIs DEF c
  <2>2. Len(u) = 1 /\ u[1] = c
    BY <2>1
  <2> HIDE DEF u
  <2>3. s[p + 1] = c /\ q = p + 1 /\ p + 1 \in 1 .. Len(s)
    BY <1>2, <1>3, <2>2
  <2>4. Text!CodePoint(s, p + 1) = c
    BY Zenon, <1>1, <2>3 DEF Text!CodePoint
  <2>5. Text!NextUnit(s, p + 1) = (p + 1) + 1
    BY Zenon, <1>1, <2>3 DEF Text!NextUnit
  <2>6. QED
    BY Zenon, <2>3, <2>4, <2>5 DEF p, q, s, c
<1>5. CASE Wide(c)
  <2>1. PICK a, b \in Unit : u = <<a, b>> /\ Halves(c, a, b)
    BY Zenon, <1>1, <1>5, UnitsOfIs DEF c
  <2>2. Len(u) = 2 /\ u[1] = a /\ u[2] = b
    BY <2>1
  <2>3. Text!IsSurrogate(a)
    BY SMT, <2>1 DEF Halves, Text!IsSurrogate
  <2>4. Text!Pair(a, b) = c
    BY SMT, <2>1 DEF Halves
  <2> HIDE DEF u
  <2>5. /\ s[p + 1] = a /\ s[p + 2] = b /\ q = p + 2 /\ p + 1 \in 1 .. Len(s) /\ p + 1 < Len(s)
        /\ (p + 1) + 1 = p + 2
    BY <1>2, <1>3, <2>2
  <2>6. Text!CodePoint(s, p + 1) = c
    BY Zenon, <2>3, <2>4, <2>5 DEF Text!CodePoint
  <2>7. Text!NextUnit(s, p + 1) = (p + 1) + 2
    BY Zenon, <2>3, <2>5 DEF Text!NextUnit
  <2>8. (p + 1) + 2 = q + 1
    BY <1>2, <2>5
  <2>9. QED
    BY Zenon, <2>5, <2>6, <2>7, <2>8 DEF p, q, s, c
<1>6. QED
  BY Zenon, <1>4, <1>5

\* There are at least as many units as scalars.
LEMMA UnitsEnough ==
  ASSUME NEW t \in Seq(Code), NEW flat, IsUnits(flat, t)
  PROVE  \A k \in 0 .. Len(t) : k <= Len(flat[k])
<1> DEFINE n == Len(t)
           S == {k \in 0 .. n : k <= Len(flat[k])}
<1>0. n \in Nat
  OBVIOUS
<1>1. 0 \in S
  <2>1. Len(flat[0]) = 0
    BY DEF IsUnits
  <2>2. QED
    BY <2>1
<1>2. \A k \in 1 .. n : k - 1 \in S => k \in S
  <2>1. ASSUME NEW k \in 1 .. n, k - 1 \in S PROVE k \in S
    <3> DEFINE u == Text!UnitsOf(t[k])
               p == Len(flat[k - 1])
    <3>1. Len(u) >= 1
      <4>1. t[k] \in Code
        OBVIOUS
      <4>2. CASE ~Wide(t[k])
        <5>1. u = <<t[k]>>
          BY Zenon, <4>1, <4>2, UnitsOfIs
        <5>2. QED
          BY <5>1
      <4>3. CASE Wide(t[k])
        <5>1. PICK a, b \in Unit : u = <<a, b>>
          BY Zenon, <4>1, <4>3, UnitsOfIs
        <5>2. QED
          BY <5>1
      <4>4. QED
        BY <4>2, <4>3
    <3>2. p \in Nat /\ Len(u) \in Nat /\ Len(flat[k]) = p + Len(u)
      <4>1. UnitsPlaced(t, flat, k)
        BY UnitsAt
      <4>2. QED
        BY <4>1 DEF UnitsPlaced
    <3>3. k - 1 <= p
      BY <2>1
    <3> HIDE DEF u, p
    <3>4. k <= Len(flat[k]) /\ k \in 0 .. n
      BY <3>1, <3>2, <3>3
    <3>5. QED
      BY <3>4
  <2>2. QED
    BY <2>1
<1> HIDE DEF S, n
<1>3. \A k \in 0 .. n : k \in S
  BY <1>0, <1>1, <1>2, UpTo
<1>4. QED
  BY <1>3 DEF S, n

-----------------------------------------------------------------------------
(* The bytes of a text.                                                    *)

\* The bytes of the first k scalars of t, for each k.
IsBytesOf(enc, t) ==
  /\ enc \in [0 .. Len(t) -> Seq(TextByte)] /\ enc[0] = <<>>
  /\ \A k \in 1 .. Len(t) : enc[k] = enc[k - 1] \o Text!Bytes(t[k])

\* There are bytes of each beginning of a text.
LEMMA BytesInSteps ==
  ASSUME NEW t \in Seq(Code)
  PROVE  \E enc : IsBytesOf(enc, t)
<1> DEFINE n == Len(t)
           T == Seq(TextByte)
           step == [k \in 1 .. n |-> [b \in T |-> b \o Text!Bytes(t[k])]]
<1>0. n \in Nat /\ <<>> \in T
  OBVIOUS
<1>1. \A k \in 1 .. n : Text!Bytes(t[k]) \in T
  <2>1. ASSUME NEW k \in 1 .. n PROVE Text!Bytes(t[k]) \in T
    <3>1. t[k] \in Code
      OBVIOUS
    <3>2. QED
      BY Zenon, <3>1, BytesTyped
  <2>2. QED
    BY <2>1
<1>2. \A b, d \in T : b \o d \in T
  OBVIOUS
<1> HIDE DEF T, n
<1>3. step \in [1 .. n -> [T -> T]]
  BY <1>1, <1>2
<1>4. PICK enc \in [0 .. n -> T] : enc[0] = <<>> /\ \A k \in 1 .. n : enc[k] = step[k][enc[k - 1]]
  <2> HIDE DEF step
  <2>1. Stepwise(T, n, <<>>, step)
    BY <1>0, <1>3 DEF Stepwise
  <2>2. QED
    BY <2>1, StepByStep
<1>5. ASSUME NEW k \in 1 .. n PROVE enc[k] = enc[k - 1] \o Text!Bytes(t[k])
  <2>1. enc[k - 1] \in T
    BY <1>0, <1>4
  <2>2. step[k][enc[k - 1]] = enc[k - 1] \o Text!Bytes(t[k])
    BY <2>1
  <2> HIDE DEF step
  <2>3. QED
    BY <1>4, <2>2
<1>6. IsBytesOf(enc, t)
  BY <1>4, <1>5 DEF IsBytesOf, T, n
<1>7. QED
  BY <1>6

\* A code point more is as many bytes more as it takes.
LEMMA BytesAdd ==
  ASSUME NEW t \in Seq(Code), NEW enc, IsBytesOf(enc, t), NEW k \in 1 .. Len(t)
  PROVE  LET b == Text!Bytes(t[k])
         IN /\ t[k] \in Code /\ b \in Seq(TextByte) /\ Len(b) \in Nat /\ Len(enc[k - 1]) \in Nat
            /\ enc[k - 1] \in Seq(TextByte) /\ enc[k] = enc[k - 1] \o b
            /\ Len(b) = Text!SizeOf(t[k]) /\ 1 <= Len(b)
            /\ Len(enc[k]) = Len(enc[k - 1]) + Len(b)
<1> DEFINE b == Text!Bytes(t[k])
           f == enc[k - 1]
<1>0. t[k] \in Code /\ k - 1 \in 0 .. Len(t)
  OBVIOUS
<1>1. b \in Seq(TextByte) /\ Len(b) = Text!SizeOf(t[k]) /\ 1 <= Len(b)
  BY Zenon, <1>0, BytesTyped
<1>2. enc[k] = f \o b /\ f \in Seq(TextByte)
  BY <1>0 DEF IsBytesOf
<1> HIDE DEF b, f
<1>3. Len(f \o b) = Len(f) + Len(b) /\ Len(f) \in Nat /\ Len(b) \in Nat
  BY <1>1, <1>2
<1>4. QED
  BY Zenon, <1>0, <1>1, <1>2, <1>3 DEF b, f

\* A longer beginning takes more bytes.
LEMMA BytesGrow ==
  ASSUME NEW t \in Seq(Code), NEW enc, IsBytesOf(enc, t)
  PROVE  /\ \A k \in 0 .. Len(t) : Len(enc[k]) \in Nat /\ k <= Len(enc[k])
         /\ \A j, k \in 0 .. Len(t) : j <= k => Len(enc[j]) <= Len(enc[k])
<1> DEFINE n == Len(t)
           f == [k \in 0 .. n |-> Len(enc[k])]
           S == {k \in 0 .. n : k <= f[k]}
<1>0. n \in Nat
  OBVIOUS
<1>1. f \in [0 .. n -> Nat]
  <2>1. \A k \in 0 .. n : enc[k] \in Seq(TextByte)
    BY DEF IsBytesOf
  <2> HIDE DEF n
  <2>2. \A k \in 0 .. n : Len(enc[k]) \in Nat
    BY <2>1
  <2>3. QED
    BY <2>2
<1>2. \A k \in 1 .. n : f[k - 1] < f[k]
  <2>1. ASSUME NEW k \in 1 .. n PROVE f[k - 1] < f[k]
    <3> DEFINE l == Len(Text!Bytes(t[k]))
    <3>1. l \in Nat /\ 1 <= l /\ Len(enc[k - 1]) \in Nat /\ Len(enc[k]) = Len(enc[k - 1]) + l
      BY Zenon, BytesAdd
    <3>2. k \in 0 .. n /\ k - 1 \in 0 .. n
      BY <1>0
    <3> HIDE DEF l, n
    <3>3. QED
      BY <3>1, <3>2
  <2>2. QED
    BY <2>1
<1>3. 0 \in S
  <2>1. Len(enc[0]) = 0
    BY DEF IsBytesOf
  <2>2. QED
    BY <1>0, <2>1
<1>4. \A k \in 1 .. n : k - 1 \in S => k \in S
  <2> HIDE DEF f, n
  <2>1. ASSUME NEW k \in 1 .. n, k - 1 \in S PROVE k \in S
    <3>1. k \in 0 .. n /\ k - 1 \in 0 .. n /\ f[k - 1] < f[k]
      BY <1>0, <1>2
    <3>2. f[k] \in Nat /\ f[k - 1] \in Nat /\ k - 1 <= f[k - 1]
      BY <1>1, <2>1, <3>1
    <3>3. k <= f[k]
      BY <3>1, <3>2
    <3>4. QED
      BY <3>1, <3>3
  <2>2. QED
    BY <2>1
<1>5. \A k \in 0 .. n : k \in S
  <2> HIDE DEF S, n
  <2>1. QED
    BY <1>0, <1>3, <1>4, UpTo
<1>6. \A j, k \in 0 .. n : j <= k => f[j] <= f[k]
  <2> HIDE DEF f, n
  <2>1. ASSUME NEW k \in 1 .. n PROVE f[k - 1] <= f[k]
    <3>1. k \in 0 .. n /\ k - 1 \in 0 .. n /\ f[k - 1] < f[k]
      BY <1>0, <1>2
    <3>2. f[k] \in Nat /\ f[k - 1] \in Nat
      BY <1>1, <3>1
    <3>3. QED
      BY <3>1, <3>2
  <2>2. QED
    BY <1>0, <1>1, <2>1, NeverFalls
<1>7. \A k \in 0 .. n : f[k] = Len(enc[k]) /\ f[k] \in Nat /\ k <= f[k]
  <2>1. \A k \in 0 .. n : f[k] = Len(enc[k])
    OBVIOUS
  <2> HIDE DEF f, n
  <2>2. QED
    BY <1>1, <1>5, <2>1
<1> HIDE DEF f, S
<1>8. QED
  BY <1>6, <1>7

\* lengthBytesUTF8 of a text that is whole.
LEMMA LengthOfWhole ==
  ASSUME NEW t \in Seq(Code), Whole(t), NEW enc, IsBytesOf(enc, t)
  PROVE  Text!lengthBytesUTF8(Text!Units(t)) = Len(enc[Len(t)])
<1> DEFINE n == Len(t)
           s == Text!Units(t)
           size == Len(s)
<1>1. PICK flat : IsUnits(flat, t)
  BY UnitsInSteps
<1>2. s \in Seq(Unit) /\ size \in Nat /\ n \in Nat
  <2>1. s \in Seq(Unit)
    BY <1>1, UnitsBegin
  <2> HIDE DEF s
  <2>2. QED
    BY <2>1
<1>3. PICK turn : IsCount(turn, s)
  BY <1>2, CountSteps
<1>4. /\ turn[0] = [i |-> 1, len |-> 0]
      /\ \A k \in 1 .. size : turn[k] = Text!countUnit(s, turn[k - 1])
      /\ \A k \in 0 .. size : turn[k] \in Measures
      /\ Text!lengthBytesUTF8(s) = turn[size].len
  BY <1>3 DEF IsCount
<1>5. \A k \in 0 .. n : k <= Len(flat[k]) /\ Len(flat[k]) <= size
  BY Zenon, <1>1, UnitsEnough, UnitsBegin
<1>6. /\ Len(flat[0]) = 0 /\ Len(enc[0]) = 0 /\ flat[n] = s
      /\ \A k \in 0 .. n : Len(flat[k]) \in Nat
  <2>1. flat[0] = <<>> /\ enc[0] = <<>> /\ \A k \in 0 .. n : flat[k] \in Seq(Unit)
    BY <1>1 DEF IsUnits, IsBytesOf
  <2>2. flat[n] = s
    BY <1>1 DEF IsUnits
  <2> HIDE DEF n, s
  <2>3. QED
    BY <2>1, <2>2
<1>7. n <= size
  <2>1. n \in 0 .. n /\ Len(flat[n]) \in Nat
    BY <1>2, <1>6
  <2> HIDE DEF n, size
  <2>2. QED
    BY <1>2, <1>5, <2>1
<1>8. \A k \in 1 .. n :
        LET i == Len(flat[k - 1]) + 1
        IN /\ i \in 1 .. size /\ Text!CodePoint(s, i) = t[k]
           /\ Text!NextUnit(s, i) = Len(flat[k]) + 1
  BY Zenon, <1>1, WholeAt
<1>9. \A k \in 1 .. n : Len(enc[k]) = Len(enc[k - 1]) + Len(Text!Bytes(t[k]))
  BY Zenon, BytesAdd
<1> DEFINE S == {k \in 0 .. n : turn[k].i = Len(flat[k]) + 1 /\ turn[k].len = Len(enc[k])}
<1>10. 0 \in S
  <2>1. turn[0].i = 1 /\ turn[0].len = 0 /\ 0 \in 0 .. n
    BY <1>2, <1>4
  <2> HIDE DEF n
  <2>2. QED
    BY <1>6, <2>1
<1>11. \A k \in 1 .. n : k - 1 \in S => k \in S
  <2>1. ASSUME NEW k \in 1 .. n, k - 1 \in S PROVE k \in S
    <3> DEFINE c == turn[k - 1]
               p == Len(flat[k - 1])
    <3>1. c.i = p + 1 /\ c.len = Len(enc[k - 1])
      BY <2>1
    <3>2. k \in 0 .. n /\ k \in 1 .. size /\ k - 1 \in 0 .. size
      <4> HIDE DEF n, size
      <4>1. QED
        BY <1>2, <1>7
    <3>3. c \in Measures /\ turn[k] = Text!countUnit(s, c)
      BY <1>4, <3>2
    <3>4. /\ p + 1 \in 1 .. size /\ Text!CodePoint(s, p + 1) = t[k]
          /\ Text!NextUnit(s, p + 1) = Len(flat[k]) + 1
      BY Zenon, <1>8
    <3>5. ~(p + 1 > Len(s))
      <4> HIDE DEF p, s
      <4>1. QED
        BY <1>2, <3>4
    <3> HIDE DEF c, p, s, n
    <3>6. turn[k].i = Len(flat[k]) + 1 /\ turn[k].len = c.len + Len(Text!Bytes(t[k]))
      <4>1. ~(c.i > Len(s))
        BY <3>1, <3>5
      <4>2. /\ turn[k].i = Text!NextUnit(s, c.i)
            /\ turn[k].len = c.len + Len(Text!Bytes(Text!CodePoint(s, c.i)))
        BY Zenon, <1>2, <3>3, <4>1, CountUnitIs
      <4>3. QED
        BY <3>1, <3>4, <4>2
    <3>7. turn[k].len = Len(enc[k])
      BY Zenon, <1>9, <3>1, <3>6
    <3>8. QED
      BY Zenon, <3>2, <3>6, <3>7 DEF n
  <2>2. QED
    BY <2>1
<1> HIDE DEF S
<1>12. \A k \in 0 .. n : k \in S
  <2> HIDE DEF n
  <2>1. QED
    BY <1>2, <1>10, <1>11, UpTo
<1>13. turn[n].i = size + 1 /\ turn[n].len = Len(enc[n])
  <2>1. n \in S
    BY <1>2, <1>12
  <2>2. QED
    BY Zenon, <1>6, <2>1 DEF S
<1>14. turn[size] = turn[n]
  <2>1. ASSUME NEW k \in n + 1 .. size, turn[k - 1] = turn[n] PROVE turn[k] = turn[n]
    <3> HIDE DEF n, size
    <3>1. k \in 1 .. size /\ n \in 0 .. size
      BY <1>2, <1>7
    <3>2. turn[k] = Text!countUnit(s, turn[n]) /\ turn[n] \in Measures
      BY <1>4, <2>1, <3>1
    <3>3. turn[n].i > Len(s)
      <4> HIDE DEF s
      <4>1. QED
        BY <1>2, <1>13 DEF size
    <3>4. QED
      BY Zenon, <1>2, <3>2, <3>3, CountUnitIs
  <2>2. n \in 0 .. size
    <3> HIDE DEF n, size
    <3>1. QED
      BY <1>2, <1>7
  <2> HIDE DEF n, size
  <2>3. QED
    BY <1>2, <2>1, <2>2, Stays
<1>15. QED
  BY <1>4, <1>13, <1>14

\* The first k scalars have room in a buffer of n bytes, and no more of them.
Fills(enc, t, k, n) ==
  /\ k \in 0 .. Len(t) /\ Len(enc[k]) <= n - 1
  /\ k < Len(t) => Len(enc[k + 1]) > n - 1

\* stringToUTF8Array stores them, and nothing else.
LEMMA EncodedOfWhole ==
  ASSUME NEW t \in Seq(Code), Whole(t), NEW enc, IsBytesOf(enc, t), NEW n \in Nat \ {0},
         NEW last, Fills(enc, t, last, n)
  PROVE  Text!Encoded(Text!Units(t), n) = enc[last]
<1> DEFINE all == Len(t)
           s == Text!Units(t)
           size == Len(s)
           most == n - 1
<1>1. PICK flat : IsUnits(flat, t)
  BY UnitsInSteps
<1>2. s \in Seq(Unit) /\ size \in Nat /\ all \in Nat /\ most \in Nat
  <2>1. s \in Seq(Unit)
    BY <1>1, UnitsBegin
  <2> HIDE DEF s
  <2>2. QED
    BY <2>1
<1>3. PICK turn : IsEncoding(turn, s, n)
  BY <1>2, EncodingSteps
<1>4. /\ turn[0] = [i |-> 1, bytes |-> <<>>]
      /\ \A k \in 1 .. size : turn[k] = Text!writeUnit(s, most, turn[k - 1])
      /\ \A k \in 0 .. size : turn[k] \in Writing /\ Len(turn[k].bytes) <= most
      /\ Text!Encoded(s, n) = turn[size].bytes
  BY <1>3 DEF IsEncoding
<1>5. \A k \in 0 .. all : k <= Len(flat[k]) /\ Len(flat[k]) <= size
  BY Zenon, <1>1, UnitsEnough, UnitsBegin
<1>6. /\ Len(flat[0]) = 0 /\ enc[0] = <<>> /\ flat[all] = s
      /\ \A k \in 0 .. all : Len(flat[k]) \in Nat
  <2>1. flat[0] = <<>> /\ enc[0] = <<>> /\ \A k \in 0 .. all : flat[k] \in Seq(Unit)
    BY <1>1 DEF IsUnits, IsBytesOf
  <2>2. flat[all] = s
    BY <1>1 DEF IsUnits
  <2> HIDE DEF all, s
  <2>3. QED
    BY <2>1, <2>2
<1>7. all <= size
  <2>1. all \in 0 .. all /\ Len(flat[all]) \in Nat
    BY <1>2, <1>6
  <2> HIDE DEF all, size
  <2>2. QED
    BY <1>2, <1>5, <2>1
<1>8. /\ last \in 0 .. all /\ Len(enc[last]) <= most
      /\ last < all => Len(enc[last + 1]) > most
  BY DEF Fills
<1>9. ASSUME NEW k \in 1 .. all
      PROVE  LET p == Len(flat[k - 1])
                 b == Text!Bytes(t[k])
             IN /\ ~(p + 1 > Len(s)) /\ Text!CodePoint(s, p + 1) = t[k]
                /\ Text!NextUnit(s, p + 1) = Len(flat[k]) + 1
                /\ enc[k] = enc[k - 1] \o b /\ Len(enc[k]) = Len(enc[k - 1]) + Len(b)
  <2> DEFINE p == Len(flat[k - 1])
             b == Text!Bytes(t[k])
  <2>1. /\ p + 1 \in 1 .. size /\ Text!CodePoint(s, p + 1) = t[k]
        /\ Text!NextUnit(s, p + 1) = Len(flat[k]) + 1
    BY Zenon, <1>1, WholeAt
  <2>2. enc[k] = enc[k - 1] \o b /\ Len(enc[k]) = Len(enc[k - 1]) + Len(b)
    BY Zenon, BytesAdd
  <2>3. ~(p + 1 > Len(s))
    <3> HIDE DEF p, s
    <3>1. QED
      BY <1>2, <2>1
  <2>4. QED
    BY Zenon, <2>1, <2>2, <2>3
<1>10. \A k \in 0 .. all : Len(enc[k]) \in Nat /\ (k <= last => Len(enc[k]) <= most)
  <2>1. /\ \A k \in 0 .. all : Len(enc[k]) \in Nat
        /\ \A j, k \in 0 .. all : j <= k => Len(enc[j]) <= Len(enc[k])
    BY Zenon, BytesGrow
  <2> HIDE DEF all, most
  <2>2. QED
    BY <1>2, <1>8, <2>1
<1> DEFINE S == {k \in 0 .. last : turn[k].i = Len(flat[k]) + 1 /\ turn[k].bytes = enc[k]}
<1> HIDE DEF all, size, most, s
<1>11. last \in Nat /\ 0 \in S
  <2>1. turn[0].i = 1 /\ turn[0].bytes = <<>> /\ last \in Nat
    BY <1>2, <1>4, <1>8
  <2>2. QED
    BY <1>6, <2>1
<1>12. \A k \in 1 .. last : k - 1 \in S => k \in S
  <2>1. ASSUME NEW k \in 1 .. last, k - 1 \in S PROVE k \in S
    <3> DEFINE c == turn[k - 1]
               p == Len(flat[k - 1])
               b == Text!Bytes(t[k])
    <3>1. c.i = p + 1 /\ c.bytes = enc[k - 1]
      BY <2>1
    <3>2. k \in 0 .. last /\ k \in 1 .. size /\ k - 1 \in 0 .. size /\ k \in 1 .. all /\ k \in 0 .. all
      BY <1>2, <1>7, <1>8
    <3>3. c \in Writing /\ Len(c.bytes) <= most /\ turn[k] = Text!writeUnit(s, most, c)
      BY <1>4, <3>2
    <3>4. /\ ~(p + 1 > Len(s)) /\ Text!CodePoint(s, p + 1) = t[k]
          /\ Text!NextUnit(s, p + 1) = Len(flat[k]) + 1
          /\ enc[k] = enc[k - 1] \o b /\ Len(enc[k]) = Len(enc[k - 1]) + Len(b)
      BY <1>9, <3>2
    <3>5. Len(enc[k]) <= most
      BY <1>10, <3>2
    <3> HIDE DEF c, p, b
    <3>6. ~(c.i > Len(s)) /\ Text!CodePoint(s, c.i) = t[k]
      BY <3>1, <3>4
    <3>7. Len(c.bytes) + Len(Text!Bytes(Text!CodePoint(s, c.i))) <= most
      BY <3>1, <3>4, <3>5, <3>6 DEF b
    <3>8. /\ turn[k].i = Text!NextUnit(s, c.i)
          /\ turn[k].bytes = c.bytes \o Text!Bytes(Text!CodePoint(s, c.i))
      <4> DEFINE v == Text!writeUnit(s, most, c)
      <4>1. /\ v.i = Text!NextUnit(s, c.i)
            /\ v.bytes = c.bytes \o Text!Bytes(Text!CodePoint(s, c.i))
        BY Zenon, <1>2, <3>3, <3>6, <3>7, WriteUnitIs
      <4>2. QED
        BY Zenon, <3>3, <4>1
    <3>9. turn[k].i = Len(flat[k]) + 1 /\ turn[k].bytes = enc[k]
      BY <3>1, <3>4, <3>6, <3>8 DEF b
    <3>10. QED
      BY Zenon, <3>2, <3>9
  <2>2. QED
    BY <2>1
<1> HIDE DEF S
<1>13. \A k \in 0 .. last : k \in S
  BY <1>11, <1>12, UpTo
<1>14. turn[last].i = Len(flat[last]) + 1 /\ turn[last].bytes = enc[last]
  <2>1. last \in S
    BY <1>11, <1>13
  <2>2. QED
    BY <2>1 DEF S
\* The turn that ends the loop.
<1>15. PICK end \in 0 .. size : turn[end].i > Len(s) /\ turn[end].bytes = enc[last]
  <2>1. CASE last = all
    <3>1. turn[last].i = Len(s) + 1 /\ Len(s) \in Nat
      BY <1>2, <1>6, <1>14, <2>1
    <3>2. last \in 0 .. size /\ turn[last].i > Len(s)
      BY <1>2, <1>7, <1>8, <3>1
    <3>3. QED
      BY <1>14, <3>2
  <2>2. CASE last # all
    <3> DEFINE k == last + 1
               c == turn[last]
               b == Text!Bytes(t[k])
               p == Len(flat[last])
    <3>1. k \in 1 .. all /\ k - 1 = last /\ last < all /\ k \in 1 .. size /\ last \in 0 .. size
      BY <1>2, <1>7, <1>8, <2>2
    <3>2. /\ ~(p + 1 > Len(s)) /\ Text!CodePoint(s, p + 1) = t[k]
          /\ Len(enc[k]) = Len(enc[last]) + Len(b)
      BY <1>9, <3>1
    <3>3. c \in Writing /\ Len(c.bytes) <= most /\ turn[k] = Text!writeUnit(s, most, c)
      BY <1>4, <3>1
    <3>4. Len(enc[k]) > most
      BY <1>8, <3>1
    <3>5. c.i = p + 1 /\ c.bytes = enc[last]
      BY <1>14
    <3> HIDE DEF k, c, b, p
    <3>6. ~(c.i > Len(s)) /\ Text!CodePoint(s, c.i) = t[k]
      BY <3>2, <3>5
    <3>7. Len(c.bytes) + Len(Text!Bytes(Text!CodePoint(s, c.i))) > most
      BY <3>2, <3>4, <3>5, <3>6 DEF b
    <3>8. turn[k].i = Len(s) + 1 /\ turn[k].bytes = c.bytes
      <4> DEFINE v == Text!writeUnit(s, most, c)
      <4>1. v.i = Len(s) + 1 /\ v.bytes = c.bytes
        BY Zenon, <1>2, <3>3, <3>6, <3>7, WriteUnitIs
      <4>2. QED
        BY Zenon, <3>3, <4>1
    <3>9. turn[k].i > Len(s) /\ turn[k].bytes = enc[last] /\ k \in 0 .. size
      BY <1>2, <3>1, <3>5, <3>8 DEF size
    <3>10. QED
      BY <3>9
  <2>3. QED
    BY <2>1, <2>2
<1>16. turn[size] = turn[end]
  <2>1. ASSUME NEW k \in end + 1 .. size, turn[k - 1] = turn[end] PROVE turn[k] = turn[end]
    <3>1. k \in 1 .. size /\ end \in 0 .. size
      BY <1>2
    <3>2. /\ turn[k] = Text!writeUnit(s, most, turn[end]) /\ turn[end] \in Writing
          /\ Len(turn[end].bytes) <= most
      BY <1>4, <2>1, <3>1
    <3>3. QED
      BY Zenon, <1>2, <1>15, <3>2, WriteUnitIs
  <2>2. QED
    BY <1>2, <2>1, Stays
<1>17. QED
  BY <1>4, <1>15, <1>16 DEF s

-----------------------------------------------------------------------------
(* Reading the bytes back.                                                 *)

\* The low bits of a byte.
LEMMA LowIs ==
  ASSUME NEW h, NEW i, i <= Len(h)
  PROVE  Text!Low(h, i) = h[i] % 64
  BY Zenon DEF Text!Low

\* The bytes of a code point are in a buffer, behind p others.
Placed(h, p, c) ==
  /\ h \in Seq(Nat) /\ p \in Nat /\ c \in Code /\ p + Len(Text!Bytes(c)) <= Len(h)
  /\ \A i \in 1 .. Len(Text!Bytes(c)) : h[p + i] = Text!Bytes(c)[i]

\* A turn of UTF8ArrayToString reads a code point.
ReadsOn(h, end, p, c, w) ==
  Text!readByte(h, end, [i |-> p + 1, str |-> w]) =
    [i |-> p + Len(Text!Bytes(c)) + 1, str |-> w \o Text!UnitsOf(c)]

\* The bytes that a code point was stored as are read as that code point.
LEMMA ReadByteIs ==
  ASSUME NEW h, NEW p, NEW c, Placed(h, p, c), NEW end \in Nat, NEW w \in Seq(Unit), p + 1 < end
  PROVE  ReadsOn(h, end, p, c, w)
<1> DEFINE b == Text!Bytes(c)
           u0 == h[p + 1]
           x == Text!readByte(h, end, [i |-> p + 1, str |-> w])
           r == Text!OfTwo(u0, Text!Low(h, (p + 1) + 1))
           rr == Text!OfThree(u0, Text!Low(h, (p + 1) + 1), Text!Low(h, (p + 1) + 2))
           rrr == Text!OfFour(u0, Text!Low(h, (p + 1) + 1), Text!Low(h, (p + 1) + 2),
                              Text!Low(h, (p + 1) + 3))
<1>0. h \in Seq(Nat) /\ p \in Nat /\ c \in Code
  BY DEF Placed
<1>1. ~(p + 1 >= end)
  BY <1>0
<1>2. x = IF u0 < 128 THEN [i |-> (p + 1) + 1, str |-> Append(w, u0)]
          ELSE IF u0 \div 32 = 6 THEN [i |-> (p + 1) + 2, str |-> Append(w, r)]
          ELSE IF u0 \div 16 = 14 THEN [i |-> (p + 1) + 3, str |-> w \o Text!UnitsOf(rr)]
          ELSE [i |-> (p + 1) + 4, str |-> w \o Text!UnitsOf(rrr)]
  BY SMT, <1>1 DEF Text!readByte
<1>3. /\ (p + 1) + 1 = p + 2 /\ (p + 1) + 2 = p + 3 /\ (p + 1) + 3 = p + 4
      /\ (p + 1) + 4 = p + 4 + 1 /\ (p + 1) + 2 = p + 2 + 1 /\ (p + 1) + 3 = p + 3 + 1
      /\ (p + 1) + 1 = p + 1 + 1
  BY <1>0
<1>4. IsBytes(c, b) /\ p + Len(b) <= Len(h) /\ \A i \in 1 .. Len(b) : h[p + i] = b[i]
  BY <1>0, BytesOfCode DEF Placed
<1>5. Len(h) \in Nat
  BY <1>0
\* Of a code point of one unit.
<1>6. ASSUME ~Wide(c), c \in Unit PROVE Append(w, c) = w \o Text!UnitsOf(c)
  <2>1. Text!UnitsOf(c) = <<c>>
    BY Zenon, <1>0, <1>6, UnitsOfIs
  <2>2. Append(w, c) = w \o <<c>>
    BY <1>6
  <2>3. QED
    BY Zenon, <2>1, <2>2
<1> HIDE DEF b, u0, x, r, rr, rrr
<1>7. CASE c <= 127 /\ b = <<c>>
  <2>1. Len(b) = 1 /\ b[1] = c
    BY <1>7
  <2>2. u0 = c
    BY <1>0, <1>4, <2>1 DEF u0
  <2>3. u0 < 128 /\ ~Wide(c) /\ c \in Unit
    BY SMT, <1>0, <1>7, <2>2 DEF Wide, Code, Unit
  <2>4. x = [i |-> p + 1 + 1, str |-> Append(w, c)]
    BY <1>2, <1>3, <2>2, <2>3
  <2>5. QED
    BY Zenon, <1>6, <2>1, <2>3, <2>4 DEF b, x, ReadsOn
<1>8. CASE \E y, z \in TextByte : b = <<y, z>> /\ TwoBytes(c, y, z)
  <2>1. PICK y, z \in TextByte : b = <<y, z>> /\ TwoBytes(c, y, z)
    BY Zenon, <1>8
  <2>2. Len(b) = 2 /\ b[1] = y /\ b[2] = z
    BY <2>1
  <2>3. u0 = y /\ h[p + 2] = z /\ p + 2 <= Len(h)
    BY <1>0, <1>4, <1>5, <2>2 DEF u0
  <2>4. Text!Low(h, p + 2) = z % 64
    BY <2>3, LowIs
  <2>5. ~(y < 128) /\ y \div 32 = 6 /\ Text!OfTwo(y, z % 64) = c /\ c <= 2047
    BY <2>1, FirstOfTwo
  <2>6. ~Wide(c) /\ c \in Unit
    BY SMT, <1>0, <2>1, <2>5 DEF Wide, Unit, Code
  <2>7. r = Text!OfTwo(y, z % 64)
    BY Zenon, <1>3, <2>3, <2>4 DEF r
  <2>8. r = c
    BY Zenon, <2>5, <2>7
  <2> HIDE DEF r
  <2>9. x = [i |-> (p + 1) + 2, str |-> Append(w, r)]
    <3>1. ~(u0 < 128) /\ u0 \div 32 = 6
      BY Zenon, <2>3, <2>5
    <3>2. QED
      BY Zenon, <1>2, <3>1
  <2>10. QED
    BY Zenon, <1>3, <1>6, <2>2, <2>6, <2>8, <2>9 DEF b, x, ReadsOn
<1>9. CASE \E y, z, v \in TextByte : b = <<y, z, v>> /\ ThreeBytes(c, y, z, v)
  <2>1. PICK y, z, v \in TextByte : b = <<y, z, v>> /\ ThreeBytes(c, y, z, v)
    BY Zenon, <1>9
  <2>2. Len(b) = 3 /\ b[1] = y /\ b[2] = z /\ b[3] = v
    BY <2>1
  <2>3. u0 = y /\ h[p + 2] = z /\ h[p + 3] = v /\ p + 2 <= Len(h) /\ p + 3 <= Len(h)
    BY <1>0, <1>4, <1>5, <2>2 DEF u0
  <2>4. Text!Low(h, p + 2) = z % 64 /\ Text!Low(h, p + 3) = v % 64
    BY <2>3, LowIs
  <2>5. /\ ~(y < 128) /\ ~(y \div 32 = 6) /\ y \div 16 = 14
        /\ Text!OfThree(y, z % 64, v % 64) = c
    BY <2>1, FirstOfThree
  <2>6. rr = Text!OfThree(y, z % 64, v % 64)
    BY Zenon, <1>3, <2>3, <2>4 DEF rr
  <2>7. rr = c
    BY Zenon, <2>5, <2>6
  <2>8. x = [i |-> (p + 1) + 3, str |-> w \o Text!UnitsOf(rr)]
    <3>1. ~(u0 < 128) /\ ~(u0 \div 32 = 6) /\ u0 \div 16 = 14
      BY Zenon, <2>3, <2>5
    <3>2. QED
      BY Zenon, <1>2, <3>1
  <2>9. QED
    BY Zenon, <1>3, <2>2, <2>7, <2>8 DEF b, x, ReadsOn
<1>10. CASE \E y, z, v, o \in TextByte : b = <<y, z, v, o>> /\ FourBytes(c, y, z, v, o)
  <2>1. PICK y, z, v, o \in TextByte : b = <<y, z, v, o>> /\ FourBytes(c, y, z, v, o)
    BY Zenon, <1>10
  <2>2. Len(b) = 4 /\ b[1] = y /\ b[2] = z /\ b[3] = v /\ b[4] = o
    BY <2>1
  <2>3. /\ u0 = y /\ h[p + 2] = z /\ h[p + 3] = v /\ h[p + 4] = o
        /\ p + 2 <= Len(h) /\ p + 3 <= Len(h) /\ p + 4 <= Len(h)
    <3>1. 1 \in 1 .. Len(b) /\ 2 \in 1 .. Len(b) /\ 3 \in 1 .. Len(b) /\ 4 \in 1 .. Len(b)
      BY <2>2
    <3>2. h[p + 1] = y /\ h[p + 2] = z /\ h[p + 3] = v /\ h[p + 4] = o
      BY Zenon, <1>4, <2>2, <3>1
    <3>3. p + 2 <= Len(h) /\ p + 3 <= Len(h) /\ p + 4 <= Len(h)
      <4>1. p + 4 <= Len(h) /\ p \in Nat
        BY Zenon, <1>0, <1>4, <2>2
      <4>2. QED
        BY <1>5, <4>1
    <3>4. QED
      BY <3>2, <3>3 DEF u0
  <2>4. Text!Low(h, p + 2) = z % 64 /\ Text!Low(h, p + 3) = v % 64 /\ Text!Low(h, p + 4) = o % 64
    BY <2>3, LowIs
  <2>5. /\ ~(y < 128) /\ ~(y \div 32 = 6) /\ ~(y \div 16 = 14)
        /\ Text!OfFour(y, z % 64, v % 64, o % 64) = c
    BY <2>1, FirstOfFour
  <2>6. rrr = Text!OfFour(y, z % 64, v % 64, o % 64)
    BY Zenon, <1>3, <2>3, <2>4 DEF rrr
  <2>7. rrr = c
    BY Zenon, <2>5, <2>6
  <2>8. x = [i |-> (p + 1) + 4, str |-> w \o Text!UnitsOf(rrr)]
    <3>1. ~(u0 < 128) /\ ~(u0 \div 32 = 6) /\ ~(u0 \div 16 = 14)
      BY Zenon, <2>3, <2>5
    <3>2. QED
      BY Zenon, <1>2, <3>1
  <2>9. QED
    BY Zenon, <1>3, <2>2, <2>7, <2>8 DEF b, x, ReadsOn
<1>11. QED
  BY Zenon, <1>4, <1>7, <1>8, <1>9, <1>10 DEF IsBytes

\* A buffer begins with bytes and a null.
Holds(h, b) ==
  /\ h \in Seq(Nat) /\ b \in Seq(TextByte) /\ Len(b) < Len(h)
  /\ \A i \in 1 .. Len(b) : h[i] = b[i]
  /\ h[Len(b) + 1] = 0

\* The first null of the buffer is behind the bytes.
LEMMA HoldsNull ==
  ASSUME NEW h, NEW b, Holds(h, b)
  PROVE  Text!SelectInSeq(h, LAMBDA e : e = 0) = Len(b) + 1
<1>1. /\ h \in Seq(Nat) /\ b \in Seq(TextByte) /\ Len(b) < Len(h) /\ h[Len(b) + 1] = 0
      /\ \A i \in 1 .. Len(b) : h[i] = b[i]
  BY DEF Holds
<1>2. Len(b) + 1 \in 1 .. Len(h) /\ (Len(b) + 1) - 1 = Len(b)
  BY <1>1
<1>3. \A i \in 1 .. Len(b) : h[i] # 0
  <2>1. ASSUME NEW i \in 1 .. Len(b) PROVE h[i] # 0
    <3>1. b[i] \in TextByte
      BY <1>1
    <3>2. h[i] = b[i]
      BY <1>1
    <3>3. QED
      BY <3>1, <3>2 DEF TextByte
  <2>2. QED
    BY <2>1
<1>4. QED
  BY <1>1, <1>2, <1>3, NullAt

\* The bytes of a code point, in a buffer with the bytes of a text.
LEMMA BytesAt ==
  ASSUME NEW t \in Seq(Code), NEW enc, IsBytesOf(enc, t), NEW last \in 0 .. Len(t),
         NEW h, Holds(h, enc[last]), NEW k \in 1 .. last
  PROVE  LET p == Len(enc[k - 1])
             b == Text!Bytes(t[k])
         IN Placed(h, p, t[k]) /\ p < Len(enc[last]) /\ p + Len(b) = Len(enc[k])
<1> DEFINE all == Len(t)
           p == Len(enc[k - 1])
           b == Text!Bytes(t[k])
           f == [j \in 0 .. last |-> enc[j]]
           x == [j \in 1 .. last |-> Text!Bytes(t[j])]
           q == Len(enc[last])
<1>0. all \in Nat /\ last \in Nat /\ last <= all
  OBVIOUS
<1> HIDE DEF all
<1>1. k \in 1 .. all /\ k \in 0 .. last /\ k \in 0 .. all /\ k - 1 \in 0 .. all /\ last \in 0 .. all
  BY <1>0
<1>2. /\ t[k] \in Code /\ b \in Seq(TextByte) /\ Len(b) \in Nat /\ p \in Nat
      /\ enc[k - 1] \in Seq(TextByte) /\ enc[k] = enc[k - 1] \o b /\ 1 <= Len(b)
      /\ Len(enc[k]) = p + Len(b)
  BY Zenon, <1>1, BytesAdd DEF all
<1>3. AddedUp(TextByte, last, f, x)
  <2>1. \A j \in 0 .. all : enc[j] \in Seq(TextByte)
    BY DEF IsBytesOf, all
  <2>2. f \in [0 .. last -> Seq(TextByte)]
    BY <1>0, <2>1
  <2>3. ASSUME NEW j \in 1 .. last PROVE x[j] \in Seq(TextByte) /\ f[j] = f[j - 1] \o x[j]
    <3>1. j \in 1 .. all /\ j \in 0 .. last /\ j - 1 \in 0 .. last
      BY <1>0
    <3>2. Text!Bytes(t[j]) \in Seq(TextByte) /\ enc[j] = enc[j - 1] \o Text!Bytes(t[j])
      BY Zenon, <3>1, BytesAdd DEF all
    <3>3. QED
      BY <3>1, <3>2
  <2> HIDE DEF f, x
  <2>4. QED
    BY <1>0, <2>2, <2>3 DEF AddedUp
<1>4. Len(enc[k]) <= q /\ \A i \in 1 .. Len(enc[k]) : enc[last][i] = enc[k][i]
  <2>1. last \in 0 .. last
    BY <1>0
  <2>2. f[k] = enc[k] /\ f[last] = enc[last]
    BY <1>1, <2>1
  <2> HIDE DEF f, x
  <2>3. Len(f[k]) <= Len(f[last]) /\ \A i \in 1 .. Len(f[k]) : f[last][i] = f[k][i]
    BY <1>1, <1>3, Beginnings
  <2>4. QED
    BY <2>2, <2>3
<1>5. q \in Nat /\ Len(h) \in Nat /\ q < Len(h) /\ \A i \in 1 .. q : h[i] = enc[last][i]
  BY DEF Holds
<1>6. ASSUME NEW i \in 1 .. Len(b) PROVE h[p + i] = b[i]
  <2>1. p + i \in 1 .. Len(enc[k]) /\ p + i \in 1 .. q
    <3> HIDE DEF p, b, q
    <3>1. QED
      BY <1>2, <1>4, <1>5
  <2>2. h[p + i] = enc[k][p + i]
    BY <1>4, <1>5, <2>1
  <2>3. enc[k][p + i] = b[i]
    <3> DEFINE e == enc[k - 1]
    <3>1. e \in Seq(TextByte) /\ b \in Seq(TextByte) /\ enc[k] = e \o b
      BY <1>2
    <3> HIDE DEF e, b
    <3>2. (e \o b)[Len(e) + i] = b[i]
      BY <3>1
    <3>3. QED
      BY <3>1, <3>2 DEF e
  <2>4. QED
    BY <2>2, <2>3
<1>7. p < q /\ p + Len(b) <= Len(h)
  <2> HIDE DEF p, b, q
  <2>1. QED
    BY <1>2, <1>4, <1>5
<1>8. Placed(h, p, t[k])
  <2>1. h \in Seq(Nat)
    BY DEF Holds
  <2>2. QED
    BY Zenon, <1>2, <1>6, <1>7, <2>1 DEF Placed
<1>9. QED
  BY Zenon, <1>2, <1>7, <1>8

\* UTF8ArrayToString gives the text back whose bytes are there.
LEMMA TextReadBack ==
  ASSUME NEW t \in Seq(Code), NEW flat, IsUnits(flat, t), NEW enc, IsBytesOf(enc, t),
         NEW last \in 0 .. Len(t), NEW h, Holds(h, enc[last])
  PROVE  Text!UTF8ArrayToString(h) = flat[last]
<1> DEFINE all == Len(t)
           n == Len(h)
           q == Len(enc[last])
           end == Text!SelectInSeq(Append(h, 0), LAMBDA e : e = 0)
           a == [i |-> 1, str |-> <<>>]
           At(k) == [i |-> Len(enc[k]) + 1, str |-> flat[k]]
           g == [k \in 0 .. n |-> IF k <= last THEN At(k) ELSE At(last)]
           Solves(f) == f = [k \in 0 .. n |-> IF k = 0 THEN a ELSE Text!readByte(h, end, f[k - 1])]
<1>0. all \in Nat /\ last \in Nat /\ last \in 0 .. all /\ last \in 0 .. last
  OBVIOUS
<1>1. h \in Seq(Nat) /\ n \in Nat /\ q \in Nat /\ q < n
  BY DEF Holds
<1>2. end = q + 1
  <2> DEFINE hh == Append(h, 0)
  <2>1. /\ hh \in Seq(Nat) /\ Len(hh) = n + 1 /\ \A i \in 1 .. n : hh[i] = h[i]
    BY <1>1
  <2>2. /\ enc[last] \in Seq(TextByte) /\ \A i \in 1 .. q : h[i] = enc[last][i]
        /\ h[q + 1] = 0
    BY DEF Holds
  <2> HIDE DEF hh, n, q
  <2>3. /\ q < Len(hh) /\ hh[q + 1] = 0 /\ \A i \in 1 .. q : hh[i] = enc[last][i]
    BY <1>1, <2>1, <2>2
  <2>4. Holds(hh, enc[last])
    BY <2>1, <2>2, <2>3 DEF Holds, q
  <2>5. QED
    BY <2>4, HoldsNull DEF hh, q
<1> HIDE DEF all, end
<1>3. last <= q /\ Len(enc[0]) = 0 /\ enc[0] = <<>> /\ flat[0] = <<>>
  <2>1. last <= Len(enc[last])
    BY Zenon, <1>0, BytesGrow DEF all
  <2>2. enc[0] = <<>> /\ flat[0] = <<>>
    BY DEF IsBytesOf, IsUnits
  <2>3. QED
    BY <2>1, <2>2
<1>4. a = At(0)
  BY <1>3
<1>5. ASSUME NEW k \in 1 .. last PROVE Text!readByte(h, end, At(k - 1)) = At(k)
  <2> DEFINE p == Len(enc[k - 1])
             c == t[k]
             w == flat[k - 1]
  <2>1. Placed(h, p, c) /\ p < q /\ p + Len(Text!Bytes(c)) = Len(enc[k])
    BY BytesAt DEF all
  <2>0. p \in Nat
    BY <2>1 DEF Placed
  <2>2. w \in Seq(Unit) /\ flat[k] = w \o Text!UnitsOf(c)
    <3>1. k \in 1 .. all /\ k - 1 \in 0 .. all
      BY <1>0
    <3>2. QED
      BY <3>1 DEF IsUnits, all
  <2> HIDE DEF p, c, w, q, n
  <2>3. p + 1 < end /\ end \in Nat
    BY <1>1, <1>2, <2>0, <2>1
  <2>4. Text!readByte(h, end, [i |-> p + 1, str |-> w]) =
          [i |-> p + Len(Text!Bytes(c)) + 1, str |-> w \o Text!UnitsOf(c)]
    <3>1. ReadsOn(h, end, p, c, w)
      BY <2>1, <2>2, <2>3, ReadByteIs
    <3>2. QED
      BY Zenon, <3>1 DEF ReadsOn
  <2>5. QED
    BY Zenon, <2>1, <2>2, <2>4 DEF p, w
<1>6. Text!readByte(h, end, At(last)) = At(last)
  <2> DEFINE c == At(last)
  <2>1. c.i = q + 1
    OBVIOUS
  <2> HIDE DEF c, q
  <2>2. c.i >= end
    BY <1>1, <1>2, <2>1
  <2>3. Text!readByte(h, end, c) = c
    BY <2>2 DEF Text!readByte
  <2>4. QED
    BY <2>3 DEF c
<1> HIDE DEF a, At
<1>7. g[0] = a /\ \A k \in 1 .. n : g[k] = Text!readByte(h, end, g[k - 1])
  <2> HIDE DEF n, q
  <2>1. g[0] = a
    BY <1>0, <1>1, <1>4
  <2>2. ASSUME NEW k \in 1 .. n PROVE g[k] = Text!readByte(h, end, g[k - 1])
    <3>1. k \in 0 .. n /\ k - 1 \in 0 .. n
      BY <1>1
    <3>2. CASE k <= last
      <4>1. g[k] = At(k) /\ g[k - 1] = At(k - 1) /\ k \in 1 .. last
        BY <1>0, <3>1, <3>2
      <4> HIDE DEF g
      <4>2. QED
        BY <1>5, <4>1
    <3>3. CASE ~(k <= last)
      <4>1. g[k] = At(last)
        BY <3>1, <3>3
      <4>2. g[k - 1] = At(last)
        <5>1. CASE k - 1 <= last
          <6>1. k - 1 = last
            BY <1>0, <3>3, <5>1
          <6>2. QED
            BY <3>1, <5>1, <6>1
        <5>2. CASE ~(k - 1 <= last)
          BY <3>1, <5>2
        <5>3. QED
          BY <5>1, <5>2
      <4> HIDE DEF g
      <4>3. QED
        BY <1>6, <4>1, <4>2
    <3>4. QED
      BY <3>2, <3>3
  <2>3. QED
    BY <2>1, <2>2
<1>8. Solves(g)
  <2>1. \A k \in 0 .. n : g[k] = IF k = 0 THEN a ELSE Text!readByte(h, end, g[k - 1])
    <3> HIDE DEF n, g
    <3>1. \A k \in 0 .. n : k = 0 \/ k \in 1 .. n
      BY <1>1
    <3>2. QED
      BY <1>7, <3>1
  <2>2. g = [k \in 0 .. n |-> g[k]]
    OBVIOUS
  <2> HIDE DEF g, n
  <2>3. QED
    BY <2>1, <2>2
<1> DEFINE turn == CHOOSE f : Solves(f)
<1>9. Solves(turn)
  <2> HIDE DEF Solves
  <2>1. QED
    BY <1>8
<1>10. Text!UTF8ArrayToString(h) = turn[n].str
  BY DEF Text!UTF8ArrayToString, a, end
<1>11. \A k \in 0 .. n : turn[k] = IF k = 0 THEN a ELSE Text!readByte(h, end, turn[k - 1])
  <2> HIDE DEF turn, n
  <2>1. QED
    BY <1>9
<1> HIDE DEF turn, g, Solves
<1> DEFINE S == {k \in 0 .. n : turn[k] = g[k]}
<1>12. \A k \in 0 .. n : k \in S
  <2> HIDE DEF n
  <2>1. 0 \in S
    BY <1>1, <1>7, <1>11
  <2>2. ASSUME NEW k \in 1 .. n, k - 1 \in S PROVE k \in S
    <3>1. k \in 0 .. n /\ k # 0 /\ turn[k - 1] = g[k - 1]
      BY <2>2
    <3>2. turn[k] = g[k]
      BY <1>7, <1>11, <3>1
    <3>3. QED
      BY <3>1, <3>2
  <2> HIDE DEF S
  <2>3. QED
    BY <1>1, <2>1, <2>2, UpTo
<1>13. turn[n] = At(last)
  <2> HIDE DEF n, q
  <2>1. n \in 0 .. n /\ n \in S
    BY <1>1, <1>12
  <2>2. turn[n] = g[n]
    BY <2>1
  <2>3. ~(n <= last)
    BY <1>0, <1>1, <1>3
  <2>4. g[n] = At(last)
    BY <2>1, <2>3 DEF g
  <2>5. QED
    BY <2>2, <2>4
<1>14. At(last).str = flat[last]
  BY DEF At
<1>15. QED
  BY <1>10, <1>13, <1>14

-----------------------------------------------------------------------------
(* How much of a text fits.                                                *)

\* What UTF-8 prescribes is what is stored.
LEMMA SizesAre ==
  ASSUME text \in Seq(Code), NEW enc, IsBytesOf(enc, text)
  PROVE  \A n \in 0 .. Len(text) : Text!SizeOfFirst(n) = Len(enc[n])
<1> SUFFICES ASSUME NEW n \in 0 .. Len(text) PROVE Text!SizeOfFirst(n) = Len(enc[n])
  OBVIOUS
<1> DEFINE all == Len(text)
           g == [i \in 0 .. n |-> Len(enc[i])]
           Solves(f) == f = [i \in 0 .. n |-> IF i = 0 THEN 0 ELSE f[i - 1] + Text!SizeOf(text[i])]
<1>0. all \in Nat /\ n \in Nat /\ n <= all
  OBVIOUS
<1> HIDE DEF all
<1>1. Len(enc[0]) = 0
  BY DEF IsBytesOf
<1>2. ASSUME NEW i \in 1 .. n PROVE Len(enc[i]) = Len(enc[i - 1]) + Text!SizeOf(text[i])
  <2>1. i \in 1 .. all
    BY <1>0
  <2>2. /\ Len(enc[i]) = Len(enc[i - 1]) + Len(Text!Bytes(text[i]))
        /\ Len(Text!Bytes(text[i])) = Text!SizeOf(text[i])
    BY Zenon, <2>1, BytesAdd DEF all
  <2>3. QED
    BY Zenon, <2>2
<1>3. Solves(g)
  <2>1. ASSUME NEW i \in 0 .. n
        PROVE  g[i] = IF i = 0 THEN 0 ELSE g[i - 1] + Text!SizeOf(text[i])
    <3>1. CASE i = 0
      BY <1>1, <3>1
    <3>2. CASE i # 0
      <4>1. i \in 1 .. n /\ i - 1 \in 0 .. n
        BY <1>0, <3>2
      <4>2. g[i] = Len(enc[i]) /\ g[i - 1] = Len(enc[i - 1])
        BY <4>1
      <4> HIDE DEF g
      <4>3. QED
        BY <1>2, <3>2, <4>1, <4>2
    <3>3. QED
      BY <3>1, <3>2
  <2>2. g = [i \in 0 .. n |-> g[i]]
    OBVIOUS
  <2> HIDE DEF g
  <2>3. QED
    BY <2>1, <2>2
<1> DEFINE size == CHOOSE f : Solves(f)
<1>4. Solves(size)
  <2> HIDE DEF Solves
  <2>1. QED
    BY <1>3
<1>5. Text!SizeOfFirst(n) = size[n]
  BY DEF Text!SizeOfFirst
<1>6. \A i \in 0 .. n : size[i] = IF i = 0 THEN 0 ELSE size[i - 1] + Text!SizeOf(text[i])
  <2> HIDE DEF size
  <2>1. QED
    BY <1>4
<1> HIDE DEF size, g, Solves
<1> DEFINE S == {i \in 0 .. n : size[i] = Len(enc[i])}
<1>7. \A i \in 0 .. n : i \in S
  <2>1. 0 \in S
    BY <1>0, <1>1, <1>6
  <2>2. ASSUME NEW i \in 1 .. n, i - 1 \in S PROVE i \in S
    <3>1. i \in 0 .. n /\ i # 0 /\ size[i - 1] = Len(enc[i - 1])
      BY <1>0, <2>2
    <3>2. size[i] = size[i - 1] + Text!SizeOf(text[i])
      BY <1>6, <3>1
    <3>3. size[i] = Len(enc[i])
      BY <1>2, <3>1, <3>2
    <3>4. QED
      BY <3>1, <3>3
  <2> HIDE DEF S
  <2>3. QED
    BY <1>0, <2>1, <2>2, UpTo
<1>8. n \in S
  BY <1>0, <1>7
<1>9. QED
  BY <1>5, <1>8

\* Only one beginning of a text fills a buffer.
LEMMA FillsOnce ==
  ASSUME NEW t \in Seq(Code), NEW enc, IsBytesOf(enc, t), NEW n \in Nat,
         NEW j, NEW k, Fills(enc, t, j, n), Fills(enc, t, k, n)
  PROVE  ~(j < k)
<1> SUFFICES ASSUME j < k PROVE FALSE
  OBVIOUS
<1> DEFINE all == Len(t)
<1>0. /\ j \in 0 .. all /\ k \in 0 .. all /\ Len(enc[k]) <= n - 1
      /\ j < all => Len(enc[j + 1]) > n - 1
  BY DEF Fills
<1>1. /\ \A i \in 0 .. all : Len(enc[i]) \in Nat
      /\ \A i, l \in 0 .. all : i <= l => Len(enc[i]) <= Len(enc[l])
  BY Zenon, BytesGrow
<1>2. all \in Nat
  OBVIOUS
<1> HIDE DEF all
<1>3. j < all /\ j + 1 \in 0 .. all /\ j + 1 <= k
  BY <1>0, <1>2
<1>4. Len(enc[j + 1]) \in Nat /\ Len(enc[k]) \in Nat /\ Len(enc[j + 1]) <= Len(enc[k])
  BY <1>0, <1>1, <1>3
<1>5. QED
  BY <1>0, <1>3, <1>4

\* A set of numbers up to n has a greatest one.
LEMMA GreatestNumber ==
  ASSUME NEW n \in Nat, NEW S, S \subseteq 0 .. n, S # {}
  PROVE  Text!Max(S) \in S /\ \A k \in S : k <= Text!Max(S)
<1> DEFINE U == {u \in Nat : \A k \in S : k <= u}
<1>1. PICK u \in U : \A v \in U : u <= v
  <2>1. n \in U
    OBVIOUS
  <2> HIDE DEF U
  <2>2. U \subseteq Nat
    BY DEF U
  <2>3. QED
    BY <2>1, <2>2, LeastNumber
<1>2. u \in Nat /\ \A k \in S : k <= u
  OBVIOUS
<1>3. u \in S
  <2>1. SUFFICES ASSUME u \notin S PROVE FALSE
    OBVIOUS
  <2>2. \A k \in S : k \in Nat /\ k # u /\ k <= u
    BY <1>2, <2>1
  <2>3. u - 1 \in Nat /\ \A k \in S : k <= u - 1
    <3>1. PICK k \in S : TRUE
      OBVIOUS
    <3>2. QED
      BY <1>2, <2>2, <3>1
  <2>4. u - 1 \in U
    BY <2>3
  <2> HIDE DEF U
  <2>5. u <= u - 1
    BY <1>1, <2>4
  <2>6. QED
    BY <1>2, <2>5
<1>4. Text!Max(S) = CHOOSE x \in S : \A y \in S : x >= y
  BY DEF Text!Max
<1>5. \A y \in S : u >= y
  BY <1>2
<1> HIDE DEF U
<1> DEFINE top == CHOOSE x \in S : \A y \in S : x >= y
<1>6. top \in S /\ \A y \in S : top >= y
  BY Zenon, <1>3, <1>5
<1> HIDE DEF top
<1>7. \A y \in S : y <= top
  BY <1>6
<1>8. QED
  BY <1>4, <1>6, <1>7 DEF top

\* Fitting is the longest beginning that has room.
LEMMA FittingFills ==
  ASSUME text \in Seq(Code), NEW enc, IsBytesOf(enc, text), NEW n \in Nat \ {0}
  PROVE  Fills(enc, text, Text!Fitting(n - 1), n)
<1> DEFINE all == Len(text)
           S == {k \in 0 .. all : Text!SizeOfFirst(k) <= n - 1}
           last == Text!Fitting(n - 1)
<1>0. all \in Nat /\ 0 \in 0 .. all /\ S \subseteq 0 .. all
  OBVIOUS
<1>1. \A k \in 0 .. all : Text!SizeOfFirst(k) = Len(enc[k]) /\ Len(enc[k]) \in Nat
  BY Zenon, SizesAre, BytesGrow
<1>2. Len(enc[0]) = 0
  BY DEF IsBytesOf
<1>3. last = Text!Max(S)
  BY DEF Text!Fitting
<1> HIDE DEF all, last
<1>4. 0 \in S
  BY <1>0, <1>1, <1>2
<1> DEFINE T == S
<1>5. Text!Max(T) \in T /\ \A k \in T : k <= Text!Max(T)
  <2> HIDE DEF S
  <2>1. S # {}
    BY <1>4
  <2>2. QED
    BY <1>0, <2>1, GreatestNumber
<1>6. last \in 0 .. all /\ Len(enc[last]) <= n - 1
  <2>1. last \in S
    BY <1>3, <1>5
  <2>2. QED
    BY <1>1, <2>1
<1>7. ASSUME last < all PROVE Len(enc[last + 1]) > n - 1
  <2>1. last + 1 \in 0 .. all /\ ~(last + 1 <= last)
    BY <1>0, <1>6, <1>7
  <2>2. last + 1 \notin S
    <3> HIDE DEF S
    <3>1. QED
      BY <1>3, <1>5, <2>1
  <2>3. ~(Len(enc[last + 1]) <= n - 1) /\ Len(enc[last + 1]) \in Nat
    BY <1>1, <2>1, <2>2
  <2>4. QED
    BY <2>3
<1>8. QED
  BY <1>6, <1>7 DEF Fills, all, last

\* The units of a beginning.
LEMMA UnitsOfFirst ==
  ASSUME NEW t \in Seq(Code), NEW flat, IsUnits(flat, t), NEW last \in 0 .. Len(t)
  PROVE  Text!Units(SubSeq(t, 1, last)) = flat[last]
<1> DEFINE u == SubSeq(t, 1, last)
<1>1. u \in Seq(Code) /\ Len(u) = last /\ \A i \in 1 .. last : u[i] = t[i]
  OBVIOUS
<1>2. last \in Nat /\ \A k \in 1 .. last : k \in 1 .. Len(t)
  OBVIOUS
<1> HIDE DEF u
<1>3. PICK f : IsUnits(f, u)
  BY <1>1, UnitsInSteps
<1>4. /\ f[0] = <<>> /\ Text!Units(u) = f[last]
      /\ \A k \in 1 .. last : f[k] = f[k - 1] \o Text!UnitsOf(t[k])
  BY <1>1, <1>3 DEF IsUnits
<1>5. flat[0] = <<>> /\ \A k \in 1 .. last : flat[k] = flat[k - 1] \o Text!UnitsOf(t[k])
  BY <1>2 DEF IsUnits
<1> DEFINE S == {k \in 0 .. last : f[k] = flat[k]}
<1>6. 0 \in S
  BY <1>2, <1>4, <1>5
<1>7. ASSUME NEW k \in 1 .. last, k - 1 \in S PROVE k \in S
  <2>1. k \in 0 .. last /\ f[k - 1] = flat[k - 1]
    BY <1>2, <1>7
  <2>2. f[k] = flat[k]
    BY <1>4, <1>5, <2>1
  <2>3. QED
    BY <2>1, <2>2
<1> HIDE DEF S
<1>8. \A k \in 0 .. last : k \in S
  BY <1>2, <1>6, <1>7, UpTo
<1>9. f[last] = flat[last]
  <2>1. last \in S
    BY <1>2, <1>8
  <2>2. QED
    BY <2>1 DEF S
<1>10. QED
  BY <1>4, <1>9 DEF u

-----------------------------------------------------------------------------
(* The calls.                                                              *)

\* The bytes of the heap.
HeapByte == 0 .. 255

\* What is stored, a null and what was there are bytes of the heap.
LEMMA HeapBytes ==
  /\ 0 \in HeapByte /\ 255 \in HeapByte /\ Text!Old = 255
  /\ \A b \in HeapByte : b \in Nat
  /\ \A b \in TextByte : b \in HeapByte
<1>1. 0 \in HeapByte /\ 255 \in HeapByte /\ Text!Old = 255
  BY SMT DEF HeapByte, Text!Old
<1>2. \A b \in HeapByte : b \in Nat
  BY SMT DEF HeapByte
<1>3. \A b \in TextByte : b \in HeapByte
  BY SMT DEF HeapByte, TextByte
<1>4. QED
  BY <1>1, <1>2, <1>3

\* A buffer before a call.
LEMMA UntouchedIs ==
  ASSUME NEW n \in Nat
  PROVE  LET h == Text!Untouched(n)
         IN h \in Seq(HeapByte) /\ Len(h) = n /\ \A i \in 1 .. n : h[i] = 255
<1> DEFINE h == Text!Untouched(n)
<1>1. h = [i \in 1 .. n |-> 255]
  BY HeapBytes DEF Text!Untouched
<1>2. 255 \in HeapByte
  BY HeapBytes
<1> HIDE DEF h
<1>3. h \in Seq(HeapByte) /\ Len(h) = n /\ \A i \in 1 .. n : h[i] = 255
  BY <1>1, <1>2
<1>4. QED
  BY <1>3 DEF h

\* stringToUTF8Array changes n bytes at the most.
LEMMA StoredIs ==
  ASSUME NEW s \in Seq(Unit), NEW n \in Nat \ {0}, NEW l \in Nat, n <= l
  PROVE  LET x == Text!Stored(s, Text!Untouched(l), n)
         IN /\ x \in Seq(HeapByte) /\ Len(x) = l /\ Holds(x, Text!Encoded(s, n))
            /\ \A i \in n + 1 .. l : x[i] = 255
<1> DEFINE h == Text!Untouched(l)
           e == Text!Encoded(s, n)
           b == Append(e, 0)
           x == Text!Stored(s, h, n)
<1>1. h \in Seq(HeapByte) /\ Len(h) = l /\ \A i \in 1 .. l : h[i] = 255
  BY UntouchedIs
<1>2. e \in Seq(TextByte) /\ Len(e) <= n - 1
  BY EncodedFits
<1>0. ~(n <= 0)
  OBVIOUS
<1>3. x = [i \in 1 .. IF Len(b) > Len(h) THEN Len(b) ELSE Len(h) |->
             IF i <= Len(b) THEN b[i] ELSE h[i]]
  BY Zenon, <1>0 DEF Text!Stored
<1> HIDE DEF h, e, x
<1>4. Len(e) \in Nat /\ e \in Seq(Nat)
  <2>1. \A i \in TextByte : i \in Nat
    BY DEF TextByte
  <2>2. QED
    BY <1>2, <2>1
<1>5. Len(b) = Len(e) + 1 /\ b[Len(e) + 1] = 0 /\ \A i \in 1 .. Len(e) : b[i] = e[i]
  BY <1>4
<1> HIDE DEF b
<1>6. ~(Len(b) > Len(h)) /\ Len(b) <= n /\ Len(b) \in Nat
  BY <1>1, <1>2, <1>4, <1>5
<1>7. x = [i \in 1 .. l |-> IF i <= Len(b) THEN b[i] ELSE h[i]]
  BY <1>1, <1>3, <1>6
<1>8. ASSUME NEW i \in 1 .. l PROVE x[i] \in HeapByte
  <2>1. CASE i <= Len(e)
    <3>1. i \in 1 .. Len(e) /\ i <= Len(b)
      BY <1>4, <1>5, <2>1
    <3>2. x[i] = e[i] /\ e[i] \in TextByte
      BY <1>2, <1>5, <1>7, <3>1
    <3>3. QED
      BY <3>2, HeapBytes
  <2>2. CASE i = Len(e) + 1
    <3>1. x[i] = 0
      BY <1>4, <1>5, <1>7, <2>2
    <3>2. QED
      BY <3>1, HeapBytes
  <2>3. CASE i > Len(e) + 1
    <3>1. x[i] = 255
      BY <1>1, <1>4, <1>5, <1>7, <2>3
    <3>2. QED
      BY <3>1, HeapBytes
  <2>4. QED
    BY <1>4, <2>1, <2>2, <2>3
<1>9. x \in Seq(HeapByte) /\ Len(x) = l
  BY <1>7, <1>8
<1>10. Holds(x, e)
  <2>1. x \in Seq(Nat)
    <3>1. \A i \in 1 .. l : x[i] \in Nat
      BY <1>8, HeapBytes
    <3>2. QED
      BY <1>7, <3>1
  <2>2. Len(e) < Len(x)
    BY <1>1, <1>4, <1>5, <1>6, <1>9
  <2>3. ASSUME NEW i \in 1 .. Len(e) PROVE x[i] = e[i]
    <3>1. i \in 1 .. l /\ i <= Len(b)
      BY <1>4, <1>5, <1>6
    <3>2. QED
      BY <1>5, <1>7, <3>1
  <2>4. x[Len(e) + 1] = 0
    <3>1. Len(e) + 1 \in 1 .. l
      BY <1>4, <1>5, <1>6
    <3>2. QED
      BY <1>5, <1>6, <1>7, <3>1
  <2>5. QED
    BY <1>2, <2>1, <2>2, <2>3, <2>4 DEF Holds
<1>11. ASSUME NEW i \in n + 1 .. l PROVE x[i] = 255
  <2>1. i \in 1 .. l /\ ~(i <= Len(b))
    BY <1>6
  <2>2. QED
    BY <1>1, <1>7, <2>1
<1>12. QED
  BY <1>9, <1>10, <1>11 DEF x, h, e

\* What a call leaves, that gave n bytes of its buffer to stringToUTF8Array.
Stores(t, r, h, a) ==
  \E n \in 1 .. r :
    LET s == Text!Units(t)
        b == Text!Encoded(s, n)
    IN Holds(h, b) /\ a = Len(b) /\ (n < r => n = Text!lengthBytesUTF8(s) + 1)

\* The state after a call: the byte behind the buffer is untouched, and a call
\* that reports a length has stored the text.
CopiedWell(t, r, h, a) ==
  /\ t \in Seq(Scalar) /\ r \in 0 .. MaxRoom /\ a \in Int
  /\ h \in Seq(HeapByte) /\ Len(h) = r + 1 /\ h[r + 1] = 255
  /\ r > 0 /\ a >= 0 => Stores(t, r, h, a)

\* The inductive invariant of the strings.
TextInv == Text!Init \/ CopiedWell(text, room, heap, copied)

\* The scalars that the runs choose from are code points.
LEMMA ScalarsAre == MaxRoom \in Nat /\ MaxLength \in Nat /\ \A c \in Scalar : c \in Code
  BY RuntimeAssumption DEF Text!ConstantsOK, Code

\* A text is a sequence of code points, and has units.
LEMMA TextUnits ==
  ASSUME NEW t \in Seq(Scalar)
  PROVE  t \in Seq(Code) /\ Text!Units(t) \in Seq(Unit)
<1>1. t \in Seq(Code)
  BY ScalarsAre
<1>2. PICK flat : IsUnits(flat, t)
  BY <1>1, UnitsInSteps
<1>3. QED
  BY <1>1, <1>2, UnitsBegin

\* Nothing was copied.
LEMMA NothingCopied ==
  ASSUME NEW t \in Seq(Scalar), NEW r \in 0 .. MaxRoom, NEW a \in Int, r = 0 \/ a = -1
  PROVE  CopiedWell(t, r, Text!Untouched(r + 1), a)
<1> DEFINE h == Text!Untouched(r + 1)
<1>1. r \in Nat
  BY ScalarsAre
<1>2. h \in Seq(HeapByte) /\ Len(h) = r + 1 /\ h[r + 1] = 255
  <2>1. r + 1 \in Nat /\ r + 1 \in 1 .. r + 1
    BY <1>1
  <2>2. QED
    BY <2>1, UntouchedIs
<1> HIDE DEF h
<1>3. ~(r > 0 /\ a >= 0)
  BY <1>1
<1>4. QED
  BY <1>2, <1>3 DEF CopiedWell, h

\* The text was copied into all of the buffer.
LEMMA CopiedAll ==
  ASSUME NEW t \in Seq(Scalar), NEW r \in 1 .. MaxRoom
  PROVE  CopiedWell(t, r, Text!Stored(Text!Units(t), Text!Untouched(r + 1), r),
                    Len(Text!Encoded(Text!Units(t), r)))
<1> DEFINE s == Text!Units(t)
           x == Text!Stored(s, Text!Untouched(r + 1), r)
           a == Len(Text!Encoded(s, r))
<1>1. r \in Nat \ {0} /\ r + 1 \in Nat /\ r <= r + 1 /\ r \in 1 .. r /\ r \in 0 .. MaxRoom
      /\ r + 1 \in r + 1 .. r + 1 /\ ~(r < r)
  BY ScalarsAre
<1>2. s \in Seq(Unit)
  BY TextUnits
<1>3. /\ x \in Seq(HeapByte) /\ Len(x) = r + 1 /\ Holds(x, Text!Encoded(s, r))
      /\ x[r + 1] = 255
  BY <1>1, <1>2, StoredIs
<1>4. Stores(t, r, x, a)
  BY <1>1, <1>3 DEF Stores
<1>5. a \in Int
  <2>1. Text!Encoded(s, r) \in Seq(TextByte)
    BY <1>1, <1>2, EncodedFits
  <2> HIDE DEF s
  <2>2. QED
    BY <2>1
<1> HIDE DEF x, a
<1>6. QED
  BY <1>1, <1>3, <1>4, <1>5 DEF CopiedWell, x, a

\* The text was copied into as many bytes as it takes, of a buffer of r.
LEMMA CopiedWhole ==
  ASSUME NEW t \in Seq(Scalar), NEW r \in 0 .. MaxRoom, NEW n, NEW h,
         n = Text!lengthBytesUTF8(Text!Units(t)) + 1, n <= r,
         h \in Seq(HeapByte), Len(h) = r + 1, h[r + 1] = 255,
         Holds(h, Text!Encoded(Text!Units(t), n))
  PROVE  CopiedWell(t, r, h, n - 1) /\ Len(Text!Encoded(Text!Units(t), n)) = n - 1
<1> DEFINE s == Text!Units(t)
           b == Text!Encoded(s, n)
<1>1. s \in Seq(Unit) /\ Text!lengthBytesUTF8(s) \in Nat
  BY Zenon, TextUnits, LengthIsNat
<1>2. n \in Nat \ {0} /\ n - 1 = Text!lengthBytesUTF8(s) /\ Text!lengthBytesUTF8(s) <= n - 1
  BY <1>1
<1>3. Len(b) = n - 1
  BY <1>1, <1>2, EncodedWhole
<1> HIDE DEF b, s
<1>4. r \in Nat /\ n \in 1 .. r /\ n - 1 \in Int
  BY <1>2, ScalarsAre
<1>5. Stores(t, r, h, n - 1)
  BY <1>2, <1>3, <1>4 DEF Stores, s, b
<1>6. QED
  BY <1>3, <1>4, <1>5 DEF CopiedWell, s, b

\* A buffer that holds a text holds it whatever is behind.
Joined(x, y, z) == x \in Seq(HeapByte) /\ y \in Seq(HeapByte) /\ z = x \o y

\* The same.
LEMMA HoldsMore ==
  ASSUME NEW x, NEW y, NEW z, Joined(x, y, z), NEW b, Holds(x, b)
  PROVE  /\ Holds(z, b) /\ z \in Seq(HeapByte) /\ Len(z) = Len(x) + Len(y)
         /\ \A i \in 1 .. Len(y) : z[Len(x) + i] = y[i]
<1>0. x \in Seq(HeapByte) /\ y \in Seq(HeapByte) /\ z = x \o y
  BY DEF Joined
<1>1. /\ z \in Seq(HeapByte) /\ Len(z) = Len(x) + Len(y) /\ \A i \in 1 .. Len(x) : z[i] = x[i]
      /\ \A i \in 1 .. Len(y) : z[Len(x) + i] = y[i]
  BY <1>0
<1>2. Len(x) \in Nat /\ Len(y) \in Nat
  BY <1>0
<1>3. z \in Seq(Nat)
  BY <1>1, HeapBytes
<1>4. /\ b \in Seq(TextByte) /\ Len(b) < Len(x) /\ x[Len(b) + 1] = 0
      /\ \A i \in 1 .. Len(b) : x[i] = b[i]
  BY DEF Holds
<1>5. Len(b) \in Nat /\ Len(b) + 1 \in 1 .. Len(x) /\ \A i \in 1 .. Len(b) : i \in 1 .. Len(x)
  BY <1>2, <1>4
<1>6. z[Len(b) + 1] = 0 /\ Len(b) < Len(z) /\ \A i \in 1 .. Len(b) : z[i] = b[i]
  BY <1>1, <1>2, <1>4, <1>5
<1>7. Holds(z, b)
  BY <1>3, <1>4, <1>6 DEF Holds
<1>8. QED
  BY <1>1, <1>7

\* What each call leaves.
LEMMA TextCall ==
  ASSUME Text!Next
  PROVE  CopiedWell(text, room, heap, copied)'
<1>1. PICK k \in 0 .. MaxLength : \E c \in [1 .. k -> Scalar] :
         \/ Text!IntArrayFromString(c)
         \/ \E n \in 0 .. MaxRoom :
              Text!StringToUTF8(c, n) \/ Text!Getcwd(c, n) \/ Text!Strftime(c, n)
  BY Zenon DEF Text!Next
<1>2. PICK c \in [1 .. k -> Scalar] :
         \/ Text!IntArrayFromString(c)
         \/ \E n \in 0 .. MaxRoom :
              Text!StringToUTF8(c, n) \/ Text!Getcwd(c, n) \/ Text!Strftime(c, n)
  BY Zenon, <1>1
<1>3. c \in Seq(Scalar)
  BY ScalarsAre
<1> DEFINE s == Text!Units(c)
           l == Text!lengthBytesUTF8(s)
<1>4. s \in Seq(Unit) /\ l \in Nat
  BY Zenon, <1>3, TextUnits, LengthIsNat
<1>5. MaxRoom \in Nat
  BY ScalarsAre
<1> HIDE DEF s, l
<1>6. CASE Text!IntArrayFromString(c)
  <2> DEFINE n == l + 1
             x == Text!Stored(s, Text!Untouched(n), n)
             y == <<255>>
             h == Append(x, 255)
  <2>1. /\ n <= MaxRoom /\ text' = c /\ room' = n /\ heap' = h
        /\ copied' = Len(Text!Encoded(s, n))
    BY <1>6, HeapBytes DEF Text!IntArrayFromString, s, l
  <2>2. n \in Nat \ {0} /\ n \in 0 .. MaxRoom /\ n <= n
    BY <1>4, <1>5, <2>1
  <2> HIDE DEF n
  <2>3. x \in Seq(HeapByte) /\ Len(x) = n /\ Holds(x, Text!Encoded(s, n))
    BY <1>4, <2>2, StoredIs
  <2> HIDE DEF x
  <2>4. y \in Seq(HeapByte) /\ Len(y) = 1 /\ y[1] = 255 /\ h = x \o y
    BY <2>3, HeapBytes
  <2> HIDE DEF y, h
  <2>5. h \in Seq(HeapByte) /\ Len(h) = n + 1 /\ h[n + 1] = 255 /\ Holds(h, Text!Encoded(s, n))
    <3>1. /\ Holds(h, Text!Encoded(s, n)) /\ h \in Seq(HeapByte) /\ Len(h) = Len(x) + Len(y)
          /\ \A i \in 1 .. Len(y) : h[Len(x) + i] = y[i]
      <4>1. Joined(x, y, h)
        BY Zenon, <2>3, <2>4 DEF Joined
      <4>2. QED
        BY <2>3, <4>1, HoldsMore
    <3>2. 1 \in 1 .. Len(y)
      BY <2>4
    <3>3. QED
      BY <2>3, <2>4, <3>1, <3>2
  <2>6. n = Text!lengthBytesUTF8(Text!Units(c)) + 1
    BY DEF n, l, s
  <2>7. CopiedWell(c, n, h, n - 1) /\ Len(Text!Encoded(s, n)) = n - 1
    BY <1>3, <2>2, <2>5, <2>6, CopiedWhole DEF s
  <2>8. QED
    BY <2>1, <2>7
<1>7. CASE \E n \in 0 .. MaxRoom : Text!StringToUTF8(c, n)
  <2>1. PICK n \in 0 .. MaxRoom : Text!StringToUTF8(c, n)
    BY <1>7
  <2>2. /\ text' = c /\ room' = n
        /\ heap' = Text!Stored(s, Text!Untouched(n + 1), n)
        /\ copied' = IF n > 0 THEN Len(Text!Encoded(s, n)) ELSE 0
    BY <2>1 DEF Text!StringToUTF8, s
  <2>3. CASE n = 0
    <3>1. heap' = Text!Untouched(n + 1) /\ copied' = 0 /\ 0 \in Int
      BY <2>2, <2>3 DEF Text!Stored
    <3>2. CopiedWell(c, n, Text!Untouched(n + 1), 0)
      BY <1>3, <2>3, NothingCopied
    <3>3. QED
      BY <2>2, <3>1, <3>2
  <2>4. CASE n # 0
    <3>1. n \in 1 .. MaxRoom /\ n > 0
      BY <1>5, <2>4
    <3>2. QED
      BY <1>3, <2>2, <3>1, CopiedAll DEF s
  <2>5. QED
    BY <2>3, <2>4
<1>8. CASE \E n \in 0 .. MaxRoom : Text!Getcwd(c, n)
  <2>1. PICK n \in 0 .. MaxRoom : Text!Getcwd(c, n)
    BY <1>8
  <2>2. /\ text' = c /\ room' = n
        /\ IF n = 0 \/ n < l + 1
           THEN heap' = Text!Untouched(n + 1) /\ copied' = -1
           ELSE heap' = Text!Stored(s, Text!Untouched(n + 1), n) /\ copied' = l
    BY <2>1 DEF Text!Getcwd, s, l
  <2>3. CASE n = 0 \/ n < l + 1
    <3>1. CopiedWell(c, n, Text!Untouched(n + 1), -1)
      BY <1>3, NothingCopied
    <3>2. QED
      BY <2>2, <2>3, <3>1
  <2>4. CASE ~(n = 0 \/ n < l + 1)
    <3>1. n \in 1 .. MaxRoom /\ n \in Nat \ {0} /\ l <= n - 1
      BY <1>4, <1>5, <2>4
    <3>2. Len(Text!Encoded(s, n)) = l
      BY <1>4, <3>1, EncodedWhole DEF l
    <3>3. CopiedWell(c, n, Text!Stored(s, Text!Untouched(n + 1), n), Len(Text!Encoded(s, n)))
      BY <1>3, <3>1, CopiedAll DEF s
    <3>4. QED
      BY <2>2, <2>4, <3>2, <3>3
  <2>5. QED
    BY <2>3, <2>4
<1>9. CASE \E n \in 0 .. MaxRoom : Text!Strftime(c, n)
  <2>1. PICK r \in 0 .. MaxRoom : Text!Strftime(c, r)
    BY <1>9
  <2> DEFINE n == l + 1
             x == Text!Stored(s, Text!Untouched(n), n)
  <2>2. /\ text' = c /\ room' = r
        /\ IF Len(x) > r THEN heap' = Text!Untouched(r + 1) /\ copied' = -1
           ELSE heap' = x \o Text!Untouched(r + 1 - Len(x)) /\ copied' = Len(x) - 1
    BY <2>1 DEF Text!Strftime, s, l
  <2>3. n \in Nat \ {0} /\ n <= n /\ n \in Nat /\ r \in Nat
    BY <1>4, <1>5
  <2>4. n = Text!lengthBytesUTF8(Text!Units(c)) + 1
    BY DEF l, s
  <2> HIDE DEF n
  <2>5. x \in Seq(HeapByte) /\ Len(x) = n /\ Holds(x, Text!Encoded(s, n))
    BY <1>4, <2>3, StoredIs
  <2> HIDE DEF x
  <2>6. CASE n > r
    <3>1. CopiedWell(c, r, Text!Untouched(r + 1), -1)
      BY <1>3, NothingCopied
    <3>2. QED
      BY <2>2, <2>5, <2>6, <3>1
  <2>7. CASE ~(n > r)
    <3> DEFINE gap == r + 1 - n
               y == Text!Untouched(gap)
               h == x \o y
    <3>1. gap \in Nat /\ gap \in 1 .. gap /\ n <= r /\ n + gap = r + 1
      BY <2>3, <2>7
    <3>3. heap' = h /\ copied' = n - 1
      BY <2>2, <2>5, <2>7
    <3> HIDE DEF gap
    <3>2. y \in Seq(HeapByte) /\ Len(y) = gap /\ y[gap] = 255
      BY <3>1, UntouchedIs
    <3> HIDE DEF y
    <3>4. h \in Seq(HeapByte) /\ Len(h) = r + 1 /\ h[r + 1] = 255 /\ Holds(h, Text!Encoded(s, n))
      <4>1. /\ Holds(h, Text!Encoded(s, n)) /\ h \in Seq(HeapByte) /\ Len(h) = Len(x) + Len(y)
            /\ \A i \in 1 .. Len(y) : h[Len(x) + i] = y[i]
        <5>1. Joined(x, y, h)
          BY Zenon, <2>5, <3>2 DEF Joined
        <5> HIDE DEF h
        <5>2. QED
          BY <2>5, <5>1, HoldsMore
      <4> HIDE DEF h
      <4>2. QED
        BY <2>5, <3>1, <3>2, <4>1
    <3> HIDE DEF h
    <3>5. CopiedWell(c, r, h, n - 1)
      BY <1>3, <2>4, <3>1, <3>4, CopiedWhole DEF s
    <3>6. QED
      BY <2>2, <3>3, <3>5
  <2>8. QED
    BY <2>3, <2>6, <2>7
<1>10. QED
  BY <1>2, <1>6, <1>7, <1>8, <1>9

\* What is in the buffer is the text, as far as it fits.
LEMMA WholeText ==
  ASSUME text \in Seq(Scalar), Whole(text), NEW r \in Nat \ {0}, NEW h, NEW a, Stores(text, r, h, a)
  PROVE  /\ a = Text!SizeOfFirst(Text!Fitting(r - 1))
         /\ Text!UTF8ArrayToString(h) = Text!Units(SubSeq(text, 1, Text!Fitting(r - 1)))
<1> DEFINE all == Len(text)
           s == Text!Units(text)
           last == Text!Fitting(r - 1)
<1>1. text \in Seq(Code) /\ s \in Seq(Unit)
  BY TextUnits
<1>2. PICK n \in 1 .. r : /\ Holds(h, Text!Encoded(s, n)) /\ a = Len(Text!Encoded(s, n))
                          /\ n < r => n = Text!lengthBytesUTF8(s) + 1
  BY Zenon DEF Stores
<1>3. PICK enc : IsBytesOf(enc, text)
  BY <1>1, BytesInSteps
<1>4. PICK flat : IsUnits(flat, text)
  BY <1>1, UnitsInSteps
<1>5. Fills(enc, text, last, r) /\ last \in 0 .. all
  <2>1. Fills(enc, text, last, r)
    BY <1>1, <1>3, FittingFills
  <2>2. QED
    BY <2>1 DEF Fills
<1>6. Text!lengthBytesUTF8(s) = Len(enc[all])
  BY <1>1, <1>3, LengthOfWhole
<1>7. all \in Nat /\ Len(enc[all]) \in Nat /\ n \in Nat \ {0} /\ n <= r
  <2>1. all \in Nat /\ all \in 0 .. all
    BY <1>1
  <2>2. \A k \in 0 .. all : Len(enc[k]) \in Nat
    BY Zenon, <1>1, <1>3, BytesGrow
  <2>3. QED
    BY <2>1, <2>2
<1> HIDE DEF s, all, last
<1>8. Fills(enc, text, last, n)
  <2>1. CASE n < r
    <3>1. Len(enc[all]) <= n - 1 /\ Len(enc[all]) <= r - 1 /\ all \in 0 .. all /\ ~(all < all)
      BY <1>2, <1>6, <1>7, <2>1
    <3>2. Fills(enc, text, all, n) /\ Fills(enc, text, all, r)
      BY Zenon, <3>1 DEF Fills, all
    <3>3. ~(all < last) /\ ~(last < all)
      BY <1>1, <1>3, <1>5, <3>2, FillsOnce
    <3>4. last = all
      BY <1>5, <1>7, <3>3
    <3>5. QED
      BY <3>2, <3>4
  <2>2. CASE ~(n < r)
    <3>1. n = r
      BY <1>7, <2>2
    <3>2. QED
      BY <1>5, <3>1
  <2>3. QED
    BY <2>1, <2>2
<1>9. Text!Encoded(s, n) = enc[last]
  BY <1>1, <1>3, <1>7, <1>8, EncodedOfWhole DEF s
<1>10. a = Text!SizeOfFirst(last)
  BY <1>1, <1>2, <1>3, <1>5, <1>9, SizesAre DEF all
<1>11. Text!UTF8ArrayToString(h) = flat[last]
  BY <1>1, <1>2, <1>3, <1>4, <1>5, <1>9, TextReadBack DEF all
<1>12. Text!Units(SubSeq(text, 1, last)) = flat[last]
  BY <1>1, <1>4, <1>5, UnitsOfFirst DEF all
<1>13. QED
  BY <1>10, <1>11, <1>12 DEF last

\* From the invariant.
LEMMA TextShown ==
  ASSUME TextInv
  PROVE  Text!TextIntact /\ Text!TypeOK
<1>1. CASE Text!Init
  <2>1. text = <<>> /\ room = 0 /\ heap = <<>> /\ copied = -1
    BY <1>1 DEF Text!Init
  <2>2. 0 \in 0 .. MaxRoom
    BY ScalarsAre
  <2>3. <<>> \in Seq(Scalar) /\ <<>> \in Seq(HeapByte) /\ -1 \in Int
    OBVIOUS
  <2>4. QED
    BY Zenon, <2>1, <2>2, <2>3 DEF Text!TextIntact, Text!TypeOK, HeapByte
<1>2. CASE CopiedWell(text, room, heap, copied)
  <2>1. /\ text \in Seq(Scalar) /\ room \in 0 .. MaxRoom /\ copied \in Int
        /\ heap \in Seq(HeapByte) /\ Len(heap) = room + 1 /\ heap[room + 1] = 255
        /\ room > 0 /\ copied >= 0 => Stores(text, room, heap, copied)
    BY <1>2 DEF CopiedWell
  <2>2. Text!TypeOK
    BY Zenon, <2>1 DEF Text!TypeOK, HeapByte
  <2>3. room \in Nat
    BY <2>1, ScalarsAre
  <2>4. \A i \in room + 1 .. Len(heap) : heap[i] = Text!Old
    <3>1. \A i \in room + 1 .. Len(heap) : i = room + 1
      BY <2>1, <2>3
    <3>2. QED
      BY <2>1, <3>1, HeapBytes
  <2>5. ASSUME room > 0, copied >= 0
        PROVE  Text!SelectInSeq(heap, LAMBDA b : b = 0) = copied + 1
    <3>1. PICK n \in 1 .. room : /\ Holds(heap, Text!Encoded(Text!Units(text), n))
                                 /\ copied = Len(Text!Encoded(Text!Units(text), n))
      BY Zenon, <2>1, <2>5 DEF Stores
    <3>2. QED
      BY <3>1, HoldsNull
  <2>6. ASSUME room > 0, copied >= 0, \A i \in DOMAIN text : ~Text!IsSurrogate(text[i])
        PROVE  /\ copied = Text!SizeOfFirst(Text!Fitting(room - 1))
               /\ Text!UTF8ArrayToString(heap) =
                    Text!Units(SubSeq(text, 1, Text!Fitting(room - 1)))
    <3>1. Whole(text) /\ Stores(text, room, heap, copied) /\ room \in Nat \ {0}
      BY <2>1, <2>3, <2>6 DEF Whole
    <3>2. QED
      BY <2>1, <3>1, WholeText
  <2>7. QED
    BY Zenon, <2>2, <2>4, <2>5, <2>6 DEF Text!TextIntact
<1>3. QED
  BY <1>1, <1>2 DEF TextInv

\* The steps of the runtime.
LEMMA RuntimeTextStep ==
  ASSUME TextInv, [RuntimeNext]_runtimeVars
  PROVE  TextInv'
<1>1. Text!Next \/ UNCHANGED textVars
  BY DEF RuntimeNext, runtimeVars
<1>2. CASE Text!Next
  BY <1>2, TextCall DEF TextInv
<1>3. CASE UNCHANGED textVars
  <2>1. text' = text /\ room' = room /\ heap' = heap /\ copied' = copied
    BY <1>3 DEF textVars
  <2>2. QED
    BY <2>1 DEF TextInv, Text!Init
<1>4. QED
  BY <1>1, <1>2, <1>3

\* After every call the byte behind the buffer is what it was, and a call that
\* gave a length stored the bytes of the text and a null (stringToUTF8,
\* intArrayFromString, _getcwd, _strftime).
THEOREM TextSound == RuntimeSpec => []TextInv
<1>1. RuntimeInit => TextInv
  BY DEF RuntimeInit, TextInv
<1>2. TextInv /\ [RuntimeNext]_runtimeVars => TextInv'
  BY RuntimeTextStep
<1>3. QED
  BY <1>1, <1>2, PTL DEF RuntimeSpec

\* What UTF8ArrayToString reads back of a text without lone surrogates is the
\* longest beginning of it that has room, cut between code points, and the length
\* that the call gave is its length in UTF-8, for every text and every buffer
\* (stringToUTF8Array, lengthBytesUTF8, and the loop of UTF8ArrayToString also
\* where the code leaves it to the TextDecoder).
THEOREM TextsIntact == RuntimeSpec => []TextIntact
<1>1. TextInv => TextIntact
  BY TextShown DEF TextIntact
<1>2. QED
  BY <1>1, TextSound, PTL

-----------------------------------------------------------------------------
(* Sequences without repetitions.                                          *)

\* No element occurs twice, and the set of them.
Distinct(s) == \A j, k \in DOMAIN s : s[j] = s[k] => j = k
Elements(s) == {s[j] : j \in DOMAIN s}

\* RemoveFirst takes the one place of an element out.
LEMMA RemoveElement ==
  ASSUME NEW S, NEW s \in Seq(S), NEW e, Distinct(s)
  PROVE  /\ Names!RemoveFirst(s, e) \in Seq(S)
         /\ Distinct(Names!RemoveFirst(s, e))
         /\ Elements(Names!RemoveFirst(s, e)) = Elements(s) \ {e}
<1> DEFINE r == Names!RemoveFirst(s, e)
<1>1. CASE e \notin Elements(s)
  <2>1. r = s
    BY <1>1 DEF Elements, Names!RemoveFirst
  <2>2. QED
    BY <1>1, <2>1
<1>2. CASE e \in Elements(s)
  <2>1. PICK i \in 1 .. Len(s) : s[i] = e
    BY <1>2 DEF Elements
  <2> DEFINE I == {k \in 1 .. Len(s) : s[k] = e}
  <2>2. I = {i}
    BY <2>1 DEF Distinct
  <2>3. Names!Min(I) = i
    BY <2>1, <2>2 DEF Names!Min
  <2>4. r = SubSeq(s, 1, i - 1) \o SubSeq(s, i + 1, Len(s))
    BY <2>1, <2>2, <2>3 DEF Names!RemoveFirst, Names!RemoveAt, Names!SelectInSeq
  <2> DEFINE p == SubSeq(s, 1, i - 1)
             q == SubSeq(s, i + 1, Len(s))
  <2>5. /\ p \in Seq(S) /\ Len(p) = i - 1
        /\ q \in Seq(S) /\ Len(q) = Len(s) - i
        /\ \A j \in 1 .. i - 1 : p[j] = s[j]
        /\ \A j \in 1 .. Len(s) - i : q[j] = s[j + i]
    BY <2>1
  <2>6. /\ r \in Seq(S) /\ Len(r) = Len(s) - 1
        /\ \A j \in 1 .. Len(s) - 1 : r[j] = IF j < i THEN s[j] ELSE s[j + 1]
    <3> HIDE DEF r, p, q
    <3>1. r = p \o q
      BY <2>4 DEF p, q
    <3>2. r \in Seq(S) /\ Len(r) = Len(s) - 1
      BY <2>1, <2>5, <3>1
    <3>3. \A j \in 1 .. Len(s) - 1 : r[j] = IF j < i THEN p[j] ELSE q[j - (i - 1)]
      BY <2>1, <2>5, <3>1
    <3>4. \A j \in 1 .. Len(s) - 1 : j >= i => q[j - (i - 1)] = s[j + 1]
      BY <2>1, <2>5
    <3>5. QED
      BY <2>1, <2>5, <3>2, <3>3, <3>4
  <2> HIDE DEF r
  <2>7. Distinct(r)
    BY <2>1, <2>6 DEF Distinct
  <2>8. Elements(r) \subseteq Elements(s) \ {e}
    BY <2>1, <2>6 DEF Elements, Distinct
  <2>9. ASSUME NEW x \in Elements(s) \ {e} PROVE x \in Elements(r)
    <3>1. PICK j \in 1 .. Len(s) : s[j] = x
      BY DEF Elements
    <3>2. CASE j < i
      BY <2>1, <2>6, <3>1, <3>2 DEF Elements
    <3>3. CASE j > i
      <4>1. j - 1 \in 1 .. Len(s) - 1 /\ r[j - 1] = s[j]
        BY <2>1, <2>6, <3>1, <3>3
      <4>2. QED
        BY <2>6, <3>1, <4>1 DEF Elements
    <3>4. QED
      BY <2>1, <3>1, <3>2, <3>3
  <2>10. QED
    BY <2>6, <2>7, <2>8, <2>9 DEF r
<1>3. QED
  BY <1>1, <1>2

\* An element put before a sequence.
LEMMA Prepended ==
  ASSUME NEW S, NEW c \in Seq(S), NEW e \in S
  PROVE  /\ <<e>> \o c \in Seq(S)
         /\ Elements(<<e>> \o c) = Elements(c) \union {e}
         /\ Distinct(c) /\ e \notin Elements(c) => Distinct(<<e>> \o c)
<1> DEFINE s == <<e>> \o c
<1>1. /\ s \in Seq(S) /\ Len(s) = Len(c) + 1 /\ s[1] = e
      /\ \A j \in 2 .. Len(c) + 1 : s[j] = c[j - 1]
      /\ DOMAIN s = 1 .. Len(c) + 1 /\ DOMAIN c = 1 .. Len(c) /\ Len(c) \in Nat
  OBVIOUS
<1> HIDE DEF s
<1>2. \A j \in DOMAIN c : j + 1 \in DOMAIN s /\ s[j + 1] = c[j]
  BY <1>1
<1>3. Elements(s) \subseteq Elements(c) \union {e}
  <2>1. ASSUME NEW j \in DOMAIN s PROVE s[j] \in Elements(c) \union {e}
    <3>1. CASE j = 1
      BY <1>1, <3>1
    <3>2. CASE j # 1
      <4>1. j - 1 \in DOMAIN c /\ s[j] = c[j - 1]
        BY <1>1, <3>2
      <4>2. QED
        BY <4>1 DEF Elements
    <3>3. QED
      BY <3>1, <3>2
  <2>2. QED
    BY <2>1 DEF Elements
<1>4. Elements(c) \subseteq Elements(s)
  BY <1>2 DEF Elements
<1>5. e \in Elements(s)
  <2>1. 1 \in DOMAIN s
    BY <1>1
  <2>2. QED
    BY <1>1, <2>1 DEF Elements
<1>6. ASSUME Distinct(c), e \notin Elements(c) PROVE Distinct(s)
  <2>1. \A j \in 1 .. Len(c) : c[j] # e
    BY <1>1, <1>6 DEF Elements
  <2>2. \A j, k \in 1 .. Len(c) : c[j] = c[k] => j = k
    BY <1>1, <1>6 DEF Distinct
  <2>3. QED
    BY <1>1, <2>1, <2>2 DEF Distinct
<1>7. QED
  BY <1>1, <1>3, <1>4, <1>5, <1>6 DEF s

\* An element put behind a sequence.
LEMMA Appended ==
  ASSUME NEW S, NEW c \in Seq(S), NEW e \in S
  PROVE  /\ Append(c, e) \in Seq(S) /\ DOMAIN Append(c, e) = 1 .. Len(c) + 1
         /\ Len(Append(c, e)) = Len(c) + 1
         /\ Append(c, e)[Len(c) + 1] = e /\ \A j \in 1 .. Len(c) : Append(c, e)[j] = c[j]
         /\ Elements(Append(c, e)) = Elements(c) \union {e}
         /\ Distinct(c) /\ e \notin Elements(c) => Distinct(Append(c, e))
<1> DEFINE s == Append(c, e)
<1>1. /\ s \in Seq(S) /\ Len(s) = Len(c) + 1 /\ s[Len(c) + 1] = e
      /\ \A j \in 1 .. Len(c) : s[j] = c[j]
      /\ DOMAIN s = 1 .. Len(c) + 1 /\ DOMAIN c = 1 .. Len(c) /\ Len(c) \in Nat
  OBVIOUS
<1> HIDE DEF s
<1>2. Elements(s) = Elements(c) \union {e}
  <2>1. Elements(s) \subseteq Elements(c) \union {e}
    BY <1>1 DEF Elements
  <2>2. Elements(c) \subseteq Elements(s)
    <3>1. \A j \in DOMAIN c : j \in DOMAIN s /\ s[j] = c[j]
      BY <1>1
    <3>2. QED
      BY <3>1 DEF Elements
  <2>3. e \in Elements(s)
    <3>1. Len(c) + 1 \in DOMAIN s
      BY <1>1
    <3>2. QED
      BY <1>1, <3>1 DEF Elements
  <2>4. QED
    BY <2>1, <2>2, <2>3
<1>3. ASSUME Distinct(c), e \notin Elements(c) PROVE Distinct(s)
  <2>1. \A j \in 1 .. Len(c) : c[j] # e
    BY <1>1, <1>3 DEF Elements
  <2>2. \A j, k \in 1 .. Len(c) : c[j] = c[k] => j = k
    BY <1>1, <1>3 DEF Distinct
  <2>3. QED
    BY <1>1, <2>1, <2>2 DEF Distinct
<1>4. QED
  BY <1>1, <1>2, <1>3 DEF s

\* A sequence read on from its a-th element to its b-th.
LEMMA ReadOn ==
  ASSUME NEW S, NEW s \in Seq(S), NEW a \in Nat, NEW b \in Nat, a <= b, b <= Len(s)
  PROVE  /\ SubSeq(s, a + 1, b) \in Seq(S) /\ Len(SubSeq(s, a + 1, b)) = b - a
         /\ SubSeq(s, 1, b) \in Seq(S) /\ Len(SubSeq(s, 1, b)) = b
         /\ SubSeq(s, 1, a) \o SubSeq(s, a + 1, b) = SubSeq(s, 1, b)
<1> DEFINE p == SubSeq(s, 1, a)
           q == SubSeq(s, a + 1, b)
           r == SubSeq(s, 1, b)
<1>1. p \in Seq(S) /\ Len(p) = a /\ \A i \in 1 .. a : p[i] = s[i]
  OBVIOUS
<1>2. q \in Seq(S) /\ Len(q) = b - a /\ \A i \in 1 .. b - a : q[i] = s[a + i]
  <2>1. \A i \in (a + 1) .. b : s[i] \in S
    OBVIOUS
  <2>2. Len(q) = b - a
    OBVIOUS
  <2>3. \A i \in 1 .. b - a : q[i] = s[a + i]
    OBVIOUS
  <2>4. q \in Seq(S)
    OBVIOUS
  <2>5. QED
    BY <2>2, <2>3, <2>4
<1>3. r \in Seq(S) /\ Len(r) = b /\ \A i \in 1 .. b : r[i] = s[i]
  OBVIOUS
<1> HIDE DEF p, q, r
<1>4. p \o q \in Seq(S) /\ Len(p \o q) = b
  <2>1. p \in Seq(S) /\ q \in Seq(S)
    BY <1>1, <1>2
  <2>2. p \o q \in Seq(S) /\ Len(p \o q) = Len(p) + Len(q)
    BY <2>1
  <2>3. Len(p) + Len(q) = b
    BY <1>1, <1>2
  <2>4. QED
    BY <2>2, <2>3
<1>5. ASSUME NEW i \in 1 .. b PROVE (p \o q)[i] = r[i]
  <2>0. i \in Nat /\ 1 <= i /\ i <= b /\ Len(p) = a /\ Len(q) = b - a
        /\ p \in Seq(S) /\ q \in Seq(S)
    BY <1>1, <1>2
  <2>1. CASE i <= a
    <3>1. (p \o q)[i] = p[i]
      BY <1>1, <1>2, <2>0, <2>1
    <3>2. p[i] = s[i] /\ r[i] = s[i]
      BY <1>1, <1>3, <2>0, <2>1
    <3>3. QED
      BY <3>1, <3>2
  <2>2. CASE i > a
    <3>0. i - a \in 1 .. b - a /\ a + (i - a) = i
      BY <2>0, <2>2
    <3>1. (p \o q)[i] = q[i - a] /\ i - a \in 1 .. b - a /\ a + (i - a) = i
      BY <1>1, <1>2, <2>0, <2>2, <3>0
    <3>2. q[i - a] = s[i]
      BY <1>2, <3>1
    <3>4. r[i] = s[i]
      BY <1>3, <2>0
    <3>3. QED
      BY <3>1, <3>2, <3>4
  <2>3. i <= a \/ i > a
    BY <2>0
  <2>4. QED
    BY <2>1, <2>2, <2>3
<1>6. p \o q = r
  BY <1>3, <1>4, <1>5
<1>7. QED
  BY <1>2, <1>3, <1>6 DEF p, q, r

\* Min of the community modules, for two numbers.
LEMMA LesserOfTwo ==
  ASSUME NEW a \in Nat, NEW b \in Nat
  PROVE  Names!Min({a, b}) = IF a <= b THEN a ELSE b
BY DEF Names!Min

-----------------------------------------------------------------------------
(* The nodes and their table.  fs is a system: nodes and a table.          *)

\* The types of the nodes of a file system, and of file systems.
Nodes == [parent : Nat, name : Name \union {""}, kind : {"dir", "file"},
          writable : BOOLEAN, contents : Seq(Name)]
Systems == [node : Seq(Nodes), table : [0 .. Buckets - 1 -> Seq(Nat)]]

\* The ids of nodes other than the root.
Inner(fs) == DOMAIN fs.node \ {1}

\* Every node is made under one made before; the root is under itself.
Climbing(fs) ==
  /\ 1 \in DOMAIN fs.node /\ fs.node[1].parent = 1 /\ fs.node[1].kind = "dir"
  /\ \A i \in Inner(fs) : fs.node[i].parent \in 1 .. i - 1 /\ fs.node[i].name \in Name

\* The bucket of node i.
BucketOf(fs, i) == Names!hashName(fs.node[i].parent, fs.node[i].name)

\* Whether node i is in the table, as those that were not removed are.
Filed(fs, i) == i \in Inner(fs) /\ i \in Elements(fs.table[BucketOf(fs, i)])

\* A bucket holds nodes of its own, each once.
Chained(fs) ==
  \A b \in 0 .. Buckets - 1 :
    /\ Distinct(fs.table[b])
    /\ \A i \in Elements(fs.table[b]) : i \in Inner(fs) /\ BucketOf(fs, i) = b

\* No two entries of a directory have one name.
Single(fs) ==
  \A i, j \in Inner(fs) :
    /\ Filed(fs, i) /\ Filed(fs, j)
    /\ fs.node[i].parent = fs.node[j].parent /\ fs.node[i].name = fs.node[j].name
    => i = j

\* What is in the table is under a directory that is.
Rooted(fs) ==
  \A i \in Inner(fs) : Filed(fs, i) =>
    LET d == fs.node[i].parent IN fs.node[d].kind = "dir" /\ (d = 1 \/ Filed(fs, d))

\* The contents of a directory are the names of its entries, each once.
Listed(fs) ==
  \A d \in DOMAIN fs.node :
    /\ Distinct(fs.node[d].contents)
    /\ Elements(fs.node[d].contents) =
         {fs.node[i].name : i \in {i \in Inner(fs) : Filed(fs, i) /\ fs.node[i].parent = d}}

\* A file system in order.
Sound(fs) ==
  fs \in Systems /\ Climbing(fs) /\ Chained(fs) /\ Single(fs) /\ Rooted(fs) /\ Listed(fs)

\* What mknod makes is a node.
LEMMA NewNode ==
  ASSUME NEW d \in Nat, NEW n \in Name, NEW kind \in {"dir", "file"}, NEW w \in BOOLEAN
  PROVE  [parent |-> d, name |-> n, kind |-> kind, writable |-> w, contents |-> <<>>] \in Nodes
<1>1. << >> \in Seq(Name)
  OBVIOUS
<1>2. n \in Name \union {""}
  OBVIOUS
<1>3. QED
  BY <1>1, <1>2 DEF Nodes

\* A node whose listing changed is still that node.
LEMMA NodeWithContents ==
  ASSUME NEW x \in Nodes, NEW c \in Seq(Name)
  PROVE  /\ [x EXCEPT !.contents = c] \in Nodes
         /\ [x EXCEPT !.contents = c].contents = c
         /\ [x EXCEPT !.contents = c].parent = x.parent
         /\ [x EXCEPT !.contents = c].name = x.name
         /\ [x EXCEPT !.contents = c].kind = x.kind
BY DEF Nodes

\* A node lists names.
LEMMA NodeContents ==
  ASSUME NEW x \in Nodes
  PROVE  x.contents \in Seq(Name)
BY DEF Nodes

\* The node that FS.lookupNode finds.
Child(fs, d, n) == Names!LookupNode(fs, d, n)

\* What the assumption says of the constants of RuntimeFiles.
LEMMA Constants ==
  /\ "." \notin Name /\ ".." \notin Name
  /\ NameHash \in [Name -> Nat] /\ Buckets \in Nat \ {0} /\ Fd \subseteq Nat
  /\ Room \in Nat \ {0} /\ MaxOpens \in Nat
  /\ Default \in Seq(Name) /\ \A i \in DOMAIN Default : <<Default[i]>> \in Path
  /\ <<>> \in Path /\ Path \subseteq Seq(Name)
  /\ \A p \in Path : \A n \in 0 .. Len(p) : SubSeq(p, 1, n) \in Path
BY RuntimeAssumption DEF Names!ConstantsOK

\* A hash is the number of a bucket.
LEMMA HashInTable ==
  ASSUME NEW d \in Nat, NEW n \in Name
  PROVE  Names!hashName(d, n) \in 0 .. Buckets - 1
<1>1. NameHash[n] \in Nat /\ Buckets \in Nat /\ Buckets > 0
  BY Constants
<1> DEFINE h == d + NameHash[n]
<1>2. h \in Nat
  BY <1>1
<1>3. h % Buckets \in 0 .. Buckets - 1
  <2> HIDE DEF h
  <2>1. QED
    BY <1>1, <1>2
<1>4. QED
  BY <1>3 DEF Names!hashName

\* So is that of the bucket a node is filed in.
LEMMA BucketInTable ==
  ASSUME NEW fs, fs \in Systems, Climbing(fs), NEW i \in Inner(fs)
  PROVE  BucketOf(fs, i) \in 0 .. Buckets - 1
<1>1. fs.node[i].parent \in Nat /\ fs.node[i].name \in Name
  BY DEF Climbing, Systems, Inner
<1>2. QED
  BY <1>1, HashInTable DEF BucketOf

\* lookupNode finds the node of that parent and name that is in the table.
LEMMA ChildIs ==
  ASSUME NEW fs, Sound(fs), NEW d \in Nat, NEW n \in Name
  PROVE  /\ Child(fs, d, n) \in Nat
         /\ \A i \in Nat \ {0} : Child(fs, d, n) = i <=>
              Filed(fs, i) /\ fs.node[i].parent = d /\ fs.node[i].name = n
<1> DEFINE b == Names!hashName(d, n)
           chain == fs.table[b]
           found == {k \in DOMAIN chain : fs.node[chain[k]].parent = d
                                          /\ fs.node[chain[k]].name = n}
<1>1. b \in 0 .. Buckets - 1
  BY HashInTable
<1>2. chain \in Seq(Nat)
  BY <1>1 DEF Sound, Systems
<1>3. ASSUME NEW k \in found
      PROVE  /\ chain[k] \in Nat \ {0} /\ d # 0
             /\ Filed(fs, chain[k]) /\ fs.node[chain[k]].parent = d
             /\ fs.node[chain[k]].name = n
  <2>1. chain[k] \in Inner(fs) /\ chain[k] \in Elements(chain) /\ BucketOf(fs, chain[k]) = b
    BY <1>1 DEF Sound, Chained, Elements
  <2>2. chain[k] \in Nat \ {0}
    BY <2>1 DEF Inner, Sound, Systems
  <2>3. QED
    BY <2>1, <2>2 DEF Filed, Sound, Climbing
<1>4. ASSUME NEW i \in Nat \ {0}, Filed(fs, i), fs.node[i].parent = d, fs.node[i].name = n
      PROVE  \E k \in found : chain[k] = i
  BY <1>4 DEF Filed, BucketOf, Elements
<1>5. Child(fs, d, n) = IF d = 0 \/ found = {} THEN 0 ELSE chain[Names!Min(found)]
  BY DEF Child, Names!LookupNode
<1>6. CASE found = {}
  <2>1. \A i \in Nat \ {0} : ~(Filed(fs, i) /\ fs.node[i].parent = d /\ fs.node[i].name = n)
    BY <1>4, <1>6
  <2>2. Child(fs, d, n) = 0
    BY <1>5, <1>6
  <2>3. QED
    BY <2>1, <2>2
<1>7. CASE found # {}
  <2>1. found \subseteq Nat
    BY <1>2
  <2>2. Names!Min(found) \in found
    BY <1>7, <2>1, LeastNumber DEF Names!Min
  <2>3. PICK k \in found : Child(fs, d, n) = chain[k]
    BY <1>3, <1>5, <1>7, <2>2
  <2>4. \A i \in Nat \ {0} : Filed(fs, i) /\ fs.node[i].parent = d /\ fs.node[i].name = n
                               => i = chain[k]
    BY <1>3, <2>3 DEF Sound, Single, Filed
  <2>5. QED
    BY <1>3, <2>3, <2>4
<1>8. QED
  BY <1>6, <1>7

\* A node that is found is filed, under the name it was asked for.
LEMMA ChildFiled ==
  ASSUME NEW fs, Sound(fs), NEW d \in Nat, NEW n \in Name, Child(fs, d, n) # 0
  PROVE  LET i == Child(fs, d, n)
         IN i \in Nat \ {0} /\ Filed(fs, i) /\ fs.node[i].parent = d /\ fs.node[i].name = n
<1> DEFINE i == Child(fs, d, n)
<1>1. i \in Nat \ {0}
  BY ChildIs
<1> HIDE DEF i
<1>2. i = Child(fs, d, n)
  BY DEF i
<1>3. Filed(fs, i) /\ fs.node[i].parent = d /\ fs.node[i].name = n
  BY <1>1, <1>2, ChildIs
<1>4. QED
  BY <1>1, <1>3 DEF i

\* A node that is filed is found.
LEMMA FiledChild ==
  ASSUME NEW fs, Sound(fs), NEW i, Filed(fs, i)
  PROVE  Child(fs, fs.node[i].parent, fs.node[i].name) = i
<1>1. i \in Nat \ {0} /\ fs.node[i].parent \in Nat /\ fs.node[i].name \in Name
  BY DEF Filed, Inner, Sound, Climbing, Systems
<1> DEFINE d == fs.node[i].parent
           n == fs.node[i].name
<1>2. d \in Nat /\ n \in Name
  BY <1>1
<1>3. fs.node[i].parent = d /\ fs.node[i].name = n
  OBVIOUS
<1> HIDE DEF d, n
<1>4. Child(fs, d, n) = i
  BY <1>1, <1>2, <1>3, ChildIs
<1>5. QED
  BY <1>4 DEF d, n

\* The directories in use.
Directory(fs, d) ==
  d \in DOMAIN fs.node /\ fs.node[d].kind = "dir" /\ (d = 1 \/ Filed(fs, d))

\* The nodes of fs are in g as they are in fs, but for their contents.
Kept(fs, g) ==
  \A i \in DOMAIN fs.node :
    /\ i \in DOMAIN g.node
    /\ g.node[i].parent = fs.node[i].parent /\ g.node[i].name = fs.node[i].name
    /\ g.node[i].kind = fs.node[i].kind

\* createNode adds one entry to the table, and its name to its directory.
LEMMA CreatedSound ==
  ASSUME NEW fs, Sound(fs), NEW d, Directory(fs, d), NEW n \in Name, Child(fs, d, n) = 0,
         NEW kind \in {"dir", "file"}, NEW w \in BOOLEAN
  PROVE  LET g == Names!Created(fs, d, n, kind, w)
             id == Len(fs.node) + 1
         IN /\ Sound(g) /\ Kept(fs, g) /\ id \notin DOMAIN fs.node /\ id \in Nat \ {0, 1}
            /\ DOMAIN g.node = DOMAIN fs.node \union {id}
            /\ g.node[id].parent = d /\ g.node[id].name = n /\ g.node[id].kind = kind
            /\ \A i \in DOMAIN g.node : Filed(g, i) <=> Filed(fs, i) \/ i = id
<1> DEFINE g == Names!Created(fs, d, n, kind, w)
           id == Len(fs.node) + 1
           new == [parent |-> d, name |-> n, kind |-> kind, writable |-> w, contents |-> <<>>]
           old == [fs.node EXCEPT ![d].contents = Append(@, n)]
           h == Names!hashName(d, n)
<1>1. /\ fs.node \in Seq(Nodes) /\ fs.table \in [0 .. Buckets - 1 -> Seq(Nat)]
      /\ d \in Nat \ {0} /\ id \in Nat \ {0} /\ id \notin DOMAIN fs.node /\ id # 1
      /\ DOMAIN fs.node = 1 .. id - 1 /\ d < id
  BY DEF Sound, Systems, Directory, Climbing
<1>2. /\ g.node = Append(old, new) /\ g.table = [fs.table EXCEPT ![h] = <<id>> \o @]
      /\ g = [node |-> g.node, table |-> g.table]
  BY DEF Names!Created
<1>3. h \in 0 .. Buckets - 1
  BY <1>1, HashInTable
<1>4. /\ old \in Seq(Nodes) /\ Len(old) = id - 1
      /\ \A i \in DOMAIN fs.node :
           old[i] = IF i = d THEN [fs.node[d] EXCEPT !.contents = Append(fs.node[d].contents, n)]
                    ELSE fs.node[i]
  <2>1. d \in DOMAIN fs.node /\ fs.node[d] \in Nodes
    BY <1>1 DEF Directory
  <2>2. Append(fs.node[d].contents, n) \in Seq(Name)
    BY <2>1, NodeContents, Appended
  <2>3. [fs.node[d] EXCEPT !.contents = Append(fs.node[d].contents, n)] \in Nodes
    BY <2>1, <2>2, NodeWithContents
  <2>4. old = [fs.node EXCEPT ![d] =
                 [fs.node[d] EXCEPT !.contents = Append(fs.node[d].contents, n)]]
    BY <2>1
  <2> HIDE DEF old
  <2>5. QED
    BY <1>1, <2>1, <2>3, <2>4
<1>5. new \in Nodes
  BY <1>1, NewNode
<1> HIDE DEF g, id, new, old, h
<1>6. /\ g.node \in Seq(Nodes) /\ DOMAIN g.node = DOMAIN fs.node \union {id} /\ Len(g.node) = id
      /\ g.node[id] = new
      /\ \A i \in DOMAIN fs.node :
           g.node[i] = IF i = d THEN [fs.node[d] EXCEPT !.contents = Append(fs.node[d].contents, n)]
                       ELSE fs.node[i]
  <2>1. /\ g.node \in Seq(Nodes) /\ Len(g.node) = Len(old) + 1 /\ g.node[Len(old) + 1] = new
        /\ \A i \in 1 .. Len(old) : g.node[i] = old[i]
        /\ DOMAIN g.node = 1 .. Len(old) + 1
    BY <1>2, <1>4, <1>5, Appended
  <2>2. Len(old) + 1 = id /\ 1 .. Len(old) = DOMAIN fs.node
    BY <1>1, <1>4
  <2>3. DOMAIN g.node = DOMAIN fs.node \union {id}
    BY <1>1, <2>1, <2>2
  <2>4. \A i \in DOMAIN fs.node : g.node[i] = old[i]
    BY <2>1, <2>2
  <2>5. QED
    BY <1>4, <2>1, <2>2, <2>3, <2>4
<1>7. Kept(fs, g)
  <2>1. \A i \in DOMAIN fs.node : fs.node[i] \in Nodes
    BY <1>1
  <2>2. fs.node[d] \in Nodes /\ Append(fs.node[d].contents, n) \in Seq(Name)
    BY <2>1, NodeContents, Appended DEF Directory
  <2>3. /\ [fs.node[d] EXCEPT !.contents = Append(fs.node[d].contents, n)].parent = fs.node[d].parent
        /\ [fs.node[d] EXCEPT !.contents = Append(fs.node[d].contents, n)].name = fs.node[d].name
        /\ [fs.node[d] EXCEPT !.contents = Append(fs.node[d].contents, n)].kind = fs.node[d].kind
    BY <2>2, NodeWithContents
  <2>4. QED
    BY <1>6, <2>3 DEF Kept
<1>8. g.node[id].parent = d /\ g.node[id].name = n /\ g.node[id].kind = kind
      /\ g.node[id].contents = << >>
  BY <1>6 DEF new
<1>9. /\ g.table \in [0 .. Buckets - 1 -> Seq(Nat)]
      /\ \A b \in 0 .. Buckets - 1 : b # h => g.table[b] = fs.table[b]
      /\ g.table[h] = <<id>> \o fs.table[h]
  <2>1. fs.table[h] \in Seq(Nat)
    BY <1>1, <1>3
  <2>2. <<id>> \o fs.table[h] \in Seq(Nat)
    BY <1>1, <2>1, Prepended
  <2>3. QED
    BY <1>1, <1>2, <1>3, <2>2
<1>10. Elements(<<id>> \o fs.table[h]) = Elements(fs.table[h]) \union {id}
  BY <1>1, <1>3, Prepended
<1>11. Inner(g) = Inner(fs) \union {id} /\ \A i \in Inner(fs) : i \in DOMAIN fs.node
  BY <1>1, <1>6 DEF Inner
<1>12. \A i \in Inner(fs) : BucketOf(g, i) = BucketOf(fs, i)
  BY <1>7, <1>11 DEF BucketOf, Kept
<1>13. BucketOf(g, id) = h
  BY <1>8 DEF BucketOf, h
<1>14. \A i \in Inner(fs) : BucketOf(fs, i) \in 0 .. Buckets - 1
  BY BucketInTable DEF Sound
<1>15. \A i \in DOMAIN g.node : Filed(g, i) <=> Filed(fs, i) \/ i = id
  BY <1>1, <1>3, <1>9, <1>10, <1>11, <1>12, <1>13, <1>14 DEF Filed, Inner
<1>16. Climbing(g)
  <2>1. 1 \in DOMAIN g.node /\ g.node[1].parent = 1 /\ g.node[1].kind = "dir"
    BY <1>6, <1>7 DEF Sound, Climbing, Kept
  <2>2. \A i \in Inner(fs) : g.node[i].parent \in 1 .. i - 1 /\ g.node[i].name \in Name
    BY <1>7, <1>11 DEF Sound, Climbing, Kept
  <2>3. g.node[id].parent \in 1 .. id - 1 /\ g.node[id].name \in Name
    BY <1>1, <1>8
  <2>4. QED
    BY <2>1, <2>2, <2>3, <1>11 DEF Climbing
<1>17. Chained(g)
  <2>1. id \notin Elements(fs.table[h])
    BY <1>1, <1>3 DEF Sound, Chained, Inner
  <2>2. Distinct(<<id>> \o fs.table[h])
    <3>1. fs.table[h] \in Seq(Nat) /\ Distinct(fs.table[h])
      BY <1>1, <1>3 DEF Sound, Chained
    <3>2. QED
      BY <1>1, <2>1, <3>1, Prepended
  <2>3. SUFFICES ASSUME NEW b \in 0 .. Buckets - 1
                 PROVE  /\ Distinct(g.table[b])
                        /\ \A i \in Elements(g.table[b]) : i \in Inner(g) /\ BucketOf(g, i) = b
    BY DEF Chained
  <2>4. /\ Distinct(fs.table[b])
        /\ \A i \in Elements(fs.table[b]) : i \in Inner(g) /\ BucketOf(g, i) = b
    BY <1>11, <1>12 DEF Sound, Chained
  <2>5. CASE b = h
    BY <2>2, <2>4, <2>5, <1>9, <1>10, <1>11, <1>13
  <2>6. CASE b # h
    BY <2>4, <2>6, <1>9
  <2>7. QED
    BY <2>5, <2>6
<1>18. \A i \in Inner(fs) : Filed(fs, i) => ~(fs.node[i].parent = d /\ fs.node[i].name = n)
  <2>1. \A i \in Nat \ {0} : ~(Filed(fs, i) /\ fs.node[i].parent = d /\ fs.node[i].name = n)
    BY <1>1, ChildIs
  <2>2. QED
    BY <1>1, <1>11, <2>1
<1>19. Single(g)
  <2>0. \A i \in Inner(fs) : i # id /\ i \in DOMAIN g.node /\ i \in DOMAIN fs.node
    BY <1>1, <1>6 DEF Inner
  <2>1. \A i \in Inner(fs) :
           /\ g.node[i].parent = fs.node[i].parent /\ g.node[i].name = fs.node[i].name
           /\ Filed(g, i) => Filed(fs, i)
    BY <2>0, <1>7, <1>15 DEF Kept
  <2>2. \A i, j \in Inner(fs) :
           /\ Filed(g, i) /\ Filed(g, j)
           /\ g.node[i].parent = g.node[j].parent /\ g.node[i].name = g.node[j].name
           => i = j
    <3>1. Single(fs)
      BY DEF Sound
    <3>2. SUFFICES ASSUME NEW i \in Inner(fs), NEW j \in Inner(fs), Filed(g, i), Filed(g, j),
                          g.node[i].parent = g.node[j].parent, g.node[i].name = g.node[j].name
                   PROVE  i = j
      OBVIOUS
    <3>3. /\ Filed(fs, i) /\ Filed(fs, j)
          /\ fs.node[i].parent = fs.node[j].parent /\ fs.node[i].name = fs.node[j].name
      BY <2>1, <3>2
    <3>4. QED
      BY <3>1, <3>3 DEF Single
  <2>3. \A i \in Inner(fs) : Filed(g, i) => ~(g.node[i].parent = d /\ g.node[i].name = n)
    BY <2>1, <1>18
  <2>4. QED
    BY <2>2, <2>3, <1>8, <1>11 DEF Single
<1>20. Rooted(g)
  <2>1. SUFFICES ASSUME NEW i \in Inner(g), Filed(g, i)
                 PROVE  LET p == g.node[i].parent
                        IN g.node[p].kind = "dir" /\ (p = 1 \/ Filed(g, p))
    BY DEF Rooted
  <2>2. CASE i = id
    <3>1. g.node[d].kind = "dir" /\ (d = 1 \/ Filed(g, d))
      BY <1>6, <1>7, <1>15 DEF Directory, Kept
    <3>2. QED
      BY <2>2, <3>1, <1>8
  <2>3. CASE i # id
    <3>1. i \in Inner(fs) /\ Filed(fs, i) /\ g.node[i].parent = fs.node[i].parent
      BY <2>1, <2>3, <1>7, <1>11, <1>15 DEF Kept, Inner
    <3> DEFINE p == fs.node[i].parent
    <3>2. p \in DOMAIN fs.node
      BY <1>1, <3>1 DEF Sound, Climbing, Inner
    <3>3. fs.node[p].kind = "dir" /\ (p = 1 \/ Filed(fs, p))
      BY <3>1 DEF Sound, Rooted
    <3>4. QED
      BY <3>1, <3>2, <3>3, <1>6, <1>7, <1>15 DEF Kept
  <2>4. QED
    BY <2>2, <2>3
<1>21. Listed(g)
  <2>1. SUFFICES ASSUME NEW e \in DOMAIN g.node
                 PROVE  /\ Distinct(g.node[e].contents)
                        /\ Elements(g.node[e].contents) =
                             {g.node[i].name : i \in {i \in Inner(g) : Filed(g, i)
                                                                       /\ g.node[i].parent = e}}
    BY DEF Listed
  <2> DEFINE In(x, e1) == {i \in Inner(x) : Filed(x, i) /\ x.node[i].parent = e1}
  <2>2. In(g, e) = IF e = d THEN In(fs, e) \union {id} ELSE In(fs, e)
    BY <1>1, <1>6, <1>7, <1>8, <1>11, <1>15 DEF Kept, Inner
  <2>3. \A i \in In(fs, e) : g.node[i].name = fs.node[i].name
    BY <1>7, <1>11 DEF Kept
  <2>4. CASE e = id
    <3>1. In(fs, e) = {} /\ e # d
      BY <1>1, <2>4, <1>11 DEF Sound, Climbing, Inner
    <3>2. g.node[e].contents = << >>
      BY <1>8, <2>4
    <3>3. QED
      BY <2>2, <3>1, <3>2 DEF Distinct, Elements
  <2>5. CASE e # id /\ e # d
    <3>1. e \in DOMAIN fs.node /\ g.node[e].contents = fs.node[e].contents
      BY <1>6, <2>5
    <3>2. In(g, e) = In(fs, e)
      BY <2>2, <2>5
    <3>3. QED
      BY <2>3, <3>1, <3>2 DEF Sound, Listed
  <2>6. CASE e = d
    <3> DEFINE c == fs.node[d].contents
    <3>1. d \in DOMAIN fs.node /\ fs.node[d] \in Nodes
      BY <1>1 DEF Directory
    <3>2. c \in Seq(Name) /\ g.node[e].contents = Append(c, n)
      <4>1. c \in Seq(Name) /\ Append(c, n) \in Seq(Name)
        BY <3>1, NodeContents, Appended
      <4>2. [fs.node[d] EXCEPT !.contents = Append(c, n)].contents = Append(c, n)
        BY <3>1, <4>1, NodeWithContents
      <4>3. g.node[d] = [fs.node[d] EXCEPT !.contents = Append(c, n)]
        BY <1>6, <3>1
      <4>4. QED
        BY <2>6, <4>1, <4>2, <4>3
    <3>3. Distinct(c) /\ Elements(c) = {fs.node[i].name : i \in In(fs, d)}
      BY <3>1 DEF Sound, Listed
    <3>4. n \notin Elements(c)
      BY <3>3, <1>18
    <3> HIDE DEF c
    <3>6. Distinct(Append(c, n)) /\ Elements(Append(c, n)) = Elements(c) \union {n}
      BY <3>2, <3>3, <3>4, Appended
    <3>8. {g.node[i].name : i \in In(g, e)} = {fs.node[i].name : i \in In(fs, d)} \union {n}
      <4>1. In(g, e) = In(fs, d) \union {id}
        BY <2>2, <2>6
      <4> HIDE DEF In
      <4>2. QED
        BY <2>3, <2>6, <4>1, <1>8
    <3>9. QED
      BY <3>2, <3>3, <3>6, <3>8
  <2>7. QED
    BY <2>4, <2>5, <2>6
<1>22. g \in Systems
  BY <1>2, <1>6, <1>9 DEF Systems
<1>23. Sound(g)
  BY <1>16, <1>17, <1>19, <1>20, <1>21, <1>22 DEF Sound
<1>24. QED
  BY <1>1, <1>6, <1>7, <1>8, <1>15, <1>23 DEF g, id

\* destroyNode takes an entry that has none under it out of the table, and its
\* name out of its directory.
LEMMA RemovedSound ==
  ASSUME NEW fs, Sound(fs), NEW id, Filed(fs, id),
         \A j \in Inner(fs) : Filed(fs, j) => fs.node[j].parent # id
  PROVE  LET g == Names!Removed(fs, id)
         IN /\ Sound(g) /\ Kept(fs, g) /\ DOMAIN g.node = DOMAIN fs.node
            /\ \A i \in DOMAIN g.node : Filed(g, i) <=> Filed(fs, i) /\ i # id
            /\ \A i \in DOMAIN g.node : i # fs.node[id].parent =>
                 g.node[i].contents = fs.node[i].contents
<1> DEFINE g == Names!Removed(fs, id)
           d == fs.node[id].parent
           n == fs.node[id].name
           h == BucketOf(fs, id)
           c == fs.node[d].contents
           cc == Names!RemoveFirst(c, n)
           chain == Names!RemoveFirst(fs.table[h], id)
<1>1. /\ fs.node \in Seq(Nodes) /\ fs.table \in [0 .. Buckets - 1 -> Seq(Nat)]
      /\ id \in Inner(fs) /\ id \in Nat \ {0, 1} /\ d \in 1 .. id - 1 /\ n \in Name
      /\ d \in Nat \ {0} /\ d # id /\ d \in DOMAIN fs.node
  BY DEF Sound, Systems, Climbing, Filed, Inner
<1>2. /\ g.node = [fs.node EXCEPT ![d].contents = cc]
      /\ g.table = [fs.table EXCEPT ![h] = chain]
      /\ g = [node |-> g.node, table |-> g.table]
  BY DEF Names!Removed, Names!Unhashed, BucketOf
<1>3. h \in 0 .. Buckets - 1
  BY <1>1, BucketInTable DEF Sound
<1>4. /\ c \in Seq(Name) /\ Distinct(c)
      /\ Elements(c) = {fs.node[i].name : i \in {i \in Inner(fs) : Filed(fs, i)
                                                                  /\ fs.node[i].parent = d}}
  <2>1. fs.node[d] \in Nodes
    BY <1>1
  <2>2. c \in Seq(Name)
    BY <2>1, NodeContents
  <2>3. Listed(fs) /\ d \in DOMAIN fs.node
    BY <1>1 DEF Sound
  <2>4. QED
    BY <2>2, <2>3 DEF Listed
<1>5. cc \in Seq(Name) /\ Distinct(cc) /\ Elements(cc) = Elements(c) \ {n}
  <2> HIDE DEF c
  <2>1. QED
    BY <1>4, RemoveElement
<1>6. /\ fs.table[h] \in Seq(Nat) /\ Distinct(fs.table[h])
      /\ chain \in Seq(Nat) /\ Distinct(chain) /\ Elements(chain) = Elements(fs.table[h]) \ {id}
  <2>1. fs.table[h] \in Seq(Nat) /\ Distinct(fs.table[h])
    BY <1>1, <1>3 DEF Sound, Chained
  <2>2. QED
    BY <2>1, RemoveElement
<1>7. [fs.node[d] EXCEPT !.contents = cc] \in Nodes
  BY <1>1, <1>5, NodeWithContents
<1> HIDE DEF g, h, cc, chain
<1>8. /\ g.node \in Seq(Nodes) /\ DOMAIN g.node = DOMAIN fs.node
      /\ \A i \in DOMAIN fs.node :
           g.node[i] = IF i = d THEN [fs.node[d] EXCEPT !.contents = cc] ELSE fs.node[i]
  <2>1. g.node = [fs.node EXCEPT ![d] = [fs.node[d] EXCEPT !.contents = cc]]
    BY <1>1, <1>2
  <2>2. QED
    BY <1>1, <1>7, <2>1
<1>9. /\ g.node[d].contents = cc
      /\ \A i \in DOMAIN fs.node : i # d => g.node[i].contents = fs.node[i].contents
  <2>1. fs.node[d] \in Nodes /\ d \in DOMAIN fs.node
    BY <1>1
  <2>2. [fs.node[d] EXCEPT !.contents = cc].contents = cc
    BY <1>5, <2>1, NodeWithContents
  <2>3. QED
    BY <1>8, <2>1, <2>2
<1>10. Kept(fs, g)
  <2>1. /\ [fs.node[d] EXCEPT !.contents = cc].parent = fs.node[d].parent
        /\ [fs.node[d] EXCEPT !.contents = cc].name = fs.node[d].name
        /\ [fs.node[d] EXCEPT !.contents = cc].kind = fs.node[d].kind
    BY <1>1, <1>5, NodeWithContents
  <2>2. QED
    BY <1>8, <2>1 DEF Kept
<1>11. /\ g.table \in [0 .. Buckets - 1 -> Seq(Nat)] /\ g.table[h] = chain
       /\ \A b \in 0 .. Buckets - 1 : b # h => g.table[b] = fs.table[b]
  BY <1>1, <1>2, <1>3, <1>6
<1>12. Inner(g) = Inner(fs) /\ \A i \in Inner(fs) : i \in DOMAIN fs.node
  BY <1>8 DEF Inner
<1>13. \A i \in Inner(fs) : BucketOf(g, i) = BucketOf(fs, i)
  BY <1>10, <1>12 DEF BucketOf, Kept
<1>14. \A i \in Inner(fs) : BucketOf(fs, i) \in 0 .. Buckets - 1
  BY BucketInTable DEF Sound
<1>15. \A i \in DOMAIN g.node : Filed(g, i) <=> Filed(fs, i) /\ i # id
  <2>1. SUFFICES ASSUME NEW i \in Inner(fs)
                 PROVE  i \in Elements(g.table[BucketOf(fs, i)]) <=>
                          i \in Elements(fs.table[BucketOf(fs, i)]) /\ i # id
    BY <1>12, <1>13 DEF Filed
  <2>2. CASE BucketOf(fs, i) = h
    BY <2>2, <1>6, <1>11
  <2>3. CASE BucketOf(fs, i) # h
    BY <2>3, <1>11, <1>14 DEF h
  <2>4. QED
    BY <2>2, <2>3
<1>16. \A i \in Inner(fs) :
         /\ g.node[i].parent = fs.node[i].parent /\ g.node[i].name = fs.node[i].name
         /\ Filed(g, i) => Filed(fs, i)
  BY <1>8, <1>10, <1>12, <1>15 DEF Kept
<1>17. Climbing(g)
  <2>1. 1 \in DOMAIN g.node /\ g.node[1].parent = 1 /\ g.node[1].kind = "dir"
    BY <1>8, <1>10 DEF Sound, Climbing, Kept
  <2>2. QED
    BY <2>1, <1>12, <1>16 DEF Sound, Climbing
<1>18. Chained(g)
  <2>1. SUFFICES ASSUME NEW b \in 0 .. Buckets - 1
                 PROVE  /\ Distinct(g.table[b])
                        /\ \A i \in Elements(g.table[b]) : i \in Inner(g) /\ BucketOf(g, i) = b
    BY DEF Chained
  <2>2. /\ Distinct(fs.table[b])
        /\ \A i \in Elements(fs.table[b]) : i \in Inner(g) /\ BucketOf(g, i) = b
    BY <1>12, <1>13 DEF Sound, Chained
  <2>3. CASE b = h
    BY <2>2, <2>3, <1>6, <1>11
  <2>4. CASE b # h
    BY <2>2, <2>4, <1>11
  <2>5. QED
    BY <2>3, <2>4
<1>19. Single(g)
  <2>1. SUFFICES ASSUME NEW i \in Inner(fs), NEW j \in Inner(fs), Filed(g, i), Filed(g, j),
                        g.node[i].parent = g.node[j].parent, g.node[i].name = g.node[j].name
                 PROVE  i = j
    BY <1>12 DEF Single
  <2>2. /\ Filed(fs, i) /\ Filed(fs, j)
        /\ fs.node[i].parent = fs.node[j].parent /\ fs.node[i].name = fs.node[j].name
    BY <2>1, <1>16
  <2>3. QED
    BY <2>2 DEF Sound, Single
<1>20. Rooted(g)
  <2>1. SUFFICES ASSUME NEW i \in Inner(fs), Filed(g, i)
                 PROVE  LET p == g.node[i].parent
                        IN g.node[p].kind = "dir" /\ (p = 1 \/ Filed(g, p))
    BY <1>12 DEF Rooted
  <2> DEFINE p == fs.node[i].parent
  <2>2. Filed(fs, i) /\ g.node[i].parent = p
    BY <2>1, <1>16
  <2>3. fs.node[p].kind = "dir" /\ (p = 1 \/ Filed(fs, p)) /\ p # id
    BY <2>2 DEF Sound, Rooted
  <2>4. p \in DOMAIN fs.node
    BY <2>3, <1>12 DEF Filed, Sound, Climbing
  <2>5. g.node[p].kind = "dir" /\ (p = 1 \/ Filed(g, p))
    BY <2>3, <2>4, <1>8, <1>10, <1>15 DEF Kept
  <2>6. QED
    BY <2>2, <2>5
<1>21. Listed(g)
  <2>1. SUFFICES ASSUME NEW e \in DOMAIN fs.node
                 PROVE  /\ Distinct(g.node[e].contents)
                        /\ Elements(g.node[e].contents) =
                             {g.node[i].name : i \in {i \in Inner(g) : Filed(g, i)
                                                                       /\ g.node[i].parent = e}}
    BY <1>8 DEF Listed
  <2> DEFINE In(x, e1) == {i \in Inner(x) : Filed(x, i) /\ x.node[i].parent = e1}
  <2>2. In(g, e) = In(fs, e) \ {id}
    BY <1>8, <1>12, <1>15, <1>16
  <2>3. \A i \in In(fs, e) : g.node[i].name = fs.node[i].name
    BY <1>16
  <2>4. CASE e # d
    <3>1. id \notin In(fs, e)
      BY <2>4
    <3>2. In(g, e) = In(fs, e)
      BY <2>2, <3>1
    <3>3. g.node[e].contents = fs.node[e].contents
      BY <2>4, <1>9
    <3>4. QED
      BY <2>3, <3>2, <3>3 DEF Sound, Listed
  <2>5. CASE e = d
    <3>1. g.node[e].contents = cc
      BY <2>5, <1>9
    <3>2. Elements(cc) = {fs.node[i].name : i \in In(fs, d)} \ {n}
      BY <1>4, <1>5
    <3>3. \A i \in In(fs, d) : fs.node[i].name = n <=> i = id
      BY <1>1 DEF Sound, Single
    <3>4. id \in In(fs, d)
      BY <1>1
    <3>5. {g.node[i].name : i \in In(g, e)} = {fs.node[i].name : i \in In(fs, d)} \ {n}
      <4> HIDE DEF In, n
      <4>1. QED
        BY <2>2, <2>3, <2>5, <3>3, <3>4
    <3>6. QED
      BY <1>5, <3>1, <3>2, <3>5
  <2>6. QED
    BY <2>4, <2>5
<1>22. g \in Systems
  BY <1>2, <1>8, <1>11 DEF Systems
<1>23. Sound(g)
  BY <1>17, <1>18, <1>19, <1>20, <1>21, <1>22 DEF Sound
<1>24. QED
  BY <1>8, <1>9, <1>10, <1>15, <1>23 DEF g

-----------------------------------------------------------------------------
(* Paths.                                                                  *)

\* A path without its last name, and that name.
LEMMA PathParts ==
  ASSUME NEW S, NEW p \in Seq(S), p # <<>>
  PROVE  /\ Names!Front(p) \in Seq(S) /\ Len(Names!Front(p)) = Len(p) - 1
         /\ Len(p) \in Nat \ {0} /\ Len(p) - 1 \in Nat
         /\ \A n \in 1 .. Len(p) - 1 : Names!Front(p)[n] = p[n]
         /\ Names!Last(p) \in S /\ Names!Last(p) = p[Len(p)]
         /\ Append(Names!Front(p), Names!Last(p)) = p
<1>1. Len(p) \in Nat \ {0}
  OBVIOUS
<1>2. Names!Front(p) = SubSeq(p, 1, Len(p) - 1) /\ Names!Last(p) = p[Len(p)]
  BY DEF Names!Front, Names!Last
<1> DEFINE q == SubSeq(p, 1, Len(p) - 1)
<1>3. q \in Seq(S) /\ Len(q) = Len(p) - 1 /\ \A n \in 1 .. Len(p) - 1 : q[n] = p[n]
  BY <1>1
<1>4. p[Len(p)] \in S
  BY <1>1
<1> HIDE DEF q
<1>5. /\ Append(q, p[Len(p)]) \in Seq(S) /\ Len(Append(q, p[Len(p)])) = Len(p)
      /\ \A n \in 1 .. Len(p) : Append(q, p[Len(p)])[n] = p[n]
  BY <1>1, <1>3, <1>4
<1>6. Append(q, p[Len(p)]) = p
  BY <1>1, <1>5
<1>7. QED
  BY <1>1, <1>2, <1>3, <1>4, <1>6 DEF q

\* lookupPath goes through the names of the path one by one.
LEMMA LookupSteps ==
  ASSUME NEW fs, Sound(fs), NEW p \in Seq(Name)
  PROVE  \E f \in [0 .. Len(p) -> Nat] :
           /\ f[0] = 1 /\ \A n \in 1 .. Len(p) : f[n] = Child(fs, f[n - 1], p[n])
           /\ Names!Lookup(fs, p) = f[Len(p)]
<1> DEFINE D == 0 .. Len(p)
           step == [x \in 1 .. Len(p) |-> [t \in Nat |-> Child(fs, t, p[x])]]
           Solves(f) == f = [n \in D |-> IF n = 0 THEN 1 ELSE Child(fs, f[n - 1], p[n])]
<1>1. Len(p) \in Nat
  OBVIOUS
<1>2. step \in [1 .. Len(p) -> [Nat -> Nat]]
  <2>1. ASSUME NEW x \in 1 .. Len(p), NEW t \in Nat PROVE Child(fs, t, p[x]) \in Nat
    <3>1. p[x] \in Name
      OBVIOUS
    <3>2. QED
      BY <3>1, ChildIs
  <2>2. QED
    BY <2>1
<1>3. PICK f \in [D -> Nat] : f[0] = 1 /\ \A k \in 1 .. Len(p) : f[k] = step[k][f[k - 1]]
  <2> HIDE DEF step, Solves
  <2>1. 1 \in Nat
    OBVIOUS
  <2>2. Stepwise(Nat, Len(p), 1, step)
    BY <1>1, <1>2 DEF Stepwise
  <2>3. QED
    BY <2>2, StepByStep
<1>4. \A n \in D : f[n] = IF n = 0 THEN 1 ELSE Child(fs, f[n - 1], p[n])
  <2>1. \A k \in 1 .. Len(p) : k - 1 \in D /\ f[k - 1] \in Nat
    BY <1>1, <1>3
  <2>2. f[0] = 1
    BY <1>3
  <2>3. ASSUME NEW n \in 1 .. Len(p) PROVE f[n] = Child(fs, f[n - 1], p[n])
    <3>1. f[n - 1] \in Nat
      BY <2>1
    <3>2. step[n][f[n - 1]] = Child(fs, f[n - 1], p[n])
      BY <3>1
    <3> HIDE DEF step
    <3>3. QED
      BY <1>3, <3>2
  <2>4. \A n \in D : n = 0 \/ n \in 1 .. Len(p)
    BY <1>1
  <2> HIDE DEF D
  <2>5. QED
    BY <2>2, <2>3, <2>4
<1>5. Solves(f)
  BY <1>3, <1>4
<1> DEFINE at == CHOOSE a : Solves(a)
<1>6. Solves(at)
  <2> HIDE DEF Solves
  <2>1. QED
    BY <1>5
<1>7. Names!Lookup(fs, p) = at[Len(p)]
  BY DEF Names!Lookup, Names!Root, Child
<1>8. /\ at = [n \in D |-> at[n]] /\ at[0] = 1
      /\ \A n \in 1 .. Len(p) : at[n] = Child(fs, at[n - 1], p[n])
  <2> HIDE DEF at
  <2>1. QED
    BY <1>1, <1>6
<1> HIDE DEF at
<1>9. \A n \in D : at[n] \in Nat
  <2>1. ASSUME NEW n \in 1 .. Len(p), at[n - 1] \in Nat PROVE at[n] \in Nat
    <3>1. p[n] \in Name
      OBVIOUS
    <3>2. Child(fs, at[n - 1], p[n]) \in Nat
      BY <2>1, <3>1, ChildIs
    <3>3. QED
      BY <1>8, <3>2
  <2>2. at[0] \in Nat
    BY <1>8
  <2>3. QED
    BY <1>1, <2>1, <2>2, EveryStep
<1>10. at \in [D -> Nat]
  BY <1>1, <1>8, <1>9
<1>11. QED
  BY <1>7, <1>8, <1>10

\* FS.lookupPath goes from a directory to its child.
LEMMA LookupChild ==
  ASSUME NEW fs, Sound(fs), NEW p \in Seq(Name)
  PROVE  /\ Names!Lookup(fs, p) \in Nat
         /\ p = <<>> => Names!Lookup(fs, p) = 1
         /\ p # <<>> => Names!Lookup(fs, p) =
                          Child(fs, Names!Lookup(fs, Names!Front(p)), Names!Last(p))
<1>1. PICK f \in [0 .. Len(p) -> Nat] :
           /\ f[0] = 1 /\ \A n \in 1 .. Len(p) : f[n] = Child(fs, f[n - 1], p[n])
           /\ Names!Lookup(fs, p) = f[Len(p)]
  BY LookupSteps
<1>2. Names!Lookup(fs, p) \in Nat /\ (p = <<>> => Names!Lookup(fs, p) = 1)
  BY <1>1
<1>3. ASSUME p # <<>>
      PROVE  Names!Lookup(fs, p) =
                          Child(fs, Names!Lookup(fs, Names!Front(p)), Names!Last(p))
  <2> DEFINE q == Names!Front(p)
  <2>1. /\ q \in Seq(Name) /\ Len(q) = Len(p) - 1 /\ Len(p) \in Nat \ {0} /\ Len(q) \in Nat
        /\ \A n \in 1 .. Len(q) : q[n] = p[n]
        /\ Names!Last(p) = p[Len(p)]
    BY <1>3, PathParts
  <2> HIDE DEF q
  <2>2. PICK g \in [0 .. Len(q) -> Nat] :
           /\ g[0] = 1 /\ \A n \in 1 .. Len(q) : g[n] = Child(fs, g[n - 1], q[n])
           /\ Names!Lookup(fs, q) = g[Len(q)]
    BY <2>1, LookupSteps
  <2> DEFINE S == {n \in Nat : n <= Len(q) => f[n] = g[n]}
  <2>3. \A n \in Nat : n \in S
    <3>1. 0 \in S
      BY <1>1, <2>2
    <3>2. ASSUME NEW n \in Nat, n \in S PROVE n + 1 \in S
      <4>1. SUFFICES ASSUME n + 1 <= Len(q) PROVE f[n + 1] = g[n + 1]
        OBVIOUS
      <4>2. n + 1 \in 1 .. Len(q) /\ n + 1 \in 1 .. Len(p) /\ (n + 1) - 1 = n /\ n <= Len(q)
        BY <2>1, <4>1
      <4>3. f[n + 1] = Child(fs, f[n], p[n + 1]) /\ g[n + 1] = Child(fs, g[n], q[n + 1])
        BY <1>1, <2>2, <4>2
      <4>4. QED
        BY <2>1, <3>2, <4>2, <4>3
    <3> HIDE DEF S
    <3>3. QED
      BY <3>1, <3>2, Induction
  <2>4. f[Len(q)] = g[Len(q)]
    <3>1. Len(q) \in Nat /\ Len(q) <= Len(q)
      BY <2>1
    <3>2. Len(q) \in S
      BY <2>3, <3>1
    <3>3. QED
      BY <3>1, <3>2
  <2>5. Len(p) \in 1 .. Len(p)
    BY <2>1
  <2>6. f[Len(p)] = Child(fs, f[Len(q)], p[Len(p)])
    BY <1>1, <2>1, <2>5
  <2>7. QED
    BY <1>1, <2>1, <2>2, <2>4, <2>6 DEF q
<1>4. QED
  BY <1>2, <1>3

\* Nothing is under nothing.
LEMMA NoChildOfNone ==
  ASSUME NEW fs, NEW n
  PROVE  Child(fs, 0, n) = 0
BY DEF Child, Names!LookupNode

\* What lookupPath finds is an entry of what it finds for the path before.
LEMMA Found ==
  ASSUME NEW fs, Sound(fs), NEW p \in Seq(Name), Names!Lookup(fs, p) # 0
  PROVE  LET i == Names!Lookup(fs, p)
             d == Names!Lookup(fs, Names!Front(p))
         IN /\ i \in DOMAIN fs.node /\ i \in Nat \ {0} /\ (p = <<>> <=> i = 1)
            /\ p # <<>> => /\ Filed(fs, i) /\ i \in Inner(fs) /\ d # 0
                           /\ Directory(fs, d) /\ fs.node[i].parent = d
                           /\ fs.node[i].name = Names!Last(p)
<1> DEFINE i == Names!Lookup(fs, p)
           d == Names!Lookup(fs, Names!Front(p))
<1>1. CASE p = <<>>
  BY <1>1, LookupChild DEF Sound, Climbing
<1>2. CASE p # <<>>
  <2>1. Names!Front(p) \in Seq(Name) /\ Names!Last(p) \in Name
    BY <1>2, PathParts
  <2>2. i \in Nat \ {0} /\ d \in Nat /\ i = Child(fs, d, Names!Last(p))
    BY <1>2, <2>1, LookupChild
  <2> HIDE DEF i, d
  <2>3. Filed(fs, i) /\ fs.node[i].parent = d /\ fs.node[i].name = Names!Last(p)
    BY <2>1, <2>2, ChildIs
  <2>4. i \in Inner(fs) /\ i \in DOMAIN fs.node /\ i # 1
    BY <2>3 DEF Filed, Inner
  <2>5. d \in 1 .. i - 1 /\ d \in DOMAIN fs.node
    BY <2>2, <2>3, <2>4 DEF Sound, Climbing, Systems
  <2>6. Directory(fs, d)
    BY <2>3, <2>4, <2>5 DEF Directory, Sound, Rooted
  <2>7. d # 0
    BY <2>2, <2>5
  <2>8. QED
    BY <1>2, <2>2, <2>3, <2>4, <2>6, <2>7 DEF i, d
<1>3. QED
  BY <1>1, <1>2

\* getPath is the names on the way from the root to the node.
LEMMA PathIs ==
  ASSUME NEW fs, Sound(fs)
  PROVE  /\ Names!GetPath(fs, 1) = <<>>
         /\ \A i \in DOMAIN fs.node : Names!GetPath(fs, i) \in Seq(Name)
         /\ \A i \in Inner(fs) : Names!GetPath(fs, i) =
              Append(Names!GetPath(fs, fs.node[i].parent), fs.node[i].name)
<1> DEFINE D == DOMAIN fs.node
           B == {1}
           n == Len(fs.node)
           base == [x \in B |-> <<>>]
           rank == [x \in D |-> x]
           next == [x \in D \ B |-> fs.node[x].parent]
           step == [x \in D \ B |-> [t \in Seq(Name) |-> Append(t, fs.node[x].name)]]
           Solves(f) == f = [x \in D |-> IF x = 1 THEN <<>>
                                         ELSE Append(f[fs.node[x].parent], fs.node[x].name)]
<1>1. /\ n \in Nat /\ D = 1 .. n /\ 1 \in D /\ D \ B = Inner(fs)
      /\ \A x \in D \ B : /\ fs.node[x].parent \in D /\ fs.node[x].parent < x
                          /\ fs.node[x].name \in Name
  <2>1. fs.node \in Seq(Nodes)
    BY DEF Sound, Systems
  <2>2. n \in Nat /\ D = 1 .. n /\ 1 \in D /\ D \ B = Inner(fs)
    BY <2>1 DEF Inner, Sound, Climbing
  <2>3. \A x \in Inner(fs) : fs.node[x].parent \in 1 .. x - 1 /\ fs.node[x].name \in Name
    BY DEF Sound, Climbing
  <2>4. QED
    BY <2>2, <2>3
<1>2. Recursive(D, Seq(Name), B, n, rank, base, next, step)
  <2>1. \A x \in D \ B, t \in Seq(Name) : Append(t, fs.node[x].name) \in Seq(Name)
    BY <1>1, Appended
  <2>2. step \in [D \ B -> [Seq(Name) -> Seq(Name)]]
    BY <2>1
  <2>3. rank \in [D -> 0 .. n] /\ next \in [D \ B -> D] /\ base \in [B -> Seq(Name)]
    BY <1>1
  <2>4. \A x \in D \ B : rank[next[x]] < rank[x]
    BY <1>1
  <2> HIDE DEF D, B, n, base, rank, next, step
  <2>5. QED
    BY <1>1, <2>2, <2>3, <2>4 DEF Recursive
<1>3. PICK f \in [D -> Seq(Name)] :
        \A x \in D : f[x] = IF x \in B THEN base[x] ELSE step[x][f[next[x]]]
  <2> HIDE DEF D, B, n, base, rank, next, step
  <2>1. QED
    BY <1>2, Recursion
<1>4. Solves(f)
  <2>1. f[1] = <<>>
    BY <1>1, <1>3
  <2>2. ASSUME NEW x \in D \ B PROVE f[x] = Append(f[fs.node[x].parent], fs.node[x].name)
    <3>1. f[fs.node[x].parent] \in Seq(Name) /\ next[x] = fs.node[x].parent /\ x \in D
      BY <1>1, <1>3
    <3>2. step[x][f[fs.node[x].parent]] = Append(f[fs.node[x].parent], fs.node[x].name)
      BY <3>1
    <3> HIDE DEF step, next
    <3>3. f[x] = step[x][f[next[x]]]
      BY <1>3
    <3>4. QED
      BY <3>1, <3>2, <3>3
  <2>3. \A x \in D : x = 1 \/ x \in D \ B
    OBVIOUS
  <2> HIDE DEF D, B
  <2>4. QED
    BY <1>3, <2>1, <2>2, <2>3
<1> DEFINE up == CHOOSE g : Solves(g)
<1>5. Solves(up)
  <2> HIDE DEF Solves
  <2>1. QED
    BY <1>4
<1>6. \A i : Names!GetPath(fs, i) = up[i]
  BY DEF Names!GetPath, Names!Root
<1>7. /\ up[1] = <<>>
      /\ \A x \in D \ B : up[x] = Append(up[fs.node[x].parent], fs.node[x].name)
  <2> HIDE DEF up
  <2>1. QED
    BY <1>1, <1>5
<1> HIDE DEF up
<1> DEFINE S == {k \in Nat : \A x \in D : x <= k => up[x] \in Seq(Name)}
<1>8. \A k \in Nat : k \in S
  <2>1. 0 \in S
    BY <1>1
  <2>2. ASSUME NEW k \in Nat, k \in S PROVE k + 1 \in S
    <3>1. SUFFICES ASSUME NEW x \in D, x <= k + 1 PROVE up[x] \in Seq(Name)
      BY DEF S
    <3>2. CASE x = 1
      BY <3>2, <1>7
    <3>3. CASE x # 1
      <4> DEFINE d == fs.node[x].parent
      <4>1. x \in D \ B /\ d \in D /\ d < x /\ fs.node[x].name \in Name
        BY <1>1, <3>3
      <4>2. d <= k
        BY <1>1, <3>1, <4>1
      <4>3. up[d] \in Seq(Name)
        BY <2>2, <4>1, <4>2
      <4>4. QED
        <5> HIDE DEF d, D, B
        <5>1. up[x] = Append(up[d], fs.node[x].name)
          BY <1>7, <4>1 DEF d
        <5>2. QED
          BY <4>1, <4>3, <5>1, Appended
    <3>4. QED
      BY <3>2, <3>3
  <2> HIDE DEF S
  <2>3. QED
    BY <2>1, <2>2, Induction
<1>9. \A x \in D : up[x] \in Seq(Name)
  <2>1. \A x \in D : x \in Nat /\ x <= x
    BY <1>1
  <2>2. \A x \in D : x \in S
    BY <1>8, <2>1
  <2>3. QED
    BY <2>1, <2>2
<1>10. QED
  BY <1>1, <1>6, <1>7, <1>9

\* The path of what lookupPath found is the path it was found at.
LEMMA PathOfFound ==
  ASSUME NEW fs, Sound(fs), NEW p \in Seq(Name), Names!Lookup(fs, p) # 0
  PROVE  Names!GetPath(fs, Names!Lookup(fs, p)) = p
<1> DEFINE S == {n \in Nat : \A q \in Seq(Name) : Len(q) = n /\ Names!Lookup(fs, q) # 0
                               => Names!GetPath(fs, Names!Lookup(fs, q)) = q}
<1>1. 0 \in S
  <2>1. \A q \in Seq(Name) : Len(q) = 0 => q = <<>>
    OBVIOUS
  <2>2. Names!Lookup(fs, <<>>) = 1 /\ Names!GetPath(fs, 1) = <<>>
    <3>1. <<>> \in Seq(Name)
      OBVIOUS
    <3>2. QED
      BY <3>1, LookupChild, PathIs
  <2>3. QED
    BY <2>1, <2>2
<1>2. ASSUME NEW n \in Nat, n \in S PROVE n + 1 \in S
  <2>1. SUFFICES ASSUME NEW q \in Seq(Name), Len(q) = n + 1, Names!Lookup(fs, q) # 0
                 PROVE  Names!GetPath(fs, Names!Lookup(fs, q)) = q
    BY DEF S
  <2> DEFINE i == Names!Lookup(fs, q)
             f == Names!Front(q)
             d == Names!Lookup(fs, f)
  <2>2. /\ q # <<>> /\ f \in Seq(Name) /\ Len(f) = n
        /\ Append(f, Names!Last(q)) = q
    <3>1. q # <<>>
      BY <2>1
    <3>2. QED
      BY <2>1, <3>1, PathParts
  <2>3. i \in Inner(fs) /\ d # 0 /\ fs.node[i].parent = d /\ fs.node[i].name = Names!Last(q)
    BY <2>1, <2>2, Found
  <2>4. Names!GetPath(fs, d) = f
    BY <1>2, <2>2, <2>3
  <2> HIDE DEF i, d, f
  <2>5. Names!GetPath(fs, i) = q
    BY <2>2, <2>3, <2>4, PathIs
  <2>6. QED
    BY <2>5 DEF i
<1>3. \A n \in Nat : n \in S
  <2> HIDE DEF S
  <2>1. QED
    BY <1>1, <1>2, Induction
<1>4. Len(p) \in Nat
  OBVIOUS
<1>5. Len(p) \in S
  BY <1>3, <1>4
<1>6. QED
  BY <1>5

\* What is in the table is found at its path.
LEMMA FoundAtPath ==
  ASSUME NEW fs, Sound(fs), NEW i, i = 1 \/ Filed(fs, i)
  PROVE  Names!Lookup(fs, Names!GetPath(fs, i)) = i
<1> DEFINE S == {n \in Nat : \A j \in DOMAIN fs.node : j <= n /\ (j = 1 \/ Filed(fs, j))
                               => Names!Lookup(fs, Names!GetPath(fs, j)) = j}
<1>0. DOMAIN fs.node = 1 .. Len(fs.node) /\ Len(fs.node) \in Nat /\ 1 \in DOMAIN fs.node
  BY DEF Sound, Systems, Climbing
<1>1. 0 \in S
  BY <1>0
<1>2. ASSUME NEW n \in Nat, n \in S PROVE n + 1 \in S
  <2>1. SUFFICES ASSUME NEW j \in DOMAIN fs.node, j <= n + 1, j = 1 \/ Filed(fs, j)
                 PROVE  Names!Lookup(fs, Names!GetPath(fs, j)) = j
    BY DEF S
  <2>2. CASE j = 1
    <3>1. <<>> \in Seq(Name)
      OBVIOUS
    <3>2. QED
      BY <2>2, <3>1, PathIs, LookupChild
  <2>3. CASE j # 1
    <3> DEFINE d == fs.node[j].parent
               nm == fs.node[j].name
               q == Names!GetPath(fs, d)
    <3>1. Filed(fs, j) /\ j \in Inner(fs)
      BY <2>1, <2>3 DEF Inner
    <3>2. d \in 1 .. j - 1 /\ nm \in Name /\ (d = 1 \/ Filed(fs, d))
      BY <3>1 DEF Sound, Climbing, Rooted
    <3>3. d \in DOMAIN fs.node /\ d <= n /\ d \in Nat /\ j \in Nat \ {0}
      BY <1>0, <2>1, <3>2
    <3>4. Names!Lookup(fs, q) = d /\ q \in Seq(Name)
      BY <1>2, <3>2, <3>3, PathIs
    <3>5. Names!GetPath(fs, j) = Append(q, nm)
      BY <3>1, PathIs
    <3>6. Child(fs, d, nm) = j
      BY <3>1, <3>2, <3>3, ChildIs
    <3> HIDE DEF d, nm, q
    <3>7. Append(q, nm) \in Seq(Name) /\ Append(q, nm) # <<>>
      BY <3>2, <3>4
    <3>8. Names!Front(Append(q, nm)) = q /\ Names!Last(Append(q, nm)) = nm
      BY <3>2, <3>4 DEF Names!Front, Names!Last
    <3>9. QED
      BY <3>4, <3>5, <3>6, <3>7, <3>8, LookupChild
  <2>4. QED
    BY <2>2, <2>3
<1>3. \A n \in Nat : n \in S
  <2> HIDE DEF S
  <2>1. QED
    BY <1>1, <1>2, Induction
<1>4. i \in DOMAIN fs.node /\ i \in Nat /\ i <= i
  BY <1>0 DEF Filed, Inner
<1>5. i \in S
  BY <1>3, <1>4
<1>6. QED
  BY <1>4, <1>5

\* Two paths at which lookupPath finds one node are equal.
LEMMA OnePath ==
  ASSUME NEW fs, Sound(fs), NEW p \in Seq(Name), NEW q \in Seq(Name),
         Names!Lookup(fs, p) # 0, Names!Lookup(fs, p) = Names!Lookup(fs, q)
  PROVE  p = q
BY PathOfFound

\* A path is its last name after the path before.
LEMMA SameParts ==
  ASSUME NEW p \in Seq(Name), NEW q \in Seq(Name), p # <<>>, q # <<>>,
         Names!Front(p) = Names!Front(q), Names!Last(p) = Names!Last(q)
  PROVE  p = q
<1>1. Append(Names!Front(p), Names!Last(p)) = p /\ Append(Names!Front(q), Names!Last(q)) = q
  BY PathParts
<1>2. QED
  BY <1>1

\* A property of every path, from that of the path before.
LEMMA PathInduction ==
  ASSUME NEW P, <<>> \in P,
         \A q \in Seq(Name) : q # <<>> /\ Names!Front(q) \in P => q \in P
  PROVE  \A q \in Seq(Name) : q \in P
<1> DEFINE S == {n \in Nat : \A q \in Seq(Name) : Len(q) = n => q \in P}
<1>1. 0 \in S
  <2>1. \A q \in Seq(Name) : Len(q) = 0 => q = <<>>
    OBVIOUS
  <2>2. QED
    BY <2>1
<1>2. ASSUME NEW n \in Nat, n \in S PROVE n + 1 \in S
  <2>1. SUFFICES ASSUME NEW q \in Seq(Name), Len(q) = n + 1 PROVE q \in P
    BY DEF S
  <2>2. q # <<>>
    BY <2>1
  <2>3. Names!Front(q) \in Seq(Name) /\ Len(Names!Front(q)) = n
    BY <2>1, <2>2, PathParts
  <2>4. QED
    BY <1>2, <2>2, <2>3
<1>3. \A n \in Nat : n \in S
  <2> HIDE DEF S
  <2>1. QED
    BY <1>1, <1>2, Induction
<1>4. \A q \in Seq(Name) : Len(q) \in Nat
  OBVIOUS
<1>5. QED
  BY <1>3, <1>4

\* A new node is found at its path, the others where they were.
LEMMA CreatedLookup ==
  ASSUME NEW fs, Sound(fs), NEW p \in Seq(Name), p # <<>>,
         Directory(fs, Names!Lookup(fs, Names!Front(p))), Names!Lookup(fs, p) = 0,
         NEW kind \in {"dir", "file"}, NEW w \in BOOLEAN
  PROVE  LET g == Names!Created(fs, Names!Lookup(fs, Names!Front(p)), Names!Last(p), kind, w)
         IN \A q \in Seq(Name) : Names!Lookup(g, q) =
              IF q = p THEN Len(fs.node) + 1 ELSE Names!Lookup(fs, q)
<1> DEFINE d == Names!Lookup(fs, Names!Front(p))
           n == Names!Last(p)
           g == Names!Created(fs, d, n, kind, w)
           id == Len(fs.node) + 1
           P == {q \in Seq(Name) : Names!Lookup(g, q) = IF q = p THEN id ELSE Names!Lookup(fs, q)}
<1>1. n \in Name /\ Names!Front(p) \in Seq(Name) /\ Child(fs, d, n) = 0 /\ d \in Nat \ {0}
  BY PathParts, LookupChild DEF Directory, Sound, Systems
<1>2. /\ Sound(g) /\ Kept(fs, g) /\ id \notin DOMAIN fs.node /\ id \in Nat \ {0, 1}
      /\ DOMAIN g.node = DOMAIN fs.node \union {id}
      /\ g.node[id].parent = d /\ g.node[id].name = n /\ g.node[id].kind = kind
      /\ \A i \in DOMAIN g.node : Filed(g, i) <=> Filed(fs, i) \/ i = id
  <2> HIDE DEF d, n
  <2>1. Directory(fs, d)
    BY DEF d
  <2>2. QED
    BY <1>1, <2>1, CreatedSound
<1> HIDE DEF g, id
<1>3. <<>> \in P
  <2>1. <<>> \in Seq(Name)
    OBVIOUS
  <2>2. QED
    BY <1>2, <2>1, LookupChild
<1>4. \A i : Filed(fs, i) => /\ i \in DOMAIN g.node /\ i # id /\ Filed(g, i)
                             /\ fs.node[i].parent \in DOMAIN fs.node
                             /\ g.node[i].parent = fs.node[i].parent
                             /\ g.node[i].name = fs.node[i].name /\ i \in Nat \ {0}
  <2>1. SUFFICES ASSUME NEW i, Filed(fs, i)
                 PROVE  /\ i \in DOMAIN g.node /\ i # id /\ Filed(g, i)
                        /\ fs.node[i].parent \in DOMAIN fs.node
                        /\ g.node[i].parent = fs.node[i].parent
                        /\ g.node[i].name = fs.node[i].name /\ i \in Nat \ {0}
    OBVIOUS
  <2>2. i \in Inner(fs) /\ i \in DOMAIN fs.node
    BY <2>1 DEF Filed, Inner
  <2>3. i \in DOMAIN g.node /\ i # id /\ Filed(g, i)
    BY <1>2, <2>1, <2>2
  <2>4. fs.node \in Seq(Nodes)
    BY DEF Sound, Systems
  <2>5. fs.node[i].parent \in 1 .. i - 1
    BY <2>2 DEF Sound, Climbing
  <2>6. i \in Nat \ {0} /\ fs.node[i].parent \in DOMAIN fs.node
    BY <2>2, <2>4, <2>5
  <2>7. g.node[i].parent = fs.node[i].parent /\ g.node[i].name = fs.node[i].name
    BY <1>2, <2>2 DEF Kept
  <2>8. QED
    BY <2>3, <2>6, <2>7
<1>5. ASSUME NEW q \in Seq(Name), q # <<>>, Names!Front(q) \in P PROVE q \in P
  <2> DEFINE e == Names!Lookup(fs, Names!Front(q))
             nm == Names!Last(q)
  <2>1. /\ Names!Front(q) \in Seq(Name) /\ nm \in Name /\ e \in Nat
        /\ Names!Lookup(fs, q) = Child(fs, e, nm)
        /\ Names!Lookup(g, q) = Child(g, Names!Lookup(g, Names!Front(q)), nm)
    BY <1>2, <1>5, PathParts, LookupChild
  <2>2. CASE Names!Front(q) = p
    <3>1. q # p
      <4>1. Len(Names!Front(q)) = Len(q) - 1 /\ Len(q) \in Nat
        BY <1>5, PathParts
      <4>2. QED
        BY <2>2, <4>1
    <3>2. e = 0 /\ Names!Lookup(g, Names!Front(q)) = id
      BY <1>5, <2>2
    <3>3. Names!Lookup(fs, q) = 0
      BY <2>1, <3>2, NoChildOfNone
    <3>4. Child(g, id, nm) = 0
      <4>1. Child(g, id, nm) \in Nat
        BY <1>2, <2>1, ChildIs
      <4>2. SUFFICES ASSUME NEW i \in Nat \ {0}, Child(g, id, nm) = i PROVE FALSE
        BY <4>1
      <4>3. Filed(g, i) /\ g.node[i].parent = id
        BY <1>2, <2>1, <4>2, ChildFiled
      <4>4. i \in DOMAIN g.node /\ i # id
        BY <1>1, <1>2, <4>3 DEF Filed, Inner, Sound, Climbing
      <4>5. Filed(fs, i)
        BY <1>2, <4>3, <4>4
      <4>6. QED
        BY <1>2, <1>4, <4>3, <4>5
    <3>5. QED
      BY <2>1, <3>1, <3>2, <3>3, <3>4
  <2>3. CASE Names!Front(q) # p
    <3>1. Names!Lookup(g, Names!Front(q)) = e
      BY <1>5, <2>3
    <3>2. CASE q = p
      <4>1. e = d /\ nm = n
        BY <3>2
      <4>2. Filed(g, id) /\ id \in Nat \ {0}
        BY <1>2
      <4>3. Child(g, d, n) = id
        BY <1>2, <4>2, FiledChild
      <4>4. QED
        BY <2>1, <3>1, <3>2, <4>1, <4>3
    <3>3. CASE q # p
      <4>0. Child(fs, e, nm) \in Nat /\ Child(g, e, nm) \in Nat
        BY <1>2, <2>1, ChildIs
      <4>1. CASE Child(fs, e, nm) # 0
        <5> DEFINE j == Child(fs, e, nm)
        <5>1. j \in Nat \ {0}
          BY <4>0, <4>1
        <5> HIDE DEF j
        <5>2. Filed(fs, j) /\ fs.node[j].parent = e /\ fs.node[j].name = nm
          BY <2>1, <4>1, ChildFiled DEF j
        <5>3. Filed(g, j) /\ g.node[j].parent = e /\ g.node[j].name = nm
          BY <1>4, <5>2
        <5>4. Child(g, e, nm) = j
          BY <1>2, <5>3, FiledChild
        <5>5. QED
          BY <2>1, <3>1, <3>3, <5>4 DEF j
      <4>2. CASE Child(fs, e, nm) = 0
        <5>1. SUFFICES ASSUME NEW i \in Nat \ {0}, Child(g, e, nm) = i PROVE FALSE
          BY <2>1, <3>1, <3>3, <4>0, <4>2
        <5>2. Filed(g, i) /\ g.node[i].parent = e /\ g.node[i].name = nm
          BY <1>2, <2>1, <5>1, ChildFiled
        <5>3. i \in DOMAIN g.node
          BY <5>2 DEF Filed, Inner
        <5>4. ~Filed(fs, i)
          <6>1. SUFFICES ASSUME Filed(fs, i) PROVE FALSE
            OBVIOUS
          <6>2. fs.node[i].parent = e /\ fs.node[i].name = nm
            BY <1>4, <5>2, <6>1
          <6>3. Child(fs, e, nm) = i
            BY <6>1, <6>2, FiledChild
          <6>4. QED
            BY <4>2, <5>1, <6>3
        <5>5. i = id
          BY <1>2, <5>2, <5>3, <5>4
        <5>6. e = d /\ nm = n
          BY <1>2, <5>2, <5>5
        <5>7. Names!Front(q) = Names!Front(p)
          BY <1>1, <2>1, <5>6, OnePath
        <5>8. q = p
          BY <1>5, <5>6, <5>7, SameParts
        <5>9. QED
          BY <3>3, <5>8
      <4>3. QED
        BY <4>1, <4>2
    <3>4. QED
      BY <3>2, <3>3
  <2>4. QED
    BY <2>2, <2>3
<1>6. \A q \in Seq(Name) : q \in P
  <2> HIDE DEF P
  <2>1. QED
    BY <1>3, <1>5, PathInduction
<1>7. QED
  BY <1>6 DEF g, id

\* A node that goes is found no longer, the others where they were.
LEMMA RemovedLookup ==
  ASSUME NEW fs, Sound(fs), NEW id, Filed(fs, id),
         \A j \in Inner(fs) : Filed(fs, j) => fs.node[j].parent # id
  PROVE  \A q \in Seq(Name) : Names!Lookup(Names!Removed(fs, id), q) =
           IF Names!Lookup(fs, q) = id THEN 0 ELSE Names!Lookup(fs, q)
<1> DEFINE g == Names!Removed(fs, id)
           P == {q \in Seq(Name) : Names!Lookup(g, q) =
                   IF Names!Lookup(fs, q) = id THEN 0 ELSE Names!Lookup(fs, q)}
<1>1. /\ Sound(g) /\ Kept(fs, g) /\ DOMAIN g.node = DOMAIN fs.node
      /\ \A i \in DOMAIN g.node : Filed(g, i) <=> Filed(fs, i) /\ i # id
  BY RemovedSound
<1>2. id \in Inner(fs) /\ id \in Nat \ {0, 1}
  BY DEF Filed, Inner, Sound, Systems
<1> HIDE DEF g
<1>3. <<>> \in P
  <2>1. <<>> \in Seq(Name)
    OBVIOUS
  <2>2. QED
    BY <1>1, <1>2, <2>1, LookupChild
<1>4. \A i : /\ Filed(fs, i) /\ i # id <=> Filed(g, i)
             /\ Filed(fs, i) => /\ g.node[i].parent = fs.node[i].parent
                                /\ g.node[i].name = fs.node[i].name
  BY <1>1 DEF Filed, Inner, Kept
<1>5. ASSUME NEW q \in Seq(Name), q # <<>>, Names!Front(q) \in P PROVE q \in P
  <2> DEFINE e == Names!Lookup(fs, Names!Front(q))
             nm == Names!Last(q)
  <2>1. /\ Names!Front(q) \in Seq(Name) /\ nm \in Name /\ e \in Nat
        /\ Names!Lookup(fs, q) = Child(fs, e, nm)
        /\ Names!Lookup(g, q) = Child(g, Names!Lookup(g, Names!Front(q)), nm)
        /\ Child(fs, e, nm) \in Nat /\ Child(g, e, nm) \in Nat
    BY <1>1, <1>5, PathParts, LookupChild, ChildIs
  <2> HIDE DEF nm
  <2>2. CASE e = id
    <3>1. Names!Lookup(g, q) = 0
      BY <1>5, <2>1, <2>2, NoChildOfNone
    <3>2. Child(fs, id, nm) = 0
      <4>1. SUFFICES ASSUME Child(fs, id, nm) # 0 PROVE FALSE
        OBVIOUS
      <4>2. id \in Nat /\ nm \in Name
        BY <1>2, <2>1
      <4> DEFINE i == Child(fs, id, nm)
      <4>3. Filed(fs, i) /\ fs.node[i].parent = id
        BY <4>1, <4>2, ChildFiled
      <4>4. QED
        BY <4>3 DEF Filed
    <3>3. QED
      BY <2>1, <2>2, <3>1, <3>2
  <2>3. CASE e # id
    <3>1. Names!Lookup(g, Names!Front(q)) = e
      BY <1>5, <2>3
    <3>2. \A i \in Nat \ {0} : Child(g, e, nm) = i <=> Child(fs, e, nm) = i /\ i # id
      <4>1. ASSUME NEW i \in Nat \ {0}
            PROVE  Child(g, e, nm) = i <=> Child(fs, e, nm) = i /\ i # id
        <5>1. ASSUME Child(g, e, nm) = i PROVE Child(fs, e, nm) = i /\ i # id
          <6>1. Filed(g, i) /\ g.node[i].parent = e /\ g.node[i].name = nm
            BY <1>1, <2>1, <5>1, ChildFiled
          <6>2. Filed(fs, i) /\ i # id /\ fs.node[i].parent = e /\ fs.node[i].name = nm
            BY <1>4, <6>1
          <6>3. QED
            BY <6>2, FiledChild
        <5>2. ASSUME Child(fs, e, nm) = i, i # id PROVE Child(g, e, nm) = i
          <6>1. Filed(fs, i) /\ fs.node[i].parent = e /\ fs.node[i].name = nm
            BY <2>1, <5>2, ChildFiled
          <6>2. Filed(g, i) /\ g.node[i].parent = e /\ g.node[i].name = nm
            BY <1>4, <5>2, <6>1
          <6>3. QED
            BY <1>1, <6>2, FiledChild
        <5>3. QED
          BY <5>1, <5>2
      <4>2. QED
        BY <4>1
    <3> HIDE DEF e
    <3>3. Child(g, e, nm) = IF Child(fs, e, nm) = id THEN 0 ELSE Child(fs, e, nm)
      BY <1>2, <2>1, <3>2
    <3>4. QED
      BY <2>1, <3>1, <3>3
  <2>4. QED
    BY <2>2, <2>3
<1>6. \A q \in Seq(Name) : q \in P
  <2> HIDE DEF P
  <2>1. QED
    BY <1>3, <1>5, PathInduction
<1>7. QED
  BY <1>6 DEF g

-----------------------------------------------------------------------------
(* How a system grows.                                                     *)

\* Path q leads to a node of that kind.
Is(fs, q, kind) == Names!Lookup(fs, q) # 0 /\ fs.node[Names!Lookup(fs, q)].kind = kind

\* What was found is found where it was, and something is found that was not,
\* unless nothing happened.
Grows(fs, g) ==
  /\ Sound(g) /\ Kept(fs, g)
  /\ \A q \in Seq(Name) : Names!Lookup(fs, q) # 0 => Names!Lookup(g, q) = Names!Lookup(fs, q)
  /\ g = fs \/ \E q \in Path : Names!Lookup(fs, q) = 0 /\ Names!Lookup(g, q) # 0

\* Growing by nothing.
LEMMA GrowsAtAll ==
  ASSUME NEW fs, Sound(fs)
  PROVE  Grows(fs, fs)
BY DEF Grows, Kept

\* Growing twice.
LEMMA GrowsOn ==
  ASSUME NEW fs, NEW g, NEW h, Grows(fs, g), Grows(g, h)
  PROVE  Grows(fs, h)
<1>1. Sound(h) /\ Kept(fs, h)
  BY DEF Grows, Kept
<1>2. \A q \in Seq(Name) : Names!Lookup(fs, q) # 0 => Names!Lookup(h, q) = Names!Lookup(fs, q)
  BY DEF Grows
<1>3. h = fs \/ \E q \in Path : Names!Lookup(fs, q) = 0 /\ Names!Lookup(h, q) # 0
  <2>1. CASE g = fs
    BY <2>1 DEF Grows
  <2>2. CASE g # fs
    <3>1. PICK q \in Path : Names!Lookup(fs, q) = 0 /\ Names!Lookup(g, q) # 0
      BY <2>2 DEF Grows
    <3>2. q \in Seq(Name)
      BY Constants
    <3>3. Names!Lookup(h, q) # 0
      BY <3>1, <3>2 DEF Grows
    <3>4. QED
      BY <3>1, <3>3
  <2>3. QED
    BY <2>1, <2>2
<1>4. QED
  BY <1>1, <1>2, <1>3 DEF Grows

\* The nodes of g that are not in fs are of that kind.
NewNodes(fs, g, kind) == \A i \in DOMAIN g.node : i \notin DOMAIN fs.node => g.node[i].kind = kind

\* mknod makes a node at the path, or nothing.
LEMMA MknodGrows ==
  ASSUME NEW fs, Sound(fs), NEW p \in Path, p # <<>>,
         NEW kind \in {"dir", "file"}, NEW w \in BOOLEAN
  PROVE  LET g == Names!Mknod(fs, p, kind, w)
         IN /\ Grows(fs, g)
            /\ NewNodes(fs, g, kind)
            /\ Names!Lookup(fs, p) = 0 /\ Is(fs, Names!Front(p), "dir") => Is(g, p, kind)
<1> DEFINE g == Names!Mknod(fs, p, kind, w)
           d == Names!Lookup(fs, Names!Front(p))
           n == Names!Last(p)
           c == Names!Created(fs, d, n, kind, w)
<1>1. p \in Seq(Name)
  BY Constants
<1>2. Names!Lookup(fs, p) = Child(fs, d, n) /\ Names!Front(p) \in Seq(Name) /\ n \in Name
  BY <1>1, LookupChild, PathParts
<1>3. g = IF ~Names!IsDir(fs, d) \/ Child(fs, d, n) # 0 THEN fs ELSE c
  BY DEF Names!Mknod, Child
<1> HIDE DEF g, c, n
<1>4. CASE Is(fs, Names!Front(p), "dir") /\ Names!Lookup(fs, p) = 0
  <2>1. Directory(fs, d)
    BY <1>2, <1>4, Found DEF Is, Directory
  <2>2. g = c
    BY <1>2, <1>3, <1>4 DEF Names!IsDir, Is
  <2> DEFINE id == Len(fs.node) + 1
  <2>3. /\ Sound(g) /\ Kept(fs, g) /\ id \in Nat \ {0, 1}
        /\ DOMAIN g.node = DOMAIN fs.node \union {id} /\ g.node[id].kind = kind
    <3> HIDE DEF d, id
    <3>1. Child(fs, d, n) = 0
      BY <1>2, <1>4 DEF d
    <3>2. QED
      BY <1>2, <2>1, <2>2, <3>1, CreatedSound DEF c, id
  <2>4. \A q \in Seq(Name) : Names!Lookup(g, q) = IF q = p THEN id ELSE Names!Lookup(fs, q)
    BY <1>1, <1>4, <2>1, <2>2, CreatedLookup DEF c, n
  <2> HIDE DEF id
  <2>5. Names!Lookup(g, p) # 0 /\ Names!Lookup(fs, p) = 0
    BY <1>1, <1>4, <2>3, <2>4
  <2>6. Grows(fs, g)
    BY <2>3, <2>4, <2>5 DEF Grows
  <2>7. NewNodes(fs, g, kind)
    BY <2>3 DEF NewNodes
  <2>8. Is(g, p, kind)
    BY <1>1, <2>3, <2>4 DEF Is
  <2>9. QED
    BY <2>6, <2>7, <2>8 DEF g
<1>5. CASE ~(Is(fs, Names!Front(p), "dir") /\ Names!Lookup(fs, p) = 0)
  <2>1. g = fs
    BY <1>2, <1>3, <1>5 DEF Names!IsDir, Is
  <2>2. QED
    BY <1>5, <2>1, GrowsAtAll DEF g, NewNodes
<1>6. QED
  BY <1>4, <1>5

\* createPath.
LEMMA WithPathGrows ==
  ASSUME NEW fs, Sound(fs), NEW p \in Path
  PROVE  Grows(fs, Names!WithPath(fs, p))
<1> DEFINE T == {g \in Systems : Grows(fs, g)}
           D == 0 .. Len(p)
           step == [k \in 1 .. Len(p) |-> [g \in T |-> Names!Mknod(g, SubSeq(p, 1, k), "dir", TRUE)]]
           Solves(f) == f = [n \in D |-> IF n = 0 THEN fs
                               ELSE Names!Mknod(f[n - 1], SubSeq(p, 1, n), "dir", TRUE)]
<1>1. p \in Seq(Name) /\ Len(p) \in Nat
  BY Constants
<1>2. ASSUME NEW k \in 1 .. Len(p), NEW g \in T
      PROVE  Names!Mknod(g, SubSeq(p, 1, k), "dir", TRUE) \in T
  <2> DEFINE q == SubSeq(p, 1, k)
             h == Names!Mknod(g, q, "dir", TRUE)
  <2>1. q \in Path /\ q # <<>>
    <3>1. k \in 0 .. Len(p)
      BY <1>1
    <3>2. q # <<>>
      BY <1>1
    <3>3. QED
      BY <3>1, <3>2, Constants
  <2>2. Sound(g) /\ Grows(fs, g)
    BY DEF Grows
  <2> HIDE DEF q
  <2>3. Grows(g, h)
    BY <2>1, <2>2, MknodGrows
  <2> HIDE DEF h
  <2>4. Grows(fs, h)
    BY <2>2, <2>3, GrowsOn
  <2>5. h \in T
    BY <2>4 DEF Grows, Sound
  <2>6. QED
    BY <2>5 DEF h, q
<1>3. fs \in T
  BY GrowsAtAll DEF Sound
<1>4. PICK f \in [D -> T] : f[0] = fs /\ \A k \in 1 .. Len(p) : f[k] = step[k][f[k - 1]]
  <2> HIDE DEF T
  <2>1. step \in [1 .. Len(p) -> [T -> T]]
    BY <1>2
  <2> HIDE DEF step, Solves
  <2>2. Stepwise(T, Len(p), fs, step)
    BY <1>1, <1>3, <2>1 DEF Stepwise
  <2>3. QED
    BY <2>2, StepByStep
<1> HIDE DEF T
<1>5. Solves(f)
  <2>1. \A k \in 1 .. Len(p) : k - 1 \in D /\ f[k - 1] \in T
    BY <1>1, <1>4
  <2>2. ASSUME NEW n \in 1 .. Len(p)
        PROVE  f[n] = Names!Mknod(f[n - 1], SubSeq(p, 1, n), "dir", TRUE)
    <3>1. step[n][f[n - 1]] = Names!Mknod(f[n - 1], SubSeq(p, 1, n), "dir", TRUE)
      BY <2>1
    <3> HIDE DEF step
    <3>2. QED
      BY <1>4, <3>1
  <2>3. \A n \in D : n = 0 \/ n \in 1 .. Len(p)
    BY <1>1
  <2> HIDE DEF D
  <2>4. QED
    BY <1>4, <2>2, <2>3
<1> DEFINE made == CHOOSE f1 : Solves(f1)
<1>6. Solves(made)
  <2> HIDE DEF Solves
  <2>1. QED
    BY <1>5
<1>7. Names!WithPath(fs, p) = made[Len(p)]
  BY DEF Names!WithPath
<1>8. /\ made[0] = fs
      /\ \A n \in 1 .. Len(p) : made[n] = Names!Mknod(made[n - 1], SubSeq(p, 1, n), "dir", TRUE)
  <2> HIDE DEF made
  <2>1. QED
    BY <1>1, <1>6
<1> HIDE DEF made
<1>9. \A n \in 0 .. Len(p) : made[n] \in T
  BY <1>1, <1>2, <1>3, <1>8, EveryStep
<1>10. made[Len(p)] \in T
  BY <1>1, <1>9
<1>11. QED
  BY <1>7, <1>10 DEF T

\* The names in a listing.
AnyName == Name \union {".", ".."}
\* Open descriptors.
StreamsOf(fs) ==
  [node : DOMAIN fs.node, path : Path, list : Seq(AnyName), entry : Nat,
   got : Seq(AnyName), stable : SUBSET AnyName, ended : BOOLEAN]

\* A listing goes through the list that it took at its start.
Listing(s) ==
  IF s.list = <<>> THEN s.entry = 0 /\ s.got = <<>> /\ s.stable = {} /\ ~s.ended
  ELSE /\ Distinct(s.list) /\ s.entry \in 0 .. Len(s.list)
       /\ s.got = SubSeq(s.list, 1, s.entry) /\ s.stable \subseteq Elements(s.list)
       /\ s.ended => s.entry = Len(s.list)

\* Open descriptors are of nodes that exist, and in the middle of a listing.
StreamsInv(fs, st) ==
  /\ st \in [Fd -> StreamsOf(fs) \union {Names!NoStream}]
  /\ \A f \in Fd : st[f] # Names!NoStream => Listing(st[f])

\* The inductive invariant of the names.
NamesInv ==
  /\ phase \in {"loading", "running", "exited"}
  /\ Sound(Names!FS)
  /\ cwd \in Path /\ Is(Names!FS, cwd, "dir")
  /\ StreamsInv(Names!FS, streams)
  /\ opens \in 0 .. MaxOpens

\* How fs is a tree.
PathsOf(fs, kind) == {p \in Path : Is(fs, p, kind)}

\* What a step may do to the tree.
TreeStep == UNCHANGED <<nodes, nameTable, cwd>> \/ Names!Tree!Next

\* The paths that the refinement mapping takes from the variables.
LEMMA PathsAre ==
  /\ \A kind : Names!Paths(kind) = PathsOf(Names!FS, kind)
  /\ \A kind : (Names!Paths(kind))' = PathsOf(Names!FS', kind)
<1>1. Names!FS.node = nodes /\ (Names!FS').node = nodes'
  BY DEF Names!FS
<1>2. \A kind : Names!Paths(kind) = PathsOf(Names!FS, kind)
  BY <1>1 DEF Names!Paths, PathsOf, Is
<1>3. \A kind : (Names!Paths(kind))' = PathsOf(Names!FS', kind)
  BY <1>1 DEF Names!Paths, PathsOf, Is
<1>4. QED
  BY <1>2, <1>3

\* A prefix of a path of Path is one.
LEMMA FrontInPath ==
  ASSUME NEW p \in Path, p # <<>>
  PROVE  /\ Names!Front(p) \in Path /\ Names!Tree!Parent(p) = Names!Front(p)
         /\ p \in Seq(Name)
<1>1. p \in Seq(Name)
  BY Constants
<1>2. Len(p) - 1 \in 0 .. Len(p)
  BY <1>1
<1>3. QED
  BY <1>1, <1>2, Constants DEF Names!Front, Names!Tree!Parent

\* The paths of a sound file system are a tree.
LEMMA IsTreeOf ==
  ASSUME NEW fs, Sound(fs)
  PROVE  Names!Tree!IsTree(PathsOf(fs, "dir"), PathsOf(fs, "file"))
<1>1. <<>> \in PathsOf(fs, "dir")
  <2>1. <<>> \in Path /\ <<>> \in Seq(Name)
    BY Constants
  <2>2. Names!Lookup(fs, <<>>) = 1
    BY <2>1, LookupChild
  <2>3. fs.node[1].kind = "dir"
    BY DEF Sound, Climbing
  <2>4. QED
    BY <2>1, <2>2, <2>3 DEF PathsOf, Is
<1>2. PathsOf(fs, "dir") \intersect PathsOf(fs, "file") = {}
  BY DEF PathsOf, Is
<1>3. ASSUME NEW p \in PathsOf(fs, "dir") \union PathsOf(fs, "file"), p # <<>>
      PROVE  Names!Tree!Parent(p) \in PathsOf(fs, "dir")
  <2>1. p \in Path /\ Names!Lookup(fs, p) # 0
    BY DEF PathsOf, Is
  <2>2. Names!Front(p) \in Path /\ Names!Tree!Parent(p) = Names!Front(p) /\ p \in Seq(Name)
    BY <1>3, <2>1, FrontInPath
  <2>3. Is(fs, Names!Front(p), "dir")
    BY <1>3, <2>1, <2>2, Found DEF Is, Directory
  <2>4. QED
    BY <2>2, <2>3 DEF PathsOf
<1>4. QED
  BY <1>1, <1>2, <1>3 DEF Names!Tree!IsTree

\* A file system that grows keeps every path, and what it leads to.
LEMMA IsKept ==
  ASSUME NEW fs, Sound(fs), NEW g, Grows(fs, g), NEW q \in Seq(Name), NEW kind, Is(fs, q, kind)
  PROVE  Is(g, q, kind)
<1>1. Names!Lookup(g, q) = Names!Lookup(fs, q) /\ Names!Lookup(fs, q) \in DOMAIN fs.node
  BY Found DEF Grows, Is
<1>2. QED
  BY <1>1 DEF Grows, Kept, Is

\* What a path leads to is a directory or a file.
LEMMA KindOfFound ==
  ASSUME NEW fs, Sound(fs), NEW q \in Seq(Name), Names!Lookup(fs, q) # 0
  PROVE  Is(fs, q, "dir") \/ Is(fs, q, "file")
<1>1. Names!Lookup(fs, q) \in DOMAIN fs.node
  BY Found
<1>2. fs.node[Names!Lookup(fs, q)].kind \in {"dir", "file"}
  <2>1. fs.node[Names!Lookup(fs, q)] \in Nodes
    BY <1>1 DEF Sound, Systems
  <2>2. QED
    BY <2>1 DEF Nodes
<1>3. QED
  BY <1>2 DEF Is

\* A file system that grows by a node is a tree that grows by a path.
LEMMA GrownTree ==
  ASSUME NEW fs, Sound(fs), NEW g, Grows(fs, g), g # fs
  PROVE  Names!Tree!Grown(PathsOf(fs, "dir"), PathsOf(fs, "file"),
                          PathsOf(g, "dir"), PathsOf(g, "file"))
<1>1. Path \subseteq Seq(Name)
  BY Constants
<1>2. PathsOf(fs, "dir") \subseteq PathsOf(g, "dir") /\ PathsOf(fs, "file") \subseteq PathsOf(g, "file")
  BY <1>1, IsKept DEF PathsOf
<1>3. PICK q \in Path : Names!Lookup(fs, q) = 0 /\ Names!Lookup(g, q) # 0
  BY DEF Grows
<1>4. q \in PathsOf(g, "dir") \union PathsOf(g, "file")
  BY <1>1, <1>3, KindOfFound DEF PathsOf, Grows
<1>5. q \notin PathsOf(fs, "dir") \union PathsOf(fs, "file")
  BY <1>3 DEF PathsOf, Is
<1>6. Names!Tree!IsTree(PathsOf(g, "dir"), PathsOf(g, "file"))
  BY IsTreeOf DEF Grows
<1>7. QED
  BY <1>2, <1>4, <1>5, <1>6 DEF Names!Tree!Grown

-----------------------------------------------------------------------------
(* The initial state.                                                      *)

\* FS.staticInit: the root.
RootOnly ==
  [node |-> <<[parent |-> 1, name |-> "", kind |-> "dir", writable |-> TRUE, contents |-> <<>>]>>,
   table |-> [b \in 0 .. Buckets - 1 |-> <<>>]]

\* It is in order.
LEMMA RootSound ==
  Sound(RootOnly) /\ \A i \in DOMAIN RootOnly.node : RootOnly.node[i].kind = "dir"
<1> DEFINE fs == RootOnly
           r == [parent |-> 1, name |-> "", kind |-> "dir", writable |-> TRUE, contents |-> <<>>]
<1>1. r \in Nodes
  <2>1. <<>> \in Seq(Name)
    OBVIOUS
  <2>2. QED
    BY <2>1 DEF Nodes
<1>2. /\ fs.node = <<r>> /\ fs.table = [b \in 0 .. Buckets - 1 |-> <<>>]
      /\ fs = [node |-> fs.node, table |-> fs.table]
  BY DEF RootOnly
<1>3. <<>> \in Seq(Nat)
  OBVIOUS
<1>4. r.parent = 1 /\ r.kind = "dir" /\ r.contents = <<>>
  OBVIOUS
<1> HIDE DEF r, fs
<1>5. fs.node \in Seq(Nodes) /\ DOMAIN fs.node = {1} /\ fs.node[1] = r
  BY <1>1, <1>2
<1>6. fs \in Systems
  BY <1>2, <1>3, <1>5 DEF Systems
<1>7. Inner(fs) = {}
  BY <1>5 DEF Inner
<1>8. Climbing(fs)
  BY <1>4, <1>5, <1>7 DEF Climbing
<1>9. Chained(fs)
  BY <1>2 DEF Chained, Distinct, Elements
<1>10. Single(fs) /\ Rooted(fs)
  BY <1>7 DEF Single, Rooted
<1>11. Listed(fs)
  <2>1. Distinct(<<>>) /\ Elements(<<>>) = {}
    BY DEF Distinct, Elements
  <2>2. QED
    BY <1>4, <1>5, <1>7, <2>1 DEF Listed
<1>12. \A i \in DOMAIN fs.node : fs.node[i].kind = "dir"
  BY <1>4, <1>5
<1>13. QED
  BY <1>6, <1>8, <1>9, <1>10, <1>11, <1>12 DEF Sound, fs

\* staticInit makes the default directories one after the other.
LEMMA NamesInit ==
  ASSUME Names!Init
  PROVE  NamesInv /\ Names!Tree!Init
<1> DEFINE T == {g \in Systems : Grows(RootOnly, g) /\ \A i \in DOMAIN g.node : g.node[i].kind = "dir"}
           n == Len(Default)
           D == 0 .. n
           step == [k \in 1 .. n |-> [g \in T |-> Names!Mknod(g, <<Default[k]>>, "dir", TRUE)]]
           Solves(f) == f = [k \in D |-> IF k = 0 THEN RootOnly
                               ELSE Names!Mknod(f[k - 1], <<Default[k]>>, "dir", TRUE)]
<1>1. n \in Nat
  BY Constants
<1>2. ASSUME NEW k \in 1 .. n, NEW g \in T
      PROVE  Names!Mknod(g, <<Default[k]>>, "dir", TRUE) \in T
  <2> DEFINE q == <<Default[k]>>
             h == Names!Mknod(g, q, "dir", TRUE)
  <2>1. q \in Path /\ q # <<>>
    <3>1. k \in DOMAIN Default
      BY Constants
    <3>2. QED
      BY <3>1, Constants
  <2>2. Sound(g) /\ Grows(RootOnly, g)
    BY DEF Grows
  <2> HIDE DEF q
  <2>3. Grows(g, h)
    BY <2>1, <2>2, MknodGrows
  <2>8. NewNodes(g, h, "dir")
    BY <2>1, <2>2, MknodGrows
  <2> HIDE DEF h
  <2>4. Grows(RootOnly, h)
    BY <2>2, <2>3, GrowsOn
  <2>5. \A i \in DOMAIN h.node : h.node[i].kind = "dir"
    BY <2>3, <2>8 DEF NewNodes, Grows, Kept
  <2>6. h \in T
    BY <2>4, <2>5 DEF Grows, Sound
  <2>7. QED
    BY <2>6 DEF h, q
<1>3. RootOnly \in T
  <2>1. \A i \in DOMAIN RootOnly.node : RootOnly.node[i].kind = "dir"
    BY RootSound
  <2>2. QED
    BY <2>1, RootSound, GrowsAtAll DEF Sound
<1>4. PICK f \in [D -> T] : f[0] = RootOnly /\ \A k \in 1 .. n : f[k] = step[k][f[k - 1]]
  <2> HIDE DEF T, n
  <2>1. step \in [1 .. n -> [T -> T]]
    BY <1>2
  <2> HIDE DEF step, Solves
  <2>2. Stepwise(T, n, RootOnly, step)
    BY <1>1, <1>3, <2>1 DEF Stepwise
  <2>3. QED
    BY <2>2, StepByStep
<1> HIDE DEF T
<1>5. Solves(f)
  <2> HIDE DEF n
  <2>1. \A k \in 1 .. n : k - 1 \in D /\ f[k - 1] \in T
    BY <1>1, <1>4
  <2>2. ASSUME NEW k \in 1 .. n PROVE f[k] = Names!Mknod(f[k - 1], <<Default[k]>>, "dir", TRUE)
    <3>1. step[k][f[k - 1]] = Names!Mknod(f[k - 1], <<Default[k]>>, "dir", TRUE)
      BY <2>1
    <3> HIDE DEF step
    <3>2. QED
      BY <1>4, <3>1
  <2>3. \A k \in D : k = 0 \/ k \in 1 .. n
    BY <1>1
  <2> HIDE DEF D
  <2>4. QED
    BY <1>4, <2>2, <2>3
<1> DEFINE made == CHOOSE f1 : Solves(f1)
<1>6. Solves(made)
  <2> HIDE DEF Solves
  <2>1. QED
    BY <1>5
<1>7. Names!FS = [node |-> made[n].node, table |-> made[n].table]
  BY DEF Names!Init, Names!FS, Names!Root, RootOnly
<1>8. /\ made[0] = RootOnly
      /\ \A k \in 1 .. n : made[k] = Names!Mknod(made[k - 1], <<Default[k]>>, "dir", TRUE)
  <2> HIDE DEF made
  <2>1. \A k \in D : made[k] = IF k = 0 THEN RootOnly
                               ELSE Names!Mknod(made[k - 1], <<Default[k]>>, "dir", TRUE)
    BY <1>6
  <2>2. 0 \in D /\ \A k \in 1 .. n : k \in D /\ k # 0
    BY <1>1
  <2> HIDE DEF D, n
  <2>3. QED
    BY <2>1, <2>2
<1> HIDE DEF made, n
<1>9. \A k \in 0 .. n : made[k] \in T
  BY <1>1, <1>2, <1>3, <1>8, EveryStep
<1>10. made[n] \in T
  BY <1>1, <1>9
<1>11. Names!FS = made[n]
  BY <1>7, <1>10 DEF T, Systems
<1>12. Sound(Names!FS) /\ \A i \in DOMAIN Names!FS.node : Names!FS.node[i].kind = "dir"
  BY <1>10, <1>11 DEF T, Grows
<1>13. cwd = <<>> /\ cwd \in Path /\ Is(Names!FS, cwd, "dir")
  <2>1. cwd = <<>> /\ <<>> \in Path /\ <<>> \in Seq(Name)
    BY Constants DEF Names!Init
  <2>2. Names!Lookup(Names!FS, <<>>) = 1
    BY <1>12, <2>1, LookupChild
  <2>3. Names!FS.node[1].kind = "dir"
    BY <1>12 DEF Sound, Climbing
  <2>4. QED
    BY <2>1, <2>2, <2>3 DEF Is
<1>14. NamesInv
  <2>1. phase = "loading" /\ streams = [f1 \in Fd |-> Names!NoStream] /\ opens = 0
    BY DEF Names!Init
  <2>2. streams \in [Fd -> StreamsOf(Names!FS) \union {Names!NoStream}]
    BY <2>1
  <2>3. \A f1 \in Fd : streams[f1] = Names!NoStream
    BY <2>1
  <2>4. opens \in 0 .. MaxOpens
    BY <2>1, Constants
  <2>5. QED
    BY <1>12, <1>13, <2>1, <2>2, <2>3, <2>4 DEF NamesInv, StreamsInv
<1>15. PathsOf(Names!FS, "file") = {}
  <2>1. \A q \in Path : q \in Seq(Name)
    BY Constants
  <2>2. \A q \in Path : ~Is(Names!FS, q, "file")
    BY <1>12, <2>1, Found DEF Is
  <2>3. QED
    BY <2>2 DEF PathsOf
<1>16. Names!Tree!Init
  <2>1. Names!Tree!IsTree(Names!Paths("dir"), Names!Paths("file")) /\ Names!Paths("file") = {}
    BY <1>12, <1>15, IsTreeOf, PathsAre
  <2>2. Names!Paths("dir") \in SUBSET Path
    BY DEF Names!Paths
  <2>3. QED
    BY <1>13, <2>1, <2>2 DEF Names!Tree!Init
<1>17. QED
  BY <1>14, <1>16

-----------------------------------------------------------------------------
(* Streams.                                                                *)

\* Descriptors stay as they are when nodes are added.
LEMMA StreamsLater ==
  ASSUME NEW fs, NEW g, DOMAIN fs.node \subseteq DOMAIN g.node, NEW st, StreamsInv(fs, st)
  PROVE  StreamsInv(g, st)
<1>1. StreamsOf(fs) \subseteq StreamsOf(g)
  BY DEF StreamsOf
<1>2. QED
  BY <1>1 DEF StreamsInv

\* An open descriptor is not a free one.
LEMMA NoStreamIsNone ==
  ASSUME NEW fs, Sound(fs), NEW s \in StreamsOf(fs)
  PROVE  s # Names!NoStream
<1>1. s.node \in DOMAIN fs.node
  BY DEF StreamsOf
<1>2. s.node # 0
  BY <1>1 DEF Sound, Systems
<1>3. QED
  BY <1>2 DEF Names!NoStream

\* Opening or moving one descriptor.
LEMMA StreamsWith ==
  ASSUME NEW fs, NEW st, StreamsInv(fs, st), NEW f \in Fd,
         NEW s \in StreamsOf(fs) \union {Names!NoStream}, s # Names!NoStream => Listing(s)
  PROVE  StreamsInv(fs, [st EXCEPT ![f] = s])
BY DEF StreamsInv

\* What the invariant says of one descriptor.
LEMMA StreamAt ==
  ASSUME NEW fs, NEW st, StreamsInv(fs, st), NEW f \in Fd, st[f] # Names!NoStream
  PROVE  st[f] \in StreamsOf(fs) /\ Listing(st[f])
BY DEF StreamsInv

\* FS.nextfd finds a descriptor.
LEMMA LeastFree ==
  ASSUME NEW S, S \subseteq Fd, S # {}
  PROVE  Names!Min(S) \in S
<1>1. S \subseteq Nat
  BY Constants
<1>2. PICK i \in S : \A j \in S : i <= j
  BY <1>1, LeastNumber
<1>3. QED
  BY <1>2 DEF Names!Min

\* The stream of a directory or file just opened.
LEMMA NewStream ==
  ASSUME NEW fs, Sound(fs), NEW p \in Path, Names!Lookup(fs, p) # 0
  PROVE  LET s == Names!Stream(fs, Names!Lookup(fs, p))
         IN s \in StreamsOf(fs) /\ Listing(s)
<1> DEFINE id == Names!Lookup(fs, p)
           s == Names!Stream(fs, id)
<1>1. p \in Seq(Name)
  BY Constants
<1>2. id \in DOMAIN fs.node /\ Names!GetPath(fs, id) = p
  BY <1>1, Found, PathOfFound
<1> HIDE DEF id
<1>3. s = [node |-> id, path |-> p, list |-> <<>>, entry |-> 0, got |-> <<>>,
           stable |-> {}, ended |-> FALSE]
  BY <1>2 DEF Names!Stream, Names!Unread
<1> HIDE DEF s
<1>4. <<>> \in Seq(AnyName) /\ {} \in SUBSET AnyName
  OBVIOUS
<1>5. s \in StreamsOf(fs)
  BY <1>2, <1>3, <1>4 DEF StreamsOf
<1>6. Listing(s)
  BY <1>3 DEF Listing
<1>7. QED
  BY <1>5, <1>6 DEF s, id

\* What readdir lists: no name twice, as no entry has the name of the directory
\* or of its parent.
LEMMA DirectoryListing ==
  ASSUME NEW fs, Sound(fs), NEW d \in DOMAIN fs.node
  PROVE  LET list == <<".", "..">> \o fs.node[d].contents
         IN list \in Seq(AnyName) /\ Distinct(list)
<1> DEFINE c == fs.node[d].contents
           l1 == <<"..">> \o c
           l2 == <<".">> \o l1
<1>1. c \in Seq(Name) /\ Distinct(c)
  <2>1. fs.node[d] \in Nodes
    BY DEF Sound, Systems
  <2>2. QED
    BY <2>1, NodeContents DEF Sound, Listed
<1> HIDE DEF c
<1>2. c \in Seq(AnyName)
  BY <1>1 DEF AnyName
<1>3. Elements(c) \subseteq Name
  BY <1>1 DEF Elements
<1>4. "." \in AnyName /\ ".." \in AnyName /\ ".." \notin Elements(c) /\ "." \notin Elements(c)
  BY <1>3, Constants DEF AnyName
<1>5. l1 \in Seq(AnyName) /\ Distinct(l1) /\ Elements(l1) = Elements(c) \union {".."}
  BY <1>1, <1>2, <1>4, Prepended
<1> HIDE DEF l1
<1>6. "." \notin Elements(l1)
  BY <1>4, <1>5
<1>7. l2 \in Seq(AnyName) /\ Distinct(l2)
  BY <1>4, <1>5, <1>6, Prepended
<1>8. l2 = <<".", "..">> \o c
  BY <1>2, <1>4 DEF l1
<1>9. QED
  BY <1>7, <1>8 DEF c

-----------------------------------------------------------------------------
(* The steps of the loader.                                                *)

\* A file system that grows keeps its paths and takes the tree a step on.
LEMMA Becoming ==
  ASSUME NamesInv, NEW g, Grows(Names!FS, g), Names!Becomes(g)
  PROVE  /\ Names!FS' = g /\ Sound(Names!FS')
         /\ DOMAIN Names!FS.node \subseteq DOMAIN (Names!FS').node
         /\ \A q \in Seq(Name) : \A kind : Is(Names!FS, q, kind) => Is(Names!FS', q, kind)
         /\ \/ UNCHANGED <<nodes, nameTable>>
            \/ Names!Tree!Grown(Names!Paths("dir"), Names!Paths("file"),
                                Names!Paths("dir")', Names!Paths("file")')
<1>1. g \in Systems /\ Sound(g)
  BY DEF Grows, Sound
<1>2. Names!FS' = g
  BY <1>1 DEF Systems, Names!Becomes, Names!FS
<1>3. DOMAIN Names!FS.node \subseteq DOMAIN g.node
  BY DEF Grows, Kept
<1>4. \A q \in Seq(Name) : \A kind : Is(Names!FS, q, kind) => Is(g, q, kind)
  BY IsKept DEF NamesInv
<1>5. CASE g = Names!FS
  <2>1. UNCHANGED <<nodes, nameTable>>
    BY <1>5 DEF Names!Becomes, Names!FS
  <2>2. QED
    BY <1>1, <1>2, <1>3, <1>4, <2>1
<1>6. CASE g # Names!FS
  <2>1. Names!Tree!Grown(PathsOf(Names!FS, "dir"), PathsOf(Names!FS, "file"),
                          PathsOf(g, "dir"), PathsOf(g, "file"))
    BY <1>6, GrownTree DEF NamesInv
  <2>2. Names!Tree!Grown(Names!Paths("dir"), Names!Paths("file"),
                                Names!Paths("dir")', Names!Paths("file")')
    BY <1>2, <2>1, PathsAre
  <2>3. QED
    BY <1>1, <1>2, <1>3, <1>4, <2>2
<1>7. QED
  BY <1>5, <1>6

\* FS.createPath.
LEMMA CreatePathStep ==
  ASSUME NamesInv, NEW p \in Path, Names!CreatePath(p)
  PROVE  NamesInv' /\ TreeStep
<1>1. Grows(Names!FS, Names!WithPath(Names!FS, p))
  BY WithPathGrows DEF NamesInv
<1>2. Names!Becomes(Names!WithPath(Names!FS, p)) /\ UNCHANGED <<phase, cwd, streams, opens>>
  BY DEF Names!CreatePath
<1>3. Sound(Names!FS') /\ StreamsInv(Names!FS', streams)
  BY <1>1, <1>2, Becoming, StreamsLater DEF NamesInv
<1>4. Is(Names!FS', cwd, "dir")
  BY <1>1, <1>2, Becoming, Constants DEF NamesInv
<1>5. NamesInv'
  BY <1>2, <1>3, <1>4 DEF NamesInv
<1>6. TreeStep
  BY <1>1, <1>2, Becoming DEF TreeStep, Names!Tree!Next
<1>7. QED
  BY <1>5, <1>6

\* FS.createDataFile.
LEMMA LoadFileStep ==
  ASSUME NamesInv, NEW p \in Path, p # <<>>, Names!LoadFile(p)
  PROVE  NamesInv' /\ TreeStep
<1> DEFINE fs == Names!WithPath(Names!FS, Names!Front(p))
           g == Names!Mknod(fs, p, "file", TRUE)
<1>1. Grows(Names!FS, g)
  <2>1. Names!Front(p) \in Path
    BY FrontInPath
  <2>2. Grows(Names!FS, fs)
    BY <2>1, WithPathGrows DEF NamesInv
  <2> HIDE DEF fs
  <2>3. Grows(fs, g)
    BY <2>2, MknodGrows DEF Grows
  <2> HIDE DEF g
  <2>4. QED
    BY <2>2, <2>3, GrowsOn
<1>2. Names!Becomes(g) /\ UNCHANGED <<phase, cwd, streams, opens>>
  BY DEF Names!LoadFile
<1> HIDE DEF g
<1>3. Sound(Names!FS') /\ StreamsInv(Names!FS', streams)
  BY <1>1, <1>2, Becoming, StreamsLater DEF NamesInv
<1>4. Is(Names!FS', cwd, "dir")
  BY <1>1, <1>2, Becoming, Constants DEF NamesInv
<1>5. NamesInv'
  BY <1>2, <1>3, <1>4 DEF NamesInv
<1>6. TreeStep
  BY <1>1, <1>2, Becoming DEF TreeStep, Names!Tree!Next
<1>7. QED
  BY <1>5, <1>6

\* FS.chdir.
LEMMA SetWorkingDirectoryStep ==
  ASSUME NamesInv, NEW p \in Path, Names!SetWorkingDirectory(p)
  PROVE  NamesInv' /\ TreeStep
<1> DEFINE g == Names!WithPath(Names!FS, p)
<1>1. Grows(Names!FS, g)
  BY WithPathGrows DEF NamesInv
<1>2. /\ Names!Becomes(g) /\ Names!IsDir(g, Names!Lookup(g, p)) /\ cwd' = p
      /\ UNCHANGED <<phase, streams, opens>>
  BY DEF Names!SetWorkingDirectory
<1> HIDE DEF g
<1>3. Sound(Names!FS') /\ StreamsInv(Names!FS', streams) /\ Names!FS' = g
  BY <1>1, <1>2, Becoming, StreamsLater DEF NamesInv
<1>4. Is(Names!FS', p, "dir")
  BY <1>2, <1>3 DEF Names!IsDir, Is
<1>5. NamesInv'
  BY <1>2, <1>3, <1>4 DEF NamesInv
<1>6. p \in Names!Paths("dir")'
  BY <1>4, PathsAre DEF PathsOf
<1>7. CASE UNCHANGED <<nodes, nameTable>>
  <2>1. UNCHANGED <<Names!Paths("dir"), Names!Paths("file")>>
    <3>1. Names!FS' = Names!FS
      BY <1>7 DEF Names!FS
    <3>2. QED
      BY <3>1, PathsAre
  <2>2. TreeStep
    BY <1>2, <1>6, <1>7, <2>1 DEF TreeStep, Names!Tree!Next
  <2>3. QED
    BY <1>5, <2>2
<1>8. CASE Names!Tree!Grown(Names!Paths("dir"), Names!Paths("file"),
                            Names!Paths("dir")', Names!Paths("file")')
  BY <1>2, <1>5, <1>6, <1>8 DEF TreeStep, Names!Tree!Next
<1>9. QED
  BY <1>1, <1>2, <1>7, <1>8, Becoming

-----------------------------------------------------------------------------
(* The system calls.                                                       *)

\* The start of the program.
LEMMA StartStep ==
  ASSUME NamesInv, Names!Start
  PROVE  NamesInv' /\ TreeStep
<1>1. phase' = "running" /\ UNCHANGED <<nodes, nameTable, cwd, streams, opens>>
  BY DEF Names!Start
<1>2. Names!FS' = Names!FS
  BY <1>1 DEF Names!FS
<1>3. QED
  BY <1>1, <1>2 DEF NamesInv, TreeStep

\* FS.quit.
LEMMA QuitStep ==
  ASSUME NamesInv, Names!Quit
  PROVE  NamesInv' /\ TreeStep
<1>1. /\ phase' = "exited" /\ streams' = [f \in Fd |-> Names!NoStream]
      /\ UNCHANGED <<nodes, nameTable, cwd, opens>>
  BY DEF Names!Quit
<1>2. Names!FS' = Names!FS
  BY <1>1 DEF Names!FS
<1>3. StreamsInv(Names!FS, streams')
  BY <1>1 DEF StreamsInv
<1>4. QED
  BY <1>1, <1>2, <1>3 DEF NamesInv, TreeStep

\* FS.close.
LEMMA CloseStep ==
  ASSUME NamesInv, NEW f \in Fd, Names!Close(f)
  PROVE  NamesInv' /\ TreeStep
<1>1. /\ streams' = [streams EXCEPT ![f] = Names!NoStream]
      /\ UNCHANGED <<phase, nodes, nameTable, cwd, opens>>
  BY DEF Names!Close
<1>2. Names!FS' = Names!FS
  BY <1>1 DEF Names!FS
<1>3. StreamsInv(Names!FS, streams')
  BY <1>1, StreamsWith DEF NamesInv
<1>4. QED
  BY <1>1, <1>2, <1>3 DEF NamesInv, TreeStep

\* F_DUPFD.
LEMMA DupStep ==
  ASSUME NamesInv, NEW f \in Fd, NEW arg, Names!Dup(f, arg)
  PROVE  NamesInv' /\ TreeStep
<1> DEFINE free == {g \in Names!Free : g >= arg}
<1>1. /\ opens < MaxOpens /\ streams[f] # Names!NoStream /\ free # {} /\ opens' = opens + 1
      /\ streams' = [streams EXCEPT ![Names!Min(free)] = streams[f]]
      /\ UNCHANGED <<phase, nodes, nameTable, cwd>>
  BY DEF Names!Dup
<1>2. free \subseteq Fd
  BY DEF Names!Free
<1> HIDE DEF free
<1>3. Names!Min(free) \in Fd
  BY <1>1, <1>2, LeastFree
<1>4. Names!FS' = Names!FS
  BY <1>1 DEF Names!FS
<1>5. streams[f] \in StreamsOf(Names!FS) /\ Listing(streams[f])
  BY <1>1, StreamAt DEF NamesInv
<1>6. StreamsInv(Names!FS, streams')
  BY <1>1, <1>3, <1>5, StreamsWith DEF NamesInv
<1>7. opens' \in 0 .. MaxOpens
  BY <1>1, Constants DEF NamesInv
<1>8. QED
  BY <1>1, <1>4, <1>6, <1>7 DEF NamesInv, TreeStep

\* FS.createStream for the node of a path, which may be new.
LEMMA OpenedStep ==
  ASSUME NamesInv, opens < MaxOpens, NEW p \in Path, NEW fs, Grows(Names!FS, fs),
         Names!Lookup(fs, p) # 0, Names!Opened(fs, Names!Lookup(fs, p)), UNCHANGED <<phase, cwd>>
  PROVE  NamesInv' /\ TreeStep
<1> DEFINE s == Names!Stream(fs, Names!Lookup(fs, p))
<1>1. /\ Names!Becomes(fs)
      /\ IF Names!Free = {} THEN UNCHANGED <<streams, opens>>
         ELSE streams' = [streams EXCEPT ![Names!Min(Names!Free)] = s] /\ opens' = opens + 1
  BY DEF Names!Opened
<1>2. s \in StreamsOf(fs) /\ Listing(s)
  BY NewStream DEF Grows
<1> HIDE DEF s
<1>3. /\ Names!FS' = fs /\ Sound(Names!FS') /\ StreamsInv(fs, streams)
  BY <1>1, Becoming, StreamsLater DEF NamesInv
<1>4. StreamsInv(fs, streams') /\ opens' \in 0 .. MaxOpens
  <2>1. CASE Names!Free = {}
    BY <1>1, <1>3, <2>1 DEF NamesInv
  <2>2. CASE Names!Free # {}
    <3>1. Names!Min(Names!Free) \in Fd
      BY <2>2, LeastFree DEF Names!Free
    <3>2. StreamsInv(fs, streams')
      BY <1>1, <1>2, <1>3, <2>2, <3>1, StreamsWith
    <3>3. opens' \in 0 .. MaxOpens
      BY <1>1, <2>2, Constants DEF NamesInv
    <3>4. QED
      BY <3>2, <3>3
  <2>3. QED
    BY <2>1, <2>2
<1>5. Is(Names!FS', cwd, "dir")
  BY <1>1, Becoming, Constants DEF NamesInv
<1>6. NamesInv'
  BY <1>3, <1>4, <1>5 DEF NamesInv
<1>7. TreeStep
  BY <1>1, Becoming DEF TreeStep, Names!Tree!Next
<1>8. QED
  BY <1>6, <1>7

\* FS.open.
LEMMA OpenatStep ==
  ASSUME NamesInv, NEW p \in Path, NEW flags, NEW w \in BOOLEAN, Names!Openat(p, flags, w)
  PROVE  NamesInv' /\ TreeStep
<1> DEFINE fs == Names!Mknod(Names!FS, p, "file", w)
           old == Names!Lookup(Names!FS, p)
           new == Names!Lookup(fs, p)
<1>1. /\ opens < MaxOpens /\ UNCHANGED <<phase, cwd>>
      /\ \/ old # 0 /\ Names!Opened(Names!FS, old)
         \/ p # <<>> /\ new # 0 /\ Names!Opened(fs, new)
  BY DEF Names!Openat
<1>2. CASE old # 0 /\ Names!Opened(Names!FS, old)
  <2>1. Grows(Names!FS, Names!FS)
    BY GrowsAtAll DEF NamesInv
  <2>2. QED
    BY <1>1, <1>2, <2>1, OpenedStep
<1>3. CASE p # <<>> /\ new # 0 /\ Names!Opened(fs, new)
  <2>1. Grows(Names!FS, fs)
    BY <1>3, MknodGrows DEF NamesInv
  <2> HIDE DEF fs
  <2>2. QED
    BY <1>1, <1>3, <2>1, OpenedStep
<1>4. QED
  BY <1>1, <1>2, <1>3

\* FS.unlink and FS.rmdir.
LEMMA UnlinkatStep ==
  ASSUME NamesInv, NEW p \in Path, NEW kind \in {"file", "dir"}, Names!Unlinkat(p, kind)
  PROVE  NamesInv' /\ TreeStep
<1> DEFINE fs == Names!FS
           id == Names!Lookup(fs, p)
           g == Names!Removed(fs, id)
<1>1. /\ p # <<>> /\ id # 0 /\ nodes[id].kind = kind
      /\ kind = "dir" => Names!GetPath(fs, id) # cwd /\ nodes[id].contents = <<>>
      /\ Names!Becomes(g) /\ streams' = Names!WithoutName(id) /\ UNCHANGED <<phase, cwd, opens>>
  BY DEF Names!Unlinkat, Names!MayDelete
<1>2. Sound(fs) /\ p \in Seq(Name) /\ Path \subseteq Seq(Name) /\ cwd \in Path /\ Is(fs, cwd, "dir")
  BY Constants DEF NamesInv
<1>3. fs.node = nodes
  BY DEF Names!FS
<1> HIDE DEF fs
<1>4. /\ id \in DOMAIN fs.node /\ Filed(fs, id) /\ id \in Inner(fs) /\ id \in Nat \ {0}
      /\ Names!GetPath(fs, id) = p
  BY <1>1, <1>2, Found, PathOfFound
<1>5. \A q \in Seq(Name) : Names!Lookup(fs, q) = id <=> q = p
  BY <1>1, <1>2, OnePath
<1>6. Is(fs, p, kind)
  BY <1>1, <1>3 DEF Is
<1> HIDE DEF id, g
<1>7. ASSUME NEW j \in Inner(fs), Filed(fs, j) PROVE fs.node[j].parent # id
  <2>1. SUFFICES ASSUME fs.node[j].parent = id PROVE FALSE
    OBVIOUS
  <2>2. fs.node[id].kind = "dir"
    BY <1>2, <1>7, <2>1 DEF Sound, Rooted
  <2>3. fs.node[id].contents = <<>>
    BY <1>1, <1>3, <2>2
  <2>4. Elements(fs.node[id].contents) =
          {fs.node[i].name : i \in {i \in Inner(fs) : Filed(fs, i) /\ fs.node[i].parent = id}}
    BY <1>2, <1>4 DEF Sound, Listed
  <2>5. fs.node[j].name \in Elements(fs.node[id].contents)
    BY <1>7, <2>1, <2>4
  <2>6. QED
    BY <2>3, <2>5 DEF Elements
<1>8. /\ Sound(g) /\ Kept(fs, g) /\ DOMAIN g.node = DOMAIN fs.node
  BY <1>2, <1>4, <1>7, RemovedSound DEF g
<1>9. \A q \in Seq(Name) : Names!Lookup(g, q) = IF q = p THEN 0 ELSE Names!Lookup(fs, q)
  BY <1>2, <1>4, <1>5, <1>7, RemovedLookup DEF g
<1>10. Names!FS' = g
  BY <1>1, <1>8 DEF Sound, Systems, Names!Becomes, Names!FS
<1>11. \A q \in Seq(Name) : \A k : Is(g, q, k) <=> Is(fs, q, k) /\ q # p
  <2>1. ASSUME NEW q \in Seq(Name), Names!Lookup(fs, q) # 0
        PROVE  g.node[Names!Lookup(fs, q)].kind = fs.node[Names!Lookup(fs, q)].kind
    <3>1. Names!Lookup(fs, q) \in DOMAIN fs.node
      BY <1>2, <2>1, Found
    <3>2. QED
      BY <1>8, <3>1 DEF Kept
  <2>2. QED
    BY <1>9, <2>1 DEF Is
<1>12. cwd # p
  BY <1>1, <1>2, <1>4, <1>6 DEF Is
<1>13. StreamsInv(fs, streams')
  <2>1. ASSUME NEW f \in Fd
        PROVE  /\ streams'[f] \in StreamsOf(fs) \union {Names!NoStream}
               /\ streams'[f] # Names!NoStream => Listing(streams'[f])
    <3> DEFINE s == streams[f]
               t == [s EXCEPT !.stable = @ \ {nodes[id].name}]
    <3>1. streams'[f] = IF s # Names!NoStream /\ s.node = nodes[id].parent THEN t ELSE s
      BY <1>1 DEF Names!WithoutName
    <3>2. s \in StreamsOf(fs) \union {Names!NoStream} /\ (s # Names!NoStream => Listing(s))
      BY DEF NamesInv, StreamsInv, fs
    <3> HIDE DEF s
    <3>3. CASE s # Names!NoStream /\ s.node = nodes[id].parent
      <4>1. s \in StreamsOf(fs) /\ Listing(s)
        BY <3>2, <3>3
      <4>2. t \in StreamsOf(fs) /\ t.list = s.list /\ t.entry = s.entry /\ t.got = s.got
            /\ t.ended = s.ended /\ t.stable = s.stable \ {nodes[id].name}
        BY <4>1 DEF StreamsOf
      <4> HIDE DEF t
      <4>3. Listing(t)
        BY <4>1, <4>2 DEF Listing
      <4>4. QED
        BY <3>1, <3>3, <4>2, <4>3
    <3>4. CASE ~(s # Names!NoStream /\ s.node = nodes[id].parent)
      <4>1. streams'[f] = s
        BY <3>1, <3>4
      <4>2. QED
        BY <3>2, <4>1
    <3>5. QED
      BY <3>3, <3>4
  <2>2. streams' = [f \in Fd |-> streams'[f]]
    BY <1>1 DEF Names!WithoutName
  <2>3. QED
    BY <2>1, <2>2 DEF StreamsInv
<1>14. StreamsInv(g, streams')
  BY <1>8, <1>13, StreamsLater
<1>15. NamesInv'
  BY <1>1, <1>2, <1>8, <1>10, <1>11, <1>12, <1>14 DEF NamesInv
<1>16. \A k : Names!Paths(k) = PathsOf(fs, k) /\ Names!Paths(k)' = PathsOf(fs, k) \ {p}
  <2>1. \A k : PathsOf(g, k) = PathsOf(fs, k) \ {p}
    BY <1>2, <1>11 DEF PathsOf
  <2>2. QED
    BY <1>10, <2>1, PathsAre DEF fs
<1>17. p \in PathsOf(fs, kind) /\ \A k : k # kind => p \notin PathsOf(fs, k)
  BY <1>6 DEF PathsOf, Is
<1>18. CASE kind = "file"
  <2>1. PathsOf(fs, "dir") \ {p} = PathsOf(fs, "dir") /\ p \in PathsOf(fs, "file")
    BY <1>17, <1>18
  <2>2. Names!Tree!Removed(Names!Paths("dir"), Names!Paths("file"),
                           Names!Paths("dir")', Names!Paths("file")')
    BY <1>16, <2>1 DEF Names!Tree!Removed
  <2>3. QED
    BY <1>1, <1>15, <2>2 DEF TreeStep, Names!Tree!Next
<1>19. CASE kind = "dir"
  <2>1. PathsOf(fs, "file") \ {p} = PathsOf(fs, "file") /\ p \in PathsOf(fs, "dir") \ {<<>>, cwd}
    BY <1>1, <1>12, <1>17, <1>19
  <2>2. ASSUME NEW q \in PathsOf(fs, "dir") \union PathsOf(fs, "file"), q # <<>>
        PROVE  Names!Tree!Parent(q) # p
    <3>1. q \in Path /\ Names!Lookup(fs, q) # 0
      BY DEF PathsOf, Is
    <3>2. q \in Seq(Name) /\ Names!Tree!Parent(q) = Names!Front(q)
      BY <2>2, <3>1, FrontInPath
    <3>3. /\ Filed(fs, Names!Lookup(fs, q)) /\ Names!Lookup(fs, q) \in Inner(fs)
          /\ fs.node[Names!Lookup(fs, q)].parent = Names!Lookup(fs, Names!Front(q))
      BY <1>2, <2>2, <3>1, <3>2, Found
    <3>4. Names!Lookup(fs, Names!Front(q)) # id
      BY <1>7, <3>3
    <3>5. QED
      BY <3>2, <3>4 DEF id
  <2>3. Names!Tree!Removed(Names!Paths("dir"), Names!Paths("file"),
                           Names!Paths("dir")', Names!Paths("file")')
    BY <1>16, <2>1, <2>2 DEF Names!Tree!Removed
  <2>4. QED
    BY <1>1, <1>15, <2>3 DEF TreeStep, Names!Tree!Next
<1>20. QED
  BY <1>18, <1>19

\* A call of getdents64 reads on in the list of the stream, from its entry to
\* the top-th, or fails and stays where it is.
LEMMA GetdentsStep ==
  ASSUME NamesInv, NEW f \in Fd, Names!Getdents(f, Room)
  PROVE  NamesInv' /\ TreeStep
<1> DEFINE fs == Names!FS
           s == streams[f]
           list == Names!Entries(s)
           top == Names!Min({Len(list), s.entry + Room})
           shown == SubSeq(list, s.entry + 1, top)
           stable == IF s.list = <<>> THEN Elements(list) ELSE s.stable
           begun == [s EXCEPT !.list = list, !.stable = stable]
           read == [begun EXCEPT !.entry = @ + Len(shown), !.got = @ \o shown, !.ended = shown = <<>>]
<1>1. /\ s # Names!NoStream /\ list # <<>>
      /\ streams' = [streams EXCEPT ![f] = begun] \/ streams' = [streams EXCEPT ![f] = read]
      /\ UNCHANGED <<phase, nodes, nameTable, cwd, opens>>
  BY DEF Names!Getdents, Names!Unread, Names!ToSet, Elements
<1>2. s \in StreamsOf(fs) /\ Listing(s) /\ Sound(fs)
  BY <1>1, StreamAt DEF NamesInv
<1>3. list \in Seq(AnyName) /\ Distinct(list) /\ (s.list # <<>> => list = s.list)
  <2>1. CASE s.list # <<>>
    <3>1. list = s.list
      BY <2>1 DEF Names!Entries, Names!Unread
    <3>2. QED
      BY <1>2, <2>1, <3>1 DEF Listing, StreamsOf
  <2>2. CASE s.list = <<>>
    <3> DEFINE d == Names!Lookup(fs, s.path)
    <3>1. list = <<".", "..">> \o fs.node[d].contents /\ d # 0
      BY <1>1, <2>2 DEF Names!Entries, Names!Unread, Names!IsDir, Names!FS
    <3>2. s.path \in Seq(Name)
      BY <1>2, Constants DEF StreamsOf
    <3>3. d \in DOMAIN fs.node
      BY <1>2, <3>1, <3>2, Found
    <3> HIDE DEF list, d, fs
    <3>4. QED
      BY <1>2, <2>2, <3>1, <3>3, DirectoryListing
  <2>3. QED
    BY <2>1, <2>2
<1> HIDE DEF list, s, fs
<1>4. /\ s.entry \in Nat /\ s.entry \in 0 .. Len(list) /\ s.got = SubSeq(list, 1, s.entry)
      /\ s.got \in Seq(AnyName) /\ s.ended \in BOOLEAN
      /\ stable \subseteq Elements(list) /\ stable \in SUBSET AnyName
      /\ s.ended => s.entry = Len(list)
  <2>1. s.entry \in Nat /\ s.got \in Seq(AnyName) /\ s.ended \in BOOLEAN
    BY <1>2 DEF StreamsOf
  <2>2. Elements(list) \subseteq AnyName
    BY <1>3 DEF Elements
  <2>3. CASE s.list = <<>>
    <3>1. s.entry = 0 /\ s.got = <<>> /\ ~s.ended
      BY <1>2, <2>3 DEF Listing
    <3>2. SubSeq(list, 1, 0) = <<>> /\ 0 \in 0 .. Len(list)
      BY <1>3
    <3>3. QED
      BY <2>1, <2>2, <2>3, <3>1, <3>2
  <2>4. CASE s.list # <<>>
    BY <1>2, <1>3, <2>1, <2>2, <2>4 DEF Listing
  <2>5. QED
    BY <2>3, <2>4
<1> HIDE DEF stable
<1>5. /\ begun \in StreamsOf(fs) /\ Listing(begun) /\ begun.entry = s.entry
      /\ begun.got = s.got /\ begun.list = list /\ begun.stable = stable
  <2>1. /\ begun \in StreamsOf(fs) /\ begun.entry = s.entry /\ begun.got = s.got
        /\ begun.list = list /\ begun.stable = stable /\ begun.ended = s.ended
    BY <1>2, <1>3, <1>4 DEF StreamsOf
  <2> HIDE DEF begun
  <2>2. Listing(begun)
    BY <1>1, <1>3, <1>4, <2>1 DEF Listing
  <2>3. QED
    BY <2>1, <2>2
<1> HIDE DEF begun
<1>6. top \in Nat /\ top \in s.entry .. Len(list) /\ (top = s.entry => s.entry = Len(list))
  <2>1. Len(list) \in Nat /\ s.entry + Room \in Nat /\ Room \in Nat /\ Room > 0
    BY <1>3, <1>4, Constants
  <2>2. top = IF Len(list) <= s.entry + Room THEN Len(list) ELSE s.entry + Room
    BY <2>1, LesserOfTwo
  <2> HIDE DEF top
  <2>3. QED
    BY <1>4, <2>1, <2>2
<1> HIDE DEF top
<1>7. /\ shown \in Seq(AnyName) /\ Len(shown) = top - s.entry
      /\ s.entry + Len(shown) = top /\ s.got \o shown = SubSeq(list, 1, top)
      /\ SubSeq(list, 1, top) \in Seq(AnyName)
      /\ shown = <<>> => top = Len(list)
  <2>1. s.entry <= top /\ top <= Len(list) /\ s.entry \in Nat /\ top \in Nat
    BY <1>3, <1>4, <1>6
  <2>2. /\ shown \in Seq(AnyName) /\ Len(shown) = top - s.entry
        /\ SubSeq(list, 1, top) \in Seq(AnyName)
        /\ SubSeq(list, 1, s.entry) \o shown = SubSeq(list, 1, top)
    <3> DEFINE e == s.entry
    <3>1. e <= top /\ top <= Len(list) /\ e \in Nat /\ top \in Nat
      BY <2>1
    <3> HIDE DEF e
    <3>2. /\ SubSeq(list, e + 1, top) \in Seq(AnyName) /\ Len(SubSeq(list, e + 1, top)) = top - e
          /\ SubSeq(list, 1, top) \in Seq(AnyName)
          /\ SubSeq(list, 1, e) \o SubSeq(list, e + 1, top) = SubSeq(list, 1, top)
      BY <1>3, <3>1, ReadOn
    <3>3. QED
      BY <3>2 DEF e
  <2> HIDE DEF shown
  <2>3. s.entry + Len(shown) = top
    BY <2>1, <2>2
  <2>4. shown = <<>> => top = Len(list)
    BY <1>6, <2>1, <2>2
  <2>5. QED
    BY <1>4, <2>2, <2>3, <2>4
<1>8. read \in StreamsOf(fs) /\ Listing(read)
  <2>1. /\ read = [begun EXCEPT !.entry = top, !.got = SubSeq(list, 1, top), !.ended = shown = <<>>]
    BY <1>5, <1>7
  <2>2. /\ begun.list = list /\ begun.stable = stable /\ begun \in StreamsOf(fs)
        /\ top \in Nat /\ SubSeq(list, 1, top) \in Seq(AnyName) /\ (shown = <<>>) \in BOOLEAN
    BY <1>5, <1>6, <1>7
  <2> HIDE DEF read, shown
  <2> DEFINE over == shown = <<>>
  <2>3. over \in BOOLEAN /\ (over => top = Len(list))
    BY <1>7
  <2>4. read = [begun EXCEPT !.entry = top, !.got = SubSeq(list, 1, top), !.ended = over]
    BY <2>1
  <2> HIDE DEF over
  <2>5. /\ read \in StreamsOf(fs) /\ read.entry = top /\ read.got = SubSeq(list, 1, top)
        /\ read.list = list /\ read.stable = stable /\ read.ended = over
    BY <2>2, <2>3, <2>4 DEF StreamsOf
  <2>6. Listing(read)
    <3>1. top \in 0 .. Len(list)
      BY <1>4, <1>6
    <3>2. QED
      BY <1>1, <1>3, <1>4, <2>3, <2>5, <3>1 DEF Listing
  <2>7. QED
    BY <2>5, <2>6
<1>9. Names!FS' = fs /\ StreamsInv(fs, streams)
  BY <1>1 DEF Names!FS, fs, NamesInv
<1>10. StreamsInv(fs, streams')
  <2> HIDE DEF read
  <2>1. QED
    BY <1>1, <1>5, <1>8, <1>9, StreamsWith
<1>11. QED
  BY <1>1, <1>9, <1>10 DEF NamesInv, TreeStep, fs

-----------------------------------------------------------------------------
(* Every step, and what it comes to.                                       *)

\* The actions together.
LEMMA NamesStep ==
  ASSUME NamesInv, Names!Next
  PROVE  NamesInv' /\ TreeStep
<1>1. CASE Names!Start \/ Names!Quit
  BY <1>1, StartStep, QuitStep
<1>2. CASE \E p \in Path \ {<<>>} :
             Names!CreatePath(p) \/ Names!LoadFile(p) \/ Names!SetWorkingDirectory(p)
  BY <1>2, CreatePathStep, LoadFileStep, SetWorkingDirectoryStep
<1>3. CASE \E p \in Path, fl \in Opening :
             \E w \in IF "create" \in fl THEN BOOLEAN ELSE {TRUE} : Names!Openat(p, fl, w)
  <2>1. PICK p \in Path, fl \in Opening, w \in BOOLEAN : Names!Openat(p, fl, w)
    BY <1>3
  <2>2. QED
    BY <2>1, OpenatStep
<1>4. CASE \E f \in Fd : Names!Close(f) \/ Names!Dup(f, 0)
  BY <1>4, CloseStep, DupStep
<1>5. CASE \E p \in Path, kind \in {"file", "dir"} : Names!Unlinkat(p, kind)
  BY <1>5, UnlinkatStep
<1>6. CASE \E f \in Fd : Names!Getdents(f, Room)
  BY <1>6, GetdentsStep
<1>7. QED
  BY <1>1, <1>2, <1>3, <1>4, <1>5, <1>6 DEF Names!Next

\* Steps of the other parts.
LEMMA NamesIdle ==
  ASSUME NamesInv, UNCHANGED nameVars
  PROVE  NamesInv' /\ TreeStep
<1>1. UNCHANGED <<phase, nodes, nameTable, cwd, streams, opens>>
  BY DEF nameVars
<1>2. Names!FS' = Names!FS
  BY <1>1 DEF Names!FS
<1>3. QED
  BY <1>1, <1>2 DEF NamesInv, TreeStep

\* The steps of the runtime.
LEMMA RuntimeNamesStep ==
  ASSUME NamesInv, [RuntimeNext]_runtimeVars
  PROVE  NamesInv' /\ TreeStep
<1>1. Names!Next \/ UNCHANGED nameVars
  BY DEF RuntimeNext, runtimeVars
<1>2. QED
  BY <1>1, NamesStep, NamesIdle

\* The chains, listings and descriptors of MEMFS are always in order.
THEOREM NamesSound == RuntimeSpec => []NamesInv
<1>1. RuntimeInit => NamesInv
  BY NamesInit DEF RuntimeInit
<1>2. NamesInv /\ [RuntimeNext]_runtimeVars => NamesInv'
  BY RuntimeNamesStep
<1>3. QED
  BY <1>1, <1>2, PTL DEF RuntimeSpec

\* The invariant says of a listing that has ended that it is complete.
LEMMA ListedWhole ==
  ASSUME NamesInv
  PROVE  ListingComplete
<1>1. SUFFICES ASSUME NEW f \in Fd, streams[f] # Names!NoStream, streams[f].ended
               PROVE  /\ Names!IsInjective(streams[f].got)
                      /\ streams[f].stable \subseteq Names!ToSet(streams[f].got)
  BY DEF ListingComplete, Names!ListingComplete
<1> DEFINE s == streams[f]
<1>2. s \in StreamsOf(Names!FS) /\ Listing(s)
  BY <1>1, StreamAt DEF NamesInv
<1> HIDE DEF s
<1>3. /\ s.list \in Seq(AnyName) /\ s.list # <<>> /\ Distinct(s.list)
      /\ s.got = SubSeq(s.list, 1, Len(s.list)) /\ s.stable \subseteq Elements(s.list)
  BY <1>1, <1>2 DEF StreamsOf, Listing, s
<1>4. s.got = s.list
  BY <1>3
<1>5. QED
  BY <1>3, <1>4 DEF s, Names!IsInjective, Names!ToSet, Distinct, Elements

\* A directory read in several calls shows every name that was there all the
\* time, and none twice, whatever is created and removed in between
\* (___syscall_getdents64, FS.readdir).
THEOREM ListingIsComplete == RuntimeSpec => []ListingComplete
<1>1. NamesInv => ListingComplete
  BY ListedWhole
<1>2. QED
  BY <1>1, NamesSound, PTL

\* RuntimeFiles implements RuntimeTree: the names reached through nodes, chains
\* and listings are a tree, and every call takes it as promised.
THEOREM NamesAreATree == RuntimeSpec => ImplementsRuntimeTree
<1>1. RuntimeInit => Names!Tree!Init
  BY NamesInit DEF RuntimeInit
<1>2. NamesInv /\ [RuntimeNext]_runtimeVars =>
        [UNCHANGED <<nodes, nameTable, cwd>> \/ Names!Tree!Next]_<<nodes, nameTable, cwd>>
  BY RuntimeNamesStep DEF TreeStep
<1>3. RuntimeSpec => Names!Tree!Init /\ [][UNCHANGED <<nodes, nameTable, cwd>> \/ Names!Tree!Next]_<<nodes, nameTable, cwd>>
  BY <1>1, <1>2, NamesSound, PTL DEF RuntimeSpec
<1>4. QED
  BY <1>3 DEF ImplementsRuntimeTree, Names!ImplementsRuntimeTree

\* The invariant includes the type invariant of the names.
LEMMA NamesTyped ==
  ASSUME NamesInv
  PROVE  Names!TypeOK
<1> DEFINE fs == Names!FS
<1>1. fs.node = nodes /\ fs.table = nameTable
  BY DEF Names!FS
<1>2. Sound(fs)
  BY DEF NamesInv
<1> HIDE DEF fs
<1>3. ASSUME NEW i \in DOMAIN nodes
      PROVE  /\ nodes[i].parent \in DOMAIN nodes /\ nodes[i].kind \in {"dir", "file"}
             /\ nodes[i].writable \in BOOLEAN /\ nodes[i].contents \in Seq(Name)
  <2>1. nodes \in Seq(Nodes) /\ nodes[i] \in Nodes
    BY <1>1, <1>2 DEF Sound, Systems
  <2>2. nodes[i].parent \in DOMAIN nodes
    <3>1. CASE i = 1
      BY <1>1, <1>2, <3>1 DEF Sound, Climbing
    <3>2. CASE i # 1
      <4>1. nodes[i].parent \in 1 .. i - 1
        BY <1>1, <1>2, <3>2 DEF Sound, Climbing, Inner
      <4>2. QED
        BY <2>1, <4>1
    <3>3. QED
      BY <3>1, <3>2
  <2>3. QED
    BY <2>1, <2>2 DEF Nodes
<1>4. nameTable \in [0 .. Buckets - 1 -> Seq(DOMAIN nodes)]
  <2>1. nameTable \in [0 .. Buckets - 1 -> Seq(Nat)]
    BY <1>1, <1>2 DEF Sound, Systems
  <2>2. ASSUME NEW b \in 0 .. Buckets - 1 PROVE nameTable[b] \in Seq(DOMAIN nodes)
    <3>1. \A k \in DOMAIN nameTable[b] : nameTable[b][k] \in DOMAIN nodes
      BY <1>1, <1>2 DEF Sound, Chained, Elements, Inner
    <3>2. nameTable[b] \in Seq(Nat)
      BY <2>1
    <3>3. QED
      BY <3>1, <3>2
  <2>3. QED
    BY <2>1, <2>2
<1>5. ASSUME NEW f \in Fd
      PROVE  \/ streams[f] = Names!NoStream
             \/ streams[f].node \in DOMAIN nodes /\ streams[f].path \in Path
  <2>1. CASE streams[f] = Names!NoStream
    BY <2>1
  <2>2. CASE streams[f] # Names!NoStream
    <3>1. streams[f] \in StreamsOf(fs)
      BY <2>2, StreamAt DEF NamesInv, fs
    <3>2. QED
      BY <1>1, <3>1 DEF StreamsOf
  <2>3. QED
    BY <2>1, <2>2
<1>6. QED
  BY <1>3, <1>4, <1>5 DEF NamesInv, Names!TypeOK
=============================================================================
