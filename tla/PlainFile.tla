------------------------------ MODULE PlainFile ------------------------------
(* What the files of the WebAssembly runtime promise to the .NET code above  *)
(* them: one file is a sequence of bytes; every descriptor reads and writes  *)
(* it at a position of its own; a gap that is skipped reads as zeros; a      *)
(* refused call changes nothing.                                             *)
EXTENDS Integers, Sequences

CONSTANTS
    Fd,         \* the descriptors open on the file
    Appending,  \* those whose writes go to the end of the file
    Byte,       \* the bytes written, 0 among them
    MaxSize     \* bound: the longest file

VARIABLES
    bytes,      \* the file
    position,   \* the position of each descriptor
    mapping,    \* the mapped region, or NoMapping
    answer      \* the result of the latest call, with the bytes it got or gave

fileVars == <<bytes, position, mapping, answer>>

NoMapping == [at |-> 0, shared |-> FALSE, bytes |-> <<>>]
Refusal == [ok |-> FALSE, count |-> 0, bytes |-> <<>>]
Count(n) == [ok |-> TRUE, count |-> n, bytes |-> <<>>]
Data(s) == [ok |-> TRUE, count |-> Len(s), bytes |-> s]

Lesser(a, b) == IF a < b THEN a ELSE b
Greater(a, b) == IF a < b THEN b ELSE a

\* At most n bytes of s from position p on.
Piece(s, p, n) == SubSeq(s, p + 1, Lesser(Len(s), p + n))

\* s cut, or filled up with zeros, to length n.
Sized(s, n) == [i \in 1 .. n |-> IF i <= Len(s) THEN s[i] ELSE 0]

\* s with the bytes d from position p on.
Overlaid(s, p, d) ==
    IF d = <<>> THEN s
    ELSE [i \in 1 .. Greater(Len(s), p + Len(d)) |->
            IF p < i /\ i <= p + Len(d) THEN d[i - p]
            ELSE IF i <= Len(s) THEN s[i] ELSE 0]

Init ==
    /\ bytes = <<>> /\ position = [f \in Fd |-> 0]
    /\ mapping = NoMapping /\ answer = Count(0)

Refuse == answer' = Refusal /\ UNCHANGED <<bytes, position, mapping>>

\* Reading n bytes moves the position behind those that there are.
Read(f, n) ==
    LET d == Piece(bytes, position[f], n) IN
    /\ answer' = Data(d)
    /\ position' = [position EXCEPT ![f] = @ + Len(d)]
    /\ UNCHANGED <<bytes, mapping>>

\* Reading at a position of the caller's choice moves nothing.
ReadAt(p, n) ==
    /\ answer' = Data(Piece(bytes, p, n))
    /\ UNCHANGED <<bytes, position, mapping>>

\* Writing n bytes moves the position behind them.
Write(f, n) ==
    LET p == IF f \in Appending THEN Len(bytes) ELSE position[f] IN
    /\ answer'.count = n
    /\ position' = [position EXCEPT ![f] = p + n]
    /\ \E d \in [1 .. n -> Byte] : answer' = Data(d) /\ bytes' = Overlaid(bytes, p, d)
    /\ UNCHANGED mapping

\* Writing at a position of the caller's choice: the position of an appending
\* descriptor may move, it does not matter to its writes.
WriteAt(f, p, n) ==
    /\ answer'.count = n
    /\ \/ UNCHANGED position
       \/ f \in Appending /\ \E q \in 0 .. Len(bytes') : position' = [position EXCEPT ![f] = q]
    /\ \E d \in [1 .. n -> Byte] : answer' = Data(d) /\ bytes' = Overlaid(bytes, p, d)
    /\ UNCHANGED mapping

Seek(f, p) ==
    /\ position' = [position EXCEPT ![f] = p]
    /\ answer' = Count(p)
    /\ UNCHANGED <<bytes, mapping>>

\* Cutting, extending or replacing the file moves no descriptor.
Resize(n) ==
    /\ answer' = Count(0)
    /\ bytes' = Sized(bytes, n)
    /\ UNCHANGED <<position, mapping>>

Replace(d) ==
    /\ answer' = Data(d)
    /\ bytes' = d
    /\ UNCHANGED <<position, mapping>>

\* A mapping is a copy of the file as it was, filled up with zeros.
Map(p, n, shared) ==
    /\ bytes # <<>>
    /\ answer' = Count(0)
    /\ mapping' = [at |-> p, shared |-> shared, bytes |-> Sized(Piece(bytes, p, n), n)]
    /\ UNCHANGED <<bytes, position>>

Poke(i, b) ==
    /\ mapping' = [mapping EXCEPT !.bytes[i] = b]
    /\ UNCHANGED <<bytes, position, answer>>

\* A shared mapping is written back when it ends.
Unmap ==
    /\ mapping # NoMapping
    /\ bytes' = IF mapping.shared THEN Overlaid(bytes, mapping.at, mapping.bytes) ELSE bytes
    /\ mapping' = NoMapping
    /\ answer' = Count(0)
    /\ UNCHANGED position

Amount == 0 .. MaxSize

Next ==
    \/ Refuse
    \/ Unmap
    \/ \E f \in Fd, n \in Amount : Read(f, n) \/ Write(f, n) \/ Seek(f, n)
    \/ \E p \in Amount, n \in Amount : ReadAt(p, n)
    \/ \E f \in Fd, p \in Amount, n \in Amount : WriteAt(f, p, n)
    \/ \E n \in Amount : Resize(n) \/ \E d \in [1 .. n -> Byte] : Replace(d)
    \/ \E p \in Amount, n \in Amount, shared \in BOOLEAN : Map(p, n, shared)
    \/ \E i \in DOMAIN mapping.bytes, b \in Byte : Poke(i, b)

Spec == Init /\ [][Next]_fileVars
=============================================================================
