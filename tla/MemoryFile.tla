------------------------------ MODULE MemoryFile ------------------------------
(***************************************************************************)
(* A regular file of MEMFS, the file system of the WebAssembly runtime     *)
(* (dotnet.native.js): its bytes are the first usedBytes of a typed array  *)
(* that may be longer.  The actions are the calls that the .NET code and   *)
(* the loader make on it, through the descriptors open on it.  The module  *)
(* implements PlainFile.                                                   *)
(***************************************************************************)
EXTENDS Integers, SequencesExt

CONSTANTS
    Fd,           \* the descriptors open on the file
    Flags,        \* of each: "read", "write", "append"
    Byte,         \* the bytes written, 0 among them
    MaxSize,      \* bound: the longest file
    MinCapacity,  \* the least capacity of a file that has grown (256)

    \* The inputs tried:
    Iov,          \* the lengths of the buffers of a vectored read
    Buffers,      \* the buffers of a vectored write
    Offset,       \* offsets, valid or not
    Seeks,        \* moves: an offset and its origin
    Lengths,      \* lengths of the file and of allocations, valid or not
    Contents,     \* contents for a whole file
    Regions       \* what is mapped: an offset and a length

\* What they are.
ConstantsOK ==
    /\ Flags \in [Fd -> SUBSET {"read", "write", "append"}]
    /\ 0 \in Byte /\ MaxSize \in Nat /\ MinCapacity \in Nat
    /\ Iov \subseteq Seq(Nat) /\ Buffers \subseteq Seq(Seq(Byte)) /\ Offset \subseteq Int
    /\ Seeks \subseteq Int \X {"set", "cur", "end"}
    /\ Lengths \subseteq Int /\ \A n \in Lengths : n <= MaxSize
    /\ Contents \subseteq Seq(Byte) /\ \A d \in Contents : Len(d) <= MaxSize
    /\ Regions \subseteq Nat \X Nat

VARIABLES
    node,      \* the file: its array (empty for null) and usedBytes
    position,  \* of each stream
    mapping,   \* the region mapped, or NoMapping
    answer     \* the result of the latest call, with the bytes it got or gave

vars == <<node, position, mapping, answer>>

Amount == 0 .. MaxSize
Chunk == UNION {[1 .. n -> Byte] : n \in Amount}   \* short sequences of bytes

NoFile == [contents |-> <<>>, usedBytes |-> 0]
NoMapping == [at |-> 0, shared |-> FALSE, bytes |-> <<>>]
Refusal == [ok |-> FALSE, count |-> 0, bytes |-> <<>>]
Count(n) == [ok |-> TRUE, count |-> n, bytes |-> <<>>]
Data(s) == [ok |-> TRUE, count |-> Len(s), bytes |-> s]

CanRead(f) == "read" \in Flags[f]
CanWrite(f) == "write" \in Flags[f]
Appends(f) == "append" \in Flags[f]

TypeOK ==
    /\ node.contents \in Seq(Byte) /\ node.usedBytes \in 0 .. Len(node.contents)
    /\ node.usedBytes <= MaxSize
    /\ position \in [Fd -> Amount]
    /\ mapping.bytes \in Chunk /\ mapping.at \in Amount

Init ==
    /\ node = NoFile /\ position = [f \in Fd |-> 0]
    /\ mapping = NoMapping /\ answer = Count(0)

-----------------------------------------------------------------------------
(* The storage of a file.                                                  *)

\* A new array of length n with the used bytes of file f, as many as fit.
Copied(f, n) ==
    [i \in 1 .. n |-> IF i <= Min({n, f.usedBytes}) THEN f.contents[i] ELSE 0]

\* typedArray.set(d, p).
Set(s, d, p) == [i \in DOMAIN s |-> IF p < i /\ i <= p + Len(d) THEN d[i - p] ELSE s[i]]

\* The capacity doubles (files below a megabyte) and is never small again.
Grown(capacity, n) ==
    Max({n, 2 * capacity} \union IF capacity = 0 THEN {} ELSE {MinCapacity})

\* A mutant: an array one byte too short is taken for long enough.
ExpandedLate(f, n) ==
    IF Len(f.contents) + 1 >= n THEN f
    ELSE [f EXCEPT !.contents = Copied(f, Grown(Len(f.contents), n))]

Expanded(f, n) ==
    IF Len(f.contents) >= n THEN f
    ELSE [f EXCEPT !.contents = Copied(f, Grown(Len(f.contents), n))]

\* A mutant: the array is kept when the file shrinks.
ResizedInPlace(f, n) ==
    IF n < f.usedBytes THEN [f EXCEPT !.usedBytes = n]
    ELSE IF n = f.usedBytes THEN f
    ELSE [contents |-> Copied(f, n), usedBytes |-> n]

Resized(f, n) ==
    CASE n = f.usedBytes -> f
      [] n # f.usedBytes /\ n = 0 -> NoFile
      [] OTHER -> [contents |-> Copied(f, n), usedBytes |-> n]

\* MEMFS.write of the bytes d at position p.
Written(f, d, p) ==
    CASE d = <<>> -> f
      [] d # <<>> /\ f.usedBytes = 0 /\ p = 0 -> [contents |-> d, usedBytes |-> Len(d)]
      [] OTHER -> [contents |-> Set(Expanded(f, p + Len(d)).contents, d, p),
                   usedBytes |-> Max({f.usedBytes, p + Len(d)})]

\* MEMFS.read of at most n bytes from position p on.
Got(p, n) ==
    IF p >= node.usedBytes THEN <<>>
    ELSE SubSeq(node.contents, p + 1, p + Min({node.usedBytes - p, n}))

-----------------------------------------------------------------------------
(* The calls.  A vectored call is a loop over its buffers.                 *)

Refused == answer' = Refusal /\ UNCHANGED <<node, position, mapping>>

\* One buffer of doReadv, which ends the loop when it is not filled.
ReadBuffer(acc, n) ==
    IF acc.ended THEN acc
    ELSE LET d == Got(acc.at, n) IN
         [at |-> acc.at + Len(d), out |-> acc.out \o d, ended |-> Len(d) < n]

Readv(p, iov) ==
    LET acc[i \in 0 .. Len(iov)] ==
            IF i = 0 THEN [at |-> p, out |-> <<>>, ended |-> FALSE]
            ELSE ReadBuffer(acc[i - 1], iov[i])
    IN acc[Len(iov)]

\* fd_read.
ReadFd(f, iov) ==
    IF ~CanRead(f) THEN Refused
    ELSE LET r == Readv(position[f], iov) IN
         /\ answer' = Data(r.out)
         /\ position' = [position EXCEPT ![f] = r.at]
         /\ UNCHANGED <<node, mapping>>

\* fd_pread.
PreadFd(f, iov, p) ==
    IF ~CanRead(f) \/ p < 0 THEN Refused
    ELSE /\ answer' = Data(Readv(p, iov).out)
         /\ UNCHANGED <<node, position, mapping>>

\* One buffer of doWritev.  An appending stream seeks to the end first; an
\* explicit offset then still decides where the bytes go.
WriteBuffer(f, explicit, acc, d) ==
    LET end == IF Appends(f) THEN acc.node.usedBytes ELSE acc.position
        at == IF explicit THEN acc.offset ELSE end
    IN [node |-> Written(acc.node, d, at), offset |-> acc.offset + Len(d),
        position |-> IF explicit THEN end ELSE end + Len(d)]

Writev(f, explicit, chunks, p) ==
    LET acc[i \in 0 .. Len(chunks)] ==
            IF i = 0 THEN [node |-> node, offset |-> p, position |-> position[f]]
            ELSE WriteBuffer(f, explicit, acc[i - 1], chunks[i])
    IN acc[Len(chunks)]

\* fd_write.
WriteFd(f, chunks) ==
    IF ~CanWrite(f) THEN Refused
    ELSE LET w == Writev(f, FALSE, chunks, 0) IN
         /\ w.node.usedBytes <= MaxSize
         /\ node' = w.node
         /\ position' = [position EXCEPT ![f] = w.position]
         /\ answer' = Data(FlattenSeq(chunks))
         /\ UNCHANGED mapping

\* fd_pwrite.
PwriteFd(f, chunks, p) ==
    IF ~CanWrite(f) \/ p < 0 THEN Refused
    ELSE LET w == Writev(f, TRUE, chunks, p) IN
         /\ w.node.usedBytes <= MaxSize
         /\ node' = w.node
         /\ position' = [position EXCEPT ![f] = w.position]
         /\ answer' = Data(FlattenSeq(chunks))
         /\ UNCHANGED mapping

\* fd_seek.
SeekFd(f, offset, whence) ==
    LET to == offset + CASE whence = "set" -> 0
                         [] whence = "cur" -> position[f]
                         [] whence = "end" -> node.usedBytes
    IN IF to < 0 THEN Refused
       ELSE /\ to <= MaxSize
            /\ position' = [position EXCEPT ![f] = to]
            /\ answer' = Count(to)
            /\ UNCHANGED <<node, mapping>>

\* ftruncate.
Truncate(f, n) ==
    IF ~CanWrite(f) \/ n < 0 THEN Refused
    ELSE /\ node' = Resized(node, n)
         /\ answer' = Count(0)
         /\ UNCHANGED <<position, mapping>>

\* FS.allocate.
Allocate(f, p, n) ==
    IF ~CanWrite(f) \/ p < 0 \/ n <= 0 THEN Refused
    ELSE /\ p + n <= MaxSize
         /\ node' = [Expanded(node, p + n) EXCEPT !.usedBytes = Max({@, p + n})]
         /\ answer' = Count(0)
         /\ UNCHANGED <<position, mapping>>

\* FS.writeFile and createDataFile open the file with O_TRUNC and give it the
\* array itself (canOwn).
WriteFile(d) ==
    /\ node' = IF d = <<>> THEN NoFile ELSE [contents |-> d, usedBytes |-> Len(d)]
    /\ answer' = Data(d)
    /\ UNCHANGED <<position, mapping>>

\* FS.readFile.
ReadFile ==
    /\ answer' = Data(Got(0, node.usedBytes))
    /\ UNCHANGED <<node, position, mapping>>

\* mmap for reading and writing: a region of n zeros that receives the array
\* from p on, capacity included.
CopyFor(p, n) ==
    LET piece == SubSeq(node.contents, p + 1, Min({p + n, Len(node.contents)}))
    IN [i \in 1 .. n |-> IF i <= Len(piece) THEN piece[i] ELSE 0]

\* The array of an empty file is null, which mmap does not expect.
Mmap(f, p, n, shared) ==
    IF ~CanRead(f) \/ (shared /\ ~CanWrite(f)) \/ node.contents = <<>> THEN Refused
    ELSE /\ mapping = NoMapping /\ p + n <= MaxSize
         /\ mapping' = [at |-> p, shared |-> shared, bytes |-> CopyFor(p, n)]
         /\ answer' = Count(0)
         /\ UNCHANGED <<node, position>>

\* The program stores into the region.
Store(i, b) ==
    /\ mapping' = [mapping EXCEPT !.bytes[i] = b]
    /\ UNCHANGED <<node, position, answer>>

\* munmap, with the doMsync of a shared mapping.
Munmap ==
    /\ mapping # NoMapping
    /\ node' = IF mapping.shared THEN Written(node, mapping.bytes, mapping.at) ELSE node
    /\ mapping' = NoMapping
    /\ answer' = Count(0)
    /\ UNCHANGED position

Next ==
    \/ \E f \in Fd, iov \in Iov : ReadFd(f, iov) \/ \E p \in Offset : PreadFd(f, iov, p)
    \/ \E f \in Fd, c \in Buffers : WriteFd(f, c) \/ \E p \in Offset : PwriteFd(f, c, p)
    \/ \E f \in Fd, s \in Seeks : SeekFd(f, s[1], s[2])
    \/ \E f \in Fd, n \in Lengths : Truncate(f, n) \/ \E p \in Offset : Allocate(f, p, n)
    \/ \E d \in Contents : WriteFile(d)
    \/ ReadFile \/ Munmap
    \/ \E f \in Fd, r \in Regions, s \in BOOLEAN : Mmap(f, r[1], r[2], s)
    \/ \E i \in DOMAIN mapping.bytes, b \in Byte : Store(i, b)

Spec == Init /\ [][Next]_vars

-----------------------------------------------------------------------------

\* Whatever its array is, and whatever an earlier content left behind the used
\* bytes, the file behaves like a sequence of bytes (expandFileStorage,
\* resizeFileStorage, write).
File == INSTANCE PlainFile WITH
    bytes <- SubSeq(node.contents, 1, node.usedBytes),
    Appending <- {f \in Fd : Appends(f)}
ImplementsPlainFile == File!Spec
=============================================================================
