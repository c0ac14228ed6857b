----------------------------- MODULE RuntimeFiles -----------------------------
(***************************************************************************)
(* The names and the descriptors of the runtime's file system (FS and      *)
(* MEMFS of dotnet.native.js).  While the runtime loads, the loader        *)
(* creates directories and files and sets the working directory; then the  *)
(* .NET code opens, lists and removes them through the system calls that   *)
(* the module imports, and at last the descriptors are closed.  Calls do   *)
(* not overlap.  None renames a file, and once loaded none makes a         *)
(* directory.  What is in the files is in MemoryFile.                      *)
(***************************************************************************)
EXTENDS Naturals, SequencesExt

CONSTANTS
    Name,        \* the names of files and directories
    Default,     \* the directories that staticInit makes in the root
    NameHash,    \* the hash of each name
    Buckets,     \* the length of nameTable (4096)
    Fd,          \* the descriptors, from 0 on (MAX_OPEN_FDS)
    Opening,     \* the flags that files and directories are opened with
    Room,        \* the entries that a getdents64 has room for
    Path,        \* bound: the paths used, with their parents
    MaxNodes,    \* bound: nodes made
    MaxOpens     \* bound: descriptors opened

\* What they are; no name is that of the directory itself or its parent.
ConstantsOK ==
    /\ {".", ".."} \intersect Name = {}
    /\ NameHash \in [Name -> Nat] /\ Buckets \in Nat \ {0}
    /\ Fd \subseteq Nat /\ Room \in Nat \ {0} /\ MaxOpens \in Nat
    /\ Default \in Seq(Name) /\ {<<Default[i]>> : i \in DOMAIN Default} \subseteq Path
    /\ <<>> \in Path /\ Path \subseteq Seq(Name)
    /\ \A p \in Path : \A n \in 0 .. Len(p) : SubSeq(p, 1, n) \in Path

VARIABLES
    phase,      \* "loading", "running", "exited"
    node,       \* the node with each id, removed ones included
    nameTable,  \* in each bucket the chain of its nodes
    cwd,        \* FS.currentPath
    streams,    \* FS.streams
    opens       \* descriptors opened so far

vars == <<phase, node, nameTable, cwd, streams, opens>>

Root == 1
NoStream == [node |-> 0]
Unread == <<>>   \* getdents not set

TypeOK ==
    /\ phase \in {"loading", "running", "exited"}
    /\ \A i \in DOMAIN node : /\ node[i].parent \in DOMAIN node /\ node[i].kind \in {"dir", "file"}
                              /\ node[i].writable \in BOOLEAN
                              /\ node[i].contents \in Seq(Name)
    /\ nameTable \in [0 .. Buckets - 1 -> Seq(DOMAIN node)]
    /\ cwd \in Path
    /\ \A f \in Fd : streams[f] = NoStream \/ /\ streams[f].node \in DOMAIN node
                                              /\ streams[f].path \in Path
    /\ opens \in 0 .. MaxOpens

-----------------------------------------------------------------------------
(* Nodes.  fs stands for node and nameTable together.                      *)

FS == [node |-> node, table |-> nameTable]

hashName(parent, name) == (parent + NameHash[name]) % Buckets

\* lookupNode: 0 if there is none, or if the parent is not a directory (whose
\* files are nobody's parent).
LookupNode(fs, parent, name) ==
    LET chain == fs.table[hashName(parent, name)]
        found == {i \in DOMAIN chain : /\ fs.node[chain[i]].parent = parent
                                       /\ fs.node[chain[i]].name = name}
    IN IF parent = 0 \/ found = {} THEN 0 ELSE chain[Min(found)]

\* lookupPath.
Lookup(fs, path) ==
    LET at[n \in 0 .. Len(path)] ==
            IF n = 0 THEN Root ELSE LookupNode(fs, at[n - 1], path[n])
    IN at[Len(path)]

IsDir(fs, id) == id # 0 /\ fs.node[id].kind = "dir"

\* getPath climbs to the root, which is its own parent.
GetPath(fs, id) ==
    LET up[i \in DOMAIN fs.node] ==
            IF i = Root THEN <<>> ELSE Append(up[fs.node[i].parent], fs.node[i].name)
    IN up[id]

\* MEMFS.createNode: at the head of its bucket and in the contents of its
\* parent.
Created(fs, parent, name, kind, writable) ==
    LET id == Len(fs.node) + 1
        new == [parent |-> parent, name |-> name, kind |-> kind, writable |-> writable,
                contents |-> <<>>]
    IN [node |-> Append([fs.node EXCEPT ![parent].contents = Append(@, name)], new),
        table |-> [fs.table EXCEPT ![hashName(parent, name)] = <<id>> \o @]]

\* mknod makes nothing when the parent is no directory or has the name.
Mknod(fs, path, kind, writable) ==
    LET parent == Lookup(fs, Front(path)) IN
    IF ~IsDir(fs, parent) \/ LookupNode(fs, parent, Last(path)) # 0 THEN fs
    ELSE Created(fs, parent, Last(path), kind, writable)

\* A mutant: destroyNode finds only the head of a bucket.
UnhashedHead(chain, id) == IF Head(chain) = id THEN Tail(chain) ELSE chain

\* hashRemoveNode.
Unhashed(chain, id) == RemoveFirst(chain, id)

\* unlink and rmdir of MEMFS with destroyNode.
Removed(fs, id) ==
    LET n == fs.node[id] IN
    [node |-> [fs.node EXCEPT ![n.parent].contents = RemoveFirst(@, n.name)],
     table |-> [fs.table EXCEPT ![hashName(n.parent, n.name)] = Unhashed(@, id)]]

Becomes(fs) == node' = fs.node /\ nameTable' = fs.table /\ Len(fs.node) <= MaxNodes

\* staticInit: the root and the default directories.
Init ==
    /\ phase = "loading"
    /\ LET root == [node |-> <<[parent |-> Root, name |-> "", kind |-> "dir",
                                writable |-> TRUE, contents |-> <<>>]>>,
                    table |-> [b \in 0 .. Buckets - 1 |-> <<>>]]
           made[n \in 0 .. Len(Default)] ==
               IF n = 0 THEN root ELSE Mknod(made[n - 1], <<Default[n]>>, "dir", TRUE)
           fs == made[Len(Default)]
       IN node = fs.node /\ nameTable = fs.table
    /\ cwd = <<>>
    /\ streams = [f \in Fd |-> NoStream]
    /\ opens = 0

-----------------------------------------------------------------------------
(* The loader.                                                             *)

\* createPath: every directory on the way; what is there already stays.
WithPath(fs, path) ==
    LET made[n \in 0 .. Len(path)] ==
            IF n = 0 THEN fs ELSE Mknod(made[n - 1], SubSeq(path, 1, n), "dir", TRUE)
    IN made[Len(path)]

CreatePath(path) ==
    /\ phase = "loading"
    /\ Becomes(WithPath(FS, path))
    /\ UNCHANGED <<phase, cwd, streams, opens>>

\* An asset of the file system: createPath and createDataFile, which fails,
\* and the start with it, if it cannot make the file.  It closes the
\* descriptor it uses.
LoadFile(path) ==
    /\ phase = "loading"
    /\ LET fs == WithPath(FS, Front(path)) IN
       /\ IsDir(fs, Lookup(fs, Front(path))) /\ Lookup(fs, path) = 0
       /\ Becomes(Mknod(fs, path, "file", TRUE))
    /\ UNCHANGED <<phase, cwd, streams, opens>>

\* virtualWorkingDirectory: it is made if need be; chdir.
SetWorkingDirectory(path) ==
    /\ phase = "loading"
    /\ LET fs == WithPath(FS, path) IN IsDir(fs, Lookup(fs, path)) /\ Becomes(fs)
    /\ cwd' = path
    /\ UNCHANGED <<phase, streams, opens>>

Start ==
    /\ phase = "loading"
    /\ phase' = "running"
    /\ UNCHANGED <<node, nameTable, cwd, streams, opens>>

-----------------------------------------------------------------------------
(* The system calls.                                                       *)

\* mayOpen and nodePermissions.
MayOpen(id, flags) == "write" \in flags => ~IsDir(FS, id) /\ node[id].writable

\* The stream that FS.open makes; its getdents is not set.  entry and got are
\* the position and the names listed so far, stable (history) the names that
\* were in the directory since the listing began.
Stream(fs, id) ==
    [node |-> id, path |-> GetPath(fs, id), list |-> Unread, entry |-> 0,
     got |-> <<>>, stable |-> {}, ended |-> FALSE]

Free == {f \in Fd : streams[f] = NoStream}

\* createStream: the least descriptor; if there is none the call fails, but
\* a file it created stays.
Opened(fs, id) ==
    /\ Becomes(fs)
    /\ IF Free = {} THEN UNCHANGED <<streams, opens>>
       ELSE /\ streams' = [streams EXCEPT ![Min(Free)] = Stream(fs, id)]
            /\ opens' = opens + 1

\* openat.
Openat(path, flags, writable) ==
    /\ phase = "running" /\ opens < MaxOpens
    /\ LET id == Lookup(FS, path)
           fs == Mknod(FS, path, "file", writable)
           new == Lookup(fs, path)
       IN \/ /\ id # 0 /\ ~{"create", "excl"} \subseteq flags
             /\ "directory" \in flags => IsDir(FS, id)
             /\ MayOpen(id, flags)
             /\ Opened(FS, id)
          \/ /\ id = 0 /\ "create" \in flags /\ path # <<>> /\ new # 0
             /\ Opened(fs, new)
    /\ UNCHANGED <<phase, cwd>>

\* fcntl64: F_DUPFD of a file takes the least free descriptor from arg on; the
\* copy has the path of its original.
Dup(f, arg) ==
    /\ phase = "running" /\ opens < MaxOpens
    /\ streams[f] # NoStream /\ ~IsDir(FS, streams[f].node)
    /\ LET free == {g \in Free : g >= arg} IN
       free # {} /\ streams' = [streams EXCEPT ![Min(free)] = streams[f]]
    /\ opens' = opens + 1
    /\ UNCHANGED <<phase, node, nameTable, cwd>>

\* fd_close.
Close(f) ==
    /\ phase = "running" /\ streams[f] # NoStream
    /\ streams' = [streams EXCEPT ![f] = NoStream]
    /\ UNCHANGED <<phase, node, nameTable, cwd, opens>>

\* A name that goes is not stable in any listing.
WithoutName(id) ==
    [f \in Fd |-> IF streams[f] # NoStream /\ streams[f].node = node[id].parent
                  THEN [streams[f] EXCEPT !.stable = @ \ {node[id].name}] ELSE streams[f]]

\* mayDelete.
MayDelete(id, kind) == node[id].kind = kind /\ (kind = "dir" => GetPath(FS, id) # cwd)

\* unlinkat, for a file and for a directory.
Unlinkat(path, kind) ==
    /\ phase = "running" /\ path # <<>>
    /\ LET id == Lookup(FS, path) IN
       /\ id # 0 /\ MayDelete(id, kind)
       /\ kind = "dir" => node[id].contents = <<>>
       /\ Becomes(Removed(FS, id))
       /\ streams' = WithoutName(id)
    /\ UNCHANGED <<phase, cwd, opens>>

\* A mutant: the directory is read again on every call.
EntriesNow(s) ==
    LET id == Lookup(FS, s.path) IN
    IF ~IsDir(FS, id) THEN Unread ELSE <<".", "..">> \o node[id].contents

\* The listing of a stream: FS.readdir of its path on the first call.
Entries(s) ==
    LET id == Lookup(FS, s.path) IN
    IF s.list # Unread THEN s.list
    ELSE IF ~IsDir(FS, id) THEN Unread ELSE <<".", "..">> \o node[id].contents

\* getdents64 with room for n entries.  It fails, and keeps the position, when
\* a name it comes to has been removed meanwhile.
Getdents(f, n) ==
    /\ phase = "running" /\ streams[f] # NoStream /\ IsDir(FS, streams[f].node)
    /\ LET s == streams[f]
           list == Entries(s)
           part == SubSeq(list, s.entry + 1, Min({Len(list), s.entry + n}))
           missing == {i \in DOMAIN part : /\ part[i] \notin {".", ".."}
                                           /\ LookupNode(FS, s.node, part[i]) = 0}
           begun == [s EXCEPT !.list = list,
                              !.stable = IF s.list = Unread THEN ToSet(list) ELSE @]
       IN /\ list # Unread
          /\ streams' = [streams EXCEPT ![f] =
                IF missing # {} THEN begun
                ELSE [begun EXCEPT !.entry = @ + Len(part), !.got = @ \o part,
                                   !.ended = part = <<>>]]
    /\ UNCHANGED <<phase, node, nameTable, cwd, opens>>

\* exitRuntime: FS.quit closes every stream.
Quit ==
    /\ phase = "running"
    /\ phase' = "exited"
    /\ streams' = [f \in Fd |-> NoStream]
    /\ UNCHANGED <<node, nameTable, cwd, opens>>

\* Paths are absolute (calculateAt) and without "." and "..".
Next ==
    \/ Start \/ Quit
    \/ \E p \in Path \ {<<>>} : CreatePath(p) \/ LoadFile(p) \/ SetWorkingDirectory(p)
    \/ \E p \in Path, fl \in Opening :
            \E w \in IF "create" \in fl THEN BOOLEAN ELSE {TRUE} : Openat(p, fl, w)
    \/ \E f \in Fd : Close(f) \/ Dup(f, 0)
    \/ \E p \in Path, kind \in {"file", "dir"} : Unlinkat(p, kind)
    \/ \E f \in Fd : Getdents(f, Room)

Spec == Init /\ [][Next]_vars

-----------------------------------------------------------------------------

\* A listing that came to its end has reported every name that was there all
\* the time, and none twice, whatever was created and removed between the
\* calls of getdents64.
ListingComplete ==
    \A f \in Fd : streams[f] # NoStream /\ streams[f].ended =>
        IsInjective(streams[f].got) /\ streams[f].stable \subseteq ToSet(streams[f].got)

Paths(kind) == {p \in Path : LET id == Lookup(FS, p) IN id # 0 /\ node[id].kind = kind}

\* Through nameTable and its collisions the names are a tree, the working
\* directory stays in it, and what is made or removed is seen in it: only a
\* step that leaves node, nameTable and cwd alone leaves the tree alone
\* (lookupNode, hashAddNode, hashRemoveNode, mayDelete).
Tree == INSTANCE RuntimeTree WITH dirs <- Paths("dir"), files <- Paths("file")
ImplementsRuntimeTree ==
    Tree!Init /\ [][UNCHANGED <<node, nameTable, cwd>> \/ Tree!Next]_<<node, nameTable, cwd>>
=============================================================================
