----------------------------- MODULE RuntimeTree -----------------------------
(* What the file system of the WebAssembly runtime promises about names:     *)
(* a tree of directories and files that grows under its directories, loses   *)
(* one leaf at a time and never loses the working directory.                 *)
EXTENDS Naturals, Sequences

CONSTANT Path  \* the paths of files and directories

VARIABLES
    dirs,      \* the paths of the directories
    files,     \* the paths of the files
    cwd        \* the working directory

Parent(p) == SubSeq(p, 1, Len(p) - 1)

\* Every name is in a directory and stands for one thing.
IsTree(d, f) ==
    /\ <<>> \in d /\ d \intersect f = {}
    /\ \A p \in (d \union f) \ {<<>>} : Parent(p) \in d

Init ==
    /\ dirs \in SUBSET Path /\ files = {} /\ IsTree(dirs, files)
    /\ cwd = <<>>

\* Names appear; those that there were stay what they are.
Grown(d, f, newD, newF) ==
    /\ d \subseteq newD /\ f \subseteq newF /\ d \union f # newD \union newF
    /\ IsTree(newD, newF)

\* A file, or an empty directory that is not the working directory, goes.
Removed(d, f, newD, newF) ==
    \/ newD = d /\ \E p \in f : newF = f \ {p}
    \/ newF = f /\ \E p \in d \ {<<>>, cwd} :
            newD = d \ {p} /\ \A q \in d \union f : q # <<>> => Parent(q) # p

Next ==
    \/ UNCHANGED <<dirs, files>> /\ cwd' \in dirs \ {cwd}
    \/ Grown(dirs, files, dirs', files') /\ (UNCHANGED cwd \/ cwd' \in dirs')
    \/ Removed(dirs, files, dirs', files') /\ UNCHANGED cwd

Spec == Init /\ [][Next]_<<dirs, files, cwd>>
=============================================================================
