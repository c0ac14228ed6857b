------------------------------- MODULE Runtime -------------------------------
(* The WebAssembly runtime: its start and end, the names of its files, one   *)
(* of its files, its strings and its calendar, which share no state: a       *)
(* behaviour picks one part and leaves the others in their initial states.   *)
(* The start is extended, the other parts are instances.                     *)
EXTENDS RuntimeStartup, Sequences

CONSTANTS
    FileFd, FileFlags, Byte, MaxSize, MinCapacity,                    \* of MemoryFile
    Iov, Buffers, Offset, Seeks, Lengths, Contents, Regions,
    Name, Default, NameHash, Buckets, Fd, Opening, Room, Path,        \* of RuntimeFiles
    MaxNodes, MaxOpens,
    Scalar, MaxLength, MaxRoom,                                       \* of RuntimeText
    Year                                                              \* of RuntimeCalendar

VARIABLES node, position, mapping, answer,
          phase, nodes, nameTable, cwd, streams, opens,
          text, room, heap, copied,
          tm, fields,
          part

File == INSTANCE MemoryFile WITH Fd <- FileFd, Flags <- FileFlags
Names == INSTANCE RuntimeFiles WITH node <- nodes
Text == INSTANCE RuntimeText WITH answer <- copied
Calendar == INSTANCE RuntimeCalendar

ASSUME RuntimeAssumption ==
    File!ConstantsOK /\ Names!ConstantsOK /\ Text!ConstantsOK /\ Calendar!ConstantsOK

fileVars == <<node, position, mapping, answer>>
nameVars == <<phase, nodes, nameTable, cwd, streams, opens>>
textVars == <<text, room, heap, copied>>
calendarVars == <<tm, fields>>
runtimeVars == <<fileVars, nameVars, textVars, calendarVars, vars, part>>

RuntimeInit ==
    /\ File!Init /\ Names!Init /\ Text!Init /\ Calendar!Init /\ Init
    /\ part \in {"file", "names", "text", "calendar", "startup"}

RuntimeNext ==
    /\ \/ /\ part = "file" /\ File!Next
          /\ UNCHANGED <<nameVars, textVars, calendarVars, vars>>
       \/ /\ part = "names" /\ Names!Next
          /\ UNCHANGED <<fileVars, textVars, calendarVars, vars>>
       \/ /\ part = "text" /\ Text!Next
          /\ UNCHANGED <<fileVars, nameVars, calendarVars, vars>>
       \/ /\ part = "calendar" /\ Calendar!Next
          /\ UNCHANGED <<fileVars, nameVars, textVars, vars>>
       \/ /\ part = "startup" /\ Next
          /\ UNCHANGED <<fileVars, nameVars, textVars, calendarVars>>
    /\ UNCHANGED part

\* Only in the behaviours of its own must the runtime start.
RuntimeSpec ==
    RuntimeInit /\ [][RuntimeNext]_runtimeVars /\ (part = "startup" => Fairness)

RuntimeTypeOK == File!TypeOK /\ Names!TypeOK /\ Text!TypeOK /\ Calendar!TypeOK /\ TypeOK
ImplementsPlainFile == File!ImplementsPlainFile
ListingComplete == Names!ListingComplete
ImplementsRuntimeTree == Names!ImplementsRuntimeTree
TextIntact == Text!TextIntact
CalendarExact == Calendar!CalendarExact
EveryStartSettles == part = "startup" => StartSettles
=============================================================================
