CONSTANTS
    MaxTimers = 3
    FileFd = {"rw", "ap"}
    FileFlags <- TwoFlags
    Byte = {0, 1}
    MaxSize = 3
    MinCapacity = 4
    Iov <- OneRead
    Buffers <- TwoWrites
    Offset <- Offsets
    Seeks <- Moves
    Lengths <- SomeLengths
    Contents <- ShortFiles
    Regions <- TwoRegions
    Name = {"tmp", "x"}
    Default <- OneDirectory
    NameHash <- Collide
    Buckets = 2
    Fd = {0, 1}
    Opening <- Openings
    Room = 3
    Path <- Paths
    MaxNodes = 4
    MaxOpens = 2
    Scalar <- Scalars
    MaxLength = 3
    MaxRoom = 9
    Year <- Years
SPECIFICATION RuntimeSpec
INVARIANTS
    RuntimeTypeOK
    ListingComplete
    TextIntact
    CalendarExact
    RunsAfterHooks
    EndsOnlyByExit
PROPERTIES
    ImplementsPlainFile
    ImplementsRuntimeTree
    EveryStartSettles
CHECK_DEADLOCK FALSE
