CONSTANTS
    Tab = {"t1", "t2"}
    Requests <- Calls
    MaxTokens = 3
    MaxRecordings = 2
    Asset = {"page", "icon", "script"}
    Static = {"page", "icon"}
    Offline = "page"
    Fetches = {"r1"}
    MaxVersion = 3
    Task = {"a", "b"}
    MaxDimension = 1
    MaxSide = 3
SPECIFICATION PageSpec
INVARIANTS
    PageTypeOK
    SendsOwnAudio
    AllReleased
    StaticFresh
    StoredStaysLive
    OnePlace
    UrlsReleased
    FitsSize
PROPERTIES
    MicrophoneReleased
    RequestsEnd
    ConversionsSettle
CHECK_DEADLOCK FALSE
