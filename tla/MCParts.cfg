\* The parts no two requests share, one of them at a time.
SPECIFICATION PartsSpec
CONSTANTS
    LongestLife = 3
    Unreadable = Unreadable
    NotGiven = NotGiven
    CommandLines <- MCCommandLines
    h1 = h1
    Answers <- MCAnswers
    LookupFails = LookupFails
    MaxSize = 11
    DefaultSize = 2
    ChunkSizes <- MCChunkSizes
    Lengths <- MCLengths
    Unknown = Unknown
    b1 = b1 b2 = b2
    Nothing = Nothing
    Malformed = Malformed
    Contents <- MCContents
    Cids <- MCCids
    Code <- MCCode
    FullSize <- MCFullSize
    None = None
    Buffers <- MCBuffers
    AllowLists <- MCAllowLists
    Absent = Absent
    Media <- MCMedia
    Word = 6
    ChunkSize = 4
    Blobs <- MCBlobs
    Length <- MCLength
    Capacity = 16
    U32Max = 8
INVARIANTS
    SizesPartition
    ReadyIsSound
    PanicsOverOptions
    GivenIsPublic
    MemoryBounded
    OkIsWhole
    TooLargeIsTrue
    StopsAtCap
    PassedIsWhole
    VerdictIsTheList
    ReportsTheMedia
    UnreadableHasNoData
    HeldFits
