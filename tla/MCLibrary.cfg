\* The classes that a caller drives, each by itself.
SPECIFICATION LibrarySpec
CONSTANTS
    Char = {"a", "b", "*", "?"}
    Star = "*"
    Query = "?"
    NUL = NUL
    Texts <- MCTexts
    Wilds <- MCWilds
    None = None
    ShortSize = 8
    IntSize = 16
    LongSize = 64
    TextBytes = {0, 1, 127, 255}
    MaxTextBytes = 5
    StreamBytes = {0, 255}
    MaxStreamBytes = 5
    BUFFER_SIZE = 2
    Paths = {p, q}
    Name = p
    Inodes = {1, 2, 3}
    Chars = {"x", "d"}
    Delimiter <- MCDelimiter
    Contents <- MCContents
    MaxData = 4
    MaxFileCalls = 5
    READ_BUF = 2
    MaxSize = 3
    MaxSocketBytes = 3
    MaxSettings = 3
    Intervals = {10}
    Timeouts = {0, 60}
    Default = 45
INVARIANTS
    InBounds
    WildCmpRight
    ConversionsInvert
    NothingHeldBack
    LinesAreTheFile
    SettingsApplied
PROPERTIES
    WildCmpEnds
    CopyTells
    ReadsInMode
CHECK_DEADLOCK FALSE
