SPECIFICATION Spec
CONSTANTS
    Dirs = {"root", "safe", "sub", "deep", "shut", "q", "out"}
    Files = {"f1", "f2", "f3", "f4", "qf", "of"}
    Links = {"lf", "ld"}
    Fifos = {"p"}
    FsRoot = "root"
    LinkTo <- MCLinkTo
    Unreadable = {"shut", "f4"}
    NoNode = "none"
    Loop = "loop"
    NoAccess = "refused"
    Names <- MCNames
    Reserved = {0, 7}
    Quarantines = {0}
    Dot = 10
    DotDot = 11
    NameText <- MCNameText
    Displayed <- MCDisplayed
    EncodedBytes <- MCEncodedBytes
    Labels <- MCLabels
    Scenarios <- MCScenarios
    Private = {"root", "q", "qf", "out", "of"}
    Relinks <- MCRelinks
    Rewrites <- MCRewrites
    MAX_DEPTH = 3
    MAX_QUERY_BYTES = 2
    MAX_LIST_ENTRIES = 5
    MAX_LIST_STRUCTURED_BYTES = 20
    MAX_FIND_ENTRIES = 9
    MAX_FIND_MATCHES = 4
    MAX_FIND_STRUCTURED_BYTES = 11
    MAX_SEARCH_ENTRIES = 9
    MAX_SEARCH_FILES = 4
    MAX_SEARCH_FILE_BYTES = 5
    MAX_SEARCH_TOTAL_BYTES = 12
    MAX_SEARCH_MATCHES = 5
    MAX_SEARCH_STRUCTURED_BYTES = 16
    MAX_READ_BYTES = 5
    MAX_BINARY_READ_BYTES = 5
    MAX_HASH_FILE_BYTES = 5
    MAX_BINARY_RANGE_BYTES = 5
    MAX_BINARY_RANGE_FILE_BYTES = 8
    MIN_TEXT_RANGE_BYTES = 4
    MAX_TEXT_RANGE_BYTES = 5
    MAX_TEXT_RANGE_FILE_BYTES = 8
INVARIANTS
    OnlySafeDisclosed
    CeilingsKept
    WalkHonest
    PagesAssemble
CHECK_DEADLOCK FALSE
