CONSTANTS
    Paths = {p, q}
    NoPath = none
    Texts <- MCTexts
    Queries = {"narrow", "wide"}
    Matches <- MCMatches
    Tables = {"row"}
    MaxWorkers = 2
    MaxResults = 1
    MaxRevision = 1
    Commands = {"a", "b", "c"}
    TextLength <- MCTextLength
    Names = {"m"}
    MaxText = 2
    MaxCommands = 2
    MaxRan = 3
    Instances = {"one", "two"}
    RecentPaths = {"near", "far", "raw"}
    Identity <- MCIdentity
    Lossy <- MCLossy
    Contents <- UserContents
    Widths = {2}
    MaxRecent = 2
    MaxBackups = 2
    MaxChanges = 1
    MaxWrites = 2
    MaxTime = 1
    Files = {"a.txt", "b.txt"}
    Matching <- MCMatching
    Languages = {"rust", "plaintext"}
    RuleTexts <- MCRuleTexts
    Gestures <- MCGestures
    Replies <- MCReplies
    Colors = 2
    Slots = 4
    MaxGestures = 2
    Disturbed = FALSE
SPECIFICATION MCSpec
INVARIANTS
    ReportIsHonest
    InputIsUnderstood
    SavedIsWhatRan
    WrittenReadsBack
    SettingsAreKept
    FrameIsShown
PROPERTY SearchesEnd
CHECK_DEADLOCK FALSE
