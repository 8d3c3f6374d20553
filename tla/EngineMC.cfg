SPECIFICATION MCSpec
CONSTANTS
  Byte = {"a", "b"}
  Fill = "junk"
  GapChunk = 1
  AllocChunk = 1
  Capacity = 3
  Headroom = 0
  Virtual = TRUE
  DebugAssertions = FALSE
  Revisions = 4
  MaxRewind = 1
  Requests = {0, 1, 4}
  Sources <- MCSources
  ArenaChunk = 2
  ArenaCapacity = 4
  Base = 1
  Slack = 1
  Scribbles = TRUE
  Sizes = {1, 2}
  Alignments = {1, 2}
  Values = {11, 12}
  MaxScopes = 2
  TabSize = 2
  Room = 12
  PageRows = 1
  Characters = {"a", "space"}
  Clips <- MCClips
  MaxLength = 2
  MaxCarets = 3
  MaxColumn = 0
INVARIANTS
  TypeOK
  ContentsExact
  ReadsExact
  CaretsWriteAtOnce
  AllocationsHold
  ReplayFollows
  FoundIsThere
  TextIsSearched
PROPERTY ChangesAreStamped
