SPECIFICATION Spec
CONSTANTS
    Commands = {"a", "b"}
    TextLength <- MCTextLength
    Names = {"m"}
    MaxText = 2
    MaxCommands = 2
    MaxRan = 3
INVARIANT NoHoles
CHECK_DEADLOCK FALSE
