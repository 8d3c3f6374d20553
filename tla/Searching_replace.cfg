CONSTANTS
    Letters = {"a", "b"}
    Patterns = {"a"}
    Replacements <- MCReplacements
    MaxLength = 2
SPECIFICATION Spec
INVARIANT ReplacedWasFound
