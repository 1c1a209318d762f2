SPECIFICATION Spec
CONSTANTS
    Chunks = 1
    Calls = {c1, c2}
    MaxSends = 1
INVARIANTS
    CompleteHasItsOriginal
CHECK_DEADLOCK FALSE
