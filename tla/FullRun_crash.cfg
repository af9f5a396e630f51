SPECIFICATION Spec
CONSTANTS
    LoopCount = 1
    MaxCrashes = 1
    MaxResets = 0
INVARIANT PageSizeAsLabelled
CHECK_DEADLOCK FALSE
