SPECIFICATION FairSpec
CONSTANTS
    LoopCount = 2
    MaxCrashes = 2
    MaxResets = 1
INVARIANTS SamplesComplete MeasuredAsLabelled
PROPERTY Finishes
CHECK_DEADLOCK FALSE
