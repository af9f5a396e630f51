SPECIFICATION Spec
CONSTANTS
    Threads = {t1, t2}
    Free = free
    NPools = 2
    Operations = {"malloc", "check"}
    MaxSections = 1
INVARIANTS NoWaitCycle
