SPECIFICATION Spec
CONSTANTS
    Threads = {t1, t2}
    Free = free
    NPools = 2
    Operations = {"malloc", "free", "exit", "usable_size", "create", "ctl", "fork"}
    MaxSections = 1
INVARIANTS LockOrder ChildLocksCovered
PROPERTIES SectionsEnd
