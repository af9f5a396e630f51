SPECIFICATION Spec
CONSTANTS
    Threads = {t1, t2}
    Cachers = {t1}
    Arenas = {1, 2}
    None = None
    Rooms <- MCRooms
    NRegs = {1, 2}
    NcachedMax = 2
    MaxHeld = 2
INVARIANTS RegionsPartitioned NonfullRunsKnown StatsExact
