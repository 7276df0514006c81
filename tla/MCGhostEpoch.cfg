\* The CLEARTID store of a thread that has left the address space.
SPECIFICATION Spec
CONSTANTS
    Threads = {t1, t2}
    Main = t1
    Jit = {t2}
    Pages = {p1}
    Backings = {b1, b2}
    Image = b1
    Shared = {}
    None = None
    SlotCap = 2
    MaxGen = 3
INVARIANT
    NoGhostEpoch
CHECK_DEADLOCK FALSE
