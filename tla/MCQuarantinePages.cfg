\* One JIT thread, two pages, three allocations: moves, copies and moving grows.
SPECIFICATION Spec
CONSTANTS
    Threads = {t1}
    Main = t1
    Jit = {t1}
    Pages = {p1, p2}
    Backings = {b1, b2, b3}
    Image = b1
    Shared = {}
    None = None
    SlotCap = 1
    MaxGen = 4
INVARIANTS
    DtlbCoherent
    BackingAccounted
CHECK_DEADLOCK FALSE
