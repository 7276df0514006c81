\* The blocked flag in the store buffer of a JIT thread.
SPECIFICATION TSpec
CONSTANTS
    Threads = {t1, t2}
    Main = t1
    Jit = {t2}
    Pages = {p1}
    Backings = {b1, b2}
    Image = b1
    Shared = {}
    None = None
    SlotCap = 2
    MaxGen = 3
INVARIANT
    GuestAccessSafe
CHECK_DEADLOCK FALSE
