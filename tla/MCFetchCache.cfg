\* A fetch through the per-thread page cache after another thread's unmap.
SPECIFICATION FSpec
CONSTANTS
    Threads = {t1, t2}
    Main = t1
    Jit = {t2}
    Pages = {p1}
    Backings = {b1, b2}
    Image = b1
    Shared = {}
    None = None
    SlotCap = 2
    MaxGen = 3
INVARIANT
    FetchSafe
CHECK_DEADLOCK FALSE
