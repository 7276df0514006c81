\* Two interpreting threads and a table one slot too small: a thread may be
\* counted into g_pub_over. Shared allocations, so that a lent one may be grown.
SPECIFICATION Spec
CONSTANTS
    Threads = {t1, t2}
    Main = t1
    Jit = {}
    Pages = {p1}
    Backings = {b1, b2}
    Image = b1
    Shared = {b1, b2}
    None = None
    SlotCap = 1
    MaxGen = 3
INVARIANTS
    GuestAccessSafe
    LoanSafe
CHECK_DEADLOCK FALSE
