\* A copy inside a system call against another thread's unmap.
SPECIFICATION Spec
CONSTANTS
    Threads = {t1, t2}
    Main = t1
    Jit = {t2}
    Pages = {p1}
    Backings = {b1, b2}
    Image = b1
    Shared = {}
    None = None
    SlotCap = 2
    MaxGen = 3
INVARIANT
    HandlerCopySafe
CHECK_DEADLOCK FALSE
