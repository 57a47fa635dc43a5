\* Calls that share a fetch, on one process: cancelled ones, and the liveness of all
SPECIFICATION Spec
CONSTANTS
    c1 = c1
    c2 = c2
    c3 = c3
    a = a
    b = b
    None = None
    Callers = {c1, c2, c3}
    Instances = {a}
    On <- AllOnA
    Fresh = 1
    Last = 2
    Slow = 1
    MaxNow = 2
    Providers = {"off", "sound", "flaky"}
    Outside = {"cancels"}
INVARIANTS CancelHurtsNobody
PROPERTIES EveryCallReturns
\* The system stops when every call has returned and the clock is at its bound.
CHECK_DEADLOCK FALSE
