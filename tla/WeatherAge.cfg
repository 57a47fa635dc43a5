\* Two processes share a Redis that may fail, and the provider may fail
SPECIFICATION Spec
CONSTANTS
    c1 = c1
    c2 = c2
    c3 = c3
    a = a
    b = b
    None = None
    Callers = {c1, c2, c3}
    Instances = {a, b}
    On <- TwoOnA
    Fresh = 1
    Last = 3
    Slow = 1
    MaxNow = 5
    Providers = {"off", "flaky"}
    Outside = {"redis", "restarts"}
INVARIANTS TypeOK ServedIsRecent
PROPERTIES MemoNeverOlder
\* The system stops when every call has returned and the clock is at its bound;
\* that each call returns is checked by WeatherReturns.cfg.
CHECK_DEADLOCK FALSE
