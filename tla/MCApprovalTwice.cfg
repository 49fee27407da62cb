\* Two approve calls of one request, each in a thread of its own.
SPECIFICATION Spec
CONSTANTS
    Requests = {r1}
    UnknownId = unknown
    Threads = {t1, t2}
    TTL = 1
    MaxTime = 0
    MaxCalls = 2
    MaxFaults = 0
INVARIANT AtMostOnce
