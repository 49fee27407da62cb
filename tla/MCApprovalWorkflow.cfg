\* One request, two API threads, two approve or reject calls with listings
\* beside them, and one exception.  No guard of the model makes one thread
\* wait for another.  No symmetry: the run checks temporal properties.
SPECIFICATION FairSpec
CONSTANTS
    Requests = {r1}
    UnknownId = unknown
    Threads = {t1, t2}
    TTL = 1
    MaxTime = 1
    MaxCalls = 2
    MaxFaults = 1
INVARIANTS
    WorkflowInv
    OnceUnlessRaced
    RefusedNeverRuns
    DeniedIsFinal
    ExecutedMeansAttempted
    ExecutedIsMarked
    PayloadsDieWithRequests
    AuditAccountsForRuns
    ApprovalsBoundRuns
PROPERTIES
    ImplementsLifecycle
    ApprovalIsSettled
    OverdueIsExpired
CONSTRAINT OneTool
