\* Two requests, one dashboard, two API threads; a call may time out and its
\* handler go on.  The listing's second pass overlaps everything.
SPECIFICATION DashboardSpec
CONSTANTS
    Requests = {r1, r2}
    UnknownId = unknown
    Threads = {t1, t2}
    Pages = {p1}
    NoThread = none
    TTL = 1
    MaxTime = 1
    MaxCalls = 2
    MaxFaults = 1
INVARIANTS
    DashboardInv
    ClickHitsItsRequest
    ToldIsSo
PROPERTY
    ListingIsRight
SYMMETRY Symmetry
CONSTRAINTS OneTool OneAbandoned
ACTION_CONSTRAINTS FaultsAreTold SecondIsWhole AppendsAtOnce OwnStepsFirst
