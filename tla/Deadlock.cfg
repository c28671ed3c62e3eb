SPECIFICATION MCSpec
CONSTANTS
    P = 3
    r1 = r1
    r2 = r2
    Resources = {r1, r2}
    Claims <- MCClaims
    Holdings <- MCHoldings
    Pools <- MCPools
    Requests <- MCRequests
    processes = 3
    num_resources = 3
    Clients = {1, 2, 3}
    num_processes = 3
    Priorities = {0, 1, 3, 9}
    AGE_STEP = 10
INVARIANTS
    VerdictExact
    SearchExact
    OrderingNoDeadlock
PROPERTIES
    SafetyKept
    RollbackExact
    Conservation
    RequestsReturn
    RecoveryAllReleased
CHECK_DEADLOCK FALSE
