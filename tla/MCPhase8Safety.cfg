\* Two processes of the pilot, a canary and a second gate.
SPECIFICATION Spec
CONSTANTS
    g1 = g1
    g2 = g2
    c1 = c1
    c2 = c2
    k1 = k1
    Processes = {p1, p2}
    Gates <- MCGates
    Eligible <- MCEligible
    Controls <- MCControls
    RouteOf <- MCRouteOf
    Reserved <- MCReserved
    Usages <- MCUsages
    BatchCap <- MCBatchCap
    PhaseCap <- MCPhaseCap
    RouteCost <- MCRouteCost
    Numbers = {1}
    MaxAttempts = 2
    Reviews = {approved}
    PriorReview = approved
    MayExpire = {g1}
    MayRunLate = {c1}
    None = None
SYMMETRY ProcessSymmetry
INVARIANTS BudgetsHold EveryCallIsAccounted CallsAreSerial
    AtMostOneLateCall
PROPERTIES LostAttemptBlocks GateTwoFollowsValidCanary
CHECK_DEADLOCK FALSE
