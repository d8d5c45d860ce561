\* Two runners append the same comparison: the returned review no longer
\* passes the decision-ledger verifier.
SPECIFICATION Spec
CONSTANTS
    keep = keep
    raise = raise
    trim = trim
    Assessments = {keep, raise}
    NoPayload = NoPayload
    Requests <- RoutineRequests
    Answers <- FewAnswers
    Material = {raise}
    Conflicts <- MCConflicts
    Merge <- MCMerge
    AutoResolvable = {keep}
    AutoResolveEnabled = TRUE
    Runners = {r1, r2}
    CallAttempts = {1}
    MaxCrashes = 0
    MaxRecoveries = 1
INVARIANT CompletedResultHasVerifiedLedger
CHECK_DEADLOCK FALSE
SYMMETRY RunnerSymmetry
