\* Two runners inside run() on the same session, one operator recovery.
SPECIFICATION Spec
CONSTANTS
    keep = keep
    raise = raise
    trim = trim
    Assessments = {keep, raise}
    NoPayload = NoPayload
    Requests <- FewRequests
    Answers <- FewAnswers
    Material = {raise}
    Conflicts <- MCConflicts
    Merge <- MCMerge
    AutoResolvable = {keep}
    AutoResolveEnabled = TRUE
    Runners = {r1, r2}
    CallAttempts = {1}
    MaxCrashes = 0
    MaxRecoveries = 1
SYMMETRY RunnerSymmetry
INVARIANTS AssignedOnlyWhenCalledFor CrossReviewRecoverable
    AttemptNumbersHaveNoGap ReturnedDecisionVerifies
PROPERTIES RecordsAreImmutable ImplementsContract
CHECK_DEADLOCK FALSE
