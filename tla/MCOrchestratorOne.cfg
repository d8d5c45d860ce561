\* One runner at a time, lost once and started again, one operator recovery;
\* every kind of request, every answer, three assessments.
SPECIFICATION LiveSpec
CONSTANTS
    keep = keep
    raise = raise
    trim = trim
    Assessments = {keep, raise, trim}
    NoPayload = NoPayload
    Requests <- AllRequests
    Answers <- AllAnswers
    Material = {raise, trim}
    Conflicts <- MCConflicts
    Merge <- MCMerge
    AutoResolvable = {keep}
    AutoResolveEnabled = TRUE
    Runners = {r1}
    CallAttempts = {1}
    MaxCrashes = 1
    MaxRecoveries = 1
INVARIANTS DerivationSucceeds ResolutionReproducible
    ReturnedReviewVerifies
PROPERTIES ImplementsContract ReviewSettles
CHECK_DEADLOCK FALSE
