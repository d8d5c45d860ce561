\* One runner, lost between fail_invocation and the failed state: the session
\* never settles however often it is run again.
SPECIFICATION LiveSpec
CONSTANTS
    keep = keep
    raise = raise
    trim = trim
    Assessments = {keep, raise}
    NoPayload = NoPayload
    Requests <- AllRequests
    Answers <- AllAnswers
    Material = {raise}
    Conflicts <- MCConflicts
    Merge <- MCMerge
    AutoResolvable = {keep}
    AutoResolveEnabled = TRUE
    Runners = {r1}
    CallAttempts = {1}
    MaxCrashes = 1
    MaxRecoveries = 1
PROPERTY EveryReviewSettles
CHECK_DEADLOCK FALSE
