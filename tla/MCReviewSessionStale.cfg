\* One caller, one stale request: a run between the transition to snapshotted
\* and the diversion reviews it.
SPECIFICATION Spec
CONSTANTS
    k1 = k1
    k2 = k2
    p1 = p1
    e1 = e1
    e2 = e2
    c1 = c1
    c2 = c2
    s1 = s1
    s2 = s2
    f1 = f1
    f2 = f2
    Callers = {c1}
    Submitters = {s1}
    Documents <- SomeRequests
    Feedbacks = {f1}
    Requests <- StaleCaller
    Opinions <- OneSubmitter
    None = None
    MaxAttempts = 1
    MaxCrashes = 0
    MaxRecoveries = 0
INVARIANT StaleEvidenceIsNotReviewed
CHECK_DEADLOCK FALSE
