\* Two callers that repeat or change a request, two submitters that repeat or
\* change feedback, one call lost, one recovery, a late provider attempt.
SPECIFICATION LiveSpec
CONSTANTS
    k1 = k1
    k2 = k2
    p1 = p1
    e1 = e1
    e2 = e2
    c1 = c1
    c2 = c2
    s1 = s1
    s2 = s2
    f1 = f1
    f2 = f2
    Callers = {c1, c2}
    Submitters = {s1, s2}
    Documents <- SomeRequests
    Feedbacks = {f1, f2}
    Requests <- TwoCallers
    Opinions <- TwoSubmitters
    None = None
    MaxAttempts = 1
    MaxCrashes = 1
    MaxRecoveries = 1
INVARIANTS EvidenceIsPinned FeedbackVerifies
PROPERTIES RequestLeavesIntake FeedbackIsEvaluated
CHECK_DEADLOCK FALSE
