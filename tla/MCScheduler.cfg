\* A scheduler process and an operator, one of them lost, plan edits and a
\* caller's occurrence, around two instants at which two plans fall due.
SPECIFICATION Spec
CONSTANTS
    Schedulers = {s1}
    Operators = {o1}
    Drafts <- RaceDrafts
    Registrations <- OneRegistration
    Interval = 1
    MaxTime = 1
    MaxCrashes = 1
INVARIANTS CompletedTickLeavesWork OneOfTheRacersReturns
    ScheduledByTheRevisionInForce
CHECK_DEADLOCK FALSE
