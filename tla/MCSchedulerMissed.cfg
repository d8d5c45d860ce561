\* One plan and one scheduler process that is never lost: its polls pass the
\* due instant by.
SPECIFICATION LiveSpec
CONSTANTS
    Schedulers = {s1}
    Operators = {}
    Drafts <- OnePlan
    Registrations = {}
    Interval = 2
    MaxTime = 4
    MaxCrashes = 0
PROPERTY DueWorkIsScheduled
CHECK_DEADLOCK FALSE
