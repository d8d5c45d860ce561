\* Two items, two workers, one crash, one operator retry; the clock allows a
\* lease to end under a live worker twice in a row.
SPECIFICATION LiveSpec
CONSTANTS
    Items = {1, 2}
    Workers = {w1, w2}
    NoWorker = NoWorker
    NoItem = NoItem
    LeaseSeconds = 1
    RetryDelay = 1
    MaxAttempts = 2
    MaxClock = 2
    MaxCrashes = 1
    MaxManualRetries = 1
INVARIANTS TypeOK LeaseProtects FrozenClockNeverExpires
PROPERTIES OnlyHolderOrOperatorEndsClaim FinalStatusIsFinal EveryItemSettles
CHECK_DEADLOCK FALSE
