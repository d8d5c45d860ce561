\* Three events in two streams, two dispatchers, one lost, two publisher
\* failures, two leases that end under a live dispatcher.
SPECIFICATION LiveSpec
CONSTANTS
    Events = {1, 2, 3}
    StreamOf <- MCStreamOf
    Dispatchers = {d1, d2}
    NoDispatcher = NoDispatcher
    NoEvent = NoEvent
    LeaseSeconds = 2
    RetryDelay = 1
    MaxCrashes = 1
    MaxFailures = 2
    MaxOverruns = 2
INVARIANTS TypeOK HandledInOrder DeliveredWasHandled OneClaimPerStream
PROPERTIES LateReportsChangeNothing EveryEventDelivered
CHECK_DEADLOCK FALSE
