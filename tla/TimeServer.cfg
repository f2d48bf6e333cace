SPECIFICATION Spec
CONSTANTS
    Badges = {2, 3}
    LargestBadge = 3
    timers_per_client = 2
    Delays = {1}
    MaxTime = 2
INVARIANTS TypeOK OwnTimers ReportsExpired Wakeable
CHECK_DEADLOCK FALSE
