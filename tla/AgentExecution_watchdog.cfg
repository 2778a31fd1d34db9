SPECIFICATION Spec
CONSTANTS
    Runners = {r1}
    MaxPlans = 1
    MaxAttempts = 1
    MaxTaskAttempts = 2
    MaxSourceRetries = 0
    MaxRunnerCrashes = 1
    MaxAdapterCrashes = 0
    MaxLost = 0
PROPERTIES
    ExpiredLeaseIsReaped
CHECK_DEADLOCK FALSE
