SPECIFICATION Spec
CONSTANTS
    Runners = {r1, r2}
    MaxPlans = 2
    MaxAttempts = 2
    MaxTaskAttempts = 2
    MaxSourceRetries = 0
    MaxRunnerCrashes = 1
    MaxAdapterCrashes = 1
    MaxLost = 1
SYMMETRY RunnerSymmetry
INVARIANTS
    OneLaunchPerPlan
    ExecutingHasItsAttempt
    PublishedIsAccountedFor
    RevokedJobIsCancelled
PROPERTIES
    StoppedStaysStopped
CHECK_DEADLOCK FALSE
