\* The same id asked for by two processes: is the transition the new one?
SPECIFICATION Spec
CONSTANTS
    a = a
    b = b
    None = None
    MaxExecutions = 1
    Executions <- MCExecutions
    Actions <- MCActions
    TombstoneCapacity = 1
    StaleRetryThreshold = 1
    MaxRestarts = 1
    MaxInFlight = 2
CONSTRAINT FewInFlight
INVARIANTS TransitionIsFresh
