\* Two executions of one Python process, or one execution id asked for by three
\* Python processes in turn, of two actions.
SPECIFICATION Spec
CONSTANTS
    a = a
    b = b
    None = None
    MaxExecutions = 2
    Executions <- MCExecutions
    Actions <- MCTwoActions
    TombstoneCapacity = 2
    StaleRetryThreshold = 1
    MaxRestarts = 2
    MaxInFlight = 3
CONSTRAINT OneProcessOrOneExecution
INVARIANTS BrokersAgree TransitionIsCommitted
PROPERTIES ImplementsExactlyOnce
