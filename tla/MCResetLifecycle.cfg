\* Two resets, one tombstone, one fault.
SPECIFICATION Spec
CONSTANTS
    MaxResets = 2
    MaxFaults = 1
    TombstoneCapacity = 1
INVARIANTS Consistent CompletionsAgree ObservationIsCurrent OnePendingReset
PROPERTIES ResetCompletes
