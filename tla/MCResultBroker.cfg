\* Two executions, two identities each, one tombstone, one retry before STALE.
SPECIFICATION Spec
CONSTANTS
    r1 = r1
    r2 = r2
    None = None
    Keys <- MCKeys
    Results <- MCResults
    TombstoneCapacity = 1
    StaleRetryThreshold = 1
    MaxInFlight = 2
CONSTRAINT FewInFlight
INVARIANTS TypeOK StoreConsistent RelayBudget
PROPERTIES SendsAreTrue IdentityKept
