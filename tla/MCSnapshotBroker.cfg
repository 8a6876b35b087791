\* Two executions, two resets, two snapshot contents, one tombstone.
SPECIFICATION Spec
CONSTANTS
    e1 = e1
    e2 = e2
    end1 = end1
    end1b = end1b
    end2 = end2
    start1 = start1
    start2 = start2
    s1 = s1
    s2 = s2
    None = None
    Missing = Missing
    Executions <- MCExecutions
    Refs <- MCRefs
    Requests <- MCRequests
    Snapshots <- MCSnapshots
    TombstoneCapacity = 1
SYMMETRY Symmetry
INVARIANTS TypeOK StoreConsistent NothingOutlivesRequests ServedOrOutstanding
PROPERTIES SnapshotImmutable SentIsHeld
