\* An execution and a reset, one lookup given up, no eviction.
SPECIFICATION RetrievalSpec
CONSTANTS
    e1 = e1
    end1 = end1
    start = start
    s1 = s1
    None = None
    Missing = Missing
    Executions <- MCExecutions
    Refs <- MCRefs
    Requests <- MCRequests
    Snapshots <- MCSnapshots
    TombstoneCapacity = 2
    MaxTimeouts = 1
INVARIANTS OneAnswerPerLookup RaisesOnlyAfterTimeout
PROPERTIES LookupEnds
