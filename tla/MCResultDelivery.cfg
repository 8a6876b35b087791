\* Two results, one retry before STALE, a connection that may be lost.
SPECIFICATION DeliverySpec
CONSTANTS
    r = r
    None = None
    Keys <- MCKeys
    Results <- MCResults
    TombstoneCapacity = 2
    StaleRetryThreshold = 2
PROPERTIES SentResultConfirmed ConfirmedOrStale
\* Nothing is left to do once every result is committed and the peer is STALE.
CHECK_DEADLOCK FALSE
