\* Two own keys and a foreign one, three payloads, one tombstone.
SPECIFICATION Spec
CONSTANTS
    k1 = k1
    k2 = k2
    foreign = foreign
    p1 = p1
    p2 = p2
    p3 = p3
    h1 = h1
    h2 = h2
    None = None
    Keys <- MCKeys
    OwnKeys <- MCOwnKeys
    Payloads <- MCPayloads
    Hashes <- MCHashes
    HashOf <- MCHashOf
    TombstoneCapacity = 1
    MaxInFlight = 2
CONSTRAINT FewInFlight
INVARIANTS TypeOK StoreConsistent
PROPERTIES SendsAreJustified IdentityKept
