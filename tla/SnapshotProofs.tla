--------------------------- MODULE SnapshotProofs ---------------------------
(***************************************************************************)
(* Theorems about SnapshotBroker and SnapshotRetrieval, for any requests,  *)
(* snapshots and tombstone capacity.  Requests of two keys may name one    *)
(* reference, except in the theorem that says so.  The broker's inductive  *)
(* invariant IInv adds to the types the consistency of the store, which    *)
(* lets the deque take a retired key, and the owner of every payload and   *)
(* of every parked lookup.  That of the retrieval path, RInv, balances the *)
(* lookups sent with those answered, given up and under way.               *)
(***************************************************************************)
EXTENDS SnapshotRetrieval, TombstoneFifoProofs, FiniteSetTheorems

IInv == TypeOK /\ StoreConsistent /\ PayloadsAreOwned /\ ParkedIsActive

\* The fields of a request, and that it is not None.
LEMMA RequestFields ==
    \A q \in Requests : q.key \in Keys /\ q.ref \in Refs /\ q # None
  BY SnapshotBrokerAssumption DEF Keys

\* The wire constructors build messages of their types.
LEMMA MessageTypes ==
    /\ \A q \in Requests : Ask(q) \in Asks
    /\ \A r \in Refs, s \in Snapshots : Ack(r, s) \in Acks
    /\ \A q \in Requests, s \in Snapshots \union {Missing} : Answer(q, s) \in Answers
    /\ \A q \in Requests, s \in Snapshots \union {None} :
         Tombstone(q, s) \in Tombstones /\ Tombstone(q, s) # None
         /\ Tombstone(q, s).request = q /\ Tombstone(q, s).snapshot = s
  BY SnapshotBrokerAssumption
     DEF Ask, Asks, Ack, Acks, Answer, Answers, Tombstone, Tombstones

\* The broker sends Unity only what the handler has for it.
LEMMA SentToUnity ==
    ASSUME NEW ms, SendUnity(ms)
    PROVE  toUnity' \subseteq ms
  BY DEF SendUnity

\* What the broker asks Unity for, of the outstanding requests.
LEMMA OutstandingAsks ==
    ASSUME TypeOK, StoreConsistent
    PROVE  {Ask(requests[k]) : k \in awaiting} \subseteq Asks
<1>1. \A k \in awaiting : requests[k] \in Requests
  BY DEF StoreConsistent, ActiveKeys, Active, TypeOK
<1> QED BY <1>1, MessageTypes

\* Opening a request keeps the store consistent: an unknown key is neither
\* active nor retired, and a known one already holds the request.
LEMMA OpenKeeps ==
    ASSUME TypeOK, StoreConsistent, NEW q \in Requests,
           Unknown(q) \/ requests[q.key] = q, Open(q),
           UNCHANGED <<terminal, terminalOrder>>
    PROVE  /\ StoreConsistent'
           /\ requests' \in [Keys -> Requests \union {None}]
           /\ awaiting' \subseteq Keys
           /\ \A k \in Keys : requests'[k] = IF k = q.key THEN q ELSE requests[k]
           /\ \A k \in Keys : k \in awaiting' <=>
                k \in awaiting \/ (k = q.key /\ requests[k] = None)
<1>1. q.key \in Keys /\ q # None
  BY RequestFields
<1>2. \A k \in Keys : requests'[k] = IF k = q.key THEN q ELSE requests[k]
  BY <1>1 DEF Open, TypeOK
<1>3. requests' \in [Keys -> Requests \union {None}]
  BY <1>1 DEF Open, TypeOK
<1>4. Unknown(q) <=> requests[q.key] = None
  BY <1>1 DEF Unknown
<1>5. \A k \in Keys : k \in awaiting' <=>
        k \in awaiting \/ (k = q.key /\ requests[k] = None)
  BY <1>1, <1>4 DEF Open
<1>6. awaiting' \subseteq Keys
  BY <1>1 DEF Open, TypeOK
<1>7. ActiveKeys' = ActiveKeys \union {q.key} /\ TombstonedKeys' = TombstonedKeys
  BY <1>1, <1>2 DEF ActiveKeys, Active, TombstonedKeys
<1>8. q.key \notin TombstonedKeys
  BY <1>1 DEF Unknown, TombstonedKeys, StoreConsistent, ActiveKeys, Active
<1>9. StoreConsistent'
  <2>1. \A k \in ActiveKeys' : requests'[k].key = k
    BY <1>2, <1>7 DEF StoreConsistent, ActiveKeys
  <2>2. awaiting' \subseteq ActiveKeys'
    BY <1>7 DEF Open, StoreConsistent
  <2>3. ActiveKeys' \intersect TombstonedKeys' = {}
    BY <1>7, <1>8 DEF StoreConsistent
  <2> QED BY <1>7, <2>1, <2>2, <2>3 DEF StoreConsistent
<1> QED BY <1>2, <1>3, <1>5, <1>6, <1>9

\* Retiring a key that has no tombstone moves it from the one map to the other
\* and drops the payload; only the oldest tombstone can go for it.
LEMMA RetireKeeps ==
    ASSUME TypeOK, StoreConsistent, NEW q \in Requests,
           NEW held \in Snapshots \union {None},
           Unknown(q) \/ requests[q.key] = q, Retire(q, held)
    PROVE  /\ StoreConsistent'
           /\ requests' \in [Keys -> Requests \union {None}]
           /\ awaiting' \subseteq Keys
           /\ cache' \in [Refs -> Snapshots \union {None}]
           /\ terminal' \in [Keys -> Tombstones \union {None}]
           /\ terminalOrder' \in Seq(Keys)
           /\ \A k \in Keys : requests'[k] = IF k = q.key THEN None ELSE requests[k]
           /\ \A r \in Refs : cache'[r] = IF r = q.ref THEN None ELSE cache[r]
           /\ awaiting' = awaiting \ {q.key}
           /\ terminal'[q.key] = Tombstone(q, held)
<1> USE SnapshotBrokerAssumption
<1> DEFINE gone == Evicted(terminalOrder, q.key, TombstoneCapacity)
<1>1. q.key \in Keys /\ q.ref \in Refs /\ q # None
  BY RequestFields
<1>2. q.key \notin TombstonedKeys
  BY <1>1 DEF Unknown, TombstonedKeys, StoreConsistent, ActiveKeys, Active
<1>3. /\ Lists(Pushed(terminalOrder, q.key, TombstoneCapacity),
               (TombstonedKeys \union {q.key}) \ gone, TombstoneCapacity)
      /\ q.key \notin gone
  BY <1>2, ListsPushed DEF StoreConsistent
<1> HIDE DEF gone
<1>4. /\ Tombstone(q, held) \in Tombstones /\ Tombstone(q, held) # None
      /\ Tombstone(q, held).request = q
  BY MessageTypes
<1>5. /\ \A k \in Keys : requests'[k] = IF k = q.key THEN None ELSE requests[k]
      /\ requests' \in [Keys -> Requests \union {None}]
  BY <1>1 DEF Retire, TypeOK
<1>6. /\ \A r \in Refs : cache'[r] = IF r = q.ref THEN None ELSE cache[r]
      /\ cache' \in [Refs -> Snapshots \union {None}]
  BY <1>1 DEF Retire, TypeOK
<1>7. /\ \A k \in Keys : terminal'[k] =
             IF k = q.key THEN Tombstone(q, held)
             ELSE IF k \in gone THEN None ELSE terminal[k]
      /\ terminal' \in [Keys -> Tombstones \union {None}]
  BY <1>1, <1>4 DEF Retire, TypeOK, gone
<1>8. awaiting' = awaiting \ {q.key} /\ awaiting' \subseteq Keys
  BY DEF Retire, TypeOK
<1>9. terminalOrder' \in Seq(Keys)
  <2>1. \A order \in Seq(Keys), k \in Keys :
          Append(order, k) \in Seq(Keys) /\ Append(order, k) # <<>>
    OBVIOUS
  <2>2. terminalOrder \in Seq(Keys)
    BY DEF TypeOK
  <2>3. /\ Append(terminalOrder, q.key) \in Seq(Keys)
        /\ Append(terminalOrder, q.key) # <<>>
    BY <1>1, <2>1, <2>2
  <2> QED BY <2>3 DEF Retire, Pushed
<1>10. ActiveKeys' = ActiveKeys \ {q.key}
  BY <1>5 DEF ActiveKeys, Active
<1>11. TombstonedKeys' = (TombstonedKeys \union {q.key}) \ gone
  BY <1>1, <1>3, <1>4, <1>7 DEF TombstonedKeys
<1>12. StoreConsistent'
  <2>1. \A k \in ActiveKeys' : requests'[k].key = k
    BY <1>5, <1>10 DEF StoreConsistent, ActiveKeys
  <2>2. \A k \in TombstonedKeys' : terminal'[k].request.key = k
    BY <1>4, <1>7, <1>11 DEF StoreConsistent, TombstonedKeys
  <2>3. awaiting' \subseteq ActiveKeys'
    BY <1>8, <1>10 DEF StoreConsistent
  <2>4. ActiveKeys' \intersect TombstonedKeys' = {}
    BY <1>10, <1>11 DEF StoreConsistent
  <2>5. Lists(terminalOrder, TombstonedKeys, TombstoneCapacity)'
    BY <1>3, <1>11 DEF Retire
  <2> QED BY <2>1, <2>2, <2>3, <2>4, <2>5 DEF StoreConsistent
<1> QED BY <1>1, <1>5, <1>6, <1>7, <1>8, <1>9, <1>12

\* With the request its parked lookup goes: no other parked lookup has its key,
\* and no payload of another reference loses its owner.
LEMMA RetireOwned ==
    ASSUME IInv, NEW q \in Requests, NEW held \in Snapshots \union {None},
           Unknown(q) \/ requests[q.key] = q, Retire(q, held),
           parked' = parked \ {q}
    PROVE  PayloadsAreOwned' /\ ParkedIsActive'
<1> USE DEF IInv
<1>1. /\ \A k \in Keys : requests'[k] = IF k = q.key THEN None ELSE requests[k]
      /\ \A r \in Refs : cache'[r] = IF r = q.ref THEN None ELSE cache[r]
      /\ awaiting' = awaiting \ {q.key}
  BY RetireKeeps
<1>2. ParkedIsActive'
  <2> SUFFICES ASSUME NEW p \in parked' PROVE requests'[p.key] = p
    BY DEF ParkedIsActive
  <2>1. p \in parked /\ p # q /\ p \in Requests /\ requests[p.key] = p
    BY DEF TypeOK, ParkedIsActive
  <2>2. p.key \in Keys /\ p # None
    BY <2>1, RequestFields
  <2>3. p.key # q.key
    BY <2>1, <2>2 DEF Unknown
  <2> QED BY <1>1, <2>1, <2>2, <2>3
<1>3. PayloadsAreOwned'
  <2> SUFFICES ASSUME NEW r \in Refs, cache'[r] # None
               PROVE  \E k \in ActiveKeys' \ awaiting' : requests'[k].ref = r
    BY DEF PayloadsAreOwned
  <2>1. r # q.ref /\ cache[r] # None
    BY <1>1
  <2>2. PICK k \in ActiveKeys \ awaiting : requests[k].ref = r
    BY <2>1 DEF PayloadsAreOwned
  <2>3. k \in Keys /\ requests[k] # None
    BY <2>2 DEF ActiveKeys, Active
  <2>4. k # q.key
    BY <2>1, <2>2, <2>3 DEF Unknown
  <2>5. k \in ActiveKeys' /\ requests'[k].ref = r /\ k \notin awaiting'
    BY <1>1, <2>2, <2>3, <2>4 DEF ActiveKeys, Active
  <2> QED BY <2>5
<1> QED BY <1>2, <1>3

\* Opening a request orphans no payload and no parked lookup.
LEMMA OpenOwned ==
    ASSUME IInv, NEW q \in Requests, Unknown(q) \/ requests[q.key] = q, Open(q),
           UNCHANGED <<cache, terminal, terminalOrder>>,
           parked' \subseteq parked \union {q}
    PROVE  PayloadsAreOwned' /\ ParkedIsActive'
<1> USE DEF IInv
<1>1. /\ \A k \in Keys : requests'[k] = IF k = q.key THEN q ELSE requests[k]
      /\ \A k \in Keys : k \in awaiting' <=>
           k \in awaiting \/ (k = q.key /\ requests[k] = None)
  BY OpenKeeps
<1>2. q.key \in Keys
  BY RequestFields
<1>3. ParkedIsActive'
  <2> SUFFICES ASSUME NEW p \in parked' PROVE requests'[p.key] = p
    BY DEF ParkedIsActive
  <2>1. CASE p = q
    BY <1>1, <1>2, <2>1
  <2>2. CASE p # q
    <3>1. p \in Requests /\ requests[p.key] = p
      BY <2>2 DEF TypeOK, ParkedIsActive
    <3>2. p.key \in Keys /\ p # None
      BY <3>1, RequestFields
    <3>3. p.key # q.key
      BY <2>2, <3>1, <3>2 DEF Unknown
    <3> QED BY <1>1, <3>1, <3>2, <3>3
  <2> QED BY <2>1, <2>2
<1>4. PayloadsAreOwned'
  <2> SUFFICES ASSUME NEW r \in Refs, cache[r] # None
               PROVE  \E k \in ActiveKeys' \ awaiting' : requests'[k].ref = r
    BY DEF PayloadsAreOwned
  <2>1. PICK k \in ActiveKeys \ awaiting : requests[k].ref = r
    BY DEF PayloadsAreOwned
  <2>2. k \in Keys /\ requests[k] # None
    BY <2>1 DEF ActiveKeys, Active
  <2>3. requests'[k] = requests[k] /\ k \notin awaiting'
    BY <1>1, <2>1, <2>2 DEF Unknown
  <2>4. k \in ActiveKeys'
    BY <2>2, <2>3 DEF ActiveKeys, Active
  <2> QED BY <2>1, <2>3, <2>4
<1> QED BY <1>3, <1>4

\* A stored snapshot has its owner in the request it came for.
LEMMA StoredKeeps ==
    ASSUME IInv, NEW q \in Requests, NEW s \in Snapshots, requests[q.key] = q,
           cache' = [cache EXCEPT ![q.ref] = s], awaiting' = awaiting \ {q.key},
           UNCHANGED <<requests, terminal, terminalOrder>>, parked' \subseteq parked
    PROVE  /\ StoreConsistent' /\ PayloadsAreOwned' /\ ParkedIsActive'
           /\ cache' \in [Refs -> Snapshots \union {None}]
           /\ awaiting' \subseteq Keys
           /\ cache'[q.ref] = s
<1> USE DEF IInv
<1>1. q.key \in Keys /\ q.ref \in Refs /\ q # None
  BY RequestFields
<1>2. /\ \A r \in Refs : cache'[r] = IF r = q.ref THEN s ELSE cache[r]
      /\ cache' \in [Refs -> Snapshots \union {None}]
  BY <1>1 DEF TypeOK
<1>3. ActiveKeys' = ActiveKeys /\ TombstonedKeys' = TombstonedKeys
  BY DEF ActiveKeys, Active, TombstonedKeys
<1>4. StoreConsistent'
  BY <1>3 DEF StoreConsistent
<1>5. ParkedIsActive'
  BY DEF ParkedIsActive
<1>6. q.key \in ActiveKeys'
  BY <1>1 DEF ActiveKeys, Active
<1>7. PayloadsAreOwned'
  <2> SUFFICES ASSUME NEW r \in Refs, cache'[r] # None
               PROVE  \E k \in ActiveKeys' \ awaiting' : requests'[k].ref = r
    BY DEF PayloadsAreOwned
  <2>1. CASE r = q.ref
    BY <1>6, <2>1
  <2>2. CASE r # q.ref
    BY <1>2, <1>3, <2>2 DEF PayloadsAreOwned
  <2> QED BY <2>1, <2>2
<1> QED BY <1>1, <1>2, <1>4, <1>5, <1>7 DEF TypeOK

\* Steps that leave the store alone.
LEMMA StoreKept ==
    ASSUME IInv, UNCHANGED store, parked' \subseteq parked
    PROVE  StoreConsistent' /\ PayloadsAreOwned' /\ ParkedIsActive'
<1>1. ActiveKeys' = ActiveKeys /\ TombstonedKeys' = TombstonedKeys
  BY DEF ActiveKeys, Active, TombstonedKeys, store
<1> QED BY <1>1 DEF IInv, StoreConsistent, PayloadsAreOwned, ParkedIsActive, store

\* Every step keeps the invariant.
LEMMA InvariantStep == IInv /\ [Next]_vars => IInv'
<1> SUFFICES ASSUME IInv, [Next]_vars PROVE IInv'
  OBVIOUS
<1> USE DEF IInv
<1>1. ASSUME NEW q \in Requests, UnityResult(q) PROVE IInv'
  <2>1. /\ Unknown(q) /\ Open(q) /\ SendIfNew(q) /\ toPython' = {}
        /\ UNCHANGED <<cache, terminal, terminalOrder, parked, registered>>
    BY <1>1 DEF UnityResult
  <2>2. toUnity' \subseteq Asks
    BY <2>1, SentToUnity, MessageTypes DEF SendIfNew
  <2>3. PayloadsAreOwned' /\ ParkedIsActive'
    BY <2>1, OpenOwned
  <2> QED BY <2>1, <2>2, <2>3, OpenKeeps DEF TypeOK
<1>2. ASSUME NEW q \in Requests, PythonLookupParked(q) PROVE IInv'
  <2>1. /\ Unknown(q) \/ requests[q.key] = q
        /\ Open(q) /\ SendIfNew(q) /\ toPython' = {} /\ parked' = parked \union {q}
        /\ UNCHANGED <<cache, terminal, terminalOrder, registered>>
    BY <1>2 DEF PythonLookupParked
  <2>2. toUnity' \subseteq Asks
    BY <2>1, SentToUnity, MessageTypes DEF SendIfNew
  <2>3. PayloadsAreOwned' /\ ParkedIsActive'
    BY <2>1, OpenOwned
  <2> QED BY <2>1, <2>2, <2>3, OpenKeeps DEF TypeOK
<1>3. ASSUME NEW q \in Requests, PythonLookupAnswered(q) PROVE IInv'
  <2>1. /\ Unknown(q) \/ requests[q.key] = q
        /\ cache[q.ref] # None /\ SendIfNew(q)
        /\ parked' = parked \ {q} /\ toPython' = {Answer(q, cache[q.ref])}
        /\ UNCHANGED registered
    BY <1>3 DEF PythonLookupAnswered
  <2>2. toUnity' \subseteq Asks
    BY <2>1, SentToUnity, MessageTypes DEF SendIfNew
  <2>3. cache[q.ref] \in Snapshots
    BY <2>1, RequestFields DEF TypeOK
  <2>4. toPython' \subseteq Answers
    BY <2>1, <2>3, MessageTypes
  <2>5. CASE IsReset(q)
    <3>1. Retire(q, cache[q.ref])
      BY <1>3, <2>5 DEF PythonLookupAnswered
    <3>2. PayloadsAreOwned' /\ ParkedIsActive'
      BY <2>1, <2>3, <3>1, RetireOwned
    <3> QED BY <2>1, <2>2, <2>3, <2>4, <3>1, <3>2, RetireKeeps DEF TypeOK
  <2>6. CASE ~IsReset(q)
    <3>1. Open(q) /\ UNCHANGED <<cache, terminal, terminalOrder>>
      BY <1>3, <2>6 DEF PythonLookupAnswered
    <3>2. PayloadsAreOwned' /\ ParkedIsActive'
      BY <2>1, <3>1, OpenOwned
    <3> QED BY <2>1, <2>2, <2>4, <3>1, <3>2, OpenKeeps DEF TypeOK
  <2> QED BY <2>5, <2>6
<1>4. ASSUME NEW q \in Requests, NEW s \in Snapshots, UnitySnapshotStored(q, s)
      PROVE  IInv'
  <2>1. /\ requests[q.key] = q /\ cache' = [cache EXCEPT ![q.ref] = s]
        /\ awaiting' = awaiting \ {q.key} /\ SendUnity({Ack(q.ref, s)})
        /\ toPython' = {}
        /\ UNCHANGED <<requests, terminal, terminalOrder, parked, registered>>
    BY <1>4 DEF UnitySnapshotStored
  <2>2. toUnity' \subseteq Acks
    BY <2>1, SentToUnity, MessageTypes, RequestFields
  <2> QED BY <2>1, <2>2, StoredKeeps DEF TypeOK
<1>5. ASSUME NEW q \in Requests, NEW s \in Snapshots, UnitySnapshotRelayed(q, s)
      PROVE  IInv'
  <2>1. /\ requests[q.key] = q /\ SendUnity({Ack(q.ref, s)})
        /\ parked' = parked \ {q} /\ toPython' = {Answer(q, s)}
        /\ UNCHANGED registered
    BY <1>5 DEF UnitySnapshotRelayed
  <2>2. toUnity' \subseteq Acks
    BY <2>1, SentToUnity, MessageTypes, RequestFields
  <2>3. toPython' \subseteq Answers
    BY <2>1, MessageTypes
  <2>4. CASE IsReset(q)
    <3>1. Retire(q, s)
      BY <1>5, <2>4 DEF UnitySnapshotRelayed
    <3>2. PayloadsAreOwned' /\ ParkedIsActive'
      BY <2>1, <3>1, RetireOwned
    <3> QED BY <2>1, <2>2, <2>3, <3>1, <3>2, RetireKeeps DEF TypeOK
  <2>5. CASE ~IsReset(q)
    <3>1. /\ cache' = [cache EXCEPT ![q.ref] = s] /\ awaiting' = awaiting \ {q.key}
          /\ UNCHANGED <<requests, terminal, terminalOrder>>
      BY <1>5, <2>5 DEF UnitySnapshotRelayed
    <3> QED BY <2>1, <2>2, <2>3, <3>1, StoredKeeps DEF TypeOK
  <2> QED BY <2>4, <2>5
<1>6. ASSUME NEW q \in Requests, NEW s \in Snapshots, UnitySnapshotAfter(q, s)
      PROVE  IInv'
  <2>1. UNCHANGED <<store, parked, registered>> /\ toPython' = {}
    BY <1>6 DEF UnitySnapshotAfter
  <2>2. toUnity' \subseteq Acks
    BY <1>6, SentToUnity, MessageTypes, RequestFields DEF UnitySnapshotAfter
  <2> QED BY <2>1, <2>2, StoreKept DEF TypeOK, store
<1>7. ASSUME NEW q \in Requests, UnityMissing(q) PROVE IInv'
  <2>1. /\ q \in parked /\ parked' = parked \ {q}
        /\ toPython' = {Answer(q, Missing)} /\ toUnity' = {} /\ UNCHANGED registered
    BY <1>7 DEF UnityMissing
  <2>2. toPython' \subseteq Answers
    BY <2>1, MessageTypes
  <2>3. requests[q.key] = q
    BY <2>1 DEF ParkedIsActive
  <2>4. CASE IsReset(q) /\ Active(q.key)
    <3>1. Retire(q, cache[q.ref]) /\ cache[q.ref] \in Snapshots \union {None}
      BY <1>7, <2>4, RequestFields DEF UnityMissing, TypeOK
    <3>2. PayloadsAreOwned' /\ ParkedIsActive'
      BY <2>1, <2>3, <3>1, RetireOwned
    <3> QED BY <2>1, <2>2, <2>3, <3>1, <3>2, RetireKeeps DEF TypeOK
  <2>5. CASE ~(IsReset(q) /\ Active(q.key))
    <3>1. UNCHANGED store
      BY <1>7, <2>5 DEF UnityMissing
    <3> QED BY <2>1, <2>2, <3>1, StoreKept DEF TypeOK, store
  <2> QED BY <2>4, <2>5
<1>8. ASSUME NEW q \in Requests, FinalizeExecution(q) PROVE IInv'
  <2>1. /\ requests[q.key] = q /\ Retire(q, cache[q.ref]) /\ parked' = parked \ {q}
        /\ toUnity' = {} /\ toPython' = {} /\ UNCHANGED registered
    BY <1>8 DEF FinalizeExecution
  <2>2. cache[q.ref] \in Snapshots \union {None}
    BY RequestFields DEF TypeOK
  <2>3. PayloadsAreOwned' /\ ParkedIsActive'
    BY <2>1, <2>2, RetireOwned
  <2> QED BY <2>1, <2>2, <2>3, RetireKeeps DEF TypeOK
<1>9. CASE UnityReady
  <2>1. UNCHANGED <<store, parked>> /\ toPython' = {} /\ registered' \in BOOLEAN
    BY <1>9 DEF UnityReady
  <2>2. toUnity' \subseteq Asks
    BY <1>9, OutstandingAsks DEF UnityReady
  <2> QED BY <2>1, <2>2, StoreKept DEF TypeOK, store
<1>10. CASE Poll
  <2>1. UNCHANGED <<store, parked, registered>> /\ toPython' = {}
    BY <1>10 DEF Poll
  <2>2. toUnity' \subseteq Asks
    BY <1>10, SentToUnity, OutstandingAsks DEF Poll
  <2> QED BY <2>1, <2>2, StoreKept DEF TypeOK, store
<1>11. CASE UNCHANGED vars
  BY <1>11, StoreKept DEF TypeOK, store, vars
<1> QED BY <1>1, <1>2, <1>3, <1>4, <1>5, <1>6, <1>7, <1>8, <1>9, <1>10, <1>11 DEF Next

\* For every instance: types, the consistency of the three maps with the deque,
\* an active owner for every payload the cache keeps, and an active request for
\* every parked lookup.
THEOREM BrokerInvariant ==
    Spec => [](TypeOK /\ StoreConsistent /\ PayloadsAreOwned /\ ParkedIsActive)
<1>1. Init => IInv
  <2> SUFFICES ASSUME Init PROVE IInv
    OBVIOUS
  <2>1. ActiveKeys = {} /\ TombstonedKeys = {}
    BY DEF Init, ActiveKeys, Active, TombstonedKeys
  <2>2. StoreConsistent
    BY <2>1, ListsEmpty, SnapshotBrokerAssumption DEF Init, StoreConsistent
  <2>3. PayloadsAreOwned /\ ParkedIsActive
    BY DEF Init, PayloadsAreOwned, ParkedIsActive
  <2>4. TypeOK
    <3>1. /\ requests \in [Keys -> Requests \union {None}]
          /\ cache \in [Refs -> Snapshots \union {None}]
          /\ terminal \in [Keys -> Tombstones \union {None}]
          /\ terminalOrder \in Seq(Keys)
      BY DEF Init
    <3>2. /\ awaiting \subseteq Keys /\ parked \subseteq Requests
          /\ registered \in BOOLEAN
          /\ toUnity \subseteq Asks \union Acks /\ toPython \subseteq Answers
      BY DEF Init
    <3> QED BY <3>1, <3>2 DEF TypeOK
  <2> QED BY <2>2, <2>3, <2>4 DEF IInv
<1>2. IInv <=> TypeOK /\ StoreConsistent /\ PayloadsAreOwned /\ ParkedIsActive
  BY DEF IInv
<1> QED BY <1>1, <1>2, InvariantStep, PTL DEF Spec

\* The four parts by themselves.  Types.
THEOREM TypeCorrect == Spec => []TypeOK
  BY BrokerInvariant, PTL

\* A key is active or retired, never both, an outstanding request is active,
\* and the deque lists exactly the tombstones.
THEOREM StoreStaysConsistent == Spec => []StoreConsistent
  BY BrokerInvariant, PTL

\* A cached payload belongs to an active request that no longer asks for it.
THEOREM PayloadsStayOwned == Spec => []PayloadsAreOwned
  BY BrokerInvariant, PTL

\* A parked lookup belongs to an active request: none outlives its request.
THEOREM ParkedLookupsAreActive == Spec => []ParkedIsActive
  BY BrokerInvariant, PTL

\* Neither a cached payload nor a parked lookup outlives its request.
THEOREM NothingIsLeftBehind == Spec => []NothingOutlivesRequests
  BY PayloadsStayOwned, ParkedLookupsAreActive, PTL DEF NothingOutlivesRequests
-----------------------------------------------------------------------------
\* What a tombstone left by the step says.
LEMMA RetiredTombstone ==
    ASSUME TypeOK, StoreConsistent, NEW q \in Requests,
           NEW held \in Snapshots \union {None},
           Unknown(q) \/ requests[q.key] = q, Retire(q, held)
    PROVE  RetiredAs(q.key, q.ref, held)
<1>1. terminal'[q.key] = Tombstone(q, held)
  BY RetireKeeps
<1> QED BY <1>1, MessageTypes DEF RetiredAs

\* Each step either leaves the cache, or stores a snapshot where there was none
\* or the same one, or retires one request with what the cache holds for it.
LEMMA CacheStep ==
    ASSUME IInv, [Next]_vars
    PROVE  \/ cache' = cache
           \/ \E q \in Requests, s \in Snapshots :
                cache[q.ref] \in {None, s} /\ cache' = [cache EXCEPT ![q.ref] = s]
           \/ \E q \in Requests, held \in Snapshots \union {None} :
                /\ Unknown(q) \/ requests[q.key] = q
                /\ cache[q.ref] \in {None, held}
                /\ Retire(q, held)
<1> USE DEF IInv
<1>1. ASSUME NEW q \in Requests, PythonLookupAnswered(q) PROVE
        \/ cache' = cache
        \/ /\ Unknown(q) \/ requests[q.key] = q
           /\ cache[q.ref] # None /\ cache[q.ref] \in Snapshots \union {None}
           /\ Retire(q, cache[q.ref])
  BY <1>1, RequestFields DEF PythonLookupAnswered, TypeOK
<1>2. ASSUME NEW q \in Requests, NEW s \in Snapshots, UnitySnapshotRelayed(q, s)
      PROVE  /\ requests[q.key] = q /\ cache[q.ref] \in {None, s}
             /\ cache' = [cache EXCEPT ![q.ref] = s] \/ Retire(q, s)
  BY <1>2 DEF UnitySnapshotRelayed
<1>3. ASSUME NEW q \in Requests, UnityMissing(q)
      PROVE  \/ cache' = cache
             \/ /\ requests[q.key] = q /\ cache[q.ref] \in Snapshots \union {None}
                /\ Retire(q, cache[q.ref])
  BY <1>3, RequestFields DEF UnityMissing, ParkedIsActive, TypeOK, store
<1>4. ASSUME NEW q \in Requests, FinalizeExecution(q)
      PROVE  /\ requests[q.key] = q /\ cache[q.ref] \in Snapshots \union {None}
             /\ Retire(q, cache[q.ref])
  BY <1>4, RequestFields DEF FinalizeExecution, TypeOK
<1>5. ASSUME NEW q \in Requests, NEW s \in Snapshots, UnitySnapshotStored(q, s)
      PROVE  cache[q.ref] \in {None, s} /\ cache' = [cache EXCEPT ![q.ref] = s]
  BY <1>5 DEF UnitySnapshotStored
<1>6. ASSUME NEW q \in Requests, UnityResult(q) \/ PythonLookupParked(q)
      PROVE  cache' = cache
  BY <1>6 DEF UnityResult, PythonLookupParked
<1>7. ASSUME NEW q \in Requests, NEW s \in Snapshots, UnitySnapshotAfter(q, s)
      PROVE  cache' = cache
  BY <1>7 DEF UnitySnapshotAfter, store
<1>8. CASE UnityReady \/ Poll \/ UNCHANGED vars
  BY <1>8 DEF UnityReady, Poll, store, vars
<1> QED BY <1>1, <1>2, <1>3, <1>4, <1>5, <1>6, <1>7, <1>8 DEF Next

\* A snapshot, once stored, is served unchanged until a request for it is
\* retired, and the tombstone of that request keeps its identity.
THEOREM SnapshotsAreImmutable == Spec => SnapshotImmutable
<1>1. ASSUME IInv, [Next]_vars PROVE SnapshotStep
  <2> USE <1>1 DEF IInv
  <2>1. CASE cache' = cache
    BY <2>1 DEF SnapshotStep
  <2>2. ASSUME NEW q \in Requests, NEW s \in Snapshots, cache[q.ref] \in {None, s},
               cache' = [cache EXCEPT ![q.ref] = s]
        PROVE  SnapshotStep
    BY <2>2, RequestFields DEF SnapshotStep, TypeOK
  <2>3. ASSUME NEW q \in Requests, NEW held \in Snapshots \union {None},
               Unknown(q) \/ requests[q.key] = q, cache[q.ref] \in {None, held},
               Retire(q, held)
        PROVE  SnapshotStep
    <3> SUFFICES ASSUME NEW r \in Refs, cache[r] # None, cache'[r] # cache[r]
                 PROVE  /\ cache'[r] = None
                        /\ \E k \in Keys :
                             requests'[k] = None /\ RetiredAs(k, r, cache[r])
      BY DEF SnapshotStep
    <3>1. /\ cache'[r] = IF r = q.ref THEN None ELSE cache[r]
          /\ requests'[q.key] = None /\ q.key \in Keys
      BY <2>3, RetireKeeps, RequestFields
    <3>2. r = q.ref /\ cache[r] = held
      BY <2>3, <3>1
    <3>3. RetiredAs(q.key, r, cache[r])
      BY <2>3, <3>2, RetiredTombstone
    <3> QED BY <3>1, <3>2, <3>3
  <2> QED BY <2>1, <2>2, <2>3, CacheStep
<1>2. IInv <=> TypeOK /\ StoreConsistent /\ PayloadsAreOwned /\ ParkedIsActive
  BY DEF IInv
<1> QED BY <1>1, <1>2, BrokerInvariant, PTL DEF Spec, SnapshotImmutable

\* The fields of the messages.
LEMMA MessageFields ==
    /\ \A q : Ask(q).type = "SnapshotRequest" /\ Ask(q).request = q
    /\ \A r, s : Ack(r, s).type = "SnapshotAck" /\ Ack(r, s).ref = r
                 /\ Ack(r, s).snapshot = s
    /\ \A q, s : Answer(q, s).request = q /\ Answer(q, s).snapshot = s
  BY DEF Ask, Ack, Answer

\* Unity is told that a snapshot is kept, and Python is given one, only of
\* contents the bridge holds under that reference after the step.
THEOREM SentSnapshotsAreHeld == Spec => SentIsHeld
<1>1. ASSUME IInv, [Next]_vars, ~ UNCHANGED vars PROVE SentStep
  <2> USE <1>1 DEF IInv
  <2>1. ASSUME NEW q \in Requests, UnityResult(q) \/ PythonLookupParked(q)
        PROVE  SentStep
    <3>1. SendIfNew(q) /\ toPython' = {}
      BY <2>1 DEF UnityResult, PythonLookupParked
    <3>2. \A m \in toUnity' : m.type = "SnapshotRequest"
      BY <3>1, SentToUnity, MessageFields DEF SendIfNew
    <3> QED BY <3>1, <3>2 DEF SentStep
  <2>2. ASSUME NEW q \in Requests, PythonLookupAnswered(q) PROVE SentStep
    <3>1. /\ cache[q.ref] # None /\ SendIfNew(q)
          /\ Unknown(q) \/ requests[q.key] = q
          /\ toPython' = {Answer(q, cache[q.ref])}
      BY <2>2 DEF PythonLookupAnswered
    <3>2. cache[q.ref] \in Snapshots /\ q.key \in Keys
      BY <3>1, RequestFields DEF TypeOK
    <3>3. HeldAfter(q.ref, cache[q.ref])
      <4>1. CASE IsReset(q)
        BY <2>2, <3>1, <3>2, <4>1, RetiredTombstone DEF PythonLookupAnswered, HeldAfter
      <4>2. CASE ~IsReset(q)
        BY <2>2, <4>2 DEF PythonLookupAnswered, HeldAfter
      <4> QED BY <4>1, <4>2
    <3>4. \A m \in toUnity' : m.type = "SnapshotRequest"
      BY <3>1, SentToUnity, MessageFields DEF SendIfNew
    <3> QED BY <3>1, <3>3, <3>4, MessageFields DEF SentStep
  <2>3. ASSUME NEW q \in Requests, NEW s \in Snapshots, UnitySnapshotStored(q, s)
        PROVE  SentStep
    <3>1. SendUnity({Ack(q.ref, s)}) /\ toPython' = {} /\ cache'[q.ref] = s
      BY <2>3, StoredKeeps, RequestFields DEF UnitySnapshotStored, TypeOK
    <3>2. toUnity' \subseteq {Ack(q.ref, s)}
      BY <3>1, SentToUnity
    <3> QED BY <3>1, <3>2, MessageFields DEF SentStep, HeldAfter
  <2>4. ASSUME NEW q \in Requests, NEW s \in Snapshots, UnitySnapshotRelayed(q, s)
        PROVE  SentStep
    <3>1. /\ SendUnity({Ack(q.ref, s)}) /\ toPython' = {Answer(q, s)}
          /\ requests[q.key] = q /\ q.key \in Keys /\ q.ref \in Refs
      BY <2>4, RequestFields DEF UnitySnapshotRelayed
    <3>2. HeldAfter(q.ref, s)
      <4>1. CASE IsReset(q)
        BY <2>4, <3>1, <4>1, RetiredTombstone DEF UnitySnapshotRelayed, HeldAfter
      <4>2. CASE ~IsReset(q)
        BY <2>4, <3>1, <4>2 DEF UnitySnapshotRelayed, HeldAfter, TypeOK
      <4> QED BY <4>1, <4>2
    <3>3. toUnity' \subseteq {Ack(q.ref, s)}
      BY <3>1, SentToUnity
    <3> QED BY <3>1, <3>2, <3>3, MessageFields DEF SentStep
  <2>5. ASSUME NEW q \in Requests, NEW s \in Snapshots, UnitySnapshotAfter(q, s)
        PROVE  SentStep
    <3>1. /\ SendUnity({Ack(q.ref, s)}) /\ toPython' = {}
          /\ terminal'[q.key] = Tombstone(q, s) /\ q.key \in Keys
      BY <2>5, RequestFields DEF UnitySnapshotAfter, store
    <3>2. HeldAfter(q.ref, s)
      BY <3>1, MessageTypes DEF HeldAfter, RetiredAs
    <3>3. toUnity' \subseteq {Ack(q.ref, s)}
      BY <3>1, SentToUnity
    <3> QED BY <3>1, <3>2, <3>3, MessageFields DEF SentStep
  <2>6. ASSUME NEW q \in Requests, UnityMissing(q) PROVE SentStep
    BY <2>6, MessageFields DEF UnityMissing, SentStep
  <2>7. ASSUME NEW q \in Requests, FinalizeExecution(q) PROVE SentStep
    BY <2>7 DEF FinalizeExecution, SentStep
  <2>8. CASE UnityReady \/ Poll
    <3>1. toUnity' \subseteq {Ask(requests[k]) : k \in awaiting} /\ toPython' = {}
      BY <2>8, SentToUnity DEF UnityReady, Poll
    <3> QED BY <3>1, MessageFields DEF SentStep
  <2> QED BY <2>1, <2>2, <2>3, <2>4, <2>5, <2>6, <2>7, <2>8 DEF Next
<1>2. IInv <=> TypeOK /\ StoreConsistent /\ PayloadsAreOwned /\ ParkedIsActive
  BY DEF IInv
<1>3. IInv /\ [Next]_vars => [SentStep]_vars
  BY <1>1
<1> QED BY <1>2, <1>3, BrokerInvariant, PTL DEF Spec, SentIsHeld

\* When no reference is asked for under two keys, Unity is asked again until
\* the bridge has the snapshot: an active request that is not outstanding can
\* be served.
THEOREM ActiveRequestsAreServed ==
    ASSUME OneKeyPerRef
    PROVE  Spec => []ServedOrOutstanding
<1>1. Init => ServedOrOutstanding
  BY DEF Init, ServedOrOutstanding, ActiveKeys, Active
<1>2. ASSUME IInv, ServedOrOutstanding, [Next]_vars PROVE ServedOrOutstanding'
  <2> USE <1>2 DEF IInv
  <2>0. \A p, q \in Requests : p.ref = q.ref => p.key = q.key
    BY DEF OneKeyPerRef
  <2> SUFFICES ASSUME NEW k \in ActiveKeys', k \notin awaiting'
               PROVE  cache'[requests'[k].ref] # None
    BY DEF ServedOrOutstanding
  <2>1. k \in Keys /\ requests'[k] # None
    BY DEF ActiveKeys, Active
  <2>2. ASSUME NEW q \in Requests, Unknown(q) \/ requests[q.key] = q, Open(q),
               UNCHANGED <<cache, terminal, terminalOrder>>
        PROVE  cache'[requests'[k].ref] # None
    <3>1. /\ requests'[k] = IF k = q.key THEN q ELSE requests[k]
          /\ k \in awaiting' <=> k \in awaiting \/ (k = q.key /\ requests[k] = None)
      BY <2>1, <2>2, OpenKeeps
    <3>2. requests[k] # None /\ requests'[k] = requests[k] /\ k \notin awaiting
      BY <2>1, <2>2, <3>1 DEF Unknown
    <3> QED BY <2>1, <2>2, <3>2 DEF ServedOrOutstanding, ActiveKeys, Active
  <2>3. ASSUME NEW q \in Requests, NEW s \in Snapshots, requests[q.key] = q,
               cache' = [cache EXCEPT ![q.ref] = s], awaiting' = awaiting \ {q.key},
               UNCHANGED requests
        PROVE  cache'[requests'[k].ref] # None
    <3>1. q.ref \in Refs /\ s # None
      BY RequestFields, SnapshotBrokerAssumption
    <3>2. cache'[q.ref] = s /\ \A r \in Refs : r # q.ref => cache'[r] = cache[r]
      BY <2>3, <3>1 DEF TypeOK
    <3>3. requests[k] \in Requests
      BY <2>1, <2>3 DEF TypeOK
    <3>4. CASE k = q.key
      BY <2>3, <3>1, <3>2, <3>4
    <3>5. CASE k # q.key
      <4>1. cache[requests[k].ref] # None
        BY <2>1, <2>3, <3>5 DEF ServedOrOutstanding, ActiveKeys, Active
      <4> QED BY <2>3, <3>1, <3>2, <3>3, <4>1, RequestFields
    <3> QED BY <3>4, <3>5
  <2>4. ASSUME NEW q \in Requests, NEW held \in Snapshots \union {None},
               Unknown(q) \/ requests[q.key] = q, Retire(q, held)
        PROVE  cache'[requests'[k].ref] # None
    <3>1. /\ requests'[k] = IF k = q.key THEN None ELSE requests[k]
          /\ \A r \in Refs : cache'[r] = IF r = q.ref THEN None ELSE cache[r]
          /\ awaiting' = awaiting \ {q.key}
      BY <2>1, <2>4, RetireKeeps
    <3>2. k # q.key /\ requests'[k] = requests[k] /\ k \notin awaiting
      BY <2>1, <3>1
    <3>3. requests[k] \in Requests /\ requests[k].key = k
      BY <2>1, <3>2 DEF TypeOK, StoreConsistent, ActiveKeys, Active
    <3>4. requests[k].ref # q.ref /\ requests[k].ref \in Refs
      BY <2>0, <3>2, <3>3, RequestFields
    <3>5. cache[requests[k].ref] # None
      BY <2>1, <3>2 DEF ServedOrOutstanding, ActiveKeys, Active
    <3> QED BY <3>1, <3>2, <3>4, <3>5
  <2>5. CASE UNCHANGED <<requests, awaiting, cache>>
    BY <2>1, <2>5 DEF ServedOrOutstanding, ActiveKeys, Active
  <2>6. ASSUME NEW q \in Requests, UnityResult(q) \/ PythonLookupParked(q)
        PROVE  cache'[requests'[k].ref] # None
    BY <2>2, <2>6 DEF UnityResult, PythonLookupParked
  <2>7. ASSUME NEW q \in Requests, PythonLookupAnswered(q)
        PROVE  cache'[requests'[k].ref] # None
    <3>1. /\ Unknown(q) \/ requests[q.key] = q
          /\ cache[q.ref] \in Snapshots \union {None}
      BY <2>7, RequestFields DEF PythonLookupAnswered, TypeOK
    <3>2. \/ Retire(q, cache[q.ref])
          \/ Open(q) /\ UNCHANGED <<cache, terminal, terminalOrder>>
      BY <2>7 DEF PythonLookupAnswered
    <3> QED BY <2>2, <2>4, <3>1, <3>2
  <2>8. ASSUME NEW q \in Requests, NEW s \in Snapshots,
               UnitySnapshotStored(q, s) \/ UnitySnapshotRelayed(q, s)
        PROVE  cache'[requests'[k].ref] # None
    <3>1. /\ requests[q.key] = q
          /\ \/ Retire(q, s)
             \/ /\ cache' = [cache EXCEPT ![q.ref] = s]
                /\ awaiting' = awaiting \ {q.key} /\ UNCHANGED requests
      BY <2>8 DEF UnitySnapshotStored, UnitySnapshotRelayed
    <3> QED BY <2>3, <2>4, <3>1
  <2>9. ASSUME NEW q \in Requests, UnityMissing(q) \/ FinalizeExecution(q)
        PROVE  cache'[requests'[k].ref] # None
    <3>1. /\ cache[q.ref] \in Snapshots \union {None}
          /\ \/ requests[q.key] = q /\ Retire(q, cache[q.ref])
             \/ UNCHANGED <<requests, awaiting, cache>>
      BY <2>9, RequestFields
         DEF UnityMissing, FinalizeExecution, ParkedIsActive, TypeOK, store
    <3> QED BY <2>4, <2>5, <3>1
  <2>10. CASE \/ UnityReady \/ Poll \/ UNCHANGED vars
              \/ \E q \in Requests, s \in Snapshots : UnitySnapshotAfter(q, s)
    BY <2>5, <2>10 DEF UnityReady, Poll, UnitySnapshotAfter, store, vars
  <2> QED BY <2>6, <2>7, <2>8, <2>9, <2>10 DEF Next
<1>3. IInv <=> TypeOK /\ StoreConsistent /\ PayloadsAreOwned /\ ParkedIsActive
  BY DEF IInv
<1> QED BY <1>1, <1>2, <1>3, BrokerInvariant, PTL DEF Spec
-----------------------------------------------------------------------------
\* The retrieval path: the client, the bridge and Unity.  What is under way for
\* the client is a lookup the bridge has not read, a parked one or an answer.

Pending == {asks[i] : i \in DOMAIN asks} \union parked
             \union {inbox[i].request : i \in DOMAIN inbox}
Outstanding == Len(asks) + Cardinality(parked) + Len(inbox)

ClientTypes ==
    /\ IsFiniteSet(parked)
    /\ asks \in Seq(Requests)
    /\ inbox \in Seq(Answers)
    /\ lookup \in Requests \union {None}
    /\ lookedUp \subseteq Requests /\ IsFiniteSet(lookedUp)
    /\ taken \in Nat /\ timeouts \in Nat

\* Every lookup has been answered, given up or is the one the client waits for.
Balanced ==
    Cardinality(lookedUp) = taken + timeouts + (IF lookup = None THEN 0 ELSE 1)

\* While no lookup has been given up, all that is under way is the present one's.
OnlyMine == timeouts = 0 => Pending \subseteq {lookup}

RInv ==
    /\ ClientTypes
    /\ Balanced
    /\ OneAnswerPerLookup
    /\ OnlyMine
    /\ RaisesOnlyAfterTimeout

\* The snapshot Unity answers with is one of the contents.
LEMMA TheSnapshotIsOne == TheSnapshot \in Snapshots
  BY SnapshotRetrievalAssumption DEF TheSnapshot

\* Lookups under way to the bridge are requests.
LEMMA AsksStep ==
    ASSUME asks \in Seq(Requests), [RetrievalNext]_allVars
    PROVE  asks' \in Seq(Requests)
<1>1. ASSUME NEW q \in Requests, SendLookup(q) PROVE asks' \in Seq(Requests)
  BY <1>1 DEF SendLookup
<1>2. CASE BridgeTakesLookup
  BY <1>2 DEF BridgeTakesLookup
<1>3. CASE UNCHANGED asks
  BY <1>3
<1> QED BY <1>1, <1>2, <1>3 DEF RetrievalNext, allVars, links, BridgeTakesResult,
      BridgeTakesCommit, UnityReplies, BridgeTakesReply, BridgeSeesUnityReady,
      BridgePolls, TakeAnswer, LookupTimesOut

\* Whatever the client, Unity and the sockets do, the broker takes steps of its
\* own specification, or none.
LEMMA BrokerStep ==
    ASSUME asks \in Seq(Requests), [RetrievalNext]_allVars
    PROVE  [Next]_vars
<1>1. ASSUME NEW q \in Requests, BridgeTakesResult(q) \/ BridgeTakesCommit(q)
      PROVE  Next
  BY <1>1 DEF BridgeTakesResult, BridgeTakesCommit, Next
<1>2. ASSUME NEW q \in Requests, UnityReplies(q) \/ SendLookup(q)
      PROVE  UNCHANGED vars
  BY <1>2 DEF UnityReplies, SendLookup
<1>3. ASSUME NEW q \in Requests, NEW s \in {TheSnapshot, Missing}, BridgeTakesReply(q, s)
      PROVE  [Next]_vars
  <2>1. s # Missing => s \in Snapshots
    BY TheSnapshotIsOne
  <2>2. CASE UNCHANGED vars
    BY <2>2
  <2>3. CASE UnityMissing(q)
    BY <2>3 DEF Next
  <2>4. CASE /\ s # Missing
             /\ \/ UnitySnapshotStored(q, s) \/ UnitySnapshotRelayed(q, s)
                \/ UnitySnapshotAfter(q, s)
    BY <2>1, <2>4 DEF Next
  <2> QED BY <1>3, <2>2, <2>3, <2>4 DEF BridgeTakesReply
<1>4. CASE BridgeTakesLookup
  <2>1. Head(asks) \in Requests
    BY <1>4 DEF BridgeTakesLookup
  <2>2. CASE UNCHANGED vars
    BY <2>2
  <2>3. CASE PythonLookupParked(Head(asks)) \/ PythonLookupAnswered(Head(asks))
    BY <2>1, <2>3 DEF Next
  <2> QED BY <1>4, <2>2, <2>3 DEF BridgeTakesLookup
<1>5. CASE BridgeSeesUnityReady \/ BridgePolls
  BY <1>5 DEF BridgeSeesUnityReady, BridgePolls, Next
<1>6. CASE TakeAnswer \/ LookupTimesOut \/ UNCHANGED allVars
  BY <1>6 DEF TakeAnswer, LookupTimesOut, allVars
<1> QED BY <1>1, <1>2, <1>3, <1>4, <1>5, <1>6 DEF RetrievalNext

\* The composition implements the broker's specification: what is proved of the
\* broker holds of the bridge between this client, this Unity and sockets that
\* refuse and drop.
THEOREM BridgeImplementsBroker == RetrievalSpec => Spec
<1>1. RetrievalInit => Init /\ asks \in Seq(Requests)
  BY DEF RetrievalInit
<1>2. asks \in Seq(Requests) /\ [RetrievalNext]_allVars => (asks \in Seq(Requests))'
  BY AsksStep
<1>3. asks \in Seq(Requests) /\ [RetrievalNext]_allVars => [Next]_vars
  BY BrokerStep
<1> QED BY <1>1, <1>2, <1>3, PTL DEF RetrievalSpec, Spec

\* So in the retrieval path too nothing outlives its request, a stored snapshot
\* is never replaced, and what is sent is held.
THEOREM BridgeKeepsItsPromises ==
    RetrievalSpec => []NothingOutlivesRequests /\ SnapshotImmutable /\ SentIsHeld
  BY BridgeImplementsBroker, NothingIsLeftBehind, SnapshotsAreImmutable,
     SentSnapshotsAreHeld, PTL

\* What the bridge hands to the client's socket joins the client's queue or is
\* gone, so the queue grows by one answer at most.
LEMMA CarryOne ==
    ASSUME Carry, ClientTypes, NEW m \in Answers, toPython' = {m}
    PROVE  /\ inbox' \in Seq(Answers)
           /\ Len(inbox') \in Nat /\ Len(inbox') <= Len(inbox) + 1
           /\ {inbox'[i].request : i \in DOMAIN inbox'}
                \subseteq {inbox[i].request : i \in DOMAIN inbox} \union {m.request}
<1>1. inbox' = inbox \/ inbox' = Append(inbox, m)
  BY DEF Carry
<1>2. inbox \in Seq(Answers) /\ Len(inbox) \in Nat
  BY DEF ClientTypes
<1>3. CASE inbox' = inbox
  BY <1>2, <1>3
<1>4. CASE inbox' = Append(inbox, m)
  <2>1. inbox' \in Seq(Answers) /\ Len(inbox') = Len(inbox) + 1
    BY <1>2, <1>4
  <2>2. \A i \in DOMAIN inbox' :
          \/ i \in DOMAIN inbox /\ inbox'[i] = inbox[i]
          \/ inbox'[i] = m
    BY <1>2, <1>4
  <2> QED BY <1>2, <2>1, <2>2
<1> QED BY <1>1, <1>3, <1>4

\* A step that hands nothing to the client's socket leaves the queue.
LEMMA CarryNone ==
    ASSUME Carry, toPython' = {}
    PROVE  inbox' = inbox
  BY DEF Carry

\* Parking or taking a lookup out changes the number of parked ones by one.
LEMMA ParkedCount ==
    ASSUME ClientTypes, NEW q
    PROVE  /\ Cardinality(parked) \in Nat
           /\ IsFiniteSet(parked \union {q})
           /\ Cardinality(parked \union {q}) \in Nat
           /\ Cardinality(parked \union {q}) <= Cardinality(parked) + 1
           /\ IsFiniteSet(parked \ {q})
           /\ Cardinality(parked \ {q}) \in Nat
           /\ Cardinality(parked \ {q})
                = Cardinality(parked) - (IF q \in parked THEN 1 ELSE 0)
<1>1. IsFiniteSet(parked)
  BY DEF ClientTypes
<1>2. Cardinality(parked) \in Nat
  BY <1>1, FS_CardinalityType
<1>3. /\ IsFiniteSet(parked \union {q})
      /\ Cardinality(parked \union {q})
           = IF q \in parked THEN Cardinality(parked) ELSE Cardinality(parked) + 1
  BY <1>1, FS_AddElement
<1>4. /\ IsFiniteSet(parked \ {q})
      /\ Cardinality(parked \ {q})
           = IF q \in parked THEN Cardinality(parked) - 1 ELSE Cardinality(parked)
  BY <1>1, FS_RemoveElement
<1>5. Cardinality(parked \union {q}) \in Nat /\ Cardinality(parked \ {q}) \in Nat
  BY <1>3, <1>4, FS_CardinalityType
<1> QED BY <1>2, <1>3, <1>4, <1>5

\* The lookup the bridge reads is gone from its queue.
LEMMA TailOfAsks ==
    ASSUME ClientTypes, asks # <<>>, asks' = Tail(asks)
    PROVE  /\ Head(asks) \in Requests /\ Head(asks) \in {asks[i] : i \in DOMAIN asks}
           /\ asks' \in Seq(Requests) /\ Len(asks') \in Nat
           /\ Len(asks') = Len(asks) - 1 /\ Len(asks) \in Nat
           /\ {asks'[i] : i \in DOMAIN asks'} \subseteq {asks[i] : i \in DOMAIN asks}
<1>1. asks \in Seq(Requests) /\ Len(asks) \in Nat
  BY DEF ClientTypes
<1>2. Head(asks) = asks[1] /\ 1 \in DOMAIN asks
  BY <1>1
<1>3. asks' \in Seq(Requests) /\ Len(asks') = Len(asks) - 1 /\ Len(asks') \in Nat
  BY <1>1
<1>4. \A i \in DOMAIN asks' : asks'[i] = asks[i + 1] /\ i + 1 \in DOMAIN asks
  BY <1>1, <1>3
<1> QED BY <1>1, <1>2, <1>3, <1>4

\* The same of the answer the client reads.
LEMMA TailOfInbox ==
    ASSUME ClientTypes, inbox # <<>>, inbox' = Tail(inbox)
    PROVE  /\ Head(inbox).request \in {inbox[i].request : i \in DOMAIN inbox}
           /\ inbox' \in Seq(Answers) /\ Len(inbox') \in Nat
           /\ Len(inbox') = Len(inbox) - 1 /\ Len(inbox) \in Nat
<1>1. inbox \in Seq(Answers) /\ Len(inbox) \in Nat
  BY DEF ClientTypes
<1>2. Head(inbox) = inbox[1] /\ 1 \in DOMAIN inbox
  BY <1>1
<1>3. inbox' \in Seq(Answers) /\ Len(inbox') = Len(inbox) - 1 /\ Len(inbox') \in Nat
  BY <1>1
<1> QED BY <1>1, <1>2, <1>3

\* Nothing is under way when nothing is outstanding.
LEMMA NothingPending ==
    ASSUME ClientTypes, Outstanding <= 0
    PROVE  Pending = {}
<1>1. IsFiniteSet(parked) /\ Cardinality(parked) \in Nat
  BY FS_CardinalityType DEF ClientTypes
<1>2. /\ asks \in Seq(Requests) /\ Len(asks) \in Nat
      /\ inbox \in Seq(Answers) /\ Len(inbox) \in Nat
  BY DEF ClientTypes
<1>3. Len(asks) = 0 /\ Cardinality(parked) = 0 /\ Len(inbox) = 0
  BY <1>1, <1>2 DEF Outstanding
<1>4. parked = {}
  BY <1>1, <1>3, FS_EmptySet
<1>5. DOMAIN asks = {} /\ DOMAIN inbox = {}
  BY <1>2, <1>3
<1> QED BY <1>4, <1>5 DEF Pending

\* A step of the bridge that answers one parked lookup or none, and parks none,
\* leaves no more under way than there was.
LEMMA AnswerMoves ==
    ASSUME ClientTypes, UNCHANGED <<asks, client>>, Carry,
           \/ parked' \subseteq parked /\ toPython' = {}
           \/ \E q \in parked, m \in Answers :
                parked' = parked \ {q} /\ toPython' = {m} /\ m.request = q
    PROVE  ClientTypes' /\ Outstanding' <= Outstanding /\ Pending' \subseteq Pending
<1>0. /\ asks \in Seq(Requests) /\ Len(asks) \in Nat
      /\ inbox \in Seq(Answers) /\ Len(inbox) \in Nat
  BY DEF ClientTypes
<1>1. CASE parked' \subseteq parked /\ toPython' = {}
  <2>1. inbox' = inbox
    BY <1>1, CarryNone
  <2>2. /\ IsFiniteSet(parked') /\ Cardinality(parked') <= Cardinality(parked)
        /\ Cardinality(parked') \in Nat /\ Cardinality(parked) \in Nat
    BY <1>1, FS_Subset, FS_CardinalityType DEF ClientTypes
  <2>3. ClientTypes'
    BY <2>1, <2>2 DEF ClientTypes, client
  <2>4. Outstanding' <= Outstanding
    BY <1>0, <2>1, <2>2 DEF Outstanding
  <2>5. Pending' \subseteq Pending
    BY <1>1, <2>1 DEF Pending
  <2> QED BY <2>3, <2>4, <2>5
<1>2. ASSUME NEW q \in parked, NEW m \in Answers,
             parked' = parked \ {q}, toPython' = {m}, m.request = q
      PROVE  ClientTypes' /\ Outstanding' <= Outstanding /\ Pending' \subseteq Pending
  <2>1. /\ inbox' \in Seq(Answers)
        /\ Len(inbox') \in Nat /\ Len(inbox') <= Len(inbox) + 1
        /\ {inbox'[i].request : i \in DOMAIN inbox'}
             \subseteq {inbox[i].request : i \in DOMAIN inbox} \union {q}
    BY <1>2, CarryOne
  <2>2. /\ IsFiniteSet(parked') /\ Cardinality(parked') = Cardinality(parked) - 1
        /\ Cardinality(parked') \in Nat /\ Cardinality(parked) \in Nat
    BY <1>2, ParkedCount
  <2>3. ClientTypes'
    BY <2>1, <2>2 DEF ClientTypes, client
  <2>4. Outstanding' <= Outstanding
    BY <1>0, <2>1, <2>2 DEF Outstanding
  <2>5. Pending' \subseteq Pending
    BY <1>2, <2>1 DEF Pending
  <2> QED BY <2>3, <2>4, <2>5
<1> QED BY <1>1, <1>2

\* So does the step that reads a lookup: it drops it, parks it or answers it.
LEMMA LookupMoves ==
    ASSUME TypeOK', ClientTypes, BridgeTakesLookup
    PROVE  ClientTypes' /\ Outstanding' <= Outstanding /\ Pending' \subseteq Pending
<1> DEFINE q == Head(asks)
<1>0. /\ q \in Requests /\ q \in {asks[i] : i \in DOMAIN asks}
      /\ asks' \in Seq(Requests) /\ Len(asks') \in Nat
      /\ Len(asks') = Len(asks) - 1 /\ Len(asks) \in Nat
      /\ {asks'[i] : i \in DOMAIN asks'} \subseteq {asks[i] : i \in DOMAIN asks}
  BY TailOfAsks DEF BridgeTakesLookup
<1>1. /\ inbox \in Seq(Answers) /\ Len(inbox) \in Nat
      /\ IsFiniteSet(parked) /\ Cardinality(parked) \in Nat
  BY FS_CardinalityType DEF ClientTypes
<1>2. /\ IsFiniteSet(parked \union {q})
      /\ Cardinality(parked \union {q}) \in Nat
      /\ Cardinality(parked \union {q}) <= Cardinality(parked) + 1
      /\ IsFiniteSet(parked \ {q})
      /\ Cardinality(parked \ {q}) \in Nat
      /\ Cardinality(parked \ {q}) <= Cardinality(parked)
  <2>1. /\ IsFiniteSet(parked \union {q})
        /\ Cardinality(parked \union {q}) \in Nat
        /\ Cardinality(parked \union {q}) <= Cardinality(parked) + 1
        /\ IsFiniteSet(parked \ {q})
        /\ Cardinality(parked \ {q}) \in Nat
        /\ Cardinality(parked \ {q})
             = Cardinality(parked) - (IF q \in parked THEN 1 ELSE 0)
    <3> HIDE DEF q
    <3> QED BY ParkedCount
  <2> HIDE DEF q
  <2> QED BY <1>1, <2>1
<1>3. UNCHANGED client
  BY DEF BridgeTakesLookup
<1>4. \/ UNCHANGED <<vars, inbox>>
      \/ PythonLookupParked(q) /\ Carry
      \/ PythonLookupAnswered(q) /\ Carry
  BY DEF BridgeTakesLookup
<1> HIDE DEF q
<1>5. CASE UNCHANGED <<vars, inbox>>
  <2>1. UNCHANGED <<parked, inbox>>
    BY <1>5 DEF vars
  <2>2. ClientTypes'
    BY <1>0, <1>3, <2>1 DEF ClientTypes, client
  <2>3. Outstanding' <= Outstanding
    BY <1>0, <1>1, <2>1 DEF Outstanding
  <2>4. Pending' \subseteq Pending
    BY <1>0, <2>1 DEF Pending
  <2> QED BY <2>2, <2>3, <2>4
<1>6. CASE PythonLookupParked(q) /\ Carry
  <2>1. parked' = parked \union {q} /\ inbox' = inbox
    BY <1>6, CarryNone DEF PythonLookupParked
  <2>2. ClientTypes'
    BY <1>0, <1>2, <1>3, <2>1 DEF ClientTypes, client
  <2>3. Outstanding' <= Outstanding
    BY <1>0, <1>1, <1>2, <2>1 DEF Outstanding
  <2>4. Pending' \subseteq Pending
    BY <1>0, <2>1 DEF Pending
  <2> QED BY <2>2, <2>3, <2>4
<1>7. CASE PythonLookupAnswered(q) /\ Carry
  <2>1. parked' = parked \ {q} /\ toPython' = {Answer(q, cache[q.ref])}
    BY <1>7 DEF PythonLookupAnswered
  <2>2. Answer(q, cache[q.ref]) \in Answers
    BY <2>1 DEF TypeOK
  <2>3. /\ inbox' \in Seq(Answers)
        /\ Len(inbox') \in Nat /\ Len(inbox') <= Len(inbox) + 1
        /\ {inbox'[i].request : i \in DOMAIN inbox'}
             \subseteq {inbox[i].request : i \in DOMAIN inbox} \union {q}
    BY <1>7, <2>1, <2>2, CarryOne DEF Answer
  <2>4. ClientTypes'
    BY <1>0, <1>2, <1>3, <2>1, <2>3 DEF ClientTypes, client
  <2>5. Outstanding' <= Outstanding
    BY <1>0, <1>1, <1>2, <2>1, <2>3 DEF Outstanding
  <2>6. Pending' \subseteq Pending
    BY <1>0, <2>1, <2>3 DEF Pending
  <2> QED BY <2>4, <2>5, <2>6
<1> QED BY <1>4, <1>5, <1>6, <1>7

\* The steps of the bridge and of Unity.
BridgeSide ==
    \/ \E q \in Requests :
         \/ BridgeTakesResult(q)
         \/ BridgeTakesCommit(q)
         \/ UnityReplies(q)
         \/ \E s \in {TheSnapshot, Missing} : BridgeTakesReply(q, s)
    \/ BridgeSeesUnityReady
    \/ BridgePolls
    \/ BridgeTakesLookup

\* The bridge and Unity make no answer of their own, however often Unity is
\* asked and however often it replies.
LEMMA BridgeMakesNoAnswer ==
    ASSUME TypeOK', ClientTypes, BridgeSide \/ UNCHANGED allVars
    PROVE  /\ ClientTypes' /\ Outstanding' <= Outstanding /\ Pending' \subseteq Pending
           /\ UNCHANGED client
<1>0. Outstanding <= Outstanding
  <2>1. /\ Len(asks) \in Nat /\ Len(inbox) \in Nat /\ Cardinality(parked) \in Nat
    BY FS_CardinalityType DEF ClientTypes
  <2> QED BY <2>1 DEF Outstanding
<1>1. CASE UNCHANGED <<parked, asks, inbox, client>>
  BY <1>0, <1>1 DEF ClientTypes, Outstanding, Pending, client
<1>2. ASSUME NEW q \in Requests, BridgeTakesResult(q) \/ BridgeTakesCommit(q)
      PROVE  /\ ClientTypes' /\ Outstanding' <= Outstanding /\ Pending' \subseteq Pending
             /\ UNCHANGED client
  <2>1. UNCHANGED <<asks, client>> /\ Carry
    BY <1>2 DEF BridgeTakesResult, BridgeTakesCommit
  <2>2. parked' \subseteq parked /\ toPython' = {}
    BY <1>2 DEF BridgeTakesResult, BridgeTakesCommit, UnityResult, FinalizeExecution
  <2> QED BY <2>1, <2>2, AnswerMoves
<1>3. CASE BridgeSeesUnityReady \/ BridgePolls
  <2>1. UNCHANGED <<asks, client>> /\ Carry
    BY <1>3 DEF BridgeSeesUnityReady, BridgePolls
  <2>2. parked' \subseteq parked /\ toPython' = {}
    BY <1>3 DEF BridgeSeesUnityReady, BridgePolls, UnityReady, Poll
  <2> QED BY <2>1, <2>2, AnswerMoves
<1>4. ASSUME NEW q \in Requests, NEW s \in {TheSnapshot, Missing}, BridgeTakesReply(q, s)
      PROVE  /\ ClientTypes' /\ Outstanding' <= Outstanding /\ Pending' \subseteq Pending
             /\ UNCHANGED client
  <2>1. UNCHANGED <<asks, client>>
    BY <1>4 DEF BridgeTakesReply
  <2>2. CASE UNCHANGED <<vars, inbox>>
    BY <1>1, <2>1, <2>2 DEF vars
  <2>3. CASE Carry /\ (UnitySnapshotStored(q, s) \/ UnitySnapshotAfter(q, s))
    <3>1. parked' \subseteq parked /\ toPython' = {}
      BY <2>3 DEF UnitySnapshotStored, UnitySnapshotAfter
    <3> QED BY <2>1, <2>3, <3>1, AnswerMoves
  <2>4. CASE Carry /\ (UnitySnapshotRelayed(q, s) \/ (s = Missing /\ UnityMissing(q)))
    <3>1. q \in parked /\ parked' = parked \ {q} /\ toPython' = {Answer(q, s)}
      BY <2>4 DEF UnitySnapshotRelayed, UnityMissing
    <3>2. Answer(q, s) \in Answers /\ Answer(q, s).request = q
      BY <3>1 DEF TypeOK, Answer
    <3> QED BY <2>1, <2>4, <3>1, <3>2, AnswerMoves
  <2> QED BY <1>4, <2>2, <2>3, <2>4 DEF BridgeTakesReply
<1>5. ASSUME NEW q \in Requests, UnityReplies(q)
      PROVE  UNCHANGED <<parked, asks, inbox, client>>
  BY <1>5 DEF UnityReplies, vars
<1>6. CASE BridgeTakesLookup
  BY <1>6, LookupMoves DEF BridgeTakesLookup
<1>7. CASE UNCHANGED allVars
  BY <1>1, <1>7 DEF allVars, vars, links
<1> QED BY <1>1, <1>2, <1>3, <1>4, <1>5, <1>6, <1>7 DEF BridgeSide

\* The invariant of the retrieval path.  A bridge step leaves no more under way;
\* the client's steps keep the balance, and when it waits for nothing and has
\* given up nothing, the balance leaves nothing under way.
LEMMA RetrievalStep ==
    ASSUME TypeOK', RInv, [RetrievalNext]_allVars
    PROVE  RInv'
<1> USE DEF RInv
<1>0. /\ Cardinality(lookedUp) \in Nat /\ taken \in Nat /\ timeouts \in Nat
      /\ IsFiniteSet(parked) /\ Cardinality(parked) \in Nat
      /\ asks \in Seq(Requests) /\ Len(asks) \in Nat
      /\ inbox \in Seq(Answers) /\ Len(inbox) \in Nat
      /\ lookup \in Requests \union {None} /\ None \notin Requests
  BY FS_CardinalityType, SnapshotBrokerAssumption DEF ClientTypes
<1>1. Outstanding <= Cardinality(lookedUp) - taken /\ Outstanding \in Nat
  BY <1>0 DEF OneAnswerPerLookup, Outstanding
<1>2. CASE BridgeSide \/ UNCHANGED allVars
  <2>1. /\ ClientTypes' /\ Outstanding' <= Outstanding /\ Pending' \subseteq Pending
        /\ UNCHANGED client
    BY <1>2, BridgeMakesNoAnswer
  <2>2. Balanced' /\ OnlyMine' /\ RaisesOnlyAfterTimeout'
    BY <2>1 DEF Balanced, OnlyMine, RaisesOnlyAfterTimeout, client
  <2>3. /\ Len(asks') \in Nat /\ Len(inbox') \in Nat /\ Cardinality(parked') \in Nat
    BY <2>1, FS_CardinalityType DEF ClientTypes
  <2>4. Outstanding' \in Nat
    BY <2>3 DEF Outstanding
  <2>5. Outstanding' <= Cardinality(lookedUp') - taken'
    BY <1>0, <1>1, <2>1, <2>4 DEF client
  <2>6. OneAnswerPerLookup'
    BY <2>5 DEF OneAnswerPerLookup, Outstanding
  <2> QED BY <2>1, <2>2, <2>6
<1>3. ASSUME NEW q \in Requests, SendLookup(q) PROVE RInv'
  <2>1. /\ lookup = None /\ q \notin lookedUp /\ lookup' = q
        /\ lookedUp' = lookedUp \union {q} /\ asks' = Append(asks, q)
        /\ UNCHANGED <<parked, inbox, taken, timeouts, raised>>
    BY <1>3 DEF SendLookup, vars
  <2>2. /\ IsFiniteSet(lookedUp') /\ lookedUp' \subseteq Requests
        /\ Cardinality(lookedUp') = Cardinality(lookedUp) + 1
    BY <2>1, FS_AddElement DEF ClientTypes
  <2>3. /\ asks' \in Seq(Requests) /\ Len(asks') = Len(asks) + 1
        /\ \A i \in DOMAIN asks' : asks'[i] = q \/ (i \in DOMAIN asks /\ asks'[i] = asks[i])
    BY <1>0, <2>1
  <2>4. ClientTypes'
    BY <2>1, <2>2, <2>3 DEF ClientTypes
  <2>5. Balanced'
    BY <1>0, <2>1, <2>2 DEF Balanced
  <2>6. OneAnswerPerLookup'
    BY <1>0, <2>1, <2>2, <2>3 DEF OneAnswerPerLookup
  <2>7. ASSUME timeouts = 0 PROVE Pending = {}
    <3>1. Cardinality(lookedUp) = taken
      BY <1>0, <2>1, <2>7 DEF Balanced
    <3>2. Outstanding <= 0
      BY <1>0, <1>1, <3>1
    <3> QED BY <3>2, NothingPending
  <2>8. OnlyMine'
    <3>1. Pending' \subseteq Pending \union {q}
      BY <2>1, <2>3 DEF Pending
    <3> QED BY <2>1, <2>7, <3>1 DEF OnlyMine
  <2>9. RaisesOnlyAfterTimeout'
    BY <2>1 DEF RaisesOnlyAfterTimeout
  <2> QED BY <2>4, <2>5, <2>6, <2>8, <2>9
<1>4. CASE TakeAnswer
  <2>1. /\ lookup # None /\ lookup' = None /\ inbox # <<>> /\ inbox' = Tail(inbox)
        /\ taken' = taken + 1 /\ raised' = (raised \/ Head(inbox).request # lookup)
        /\ UNCHANGED <<asks, parked, lookedUp, timeouts>>
    BY <1>4 DEF TakeAnswer, vars
  <2>2. /\ Head(inbox).request \in {inbox[i].request : i \in DOMAIN inbox}
        /\ inbox' \in Seq(Answers) /\ Len(inbox') \in Nat
        /\ Len(inbox') = Len(inbox) - 1
    BY <2>1, TailOfInbox
  <2>3. taken' \in Nat
    BY <1>0, <2>1
  <2>4. ClientTypes'
    BY <2>1, <2>2, <2>3 DEF ClientTypes
  <2>5. Balanced'
    BY <1>0, <2>1 DEF Balanced
  <2>6. OneAnswerPerLookup'
    BY <1>0, <2>1, <2>2 DEF OneAnswerPerLookup
  <2>7. RaisesOnlyAfterTimeout'
    <3>1. Head(inbox).request \in Pending
      BY <2>2 DEF Pending
    <3>2. timeouts = 0 => Head(inbox).request = lookup
      BY <3>1 DEF OnlyMine
    <3>3. raised' => raised \/ timeouts # 0
      BY <2>1, <3>2, Zenon
    <3> QED BY <1>0, <2>1, <3>3 DEF RaisesOnlyAfterTimeout
  <2>8. ASSUME timeouts' = 0 PROVE Pending' = {}
    <3>1. Cardinality(lookedUp') = taken'
      BY <1>0, <2>1, <2>5, <2>8 DEF Balanced
    <3>2. Len(asks') + Cardinality(parked') + Len(inbox') <= 0
      BY <1>0, <2>1, <2>3, <2>6, <3>1 DEF OneAnswerPerLookup
    <3>3. Len(asks') = 0 /\ Cardinality(parked') = 0 /\ Len(inbox') = 0
      BY <1>0, <2>1, <2>2, <3>2
    <3>4. parked' = {}
      BY <1>0, <2>1, <3>3, FS_EmptySet
    <3>5. DOMAIN asks' = {} /\ DOMAIN inbox' = {}
      BY <2>4, <3>3 DEF ClientTypes
    <3> QED BY <3>4, <3>5 DEF Pending
  <2>9. OnlyMine'
    BY <2>8 DEF OnlyMine
  <2> QED BY <2>4, <2>5, <2>6, <2>7, <2>9
<1>5. CASE LookupTimesOut
  <2>1. /\ lookup # None /\ lookup' = None /\ timeouts' = timeouts + 1
        /\ UNCHANGED <<asks, parked, inbox, lookedUp, taken, raised>>
    BY <1>5 DEF LookupTimesOut, vars, links
  <2>2. timeouts' \in Nat /\ timeouts' > 0
    BY <1>0, <2>1
  <2>3. ClientTypes' /\ OneAnswerPerLookup'
    BY <2>1, <2>2 DEF ClientTypes, OneAnswerPerLookup
  <2>4. Balanced'
    BY <1>0, <2>1 DEF Balanced
  <2>5. OnlyMine' /\ RaisesOnlyAfterTimeout'
    BY <1>0, <2>2 DEF OnlyMine, RaisesOnlyAfterTimeout
  <2> QED BY <2>3, <2>4, <2>5
<1> QED BY <1>2, <1>3, <1>4, <1>5 DEF RetrievalNext, BridgeSide

\* RInv holds of the retrieval path: whatever Unity answers and repeats, and
\* whatever the sockets lose, the answers balance with the lookups.
THEOREM RetrievalInvariant == RetrievalSpec => []RInv
<1>1. RetrievalInit => RInv
  <2> SUFFICES ASSUME RetrievalInit PROVE RInv
    OBVIOUS
  <2>1. /\ asks = <<>> /\ inbox = <<>> /\ parked = {} /\ lookedUp = {}
        /\ lookup = None /\ taken = 0 /\ timeouts = 0 /\ raised = FALSE
    BY DEF RetrievalInit, Init
  <2>2. IsFiniteSet({}) /\ Cardinality({}) = 0
    BY FS_EmptySet
  <2>3. ClientTypes /\ Balanced /\ OneAnswerPerLookup /\ RaisesOnlyAfterTimeout
    BY <2>1, <2>2 DEF ClientTypes, Balanced, OneAnswerPerLookup, RaisesOnlyAfterTimeout
  <2>4. OnlyMine
    BY <2>1 DEF OnlyMine, Pending
  <2> QED BY <2>3, <2>4 DEF RInv
<1>2. TypeOK' /\ RInv /\ [RetrievalNext]_allVars => RInv'
  BY RetrievalStep
<1> QED BY <1>1, <1>2, BridgeImplementsBroker, TypeCorrect, PTL DEF RetrievalSpec

\* Each lookup is answered at most once: what is under way, parked or waiting to
\* be read never exceeds the lookups that still want an answer.
THEOREM AnswersAreBounded == RetrievalSpec => []OneAnswerPerLookup
<1>1. RInv => OneAnswerPerLookup
  BY DEF RInv
<1> QED BY <1>1, RetrievalInvariant, PTL

\* The client raises for another lookup's answer only when it has given one up.
THEOREM RaisingNeedsATimeout == RetrievalSpec => []RaisesOnlyAfterTimeout
<1>1. RInv => RaisesOnlyAfterTimeout
  BY DEF RInv
<1> QED BY <1>1, RetrievalInvariant, PTL
=============================================================================
