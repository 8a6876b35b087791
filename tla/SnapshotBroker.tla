--------------------------- MODULE SnapshotBroker ---------------------------
(***************************************************************************)
(* The snapshot half of the bridge: ObservationRetrievalBroker over        *)
(* InMemorySnapshotCache, as SnapshotGateway drives it.  The broker asks   *)
(* Unity for the observation a result or a reset names, keeps the one      *)
(* immutable snapshot it gets, and serves it to Python.  A Python lookup   *)
(* that comes before the snapshot is parked and answered when it arrives.  *)
(* An execution's commit, or the delivery of a reset's snapshot, drops the *)
(* payload and leaves a tombstone in the deque both kinds share.           *)
(*                                                                         *)
(* A request is its key with its observation reference: the key of an      *)
(* execution's request is the execution, that of a reset's request is the  *)
(* reference itself (KeyFor).  Two requests of one execution that differ   *)
(* stand for any difference of their canonical bytes.  toUnity and         *)
(* toPython hold what the last step handed to the sockets; a socket may    *)
(* refuse a message.  Nothing calls OnUnityDisconnected, so connected_ is  *)
(* always true and a request fails only while no Unity is registered.      *)
(***************************************************************************)
EXTENDS TombstoneFifo

CONSTANTS
    Executions,         \* keys of primitive executions
    Refs,               \* observation references
    Requests,           \* snapshot requests, of executions and resets
    Snapshots,          \* snapshot contents
    None,               \* no entry
    Missing,            \* what BridgeSnapshotMissing answers
    TombstoneCapacity   \* kTerminalTombstoneCapacity

ASSUME SnapshotBrokerAssumption ==
    /\ Executions \intersect Refs = {}
    /\ Requests \subseteq [key : Executions \union Refs, ref : Refs]
    /\ \A q \in Requests : q.key \in Refs => q.key = q.ref
    /\ None \notin Requests
    /\ None \notin [request : Requests, snapshot : Snapshots \union {None}]
    /\ None \notin Snapshots /\ Missing \notin Snapshots
    /\ TombstoneCapacity \in Nat \ {0}

VARIABLES
    requests,       \* pending_: the active request of each key
    awaiting,       \* keys whose entry has pending set: Unity is to be asked
    cache,          \* the snapshot stored for each reference
    terminal,       \* terminal_
    terminalOrder,  \* terminal_order_
    parked,         \* pending_python_snapshot_deliveries_
    registered,     \* a Unity peer has announced READY
    toUnity,        \* sent to Unity by the last step
    toPython        \* sent to Python by the last step

store == <<requests, awaiting, cache, terminal, terminalOrder>>
vars == <<requests, awaiting, cache, terminal, terminalOrder, parked,
          registered, toUnity, toPython>>

Keys == Executions \union Refs
Tombstones == [request : Requests, snapshot : Snapshots \union {None}]
Asks == [type : {"SnapshotRequest"}, request : Requests]
Acks == [type : {"SnapshotAck"}, ref : Refs, snapshot : Snapshots]
Answers == [request : Requests, snapshot : Snapshots \union {Missing}]

Tombstone(q, s) == [request |-> q, snapshot |-> s]
Ask(q) == [type |-> "SnapshotRequest", request |-> q]
Ack(r, s) == [type |-> "SnapshotAck", ref |-> r, snapshot |-> s]
Answer(q, s) == [request |-> q, snapshot |-> s]

IsReset(q) == q.key \in Refs        \* IsReservedResetRequest
Active(k) == requests[k] # None
ActiveKeys == {k \in Keys : Active(k)}
TombstonedKeys == {k \in Keys : terminal[k] # None}
Unknown(q) == requests[q.key] = None /\ terminal[q.key] = None

Init ==
    /\ requests = [k \in Keys |-> None]
    /\ awaiting = {}
    /\ cache = [r \in Refs |-> None]
    /\ terminal = [k \in Keys |-> None]
    /\ terminalOrder = <<>>
    /\ parked = {}
    /\ registered = FALSE
    /\ toUnity = {}
    /\ toPython = {}
-----------------------------------------------------------------------------
\* Of the messages ms, those Unity's socket takes.
SendUnity(ms) == toUnity' \in {sent \in SUBSET ms : registered \/ sent = {}}

\* An unknown request becomes active and goes to Unity; an active one stays.
OpenForgetsToAwait(q) ==
    /\ requests' = [requests EXCEPT ![q.key] = q]
    /\ awaiting' = awaiting

Open(q) ==
    /\ requests' = [requests EXCEPT ![q.key] = q]
    /\ awaiting' = IF Unknown(q) THEN awaiting \union {q.key} ELSE awaiting

SendIfNew(q) == SendUnity(IF Unknown(q) THEN {Ask(q)} ELSE {})

RetireKeepsOldest(q, held) ==
    /\ requests' = [requests EXCEPT ![q.key] = None]
    /\ awaiting' = awaiting \ {q.key}
    /\ cache' = [cache EXCEPT ![q.ref] = None]
    /\ terminal' = [terminal EXCEPT ![q.key] = Tombstone(q, held)]
    /\ terminalOrder' = Pushed(terminalOrder, q.key, TombstoneCapacity)

\* FinalizeRequest of an active request, held being the snapshot of its
\* reference in the cache, or None.
Retire(q, held) ==
    /\ requests' = [requests EXCEPT ![q.key] = None]
    /\ awaiting' = awaiting \ {q.key}
    /\ cache' = [cache EXCEPT ![q.ref] = None]
    /\ terminal' = [k \in Keys |->
                      IF k = q.key THEN Tombstone(q, held)
                      ELSE IF k \in Evicted(terminalOrder, q.key, TombstoneCapacity)
                           THEN None ELSE terminal[k]]
    /\ terminalOrder' = Pushed(terminalOrder, q.key, TombstoneCapacity)
-----------------------------------------------------------------------------
\* ReceiveResult for a result with an endpoint reference that opens a request.
\* A duplicate changes nothing; a conflicting one only counts an error.
UnityResult(q) ==
    /\ ~IsReset(q) /\ Unknown(q)
    /\ Open(q)
    /\ SendIfNew(q)
    /\ toPython' = {}
    /\ UNCHANGED <<cache, terminal, terminalOrder, parked, registered>>

\* A Python lookup, in PollPythonSnapshotRequests.  It is parked; if the
\* snapshot is cached it is answered at once, unless the socket refuses the
\* answer.  A reset is retired with its answer.  A conflicting request and one
\* whose key is retired are dropped without an answer.
PythonLookupParked(q) ==
    /\ Unknown(q) \/ requests[q.key] = q
    /\ Open(q)
    /\ SendIfNew(q)
    /\ parked' = parked \union {q}
    /\ toPython' = {}
    /\ UNCHANGED <<cache, terminal, terminalOrder, registered>>

LookupAnsweredStaysParked(q) ==
    /\ Unknown(q) \/ requests[q.key] = q
    /\ cache[q.ref] # None
    /\ SendIfNew(q)
    /\ parked' = parked \union {q}
    /\ toPython' = {Answer(q, cache[q.ref])}
    /\ Open(q)
    /\ UNCHANGED <<cache, terminal, terminalOrder, registered>>

PythonLookupAnswered(q) ==
    /\ Unknown(q) \/ requests[q.key] = q
    /\ cache[q.ref] # None
    /\ SendIfNew(q)
    /\ parked' = parked \ {q}
    /\ toPython' = {Answer(q, cache[q.ref])}
    /\ IF IsReset(q) THEN Retire(q, cache[q.ref])
       ELSE Open(q) /\ UNCHANGED <<cache, terminal, terminalOrder>>
    /\ UNCHANGED registered

\* ReceiveSnapshot with the outcome STORED or DUPLICATE for an active request:
\* nothing is parked for it, or the socket refuses the answer.  A snapshot of
\* another request or reference, or of other contents than the cached one, or
\* from a peer that is not registered, only counts an error.
UnitySnapshotOverwrites(q, s) ==
    /\ registered /\ requests[q.key] = q
    /\ cache' = [cache EXCEPT ![q.ref] = s]
    /\ awaiting' = awaiting \ {q.key}
    /\ SendUnity({Ack(q.ref, s)})
    /\ toPython' = {}
    /\ UNCHANGED <<requests, terminal, terminalOrder, parked, registered>>

UnitySnapshotStored(q, s) ==
    /\ registered /\ requests[q.key] = q /\ cache[q.ref] \in {None, s}
    /\ cache' = [cache EXCEPT ![q.ref] = s]
    /\ awaiting' = awaiting \ {q.key}
    /\ SendUnity({Ack(q.ref, s)})
    /\ toPython' = {}
    /\ UNCHANGED <<requests, terminal, terminalOrder, parked, registered>>

SnapshotRelayedStaysParked(q, s) ==
    /\ registered /\ requests[q.key] = q /\ cache[q.ref] \in {None, s}
    /\ q \in parked
    /\ cache' = [cache EXCEPT ![q.ref] = s]
    /\ awaiting' = awaiting \ {q.key}
    /\ SendUnity({Ack(q.ref, s)})
    /\ toPython' = {Answer(q, s)}
    /\ UNCHANGED <<requests, terminal, terminalOrder, parked, registered>>

\* The same with RelayPendingPythonSnapshot: the parked lookup is answered.
UnitySnapshotRelayed(q, s) ==
    /\ registered /\ requests[q.key] = q /\ cache[q.ref] \in {None, s}
    /\ q \in parked
    /\ parked' = parked \ {q}
    /\ SendUnity({Ack(q.ref, s)})
    /\ toPython' = {Answer(q, s)}
    /\ IF IsReset(q) THEN Retire(q, s)
       ELSE /\ cache' = [cache EXCEPT ![q.ref] = s]
            /\ awaiting' = awaiting \ {q.key}
            /\ UNCHANGED <<requests, terminal, terminalOrder>>
    /\ UNCHANGED registered

UnitySnapshotAfterAny(q, s) ==
    /\ registered /\ ~Active(q.key)
    /\ terminal[q.key] # None
    /\ SendUnity({Ack(q.ref, s)})
    /\ toPython' = {}
    /\ UNCHANGED <<store, parked, registered>>

\* ReceiveSnapshot after the request is retired: the same snapshot is
\* acknowledged again, another one counts an error.
UnitySnapshotAfter(q, s) ==
    /\ registered /\ ~Active(q.key)
    /\ terminal[q.key] = Tombstone(q, s)
    /\ SendUnity({Ack(q.ref, s)})
    /\ toPython' = {}
    /\ UNCHANGED <<store, parked, registered>>

MissingAnswersFromCache(q) ==
    /\ registered /\ requests[q.key] \in {None, q}
    /\ q \in parked
    /\ parked' = parked \ {q}
    /\ toPython' = {Answer(q, cache[q.ref])}
    /\ toUnity' = {}
    /\ UNCHANGED <<store, registered>>

\* A MISSING report relayed to the parked lookup.  The request stays active,
\* but a reset is retired; a report nobody waits for changes nothing.
UnityMissing(q) ==
    /\ registered /\ requests[q.key] \in {None, q}
    /\ q \in parked
    /\ parked' = parked \ {q}
    /\ toPython' = {Answer(q, Missing)}
    /\ toUnity' = {}
    /\ IF IsReset(q) /\ Active(q.key) THEN Retire(q, cache[q.ref])
       ELSE UNCHANGED store
    /\ UNCHANGED registered

\* A READY of Unity: RegisterReady and OnUnityReconnected, which asks again for
\* everything outstanding.
UnityReady ==
    /\ registered' = TRUE
    /\ toUnity' \in SUBSET {Ask(requests[k]) : k \in awaiting}
    /\ toPython' = {}
    /\ UNCHANGED <<store, parked>>

\* Poll: the outstanding requests that are due go out again.
Poll ==
    /\ SendUnity({Ask(requests[k]) : k \in awaiting})
    /\ toPython' = {}
    /\ UNCHANGED <<store, parked, registered>>

FinalizeLeavesParked(q) ==
    /\ ~IsReset(q) /\ requests[q.key] = q
    /\ Retire(q, cache[q.ref])
    /\ toUnity' = {} /\ toPython' = {}
    /\ UNCHANGED <<parked, registered>>

\* FinalizeExecution, when Python's commit of the result is accepted.  For a
\* retired request it changes nothing.
FinalizeExecution(q) ==
    /\ ~IsReset(q) /\ requests[q.key] = q
    /\ Retire(q, cache[q.ref])
    /\ parked' = parked \ {q}
    /\ toUnity' = {} /\ toPython' = {}
    /\ UNCHANGED registered

Next ==
    \/ \E q \in Requests :
         \/ UnityResult(q)
         \/ PythonLookupParked(q)
         \/ PythonLookupAnswered(q)
         \/ UnityMissing(q)
         \/ FinalizeExecution(q)
         \/ \E s \in Snapshots :
              \/ UnitySnapshotStored(q, s)
              \/ UnitySnapshotRelayed(q, s)
              \/ UnitySnapshotAfter(q, s)
    \/ UnityReady
    \/ Poll

Spec == Init /\ [][Next]_vars
-----------------------------------------------------------------------------
TypeOK ==
    /\ requests \in [Keys -> Requests \union {None}]
    /\ awaiting \subseteq Keys
    /\ cache \in [Refs -> Snapshots \union {None}]
    /\ terminal \in [Keys -> Tombstones \union {None}]
    /\ terminalOrder \in Seq(Keys)
    /\ parked \subseteq Requests
    /\ registered \in BOOLEAN
    /\ toUnity \subseteq Asks \union Acks
    /\ toPython \subseteq Answers

\* A key is active or retired, never both; every entry is filed under the key
\* of its request; only active requests are outstanding at Unity; and the deque
\* lists exactly the tombstones within its capacity.
StoreConsistent ==
    /\ \A k \in ActiveKeys : requests[k].key = k
    /\ \A k \in TombstonedKeys : terminal[k].request.key = k
    /\ awaiting \subseteq ActiveKeys
    /\ ActiveKeys \intersect TombstonedKeys = {}
    /\ Lists(terminalOrder, TombstonedKeys, TombstoneCapacity)

\* The lifecycle document's invariant: a stored payload belongs to an active
\* request, one for which Unity is no longer asked, and so the cache never
\* outgrows the requests that wait for their commit or delivery.
PayloadsAreOwned ==
    \A r \in Refs :
        cache[r] # None =>
            \E k \in ActiveKeys \ awaiting : requests[k].ref = r

\* A parked lookup is that of an active request, so it can still be answered,
\* and none outlives its request.
ParkedIsActive == \A q \in parked : requests[q.key] = q

\* Both: nothing the bridge keeps for a request outlives the request.
NothingOutlivesRequests == PayloadsAreOwned /\ ParkedIsActive

\* Each reference is asked for under one key only: an execution's endpoint is
\* not also the observation of a reset or of another execution.
OneKeyPerRef == \A p, q \in Requests : p.ref = q.ref => p.key = q.key

\* Unity is asked no more only for a snapshot the bridge has: an active request
\* is outstanding or its snapshot is there for the lookup that comes.
ServedOrOutstanding ==
    \A k \in ActiveKeys : k \in awaiting \/ cache[requests[k].ref] # None

\* The step leaves a tombstone that says contents s were held for reference r.
RetiredAs(k, r, s) ==
    /\ terminal'[k] # None
    /\ terminal'[k].request.ref = r /\ terminal'[k].snapshot = s

\* A stored snapshot is never replaced; it goes with the retirement of a
\* request for it, whose tombstone keeps its identity.
SnapshotStep ==
    \A r \in Refs :
        \/ cache[r] = None
        \/ cache'[r] = cache[r]
        \/ /\ cache'[r] = None
           /\ \E k \in Keys : requests'[k] = None /\ RetiredAs(k, r, cache[r])
SnapshotImmutable == [][SnapshotStep]_vars

\* The bridge holds contents s of reference r after the step, in the cache or,
\* once the payload is dropped, as a tombstone.
HeldAfter(r, s) == cache'[r] = s \/ \E k \in Keys : RetiredAs(k, r, s)

\* Unity is told SNAPSHOT_ACK, after which it may free its copy, and Python is
\* given a snapshot, only of contents the bridge holds under that reference.
SentStep ==
    /\ \A m \in toUnity' : m.type = "SnapshotAck" => HeldAfter(m.ref, m.snapshot)
    /\ \A m \in toPython' :
         m.snapshot # Missing => HeldAfter(m.request.ref, m.snapshot)
SentIsHeld == [][SentStep]_vars
=============================================================================
