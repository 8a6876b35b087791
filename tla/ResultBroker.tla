---------------------------- MODULE ResultBroker ----------------------------
(***************************************************************************)
(* The result half of the bridge: PrimitiveExecutionResultBroker over      *)
(* InMemoryResultStore, as ResultGateway drives it, with the peer          *)
(* registration of ZmqPythonResultRelay.  Unity sends the terminal result  *)
(* of an execution; the broker stores it once, answers DURABLE_RECEIVED,   *)
(* and relays it to Python while the peer is READY and has not confirmed   *)
(* it.  Python's commit replaces the entry by a tombstone.                 *)
(*                                                                         *)
(* A result is abstracted to its identity, the result_payload_hash with    *)
(* the command_sequence_hash.  A key is the execution_id: the store's map  *)
(* orders the keys of a runtime by it.  The committed flag of an entry is  *)
(* set and erased with it in one handler, so no step sees it.              *)
(***************************************************************************)
EXTENDS TombstoneFifo

CONSTANTS
    Keys,                 \* execution ids
    Results,              \* result identities
    None,                 \* no entry
    TombstoneCapacity,    \* kTerminalTombstoneCapacity
    StaleRetryThreshold   \* stale_retry_threshold_, at least 1 (Configure)

ASSUME ResultBrokerAssumption ==
    /\ Keys \subseteq Nat
    /\ None \notin Results
    /\ TombstoneCapacity \in Nat \ {0}
    /\ StaleRetryThreshold \in Nat \ {0}

VARIABLES
    values,         \* values_: the active result of each key
    pythonReceipt,  \* keys whose active entry has python_receipt_received
    terminal,       \* terminal_
    terminalOrder,  \* terminal_order_
    ready,          \* peer_.state = READY
    connected,      \* python_connected_
    attempts,       \* unacknowledged_attempts_, 0 where the map has no entry
    toUnity,        \* durable acknowledgements in flight to Unity
    toPython        \* results and commit acknowledgements in flight to Python

store == <<values, pythonReceipt, terminal, terminalOrder>>
peer == <<ready, connected, attempts>>
vars == <<values, pythonReceipt, terminal, terminalOrder,
          ready, connected, attempts, toUnity, toPython>>

CommitStatus == {"COMMITTED", "DUPLICATE", "PROTOCOL_ERROR"}
DurableAcks == [key : Keys, result : Results]
ResultMessages == [type : {"Result"}, key : Keys, result : Results]
CommitAcks == [type : {"CommitAck"}, key : Keys, result : Results,
               status : CommitStatus]

DurableAck(k, r) == [key |-> k, result |-> r]
Result(k, r) == [type |-> "Result", key |-> k, result |-> r]
CommitAck(k, r, s) ==
    [type |-> "CommitAck", key |-> k, result |-> r, status |-> s]

Active(k) == values[k] # None
ActiveKeys == {k \in Keys : Active(k)}
TombstonedKeys == {k \in Keys : terminal[k] # None}
ReceiptPendingKeys == {k \in ActiveKeys : k \notin pythonReceipt}

\* The identity a key is known by.
KnownResultActiveOnly(k) == values[k]
KnownResult(k) == IF Active(k) THEN values[k] ELSE terminal[k]

Init ==
    /\ values = [k \in Keys |-> None]
    /\ pythonReceipt = {}
    /\ terminal = [k \in Keys |-> None]
    /\ terminalOrder = <<>>
    /\ ready = FALSE
    /\ connected = FALSE
    /\ attempts = [k \in Keys |-> 0]
    /\ toUnity = {}
    /\ toPython = {}
-----------------------------------------------------------------------------
SendDurableAck(k, r) ==
    toUnity' \in {toUnity, toUnity \union {DurableAck(k, r)}}

SendCommitAck(k, r, status) ==
    toPython' \in {toPython, toPython \union {CommitAck(k, r, status)}}

RelayNeverGoesStale(ks, counts, isReady) ==
    \E sent \in SUBSET ks :
        /\ isReady \/ sent = {}
        /\ attempts' = [k \in Keys |->
                          IF k \in sent THEN counts[k] + 1 ELSE counts[k]]
        /\ ready' = isReady
        /\ toPython' = toPython \union {Result(k, values'[k]) : k \in sent}

RelayCountsFailedSends(ks, counts, isReady) ==
    \E sent \in SUBSET ks :
        /\ isReady \/ sent = {}
        /\ \A j, k \in sent : counts[k] >= StaleRetryThreshold => j <= k
        /\ attempts' = [k \in Keys |->
                          IF isReady /\ k \in ks /\ counts[k] <= StaleRetryThreshold
                          THEN counts[k] + 1 ELSE counts[k]]
        /\ ready' = (isReady /\ \A k \in ks : counts[k] < StaleRetryThreshold)
        /\ toPython' = toPython \union {Result(k, values'[k]) : k \in sent}

\* Relay for the keys ks in map order, the counts being those of
\* unacknowledged_attempts_ and isReady the peer's state when the loop starts.
\* A send may fail and leaves no trace.  The send that takes a count over the
\* threshold marks the peer STALE, and no relay goes out after it.
Relay(ks, counts, isReady) ==
    \E sent \in SUBSET ks :
        /\ isReady \/ sent = {}
        /\ \A j, k \in sent : counts[k] >= StaleRetryThreshold => j <= k
        /\ attempts' = [k \in Keys |->
                          IF k \in sent THEN counts[k] + 1 ELSE counts[k]]
        /\ ready' = (isReady /\ \A k \in sent : counts[k] < StaleRetryThreshold)
        /\ toPython' = toPython \union {Result(k, values'[k]) : k \in sent}
-----------------------------------------------------------------------------
\* Receive of a well-formed result of Unity.  A malformed one and one that
\* conflicts with the known identity only count an error.

ReceiveNew(k, r) ==
    /\ KnownResult(k) = None
    /\ values' = [values EXCEPT ![k] = r]
    /\ SendDurableAck(k, r)
    /\ Relay({k}, attempts, ready)
    /\ UNCHANGED <<pythonReceipt, terminal, terminalOrder, connected>>

ReceiveDuplicate(k, r) ==
    /\ KnownResult(k) = r
    /\ SendDurableAck(k, r)
    /\ UNCHANGED <<store, peer, toPython>>

\* PollPythonTransportMonitor on ZMQ_EVENT_DISCONNECTED.
Disconnected ==
    /\ ready' = FALSE
    /\ connected' = FALSE
    /\ UNCHANGED <<store, attempts, toUnity, toPython>>

PythonReadyLeavesFlag ==
    /\ UNCHANGED <<store, connected, toUnity>>
    /\ Relay(ReceiptPendingKeys, [k \in Keys |-> 0], TRUE)

\* A READY message: RegisterReady, then a relay of everything unconfirmed.
PythonReady ==
    /\ UNCHANGED <<store, toUnity>>
    /\ Relay(ReceiptPendingKeys, [k \in Keys |-> 0], TRUE)
    /\ connected' = ready'

\* RetryPendingPythonResultsIfDue, when it is due.
RetryPendingPythonResults ==
    /\ connected
    /\ UNCHANGED <<store, toUnity>>
    /\ Relay(ReceiptPendingKeys, attempts, ready)
    /\ connected' = ready'

ReceiptKeepsAttempts(k, r) ==
    /\ KnownResult(k) = r
    /\ pythonReceipt' = IF Active(k) THEN pythonReceipt \union {k} ELSE pythonReceipt
    /\ UNCHANGED <<values, terminal, terminalOrder, ready, connected, attempts,
                   toUnity, toPython>>

\* AcknowledgePythonReceipt with the outcome RECEIVED or DUPLICATE; a receipt
\* of an unknown key or of another identity only counts an error.
AcknowledgePythonReceipt(k, r) ==
    /\ KnownResult(k) = r
    /\ pythonReceipt' = IF Active(k) THEN pythonReceipt \union {k} ELSE pythonReceipt
    /\ attempts' = [attempts EXCEPT ![k] = 0]
    /\ UNCHANGED <<values, terminal, terminalOrder, ready, connected,
                   toUnity, toPython>>

CommitLeavesReceipt(k, r) ==
    /\ values[k] = r
    /\ values' = [values EXCEPT ![k] = None]
    /\ terminal' = [x \in Keys |->
                      IF x = k THEN r
                      ELSE IF x \in Evicted(terminalOrder, k, TombstoneCapacity)
                           THEN None ELSE terminal[x]]
    /\ terminalOrder' = Pushed(terminalOrder, k, TombstoneCapacity)
    /\ attempts' = [attempts EXCEPT ![k] = 0]
    /\ SendCommitAck(k, r, "COMMITTED")
    /\ UNCHANGED <<pythonReceipt, ready, connected, toUnity>>

\* CommitPython, one action per outcome.  The entry becomes a tombstone and
\* the relay forgets its attempts.
Commit(k, r) ==
    /\ values[k] = r
    /\ values' = [values EXCEPT ![k] = None]
    /\ pythonReceipt' = pythonReceipt \ {k}
    /\ terminal' = [x \in Keys |->
                      IF x = k THEN r
                      ELSE IF x \in Evicted(terminalOrder, k, TombstoneCapacity)
                           THEN None ELSE terminal[x]]
    /\ terminalOrder' = Pushed(terminalOrder, k, TombstoneCapacity)
    /\ attempts' = [attempts EXCEPT ![k] = 0]
    /\ SendCommitAck(k, r, "COMMITTED")
    /\ UNCHANGED <<ready, connected, toUnity>>

CommitDuplicate(k, r) ==
    /\ ~Active(k) /\ terminal[k] = r
    /\ SendCommitAck(k, r, "DUPLICATE")
    /\ UNCHANGED <<store, peer, toUnity>>

CommitAcceptedByKey(k, r) ==
    /\ KnownResult(k) # r
    /\ SendCommitAck(k, r, IF Active(k) THEN "COMMITTED" ELSE "PROTOCOL_ERROR")
    /\ UNCHANGED <<store, peer, toUnity>>

\* PROTOCOL_ERROR and NOT_FOUND are the same answer on the wire.
CommitRefused(k, r) ==
    /\ KnownResult(k) # r
    /\ SendCommitAck(k, r, "PROTOCOL_ERROR")
    /\ UNCHANGED <<store, peer, toUnity>>

\* The links take a message, to deliver it or to lose it.
LinkTakesAck(m) ==
    /\ m \in toUnity
    /\ toUnity' = toUnity \ {m}
    /\ UNCHANGED <<store, peer, toPython>>

LinkTakesMessage(m) ==
    /\ m \in toPython
    /\ toPython' = toPython \ {m}
    /\ UNCHANGED <<store, peer, toUnity>>

Next ==
    \/ \E k \in Keys, r \in Results :
         \/ ReceiveNew(k, r)
         \/ ReceiveDuplicate(k, r)
         \/ AcknowledgePythonReceipt(k, r)
         \/ Commit(k, r)
         \/ CommitDuplicate(k, r)
         \/ CommitRefused(k, r)
    \/ Disconnected
    \/ PythonReady
    \/ RetryPendingPythonResults
    \/ \E m \in toUnity : LinkTakesAck(m)
    \/ \E m \in toPython : LinkTakesMessage(m)

Spec == Init /\ [][Next]_vars
-----------------------------------------------------------------------------
\* Types; in particular the attempts of a result never pass the one send that
\* exhausts the threshold.
TypeOK ==
    /\ values \in [Keys -> Results \union {None}]
    /\ pythonReceipt \subseteq Keys
    /\ terminal \in [Keys -> Results \union {None}]
    /\ terminalOrder \in Seq(Keys)
    /\ ready \in BOOLEAN
    /\ connected \in BOOLEAN
    /\ attempts \in [Keys -> 0..(StaleRetryThreshold + 1)]
    /\ toUnity \subseteq DurableAcks
    /\ toPython \subseteq ResultMessages \union CommitAcks

\* A key is active or committed, never both, a receipt belongs to an active
\* entry, and the deque lists exactly the tombstones within its capacity.
StoreConsistent ==
    /\ pythonReceipt \subseteq ActiveKeys
    /\ ActiveKeys \intersect TombstonedKeys = {}
    /\ Lists(terminalOrder, TombstonedKeys, TombstoneCapacity)

\* The relay counts attempts only of results that are active and unconfirmed,
\* so the counters do not outlive their results; a READY peer has no result
\* over the threshold; and the gateway's flag agrees with the peer's state.
RelayBudget ==
    /\ \A k \in Keys : attempts[k] > 0 => k \in ReceiptPendingKeys
    /\ ready => \A k \in Keys : attempts[k] <= StaleRetryThreshold
    /\ connected = ready

\* Unity is told DURABLE_RECEIVED only of a result the bridge holds, active or
\* as a tombstone, under that very identity.
DurableAckStep == \A m \in toUnity' \ toUnity : KnownResult(m.key)' = m.result
DurableAckIsTrue == [][DurableAckStep]_vars

\* A result is relayed only while it is active and unconfirmed, and never to a
\* peer that is STALE when the step begins, unless the step registers it.
RelayStep ==
    \A m \in toPython' \ toPython :
        m.type = "Result" =>
            /\ values'[m.key] = m.result
            /\ m.key \notin pythonReceipt'
            /\ ready \/ ready'
RelayedOnlyWhileUnconfirmed == [][RelayStep]_vars

\* COMMITTED is the answer of the one step that retires the result, DUPLICATE
\* is given of a result already retired under that identity, and every other
\* commit is refused.
CommitStep ==
    \A m \in toPython' \ toPython :
        m.type = "CommitAck" =>
            CASE m.status = "COMMITTED" ->
                    values[m.key] = m.result /\ terminal'[m.key] = m.result
              [] m.status = "DUPLICATE" ->
                    values[m.key] = None /\ terminal[m.key] = m.result
              [] OTHER -> KnownResult(m.key) # m.result
CommitAnswersAreTrue == [][CommitStep]_vars

\* All three: whatever Unity or Python is sent, the store bears it out.
SendsAreTrue == [][DurableAckStep /\ RelayStep /\ CommitStep]_vars

\* A result identity is learnt once, carried over to the tombstone by the
\* commit, and forgotten only when the oldest tombstone is evicted.
IdentityStep ==
    \A k \in Keys :
        \/ values'[k] = values[k] /\ terminal'[k] = terminal[k]
        \/ /\ values[k] = None /\ terminal[k] = None
           /\ values'[k] # None
        \/ values[k] # None /\ values'[k] = None /\ terminal'[k] = values[k]
        \/ /\ values[k] = None /\ values'[k] = None /\ terminal'[k] = None
           /\ Len(terminalOrder) = TombstoneCapacity /\ k = Head(terminalOrder)
IdentityKept == [][IdentityStep]_vars
=============================================================================
