--------------------------- MODULE CommandBroker ---------------------------
(***************************************************************************)
(* The command half of the bridge: PrimitiveExecutionCommandBroker over    *)
(* InMemoryCommandStore, as CommandGateway drives it.  Python sends a      *)
(* command for an execution key; the broker stores it, forwards it to      *)
(* Unity until Unity acknowledges it, and tells Python RECEIVED once Unity *)
(* has.  When the execution's result is committed the entry is replaced by *)
(* a tombstone, of which only TombstoneCapacity are kept.                  *)
(*                                                                         *)
(* A command is its canonical payload; HashOf gives its                    *)
(* command_sequence_hash, which covers the frames only, so payloads may    *)
(* share one.  Every send is a DONTWAIT send that may fail, so it may or   *)
(* may not put a message in flight.  toUnity and toPython hold the         *)
(* messages in flight; the links deliver or lose them in any order.        *)
(***************************************************************************)
EXTENDS TombstoneFifo

CONSTANTS
    Keys,               \* CommandKey: (runtime_instance_id, execution_id)
    OwnKeys,            \* the keys of the runtime this bridge is bound to
    Payloads,           \* canonical command payloads
    Hashes,             \* command_sequence_hash values
    HashOf,             \* the command_sequence_hash of each payload
    None,               \* no entry
    TombstoneCapacity   \* kTerminalTombstoneCapacity

ASSUME CommandBrokerAssumption ==
    /\ OwnKeys \subseteq Keys
    /\ HashOf \in [Payloads -> Hashes]
    /\ None \notin Payloads \union Hashes
    /\ TombstoneCapacity \in Nat \ {0}

VARIABLES
    values,         \* values_: the active command of each key
    unityReceipt,   \* keys whose active entry has unity_receipt_received
    pythonAck,      \* keys whose active entry has python_ack_sent
    terminal,       \* terminal_: the hash of each tombstone
    terminalOrder,  \* terminal_order_
    toUnity,        \* commands in flight to Unity
    toPython        \* receipts in flight to Python

store == <<values, unityReceipt, pythonAck, terminal, terminalOrder>>
vars == <<values, unityReceipt, pythonAck, terminal, terminalOrder,
          toUnity, toPython>>

Commands == [key : Keys, payload : Payloads]
ReceiptStatus == {"RECEIVED", "REJECTED", "PROTOCOL_ERROR"}
Receipts == [key : Keys, hash : Hashes, status : ReceiptStatus]

Command(k, p) == [key |-> k, payload |-> p]
Receipt(k, h, s) == [key |-> k, hash |-> h, status |-> s]

Active(k) == values[k] # None
ActiveKeys == {k \in Keys : Active(k)}
TombstonedKeys == {k \in Keys : terminal[k] # None}
PendingKeys == {k \in ActiveKeys : k \notin unityReceipt}
AckPendingKeys == {k \in ActiveKeys : k \in unityReceipt /\ k \notin pythonAck}

\* The identity a key is known by.
KnownHash(k) == IF Active(k) THEN HashOf[values[k]] ELSE terminal[k]

\* put_if_absent: an active key compares payloads, a tombstone only hashes.
PutIfAbsentWithoutTombstones(k, p) ==
    IF ~Active(k) THEN "STORED"
    ELSE IF values[k] = p THEN "DUPLICATE" ELSE "CONFLICT"

PutIfAbsent(k, p) ==
    CASE Active(k) -> IF values[k] = p THEN "DUPLICATE" ELSE "CONFLICT"
      [] ~Active(k) /\ terminal[k] = None -> "STORED"
      [] OTHER -> IF terminal[k] = HashOf[p] THEN "DUPLICATE" ELSE "CONFLICT"

Init ==
    /\ values = [k \in Keys |-> None]
    /\ unityReceipt = {}
    /\ pythonAck = {}
    /\ terminal = [k \in Keys |-> None]
    /\ terminalOrder = <<>>
    /\ toUnity = {}
    /\ toPython = {}
-----------------------------------------------------------------------------
\* Sends: the socket accepts the message or it does not.

Forward(k, p) == toUnity' \in {toUnity, toUnity \union {Command(k, p)}}

SendUnityStatus(k, h) ==
    \/ UNCHANGED <<toPython, pythonAck>>
    \/ /\ toPython' = toPython \union {Receipt(k, h, "ACCEPTED")}
       /\ pythonAck' = IF Active(k) THEN pythonAck \union {k} ELSE pythonAck

\* mark_python_ack_sent is reached only by an accepted send, and finds an
\* entry only while the key is active.
SendPythonReceipt(k, h) ==
    \/ UNCHANGED <<toPython, pythonAck>>
    \/ /\ toPython' = toPython \union {Receipt(k, h, "RECEIVED")}
       /\ pythonAck' = IF Active(k) THEN pythonAck \union {k} ELSE pythonAck

\* CommandGateway answers a refused command with a receipt of its own.
Refuse(k, p, status) ==
    /\ toPython' \in {toPython, toPython \union {Receipt(k, HashOf[p], status)}}
    /\ UNCHANGED <<store, toUnity>>
-----------------------------------------------------------------------------
\* Receive, one action per outcome.

ReceiveForeign(k, p) ==
    /\ k \notin OwnKeys
    /\ Refuse(k, p, "REJECTED")

\* validate_command throws, or the hash is not that of the frames.
ReceiveMalformed(k, p) ==
    /\ k \in OwnKeys
    /\ Refuse(k, p, "PROTOCOL_ERROR")

ReceiveConflict(k, p) ==
    /\ k \in OwnKeys
    /\ PutIfAbsent(k, p) = "CONFLICT"
    /\ Refuse(k, p, "PROTOCOL_ERROR")

ReceiveDuplicateAnswersAtOnce(k, p) ==
    /\ k \in OwnKeys
    /\ PutIfAbsent(k, p) = "DUPLICATE"
    /\ SendPythonReceipt(k, HashOf[p])
    /\ UNCHANGED <<values, unityReceipt, terminal, terminalOrder, toUnity>>

ReceiveDuplicate(k, p) ==
    /\ k \in OwnKeys
    /\ PutIfAbsent(k, p) = "DUPLICATE"
    /\ IF k \in PendingKeys
       THEN Forward(k, p) /\ UNCHANGED <<toPython, pythonAck>>
       ELSE SendPythonReceipt(k, HashOf[p]) /\ UNCHANGED toUnity
    /\ UNCHANGED <<values, unityReceipt, terminal, terminalOrder>>

ReceiveNew(k, p) ==
    /\ k \in OwnKeys
    /\ PutIfAbsent(k, p) = "STORED"
    /\ values' = [values EXCEPT ![k] = p]
    /\ Forward(k, p)
    /\ UNCHANGED <<unityReceipt, pythonAck, terminal, terminalOrder, toPython>>

Receive(k, p) ==
    \/ ReceiveForeign(k, p)
    \/ ReceiveMalformed(k, p)
    \/ ReceiveConflict(k, p)
    \/ ReceiveDuplicate(k, p)
    \/ ReceiveNew(k, p)
-----------------------------------------------------------------------------
\* HandleUnityReceipt for an ACCEPTED or DUPLICATE receipt of this runtime.
\* Any other receipt, one of an unknown key, and one whose hash is not the
\* entry's only count an error.
HandleUnityReceipt(k, h) ==
    /\ k \in OwnKeys
    /\ Active(k) /\ HashOf[values[k]] = h
    /\ unityReceipt' = unityReceipt \union {k}
    /\ SendPythonReceipt(k, h)
    /\ UNCHANGED <<values, terminal, terminalOrder, toUnity>>

\* RetryPendingCommands: every pending command, each send on its own.
RetryPendingCommands ==
    \E sent \in SUBSET PendingKeys :
        toUnity' = toUnity \union {Command(k, values[k]) : k \in sent}

RetryPythonAcks ==
    \E sent \in SUBSET AckPendingKeys :
        /\ toPython' = toPython \union
                         {Receipt(k, KnownHash(k), "RECEIVED") : k \in sent}
        /\ pythonAck' = pythonAck \union sent

\* The retry timer, when it is due.
RetryPendingPrimitiveCommandsIfDue ==
    /\ RetryPendingCommands
    /\ RetryPythonAcks
    /\ UNCHANGED <<values, unityReceipt, terminal, terminalOrder>>

FinalizePopsDequeOnly(k, h) ==
    /\ Active(k) /\ HashOf[values[k]] = h
    /\ values' = [values EXCEPT ![k] = None]
    /\ unityReceipt' = unityReceipt \ {k}
    /\ pythonAck' = pythonAck \ {k}
    /\ terminal' = [terminal EXCEPT ![k] = h]
    /\ terminalOrder' = Pushed(terminalOrder, k, TombstoneCapacity)
    /\ UNCHANGED <<toUnity, toPython>>

\* The result of the execution is committed: the entry becomes a tombstone.
\* A key that is not active, and a hash that is not the entry's, change nothing.
FinalizeExecution(k, h) ==
    /\ Active(k) /\ HashOf[values[k]] = h
    /\ values' = [values EXCEPT ![k] = None]
    /\ unityReceipt' = unityReceipt \ {k}
    /\ pythonAck' = pythonAck \ {k}
    /\ terminal' = [x \in Keys |->
                      IF x = k THEN h
                      ELSE IF x \in Evicted(terminalOrder, k, TombstoneCapacity)
                           THEN None ELSE terminal[x]]
    /\ terminalOrder' = Pushed(terminalOrder, k, TombstoneCapacity)
    /\ UNCHANGED <<toUnity, toPython>>

\* The links take a message, to deliver it or to lose it.
LinkTakesCommand(m) ==
    /\ m \in toUnity
    /\ toUnity' = toUnity \ {m}
    /\ UNCHANGED <<store, toPython>>

LinkTakesReceipt(m) ==
    /\ m \in toPython
    /\ toPython' = toPython \ {m}
    /\ UNCHANGED <<store, toUnity>>

Next ==
    \/ \E k \in Keys :
         \/ \E p \in Payloads : Receive(k, p)
         \/ \E h \in Hashes : HandleUnityReceipt(k, h)
         \/ \E h \in Hashes : FinalizeExecution(k, h)
    \/ RetryPendingPrimitiveCommandsIfDue
    \/ \E m \in toUnity : LinkTakesCommand(m)
    \/ \E m \in toPython : LinkTakesReceipt(m)

Spec == Init /\ [][Next]_vars
-----------------------------------------------------------------------------
\* The variables hold values of the types of the store and of the wire.
TypeOK ==
    /\ values \in [Keys -> Payloads \union {None}]
    /\ unityReceipt \subseteq Keys
    /\ pythonAck \subseteq Keys
    /\ terminal \in [Keys -> Hashes \union {None}]
    /\ terminalOrder \in Seq(Keys)
    /\ toUnity \subseteq Commands
    /\ toPython \subseteq Receipts

\* An active entry is acknowledged to Python only after Unity's receipt.
AckAfterReceipt == pythonAck \subseteq unityReceipt /\ unityReceipt \subseteq ActiveKeys

\* A key is active or finished, never both, and the deque lists exactly the
\* tombstones within its capacity: an eviction can neither leave a tombstone
\* behind for ever nor drop the wrong one.
StoreConsistent ==
    /\ AckAfterReceipt
    /\ ActiveKeys \intersect TombstonedKeys = {}
    /\ Lists(terminalOrder, TombstonedKeys, TombstoneCapacity)

\* A command goes to Unity only while its key is active, unacknowledged and
\* stored with that very payload: Receive's duplicate path and the retry loop
\* never resend a command Unity already has, nor one whose execution is over.
ForwardedStep ==
    \A m \in toUnity' \ toUnity :
        /\ values'[m.key] = m.payload
        /\ m.key \notin unityReceipt
ForwardedOnlyWhilePending == [][ForwardedStep]_vars

\* Python is told RECEIVED only of a command Unity acknowledged or whose
\* result was committed, and with the hash of that command.
ReceiptStep ==
    \A m \in toPython' \ toPython :
        m.status = "RECEIVED" =>
            \/ m.key \in unityReceipt' /\ HashOf[values'[m.key]] = m.hash
            \/ ~Active(m.key)' /\ terminal'[m.key] = m.hash
ReceiptHasEvidence == [][ReceiptStep]_vars

\* Both: whatever order duplicates, retries, receipts and commits come in, each
\* message the broker sends is one that its evidence asks for.
SendsAreJustified == [][ForwardedStep /\ ReceiptStep]_vars

\* The identity of a key changes in three ways only: it becomes known, the
\* active entry becomes a tombstone of the same hash, or the tombstone is the
\* oldest one and is evicted to make room.  In particular a finished command
\* is not accepted again while its tombstone is kept.
IdentityStep ==
    \A k \in Keys :
        \/ values'[k] = values[k] /\ terminal'[k] = terminal[k]
        \/ KnownHash(k) = None /\ Active(k)'
        \/ Active(k) /\ ~Active(k)' /\ terminal'[k] = HashOf[values[k]]
        \/ /\ ~Active(k) /\ ~Active(k)' /\ terminal'[k] = None
           /\ Len(terminalOrder) = TombstoneCapacity /\ k = Head(terminalOrder)
IdentityKept == [][IdentityStep]_vars
=============================================================================
