--------------------------- MODULE ResultDelivery ---------------------------
(***************************************************************************)
(* Does a result reach Python?  The result broker with the production      *)
(* client, _ZmqResultTransport, at the other end of the result channel.    *)
(* The client announces READY once, when it is made, and confirms every    *)
(* result it reads.  While the connection lasts the channel loses nothing, *)
(* though a send may find it full; when the connection is lost the bridge  *)
(* sees ZMQ_EVENT_DISCONNECTED, whatever was in flight may be gone, and    *)
(* the client's socket connects again by itself, without a word to the     *)
(* code on either side.                                                    *)
(***************************************************************************)
EXTENDS ResultBroker

ASSUME ResultDeliveryAssumption == Results # {}

VARIABLES
    readySent,      \* READY is on the way
    confirmations,  \* keys whose RESULT_RECEIVED is on the way
    commits,        \* keys whose commit is on the way
    consumed,       \* keys whose result Python has read
    dropped         \* the connection has been lost once

clientVars == <<readySent, confirmations, commits, consumed, dropped>>
allVars == <<vars, clientVars>>

\* One result per execution: identities are the subject of ResultBroker.
TheResult == CHOOSE r \in Results : TRUE

DeliveryInit ==
    /\ Init
    /\ readySent = TRUE
    /\ confirmations = {}
    /\ commits = {}
    /\ consumed = {}
    /\ dropped = FALSE

UnitySendsResult(k) ==
    /\ ReceiveNew(k, TheResult)
    /\ UNCHANGED clientVars

BridgeTakesReady ==
    /\ readySent
    /\ readySent' = FALSE
    /\ PythonReady
    /\ UNCHANGED <<confirmations, commits, consumed, dropped>>

\* The retry is due, and the send of k's result is accepted if it is made.
BridgeRetries ==
    /\ RetryPendingPythonResults
    /\ UNCHANGED clientVars

BridgeResends(k) ==
    /\ k \in ReceiptPendingKeys
    /\ BridgeRetries
    /\ attempts'[k] > attempts[k]

BridgeTakesConfirmation(k) ==
    /\ k \in confirmations
    /\ confirmations' = confirmations \ {k}
    /\ AcknowledgePythonReceipt(k, TheResult)
    /\ UNCHANGED <<readySent, commits, consumed, dropped>>

BridgeTakesCommit(k) ==
    /\ k \in commits
    /\ commits' = commits \ {k}
    /\ Commit(k, TheResult)
    /\ UNCHANGED <<readySent, confirmations, consumed, dropped>>

\* receive and commit: every result read is confirmed before anything else.
PythonTakesResult(m) ==
    /\ m.type = "Result"
    /\ LinkTakesMessage(m)
    /\ confirmations' = confirmations \union {m.key}
    /\ consumed' = consumed \union {m.key}
    /\ UNCHANGED <<readySent, commits, dropped>>

\* One commit for each result, unless the call is given up before.
PythonCommits(k) ==
    /\ k \in consumed /\ Active(k) /\ commits = {}
    /\ commits' = {k}
    /\ UNCHANGED <<vars, readySent, confirmations, consumed, dropped>>

PythonTakesCommitAck(m) ==
    /\ m.type = "CommitAck"
    /\ LinkTakesMessage(m)
    /\ UNCHANGED clientVars

UnityTakesAck(m) == LinkTakesAck(m) /\ UNCHANGED clientVars

ConnectionLost ==
    /\ ~dropped
    /\ dropped' = TRUE
    /\ ready' = FALSE
    /\ connected' = FALSE
    /\ toPython' \in SUBSET toPython
    /\ readySent' \in {FALSE, readySent}
    /\ confirmations' \in SUBSET confirmations
    /\ commits' \in SUBSET commits
    /\ UNCHANGED <<store, attempts, toUnity, consumed>>

DeliveryNext ==
    \/ \E k \in Keys :
         \/ UnitySendsResult(k)
         \/ BridgeTakesConfirmation(k)
         \/ BridgeTakesCommit(k)
         \/ PythonCommits(k)
    \/ \E m \in toPython : PythonTakesResult(m) \/ PythonTakesCommitAck(m)
    \/ \E m \in toUnity : UnityTakesAck(m)
    \/ BridgeTakesReady
    \/ BridgeRetries
    \/ ConnectionLost

\* Spin polls every socket for ever, so what waits is taken; a retry comes
\* round every interval, and its send does not find the channel full for
\* ever; Python goes on executing, so it reads what has arrived.
Fairness ==
    /\ WF_allVars(BridgeTakesReady)
    /\ \A k \in Keys :
         /\ SF_allVars(BridgeResends(k))
         /\ WF_allVars(BridgeTakesConfirmation(k))
         /\ WF_allVars(PythonTakesResult(Result(k, TheResult)))

DeliverySpec == DeliveryInit /\ [][DeliveryNext]_allVars /\ Fairness
-----------------------------------------------------------------------------
\* A result that has been sent is confirmed or committed, unless the
\* connection is lost: the budget counts only sends the channel accepted, so
\* the STALE mark a slow reader causes takes nothing back.
SentResultConfirmed ==
    \A k \in Keys : attempts[k] > 0 ~> k \notin ReceiptPendingKeys \/ dropped

\* To a READY peer the bridge does not fall silent: it goes on until the
\* result is confirmed or the peer is marked STALE, whatever sends fail.
ConfirmedOrStale ==
    \A k \in Keys :
        k \in ReceiptPendingKeys /\ ready ~> k \notin ReceiptPendingKeys \/ ~ready
=============================================================================
