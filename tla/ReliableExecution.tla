------------------------- MODULE ReliableExecution -------------------------
(***************************************************************************)
(* The whole reliable execution path: ReliableV4ExecutionBackend in        *)
(* Python, the two brokers of the bridge with the finalizer that joins     *)
(* them, and Unity.  Python runs one execution after another: it sends the *)
(* command, waits for the receipt, waits for the result, looks up the      *)
(* endpoint snapshot, commits, and waits for the commit acknowledgement;   *)
(* any wait may time out, after which the session goes on with the next    *)
(* id.  A new Python process connects with the same runtime identity and   *)
(* numbers its executions from the start again.                            *)
(*                                                                         *)
(* Unity is external: it is modelled as the bridge and the contract tests  *)
(* use it.  Every message in flight may be lost or overtaken by others;    *)
(* the only duplicates are the ones a retry makes.                         *)
(***************************************************************************)
EXTENDS Naturals

CONSTANTS
    Executions,           \* execution ids, in the order of the counter
    Actions,              \* what the primitive of an execution may be
    None,
    TombstoneCapacity,
    StaleRetryThreshold,
    MaxRestarts           \* bound on Python processes after the first

\* The frames of a command hold ids derived from the execution id, so the
\* payload, its hash and the identity of its result determine each other.
Payloads == Executions \X Actions

ASSUME ReliableExecutionAssumption ==
    /\ Executions \subseteq Nat
    /\ None \notin Payloads
    /\ TombstoneCapacity \in Nat \ {0}
    /\ StaleRetryThreshold \in Nat \ {0}

VARIABLES
    \* the command broker
    cmdValues, cmdUnityReceipt, cmdPythonAck, cmdTerminal, cmdOrder,
    toUnityCommand, toPythonReceipt,
    \* the result broker and its relay
    resValues, resPythonReceipt, resTerminal, resOrder,
    ready, connected, attempts, toUnityAck, toPythonResult,
    \* Python
    phase,          \* where execute() is with each id
    choice,         \* the action of the id's command, None before it is sent
    restarts,       \* Python processes that have ended
    \* messages in flight from Python
    readySent, commands, confirmations, commits,
    \* Unity
    unity,          \* what Unity knows of each execution
    admitted,       \* the payload it registered
    performedSince, \* executions performed after Python's current request
    unityReceipts, unityResults   \* messages in flight from Unity

commandVars == <<cmdValues, cmdUnityReceipt, cmdPythonAck, cmdTerminal, cmdOrder,
                 toUnityCommand, toPythonReceipt>>
resultVars == <<resValues, resPythonReceipt, resTerminal, resOrder,
                ready, connected, attempts, toUnityAck, toPythonResult>>
pythonVars == <<phase, choice, restarts>>
uplink == <<readySent, commands, confirmations, commits>>
unityVars == <<unity, admitted, performedSince>>
downlink == <<unityReceipts, unityResults>>
vars == <<commandVars, resultVars, pythonVars, uplink, unityVars, downlink>>

C == INSTANCE CommandBroker WITH
       Keys <- Executions, OwnKeys <- Executions,
       Payloads <- Payloads, Hashes <- Payloads, HashOf <- [p \in Payloads |-> p],
       values <- cmdValues, unityReceipt <- cmdUnityReceipt,
       pythonAck <- cmdPythonAck, terminal <- cmdTerminal,
       terminalOrder <- cmdOrder,
       toUnity <- toUnityCommand, toPython <- toPythonReceipt

R == INSTANCE ResultBroker WITH
       Keys <- Executions, Results <- Payloads,
       values <- resValues, pythonReceipt <- resPythonReceipt,
       terminal <- resTerminal, terminalOrder <- resOrder,
       toUnity <- toUnityAck, toPython <- toPythonResult

Waiting == {"awaitReceipt", "awaitResult", "lookup", "awaitCommitAck"}
Phases == Waiting \union {"new", "transition", "aborted"}

Init ==
    /\ C!Init /\ R!Init
    /\ phase = [e \in Executions |-> "new"]
    /\ choice = [e \in Executions |-> None]
    /\ restarts = 0
    /\ readySent = TRUE
    /\ commands = {} /\ confirmations = {} /\ commits = {}
    /\ unity = [e \in Executions |-> "unknown"]
    /\ admitted = [e \in Executions |-> None]
    /\ performedSince = {}
    /\ unityReceipts = {} /\ unityResults = {}

\* The payload of Python's request for e.
Payload(e) == <<e, choice[e]>>
-----------------------------------------------------------------------------
\* Python.

\* execute(): the next id of the counter, the previous call being over.
Submit(e, a) ==
    /\ phase[e] = "new"
    /\ \A d \in Executions : phase[d] \notin Waiting
    /\ \A d \in Executions : d < e => phase[d] # "new"
    /\ phase' = [phase EXCEPT ![e] = "awaitReceipt"]
    /\ choice' = [choice EXCEPT ![e] = a]
    /\ commands' = commands \union {<<e, a>>}
    /\ performedSince' = performedSince \ {e}
    /\ UNCHANGED <<commandVars, resultVars, restarts, readySent, confirmations,
                   commits, unity, admitted, downlink>>

\* wait_for_receipt: any status but RECEIVED, and any other hash, raises.
TakeReceipt(e, m) ==
    /\ phase[e] = "awaitReceipt"
    /\ m.key = e
    /\ C!LinkTakesReceipt(m)
    /\ phase' = [phase EXCEPT ![e] =
                   IF m.status = "RECEIVED" /\ m.hash = Payload(e)
                   THEN "awaitResult" ELSE "aborted"]
    /\ UNCHANGED <<resultVars, choice, restarts, uplink, unityVars, downlink>>

\* receive: every result is confirmed; one with another hash raises.
TakeResult(e, m) ==
    /\ phase[e] = "awaitResult"
    /\ m.type = "Result" /\ m.key = e
    /\ R!LinkTakesMessage(m)
    /\ confirmations' = confirmations \union {m.result}
    /\ phase' = [phase EXCEPT ![e] = IF m.result = Payload(e) THEN "lookup" ELSE "aborted"]
    /\ UNCHANGED <<commandVars, choice, restarts, readySent, commands, commits,
                   unityVars, downlink>>

\* commit: the result being committed is confirmed again and dropped; another
\* result of the same id raises.
TakeRepeatedResult(e, m) ==
    /\ phase[e] = "awaitCommitAck"
    /\ m.type = "Result" /\ m.key = e
    /\ R!LinkTakesMessage(m)
    /\ confirmations' = confirmations \union {m.result}
    /\ phase' = [phase EXCEPT ![e] = IF m.result = Payload(e) THEN @ ELSE "aborted"]
    /\ UNCHANGED <<commandVars, choice, restarts, readySent, commands, commits,
                   unityVars, downlink>>

\* A result of another execution, in either wait: it is confirmed, and then
\* _offer reads the attribute _max_buffered_results, which no code defines.
TakeStrayResult(e, m) ==
    /\ phase[e] \in {"awaitResult", "awaitCommitAck"}
    /\ m.type = "Result" /\ m.key # e
    /\ R!LinkTakesMessage(m)
    /\ confirmations' = confirmations \union {m.result}
    /\ phase' = [phase EXCEPT ![e] = "aborted"]
    /\ UNCHANGED <<commandVars, choice, restarts, readySent, commands, commits,
                   unityVars, downlink>>

\* The endpoint snapshot is found, or the result needs none.
SendCommit(e) ==
    /\ phase[e] = "lookup"
    /\ phase' = [phase EXCEPT ![e] = "awaitCommitAck"]
    /\ commits' = commits \union {Payload(e)}
    /\ UNCHANGED <<commandVars, resultVars, choice, restarts, readySent, commands,
                   confirmations, unityVars, downlink>>

TakeAnyCommitAck(e, m) ==
    /\ phase[e] = "awaitCommitAck"
    /\ m.type = "CommitAck"
    /\ R!LinkTakesMessage(m)
    /\ phase' = [phase EXCEPT ![e] =
                   IF m.status = "COMMITTED" THEN "transition" ELSE "aborted"]
    /\ UNCHANGED <<commandVars, choice, restarts, uplink, unityVars, downlink>>

\* Only COMMITTED makes a transition.  An acknowledgement of another
\* execution is skipped.
TakeCommitAck(e, m) ==
    /\ phase[e] = "awaitCommitAck"
    /\ m.type = "CommitAck" /\ m.key = e
    /\ R!LinkTakesMessage(m)
    /\ phase' = [phase EXCEPT ![e] =
                   IF m.status = "COMMITTED" /\ m.result = Payload(e)
                   THEN "transition" ELSE "aborted"]
    /\ UNCHANGED <<commandVars, choice, restarts, uplink, unityVars, downlink>>

\* A wait times out, or the snapshot lookup fails.
Abort(e) ==
    /\ phase[e] \in Waiting
    /\ phase' = [phase EXCEPT ![e] = "aborted"]
    /\ UNCHANGED <<commandVars, resultVars, choice, restarts, uplink, unityVars,
                   downlink>>

\* The process ends and a new one starts with the same runtime identity.  Its
\* sockets are new, so what was on the way to the old ones is gone.
Restart ==
    /\ restarts < MaxRestarts
    /\ restarts' = restarts + 1
    /\ phase' = [e \in Executions |-> "new"]
    /\ choice' = [e \in Executions |-> None]
    /\ toPythonReceipt' = {}
    /\ toPythonResult' = {}
    /\ readySent' = TRUE
    /\ UNCHANGED <<cmdValues, cmdUnityReceipt, cmdPythonAck, cmdTerminal, cmdOrder,
                   toUnityCommand, resValues, resPythonReceipt, resTerminal,
                   resOrder, ready, connected, attempts, toUnityAck,
                   commands, confirmations, commits, unityVars, downlink>>

Python ==
    \/ \E e \in Executions :
         \/ \E a \in Actions : Submit(e, a)
         \/ \E m \in toPythonReceipt : TakeReceipt(e, m)
         \/ \E m \in toPythonResult :
              \/ TakeResult(e, m) \/ TakeRepeatedResult(e, m)
              \/ TakeStrayResult(e, m) \/ TakeCommitAck(e, m)
         \/ SendCommit(e)
         \/ Abort(e)
    \/ Restart
-----------------------------------------------------------------------------
\* The bridge: the polls of Spin, each with the message it takes.

BridgeTakesCommand(p) ==
    /\ p \in commands
    /\ commands' = commands \ {p}
    /\ \/ C!ReceiveNew(p[1], p)
       \/ C!ReceiveDuplicate(p[1], p)
       \/ C!ReceiveConflict(p[1], p)
    /\ UNCHANGED <<resultVars, pythonVars, readySent, confirmations, commits,
                   unityVars, downlink>>

BridgeTakesUnityReceipt(p) ==
    /\ p \in unityReceipts
    /\ unityReceipts' = unityReceipts \ {p}
    /\ IF C!KnownHash(p[1]) = p /\ C!Active(p[1])
       THEN C!HandleUnityReceipt(p[1], p) ELSE UNCHANGED commandVars
    /\ UNCHANGED <<resultVars, pythonVars, uplink, unityVars, unityResults>>

BridgeRetriesCommands ==
    /\ C!RetryPendingPrimitiveCommandsIfDue
    /\ UNCHANGED <<resultVars, pythonVars, uplink, unityVars, downlink>>

BridgeTakesResult(p) ==
    /\ p \in unityResults
    /\ unityResults' = unityResults \ {p}
    /\ CASE R!KnownResult(p[1]) = None -> R!ReceiveNew(p[1], p)
         [] R!KnownResult(p[1]) = p -> R!ReceiveDuplicate(p[1], p)
         [] OTHER -> UNCHANGED resultVars
    /\ UNCHANGED <<commandVars, pythonVars, uplink, unityVars, unityReceipts>>

BridgeTakesReady ==
    /\ readySent
    /\ readySent' = FALSE
    /\ R!PythonReady
    /\ UNCHANGED <<commandVars, pythonVars, commands, confirmations, commits,
                   unityVars, downlink>>

BridgeSeesDisconnect ==
    /\ R!Disconnected
    /\ UNCHANGED <<commandVars, pythonVars, uplink, unityVars, downlink>>

BridgeRetriesResults ==
    /\ R!RetryPendingPythonResults
    /\ UNCHANGED <<commandVars, pythonVars, uplink, unityVars, downlink>>

BridgeTakesConfirmation(p) ==
    /\ p \in confirmations
    /\ confirmations' = confirmations \ {p}
    /\ IF R!KnownResult(p[1]) = p
       THEN R!AcknowledgePythonReceipt(p[1], p) ELSE UNCHANGED resultVars
    /\ UNCHANGED <<commandVars, pythonVars, readySent, commands, commits,
                   unityVars, downlink>>

CommitWithoutFinalizer(p) ==
    /\ p \in commits
    /\ commits' = commits \ {p}
    /\ R!Commit(p[1], p) \/ R!CommitDuplicate(p[1], p) \/ R!CommitRefused(p[1], p)
    /\ UNCHANGED <<commandVars, pythonVars, readySent, commands, confirmations,
                   unityVars, downlink>>

\* The commit, and in the same handler the lifecycle finalizer that retires
\* the command when the outcome is COMMITTED.
BridgeTakesCommit(p) ==
    /\ p \in commits
    /\ commits' = commits \ {p}
    /\ \/ /\ R!Commit(p[1], p)
          /\ IF C!Active(p[1]) /\ cmdValues[p[1]] = p
             THEN C!FinalizeExecution(p[1], p) ELSE UNCHANGED commandVars
       \/ /\ R!CommitDuplicate(p[1], p) \/ R!CommitRefused(p[1], p)
          /\ UNCHANGED commandVars
    /\ UNCHANGED <<pythonVars, readySent, commands, confirmations,
                   unityVars, downlink>>

Bridge ==
    \/ \E p \in Payloads :
         \/ BridgeTakesCommand(p)
         \/ BridgeTakesUnityReceipt(p)
         \/ BridgeTakesResult(p)
         \/ BridgeTakesConfirmation(p)
         \/ BridgeTakesCommit(p)
    \/ BridgeRetriesCommands
    \/ BridgeTakesReady
    \/ BridgeSeesDisconnect
    \/ BridgeRetriesResults
-----------------------------------------------------------------------------
\* Unity, external.  It carries out one execution at a time and keeps its
\* result until the bridge acknowledges it.

\* A command of an execution it knows is answered and not carried out again.
UnityTakesKnown(m) ==
    /\ unity[m.key] # "unknown"
    /\ C!LinkTakesCommand(m)
    /\ unityReceipts' = IF admitted[m.key] = m.payload
                        THEN unityReceipts \union {m.payload} ELSE unityReceipts
    /\ UNCHANGED <<resultVars, pythonVars, uplink, unityVars, unityResults>>

UnityAdmits(m) ==
    /\ unity[m.key] = "unknown"
    /\ \A e \in Executions : unity[e] \notin {"executing", "pending"}
    /\ C!LinkTakesCommand(m)
    /\ unity' = [unity EXCEPT ![m.key] = "executing"]
    /\ admitted' = [admitted EXCEPT ![m.key] = m.payload]
    /\ performedSince' = performedSince \union {m.key}
    /\ unityReceipts' = unityReceipts \union {m.payload}
    /\ UNCHANGED <<resultVars, pythonVars, uplink, unityResults>>

UnityCompletes(e) ==
    /\ unity[e] = "executing"
    /\ unity' = [unity EXCEPT ![e] = "pending"]
    /\ unityResults' = unityResults \union {admitted[e]}
    /\ UNCHANGED <<commandVars, resultVars, pythonVars, uplink, admitted,
                   performedSince, unityReceipts>>

UnityResends(e) ==
    /\ unity[e] = "pending"
    /\ unityResults' = unityResults \union {admitted[e]}
    /\ UNCHANGED <<commandVars, resultVars, pythonVars, uplink, unityVars,
                   unityReceipts>>

UnityTakesAck(m) ==
    /\ R!LinkTakesAck(m)
    /\ unity' = IF unity[m.key] = "pending" /\ admitted[m.key] = m.result
                THEN [unity EXCEPT ![m.key] = "acked"] ELSE unity
    /\ UNCHANGED <<commandVars, pythonVars, uplink, admitted, performedSince,
                   downlink>>

Unity ==
    \/ \E m \in toUnityCommand : UnityTakesKnown(m) \/ UnityAdmits(m)
    \/ \E e \in Executions : UnityCompletes(e) \/ UnityResends(e)
    \/ \E m \in toUnityAck : UnityTakesAck(m)
-----------------------------------------------------------------------------
\* A message in flight is lost.  (One that is never taken is as good as lost
\* too; these steps only make room.)
Lose ==
    /\ \/ /\ \/ \E m \in toUnityCommand : C!LinkTakesCommand(m)
             \/ \E m \in toPythonReceipt : C!LinkTakesReceipt(m)
          /\ UNCHANGED resultVars
       \/ /\ \/ \E m \in toUnityAck : R!LinkTakesAck(m)
             \/ \E m \in toPythonResult : R!LinkTakesMessage(m)
          /\ UNCHANGED commandVars
    /\ UNCHANGED <<pythonVars, uplink, unityVars, downlink>>

Next == Python \/ Bridge \/ Unity \/ Lose

Spec == Init /\ [][Next]_vars
-----------------------------------------------------------------------------
\* The two brokers agree: a result is held only for the command that is held,
\* and an execution is retired in both or in neither, under one identity.
BrokersAgree ==
    \A e \in Executions :
        /\ resValues[e] # None => cmdValues[e] = resValues[e]
        /\ resTerminal[e] = cmdTerminal[e]

\* A transition Python has returned is committed in the bridge under the
\* identity Python asked for, and Unity has performed that very command.
TransitionIsCommitted ==
    \A e \in Executions :
        phase[e] = "transition" =>
            /\ resTerminal[e] = Payload(e)
            /\ unity[e] \in {"pending", "acked"} /\ admitted[e] = Payload(e)

\* The transition Python returns was performed after Python requested it:
\* the execution id names one physical primitive.
TransitionIsFresh ==
    \A e \in Executions : phase[e] = "transition" => e \in performedSince

\* The abstract promise.
Request(e) ==
    CASE phase[e] \in Waiting -> "open"
      [] phase[e] = "aborted" -> "abandoned"
      [] OTHER -> phase[e]
Promise == INSTANCE ExactlyOnce WITH
             request <- [e \in Executions |-> Request(e)],
             performed <- {e \in Executions : unity[e] # "unknown"},
             committed <- R!TombstonedKeys

\* The first process gets exactly that.
FirstProcess == restarts' = 0 => [Promise!Next]_(Promise!vars)
ImplementsExactlyOnce == Promise!Init /\ [][FirstProcess]_vars
=============================================================================
