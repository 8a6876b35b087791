---------------------- MODULE ReliableExecutionProofs ----------------------
(***************************************************************************)
(* Theorems about the whole execution path, for any executions, actions,   *)
(* retry threshold, number of Python processes and tombstone capacity.     *)
(*                                                                         *)
(* The invariant follows a command around the loop: Unity admits only the  *)
(* command the bridge knows, sends only the result of what it performed,   *)
(* so the result the bridge stores is that of its own command, and the     *)
(* commit retires both under one identity.  Each of these steps relies on  *)
(* the bridge still knowing the identity of an execution, so Joined is     *)
(* claimed until the first tombstone is evicted; where the tombstones of   *)
(* all executions fit, that is always (RoomForAll).                        *)
(*                                                                         *)
(* The second half looks beyond evictions.  Unity never forgets, so what   *)
(* Python is told was performed (Earned) without condition; and the        *)
(* brokers agree (Agreed) unless a message delayed by more than            *)
(* TombstoneCapacity commits comes for an execution the bridge has         *)
(* forgotten and is taken for new (NoneRecalled).                          *)
(***************************************************************************)
EXTENDS ReliableExecution, TombstoneFifoProofs, FiniteSetTheorems

\* The identity a broker knows an execution by: its entry, or its tombstone.
KnownCommand(e) == IF cmdValues[e] # None THEN cmdValues[e] ELSE cmdTerminal[e]
KnownResult(e) == IF resValues[e] # None THEN resValues[e] ELSE resTerminal[e]

Identities == [Executions -> Payloads \union {None}]

\* Types of the two stores, of the commands in flight, and of what Python and
\* Unity know.
TypeOK ==
    /\ cmdValues \in Identities /\ cmdTerminal \in Identities
    /\ resValues \in Identities /\ resTerminal \in Identities
    /\ toUnityCommand \subseteq C!Commands
    /\ phase \in [Executions -> Phases]
    /\ choice \in [Executions -> Actions \union {None}]
    /\ restarts \in Nat
    /\ unity \in [Executions -> {"unknown", "executing", "pending", "acked"}]
    /\ admitted \in Identities

\* An execution is not both active and committed in the result store, and the
\* deque lists its tombstones.
ResultStore ==
    /\ \A e \in Executions : resValues[e] # None => resTerminal[e] = None
    /\ Lists(resOrder, R!TombstonedKeys, TombstoneCapacity)

\* No tombstone has been evicted: the deque never was full, or it has just
\* become full with the last execution there is.
NothingEvicted ==
    Len(resOrder) < TombstoneCapacity \/ R!TombstonedKeys = Executions

\* A command is stored under the execution it names.
CommandIsNamed ==
    \A e \in Executions : KnownCommand(e) # None => KnownCommand(e)[1] = e

\* A command on its way to Unity is the one the bridge knows.
ForwardedIsKnown ==
    \A m \in toUnityCommand : m.payload = KnownCommand(m.key)

\* Unity has admitted only the command the bridge knows.
AdmittedIsKnown ==
    \A e \in Executions :
        unity[e] # "unknown" => admitted[e] # None /\ admitted[e] = KnownCommand(e)

\* Unity has performed payload p and keeps or kept its result.
Performed(p) ==
    /\ unity[p[1]] \in {"pending", "acked"}
    /\ admitted[p[1]] = p

\* A result in flight or known to the bridge is of what Unity performed.
ResultsArePerformed ==
    /\ \A p \in unityResults : Performed(p)
    /\ \A e \in Executions :
         KnownResult(e) # None => KnownResult(e)[1] = e /\ Performed(KnownResult(e))

\* The two stores are in step, down to the order of their tombstones.
StoresJoined ==
    /\ BrokersAgree
    /\ cmdOrder = resOrder
    /\ \A e \in Executions : cmdValues[e] # None => cmdTerminal[e] = None

\* COMMITTED on its way to Python is of a result that is committed.
CommittedIsTrue ==
    \A m \in toPythonResult :
        m.type = "CommitAck" /\ m.status = "COMMITTED" =>
            /\ m.key \in Executions
            /\ resTerminal[m.key] = m.result /\ m.result # None

Joined ==
    /\ CommandIsNamed /\ ForwardedIsKnown /\ AdmittedIsKnown
    /\ ResultsArePerformed /\ StoresJoined
    /\ CommittedIsTrue

\* The inductive invariant.
IInv ==
    /\ TypeOK /\ ResultStore
    /\ NothingEvicted => Joined /\ TransitionIsCommitted

\* In the first process, the bridge and its link to Unity hold no command of an
\* execution Python has not asked for.
Unasked ==
    restarts = 0 =>
        \A e \in Executions :
            phase[e] = "new" =>
                /\ cmdValues[e] = None
                /\ \A p \in commands : p[1] # e
                /\ \A m \in toUnityCommand : m.key # e
-----------------------------------------------------------------------------
\* A payload is an execution with an action.
LEMMA PayloadFields ==
    ASSUME NEW p \in Payloads
    PROVE  p[1] \in Executions /\ p[2] \in Actions /\ p = <<p[1], p[2]>>
  BY DEF Payloads

\* The hash of a payload is the payload.
LEMMA IdentityHash == \A p \in Payloads : [q \in Payloads |-> q][p] = p
  OBVIOUS

\* The deques of the two brokers are those of TombstoneFifo.
LEMMA SameFifo ==
    ASSUME NEW order, NEW key, NEW capacity
    PROVE  /\ C!Pushed(order, key, capacity) = Pushed(order, key, capacity)
           /\ R!Pushed(order, key, capacity) = Pushed(order, key, capacity)
           /\ C!Evicted(order, key, capacity) = Evicted(order, key, capacity)
           /\ R!Evicted(order, key, capacity) = Evicted(order, key, capacity)
  BY DEF C!Pushed, R!Pushed, C!Evicted, R!Evicted, Pushed, Evicted

\* A step that leaves the command store and only forwards what is stored.
CommandsKept ==
    /\ UNCHANGED <<cmdValues, cmdTerminal, cmdOrder>>
    /\ \A m \in toUnityCommand' :
         \/ m \in toUnityCommand
         \/ \E e \in Executions : m = C!Command(e, cmdValues[e]) /\ cmdValues[e] # None

\* A step that leaves the result store and acknowledges no commit.
ResultsKept ==
    /\ UNCHANGED <<resValues, resTerminal, resOrder>>
    /\ \A m \in toPythonResult' :
         m.type = "CommitAck" /\ m.status = "COMMITTED" => m \in toPythonResult

\* A step that leaves Unity and sends no result.
UnityKept == UNCHANGED <<unity, admitted>> /\ unityResults' \subseteq unityResults

\* A side that does not move is kept.
LEMMA StutterKeeps ==
    /\ UNCHANGED commandVars => CommandsKept
    /\ UNCHANGED resultVars => ResultsKept
    /\ UNCHANGED <<unityVars, downlink>> => UnityKept
  BY DEF commandVars, resultVars, unityVars, downlink, CommandsKept, ResultsKept, UnityKept

\* A link that takes a message keeps the stores.
LEMMA LinksKeep ==
    ASSUME NEW m
    PROVE  /\ C!LinkTakesCommand(m) \/ C!LinkTakesReceipt(m) => CommandsKept
           /\ R!LinkTakesAck(m) \/ R!LinkTakesMessage(m) => ResultsKept
  BY DEF C!LinkTakesCommand, C!LinkTakesReceipt, R!LinkTakesAck, R!LinkTakesMessage,
         C!store, R!store, R!peer, CommandsKept, ResultsKept

\* Python changes neither the stores nor Unity.
LEMMA PythonKeeps ==
    ASSUME Python
    PROVE  CommandsKept /\ ResultsKept /\ UnityKept
<1>1. ASSUME NEW e \in Executions, NEW a \in Actions, Submit(e, a)
      PROVE  CommandsKept /\ ResultsKept /\ UnityKept
  BY <1>1, StutterKeeps DEF Submit, UnityKept, downlink
<1>2. ASSUME NEW e \in Executions, NEW m, TakeReceipt(e, m)
      PROVE  CommandsKept /\ ResultsKept /\ UnityKept
  BY <1>2, StutterKeeps, LinksKeep DEF TakeReceipt
<1>3. ASSUME NEW e \in Executions, NEW m,
             \/ TakeResult(e, m) \/ TakeRepeatedResult(e, m)
             \/ TakeStrayResult(e, m) \/ TakeCommitAck(e, m)
      PROVE  CommandsKept /\ ResultsKept /\ UnityKept
  BY <1>3, StutterKeeps, LinksKeep
     DEF TakeResult, TakeRepeatedResult, TakeStrayResult, TakeCommitAck
<1>4. ASSUME NEW e \in Executions, SendCommit(e) \/ Abort(e)
      PROVE  CommandsKept /\ ResultsKept /\ UnityKept
  BY <1>4, StutterKeeps DEF SendCommit, Abort
<1>5. CASE Restart
  BY <1>5, StutterKeeps DEF Restart, CommandsKept, ResultsKept
<1> QED BY <1>1, <1>2, <1>3, <1>4, <1>5 DEF Python

\* A lost message changes neither the stores nor Unity.
LEMMA LoseKeeps ==
    ASSUME Lose
    PROVE  CommandsKept /\ ResultsKept /\ UnityKept
  BY StutterKeeps, LinksKeep DEF Lose

\* The bridge takes a command: it learns it, or keeps its store.
LEMMA CommandTaken ==
    ASSUME TypeOK, NEW p \in Payloads, BridgeTakesCommand(p)
    PROVE  /\ ResultsKept /\ UnityKept
           /\ \/ CommandsKept
              \/ /\ KnownCommand(p[1]) = None
                 /\ cmdValues' = [cmdValues EXCEPT ![p[1]] = p]
                 /\ UNCHANGED <<cmdTerminal, cmdOrder>>
                 /\ \A m \in toUnityCommand' :
                      m \in toUnityCommand \/ m = C!Command(p[1], p)
<1> USE PayloadFields, IdentityHash, StutterKeeps
<1>1. CASE C!ReceiveNew(p[1], p)
  BY <1>1 DEF BridgeTakesCommand, C!ReceiveNew, C!PutIfAbsent, C!Active, C!Forward,
              TypeOK, Identities, KnownCommand
<1>2. CASE C!ReceiveDuplicate(p[1], p)
  <2>1. UNCHANGED <<cmdValues, cmdTerminal, cmdOrder>>
    BY <1>2 DEF C!ReceiveDuplicate
  <2>2. CASE p[1] \in C!PendingKeys
    <3>1. cmdValues[p[1]] = p /\ p # None
      BY <1>2, <2>2, ReliableExecutionAssumption
         DEF C!ReceiveDuplicate, C!PutIfAbsent, C!PendingKeys, C!ActiveKeys, C!Active
    <3> QED BY <1>2, <2>1, <2>2, <3>1
            DEF C!ReceiveDuplicate, C!Forward, CommandsKept, BridgeTakesCommand
  <2>3. CASE p[1] \notin C!PendingKeys
    BY <1>2, <2>1, <2>3 DEF C!ReceiveDuplicate, CommandsKept, BridgeTakesCommand
  <2> QED BY <2>2, <2>3
<1>3. CASE C!ReceiveConflict(p[1], p)
  BY <1>3 DEF BridgeTakesCommand, C!ReceiveConflict, C!Refuse, C!store, CommandsKept
<1> QED BY <1>1, <1>2, <1>3 DEF BridgeTakesCommand

\* The retry timer of the command broker keeps both stores.
LEMMA CommandsRetried ==
    ASSUME TypeOK, BridgeRetriesCommands
    PROVE  CommandsKept /\ ResultsKept /\ UnityKept
<1>1. PICK sent \in SUBSET C!PendingKeys :
        toUnityCommand' = toUnityCommand \union {C!Command(k, cmdValues[k]) : k \in sent}
  BY DEF BridgeRetriesCommands, C!RetryPendingPrimitiveCommandsIfDue,
         C!RetryPendingCommands
<1>2. \A k \in sent : k \in Executions /\ cmdValues[k] # None
  BY DEF C!PendingKeys, C!ActiveKeys, C!Active
<1> QED BY <1>1, <1>2, StutterKeeps
        DEF BridgeRetriesCommands, C!RetryPendingPrimitiveCommandsIfDue, CommandsKept

\* A receipt of Unity keeps both stores.
LEMMA ReceiptTaken ==
    ASSUME NEW p \in Payloads, BridgeTakesUnityReceipt(p)
    PROVE  CommandsKept /\ ResultsKept /\ UnityKept
  BY StutterKeeps DEF BridgeTakesUnityReceipt, C!HandleUnityReceipt, CommandsKept,
                      UnityKept, unityVars

\* The relay loop sends results only.
LEMMA RelayAddsResults ==
    ASSUME NEW ks, NEW counts, NEW isReady, R!Relay(ks, counts, isReady)
    PROVE  \A m \in toPythonResult' : m \in toPythonResult \/ m.type = "Result"
<1>1. PICK sent \in SUBSET ks :
        toPythonResult' = toPythonResult \union {R!Result(k, resValues'[k]) : k \in sent}
  BY DEF R!Relay
<1>2. \A k \in sent : R!Result(k, resValues'[k]).type = "Result"
  BY DEF R!Result
<1> QED BY <1>1, <1>2

\* The bridge takes a result: it learns it, or keeps its store.
LEMMA ResultTaken ==
    ASSUME TypeOK, NEW p \in Payloads, BridgeTakesResult(p)
    PROVE  /\ CommandsKept /\ UnityKept /\ p \in unityResults
           /\ \/ ResultsKept
              \/ /\ KnownResult(p[1]) = None
                 /\ resValues' = [resValues EXCEPT ![p[1]] = p]
                 /\ UNCHANGED <<resTerminal, resOrder>>
                 /\ \A m \in toPythonResult' :
                      m \in toPythonResult \/ m.type = "Result"
<1> USE PayloadFields, StutterKeeps
<1>1. CommandsKept /\ UnityKept /\ p \in unityResults
  BY DEF BridgeTakesResult, UnityKept, unityVars
<1>2. \/ R!KnownResult(p[1]) = None /\ R!ReceiveNew(p[1], p)
      \/ R!ReceiveDuplicate(p[1], p)
      \/ UNCHANGED resultVars
  BY DEF BridgeTakesResult
<1>3. CASE R!KnownResult(p[1]) = None /\ R!ReceiveNew(p[1], p)
  <2>1. KnownResult(p[1]) = None
    BY <1>3 DEF R!KnownResult, R!Active, KnownResult
  <2>2. \A m \in toPythonResult' : m \in toPythonResult \/ m.type = "Result"
    BY <1>3, RelayAddsResults DEF R!ReceiveNew
  <2> QED BY <1>1, <1>3, <2>1, <2>2 DEF R!ReceiveNew
<1>4. CASE R!ReceiveDuplicate(p[1], p)
  BY <1>1, <1>4 DEF R!ReceiveDuplicate, R!store, ResultsKept
<1> QED BY <1>1, <1>2, <1>3, <1>4

\* READY, a disconnect and the retry timer of the relay keep both stores.
LEMMA ResultsRelayed ==
    ASSUME \/ BridgeTakesReady \/ BridgeSeesDisconnect \/ BridgeRetriesResults
    PROVE  CommandsKept /\ ResultsKept /\ UnityKept
<1> USE StutterKeeps
<1>1. CASE BridgeTakesReady
  <2>1. \A m \in toPythonResult' : m \in toPythonResult \/ m.type = "Result"
    BY <1>1, RelayAddsResults DEF BridgeTakesReady, R!PythonReady
  <2> QED BY <1>1, <2>1 DEF BridgeTakesReady, R!PythonReady, R!store, ResultsKept
<1>2. CASE BridgeSeesDisconnect
  BY <1>2 DEF BridgeSeesDisconnect, R!Disconnected, R!store, ResultsKept
<1>3. CASE BridgeRetriesResults
  <2>1. \A m \in toPythonResult' : m \in toPythonResult \/ m.type = "Result"
    BY <1>3, RelayAddsResults DEF BridgeRetriesResults, R!RetryPendingPythonResults
  <2> QED BY <1>3, <2>1
          DEF BridgeRetriesResults, R!RetryPendingPythonResults, R!store, ResultsKept
<1> QED BY <1>1, <1>2, <1>3

\* A confirmation of Python keeps both stores.
LEMMA ConfirmationTaken ==
    ASSUME NEW p \in Payloads, BridgeTakesConfirmation(p)
    PROVE  CommandsKept /\ ResultsKept /\ UnityKept
  BY StutterKeeps DEF BridgeTakesConfirmation, R!AcknowledgePythonReceipt, ResultsKept

\* A commit that is a duplicate or refused keeps the result store.
LEMMA CommitAnswered ==
    ASSUME NEW p, R!CommitDuplicate(p[1], p) \/ R!CommitRefused(p[1], p)
    PROVE  ResultsKept
<1>1. \A s : R!CommitAck(p[1], p, s).status = s
  BY DEF R!CommitAck
<1> QED BY <1>1 DEF R!CommitDuplicate, R!CommitRefused, R!SendCommitAck, R!store, ResultsKept

\* The bridge takes a commit: it retires the result, and the command if it is
\* that of the result, or it keeps both stores.
LEMMA CommitTaken ==
    ASSUME TypeOK, ResultStore, NEW p \in Payloads, BridgeTakesCommit(p)
    PROVE  /\ UnityKept
           /\ \/ CommandsKept /\ ResultsKept
              \/ /\ resValues[p[1]] = p
                 /\ R!Commit(p[1], p)
                 /\ \/ /\ C!FinalizeExecution(p[1], p) /\ cmdValues[p[1]] = p
                    \/ /\ UNCHANGED commandVars /\ cmdValues[p[1]] # p
<1>1. UnityKept
  BY StutterKeeps DEF BridgeTakesCommit
<1>2. CASE /\ R!CommitDuplicate(p[1], p) \/ R!CommitRefused(p[1], p)
           /\ UNCHANGED commandVars
  BY <1>1, <1>2, StutterKeeps, CommitAnswered
<1>3. CASE /\ R!Commit(p[1], p)
           /\ IF C!Active(p[1]) /\ cmdValues[p[1]] = p
              THEN C!FinalizeExecution(p[1], p) ELSE UNCHANGED commandVars
  <2>1. resValues[p[1]] = p
    BY <1>3 DEF R!Commit
  <2>2. C!Active(p[1]) <=> cmdValues[p[1]] # None
    BY DEF C!Active
  <2>3. p # None
    BY ReliableExecutionAssumption
  <2> QED BY <1>1, <1>3, <2>1, <2>2, <2>3
<1> QED BY <1>2, <1>3 DEF BridgeTakesCommit

\* Every step keeps the types.
LEMMA TypeStep == TypeOK /\ [Next]_vars => TypeOK'
<1> SUFFICES ASSUME TypeOK, [Next]_vars PROVE TypeOK'
  OBVIOUS
<1> USE ReliableExecutionAssumption
<1> DEFINE CommandTypes ==
             /\ cmdValues \in Identities /\ cmdTerminal \in Identities
             /\ toUnityCommand \subseteq C!Commands
           ResultTypes == resValues \in Identities /\ resTerminal \in Identities
           PythonTypes ==
             /\ phase \in [Executions -> Phases]
             /\ choice \in [Executions -> Actions \union {None}]
             /\ restarts \in Nat
           UnityTypes ==
             /\ unity \in [Executions -> {"unknown", "executing", "pending", "acked"}]
             /\ admitted \in Identities
<1>0. TypeOK <=> CommandTypes /\ ResultTypes /\ PythonTypes /\ UnityTypes
  BY DEF TypeOK
<1>0p. TypeOK' <=> CommandTypes' /\ ResultTypes' /\ PythonTypes' /\ UnityTypes'
  BY DEF TypeOK
<1>1. CommandsKept => CommandTypes'
  <2> SUFFICES ASSUME CommandsKept PROVE CommandTypes'
    OBVIOUS
  <2>1. \A e \in Executions : cmdValues[e] # None => C!Command(e, cmdValues[e]) \in C!Commands
    BY <1>0 DEF C!Command, C!Commands, Identities
  <2> QED BY <1>0, <2>1 DEF CommandsKept
<1>2. ResultsKept => ResultTypes'
  BY <1>0 DEF ResultsKept
<1>3. UnityKept => UnityTypes'
  BY <1>0 DEF UnityKept
<1>4. UNCHANGED pythonVars => PythonTypes'
  BY <1>0 DEF pythonVars
<1> HIDE DEF CommandTypes, ResultTypes, PythonTypes, UnityTypes
<1>5. CASE Python
  <2>1. CommandTypes' /\ ResultTypes' /\ UnityTypes'
    BY <1>1, <1>2, <1>3, <1>5, PythonKeeps
  <2>2. PythonTypes'
    <3> USE <1>0 DEF PythonTypes, Phases, Waiting
    <3>1. ASSUME NEW e \in Executions, NEW a \in Actions, Submit(e, a)
          PROVE  PythonTypes'
      BY <3>1 DEF Submit
    <3>2. ASSUME NEW e \in Executions, NEW m, TakeReceipt(e, m) PROVE PythonTypes'
      BY <3>2 DEF TakeReceipt
    <3>3. ASSUME NEW e \in Executions, NEW m,
                 TakeResult(e, m) \/ TakeRepeatedResult(e, m) \/ TakeStrayResult(e, m)
          PROVE  PythonTypes'
      BY <3>3 DEF TakeResult, TakeRepeatedResult, TakeStrayResult
    <3>4. ASSUME NEW e \in Executions, NEW m, TakeCommitAck(e, m) PROVE PythonTypes'
      BY <3>4 DEF TakeCommitAck
    <3>5. ASSUME NEW e \in Executions, SendCommit(e) \/ Abort(e) PROVE PythonTypes'
      BY <3>5 DEF SendCommit, Abort
    <3>6. CASE Restart
      BY <3>6 DEF Restart
    <3> QED BY <1>5, <3>1, <3>2, <3>3, <3>4, <3>5, <3>6 DEF Python
  <2> QED BY <1>0p, <2>1, <2>2
<1>6. CASE Bridge
  <2>0. PythonTypes'
    BY <1>4, <1>6 DEF Bridge, BridgeTakesCommand, BridgeTakesUnityReceipt, BridgeTakesResult,
       BridgeTakesConfirmation, BridgeTakesCommit, BridgeRetriesCommands, BridgeTakesReady,
       BridgeSeesDisconnect, BridgeRetriesResults
  <2>1. ASSUME NEW p \in Payloads, BridgeTakesCommand(p) PROVE TypeOK'
    <3>1. ResultsKept /\ UnityKept
      BY <2>1, CommandTaken
    <3>2. CASE CommandsKept
      BY <1>0p, <1>1, <1>2, <1>3, <2>0, <3>1, <3>2
    <3>3. CASE /\ cmdValues' = [cmdValues EXCEPT ![p[1]] = p]
               /\ UNCHANGED <<cmdTerminal, cmdOrder>>
               /\ \A m \in toUnityCommand' :
                    m \in toUnityCommand \/ m = C!Command(p[1], p)
      <4>1. C!Command(p[1], p) \in C!Commands
        BY PayloadFields DEF C!Command, C!Commands
      <4>2. CommandTypes'
        BY <1>0, <3>3, <4>1 DEF CommandTypes, Identities
      <4> QED BY <1>0p, <1>2, <1>3, <2>0, <3>1, <4>2
    <3> QED BY <2>1, <3>2, <3>3, CommandTaken
  <2>2. ASSUME NEW p \in Payloads, BridgeTakesUnityReceipt(p) \/ BridgeTakesConfirmation(p)
        PROVE  TypeOK'
    BY <1>0p, <1>1, <1>2, <1>3, <2>0, <2>2, ReceiptTaken, ConfirmationTaken
  <2>3. ASSUME NEW p \in Payloads, BridgeTakesResult(p) PROVE TypeOK'
    <3>1. CommandsKept /\ UnityKept
      BY <2>3, ResultTaken
    <3>2. CASE ResultsKept
      BY <1>0p, <1>1, <1>2, <1>3, <2>0, <3>1, <3>2
    <3>3. CASE /\ resValues' = [resValues EXCEPT ![p[1]] = p]
               /\ UNCHANGED <<resTerminal, resOrder>>
      <4>1. ResultTypes'
        BY <1>0, <3>3 DEF ResultTypes, Identities
      <4> QED BY <1>0p, <1>1, <1>3, <2>0, <3>1, <4>1
    <3> QED BY <2>3, <3>2, <3>3, ResultTaken
  <2>4. ASSUME NEW p \in Payloads, BridgeTakesCommit(p) PROVE TypeOK'
    <3>1. UnityTypes'
      BY <1>3, <2>4, StutterKeeps DEF BridgeTakesCommit
    <3>2. ResultTypes'
      <4>1. CASE R!Commit(p[1], p)
        BY <1>0, <4>1 DEF R!Commit, ResultTypes, Identities
      <4>2. CASE R!CommitDuplicate(p[1], p) \/ R!CommitRefused(p[1], p)
        BY <1>2, <4>2, CommitAnswered
      <4> QED BY <2>4, <4>1, <4>2 DEF BridgeTakesCommit
    <3>3. CommandTypes'
      <4>1. CASE C!FinalizeExecution(p[1], p)
        BY <1>0, <4>1 DEF C!FinalizeExecution, CommandTypes, Identities
      <4>2. CASE UNCHANGED commandVars
        BY <1>1, <4>2, StutterKeeps
      <4> QED BY <2>4, <4>1, <4>2 DEF BridgeTakesCommit
    <3> QED BY <1>0p, <2>0, <3>1, <3>2, <3>3
  <2>5. CASE BridgeRetriesCommands
    BY <1>0p, <1>1, <1>2, <1>3, <2>0, <2>5, CommandsRetried
  <2>6. CASE BridgeTakesReady \/ BridgeSeesDisconnect \/ BridgeRetriesResults
    BY <1>0p, <1>1, <1>2, <1>3, <2>0, <2>6, ResultsRelayed
  <2> QED BY <1>6, <2>1, <2>2, <2>3, <2>4, <2>5, <2>6 DEF Bridge
<1>7. CASE Unity
  <2>1. PythonTypes' /\ CommandTypes' /\ ResultTypes'
    BY <1>1, <1>2, <1>4, <1>7, StutterKeeps, LinksKeep
       DEF Unity, UnityTakesKnown, UnityAdmits, UnityCompletes, UnityResends, UnityTakesAck
  <2>2. UnityTypes'
    <3> USE <1>0 DEF UnityTypes
    <3>1. ASSUME NEW m \in toUnityCommand, UnityTakesKnown(m) PROVE UnityTypes'
      BY <3>1 DEF UnityTakesKnown, unityVars
    <3>2. ASSUME NEW m \in toUnityCommand, UnityAdmits(m) PROVE UnityTypes'
      <4>1. m.key \in Executions /\ m.payload \in Payloads
        BY DEF CommandTypes, C!Commands
      <4> QED BY <3>2, <4>1 DEF UnityAdmits, Identities
    <3>3. ASSUME NEW e \in Executions, UnityCompletes(e) \/ UnityResends(e)
          PROVE  UnityTypes'
      BY <3>3 DEF UnityCompletes, UnityResends, unityVars
    <3>4. ASSUME NEW m, UnityTakesAck(m) PROVE UnityTypes'
      BY <3>4 DEF UnityTakesAck
    <3> QED BY <1>7, <3>1, <3>2, <3>3, <3>4 DEF Unity
  <2> QED BY <1>0p, <2>1, <2>2
<1>8. CASE Lose
  <2>1. UNCHANGED pythonVars
    BY <1>8 DEF Lose
  <2> QED BY <1>0p, <1>1, <1>2, <1>3, <1>4, <1>8, <2>1, LoseKeeps
<1>9. CASE UNCHANGED vars
  BY <1>9 DEF vars, commandVars, resultVars, pythonVars, unityVars, TypeOK
<1> QED BY <1>5, <1>6, <1>7, <1>8, <1>9 DEF Next

-----------------------------------------------------------------------------
\* A step that leaves the result store leaves its consistency.
LEMMA StoreKept ==
    ASSUME ResultStore, ResultsKept
    PROVE  ResultStore' /\ (NothingEvicted' <=> NothingEvicted)
<1>1. R!TombstonedKeys' = R!TombstonedKeys
  BY DEF ResultsKept, R!TombstonedKeys
<1>2. UNCHANGED <<resValues, resTerminal, resOrder>>
  BY DEF ResultsKept
<1> QED BY <1>1, <1>2 DEF ResultStore, NothingEvicted

\* A result that is learnt leaves the tombstones as they are.
LEMMA NewResultStored ==
    ASSUME TypeOK, ResultStore, NEW p \in Payloads, KnownResult(p[1]) = None,
           resValues' = [resValues EXCEPT ![p[1]] = p],
           UNCHANGED <<resTerminal, resOrder>>
    PROVE  ResultStore' /\ (NothingEvicted' <=> NothingEvicted)
<1>1. R!TombstonedKeys' = R!TombstonedKeys
  BY DEF R!TombstonedKeys
<1>2. \A e \in Executions : resValues'[e] # None => resTerminal'[e] = None
  BY DEF KnownResult, ResultStore, TypeOK, Identities
<1> QED BY <1>1, <1>2 DEF ResultStore, NothingEvicted

\* A commit adds its tombstone; if none has been evicted after it, none was
\* before, and it evicts none itself.
LEMMA CommitStored ==
    ASSUME TypeOK, ResultStore, NEW p \in Payloads, R!Commit(p[1], p)
    PROVE  /\ ResultStore'
           /\ resTerminal' = [e \in Executions |->
                IF e = p[1] THEN p
                ELSE IF e \in Evicted(resOrder, p[1], TombstoneCapacity)
                     THEN None ELSE resTerminal[e]]
           /\ resOrder' = Pushed(resOrder, p[1], TombstoneCapacity)
           /\ NothingEvicted' =>
                NothingEvicted /\ Evicted(resOrder, p[1], TombstoneCapacity) = {}
<1> USE ReliableExecutionAssumption
<1> DEFINE k == p[1]
           T == R!TombstonedKeys
           gone == Evicted(resOrder, k, TombstoneCapacity)
<1>1. k \in Executions /\ p # None
  BY PayloadFields
<1>2. /\ resValues[k] = p
      /\ resValues' = [resValues EXCEPT ![k] = None]
      /\ resTerminal' = [e \in Executions |->
                           IF e = k THEN p ELSE IF e \in gone THEN None ELSE resTerminal[e]]
      /\ resOrder' = Pushed(resOrder, k, TombstoneCapacity)
  BY SameFifo DEF R!Commit
<1>3. k \notin T /\ Lists(resOrder, T, TombstoneCapacity)
  BY <1>1, <1>2 DEF ResultStore, R!TombstonedKeys
<1>4. /\ Lists(resOrder', (T \union {k}) \ gone, TombstoneCapacity)
      /\ k \notin gone
  BY <1>2, <1>3, ListsPushed
<1>5. /\ Len(resOrder) < TombstoneCapacity => gone = {}
      /\ ~(Len(resOrder) < TombstoneCapacity) =>
            gone = {Head(resOrder)} /\ Head(resOrder) \in T /\ Len(resOrder') = TombstoneCapacity
  BY <1>2, <1>3, PushedLength
<1> HIDE DEF gone, k
<1>6. R!TombstonedKeys' = (T \union {k}) \ gone
  BY <1>1, <1>2, <1>4 DEF R!TombstonedKeys
<1>7. \A e \in Executions : resValues'[e] # None => resTerminal'[e] = None
  BY <1>1, <1>2 DEF ResultStore, TypeOK, Identities
<1>8. ResultStore'
  BY <1>4, <1>6, <1>7 DEF ResultStore
<1>9. NothingEvicted' => Len(resOrder) < TombstoneCapacity
  <2> SUFFICES ASSUME ~(Len(resOrder) < TombstoneCapacity) PROVE ~NothingEvicted'
    OBVIOUS
  <2> DEFINE oldest == Head(resOrder)
  <2>1. gone = {oldest} /\ oldest \in T /\ Len(resOrder') = TombstoneCapacity
    BY <1>5
  <2>2. oldest \in Executions /\ oldest \notin R!TombstonedKeys'
    BY <2>1, <1>6 DEF R!TombstonedKeys
  <2> QED BY <2>1, <2>2 DEF NothingEvicted
<1> QED BY <1>2, <1>5, <1>8, <1>9 DEF NothingEvicted, gone, k

\* A store that is kept knows what it knew.
LEMMA KnownKept ==
    /\ CommandsKept =>
         \A e \in Executions : KnownCommand(e)' = KnownCommand(e)
    /\ ResultsKept =>
         \A e \in Executions : KnownResult(e)' = KnownResult(e)
  BY DEF CommandsKept, ResultsKept, KnownCommand, KnownResult

\* What is forwarded stays what the bridge knows.
LEMMA ForwardedKept ==
    ASSUME TypeOK, ForwardedIsKnown, CommandsKept
    PROVE  ForwardedIsKnown'
<1>1. \A e \in Executions : KnownCommand(e)' = KnownCommand(e)
  BY KnownKept
<1> SUFFICES ASSUME NEW m \in toUnityCommand' PROVE m.payload = KnownCommand(m.key)'
  BY DEF ForwardedIsKnown
<1>2. CASE m \in toUnityCommand
  <2>1. m.key \in Executions /\ m.payload = KnownCommand(m.key)
    BY <1>2 DEF ForwardedIsKnown, TypeOK, C!Commands
  <2> QED BY <1>1, <2>1
<1>3. ASSUME NEW e \in Executions, m = C!Command(e, cmdValues[e]), cmdValues[e] # None
      PROVE  m.payload = KnownCommand(m.key)'
  <2>1. m.key = e /\ m.payload = cmdValues[e]
    BY <1>3 DEF C!Command
  <2>2. KnownCommand(e) = cmdValues[e]
    BY <1>3 DEF KnownCommand
  <2> QED BY <1>1, <2>1, <2>2
<1> QED BY <1>2, <1>3 DEF CommandsKept

\* What is stored stays named, and what is forwarded is still known.
LEMMA CommandSideKept ==
    ASSUME TypeOK, CommandIsNamed, ForwardedIsKnown, CommandsKept
    PROVE  CommandIsNamed' /\ ForwardedIsKnown'
  BY KnownKept, ForwardedKept DEF CommandIsNamed

\* A step that moves no store and not Unity keeps Joined.
LEMMA QuietKeepsJoined ==
    ASSUME TypeOK, Joined, CommandsKept, ResultsKept, UnityKept
    PROVE  Joined'
<1>1. CommandIsNamed' /\ ForwardedIsKnown'
  BY CommandSideKept DEF Joined
<1>2. AdmittedIsKnown'
  BY KnownKept DEF Joined, AdmittedIsKnown, UnityKept
<1>3. ResultsArePerformed'
  BY KnownKept DEF Joined, ResultsArePerformed, Performed, UnityKept
<1>4. StoresJoined'
  BY DEF Joined, StoresJoined, BrokersAgree, CommandsKept, ResultsKept
<1>5. CommittedIsTrue'
  BY DEF Joined, CommittedIsTrue, ResultsKept
<1> QED BY <1>1, <1>2, <1>3, <1>4, <1>5 DEF Joined

\* A command of an execution the bridge knows nothing of: Unity has not admitted
\* the execution, and no result of it is stored.
LEMMA NewCommandKeepsJoined ==
    ASSUME TypeOK, Joined, NEW p \in Payloads, KnownCommand(p[1]) = None,
           cmdValues' = [cmdValues EXCEPT ![p[1]] = p],
           UNCHANGED <<cmdTerminal, cmdOrder>>,
           \A m \in toUnityCommand' : m \in toUnityCommand \/ m = C!Command(p[1], p),
           ResultsKept, UnityKept
    PROVE  Joined'
<1> DEFINE k == p[1]
<1>1. k \in Executions /\ p # None /\ p[1] = k
  BY PayloadFields, ReliableExecutionAssumption
<1>2. cmdValues[k] = None /\ cmdTerminal[k] = None
  BY DEF KnownCommand
<1>3. \A e \in Executions : KnownCommand(e)' = IF e = k THEN p ELSE KnownCommand(e)
  BY <1>1 DEF KnownCommand, TypeOK, Identities
<1> HIDE DEF k
<1>4. CommandIsNamed'
  BY <1>1, <1>3 DEF CommandIsNamed, Joined
<1>5. ForwardedIsKnown'
  <2> SUFFICES ASSUME NEW m \in toUnityCommand' PROVE m.payload = KnownCommand(m.key)'
    BY DEF ForwardedIsKnown
  <2>1. CASE m \in toUnityCommand
    <3>1. m.key \in Executions /\ m.payload \in Payloads /\ m.payload = KnownCommand(m.key)
      BY <2>1 DEF ForwardedIsKnown, TypeOK, C!Commands, Joined
    <3>2. m.key # k
      BY <3>1, ReliableExecutionAssumption DEF k
    <3> QED BY <3>1, <3>2, <1>3
  <2>2. CASE m = C!Command(k, p)
    BY <2>2, <1>1, <1>3 DEF C!Command
  <2> QED BY <2>1, <2>2 DEF k
<1>6. AdmittedIsKnown'
  <2> SUFFICES ASSUME NEW e \in Executions, unity'[e] # "unknown"
               PROVE  admitted'[e] # None /\ admitted'[e] = KnownCommand(e)'
    BY DEF AdmittedIsKnown
  <2>1. admitted[e] # None /\ admitted[e] = KnownCommand(e) /\ admitted'[e] = admitted[e]
    BY DEF UnityKept, Joined, AdmittedIsKnown
  <2>2. e # k
    BY <2>1 DEF k
  <2> QED BY <2>1, <2>2, <1>3
<1>7. ResultsArePerformed'
  BY KnownKept DEF Joined, ResultsArePerformed, Performed, UnityKept
<1>8. StoresJoined'
  <2>1. resValues[k] = None
    BY <1>1, <1>2 DEF Joined, StoresJoined, BrokersAgree
  <2>2. /\ UNCHANGED <<resValues, resTerminal, resOrder, cmdTerminal, cmdOrder>>
        /\ \A e \in Executions : e # k => cmdValues'[e] = cmdValues[e]
    BY DEF ResultsKept, k, TypeOK, Identities
  <2> QED BY <1>2, <2>1, <2>2 DEF Joined, StoresJoined, BrokersAgree
<1>9. CommittedIsTrue'
  BY DEF Joined, CommittedIsTrue, ResultsKept
<1> QED BY <1>4, <1>5, <1>6, <1>7, <1>8, <1>9 DEF Joined

\* A result of an execution the result broker knows nothing of: it is what Unity
\* performed, hence the active command of the other broker.
LEMMA NewResultKeepsJoined ==
    ASSUME TypeOK, Joined, NEW p \in Payloads, p \in unityResults, KnownResult(p[1]) = None,
           resValues' = [resValues EXCEPT ![p[1]] = p],
           UNCHANGED <<resTerminal, resOrder>>,
           \A m \in toPythonResult' : m \in toPythonResult \/ m.type = "Result",
           CommandsKept, UnityKept
    PROVE  Joined'
<1> DEFINE k == p[1]
<1>1. k \in Executions /\ p # None /\ p[1] = k
  BY PayloadFields, ReliableExecutionAssumption
<1>2. resValues[k] = None /\ resTerminal[k] = None
  BY DEF KnownResult
<1>3. \A e \in Executions : KnownResult(e)' = IF e = k THEN p ELSE KnownResult(e)
  BY <1>1 DEF KnownResult, TypeOK, Identities
<1> HIDE DEF k
<1>4. Performed(p)
  BY DEF Joined, ResultsArePerformed
<1>5. cmdValues[k] = p
  <2>1. admitted[k] = p /\ unity[k] # "unknown"
    BY <1>1, <1>4 DEF Performed
  <2>2. KnownCommand(k) = p
    BY <1>1, <2>1 DEF Joined, AdmittedIsKnown
  <2>3. cmdTerminal[k] = None
    BY <1>1, <1>2 DEF Joined, StoresJoined, BrokersAgree
  <2> QED BY <1>1, <2>2, <2>3 DEF KnownCommand
<1>6. CommandIsNamed' /\ ForwardedIsKnown'
  BY CommandSideKept DEF Joined
<1>7. AdmittedIsKnown'
  BY KnownKept DEF Joined, AdmittedIsKnown, UnityKept
<1>8. ResultsArePerformed'
  BY <1>1, <1>3, <1>4 DEF Joined, ResultsArePerformed, Performed, UnityKept
<1>9. StoresJoined'
  <2>1. /\ UNCHANGED <<resTerminal, resOrder, cmdValues, cmdTerminal, cmdOrder>>
        /\ \A e \in Executions : resValues'[e] = IF e = k THEN p ELSE resValues[e]
    BY <1>1 DEF CommandsKept, k, TypeOK, Identities
  <2> QED BY <1>5, <2>1 DEF Joined, StoresJoined, BrokersAgree
<1>10. CommittedIsTrue'
  BY DEF Joined, CommittedIsTrue
<1> QED BY <1>6, <1>7, <1>8, <1>9, <1>10 DEF Joined

\* A commit that evicts no tombstone retires the command with the result.
LEMMA CommitKeepsJoined ==
    ASSUME TypeOK, ResultStore, Joined, NEW p \in Payloads, BridgeTakesCommit(p),
           R!Commit(p[1], p), NothingEvicted', UnityKept
    PROVE  Joined' /\ \A e \in Executions : resTerminal[e] # None => resTerminal'[e] = resTerminal[e]
<1> DEFINE k == p[1]
           room == Evicted(resOrder, k, TombstoneCapacity) = {}
<1>1. k \in Executions /\ p # None /\ p[1] = k
  BY PayloadFields, ReliableExecutionAssumption
<1>2. /\ resValues[k] = p
      /\ resValues' = [resValues EXCEPT ![k] = None]
      /\ toPythonResult' \in
           {toPythonResult, toPythonResult \union {R!CommitAck(k, p, "COMMITTED")}}
  BY DEF R!Commit, R!SendCommitAck
<1>3. /\ resTerminal' = [e \in Executions |->
           IF e = k THEN p
           ELSE IF e \in Evicted(resOrder, k, TombstoneCapacity) THEN None ELSE resTerminal[e]]
      /\ resOrder' = Pushed(resOrder, k, TombstoneCapacity)
      /\ room
  BY CommitStored
<1>4. cmdValues[k] = p /\ cmdTerminal[k] = None /\ resTerminal[k] = None
  BY <1>1, <1>2 DEF Joined, StoresJoined, BrokersAgree, ResultStore
<1>5. C!FinalizeExecution(k, p)
  <2>1. CASE R!CommitDuplicate(p[1], p) \/ R!CommitRefused(p[1], p)
    BY <1>1, <1>2, <2>1
       DEF R!CommitDuplicate, R!CommitRefused, R!KnownResult, R!Active
  <2>2. C!Active(k)
    BY <1>1, <1>4 DEF C!Active
  <2> QED BY <1>4, <2>1, <2>2 DEF BridgeTakesCommit
<1>6. /\ cmdValues' = [cmdValues EXCEPT ![k] = None]
      /\ cmdTerminal' = [e \in Executions |->
           IF e = k THEN p
           ELSE IF e \in Evicted(cmdOrder, k, TombstoneCapacity) THEN None ELSE cmdTerminal[e]]
      /\ cmdOrder' = Pushed(cmdOrder, k, TombstoneCapacity)
      /\ UNCHANGED toUnityCommand
  BY <1>5, SameFifo DEF C!FinalizeExecution
<1>7. cmdOrder = resOrder
  BY DEF Joined, StoresJoined
<1>8. /\ \A e \in Executions : resTerminal'[e] = IF e = k THEN p ELSE resTerminal[e]
      /\ \A e \in Executions : cmdTerminal'[e] = IF e = k THEN p ELSE cmdTerminal[e]
      /\ cmdOrder' = resOrder'
  BY <1>3, <1>6, <1>7
<1>9. /\ \A e \in Executions : resValues'[e] = IF e = k THEN None ELSE resValues[e]
      /\ \A e \in Executions : cmdValues'[e] = IF e = k THEN None ELSE cmdValues[e]
  BY <1>2, <1>6 DEF TypeOK, Identities
<1> HIDE DEF k, room
<1>10. \A e \in Executions : KnownCommand(e)' = KnownCommand(e)
  BY <1>1, <1>4, <1>8, <1>9 DEF KnownCommand
<1>11. \A e \in Executions : KnownResult(e)' = KnownResult(e)
  BY <1>1, <1>2, <1>8, <1>9 DEF KnownResult
<1>12. CommandIsNamed'
  BY <1>10 DEF Joined, CommandIsNamed
<1>13. ForwardedIsKnown'
  BY <1>6, <1>10 DEF Joined, ForwardedIsKnown, TypeOK, C!Commands
<1>14. AdmittedIsKnown'
  BY <1>10 DEF Joined, AdmittedIsKnown, UnityKept
<1>15. ResultsArePerformed'
  BY <1>11 DEF Joined, ResultsArePerformed, Performed, UnityKept
<1>16. StoresJoined'
  BY <1>8, <1>9 DEF Joined, StoresJoined, BrokersAgree
<1>17. CommittedIsTrue'
  <2> SUFFICES ASSUME NEW m \in toPythonResult', m.type = "CommitAck", m.status = "COMMITTED"
               PROVE  /\ m.key \in Executions
                      /\ resTerminal'[m.key] = m.result /\ m.result # None
    BY DEF CommittedIsTrue
  <2>1. CASE m \in toPythonResult
    <3>1. m.key \in Executions /\ resTerminal[m.key] = m.result /\ m.result # None
      BY <2>1 DEF Joined, CommittedIsTrue
    <3> QED BY <3>1, <1>4, <1>8
  <2>2. CASE m = R!CommitAck(k, p, "COMMITTED")
    <3>1. m.key = k /\ m.result = p
      BY <2>2 DEF R!CommitAck
    <3> QED BY <3>1, <1>1, <1>8
  <2> QED BY <1>2, <2>1, <2>2
<1> QED BY <1>4, <1>8, <1>12, <1>13, <1>14, <1>15, <1>16, <1>17 DEF Joined

\* Unity admits a command: it is the one the bridge knows.
LEMMA AdmissionKeepsJoined ==
    ASSUME TypeOK, Joined, NEW m \in toUnityCommand, UnityAdmits(m)
    PROVE  /\ Joined' /\ CommandsKept /\ ResultsKept
           /\ \A e \in Executions :
                unity[e] # "unknown" => unity'[e] = unity[e] /\ admitted'[e] = admitted[e]
<1> DEFINE k == m.key
           p == m.payload
<1>1. k \in Executions /\ p \in Payloads /\ p # None /\ p = KnownCommand(k)
  BY ReliableExecutionAssumption DEF TypeOK, C!Commands, Joined, ForwardedIsKnown
<1>2. CommandsKept /\ ResultsKept
  BY StutterKeeps, LinksKeep DEF UnityAdmits
<1>3. /\ unity[k] = "unknown"
      /\ unity' = [unity EXCEPT ![k] = "executing"]
      /\ admitted' = [admitted EXCEPT ![k] = p]
      /\ UNCHANGED unityResults
  BY DEF UnityAdmits
<1>4. \A e \in Executions :
        /\ unity'[e] = IF e = k THEN "executing" ELSE unity[e]
        /\ admitted'[e] = IF e = k THEN p ELSE admitted[e]
  BY <1>3 DEF TypeOK, Identities
<1> HIDE DEF k, p
<1>5. CommandIsNamed' /\ ForwardedIsKnown'
  BY <1>2, CommandSideKept DEF Joined
<1>6. AdmittedIsKnown'
  BY <1>1, <1>2, <1>4, KnownKept DEF Joined, AdmittedIsKnown
<1>7. ResultsArePerformed'
  <2>1. \A q : Performed(q) => q[1] # k
    BY <1>3 DEF Performed
  <2>2. \A q : Performed(q) => Performed(q)'
    BY <2>1, <1>3 DEF Performed, TypeOK, Identities
  <2> QED BY <1>2, <1>3, <2>2, KnownKept DEF Joined, ResultsArePerformed
<1>8. StoresJoined' /\ CommittedIsTrue'
  BY <1>2 DEF Joined, StoresJoined, BrokersAgree, CommittedIsTrue, CommandsKept, ResultsKept
<1> QED BY <1>2, <1>3, <1>4, <1>5, <1>6, <1>7, <1>8 DEF Joined

\* Unity sends the result of what it admitted.
LEMMA ResultSentKeepsJoined ==
    ASSUME TypeOK, Joined, NEW e \in Executions, UnityCompletes(e) \/ UnityResends(e)
    PROVE  /\ Joined' /\ CommandsKept /\ ResultsKept
           /\ UNCHANGED admitted
           /\ \A d \in Executions : unity[d] = "executing" \/ unity'[d] = unity[d]
<1>1. CommandsKept /\ ResultsKept
  BY StutterKeeps DEF UnityCompletes, UnityResends
<1>2. /\ unity[e] \in {"executing", "pending"}
      /\ unityResults' = unityResults \union {admitted[e]}
      /\ UNCHANGED admitted
  BY DEF UnityCompletes, UnityResends, unityVars
<1>3. /\ \A d \in Executions : unity'[d] = IF d = e THEN "pending" ELSE unity[d]
      /\ \A d : d # e => unity'[d] = unity[d]
  <2>1. CASE UnityCompletes(e)
    BY <2>1 DEF UnityCompletes, TypeOK
  <2>2. CASE UnityResends(e)
    BY <2>2 DEF UnityResends, unityVars
  <2> QED BY <2>1, <2>2
<1>4. admitted[e] # None /\ admitted[e][1] = e
  BY <1>2 DEF Joined, AdmittedIsKnown, CommandIsNamed
<1>5. CommandIsNamed' /\ ForwardedIsKnown'
  BY <1>1, CommandSideKept DEF Joined
<1>6. AdmittedIsKnown'
  BY <1>1, <1>2, <1>3, KnownKept DEF Joined, AdmittedIsKnown
<1>7. ResultsArePerformed'
  <2>1. \A q : Performed(q) => Performed(q)'
    BY <1>2, <1>3 DEF Performed
  <2>2. Performed(admitted[e])'
    BY <1>2, <1>3, <1>4 DEF Performed
  <2> QED BY <1>1, <1>2, <2>1, <2>2, KnownKept DEF Joined, ResultsArePerformed
<1>8. StoresJoined' /\ CommittedIsTrue'
  BY <1>1 DEF Joined, StoresJoined, BrokersAgree, CommittedIsTrue, CommandsKept, ResultsKept
<1> QED BY <1>1, <1>2, <1>3, <1>5, <1>6, <1>7, <1>8 DEF Joined

\* Unity takes a durable acknowledgement.
LEMMA AckKeepsJoined ==
    ASSUME TypeOK, Joined, NEW m, UnityTakesAck(m)
    PROVE  /\ Joined' /\ CommandsKept /\ ResultsKept
           /\ UNCHANGED admitted
           /\ \A d \in Executions :
                \/ unity'[d] = unity[d]
                \/ unity[d] = "pending" /\ unity'[d] = "acked"
<1>1. CommandsKept /\ ResultsKept
  BY StutterKeeps, LinksKeep DEF UnityTakesAck
<1>2. UNCHANGED <<admitted, unityResults>>
  BY DEF UnityTakesAck, downlink
<1>3. \A x : \/ unity'[x] = unity[x]
             \/ unity[x] = "pending" /\ unity'[x] = "acked"
  BY DEF UnityTakesAck, TypeOK
<1>5. CommandIsNamed' /\ ForwardedIsKnown'
  BY <1>1, CommandSideKept DEF Joined
<1>6. AdmittedIsKnown'
  BY <1>1, <1>2, <1>3, KnownKept DEF Joined, AdmittedIsKnown
<1>7. ResultsArePerformed'
  <2>1. \A q : Performed(q) => Performed(q)'
    BY <1>2, <1>3 DEF Performed
  <2> QED BY <1>1, <1>2, <2>1, KnownKept DEF Joined, ResultsArePerformed
<1>8. StoresJoined' /\ CommittedIsTrue'
  BY <1>1 DEF Joined, StoresJoined, BrokersAgree, CommittedIsTrue, CommandsKept, ResultsKept
<1> QED BY <1>1, <1>2, <1>3, <1>5, <1>6, <1>7, <1>8 DEF Joined

\* What is committed stays committed.
CommittedKept ==
    \A e \in Executions : resTerminal[e] # None => resTerminal'[e] = resTerminal[e]

\* What is performed stays performed.
PerformedKept ==
    \A e \in Executions :
        unity[e] \in {"pending", "acked"} =>
            unity'[e] \in {"pending", "acked"} /\ admitted'[e] = admitted[e]

\* What a step keeps of the stores, of Joined and of what is over.
StepKeeps ==
    /\ ResultStore'
    /\ NothingEvicted' =>
         NothingEvicted /\ (Joined => Joined' /\ CommittedKept /\ PerformedKept)

\* A step that moves no store and not Unity.
LEMMA QuietStep ==
    ASSUME TypeOK, ResultStore, CommandsKept, ResultsKept, UnityKept
    PROVE  StepKeeps
<1>1. CommittedKept /\ PerformedKept
  BY DEF ResultsKept, UnityKept, CommittedKept, PerformedKept
<1> QED BY <1>1, StoreKept, QuietKeepsJoined DEF StepKeeps

\* Every step of the bridge.
LEMMA BridgeStep ==
    ASSUME TypeOK, ResultStore, Bridge
    PROVE  StepKeeps
<1>1. ASSUME NEW p \in Payloads, BridgeTakesCommand(p) PROVE StepKeeps
  <2>1. CASE CommandsKept
    BY <1>1, <2>1, CommandTaken, QuietStep
  <2>2. CASE /\ KnownCommand(p[1]) = None
             /\ cmdValues' = [cmdValues EXCEPT ![p[1]] = p]
             /\ UNCHANGED <<cmdTerminal, cmdOrder>>
             /\ \A m \in toUnityCommand' :
                  m \in toUnityCommand \/ m = C!Command(p[1], p)
    <3>1. ResultsKept /\ UnityKept
      BY <1>1, CommandTaken
    <3>2. CommittedKept /\ PerformedKept
      BY <3>1 DEF ResultsKept, UnityKept, CommittedKept, PerformedKept
    <3>3. Joined => Joined'
      BY <2>2, <3>1, NewCommandKeepsJoined
    <3> QED BY <3>1, <3>2, <3>3, StoreKept DEF StepKeeps
  <2> QED BY <1>1, <2>1, <2>2, CommandTaken
<1>2. ASSUME NEW p \in Payloads, BridgeTakesUnityReceipt(p) \/ BridgeTakesConfirmation(p)
      PROVE  StepKeeps
  BY <1>2, ReceiptTaken, ConfirmationTaken, QuietStep
<1>3. ASSUME NEW p \in Payloads, BridgeTakesResult(p) PROVE StepKeeps
  <2>1. CASE ResultsKept
    BY <1>3, <2>1, ResultTaken, QuietStep
  <2>2. CASE /\ KnownResult(p[1]) = None
             /\ resValues' = [resValues EXCEPT ![p[1]] = p]
             /\ UNCHANGED <<resTerminal, resOrder>>
             /\ \A m \in toPythonResult' : m \in toPythonResult \/ m.type = "Result"
    <3>1. CommandsKept /\ UnityKept /\ p \in unityResults
      BY <1>3, ResultTaken
    <3>2. CommittedKept /\ PerformedKept
      BY <2>2, <3>1 DEF UnityKept, CommittedKept, PerformedKept
    <3>3. Joined => Joined'
      BY <2>2, <3>1, NewResultKeepsJoined
    <3>4. ResultStore' /\ (NothingEvicted' <=> NothingEvicted)
      BY <2>2, NewResultStored
    <3> QED BY <3>2, <3>3, <3>4 DEF StepKeeps
  <2> QED BY <1>3, <2>1, <2>2, ResultTaken
<1>4. ASSUME NEW p \in Payloads, BridgeTakesCommit(p) PROVE StepKeeps
  <2>1. UnityKept
    BY <1>4, CommitTaken
  <2>2. CASE CommandsKept /\ ResultsKept
    BY <2>1, <2>2, QuietStep
  <2>3. CASE R!Commit(p[1], p)
    <3>1. ResultStore' /\ (NothingEvicted' => NothingEvicted)
      BY <2>3, CommitStored
    <3>2. NothingEvicted' /\ Joined => Joined' /\ CommittedKept
      BY <1>4, <2>1, <2>3, CommitKeepsJoined DEF CommittedKept
    <3>3. PerformedKept
      BY <2>1 DEF UnityKept, PerformedKept
    <3> QED BY <3>1, <3>2, <3>3 DEF StepKeeps
  <2> QED BY <1>4, <2>2, <2>3, CommitTaken
<1>5. CASE BridgeRetriesCommands
  BY <1>5, CommandsRetried, QuietStep
<1>6. CASE BridgeTakesReady \/ BridgeSeesDisconnect \/ BridgeRetriesResults
  BY <1>6, ResultsRelayed, QuietStep
<1> QED BY <1>1, <1>2, <1>3, <1>4, <1>5, <1>6 DEF Bridge

\* Every step of Unity.
LEMMA UnityStep ==
    ASSUME TypeOK, ResultStore, Unity
    PROVE  StepKeeps
<1>1. CommandsKept /\ ResultsKept
  BY StutterKeeps, LinksKeep
     DEF Unity, UnityTakesKnown, UnityAdmits, UnityCompletes, UnityResends, UnityTakesAck
<1>2. ResultStore' /\ (NothingEvicted' <=> NothingEvicted) /\ CommittedKept
  BY <1>1, StoreKept DEF ResultsKept, CommittedKept
<1>3. Joined => Joined' /\ PerformedKept
  <2> SUFFICES ASSUME Joined PROVE Joined' /\ PerformedKept
    OBVIOUS
  <2>1. ASSUME NEW m \in toUnityCommand, UnityTakesKnown(m) PROVE Joined' /\ PerformedKept
    <3>1. UnityKept
      BY <2>1 DEF UnityTakesKnown, UnityKept, unityVars
    <3> QED BY <1>1, <3>1, QuietKeepsJoined DEF UnityKept, PerformedKept
  <2>2. ASSUME NEW m \in toUnityCommand, UnityAdmits(m) PROVE Joined' /\ PerformedKept
    BY <2>2, AdmissionKeepsJoined DEF PerformedKept
  <2>3. ASSUME NEW e \in Executions, UnityCompletes(e) \/ UnityResends(e)
        PROVE  Joined' /\ PerformedKept
    BY <2>3, ResultSentKeepsJoined DEF PerformedKept
  <2>4. ASSUME NEW m \in toUnityAck, UnityTakesAck(m) PROVE Joined' /\ PerformedKept
    BY <2>4, AckKeepsJoined DEF PerformedKept
  <2> QED BY <2>1, <2>2, <2>3, <2>4 DEF Unity
<1> QED BY <1>2, <1>3 DEF StepKeeps

\* Every step.
LEMMA EveryStepKeeps ==
    ASSUME TypeOK, ResultStore, [Next]_vars
    PROVE  StepKeeps
<1>1. CASE UNCHANGED vars
  <2>1. CommandsKept /\ ResultsKept /\ UnityKept
    BY <1>1, StutterKeeps DEF vars
  <2> QED BY <2>1, QuietStep
<1> QED BY <1>1, PythonKeeps, LoseKeeps, QuietStep, BridgeStep, UnityStep DEF Next

\* Python returns a transition only on COMMITTED for its own payload.
LEMMA TransitionIsAcknowledged ==
    ASSUME TypeOK, [Next]_vars, NEW e \in Executions, phase'[e] = "transition"
    PROVE  \/ phase[e] = "transition" /\ choice'[e] = choice[e]
           \/ /\ phase[e] = "awaitCommitAck" /\ choice'[e] = choice[e]
              /\ \E m \in toPythonResult :
                   /\ m.type = "CommitAck" /\ m.status = "COMMITTED"
                   /\ m.key = e /\ m.result = Payload(e)
<1> DEFINE Goal ==
             \/ phase[e] = "transition" /\ choice'[e] = choice[e]
             \/ /\ phase[e] = "awaitCommitAck" /\ choice'[e] = choice[e]
                /\ \E m \in toPythonResult :
                     /\ m.type = "CommitAck" /\ m.status = "COMMITTED"
                     /\ m.key = e /\ m.result = Payload(e)
<1> SUFFICES Goal
  OBVIOUS
<1>1. CASE UNCHANGED pythonVars
  BY <1>1 DEF pythonVars
<1>2. CASE Python
  <2>1. ASSUME NEW d \in Executions, NEW a \in Actions, Submit(d, a) PROVE Goal
    BY <2>1 DEF Submit, TypeOK
  <2>2. ASSUME NEW d \in Executions, NEW m, TakeReceipt(d, m) PROVE Goal
    BY <2>2 DEF TakeReceipt, TypeOK
  <2>3. ASSUME NEW d \in Executions, NEW m,
               TakeResult(d, m) \/ TakeRepeatedResult(d, m) \/ TakeStrayResult(d, m)
        PROVE  Goal
    BY <2>3 DEF TakeResult, TakeRepeatedResult, TakeStrayResult, TypeOK
  <2>4. ASSUME NEW d \in Executions, NEW m \in toPythonResult, TakeCommitAck(d, m) PROVE Goal
    BY <2>4 DEF TakeCommitAck, TypeOK
  <2>5. ASSUME NEW d \in Executions, SendCommit(d) \/ Abort(d) PROVE Goal
    BY <2>5 DEF SendCommit, Abort, TypeOK
  <2>6. CASE Restart
    BY <2>6 DEF Restart
  <2> QED BY <1>2, <2>1, <2>2, <2>3, <2>4, <2>5, <2>6 DEF Python
<1>3. Bridge \/ Unity \/ Lose \/ UNCHANGED vars => UNCHANGED pythonVars
  BY DEF Bridge, BridgeTakesCommand, BridgeTakesUnityReceipt, BridgeTakesResult,
         BridgeTakesConfirmation, BridgeTakesCommit, BridgeRetriesCommands, BridgeTakesReady,
         BridgeSeesDisconnect, BridgeRetriesResults,
         Unity, UnityTakesKnown, UnityAdmits, UnityCompletes, UnityResends, UnityTakesAck,
         Lose, vars
<1> QED BY <1>1, <1>2, <1>3 DEF Next

\* A transition stays committed and performed.
LEMMA TransitionStep ==
    ASSUME TypeOK, [Next]_vars, Joined, Joined', CommittedKept, TransitionIsCommitted
    PROVE  TransitionIsCommitted'
<1> SUFFICES ASSUME NEW e \in Executions, phase'[e] = "transition"
             PROVE  /\ resTerminal'[e] = Payload(e)'
                    /\ unity'[e] \in {"pending", "acked"} /\ admitted'[e] = Payload(e)'
  BY DEF TransitionIsCommitted
<1>1. choice'[e] = choice[e] /\ resTerminal[e] = Payload(e) /\ resTerminal[e] # None
  <2>1. CASE phase[e] = "transition" /\ choice'[e] = choice[e]
    <3>1. /\ resTerminal[e] = Payload(e) /\ admitted[e] = Payload(e)
          /\ unity[e] # "unknown"
      BY <2>1 DEF TransitionIsCommitted
    <3>2. admitted[e] # None
      BY <3>1 DEF Joined, AdmittedIsKnown
    <3> QED BY <2>1, <3>1, <3>2
  <2>2. ASSUME choice'[e] = choice[e],
               NEW m \in toPythonResult, m.type = "CommitAck", m.status = "COMMITTED",
               m.key = e, m.result = Payload(e)
        PROVE  choice'[e] = choice[e] /\ resTerminal[e] = Payload(e) /\ resTerminal[e] # None
    BY <2>2 DEF Joined, CommittedIsTrue
  <2> QED BY <2>1, <2>2, TransitionIsAcknowledged
<1>2. Payload(e)' = Payload(e) /\ resTerminal'[e] = Payload(e) /\ resTerminal'[e] # None
  BY <1>1 DEF Payload, CommittedKept
<1>3. KnownResult(e)' = resTerminal'[e]
  BY <1>2 DEF KnownResult, Joined, StoresJoined, BrokersAgree
<1>4. (resTerminal[e][1] = e /\ Performed(resTerminal[e]))'
  BY <1>2, <1>3 DEF Joined, ResultsArePerformed, Performed
<1> QED BY <1>2, <1>4 DEF Performed

\* The invariant is inductive.
LEMMA InvariantStep == IInv /\ [Next]_vars => IInv'
<1> SUFFICES ASSUME IInv, [Next]_vars PROVE IInv'
  OBVIOUS
<1>1. TypeOK /\ ResultStore
  BY DEF IInv
<1>2. TypeOK'
  BY <1>1, TypeStep
<1>3. StepKeeps
  BY <1>1, EveryStepKeeps
<1>4. NothingEvicted' => Joined' /\ TransitionIsCommitted'
  <2> SUFFICES ASSUME NothingEvicted' PROVE Joined' /\ TransitionIsCommitted'
    OBVIOUS
  <2>1. Joined /\ TransitionIsCommitted
    BY <1>3 DEF StepKeeps, IInv
  <2>2. Joined' /\ CommittedKept
    BY <1>3, <2>1 DEF StepKeeps
  <2> QED BY <1>1, <2>1, <2>2, TransitionStep
<1> QED BY <1>2, <1>3, <1>4 DEF IInv, StepKeeps

\* The invariant holds at first.
LEMMA InitInvariant == Init => IInv
<1> SUFFICES ASSUME Init PROVE IInv
  OBVIOUS
<1> USE ReliableExecutionAssumption
<1>1. /\ cmdValues = [e \in Executions |-> None] /\ cmdTerminal = [e \in Executions |-> None]
      /\ resValues = [e \in Executions |-> None] /\ resTerminal = [e \in Executions |-> None]
      /\ cmdOrder = <<>> /\ resOrder = <<>>
      /\ toUnityCommand = {} /\ toPythonResult = {}
  BY DEF Init, C!Init, R!Init
<1>2. TypeOK
  BY <1>1 DEF Init, TypeOK, Identities, Phases, Waiting
<1>3. ResultStore
  <2>1. R!TombstonedKeys = {}
    BY <1>1 DEF R!TombstonedKeys
  <2> QED BY <1>1, <2>1, ListsEmpty DEF ResultStore
<1>4. Joined
  BY <1>1 DEF Init, Joined, CommandIsNamed, ForwardedIsKnown, AdmittedIsKnown,
       ResultsArePerformed, StoresJoined, BrokersAgree, CommittedIsTrue, KnownCommand, KnownResult
<1>5. TransitionIsCommitted
  BY DEF Init, TransitionIsCommitted
<1> QED BY <1>2, <1>3, <1>4, <1>5 DEF IInv

\* The inductive invariant holds: types, the result store, and until the first
\* eviction the agreement of the bridge, Unity and the messages between them.
THEOREM PathInvariant == Spec => []IInv
  BY InitInvariant, InvariantStep, PTL DEF Spec

\* A result is held only for the command that is held, and both brokers retire an
\* execution in one step under one identity (the finalizer of the commit handler),
\* for every capacity, until the first tombstone is evicted.
THEOREM BrokersAgreeUntilEviction == Spec => [](NothingEvicted => BrokersAgree)
<1>1. IInv => (NothingEvicted => BrokersAgree)
  BY DEF IInv, Joined, StoresJoined
<1> QED BY <1>1, PathInvariant, PTL

\* A transition execute() has returned is committed under the payload Python asked
\* for, and Unity performed that payload, until the first tombstone is evicted.
THEOREM TransitionsCommittedUntilEviction ==
    Spec => [](NothingEvicted => TransitionIsCommitted)
<1>1. IInv => (NothingEvicted => TransitionIsCommitted)
  BY DEF IInv
<1> QED BY <1>1, PathInvariant, PTL
-----------------------------------------------------------------------------
\* The tombstones of all executions fit: no message is of an execution forgotten.
RoomForAll == IsFiniteSet(Executions) /\ Cardinality(Executions) <= TombstoneCapacity

\* A deque that lists a set has as many entries as the set.
LEMMA ListLength ==
    ASSUME NEW S, NEW order, NEW capacity \in Nat, Lists(order, S, capacity)
    PROVE  IsFiniteSet(S) /\ Cardinality(S) = Len(order)
<1>1. /\ order \in Seq(S) /\ Len(order) \in Nat
      /\ \A i, j \in 1..Len(order) : order[i] = order[j] => i = j
      /\ \A k \in S : \E i \in 1..Len(order) : order[i] = k
  BY DEF Lists
<1>2. order \in [1..Len(order) -> S]
  BY <1>1
<1>3. order \in Bijection(1..Len(order), S)
  BY <1>1, <1>2 DEF Bijection, Injection, Surjection, IsInjective
<1>4. IsFiniteSet(1..Len(order)) /\ Cardinality(1..Len(order)) = Len(order)
  <2> DEFINE n == Len(order)
  <2>1. n \in Nat /\ n \in Int /\ 1 \in Int
    BY <1>1
  <2> HIDE DEF n
  <2>2. IsFiniteSet(1..n) /\ Cardinality(1..n) = IF 1 > n THEN 0 ELSE n - 1 + 1
    BY <2>1, FS_Interval
  <2>3. Cardinality(1..n) = n
    BY <2>1, <2>2
  <2> QED BY <2>2, <2>3 DEF n
<1> QED BY <1>3, <1>4, FS_Bijection DEF ExistsBijection

\* With room for all, no tombstone is ever evicted.
LEMMA RoomMeansNothingEvicted ==
    ASSUME RoomForAll, ResultStore
    PROVE  NothingEvicted
<1> USE ReliableExecutionAssumption
<1> DEFINE T == R!TombstonedKeys
<1>1. IsFiniteSet(T) /\ Cardinality(T) = Len(resOrder) /\ Len(resOrder) <= TombstoneCapacity
  BY ListLength DEF ResultStore, Lists
<1>2. T \subseteq Executions
  BY DEF R!TombstonedKeys
<1>3. IsFiniteSet(Executions) /\ Cardinality(Executions) \in Nat /\ Cardinality(T) \in Nat
  BY <1>1, FS_CardinalityType DEF RoomForAll
<1>4. CASE Len(resOrder) = TombstoneCapacity
  <2>1. Cardinality(Executions) <= Cardinality(T)
    BY <1>1, <1>4 DEF RoomForAll
  <2>2. /\ Cardinality(T) <= Cardinality(Executions)
        /\ Cardinality(Executions) = Cardinality(T) => Executions = T
    BY <1>2, <1>3, FS_Subset
  <2>3. T = Executions
    BY <1>3, <2>1, <2>2
  <2> QED BY <2>3 DEF NothingEvicted
<1>5. Len(resOrder) # TombstoneCapacity => Len(resOrder) < TombstoneCapacity
  BY <1>1, <1>3
<1> QED BY <1>4, <1>5 DEF NothingEvicted

\* With room for the tombstones of all executions the brokers agree always.
THEOREM BrokersAlwaysAgree == RoomForAll => (Spec => []BrokersAgree)
<1> SUFFICES ASSUME RoomForAll PROVE Spec => []BrokersAgree
  OBVIOUS
<1>1. IInv => BrokersAgree
  BY RoomMeansNothingEvicted DEF IInv, Joined, StoresJoined
<1> QED BY <1>1, PathInvariant, PTL

\* With that room a returned transition is committed and performed for good.
THEOREM TransitionsAreCommitted == RoomForAll => (Spec => []TransitionIsCommitted)
<1> SUFFICES ASSUME RoomForAll PROVE Spec => []TransitionIsCommitted
  OBVIOUS
<1>1. IInv => TransitionIsCommitted
  BY RoomMeansNothingEvicted DEF IInv
<1> QED BY <1>1, PathInvariant, PTL
-----------------------------------------------------------------------------
\* A step that asks for nothing and stores no command.
LEMMA UnaskedKept ==
    ASSUME Unasked, CommandsKept, UNCHANGED restarts, commands' \subseteq commands,
           \A e \in Executions : phase'[e] = "new" => phase[e] = "new"
    PROVE  Unasked'
<1> SUFFICES ASSUME restarts = 0, NEW e \in Executions, phase[e] = "new"
             PROVE  /\ cmdValues'[e] = None
                    /\ \A p \in commands' : p[1] # e
                    /\ \A m \in toUnityCommand' : m.key # e
  BY DEF Unasked
<1>1. /\ cmdValues[e] = None
      /\ \A p \in commands : p[1] # e
      /\ \A m \in toUnityCommand : m.key # e
  BY DEF Unasked
<1>2. \A d \in Executions : cmdValues[d] # None => C!Command(d, cmdValues[d]).key # e
  BY <1>1 DEF C!Command
<1> QED BY <1>1, <1>2 DEF CommandsKept

\* Python asks for an execution in the step that opens it.
LEMMA PythonUnasked ==
    ASSUME TypeOK, Unasked, Python
    PROVE  Unasked'
<1>0. CommandsKept
  BY PythonKeeps
<1>1. ASSUME NEW d \in Executions, NEW a \in Actions, Submit(d, a) PROVE Unasked'
  <2> SUFFICES ASSUME restarts = 0, NEW e \in Executions, phase'[e] = "new"
               PROVE  /\ cmdValues'[e] = None
                      /\ \A p \in commands' : p[1] # e
                      /\ \A m \in toUnityCommand' : m.key # e
    BY <1>1 DEF Unasked, Submit
  <2>1. e # d /\ phase[e] = "new"
    BY <1>1 DEF Submit, TypeOK
  <2>2. UNCHANGED <<cmdValues, toUnityCommand>> /\ commands' = commands \union {<<d, a>>}
    BY <1>1 DEF Submit, commandVars
  <2> QED BY <2>1, <2>2 DEF Unasked
<1>2. ASSUME NEW d \in Executions, NEW m, TakeReceipt(d, m) PROVE Unasked'
  BY <1>0, <1>2, UnaskedKept DEF TakeReceipt, uplink, TypeOK
<1>3. ASSUME NEW d \in Executions, NEW m, TakeResult(d, m) PROVE Unasked'
  BY <1>0, <1>3, UnaskedKept DEF TakeResult, TypeOK
<1>4. ASSUME NEW d \in Executions, NEW m, TakeRepeatedResult(d, m) PROVE Unasked'
  BY <1>0, <1>4, UnaskedKept DEF TakeRepeatedResult, TypeOK
<1>5. ASSUME NEW d \in Executions, NEW m, TakeStrayResult(d, m) PROVE Unasked'
  BY <1>0, <1>5, UnaskedKept DEF TakeStrayResult, TypeOK
<1>6. ASSUME NEW d \in Executions, NEW m, TakeCommitAck(d, m) PROVE Unasked'
  BY <1>0, <1>6, UnaskedKept DEF TakeCommitAck, uplink, TypeOK
<1>7. ASSUME NEW d \in Executions, SendCommit(d) \/ Abort(d) PROVE Unasked'
  BY <1>0, <1>7, UnaskedKept DEF SendCommit, Abort, uplink, TypeOK
<1>8. CASE Restart
  <2>1. restarts' # 0
    BY <1>8 DEF Restart, TypeOK
  <2> QED BY <2>1 DEF Unasked
<1> QED BY <1>1, <1>2, <1>3, <1>4, <1>5, <1>6, <1>7, <1>8 DEF Python

\* Every step keeps Unasked.
LEMMA UnaskedStep == TypeOK /\ ResultStore /\ Unasked /\ [Next]_vars => Unasked'
<1> SUFFICES ASSUME TypeOK, ResultStore, Unasked, [Next]_vars PROVE Unasked'
  OBVIOUS
<1>1. ASSUME NEW p \in Payloads, BridgeTakesCommand(p) PROVE Unasked'
  <2>1. UNCHANGED <<phase, restarts>> /\ p \in commands /\ commands' = commands \ {p}
    BY <1>1 DEF BridgeTakesCommand, pythonVars
  <2>2. CASE CommandsKept
    BY <2>1, <2>2, UnaskedKept
  <2>3. CASE /\ cmdValues' = [cmdValues EXCEPT ![p[1]] = p]
             /\ \A m \in toUnityCommand' :
                  m \in toUnityCommand \/ m = C!Command(p[1], p)
    <3> SUFFICES ASSUME restarts = 0, NEW e \in Executions, phase[e] = "new"
                 PROVE  /\ cmdValues'[e] = None
                        /\ \A q \in commands' : q[1] # e
                        /\ \A m \in toUnityCommand' : m.key # e
      BY <2>1 DEF Unasked
    <3>1. /\ cmdValues[e] = None /\ p[1] # e
          /\ \A q \in commands : q[1] # e
          /\ \A m \in toUnityCommand : m.key # e
      BY <2>1 DEF Unasked
    <3>2. C!Command(p[1], p).key # e
      BY <3>1 DEF C!Command
    <3> QED BY <2>1, <2>3, <3>1, <3>2 DEF TypeOK, Identities
  <2> QED BY <1>1, <2>2, <2>3, CommandTaken
<1>2. ASSUME NEW p \in Payloads, BridgeTakesCommit(p) PROVE Unasked'
  <2>1. UNCHANGED <<phase, restarts, commands>>
    BY <1>2 DEF BridgeTakesCommit, pythonVars
  <2>2. CASE CommandsKept
    BY <2>1, <2>2, UnaskedKept
  <2>3. CASE C!FinalizeExecution(p[1], p)
    <3>1. /\ cmdValues' = [cmdValues EXCEPT ![p[1]] = None]
          /\ UNCHANGED toUnityCommand
      BY <2>3 DEF C!FinalizeExecution
    <3>2. \A e \in Executions : cmdValues[e] = None => cmdValues'[e] = None
      BY <3>1 DEF TypeOK, Identities
    <3> QED BY <2>1, <3>1, <3>2 DEF Unasked
  <2> QED BY <1>2, <2>2, <2>3, CommitTaken, StutterKeeps
<1>3. CASE \/ \E p \in Payloads : \/ BridgeTakesUnityReceipt(p)
                                  \/ BridgeTakesResult(p)
                                  \/ BridgeTakesConfirmation(p)
           \/ BridgeRetriesCommands \/ BridgeTakesReady \/ BridgeSeesDisconnect
           \/ BridgeRetriesResults
           \/ Unity \/ Lose \/ UNCHANGED vars
  <2>1. UNCHANGED <<phase, restarts, commands>>
    BY <1>3 DEF BridgeTakesUnityReceipt, BridgeTakesResult, BridgeTakesConfirmation,
       BridgeRetriesCommands, BridgeTakesReady, BridgeSeesDisconnect, BridgeRetriesResults,
       Unity, UnityTakesKnown, UnityAdmits, UnityCompletes, UnityResends, UnityTakesAck,
       Lose, vars, pythonVars, uplink
  <2>2. Unity => CommandsKept
    BY StutterKeeps, LinksKeep
       DEF Unity, UnityTakesKnown, UnityAdmits, UnityCompletes, UnityResends, UnityTakesAck
  <2>3. UNCHANGED vars => CommandsKept
    BY StutterKeeps DEF vars
  <2>4. CommandsKept
    BY <1>3, <2>2, <2>3, ReceiptTaken, ResultTaken, ConfirmationTaken, CommandsRetried,
       ResultsRelayed, LoseKeeps
  <2> QED BY <2>1, <2>4, UnaskedKept
<1> QED BY <1>1, <1>2, <1>3, PythonUnasked DEF Next, Bridge

\* The bridge never holds or forwards a command of an execution the first Python
\* process has not asked for.
THEOREM NoCommandUnasked == Spec => []Unasked
<1>1. Init => Unasked
  BY DEF Init, C!Init, Unasked
<1>2. IInv => TypeOK /\ ResultStore
  BY DEF IInv
<1> QED BY <1>1, <1>2, UnaskedStep, PathInvariant, PTL DEF Spec
-----------------------------------------------------------------------------
\* The variables of the promise.
Requests == [e \in Executions |-> Request(e)]
PerformedIds == {e \in Executions : unity[e] # "unknown"}

AbstractVars == <<Requests, PerformedIds, R!TombstonedKeys>>

\* A step of the promise, or a stutter.
AbstractNext == [Promise!Next]_(Promise!vars)

\* A step that leaves the variables of the promise.
LEMMA AbstractStutter ==
    ASSUME UNCHANGED <<Requests, PerformedIds, R!TombstonedKeys>>
    PROVE  AbstractNext
  BY DEF AbstractNext, Promise!vars, Requests, PerformedIds

\* A step of one action of the promise.
LEMMA AbstractStep ==
    ASSUME NEW e \in Executions,
           \/ Promise!Open(e) \/ Promise!Perform(e) \/ Promise!Commit(e)
           \/ Promise!Return(e) \/ Promise!Abandon(e)
    PROVE  AbstractNext
  BY DEF AbstractNext, Promise!Next

\* Of an execution in phase x.
RequestIn(x) ==
    IF x \in Waiting THEN "open" ELSE IF x = "aborted" THEN "abandoned" ELSE x

\* The promise sees of a phase its class.
LEMMA PhaseMoves ==
    ASSUME TypeOK, NEW e \in Executions, NEW x \in Phases,
           phase' = [phase EXCEPT ![e] = x]
    PROVE  Requests' = [Requests EXCEPT ![e] = RequestIn(x)]
<1>1. \A d \in Executions : Request(d)' = IF d = e THEN RequestIn(x) ELSE Request(d)
  BY DEF TypeOK, Request, RequestIn, Phases, Waiting
<1> QED BY <1>1 DEF Requests

\* What the promise does not see of the stores, of Unity and of Python.
LEMMA AbstractKept ==
    /\ ResultsKept => UNCHANGED R!TombstonedKeys
    /\ UnityKept => UNCHANGED PerformedIds
    /\ UNCHANGED phase => UNCHANGED Requests
  BY DEF ResultsKept, UnityKept, R!TombstonedKeys, PerformedIds, Requests, Request

\* Any raise or timeout is the step Abandon.
LEMMA AbandonSimulates ==
    ASSUME TypeOK, NEW e \in Executions, phase[e] \in Waiting,
           phase' = [phase EXCEPT ![e] = "aborted"], ResultsKept, UnityKept
    PROVE  AbstractNext
<1>1. Requests' = [Requests EXCEPT ![e] = "abandoned"]
  BY PhaseMoves DEF RequestIn, Phases, Waiting
<1>2. Requests[e] = "open"
  BY DEF Requests, Request, Waiting
<1>3. Promise!Abandon(e)
  BY <1>1, <1>2, AbstractKept DEF Promise!Abandon, Requests, PerformedIds
<1> QED BY <1>3, AbstractStep

\* From one wait to the next the request stays open.
LEMMA WaitSimulates ==
    ASSUME TypeOK, NEW e \in Executions, phase[e] \in Waiting, NEW x \in Waiting,
           phase' = [phase EXCEPT ![e] = x], ResultsKept, UnityKept
    PROVE  AbstractNext
<1>1. Requests' = [Requests EXCEPT ![e] = "open"]
  BY PhaseMoves DEF RequestIn, Phases
<1>2. Requests[e] = "open"
  BY DEF Requests, Request, Waiting
<1>3. Requests' = Requests
  BY <1>1, <1>2 DEF Requests
<1> QED BY <1>3, AbstractKept, AbstractStutter

\* Every step of the first Python process is a step of the promise or a stutter.
LEMMA PythonSimulates ==
    ASSUME TypeOK, Joined, Python, restarts' = 0
    PROVE  AbstractNext
<1> USE DEF Waiting
<1>0. ResultsKept /\ UnityKept
  BY PythonKeeps
<1>1. ASSUME NEW e \in Executions, NEW a \in Actions, Submit(e, a) PROVE AbstractNext
  <2>1. Requests' = [Requests EXCEPT ![e] = "open"]
    BY <1>1, PhaseMoves DEF Submit, RequestIn, Phases
  <2>2. Requests[e] = "new" /\ \A d \in Executions : Requests[d] # "open"
    BY <1>1 DEF Submit, Requests, Request, TypeOK, Phases
  <2>3. Promise!Open(e)
    BY <1>0, <2>1, <2>2, AbstractKept DEF Promise!Open, Requests, PerformedIds
  <2> QED BY <2>3, AbstractStep
<1>2. ASSUME NEW e \in Executions, NEW m, TakeReceipt(e, m) PROVE AbstractNext
  BY <1>0, <1>2, AbandonSimulates, WaitSimulates DEF TakeReceipt
<1>3. ASSUME NEW e \in Executions, NEW m, TakeResult(e, m) PROVE AbstractNext
  BY <1>0, <1>3, AbandonSimulates, WaitSimulates DEF TakeResult
<1>4. ASSUME NEW e \in Executions, NEW m, TakeRepeatedResult(e, m) PROVE AbstractNext
  BY <1>0, <1>4, AbandonSimulates, WaitSimulates DEF TakeRepeatedResult
<1>5. ASSUME NEW e \in Executions, NEW m, TakeStrayResult(e, m) PROVE AbstractNext
  BY <1>0, <1>5, AbandonSimulates DEF TakeStrayResult
<1>6. ASSUME NEW e \in Executions, NEW m \in toPythonResult, TakeCommitAck(e, m)
      PROVE  AbstractNext
  <2>1. CASE m.status = "COMMITTED" /\ m.result = Payload(e)
    <3>1. Requests' = [Requests EXCEPT ![e] = "transition"] /\ Requests[e] = "open"
      BY <1>6, <2>1, PhaseMoves DEF TakeCommitAck, RequestIn, Phases, Requests, Request
    <3>2. e \in R!TombstonedKeys
      BY <1>6, <2>1 DEF TakeCommitAck, Joined, CommittedIsTrue, R!TombstonedKeys
    <3>3. Promise!Return(e)
      BY <1>0, <3>1, <3>2, AbstractKept DEF Promise!Return, Requests, PerformedIds
    <3> QED BY <3>3, AbstractStep
  <2>2. CASE ~(m.status = "COMMITTED" /\ m.result = Payload(e))
    BY <1>0, <1>6, <2>2, AbandonSimulates DEF TakeCommitAck
  <2> QED BY <2>1, <2>2
<1>7. ASSUME NEW e \in Executions, SendCommit(e) PROVE AbstractNext
  BY <1>0, <1>7, WaitSimulates DEF SendCommit
<1>8. ASSUME NEW e \in Executions, Abort(e) PROVE AbstractNext
  BY <1>0, <1>8, AbandonSimulates DEF Abort
<1>9. CASE Restart
  BY <1>9 DEF Restart, TypeOK
<1> QED BY <1>1, <1>2, <1>3, <1>4, <1>5, <1>6, <1>7, <1>8, <1>9 DEF Python

\* Unity performs only what was requested, and once.
LEMMA UnitySimulates ==
    ASSUME TypeOK, Unasked, restarts = 0, Unity
    PROVE  AbstractNext
<1>0. UNCHANGED R!TombstonedKeys /\ UNCHANGED Requests
  BY AbstractKept, StutterKeeps, LinksKeep
     DEF Unity, UnityTakesKnown, UnityAdmits, UnityCompletes, UnityResends, UnityTakesAck,
         pythonVars
<1>1. ASSUME NEW m \in toUnityCommand, UnityAdmits(m) PROVE AbstractNext
  <2>1. m.key \in Executions /\ phase[m.key] # "new"
    BY DEF Unasked, TypeOK, C!Commands
  <2>2. unity[m.key] = "unknown" /\ unity' = [unity EXCEPT ![m.key] = "executing"]
    BY <1>1 DEF UnityAdmits
  <2>3. PerformedIds' = PerformedIds \union {m.key} /\ m.key \notin PerformedIds
    BY <2>1, <2>2 DEF PerformedIds, TypeOK
  <2>4. Requests[m.key] # "new"
    BY <2>1 DEF Requests, Request, TypeOK, Phases, Waiting
  <2>5. Promise!Perform(m.key)
    BY <1>0, <2>3, <2>4 DEF Promise!Perform, Requests, PerformedIds
  <2> QED BY <2>1, <2>5, AbstractStep
<1>2. ASSUME \A e \in Executions : unity'[e] = "unknown" <=> unity[e] = "unknown"
      PROVE  AbstractNext
  BY <1>0, <1>2, AbstractStutter DEF PerformedIds
<1>3. ASSUME NEW m \in toUnityCommand, UnityTakesKnown(m) PROVE AbstractNext
  BY <1>2, <1>3 DEF UnityTakesKnown, unityVars
<1>4. ASSUME NEW e \in Executions, UnityCompletes(e) PROVE AbstractNext
  BY <1>2, <1>4 DEF UnityCompletes, TypeOK
<1>5. ASSUME NEW e \in Executions, UnityResends(e) PROVE AbstractNext
  BY <1>2, <1>5 DEF UnityResends, unityVars
<1>6. ASSUME NEW m, UnityTakesAck(m) PROVE AbstractNext
  BY <1>2, <1>6 DEF UnityTakesAck, TypeOK
<1> QED BY <1>1, <1>3, <1>4, <1>5, <1>6 DEF Unity

\* The result broker commits only what was performed, and once.
LEMMA CommitSimulates ==
    ASSUME TypeOK, ResultStore, Joined, NothingEvicted',
           NEW p \in Payloads, R!Commit(p[1], p), UnityKept, UNCHANGED phase
    PROVE  AbstractNext
<1> DEFINE k == p[1]
<1>1. k \in Executions /\ p # None /\ resValues[k] = p
  BY PayloadFields, ReliableExecutionAssumption DEF R!Commit
<1>2. \A e \in Executions : resTerminal'[e] = IF e = k THEN p ELSE resTerminal[e]
  BY CommitStored
<1> HIDE DEF k
<1>3. k \notin R!TombstonedKeys /\ R!TombstonedKeys' = R!TombstonedKeys \union {k}
  BY <1>1, <1>2 DEF ResultStore, R!TombstonedKeys
<1>4. k \in PerformedIds
  BY <1>1 DEF Joined, ResultsArePerformed, Performed, KnownResult, PerformedIds
<1>5. Promise!Commit(k)
  BY <1>3, <1>4, AbstractKept DEF Promise!Commit, Requests, PerformedIds
<1> QED BY <1>1, <1>5, AbstractStep

\* Every step of the bridge is Commit or a stutter.
LEMMA BridgeSimulates ==
    ASSUME TypeOK, ResultStore, Joined, NothingEvicted', Bridge
    PROVE  AbstractNext
<1>0. UNCHANGED phase /\ UnityKept
  BY ReceiptTaken, ConfirmationTaken, ResultTaken, CommandTaken, CommitTaken,
     CommandsRetried, ResultsRelayed
     DEF Bridge, BridgeTakesCommand, BridgeTakesUnityReceipt, BridgeTakesResult,
         BridgeTakesConfirmation, BridgeTakesCommit, BridgeRetriesCommands,
         BridgeTakesReady, BridgeSeesDisconnect, BridgeRetriesResults, pythonVars
<1>1. ASSUME UNCHANGED resTerminal PROVE AbstractNext
  BY <1>0, <1>1, AbstractKept, AbstractStutter DEF R!TombstonedKeys
<1>2. ASSUME NEW p \in Payloads, BridgeTakesCommit(p) PROVE AbstractNext
  BY <1>0, <1>1, <1>2, CommitTaken, CommitSimulates DEF ResultsKept
<1>3. ASSUME NEW p \in Payloads,
             \/ BridgeTakesCommand(p) \/ BridgeTakesUnityReceipt(p)
             \/ BridgeTakesResult(p) \/ BridgeTakesConfirmation(p)
      PROVE  AbstractNext
  BY <1>1, <1>3, CommandTaken, ReceiptTaken, ResultTaken, ConfirmationTaken DEF ResultsKept
<1>4. CASE \/ BridgeRetriesCommands \/ BridgeTakesReady \/ BridgeSeesDisconnect
           \/ BridgeRetriesResults
  BY <1>1, <1>4, CommandsRetried, ResultsRelayed DEF ResultsKept
<1> QED BY <1>2, <1>3, <1>4 DEF Bridge

\* Every step of the first process.
LEMMA SimulationStep ==
    IInv /\ Unasked /\ [Next]_vars => (NothingEvicted' => FirstProcess)
<1> SUFFICES ASSUME IInv, Unasked, [Next]_vars, NothingEvicted', restarts' = 0
             PROVE  AbstractNext
  BY DEF FirstProcess, AbstractNext
<1>1. TypeOK /\ ResultStore /\ Joined
  BY EveryStepKeeps DEF IInv, StepKeeps
<1>2. CASE Python
  BY <1>1, <1>2, PythonSimulates
<1>3. CASE Bridge
  BY <1>1, <1>3, BridgeSimulates
<1>4. CASE Unity
  <2>1. restarts = 0
    BY <1>4 DEF Unity, UnityTakesKnown, UnityAdmits, UnityCompletes, UnityResends,
                UnityTakesAck, pythonVars
  <2> QED BY <1>1, <1>4, <2>1, UnitySimulates
<1>5. CASE Lose \/ UNCHANGED vars
  <2>1. UNCHANGED phase /\ ResultsKept /\ UnityKept
    BY <1>5, LoseKeeps, StutterKeeps DEF Lose, vars, pythonVars
  <2> QED BY <2>1, AbstractKept, AbstractStutter
<1> QED BY <1>2, <1>3, <1>4, <1>5 DEF Next

\* The initial states are initial states of the promise.
LEMMA SimulationInit == Init => Promise!Init
  BY DEF Init, R!Init, R!TombstonedKeys, Promise!Init, Request, Waiting

\* The refinement, for every capacity: until the first tombstone is evicted, each
\* step of the first process maps to a step of ExactlyOnce or to a stutter.
THEOREM ExactlyOnceUntilEviction ==
    Spec => Promise!Init /\ [][NothingEvicted' => FirstProcess]_vars
<1>1. IInv /\ Unasked /\ [Next]_vars => [NothingEvicted' => FirstProcess]_vars
  BY SimulationStep
<1> QED BY <1>1, SimulationInit, PathInvariant, NoCommandUnasked, PTL DEF Spec

\* With room for the tombstones of all executions the path implements
\* ExactlyOnce in its first Python process: one request at a time, performed at
\* most once and only if requested, committed at most once and only if performed,
\* and a transition only of what is committed.
THEOREM ExactlyOnceImplemented == RoomForAll => (Spec => ImplementsExactlyOnce)
<1> SUFFICES ASSUME RoomForAll PROVE Spec => ImplementsExactlyOnce
  OBVIOUS
<1>1. IInv => NothingEvicted
  BY RoomMeansNothingEvicted DEF IInv
<1> QED BY <1>1, ExactlyOnceUntilEviction, PathInvariant, PTL DEF ImplementsExactlyOnce
-----------------------------------------------------------------------------
\* What a step of the path does to the command broker's store, the broker's own
\* specification allows.
LEMMA CommandBrokerStep == [Next]_vars => [C!Next]_(C!store)
<1> SUFFICES ASSUME [Next]_vars PROVE C!Next \/ UNCHANGED C!store
  BY DEF C!store
<1>1. CASE UNCHANGED commandVars
  BY <1>1 DEF commandVars, C!store
<1>2. ASSUME NEW m \in toPythonReceipt, C!LinkTakesReceipt(m) PROVE C!Next
  BY <1>2 DEF C!Next
<1>3. ASSUME NEW m \in toUnityCommand, C!LinkTakesCommand(m) PROVE C!Next
  BY <1>3 DEF C!Next
<1>4. CASE Python
  <2>1. ASSUME NEW e \in Executions, NEW a \in Actions, Submit(e, a)
        PROVE  UNCHANGED commandVars
    BY <2>1 DEF Submit
  <2>2. ASSUME NEW e \in Executions, NEW m \in toPythonReceipt, TakeReceipt(e, m)
        PROVE  C!LinkTakesReceipt(m)
    BY <2>2 DEF TakeReceipt
  <2>3. ASSUME NEW e \in Executions, NEW m \in toPythonResult,
               \/ TakeResult(e, m) \/ TakeRepeatedResult(e, m)
               \/ TakeStrayResult(e, m) \/ TakeCommitAck(e, m)
        PROVE  UNCHANGED commandVars
    BY <2>3 DEF TakeResult, TakeRepeatedResult, TakeStrayResult, TakeCommitAck
  <2>4. ASSUME NEW e \in Executions, SendCommit(e) \/ Abort(e)
        PROVE  UNCHANGED commandVars
    BY <2>4 DEF SendCommit, Abort
  <2>5. CASE Restart
    BY <2>5 DEF Restart, C!store
  <2> QED BY <1>1, <1>2, <1>4, <2>1, <2>2, <2>3, <2>4, <2>5 DEF Python
<1>5. CASE Bridge
  <2>1. ASSUME NEW p \in Payloads, BridgeTakesCommand(p) PROVE C!Next
    BY <2>1, PayloadFields DEF BridgeTakesCommand, C!Next, C!Receive
  <2>2. ASSUME NEW p \in Payloads, BridgeTakesUnityReceipt(p)
        PROVE  C!Next \/ UNCHANGED commandVars
    BY <2>2, PayloadFields DEF BridgeTakesUnityReceipt, C!Next
  <2>3. ASSUME NEW p \in Payloads, BridgeTakesCommit(p)
        PROVE  C!Next \/ UNCHANGED commandVars
    BY <2>3, PayloadFields DEF BridgeTakesCommit, C!Next
  <2>4. ASSUME NEW p \in Payloads, BridgeTakesResult(p) \/ BridgeTakesConfirmation(p)
        PROVE  UNCHANGED commandVars
    BY <2>4 DEF BridgeTakesResult, BridgeTakesConfirmation
  <2>5. CASE BridgeRetriesCommands
    BY <2>5 DEF BridgeRetriesCommands, C!Next
  <2>6. CASE BridgeTakesReady \/ BridgeSeesDisconnect \/ BridgeRetriesResults
    BY <1>1, <2>6 DEF BridgeTakesReady, BridgeSeesDisconnect, BridgeRetriesResults
  <2> QED BY <1>1, <1>5, <2>1, <2>2, <2>3, <2>4, <2>5, <2>6 DEF Bridge
<1>6. CASE Unity
  <2>1. ASSUME NEW m \in toUnityCommand, UnityTakesKnown(m) \/ UnityAdmits(m)
        PROVE  C!LinkTakesCommand(m)
    BY <2>1 DEF UnityTakesKnown, UnityAdmits
  <2>2. ASSUME NEW e \in Executions, UnityCompletes(e) \/ UnityResends(e)
        PROVE  UNCHANGED commandVars
    BY <2>2 DEF UnityCompletes, UnityResends
  <2>3. ASSUME NEW m \in toUnityAck, UnityTakesAck(m) PROVE UNCHANGED commandVars
    BY <2>3 DEF UnityTakesAck
  <2> QED BY <1>1, <1>3, <1>6, <2>1, <2>2, <2>3 DEF Unity
<1>7. CASE Lose
  BY <1>1, <1>2, <1>3, <1>7 DEF Lose
<1>8. CASE UNCHANGED vars
  BY <1>1, <1>8 DEF vars
<1> QED BY <1>4, <1>5, <1>6, <1>7, <1>8 DEF Next

\* The same of the result broker and its relay.
LEMMA ResultBrokerStep == [Next]_vars => [R!Next]_<<R!store, R!peer>>
<1> SUFFICES ASSUME [Next]_vars PROVE R!Next \/ UNCHANGED <<R!store, R!peer>>
  BY DEF R!store, R!peer
<1>1. CASE UNCHANGED resultVars
  BY <1>1 DEF resultVars, R!store, R!peer
<1>2. ASSUME NEW m \in toPythonResult, R!LinkTakesMessage(m) PROVE R!Next
  BY <1>2 DEF R!Next
<1>3. ASSUME NEW m \in toUnityAck, R!LinkTakesAck(m) PROVE R!Next
  BY <1>3 DEF R!Next
<1>4. CASE Python
  <2>1. ASSUME NEW e \in Executions, NEW a \in Actions, Submit(e, a)
        PROVE  UNCHANGED resultVars
    BY <2>1 DEF Submit
  <2>2. ASSUME NEW e \in Executions, NEW m \in toPythonReceipt, TakeReceipt(e, m)
        PROVE  UNCHANGED resultVars
    BY <2>2 DEF TakeReceipt
  <2>3. ASSUME NEW e \in Executions, NEW m \in toPythonResult,
               \/ TakeResult(e, m) \/ TakeRepeatedResult(e, m)
               \/ TakeStrayResult(e, m) \/ TakeCommitAck(e, m)
        PROVE  R!LinkTakesMessage(m)
    BY <2>3 DEF TakeResult, TakeRepeatedResult, TakeStrayResult, TakeCommitAck
  <2>4. ASSUME NEW e \in Executions, SendCommit(e) \/ Abort(e)
        PROVE  UNCHANGED resultVars
    BY <2>4 DEF SendCommit, Abort
  <2>5. CASE Restart
    BY <2>5 DEF Restart, R!store, R!peer
  <2> QED BY <1>1, <1>2, <1>4, <2>1, <2>2, <2>3, <2>4, <2>5 DEF Python
<1>5. CASE Bridge
  <2>1. ASSUME NEW p \in Payloads, BridgeTakesCommand(p) \/ BridgeTakesUnityReceipt(p)
        PROVE  UNCHANGED resultVars
    BY <2>1 DEF BridgeTakesCommand, BridgeTakesUnityReceipt
  <2>2. ASSUME NEW p \in Payloads, BridgeTakesResult(p)
        PROVE  R!Next \/ UNCHANGED resultVars
    <3>1. \/ R!ReceiveNew(p[1], p) \/ R!ReceiveDuplicate(p[1], p)
          \/ UNCHANGED resultVars
      BY <2>2 DEF BridgeTakesResult
    <3> QED BY <3>1, PayloadFields DEF R!Next
  <2>3. ASSUME NEW p \in Payloads, BridgeTakesConfirmation(p)
        PROVE  R!Next \/ UNCHANGED resultVars
    BY <2>3, PayloadFields DEF BridgeTakesConfirmation, R!Next
  <2>4. ASSUME NEW p \in Payloads, BridgeTakesCommit(p) PROVE R!Next
    BY <2>4, PayloadFields DEF BridgeTakesCommit, R!Next
  <2>5. CASE BridgeRetriesCommands
    BY <1>1, <2>5 DEF BridgeRetriesCommands
  <2>6. CASE BridgeTakesReady \/ BridgeSeesDisconnect \/ BridgeRetriesResults
    BY <2>6 DEF BridgeTakesReady, BridgeSeesDisconnect, BridgeRetriesResults, R!Next
  <2> QED BY <1>1, <1>5, <2>1, <2>2, <2>3, <2>4, <2>5, <2>6 DEF Bridge
<1>6. CASE Unity
  <2>1. ASSUME NEW m \in toUnityCommand, UnityTakesKnown(m) \/ UnityAdmits(m)
        PROVE  UNCHANGED resultVars
    BY <2>1 DEF UnityTakesKnown, UnityAdmits
  <2>2. ASSUME NEW e \in Executions, UnityCompletes(e) \/ UnityResends(e)
        PROVE  UNCHANGED resultVars
    BY <2>2 DEF UnityCompletes, UnityResends
  <2>3. ASSUME NEW m \in toUnityAck, UnityTakesAck(m) PROVE R!LinkTakesAck(m)
    BY <2>3 DEF UnityTakesAck
  <2> QED BY <1>1, <1>3, <1>6, <2>1, <2>2, <2>3 DEF Unity
<1>7. CASE Lose
  BY <1>1, <1>2, <1>3, <1>7 DEF Lose
<1>8. CASE UNCHANGED vars
  BY <1>1, <1>8 DEF vars
<1> QED BY <1>4, <1>5, <1>6, <1>7, <1>8 DEF Next

\* The path puts each broker only through steps of its own specification: its
\* store, and the relay's peer, change in no other way.  A new Python process
\* only takes what was on the way to the old one.
THEOREM PathRunsTheBrokers ==
    Spec => /\ C!Init /\ [][C!Next]_(C!store)
            /\ R!Init /\ [][R!Next]_<<R!store, R!peer>>
<1>1. Init => C!Init /\ R!Init
  BY DEF Init
<1> QED BY <1>1, CommandBrokerStep, ResultBrokerStep, PTL DEF Spec
-----------------------------------------------------------------------------
\* What holds through every eviction.  Unity never forgets an execution, so the
\* result of the first command it admitted is the only one there ever is, even
\* where the bridge forgets the execution and takes a late message for new.

\* The command side of a step: the store is kept, learns a command or retires one.
CommandMoves ==
    \/ CommandsKept
    \/ \E p \in Payloads :
         /\ cmdValues' = [cmdValues EXCEPT ![p[1]] = p]
         /\ \A m \in toUnityCommand' : m \in toUnityCommand \/ m = C!Command(p[1], p)
    \/ \E p \in Payloads :
         /\ cmdValues' = [cmdValues EXCEPT ![p[1]] = None]
         /\ UNCHANGED toUnityCommand

\* The result side: the store is kept, learns a result Unity sent or commits one.
ResultMoves ==
    \/ ResultsKept
    \/ \E p \in unityResults :
         /\ resValues' = [resValues EXCEPT ![p[1]] = p]
         /\ \A m \in toPythonResult' : m \in toPythonResult \/ m.type = "Result"
    \/ \E p \in Payloads :
         /\ resValues[p[1]] = p
         /\ resValues' = [resValues EXCEPT ![p[1]] = None]
         /\ \A m \in toPythonResult' : m \in toPythonResult \/ m.result = p

\* Unity's side: it keeps what it knows, admits a command of an execution it does
\* not know, or brings one it admitted forward and may send its result.
UnityMoves ==
    \/ UnityKept
    \/ \E m \in toUnityCommand :
         /\ unity[m.key] = "unknown"
         /\ unity' = [unity EXCEPT ![m.key] = "executing"]
         /\ admitted' = [admitted EXCEPT ![m.key] = m.payload]
         /\ unityResults' = unityResults
    \/ \E e \in Executions, s \in {"pending", "acked"} :
         /\ unity[e] # "unknown"
         /\ unity' = [unity EXCEPT ![e] = s]
         /\ unityResults' \subseteq unityResults \union {admitted[e]}
         /\ UNCHANGED admitted

\* Every step of the bridge is one of these on each side.
LEMMA BridgeMoves ==
    ASSUME TypeOK, ResultStore, Bridge
    PROVE  CommandMoves /\ ResultMoves /\ UnityMoves
<1>1. ASSUME NEW p \in Payloads, BridgeTakesCommand(p)
      PROVE  CommandMoves /\ ResultMoves /\ UnityMoves
  BY <1>1, CommandTaken DEF CommandMoves, ResultMoves, UnityMoves
<1>2. ASSUME NEW p \in Payloads, BridgeTakesResult(p)
      PROVE  CommandMoves /\ ResultMoves /\ UnityMoves
  BY <1>2, ResultTaken DEF CommandMoves, ResultMoves, UnityMoves
<1>3. ASSUME NEW p \in Payloads, BridgeTakesCommit(p)
      PROVE  CommandMoves /\ ResultMoves /\ UnityMoves
  <2>1. UnityKept
    BY <1>3, CommitTaken
  <2>2. CASE CommandsKept /\ ResultsKept
    BY <2>1, <2>2 DEF CommandMoves, ResultMoves, UnityMoves
  <2>3. CASE /\ resValues[p[1]] = p /\ R!Commit(p[1], p)
             /\ C!FinalizeExecution(p[1], p) \/ UNCHANGED commandVars
    <3>1. CommandMoves
      BY <2>3, StutterKeeps DEF CommandMoves, C!FinalizeExecution
    <3>2. R!CommitAck(p[1], p, "COMMITTED").result = p
      BY DEF R!CommitAck
    <3>3. ResultMoves
      BY <2>3, <3>2 DEF ResultMoves, R!Commit, R!SendCommitAck
    <3> QED BY <2>1, <3>1, <3>3 DEF UnityMoves
  <2> QED BY <1>3, <2>2, <2>3, CommitTaken
<1>4. CASE \/ \E p \in Payloads : BridgeTakesUnityReceipt(p) \/ BridgeTakesConfirmation(p)
           \/ BridgeRetriesCommands
           \/ BridgeTakesReady \/ BridgeSeesDisconnect \/ BridgeRetriesResults
  BY <1>4, ReceiptTaken, ConfirmationTaken, CommandsRetried, ResultsRelayed
     DEF CommandMoves, ResultMoves, UnityMoves
<1> QED BY <1>1, <1>2, <1>3, <1>4 DEF Bridge

\* So is every step of Unity.
LEMMA UnitySideMoves ==
    ASSUME TypeOK, Unity
    PROVE  CommandMoves /\ ResultMoves /\ UnityMoves
<1>1. CommandsKept /\ ResultsKept
  BY StutterKeeps, LinksKeep
     DEF Unity, UnityTakesKnown, UnityAdmits, UnityCompletes, UnityResends, UnityTakesAck
<1>2. ASSUME NEW m \in toUnityCommand, UnityTakesKnown(m) \/ UnityAdmits(m)
      PROVE  UnityMoves
  BY <1>2 DEF UnityTakesKnown, UnityAdmits, UnityMoves, UnityKept, unityVars
<1>3. ASSUME NEW e \in Executions, UnityCompletes(e) PROVE UnityMoves
  BY <1>3 DEF UnityCompletes, UnityMoves
<1>4. ASSUME NEW e \in Executions, UnityResends(e) PROVE UnityMoves
  <2>1. unity' = [unity EXCEPT ![e] = "pending"]
    BY <1>4 DEF UnityResends, unityVars, TypeOK
  <2> QED BY <1>4, <2>1 DEF UnityResends, unityVars, UnityMoves
<1>5. ASSUME NEW m \in toUnityAck, UnityTakesAck(m) PROVE UnityMoves
  <2>1. UNCHANGED <<admitted, unityResults>>
    BY <1>5 DEF UnityTakesAck, downlink
  <2>2. CASE UNCHANGED unity
    BY <2>1, <2>2 DEF UnityMoves, UnityKept
  <2>3. CASE unity[m.key] = "pending" /\ unity' = [unity EXCEPT ![m.key] = "acked"]
    <3>1. CASE m.key \in Executions
      BY <2>1, <2>3, <3>1 DEF UnityMoves
    <3>2. CASE m.key \notin Executions
      <4>1. unity' = unity
        BY <2>3, <3>2 DEF TypeOK
      <4> QED BY <2>1, <4>1 DEF UnityMoves, UnityKept
    <3> QED BY <3>1, <3>2
  <2> QED BY <1>5, <2>2, <2>3 DEF UnityTakesAck
<1> QED BY <1>1, <1>2, <1>3, <1>4, <1>5 DEF Unity, CommandMoves, ResultMoves

\* Every step of the path is one of these on each side.
LEMMA EveryStepMoves ==
    ASSUME TypeOK, ResultStore, [Next]_vars
    PROVE  CommandMoves /\ ResultMoves /\ UnityMoves
<1>1. CASE UNCHANGED vars
  BY <1>1, StutterKeeps DEF vars, CommandMoves, ResultMoves, UnityMoves
<1>2. CASE Python \/ Lose
  BY <1>2, PythonKeeps, LoseKeeps DEF CommandMoves, ResultMoves, UnityMoves
<1> QED BY <1>1, <1>2, BridgeMoves, UnitySideMoves DEF Next

\* The command of an execution names it, in the bridge, on its way and at Unity.
Named ==
    /\ \A e \in Executions : cmdValues[e] # None => cmdValues[e][1] = e
    /\ \A m \in toUnityCommand : m.payload[1] = m.key
    /\ \A e \in Executions :
         unity[e] # "unknown" => admitted[e] # None /\ admitted[e][1] = e

\* A transition is of a primitive Unity has performed with the payload Python
\* asked for.
TransitionIsPerformed ==
    \A e \in Executions : phase[e] = "transition" => Performed(Payload(e))

\* A result, on its way or active, COMMITTED on its way to Python, and a
\* transition are each of what Unity performed.
Earned ==
    /\ \A p \in unityResults : p \in Payloads /\ Performed(p)
    /\ \A e \in Executions : resValues[e] # None => Performed(resValues[e])
    /\ \A m \in toPythonResult :
         m.type = "CommitAck" /\ m.status = "COMMITTED" => Performed(m.result)
    /\ TransitionIsPerformed

\* What Unity has performed it has performed for good.
LEMMA PerformedForGood ==
    ASSUME TypeOK, UnityMoves
    PROVE  \A p : Performed(p) => Performed(p)'
<1> SUFFICES ASSUME NEW p, Performed(p) PROVE Performed(p)'
  OBVIOUS
<1>1. unity[p[1]] \in {"pending", "acked"} /\ admitted[p[1]] = p
  BY DEF Performed
<1>2. CASE UnityKept
  BY <1>1, <1>2 DEF UnityKept, Performed
<1>3. ASSUME NEW m \in toUnityCommand,
             unity[m.key] = "unknown",
             unity' = [unity EXCEPT ![m.key] = "executing"],
             admitted' = [admitted EXCEPT ![m.key] = m.payload]
      PROVE  Performed(p)'
  <2>1. m.key # p[1]
    BY <1>1, <1>3
  <2>2. unity'[p[1]] = unity[p[1]] /\ admitted'[p[1]] = admitted[p[1]]
    BY <1>3, <2>1 DEF TypeOK, Identities
  <2> QED BY <1>1, <2>2 DEF Performed
<1>4. ASSUME NEW e \in Executions, NEW s \in {"pending", "acked"},
             unity' = [unity EXCEPT ![e] = s], UNCHANGED admitted
      PROVE  Performed(p)'
  <2>1. unity'[p[1]] \in {unity[p[1]], s}
    BY <1>4 DEF TypeOK
  <2> QED BY <1>1, <1>4, <2>1 DEF Performed
<1> QED BY <1>2, <1>3, <1>4 DEF UnityMoves

\* Unity never forgets an execution.
UnityRemembers ==
    \A e \in Executions : unity[e] # "unknown" => unity'[e] # "unknown"

\* It remembers in every step.
LEMMA NeverUnknownAgain ==
    ASSUME TypeOK, UnityMoves
    PROVE  UnityRemembers
  BY DEF UnityMoves, UnityKept, UnityRemembers, TypeOK

\* Every step keeps commands under their names.
LEMMA NamedStep ==
    ASSUME TypeOK, Named, CommandMoves, UnityMoves
    PROVE  Named'
<1> USE ReliableExecutionAssumption
<1>1. \A e, x : C!Command(e, x).key = e /\ C!Command(e, x).payload = x
  BY DEF C!Command
<1>2. (\A e \in Executions : cmdValues[e] # None => cmdValues[e][1] = e)'
  <2>1. CASE CommandsKept
    BY <2>1 DEF CommandsKept, Named
  <2>2. ASSUME NEW p \in Payloads, NEW x \in {p, None},
               cmdValues' = [cmdValues EXCEPT ![p[1]] = x]
        PROVE  \A e \in Executions : cmdValues'[e] # None => cmdValues'[e][1] = e
    BY <2>2 DEF Named, TypeOK, Identities
  <2> QED BY <2>1, <2>2 DEF CommandMoves
<1>3. (\A m \in toUnityCommand : m.payload[1] = m.key)'
  <2>1. CASE CommandsKept
    BY <1>1, <2>1 DEF CommandsKept, Named
  <2>2. ASSUME NEW p \in Payloads,
               \A m \in toUnityCommand' : m \in toUnityCommand \/ m = C!Command(p[1], p)
        PROVE  \A m \in toUnityCommand' : m.payload[1] = m.key
    BY <1>1, <2>2 DEF Named
  <2>3. CASE UNCHANGED toUnityCommand
    BY <2>3 DEF Named
  <2> QED BY <2>1, <2>2, <2>3 DEF CommandMoves
<1>4. (\A e \in Executions :
         unity[e] # "unknown" => admitted[e] # None /\ admitted[e][1] = e)'
  <2>1. CASE UnityKept
    BY <2>1 DEF UnityKept, Named
  <2>2. ASSUME NEW m \in toUnityCommand,
               unity' = [unity EXCEPT ![m.key] = "executing"],
               admitted' = [admitted EXCEPT ![m.key] = m.payload]
        PROVE  \A e \in Executions :
                 unity'[e] # "unknown" => admitted'[e] # None /\ admitted'[e][1] = e
    <3>1. m.payload \in Payloads /\ m.payload[1] = m.key
      BY DEF Named, TypeOK, C!Commands
    <3> QED BY <2>2, <3>1 DEF Named, TypeOK, Identities
  <2>3. ASSUME NEW e \in Executions, NEW s, unity[e] # "unknown",
               unity' = [unity EXCEPT ![e] = s], UNCHANGED admitted
        PROVE  \A d \in Executions :
                 unity'[d] # "unknown" => admitted'[d] # None /\ admitted'[d][1] = d
    BY <2>3 DEF Named, TypeOK
  <2> QED BY <2>1, <2>2, <2>3 DEF UnityMoves
<1> QED BY <1>2, <1>3, <1>4 DEF Named

\* Every step keeps what is reported to what was performed.
LEMMA EarnedStep ==
    ASSUME TypeOK, Named, Earned, [Next]_vars, ResultMoves, UnityMoves
    PROVE  Earned'
<1>0. \A p : Performed(p) => Performed(p)'
  BY PerformedForGood
<1>1. (\A p \in unityResults : p \in Payloads /\ Performed(p))'
  <2>1. CASE unityResults' \subseteq unityResults
    BY <1>0, <2>1 DEF Earned
  <2>2. ASSUME NEW e \in Executions, NEW s \in {"pending", "acked"},
               unity[e] # "unknown", unity' = [unity EXCEPT ![e] = s],
               unityResults' \subseteq unityResults \union {admitted[e]},
               UNCHANGED admitted
        PROVE  (\A p \in unityResults : p \in Payloads /\ Performed(p))'
    <3>1. admitted[e] \in Payloads /\ admitted[e][1] = e
      BY <2>2 DEF Named, TypeOK, Identities
    <3>2. Performed(admitted[e])'
      BY <2>2, <3>1 DEF Performed, TypeOK
    <3>3. admitted[e]' = admitted[e]
      BY <2>2
    <3> QED BY <1>0, <2>2, <3>1, <3>2, <3>3 DEF Earned
  <2> QED BY <2>1, <2>2 DEF UnityMoves, UnityKept
<1>2. (\A e \in Executions : resValues[e] # None => Performed(resValues[e]))'
  <2>1. CASE ResultsKept
    BY <1>0, <2>1 DEF ResultsKept, Earned, Performed
  <2>2. ASSUME NEW p \in unityResults, resValues' = [resValues EXCEPT ![p[1]] = p]
        PROVE  (\A e \in Executions : resValues[e] # None => Performed(resValues[e]))'
    BY <1>0, <2>2 DEF Earned, Performed, TypeOK, Identities
  <2>3. ASSUME NEW p \in Payloads, resValues' = [resValues EXCEPT ![p[1]] = None]
        PROVE  (\A e \in Executions : resValues[e] # None => Performed(resValues[e]))'
    BY <1>0, <2>3 DEF Earned, Performed, TypeOK, Identities
  <2> QED BY <2>1, <2>2, <2>3 DEF ResultMoves
<1>3. (\A m \in toPythonResult :
         m.type = "CommitAck" /\ m.status = "COMMITTED" => Performed(m.result))'
  <2> SUFFICES ASSUME NEW m \in toPythonResult', m.type = "CommitAck", m.status = "COMMITTED"
               PROVE  Performed(m.result)'
    BY DEF Performed
  <2>1. CASE m \in toPythonResult
    BY <1>0, <2>1 DEF Earned
  <2>2. CASE m \notin toPythonResult
    <3>1. PICK p \in Payloads : resValues[p[1]] = p /\ m.result = p
      BY <2>2 DEF ResultMoves, ResultsKept
    <3>2. Performed(p)
      BY <3>1, PayloadFields, ReliableExecutionAssumption DEF Earned
    <3> QED BY <1>0, <3>1, <3>2
  <2> QED BY <2>1, <2>2
<1>4. TransitionIsPerformed'
  <2> SUFFICES ASSUME NEW e \in Executions, phase'[e] = "transition"
               PROVE  Performed(Payload(e))'
    BY DEF TransitionIsPerformed
  <2>1. Performed(Payload(e)) /\ Payload(e)' = Payload(e)
    BY TransitionIsAcknowledged DEF Earned, TransitionIsPerformed, Payload
  <2> QED BY <1>0, <2>1 DEF Performed
<1> QED BY <1>1, <1>2, <1>3, <1>4 DEF Earned

\* The initial states.
LEMMA NamedAndEarnedInit == Init => Named /\ Earned
  BY DEF Init, C!Init, R!Init, Named, Earned, TransitionIsPerformed

\* A transition Python returns is of a primitive Unity has performed with the
\* payload Python asked for: through every eviction of the bridge's memory, every
\* loss, and any number of Python processes that repeat the ids of the old.
THEOREM TransitionsWerePerformed == Spec => []TransitionIsPerformed
<1>1. Init => Named /\ Earned
  BY NamedAndEarnedInit
<1>2. TypeOK /\ ResultStore /\ Named /\ Earned /\ [Next]_vars => Named' /\ Earned'
  BY EveryStepMoves, NamedStep, EarnedStep
<1>3. IInv => TypeOK /\ ResultStore
  BY DEF IInv
<1>4. Earned => TransitionIsPerformed
  BY DEF Earned, TransitionIsPerformed
<1> QED BY <1>1, <1>2, <1>3, <1>4, PathInvariant, PTL DEF Spec

\* In the first process Unity knows only what Python has asked for, and it
\* performed it after Python asked.
FirstAsked ==
    restarts = 0 =>
        \A e \in Executions :
            /\ phase[e] = "new" => unity[e] = "unknown"
            /\ unity[e] # "unknown" => e \in performedSince

\* Every step keeps FirstAsked.
LEMMA FirstAskedStep ==
    ASSUME TypeOK, Unasked, FirstAsked, [Next]_vars
    PROVE  FirstAsked'
<1>1. CASE /\ UNCHANGED <<restarts, performedSince>>
           /\ \A e \in Executions : phase'[e] = "new" => phase[e] = "new"
           /\ \A e \in Executions : unity'[e] = "unknown" <=> unity[e] = "unknown"
  BY <1>1 DEF FirstAsked
<1>2. ASSUME NEW d \in Executions, NEW a \in Actions, Submit(d, a) PROVE FirstAsked'
  <2> SUFFICES ASSUME restarts = 0, NEW e \in Executions
               PROVE  /\ phase'[e] = "new" => unity'[e] = "unknown"
                      /\ unity'[e] # "unknown" => e \in performedSince'
    BY <1>2 DEF FirstAsked, Submit
  <2>1. CASE d = e
    BY <1>2, <2>1 DEF FirstAsked, Submit, TypeOK
  <2>2. CASE d # e
    BY <1>2, <2>2 DEF FirstAsked, Submit, TypeOK
  <2> QED BY <2>1, <2>2
<1>3. CASE Python /\ ~Restart /\ \A d \in Executions, a \in Actions : ~Submit(d, a)
  <2>1. UNCHANGED <<restarts, performedSince, unity>>
    BY <1>3 DEF Python, TakeReceipt, TakeResult, TakeRepeatedResult, TakeStrayResult,
       TakeCommitAck, SendCommit, Abort, unityVars
  <2>2. \A e \in Executions : phase'[e] = "new" => phase[e] = "new"
    BY <1>3 DEF Python, TakeReceipt, TakeResult, TakeRepeatedResult, TakeStrayResult,
       TakeCommitAck, SendCommit, Abort, TypeOK
  <2> QED BY <1>1, <2>1, <2>2
<1>4. CASE Restart
  <2>1. restarts' # 0
    BY <1>4 DEF Restart, TypeOK
  <2> QED BY <2>1 DEF FirstAsked
<1>5. CASE Bridge \/ Lose \/ UNCHANGED vars
  <2>1. UNCHANGED <<phase, restarts, performedSince, unity>>
    BY <1>5 DEF Bridge, BridgeTakesCommand, BridgeTakesUnityReceipt, BridgeTakesResult,
       BridgeTakesConfirmation, BridgeTakesCommit, BridgeRetriesCommands, BridgeTakesReady,
       BridgeSeesDisconnect, BridgeRetriesResults, Lose, vars, pythonVars, unityVars
  <2> QED BY <1>1, <2>1
<1>6. ASSUME NEW m \in toUnityCommand, UnityAdmits(m) PROVE FirstAsked'
  <2> SUFFICES ASSUME restarts = 0, NEW e \in Executions
               PROVE  /\ phase[e] = "new" => unity'[e] = "unknown"
                      /\ unity'[e] # "unknown" => e \in performedSince'
    BY <1>6 DEF FirstAsked, UnityAdmits, pythonVars
  <2>1. CASE m.key = e
    BY <1>6, <2>1 DEF Unasked, UnityAdmits
  <2>2. CASE m.key # e
    BY <1>6, <2>2 DEF FirstAsked, UnityAdmits, TypeOK
  <2> QED BY <2>1, <2>2
<1>7. CASE Unity /\ \A m \in toUnityCommand : ~UnityAdmits(m)
  <2>1. UNCHANGED <<phase, restarts, performedSince>>
    BY <1>7 DEF Unity, UnityTakesKnown, UnityCompletes, UnityResends, UnityTakesAck,
       pythonVars, unityVars
  <2>2. \A e \in Executions : unity'[e] = "unknown" <=> unity[e] = "unknown"
    BY <1>7 DEF Unity, UnityTakesKnown, UnityCompletes, UnityResends, UnityTakesAck,
       unityVars, TypeOK
  <2> QED BY <1>1, <2>1, <2>2
<1> QED BY <1>2, <1>3, <1>4, <1>5, <1>6, <1>7 DEF Next, Unity

\* In the first Python process every transition is fresh: the primitive was
\* performed after Python asked for it, whatever the bridge has evicted.  Only a
\* process that repeats the ids of an older one can be given an old result.
THEOREM FirstProcessIsFresh == Spec => [](restarts = 0 => TransitionIsFresh)
<1>1. Init => FirstAsked
  BY DEF Init, FirstAsked
<1>2. TypeOK /\ Unasked /\ FirstAsked /\ [Next]_vars => FirstAsked'
  BY FirstAskedStep
<1>3. IInv => TypeOK
  BY DEF IInv
<1>4. Spec => []FirstAsked
  BY <1>1, <1>2, <1>3, NoCommandUnasked, PathInvariant, PTL DEF Spec
<1>5. FirstAsked /\ TransitionIsPerformed => (restarts = 0 => TransitionIsFresh)
  BY DEF FirstAsked, TransitionIsPerformed, Performed, Payload, TransitionIsFresh
<1> QED BY <1>4, <1>5, TransitionsWerePerformed, PTL
-----------------------------------------------------------------------------
\* How far eviction matters: only a late message of an execution the bridge has
\* forgotten can part the brokers.

\* Unity knows the execution and the bridge has no entry and no tombstone of it.
Forgotten(e) == unity[e] # "unknown" /\ KnownCommand(e) = None

\* No command and no result of such an execution is under way.
NoneRecalled ==
    \A e \in Executions :
        Forgotten(e) =>
            /\ \A p \in commands \union unityResults : p[1] # e
            /\ \A m \in toUnityCommand : m.key # e

\* What Unity admitted is the command the bridge knows, if it knows one.
AdmittedUnlessForgotten ==
    \A e \in Executions :
        unity[e] # "unknown" /\ KnownCommand(e) # None => admitted[e] = KnownCommand(e)

\* A result in the store names its execution, and a tombstone is of what Unity
\* performed.
ResultsAreNamed ==
    \A e \in Executions :
        /\ resValues[e] # None => resValues[e][1] = e
        /\ resTerminal[e] # None => resTerminal[e][1] = e /\ Performed(resTerminal[e])

\* An execution is committed as r, or forgotten.
CommittedOrForgotten(e, r) == r # None /\ (resTerminal[e] = r \/ Forgotten(e))

\* COMMITTED on its way to Python is true.
CommittedIsTrueOrPast ==
    \A m \in toPythonResult :
        m.type = "CommitAck" /\ m.status = "COMMITTED" =>
            m.key \in Executions /\ CommittedOrForgotten(m.key, m.result)

\* A transition Python returned is committed under the identity it asked for, or
\* the bridge has forgotten the execution altogether.
TransitionIsCommittedOrPast ==
    \A e \in Executions : phase[e] = "transition" => CommittedOrForgotten(e, Payload(e))

\* The inductive invariant of the executions that are never recalled.
Agreed ==
    /\ ForwardedIsKnown /\ AdmittedUnlessForgotten
    /\ ResultsAreNamed /\ StoresJoined

\* What is committed or forgotten stays so.
PastKept ==
    \A e \in Executions : \A r :
        CommittedOrForgotten(e, r) => CommittedOrForgotten(e, r)'

\* Unity admits nothing.
AdmitsNothing ==
    /\ UNCHANGED admitted
    /\ \A e \in Executions : unity'[e] = "unknown" <=> unity[e] = "unknown"

\* A step of Unity admits a command that was forwarded, or nothing.
LEMMA AdmitsOrNot ==
    ASSUME TypeOK, UnityMoves
    PROVE  \/ AdmitsNothing
           \/ \E m \in toUnityCommand :
                /\ unity' = [unity EXCEPT ![m.key] = "executing"]
                /\ admitted' = [admitted EXCEPT ![m.key] = m.payload]
<1>1. ASSUME NEW e \in Executions, NEW s \in {"pending", "acked"}, unity[e] # "unknown",
             unity' = [unity EXCEPT ![e] = s], UNCHANGED admitted
      PROVE  AdmitsNothing
  BY <1>1 DEF AdmitsNothing, TypeOK
<1>2. UnityKept => AdmitsNothing
  BY DEF UnityKept, AdmitsNothing
<1> QED BY <1>1, <1>2 DEF UnityMoves

\* A step that moves no store keeps Agreed, whatever Unity does.
LEMMA StoresKeepAgreed ==
    ASSUME TypeOK, Agreed, CommandsKept, ResultsKept, UnityMoves
    PROVE  Agreed' /\ PastKept
<1> USE ReliableExecutionAssumption
<1>0. \A p : Performed(p) => Performed(p)'
  BY PerformedForGood
<1>1. ForwardedIsKnown'
  BY ForwardedKept DEF Agreed
<1>2. AdmittedUnlessForgotten'
  <2>1. \A e \in Executions : KnownCommand(e)' = KnownCommand(e)
    BY KnownKept
  <2>2. CASE AdmitsNothing
    BY <2>1, <2>2 DEF AdmitsNothing, Agreed, AdmittedUnlessForgotten
  <2>3. ASSUME NEW m \in toUnityCommand,
               unity' = [unity EXCEPT ![m.key] = "executing"],
               admitted' = [admitted EXCEPT ![m.key] = m.payload]
        PROVE  AdmittedUnlessForgotten'
    <3>1. m.key \in Executions /\ m.payload = KnownCommand(m.key)
      BY DEF Agreed, ForwardedIsKnown, TypeOK, C!Commands
    <3>2. \A e \in Executions :
            /\ unity'[e] = IF e = m.key THEN "executing" ELSE unity[e]
            /\ admitted'[e] = IF e = m.key THEN m.payload ELSE admitted[e]
      BY <2>3, <3>1 DEF TypeOK, Identities
    <3> QED BY <2>1, <3>1, <3>2 DEF Agreed, AdmittedUnlessForgotten
  <2> QED BY <2>2, <2>3, AdmitsOrNot
<1>3. ResultsAreNamed'
  BY <1>0 DEF Agreed, ResultsAreNamed, ResultsKept
<1>4. StoresJoined'
  BY DEF Agreed, StoresJoined, BrokersAgree, CommandsKept, ResultsKept
<1>5. PastKept
  <2>1. UnityRemembers
    BY NeverUnknownAgain
  <2> QED BY <2>1, KnownKept
          DEF PastKept, CommittedOrForgotten, Forgotten, UnityRemembers, ResultsKept
<1> QED BY <1>1, <1>2, <1>3, <1>4, <1>5 DEF Agreed

\* A command the bridge takes for new is of an execution Unity does not know.
LEMMA NewCommandKeepsAgreed ==
    ASSUME TypeOK, Agreed, NoneRecalled,
           NEW p \in Payloads, p \in commands, KnownCommand(p[1]) = None,
           cmdValues' = [cmdValues EXCEPT ![p[1]] = p],
           UNCHANGED <<cmdTerminal, cmdOrder>>,
           \A m \in toUnityCommand' : m \in toUnityCommand \/ m = C!Command(p[1], p),
           ResultsKept, UnityKept
    PROVE  Agreed' /\ PastKept
<1> DEFINE k == p[1]
<1>1. k \in Executions /\ p # None /\ p[1] = k
  BY PayloadFields, ReliableExecutionAssumption
<1>2. cmdValues[k] = None /\ cmdTerminal[k] = None
  BY DEF KnownCommand
<1>3. \A e \in Executions : KnownCommand(e)' = IF e = k THEN p ELSE KnownCommand(e)
  BY <1>1 DEF KnownCommand, TypeOK, Identities
<1>4. unity[k] = "unknown"
  BY <1>1 DEF NoneRecalled, Forgotten
<1> HIDE DEF k
<1>5. ForwardedIsKnown'
  <2> SUFFICES ASSUME NEW m \in toUnityCommand' PROVE m.payload = KnownCommand(m.key)'
    BY DEF ForwardedIsKnown
  <2>1. CASE m \in toUnityCommand
    <3>1. m.key \in Executions /\ m.payload \in Payloads /\ m.payload = KnownCommand(m.key)
      BY <2>1 DEF Agreed, ForwardedIsKnown, TypeOK, C!Commands
    <3>2. m.key # k
      BY <3>1, ReliableExecutionAssumption DEF k
    <3> QED BY <3>1, <3>2, <1>3
  <2>2. CASE m = C!Command(k, p)
    BY <2>2, <1>1, <1>3 DEF C!Command
  <2> QED BY <2>1, <2>2 DEF k
<1>6. AdmittedUnlessForgotten'
  BY <1>3, <1>4 DEF Agreed, AdmittedUnlessForgotten, UnityKept
<1>7. ResultsAreNamed'
  BY DEF Agreed, ResultsAreNamed, ResultsKept, Performed, UnityKept
<1>8. StoresJoined'
  <2>1. resValues[k] = None
    BY <1>1, <1>2 DEF Agreed, StoresJoined, BrokersAgree
  <2>2. /\ UNCHANGED <<resValues, resTerminal, resOrder, cmdTerminal, cmdOrder>>
        /\ \A e \in Executions : e # k => cmdValues'[e] = cmdValues[e]
    BY DEF ResultsKept, k, TypeOK, Identities
  <2> QED BY <1>2, <2>1, <2>2 DEF Agreed, StoresJoined, BrokersAgree
<1>9. PastKept
  BY <1>3, <1>4 DEF PastKept, CommittedOrForgotten, Forgotten, ResultsKept, UnityKept
<1> QED BY <1>5, <1>6, <1>7, <1>8, <1>9 DEF Agreed

\* A result the bridge takes for new is that of its active command.
LEMMA NewResultKeepsAgreed ==
    ASSUME TypeOK, Agreed, Earned, NoneRecalled,
           NEW p \in Payloads, p \in unityResults, KnownResult(p[1]) = None,
           resValues' = [resValues EXCEPT ![p[1]] = p],
           UNCHANGED <<resTerminal, resOrder>>,
           CommandsKept, UnityKept
    PROVE  Agreed' /\ PastKept
<1> DEFINE k == p[1]
<1>1. k \in Executions /\ p # None /\ p[1] = k
  BY PayloadFields, ReliableExecutionAssumption
<1>2. resValues[k] = None /\ resTerminal[k] = None
  BY DEF KnownResult
<1>3. \A e \in Executions : resValues'[e] = IF e = k THEN p ELSE resValues[e]
  BY <1>1 DEF TypeOK, Identities
<1>4. unity[k] # "unknown" /\ admitted[k] = p
  BY DEF Earned, Performed
<1>5. ~Forgotten(k)
  BY <1>1 DEF NoneRecalled
<1> HIDE DEF k
<1>6. cmdValues[k] = p
  <2>1. KnownCommand(k) # None
    BY <1>4, <1>5 DEF Forgotten
  <2>2. KnownCommand(k) = p
    BY <1>1, <1>4, <2>1 DEF Agreed, AdmittedUnlessForgotten
  <2>3. cmdTerminal[k] = None
    BY <1>1, <1>2 DEF Agreed, StoresJoined, BrokersAgree
  <2> QED BY <1>1, <2>2, <2>3 DEF KnownCommand
<1>7. ForwardedIsKnown'
  BY ForwardedKept DEF Agreed
<1>8. AdmittedUnlessForgotten'
  BY KnownKept DEF Agreed, AdmittedUnlessForgotten, UnityKept
<1>9. ResultsAreNamed'
  BY <1>1, <1>3 DEF Agreed, ResultsAreNamed, Performed, UnityKept
<1>10. StoresJoined'
  <2>1. UNCHANGED <<resTerminal, resOrder, cmdValues, cmdTerminal, cmdOrder>>
    BY DEF CommandsKept
  <2> QED BY <1>3, <1>6, <2>1 DEF Agreed, StoresJoined, BrokersAgree
<1>11. PastKept
  BY KnownKept DEF PastKept, CommittedOrForgotten, Forgotten, UnityKept
<1> QED BY <1>7, <1>8, <1>9, <1>10, <1>11 DEF Agreed

\* A commit retires both entries, and evicts the same tombstone from both.
LEMMA CommitKeepsAgreed ==
    ASSUME TypeOK, ResultStore, Agreed, Earned, NoneRecalled',
           NEW p \in Payloads, BridgeTakesCommit(p), R!Commit(p[1], p), UnityKept
    PROVE  /\ Agreed' /\ PastKept
           /\ resTerminal'[p[1]] = p
<1> DEFINE k == p[1]
           gone == Evicted(resOrder, k, TombstoneCapacity)
<1>1. k \in Executions /\ p # None /\ p[1] = k
  BY PayloadFields, ReliableExecutionAssumption
<1>2. /\ resValues[k] = p
      /\ resValues' = [resValues EXCEPT ![k] = None]
  BY DEF R!Commit
<1>3. /\ resTerminal' = [e \in Executions |->
           IF e = k THEN p ELSE IF e \in gone THEN None ELSE resTerminal[e]]
      /\ resOrder' = Pushed(resOrder, k, TombstoneCapacity)
  BY CommitStored
<1>4. cmdValues[k] = p /\ cmdTerminal[k] = None /\ resTerminal[k] = None
  BY <1>1, <1>2 DEF Agreed, StoresJoined, BrokersAgree, ResultStore
<1>5. C!FinalizeExecution(k, p)
  <2>1. CASE R!CommitDuplicate(p[1], p) \/ R!CommitRefused(p[1], p)
    BY <1>1, <1>2, <2>1
       DEF R!CommitDuplicate, R!CommitRefused, R!KnownResult, R!Active
  <2>2. C!Active(k)
    BY <1>1, <1>4 DEF C!Active
  <2> QED BY <1>4, <2>1, <2>2 DEF BridgeTakesCommit
<1>6. /\ cmdValues' = [cmdValues EXCEPT ![k] = None]
      /\ cmdTerminal' = [e \in Executions |->
           IF e = k THEN p
           ELSE IF e \in Evicted(cmdOrder, k, TombstoneCapacity) THEN None ELSE cmdTerminal[e]]
      /\ cmdOrder' = Pushed(cmdOrder, k, TombstoneCapacity)
      /\ UNCHANGED toUnityCommand
  BY <1>5, SameFifo DEF C!FinalizeExecution
<1>7. cmdOrder = resOrder /\ \A e \in Executions : resTerminal[e] = cmdTerminal[e]
  BY DEF Agreed, StoresJoined, BrokersAgree
<1>8. /\ cmdOrder' = resOrder'
      /\ \A e \in Executions :
           /\ cmdTerminal'[e] = resTerminal'[e]
           /\ resTerminal'[e] = IF e = k THEN p ELSE IF e \in gone THEN None ELSE resTerminal[e]
           /\ resValues'[e] = IF e = k THEN None ELSE resValues[e]
           /\ cmdValues'[e] = IF e = k THEN None ELSE cmdValues[e]
  BY <1>2, <1>3, <1>6, <1>7 DEF TypeOK, Identities
<1>9. Performed(p)
  BY <1>1, <1>2 DEF Earned
<1> HIDE DEF k, gone
<1>10. \A e \in Executions :
         \/ KnownCommand(e)' = KnownCommand(e)
         \/ KnownCommand(e)' = None /\ cmdTerminal[e] # None
  BY <1>1, <1>4, <1>7, <1>8 DEF KnownCommand
<1>11. \A e \in Executions : cmdTerminal[e] # None => unity'[e] # "unknown"
  BY <1>7 DEF Agreed, ResultsAreNamed, Performed, UnityKept
<1>12. ForwardedIsKnown'
  <2> SUFFICES ASSUME NEW m \in toUnityCommand' PROVE m.payload = KnownCommand(m.key)'
    BY DEF ForwardedIsKnown
  <2>1. m \in toUnityCommand
    BY <1>6
  <2>2. m.key \in Executions /\ m.payload = KnownCommand(m.key)
    BY <2>1 DEF TypeOK, C!Commands, Agreed, ForwardedIsKnown
  <2>3. ~Forgotten(m.key)'
    BY <2>2 DEF NoneRecalled
  <2> QED BY <1>10, <1>11, <2>2, <2>3 DEF Forgotten
<1>13. AdmittedUnlessForgotten'
  BY <1>10 DEF Agreed, AdmittedUnlessForgotten, UnityKept
<1>14. ResultsAreNamed'
  BY <1>1, <1>8, <1>9 DEF Agreed, ResultsAreNamed, Performed, UnityKept
<1>15. StoresJoined'
  BY <1>8 DEF Agreed, StoresJoined, BrokersAgree
<1>16. PastKept
  <2> SUFFICES ASSUME NEW e \in Executions, NEW r, r # None,
                      resTerminal[e] = r \/ Forgotten(e)
               PROVE  resTerminal'[e] = r \/ Forgotten(e)'
    BY DEF PastKept, CommittedOrForgotten
  <2>1. CASE Forgotten(e)
    <3>1. KnownCommand(e)' = None
      BY <1>10, <2>1 DEF Forgotten
    <3> QED BY <2>1, <3>1 DEF Forgotten, UnityKept
  <2>2. CASE resTerminal[e] = r
    <3>1. e # k /\ cmdTerminal[e] = r /\ cmdValues[e] = None
      BY <1>4, <1>7, <2>2 DEF Agreed, StoresJoined
    <3>2. CASE e \in gone
      <4>1. KnownCommand(e)' = None
        BY <1>8, <3>1, <3>2 DEF KnownCommand
      <4> QED BY <1>11, <3>1, <4>1 DEF Forgotten
    <3>3. CASE e \notin gone
      BY <1>8, <2>2, <3>1, <3>3
    <3> QED BY <3>2, <3>3
  <2> QED BY <2>1, <2>2
<1>17. resTerminal'[k] = p
  BY <1>1, <1>8
<1> QED BY <1>12, <1>13, <1>14, <1>15, <1>16, <1>17 DEF Agreed, k

\* Every step keeps Agreed, and COMMITTED on its way to Python true.
LEMMA AgreedStep ==
    ASSUME TypeOK, ResultStore, Earned, Agreed, CommittedIsTrueOrPast,
           NoneRecalled, NoneRecalled', [Next]_vars
    PROVE  Agreed' /\ PastKept /\ CommittedIsTrueOrPast'
<1> DEFINE Goal == Agreed' /\ PastKept /\ CommittedIsTrueOrPast'
<1> SUFFICES Goal
  OBVIOUS
<1>0. UnityMoves
  BY EveryStepMoves
<1>1. ASSUME PastKept,
             \A m \in toPythonResult' :
               m.type = "CommitAck" /\ m.status = "COMMITTED" =>
                 \/ m \in toPythonResult
                 \/ m.key \in Executions /\ m.result # None /\ resTerminal'[m.key] = m.result
      PROVE  CommittedIsTrueOrPast'
  <2> SUFFICES ASSUME NEW m \in toPythonResult', m.type = "CommitAck", m.status = "COMMITTED"
               PROVE  m.key \in Executions /\ CommittedOrForgotten(m.key, m.result)'
    BY DEF CommittedIsTrueOrPast, CommittedOrForgotten, Forgotten, KnownCommand
  <2>1. CASE m \in toPythonResult
    BY <1>1, <2>1 DEF CommittedIsTrueOrPast, PastKept
  <2>2. CASE m.key \in Executions /\ m.result # None /\ resTerminal'[m.key] = m.result
    BY <2>2 DEF CommittedOrForgotten
  <2> QED BY <1>1, <2>1, <2>2
<1>2. ASSUME CommandsKept, ResultsKept PROVE Goal
  <2>1. Agreed' /\ PastKept
    BY <1>0, <1>2, StoresKeepAgreed
  <2> QED BY <1>1, <1>2, <2>1 DEF ResultsKept
<1>3. ASSUME NEW p \in Payloads, BridgeTakesCommand(p) PROVE Goal
  <2>1. ResultsKept /\ UnityKept /\ p \in commands
    BY <1>3, CommandTaken DEF BridgeTakesCommand
  <2>2. CASE CommandsKept
    BY <1>2, <2>1, <2>2
  <2>3. CASE /\ KnownCommand(p[1]) = None
             /\ cmdValues' = [cmdValues EXCEPT ![p[1]] = p]
             /\ UNCHANGED <<cmdTerminal, cmdOrder>>
             /\ \A m \in toUnityCommand' : m \in toUnityCommand \/ m = C!Command(p[1], p)
    <3>1. Agreed' /\ PastKept
      BY <2>1, <2>3, NewCommandKeepsAgreed
    <3> QED BY <1>1, <2>1, <3>1 DEF ResultsKept
  <2> QED BY <1>3, <2>2, <2>3, CommandTaken
<1>4. ASSUME NEW p \in Payloads, BridgeTakesResult(p) PROVE Goal
  <2>1. CommandsKept /\ UnityKept /\ p \in unityResults
    BY <1>4, ResultTaken
  <2>2. CASE ResultsKept
    BY <1>2, <2>1, <2>2
  <2>3. CASE /\ KnownResult(p[1]) = None
             /\ resValues' = [resValues EXCEPT ![p[1]] = p]
             /\ UNCHANGED <<resTerminal, resOrder>>
             /\ \A m \in toPythonResult' : m \in toPythonResult \/ m.type = "Result"
    <3>1. Agreed' /\ PastKept
      BY <2>1, <2>3, NewResultKeepsAgreed
    <3> QED BY <1>1, <2>3, <3>1
  <2> QED BY <1>4, <2>2, <2>3, ResultTaken
<1>5. ASSUME NEW p \in Payloads, BridgeTakesCommit(p) PROVE Goal
  <2>1. UnityKept
    BY <1>5, CommitTaken
  <2>2. CASE CommandsKept /\ ResultsKept
    BY <1>2, <2>2
  <2>3. CASE R!Commit(p[1], p)
    <3>1. Agreed' /\ PastKept /\ resTerminal'[p[1]] = p
      BY <1>5, <2>1, <2>3, CommitKeepsAgreed
    <3>2. \A m \in toPythonResult' :
            m \in toPythonResult \/ m = R!CommitAck(p[1], p, "COMMITTED")
      BY <2>3 DEF R!Commit, R!SendCommitAck
    <3>3. /\ R!CommitAck(p[1], p, "COMMITTED").key = p[1]
          /\ R!CommitAck(p[1], p, "COMMITTED").result = p
      BY DEF R!CommitAck
    <3>4. p[1] \in Executions /\ p # None
      BY PayloadFields, ReliableExecutionAssumption
    <3> QED BY <1>1, <3>1, <3>2, <3>3, <3>4
  <2> QED BY <1>5, <2>2, <2>3, CommitTaken
<1>6. CASE Unity
  BY <1>2, <1>6, StutterKeeps, LinksKeep
     DEF Unity, UnityTakesKnown, UnityAdmits, UnityCompletes, UnityResends, UnityTakesAck
<1>7. CASE UNCHANGED vars
  BY <1>2, <1>7, StutterKeeps DEF vars
<1> HIDE DEF Goal
<1>8. CASE \/ \E p \in Payloads : BridgeTakesUnityReceipt(p) \/ BridgeTakesConfirmation(p)
           \/ BridgeRetriesCommands
           \/ BridgeTakesReady \/ BridgeSeesDisconnect \/ BridgeRetriesResults
  BY <1>2, <1>8, ReceiptTaken, ConfirmationTaken, CommandsRetried, ResultsRelayed
<1> QED BY <1>2, <1>3, <1>4, <1>5, <1>6, <1>7, <1>8, PythonKeeps, LoseKeeps
        DEF Next, Bridge

\* A transition stays committed under its identity, or forgotten.
LEMMA TransitionOrPastStep ==
    ASSUME TypeOK, [Next]_vars, PastKept, CommittedIsTrueOrPast, TransitionIsCommittedOrPast
    PROVE  TransitionIsCommittedOrPast'
<1> SUFFICES ASSUME NEW e \in Executions, phase'[e] = "transition"
             PROVE  CommittedOrForgotten(e, Payload(e))'
  BY DEF TransitionIsCommittedOrPast
<1>1. CommittedOrForgotten(e, Payload(e)) /\ Payload(e)' = Payload(e)
  BY TransitionIsAcknowledged
     DEF TransitionIsCommittedOrPast, CommittedIsTrueOrPast, Payload
<1> DEFINE r == Payload(e)
<1>2. CommittedOrForgotten(e, r) /\ r = Payload(e)'
  BY <1>1
<1> HIDE DEF r
<1> QED BY <1>2 DEF PastKept, CommittedOrForgotten

\* The initial states.
LEMMA AgreedInit == Init => Agreed /\ CommittedIsTrueOrPast /\ TransitionIsCommittedOrPast
  BY DEF Init, C!Init, R!Init, Agreed, ForwardedIsKnown, AdmittedUnlessForgotten,
         ResultsAreNamed, StoresJoined, BrokersAgree, KnownCommand,
         CommittedIsTrueOrPast, TransitionIsCommittedOrPast

\* The invariant holds as long as nothing forgotten is recalled.
LEMMA AgreedAlways ==
    Spec /\ []NoneRecalled => [](Agreed /\ TransitionIsCommittedOrPast)
<1>1. Init => Named /\ Earned
  BY NamedAndEarnedInit
<1>2. TypeOK /\ ResultStore /\ Named /\ Earned /\ [Next]_vars => Named' /\ Earned'
  BY EveryStepMoves, NamedStep, EarnedStep
<1>3. IInv => TypeOK /\ ResultStore
  BY DEF IInv
<1>4. /\ TypeOK /\ ResultStore /\ Earned /\ Agreed /\ CommittedIsTrueOrPast
      /\ TransitionIsCommittedOrPast /\ NoneRecalled /\ NoneRecalled' /\ [Next]_vars
      => Agreed' /\ CommittedIsTrueOrPast' /\ TransitionIsCommittedOrPast'
  BY AgreedStep, TransitionOrPastStep
<1> QED BY <1>1, <1>2, <1>3, <1>4, AgreedInit, PathInvariant, PTL DEF Spec

\* For any number of executions and any capacity the brokers agree, through every
\* eviction, unless a late message recalls an execution the bridge has forgotten.
THEOREM BrokersAgreeUnlessRecalled == Spec /\ []NoneRecalled => []BrokersAgree
<1>1. Agreed => BrokersAgree
  BY DEF Agreed, StoresJoined
<1> QED BY <1>1, AgreedAlways, PTL

\* Then also a returned transition is committed under the identity Python asked
\* for until it is forgotten, never under another, and Unity performed it.
THEOREM TransitionsCommittedUnlessRecalled ==
    Spec /\ []NoneRecalled =>
        [](\A e \in Executions :
             phase[e] = "transition" =>
                 /\ resTerminal[e] = Payload(e) \/ Forgotten(e)
                 /\ Performed(Payload(e)))
<1> DEFINE Claim == \A e \in Executions :
                      phase[e] = "transition" =>
                          /\ resTerminal[e] = Payload(e) \/ Forgotten(e)
                          /\ Performed(Payload(e))
<1>1. TransitionIsCommittedOrPast /\ TransitionIsPerformed => Claim
  BY DEF TransitionIsCommittedOrPast, TransitionIsPerformed, CommittedOrForgotten
<1> HIDE DEF Claim
<1>2. Spec /\ []NoneRecalled => []Claim
  BY <1>1, AgreedAlways, TransitionsWerePerformed, PTL
<1> QED BY <1>2 DEF Claim
=============================================================================
