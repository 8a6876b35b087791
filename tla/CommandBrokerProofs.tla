------------------------ MODULE CommandBrokerProofs ------------------------
(***************************************************************************)
(* Theorems about CommandBroker for any keys, payloads and tombstone       *)
(* capacity.  The inductive invariant is TypeOK /\ StoreConsistent; the    *)
(* three action properties follow from it step by step.                    *)
(***************************************************************************)
EXTENDS CommandBroker, TombstoneFifoProofs

\* The wire constructors build messages of their types.
LEMMA MessageTypes ==
    /\ \A k \in Keys, p \in Payloads : Command(k, p) \in Commands
    /\ \A k \in Keys, h \in Hashes, s \in ReceiptStatus :
         Receipt(k, h, s) \in Receipts
  BY DEF Command, Commands, Receipt, Receipts

\* The identity of an active key is the hash of its payload, a Hashes value.
LEMMA ActiveTypes ==
    ASSUME TypeOK, NEW k \in Keys, Active(k)
    PROVE  /\ values[k] \in Payloads /\ HashOf[values[k]] \in Hashes
           /\ KnownHash(k) = HashOf[values[k]]
  BY CommandBrokerAssumption DEF TypeOK, Active, KnownHash

\* Every step keeps the types.
LEMMA TypeStep == TypeOK /\ [Next]_vars => TypeOK'
<1> SUFFICES ASSUME TypeOK, [Next]_vars PROVE TypeOK'
  OBVIOUS
<1> USE CommandBrokerAssumption
<1>1. ASSUME NEW k \in Keys, NEW p \in Payloads, Receive(k, p)
      PROVE  TypeOK'
  <2>1. HashOf[p] \in Hashes
    OBVIOUS
  <2>2. CASE ReceiveForeign(k, p)
    BY <2>1, <2>2, MessageTypes DEF ReceiveForeign, Refuse, TypeOK, store, ReceiptStatus
  <2>3. CASE ReceiveMalformed(k, p)
    BY <2>1, <2>3, MessageTypes DEF ReceiveMalformed, Refuse, TypeOK, store, ReceiptStatus
  <2>4. CASE ReceiveConflict(k, p)
    BY <2>1, <2>4, MessageTypes DEF ReceiveConflict, Refuse, TypeOK, store, ReceiptStatus
  <2>5. CASE ReceiveDuplicate(k, p)
    BY <2>1, <2>5, MessageTypes
       DEF ReceiveDuplicate, Forward, SendPythonReceipt, TypeOK, ReceiptStatus
  <2>6. CASE ReceiveNew(k, p)
    BY <2>6, MessageTypes DEF ReceiveNew, Forward, TypeOK
  <2> QED BY <1>1, <2>2, <2>3, <2>4, <2>5, <2>6 DEF Receive
<1>2. ASSUME NEW k \in Keys, NEW h \in Hashes, HandleUnityReceipt(k, h)
      PROVE  TypeOK'
  BY <1>2, MessageTypes DEF HandleUnityReceipt, SendPythonReceipt, TypeOK, ReceiptStatus
<1>3. ASSUME NEW k \in Keys, NEW h \in Hashes, FinalizeExecution(k, h)
      PROVE  TypeOK'
  <2>1. Append(terminalOrder, k) \in Seq(Keys) /\ Append(terminalOrder, k) # <<>>
    BY DEF TypeOK
  <2>2. terminalOrder' \in Seq(Keys)
    BY <1>3, <2>1 DEF FinalizeExecution, Pushed
  <2> QED BY <1>3, <2>2 DEF FinalizeExecution, TypeOK
<1>4. CASE RetryPendingPrimitiveCommandsIfDue
  <2>1. PICK sent \in SUBSET PendingKeys :
          toUnity' = toUnity \union {Command(k, values[k]) : k \in sent}
    BY <1>4 DEF RetryPendingPrimitiveCommandsIfDue, RetryPendingCommands
  <2>2. PICK acked \in SUBSET AckPendingKeys :
          /\ toPython' = toPython \union
                           {Receipt(k, KnownHash(k), "RECEIVED") : k \in acked}
          /\ pythonAck' = pythonAck \union acked
    BY <1>4 DEF RetryPendingPrimitiveCommandsIfDue, RetryPythonAcks
  <2>3. \A k \in sent : Command(k, values[k]) \in Commands
    BY ActiveTypes, MessageTypes DEF PendingKeys, ActiveKeys
  <2>4. \A k \in acked : k \in Keys /\ Receipt(k, KnownHash(k), "RECEIVED") \in Receipts
    BY ActiveTypes, MessageTypes DEF AckPendingKeys, ActiveKeys, ReceiptStatus
  <2>5. UNCHANGED <<values, unityReceipt, terminal, terminalOrder>>
    BY <1>4 DEF RetryPendingPrimitiveCommandsIfDue
  <2> QED BY <2>1, <2>2, <2>3, <2>4, <2>5 DEF TypeOK
<1>5. ASSUME NEW m, LinkTakesCommand(m) PROVE TypeOK'
  BY <1>5 DEF LinkTakesCommand, TypeOK, store
<1>6. ASSUME NEW m, LinkTakesReceipt(m) PROVE TypeOK'
  BY <1>6 DEF LinkTakesReceipt, TypeOK, store
<1>7. CASE UNCHANGED vars
  BY <1>7 DEF vars, TypeOK
<1> QED BY <1>1, <1>2, <1>3, <1>4, <1>5, <1>6, <1>7 DEF Next

\* TypeOK for every instance.
THEOREM TypeCorrect == Spec => []TypeOK
<1>1. Init => TypeOK
  BY DEF Init, TypeOK
<1> QED BY <1>1, TypeStep, PTL DEF Spec

-----------------------------------------------------------------------------
\* A step that changes neither map nor deque, and marks receipts of active
\* keys only, keeps the store consistent.
LEMMA FlagsOnly ==
    ASSUME StoreConsistent, UNCHANGED <<values, terminal, terminalOrder>>,
           pythonAck' \subseteq unityReceipt', unityReceipt' \subseteq ActiveKeys
    PROVE  StoreConsistent'
<1>1. ActiveKeys' = ActiveKeys /\ TombstonedKeys' = TombstonedKeys
  BY DEF ActiveKeys, Active, TombstonedKeys
<1> QED BY <1>1 DEF StoreConsistent, AckAfterReceipt

\* Finishing an execution moves its key from the one map to the other.
LEMMA FinalizeStep ==
    ASSUME TypeOK, StoreConsistent, NEW k \in Keys, NEW h \in Hashes,
           FinalizeExecution(k, h)
    PROVE  /\ StoreConsistent'
           /\ \A x \in Evicted(terminalOrder, k, TombstoneCapacity) :
                x = Head(terminalOrder) /\ Len(terminalOrder) = TombstoneCapacity
<1> USE CommandBrokerAssumption
<1> DEFINE gone == Evicted(terminalOrder, k, TombstoneCapacity)
<1>1. k \in ActiveKeys /\ k \notin TombstonedKeys
  BY DEF FinalizeExecution, ActiveKeys, StoreConsistent
<1>2. Lists(terminalOrder, TombstonedKeys, TombstoneCapacity)
  BY DEF StoreConsistent
<1>3. /\ Lists(Pushed(terminalOrder, k, TombstoneCapacity),
               (TombstonedKeys \union {k}) \ gone, TombstoneCapacity)
      /\ k \notin gone
      /\ \A x \in gone :
           x = Head(terminalOrder) /\ Len(terminalOrder) = TombstoneCapacity
  BY <1>1, <1>2, ListsPushed
<1> HIDE DEF gone
<1>4. \A x \in Keys : terminal'[x] = IF x = k THEN h
                                     ELSE IF x \in gone THEN None ELSE terminal[x]
  BY DEF FinalizeExecution, gone
<1>5. TombstonedKeys' = (TombstonedKeys \union {k}) \ gone
  BY <1>3, <1>4 DEF TombstonedKeys
<1>6. ActiveKeys' = ActiveKeys \ {k}
  BY DEF FinalizeExecution, ActiveKeys, Active, TypeOK
<1>7. AckAfterReceipt'
  BY <1>6 DEF AckAfterReceipt, FinalizeExecution, StoreConsistent
<1>8. (ActiveKeys \intersect TombstonedKeys = {})'
  BY <1>5, <1>6 DEF StoreConsistent
<1>9. Lists(terminalOrder, TombstonedKeys, TombstoneCapacity)'
  BY <1>3, <1>5 DEF FinalizeExecution
<1> QED BY <1>3, <1>7, <1>8, <1>9 DEF StoreConsistent, gone

\* Every step keeps the store consistent.
LEMMA StoreStep == TypeOK /\ StoreConsistent /\ [Next]_vars => StoreConsistent'
<1> SUFFICES ASSUME TypeOK, StoreConsistent, [Next]_vars PROVE StoreConsistent'
  OBVIOUS
<1>0. pythonAck \subseteq unityReceipt /\ unityReceipt \subseteq ActiveKeys
  BY DEF StoreConsistent, AckAfterReceipt
<1>1. ASSUME NEW k \in Keys, NEW p \in Payloads, Receive(k, p)
      PROVE  StoreConsistent'
  <2>1. CASE ReceiveForeign(k, p) \/ ReceiveMalformed(k, p) \/ ReceiveConflict(k, p)
    BY <1>0, <2>1, FlagsOnly
       DEF ReceiveForeign, ReceiveMalformed, ReceiveConflict, Refuse, store
  <2>2. CASE ReceiveDuplicate(k, p)
    <3>1. pythonAck' \subseteq unityReceipt
      BY <1>0, <2>2 DEF ReceiveDuplicate, Forward, SendPythonReceipt, PendingKeys, ActiveKeys
    <3> QED BY <1>0, <2>2, <3>1, FlagsOnly DEF ReceiveDuplicate
  <2>3. CASE ReceiveNew(k, p)
    <3>1. /\ values' = [values EXCEPT ![k] = p]
          /\ values[k] = None /\ terminal[k] = None
          /\ p # None
          /\ UNCHANGED <<unityReceipt, pythonAck, terminal, terminalOrder>>
      BY <2>3, CommandBrokerAssumption DEF ReceiveNew, PutIfAbsent, Active
    <3>2. ActiveKeys' = ActiveKeys \union {k} /\ TombstonedKeys' = TombstonedKeys
      BY <3>1 DEF ActiveKeys, Active, TombstonedKeys, TypeOK
    <3>3. k \notin TombstonedKeys
      BY <3>1 DEF TombstonedKeys
    <3> QED BY <3>1, <3>2, <3>3 DEF StoreConsistent, AckAfterReceipt
  <2> QED BY <1>1, <2>1, <2>2, <2>3 DEF Receive
<1>2. ASSUME NEW k \in Keys, NEW h \in Hashes, HandleUnityReceipt(k, h)
      PROVE  StoreConsistent'
  <2>1. k \in ActiveKeys
    BY <1>2 DEF HandleUnityReceipt, ActiveKeys
  <2>2. /\ unityReceipt' = unityReceipt \union {k}
        /\ pythonAck' \subseteq pythonAck \union {k}
        /\ UNCHANGED <<values, terminal, terminalOrder>>
    BY <1>2 DEF HandleUnityReceipt, SendPythonReceipt
  <2> QED BY <1>0, <2>1, <2>2, FlagsOnly
<1>3. ASSUME NEW k \in Keys, NEW h \in Hashes, FinalizeExecution(k, h)
      PROVE  StoreConsistent'
  BY <1>3, FinalizeStep
<1>4. CASE RetryPendingPrimitiveCommandsIfDue
  <2>1. PICK sent \in SUBSET AckPendingKeys :
          /\ pythonAck' = pythonAck \union sent
          /\ UNCHANGED <<values, unityReceipt, terminal, terminalOrder>>
    BY <1>4 DEF RetryPendingPrimitiveCommandsIfDue, RetryPythonAcks
  <2>2. sent \subseteq unityReceipt
    BY DEF AckPendingKeys
  <2> QED BY <1>0, <2>1, <2>2, FlagsOnly
<1>5. ASSUME NEW m, LinkTakesCommand(m) \/ LinkTakesReceipt(m)
      PROVE  StoreConsistent'
  BY <1>0, <1>5, FlagsOnly DEF LinkTakesCommand, LinkTakesReceipt, store
<1>6. CASE UNCHANGED vars
  BY <1>0, <1>6, FlagsOnly DEF vars
<1> QED BY <1>1, <1>2, <1>3, <1>4, <1>5, <1>6 DEF Next

\* A key is active or a tombstone, never both, acknowledgements follow Unity's
\* receipts, and the deque lists exactly the tombstones, for any capacity.
THEOREM StoreStaysConsistent == Spec => [](TypeOK /\ StoreConsistent)
<1>1. Init => StoreConsistent
  <2> SUFFICES ASSUME Init PROVE StoreConsistent
    OBVIOUS
  <2>1. ActiveKeys = {} /\ TombstonedKeys = {}
    BY DEF Init, ActiveKeys, Active, TombstonedKeys
  <2> QED BY <2>1, ListsEmpty, CommandBrokerAssumption
          DEF Init, StoreConsistent, AckAfterReceipt
<1> QED BY <1>1, TypeCorrect, StoreStep, PTL DEF Spec
-----------------------------------------------------------------------------
\* Actions that put nothing new on the link to Unity.
LEMMA QuietToUnity ==
    ASSUME [Next]_vars,
           ~ \E k \in Keys, p \in Payloads :
               ReceiveDuplicate(k, p) \/ ReceiveNew(k, p),
           ~ RetryPendingPrimitiveCommandsIfDue
    PROVE  toUnity' \subseteq toUnity
<1>1. ASSUME NEW k \in Keys, NEW p \in Payloads, Receive(k, p)
      PROVE  toUnity' \subseteq toUnity
  BY <1>1 DEF Receive, ReceiveForeign, ReceiveMalformed, ReceiveConflict, Refuse
<1>2. ASSUME NEW k \in Keys, NEW h \in Hashes,
             HandleUnityReceipt(k, h) \/ FinalizeExecution(k, h)
      PROVE  toUnity' \subseteq toUnity
  BY <1>2 DEF HandleUnityReceipt, FinalizeExecution
<1>3. ASSUME NEW m, LinkTakesCommand(m) \/ LinkTakesReceipt(m)
      PROVE  toUnity' \subseteq toUnity
  BY <1>3 DEF LinkTakesCommand, LinkTakesReceipt
<1>4. CASE UNCHANGED vars
  BY <1>4 DEF vars
<1> QED BY <1>1, <1>2, <1>3, <1>4 DEF Next

\* A command goes to Unity only while its key is active, unacknowledged and
\* stored with that payload, whatever was received, retried or finished before.
THEOREM ForwardingIsExact == Spec => ForwardedOnlyWhilePending
<1>1. TypeOK /\ StoreConsistent /\ [Next]_vars => ForwardedStep
  <2> SUFFICES ASSUME TypeOK, StoreConsistent, [Next]_vars,
                      NEW m \in toUnity' \ toUnity
               PROVE  values'[m.key] = m.payload /\ m.key \notin unityReceipt
    BY DEF ForwardedStep
  <2>1. \A k, p : Command(k, p).key = k /\ Command(k, p).payload = p
    BY DEF Command
  <2>2. ASSUME NEW k \in Keys, NEW p \in Payloads, ReceiveDuplicate(k, p)
        PROVE  values'[m.key] = m.payload /\ m.key \notin unityReceipt
    <3>1. k \in PendingKeys /\ m = Command(k, p)
      BY <2>2 DEF ReceiveDuplicate, Forward
    <3>2. values[k] = p
      BY <2>2, <3>1 DEF ReceiveDuplicate, PutIfAbsent, PendingKeys, ActiveKeys
    <3> QED BY <2>1, <2>2, <3>1, <3>2 DEF ReceiveDuplicate, PendingKeys
  <2>3. ASSUME NEW k \in Keys, NEW p \in Payloads, ReceiveNew(k, p)
        PROVE  values'[m.key] = m.payload /\ m.key \notin unityReceipt
    <3>1. m = Command(k, p) /\ values'[k] = p
      BY <2>3 DEF ReceiveNew, Forward, TypeOK
    <3>2. k \notin ActiveKeys
      BY <2>3 DEF ReceiveNew, PutIfAbsent, ActiveKeys
    <3> QED BY <2>1, <3>1, <3>2 DEF StoreConsistent, AckAfterReceipt
  <2>4. CASE RetryPendingPrimitiveCommandsIfDue
    <3>1. PICK sent \in SUBSET PendingKeys :
            toUnity' = toUnity \union {Command(k, values[k]) : k \in sent}
      BY <2>4 DEF RetryPendingPrimitiveCommandsIfDue, RetryPendingCommands
    <3>2. PICK k \in sent : m = Command(k, values[k])
      BY <3>1
    <3> QED BY <2>1, <2>4, <3>2
            DEF RetryPendingPrimitiveCommandsIfDue, PendingKeys
  <2> QED BY <2>2, <2>3, <2>4, QuietToUnity
<1> QED BY <1>1, StoreStaysConsistent, PTL DEF Spec, ForwardedOnlyWhilePending

-----------------------------------------------------------------------------
\* The receipt a step adds for k carries the hash Unity acknowledged or the
\* hash of the committed execution.
LEMMA ReceiptEvidence ==
    ASSUME StoreConsistent, NEW k \in Keys, NEW h, KnownHash(k) = h,
           ~Active(k) \/ k \in unityReceipt', UNCHANGED <<values, terminal>>
    PROVE  \/ k \in unityReceipt' /\ HashOf[values'[k]] = h
           \/ ~Active(k)' /\ terminal'[k] = h
  BY DEF KnownHash, Active

\* Python is told RECEIVED of a command only after Unity's receipt or the
\* commit of its result.
THEOREM ReceiptsHaveEvidence == Spec => ReceiptHasEvidence
<1>1. TypeOK /\ StoreConsistent /\ [Next]_vars => ReceiptStep
  <2> SUFFICES ASSUME TypeOK, StoreConsistent, [Next]_vars,
                      NEW m \in toPython' \ toPython, m.status = "RECEIVED"
               PROVE  \/ m.key \in unityReceipt' /\ HashOf[values'[m.key]] = m.hash
                      \/ ~Active(m.key)' /\ terminal'[m.key] = m.hash
    BY DEF ReceiptStep
  <2>1. \A k, h, s : /\ Receipt(k, h, s).key = k
                     /\ Receipt(k, h, s).hash = h
                     /\ Receipt(k, h, s).status = s
    BY DEF Receipt
  <2>2. ASSUME NEW k \in Keys, NEW p \in Payloads, Receive(k, p)
        PROVE  \/ m.key \in unityReceipt' /\ HashOf[values'[m.key]] = m.hash
               \/ ~Active(m.key)' /\ terminal'[m.key] = m.hash
    <3>1. ReceiveDuplicate(k, p)
      BY <2>1, <2>2 DEF Receive, ReceiveForeign, ReceiveMalformed,
                        ReceiveConflict, ReceiveNew, Refuse
    <3>2. k \notin PendingKeys /\ m = Receipt(k, HashOf[p], "RECEIVED")
      BY <3>1 DEF ReceiveDuplicate, SendPythonReceipt
    <3>3. KnownHash(k) = HashOf[p]
      BY <3>1 DEF ReceiveDuplicate, PutIfAbsent, KnownHash
    <3>4. ~Active(k) \/ k \in unityReceipt'
      BY <3>1, <3>2 DEF PendingKeys, ActiveKeys, ReceiveDuplicate
    <3>5. UNCHANGED <<values, terminal>>
      BY <3>1 DEF ReceiveDuplicate
    <3> QED BY <2>1, <3>2, <3>3, <3>4, <3>5, ReceiptEvidence
  <2>3. ASSUME NEW k \in Keys, NEW h \in Hashes, HandleUnityReceipt(k, h)
        PROVE  \/ m.key \in unityReceipt' /\ HashOf[values'[m.key]] = m.hash
               \/ ~Active(m.key)' /\ terminal'[m.key] = m.hash
    BY <2>1, <2>3 DEF HandleUnityReceipt, SendPythonReceipt
  <2>4. CASE RetryPendingPrimitiveCommandsIfDue
    <3>1. PICK sent \in SUBSET AckPendingKeys :
            /\ toPython' = toPython \union
                             {Receipt(k, KnownHash(k), "RECEIVED") : k \in sent}
            /\ UNCHANGED <<values, unityReceipt, terminal>>
      BY <2>4 DEF RetryPendingPrimitiveCommandsIfDue, RetryPythonAcks
    <3>2. PICK k \in sent : m = Receipt(k, KnownHash(k), "RECEIVED")
      BY <3>1
    <3>3. k \in Keys /\ k \in unityReceipt'
      BY <3>1, <3>2 DEF AckPendingKeys, ActiveKeys
    <3>4. \/ k \in unityReceipt' /\ HashOf[values'[k]] = KnownHash(k)
          \/ ~Active(k)' /\ terminal'[k] = KnownHash(k)
      BY <3>1, <3>3, ReceiptEvidence
    <3> QED BY <2>1, <3>2, <3>4
  <2>5. CASE \/ \E k \in Keys, h \in Hashes : FinalizeExecution(k, h)
             \/ \E x : LinkTakesCommand(x) \/ LinkTakesReceipt(x)
             \/ UNCHANGED vars
    <3>1. toPython' \subseteq toPython
      BY <2>5 DEF FinalizeExecution, LinkTakesCommand, LinkTakesReceipt, vars
    <3> QED BY <3>1
  <2> QED BY <2>2, <2>3, <2>4, <2>5 DEF Next
<1> QED BY <1>1, StoreStaysConsistent, PTL DEF Spec, ReceiptHasEvidence

-----------------------------------------------------------------------------
\* Every message of the command broker, to Unity or to Python, has its evidence
\* in the store at the moment it is sent.
THEOREM SendsHaveEvidence == Spec => SendsAreJustified
  BY ForwardingIsExact, ReceiptsHaveEvidence, PTL
     DEF ForwardedOnlyWhilePending, ReceiptHasEvidence, SendsAreJustified

\* The identity of a key is learnt once, carried from the active entry to its
\* tombstone, and forgotten only by the eviction of the oldest tombstone.
THEOREM IdentityIsKept == Spec => IdentityKept
<1>1. TypeOK /\ StoreConsistent /\ [Next]_vars => IdentityStep
  <2> SUFFICES ASSUME TypeOK, StoreConsistent, [Next]_vars PROVE IdentityStep
    OBVIOUS
  <2> USE CommandBrokerAssumption
  <2>1. ASSUME UNCHANGED <<values, terminal>> PROVE IdentityStep
    BY <2>1 DEF IdentityStep
  <2>2. ASSUME NEW k \in Keys, NEW p \in Payloads, Receive(k, p)
        PROVE  IdentityStep
    <3>1. CASE ReceiveNew(k, p)
      <4>1. /\ values' = [values EXCEPT ![k] = p] /\ p # None
            /\ KnownHash(k) = None /\ terminal' = terminal
        BY <3>1 DEF ReceiveNew, PutIfAbsent, KnownHash
      <4>2. Active(k)'
        BY <4>1 DEF Active, TypeOK
      <4>3. \A x \in Keys \ {k} : values'[x] = values[x]
        BY <4>1 DEF TypeOK
      <4> QED BY <4>1, <4>2, <4>3 DEF IdentityStep
    <3>2. CASE ~ReceiveNew(k, p)
      BY <2>1, <2>2, <3>2 DEF Receive, ReceiveForeign, ReceiveMalformed,
         ReceiveConflict, ReceiveDuplicate, Refuse, store
    <3> QED BY <3>1, <3>2
  <2>3. ASSUME NEW k \in Keys, NEW h \in Hashes, FinalizeExecution(k, h)
        PROVE  IdentityStep
    <3> DEFINE gone == Evicted(terminalOrder, k, TombstoneCapacity)
    <3>1. /\ Active(k) /\ HashOf[values[k]] = h
          /\ \A x \in Keys : values'[x] = IF x = k THEN None ELSE values[x]
          /\ \A x \in Keys : terminal'[x] = IF x = k THEN h
                                            ELSE IF x \in gone THEN None
                                            ELSE terminal[x]
      BY <2>3 DEF FinalizeExecution, TypeOK
    <3>2. /\ Lists(terminalOrder, TombstonedKeys, TombstoneCapacity)
          /\ k \notin TombstonedKeys
          /\ \A x \in gone :
               x = Head(terminalOrder) /\ Len(terminalOrder) = TombstoneCapacity
      BY <2>3, FinalizeStep DEF FinalizeExecution, StoreConsistent, ActiveKeys
    <3>3. \A x \in Keys \cap gone : x # k => x \in TombstonedKeys
      <4> SUFFICES ASSUME NEW x \in Keys \cap gone, x # k
                   PROVE  x \in TombstonedKeys
        OBVIOUS
      <4>1. Len(terminalOrder) # 0
        BY <3>2
      <4>2. x = terminalOrder[1] /\ 1 \in 1..Len(terminalOrder)
        BY <3>2, <4>1 DEF TypeOK
      <4> QED BY <3>2, <4>2 DEF Lists
    <3> HIDE DEF gone
    <3>4. SUFFICES ASSUME NEW x \in Keys
                   PROVE  \/ values'[x] = values[x] /\ terminal'[x] = terminal[x]
                          \/ KnownHash(x) = None /\ Active(x)'
                          \/ /\ Active(x) /\ ~Active(x)'
                             /\ terminal'[x] = HashOf[values[x]]
                          \/ /\ ~Active(x) /\ ~Active(x)' /\ terminal'[x] = None
                             /\ Len(terminalOrder) = TombstoneCapacity
                             /\ x = Head(terminalOrder)
      BY DEF IdentityStep
    <3>5. CASE x = k
      BY <3>1, <3>5 DEF Active
    <3>6. CASE x # k /\ x \in gone
      <4>1. x \in TombstonedKeys /\ x \notin ActiveKeys
        BY <3>3, <3>6 DEF StoreConsistent
      <4> QED BY <3>1, <3>2, <3>6, <4>1 DEF ActiveKeys, Active
    <3>7. CASE x # k /\ x \notin gone
      BY <3>1, <3>7
    <3> QED BY <3>5, <3>6, <3>7
  <2>4. CASE \/ \E k \in Keys, h \in Hashes : HandleUnityReceipt(k, h)
             \/ RetryPendingPrimitiveCommandsIfDue
             \/ \E x : LinkTakesCommand(x) \/ LinkTakesReceipt(x)
             \/ UNCHANGED vars
    BY <2>1, <2>4 DEF HandleUnityReceipt, RetryPendingPrimitiveCommandsIfDue,
       LinkTakesCommand, LinkTakesReceipt, store, vars
  <2> QED BY <2>2, <2>3, <2>4 DEF Next
<1> QED BY <1>1, StoreStaysConsistent, PTL DEF Spec, IdentityKept
=============================================================================
