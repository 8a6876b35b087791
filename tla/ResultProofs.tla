---------------------------- MODULE ResultProofs ----------------------------
(***************************************************************************)
(* Theorems about ResultBroker and ResultDelivery for any executions,      *)
(* result identities, tombstone capacity and stale threshold.  TypeOK      *)
(* bounds the attempts of a result, which holds only because a READY peer  *)
(* has none over the threshold: the broker's inductive invariant is IInv,  *)
(* the three parts together.  That of the delivery, DInv, adds that while  *)
(* the connection lasts a result the relay has counted is not lost.        *)
(***************************************************************************)
EXTENDS ResultDelivery, TombstoneFifoProofs

IInv == TypeOK /\ StoreConsistent /\ RelayBudget

\* The wire constructors build messages of their types.
LEMMA MessageTypes ==
    /\ \A k \in Keys, r \in Results : DurableAck(k, r) \in DurableAcks
    /\ \A k \in Keys, r \in Results : Result(k, r) \in ResultMessages
    /\ \A k \in Keys, r \in Results, s \in CommitStatus :
         CommitAck(k, r, s) \in CommitAcks
  BY DEF DurableAck, DurableAcks, Result, ResultMessages, CommitAck, CommitAcks

\* The relay loop keeps the counters within one over the threshold, and only
\* the send that goes over it leaves the peer STALE.
LEMMA RelayLoop ==
    ASSUME NEW ks \in SUBSET Keys, NEW isReady \in BOOLEAN,
           NEW counts \in [Keys -> 0..(StaleRetryThreshold + 1)],
           isReady => \A k \in Keys : counts[k] <= StaleRetryThreshold,
           Relay(ks, counts, isReady)
    PROVE  /\ attempts' \in [Keys -> 0..(StaleRetryThreshold + 1)]
           /\ ready' \in BOOLEAN
           /\ ready' => isReady
           /\ ready' => \A k \in Keys : attempts'[k] <= StaleRetryThreshold
           /\ \A k \in Keys : attempts'[k] > 0 => counts[k] > 0 \/ k \in ks
           /\ \A m \in toPython' \ toPython :
                isReady /\ \E k \in ks : m = Result(k, values'[k])
<1> USE ResultBrokerAssumption
<1>1. PICK sent \in SUBSET ks :
        /\ isReady \/ sent = {}
        /\ attempts' = [k \in Keys |->
                          IF k \in sent THEN counts[k] + 1 ELSE counts[k]]
        /\ ready' = (isReady /\ \A k \in sent : counts[k] < StaleRetryThreshold)
        /\ toPython' = toPython \union {Result(k, values'[k]) : k \in sent}
  BY DEF Relay
<1>2. \A k \in Keys : counts[k] \in Nat
  OBVIOUS
<1>3. \A k \in sent : counts[k] + 1 \in 0..(StaleRetryThreshold + 1)
  BY <1>1, <1>2
<1>4. attempts' \in [Keys -> 0..(StaleRetryThreshold + 1)]
  BY <1>1, <1>3
<1>5. ready' => \A k \in Keys : attempts'[k] <= StaleRetryThreshold
  <2> SUFFICES ASSUME ready', NEW k \in Keys
               PROVE  attempts'[k] <= StaleRetryThreshold
    OBVIOUS
  <2>1. isReady /\ \A x \in sent : counts[x] < StaleRetryThreshold
    BY <1>1, Zenon
  <2>2. attempts'[k] = IF k \in sent THEN counts[k] + 1 ELSE counts[k]
    BY <1>1
  <2>3. counts[k] + 1 <= StaleRetryThreshold <=> counts[k] < StaleRetryThreshold
    BY <1>2
  <2> QED BY <2>1, <2>2, <2>3
<1> QED BY <1>1, <1>4, <1>5

\* What the relay adds to the link has the type of a result message.
LEMMA RelayMessages ==
    ASSUME NEW ks \in SUBSET Keys, NEW counts, NEW isReady,
           Relay(ks, counts, isReady), \A k \in ks : values'[k] \in Results,
           toPython \subseteq ResultMessages \union CommitAcks
    PROVE  toPython' \subseteq ResultMessages \union CommitAcks
<1>1. PICK sent \in SUBSET ks :
        toPython' = toPython \union {Result(k, values'[k]) : k \in sent}
  BY DEF Relay
<1>2. \A k \in sent : Result(k, values'[k]) \in ResultMessages
  BY MessageTypes
<1> QED BY <1>1, <1>2

-----------------------------------------------------------------------------
\* A new result becomes active: it had no identity before.
LEMMA ReceiveNewKeeps ==
    ASSUME IInv, NEW k \in Keys, NEW r \in Results, ReceiveNew(k, r)
    PROVE  IInv'
<1> USE ResultBrokerAssumption DEF IInv
<1>1. /\ values' = [values EXCEPT ![k] = r] /\ r # None
      /\ values[k] = None /\ terminal[k] = None
      /\ UNCHANGED <<pythonReceipt, terminal, terminalOrder, connected>>
      /\ Relay({k}, attempts, ready)
  BY DEF ReceiveNew, KnownResult, Active
<1>2. /\ ActiveKeys' = ActiveKeys \union {k} /\ TombstonedKeys' = TombstonedKeys
      /\ k \notin ActiveKeys /\ k \notin TombstonedKeys
      /\ values'[k] = r
  BY <1>1 DEF ActiveKeys, Active, TombstonedKeys, TypeOK
<1>3. StoreConsistent'
  BY <1>1, <1>2 DEF StoreConsistent
<1>4. /\ attempts' \in [Keys -> 0..(StaleRetryThreshold + 1)]
      /\ ready' \in BOOLEAN /\ (ready' => ready)
      /\ ready' => \A x \in Keys : attempts'[x] <= StaleRetryThreshold
      /\ \A x \in Keys : attempts'[x] > 0 => attempts[x] > 0 \/ x \in {k}
  <2>1. {k} \in SUBSET Keys /\ ready \in BOOLEAN
        /\ attempts \in [Keys -> 0..(StaleRetryThreshold + 1)]
    BY DEF TypeOK
  <2>2. ready => \A x \in Keys : attempts[x] <= StaleRetryThreshold
    BY DEF RelayBudget
  <2>3. Relay({k}, attempts, ready)
    BY <1>1
  <2> HIDE DEF IInv
  <2> QED BY ONLY <2>1, <2>2, <2>3, RelayLoop, Zenon
\* The first delivery is never the one that exhausts the threshold.
<1>5. ready' = ready
  <2>1. ~(attempts[k] > 0)
    BY <1>2 DEF RelayBudget, ReceiptPendingKeys
  <2>2. attempts[k] < StaleRetryThreshold
    BY <2>1 DEF TypeOK
  <2> QED BY <1>1, <2>2 DEF Relay, TypeOK
<1>6. RelayBudget'
  <2>1. ReceiptPendingKeys' = ReceiptPendingKeys \union {k}
    BY <1>1, <1>2 DEF ReceiptPendingKeys, StoreConsistent
  <2> QED BY <1>1, <1>4, <1>5, <2>1 DEF RelayBudget
<1>7. toPython' \subseteq ResultMessages \union CommitAcks
  BY <1>1, <1>2, RelayMessages DEF TypeOK
<1>8. toUnity' \subseteq DurableAcks
  BY MessageTypes DEF ReceiveNew, SendDurableAck, TypeOK
<1>9. TypeOK'
  BY <1>1, <1>4, <1>7, <1>8 DEF TypeOK
<1> QED BY <1>3, <1>6, <1>9

\* READY and the retry timer: the store is untouched, the counters follow the
\* relay loop, and the gateway's flag is set to the peer's state.
LEMMA RelayPendingKeeps ==
    ASSUME IInv, NEW counts \in [Keys -> 0..(StaleRetryThreshold + 1)],
           NEW isReady \in BOOLEAN,
           isReady => \A k \in Keys : counts[k] <= StaleRetryThreshold,
           \A k \in Keys : counts[k] > 0 => k \in ReceiptPendingKeys,
           Relay(ReceiptPendingKeys, counts, isReady), connected' = ready',
           UNCHANGED <<store, toUnity>>
    PROVE  IInv'
<1> USE ResultBrokerAssumption DEF IInv, store
<1>1. ActiveKeys' = ActiveKeys /\ TombstonedKeys' = TombstonedKeys
  BY DEF ActiveKeys, Active, TombstonedKeys
<1>2. ReceiptPendingKeys' = ReceiptPendingKeys /\ ReceiptPendingKeys \in SUBSET Keys
  BY <1>1 DEF ReceiptPendingKeys, ActiveKeys
<1>3. StoreConsistent'
  BY <1>1 DEF StoreConsistent
<1>4. /\ attempts' \in [Keys -> 0..(StaleRetryThreshold + 1)]
      /\ ready' \in BOOLEAN
      /\ ready' => \A x \in Keys : attempts'[x] <= StaleRetryThreshold
      /\ \A x \in Keys :
           attempts'[x] > 0 => counts[x] > 0 \/ x \in ReceiptPendingKeys
  BY <1>2, RelayLoop
<1>5. RelayBudget'
  BY <1>2, <1>4 DEF RelayBudget
<1>6. \A k \in ReceiptPendingKeys : values'[k] \in Results
  BY DEF ReceiptPendingKeys, ActiveKeys, Active, TypeOK
<1>7. toPython' \subseteq ResultMessages \union CommitAcks
  BY <1>2, <1>6, RelayMessages DEF TypeOK
<1>8. TypeOK'
  BY <1>4, <1>7 DEF TypeOK
<1> QED BY <1>3, <1>5, <1>8

\* A commit moves the key from the one map to the other and drops its count.
LEMMA CommitKeeps ==
    ASSUME IInv, NEW k \in Keys, NEW r \in Results, Commit(k, r)
    PROVE  /\ IInv'
           /\ \A x \in Evicted(terminalOrder, k, TombstoneCapacity) :
                x = Head(terminalOrder) /\ Len(terminalOrder) = TombstoneCapacity
<1> USE ResultBrokerAssumption DEF IInv
<1> DEFINE gone == Evicted(terminalOrder, k, TombstoneCapacity)
<1>1. k \in ActiveKeys /\ k \notin TombstonedKeys
  BY DEF Commit, ActiveKeys, Active, StoreConsistent
<1>2. /\ Lists(Pushed(terminalOrder, k, TombstoneCapacity),
               (TombstonedKeys \union {k}) \ gone, TombstoneCapacity)
      /\ k \notin gone
      /\ \A x \in gone :
           x = Head(terminalOrder) /\ Len(terminalOrder) = TombstoneCapacity
  BY <1>1, ListsPushed DEF StoreConsistent
<1> HIDE DEF gone
<1>3. /\ \A x \in Keys : terminal'[x] = IF x = k THEN r
                                        ELSE IF x \in gone THEN None ELSE terminal[x]
      /\ \A x \in Keys : values'[x] = IF x = k THEN None ELSE values[x]
  BY DEF Commit, gone, TypeOK
<1>4. TombstonedKeys' = (TombstonedKeys \union {k}) \ gone
  BY <1>2, <1>3 DEF TombstonedKeys
<1>5. ActiveKeys' = ActiveKeys \ {k}
  BY <1>3 DEF ActiveKeys, Active
<1>6. StoreConsistent'
  <2>1. Lists(terminalOrder, TombstonedKeys, TombstoneCapacity)'
    BY <1>2, <1>4 DEF Commit
  <2> QED BY <1>4, <1>5, <2>1 DEF StoreConsistent, Commit
<1>7. RelayBudget'
  <2>1. ReceiptPendingKeys' = ReceiptPendingKeys \ {k}
    BY <1>5 DEF ReceiptPendingKeys, Commit
  <2>2. \A x \in Keys : attempts'[x] = IF x = k THEN 0 ELSE attempts[x]
    BY DEF Commit, TypeOK
  <2> QED BY <2>1, <2>2 DEF RelayBudget, Commit
<1>8. TypeOK'
  <2>1. Append(terminalOrder, k) \in Seq(Keys) /\ Append(terminalOrder, k) # <<>>
    BY DEF TypeOK
  <2>2. terminalOrder' \in Seq(Keys)
    BY <2>1 DEF Commit, Pushed
  <2>3. toPython' \subseteq ResultMessages \union CommitAcks
    BY MessageTypes DEF Commit, SendCommitAck, CommitStatus, TypeOK
  <2> QED BY <2>2, <2>3 DEF Commit, TypeOK
<1> QED BY <1>2, <1>6, <1>7, <1>8 DEF gone

\* The remaining actions leave the maps and the deque alone.
LEMMA MapsKept ==
    ASSUME StoreConsistent, UNCHANGED <<values, terminal, terminalOrder>>,
           pythonReceipt' \subseteq ActiveKeys
    PROVE  StoreConsistent' /\ ActiveKeys' = ActiveKeys
<1>1. ActiveKeys' = ActiveKeys /\ TombstonedKeys' = TombstonedKeys
  BY DEF ActiveKeys, Active, TombstonedKeys
<1> QED BY <1>1 DEF StoreConsistent

\* Every step keeps the invariant.
LEMMA InvariantStep == IInv /\ [Next]_vars => IInv'
<1> SUFFICES ASSUME IInv, [Next]_vars PROVE IInv'
  OBVIOUS
<1> USE ResultBrokerAssumption DEF IInv
<1>1. ASSUME NEW k \in Keys, NEW r \in Results, ReceiveNew(k, r) PROVE IInv'
  BY <1>1, ReceiveNewKeeps
<1>2. ASSUME NEW k \in Keys, NEW r \in Results,
             ReceiveDuplicate(k, r) \/ CommitDuplicate(k, r) \/ CommitRefused(k, r)
      PROVE  IInv'
  <2>1. UNCHANGED <<store, peer>>
    BY <1>2 DEF ReceiveDuplicate, CommitDuplicate, CommitRefused
  <2>2. StoreConsistent' /\ ActiveKeys' = ActiveKeys
    BY <2>1, MapsKept DEF StoreConsistent, store
  <2>3. TypeOK'
    BY <1>2, <2>1, MessageTypes DEF ReceiveDuplicate, CommitDuplicate,
       CommitRefused, SendDurableAck, SendCommitAck, CommitStatus, TypeOK, store, peer
  <2> QED BY <2>1, <2>2, <2>3 DEF RelayBudget, ReceiptPendingKeys, store, peer
<1>3. ASSUME NEW k \in Keys, NEW r \in Results, AcknowledgePythonReceipt(k, r)
      PROVE  IInv'
  <2>1. /\ pythonReceipt' \subseteq ActiveKeys
        /\ pythonReceipt \subseteq pythonReceipt'
        /\ pythonReceipt' \subseteq pythonReceipt \union {k}
    BY <1>3 DEF AcknowledgePythonReceipt, ActiveKeys, StoreConsistent
  <2>2. StoreConsistent' /\ ActiveKeys' = ActiveKeys
    BY <1>3, <2>1, MapsKept DEF AcknowledgePythonReceipt
  <2>3. \A x \in Keys : attempts'[x] = IF x = k THEN 0 ELSE attempts[x]
    BY <1>3 DEF AcknowledgePythonReceipt, TypeOK
  <2>4. RelayBudget'
    BY <1>3, <2>1, <2>2, <2>3
       DEF AcknowledgePythonReceipt, RelayBudget, ReceiptPendingKeys
  <2>5. TypeOK'
    BY <1>3 DEF AcknowledgePythonReceipt, TypeOK
  <2> QED BY <2>2, <2>4, <2>5
<1>4. ASSUME NEW k \in Keys, NEW r \in Results, Commit(k, r) PROVE IInv'
  BY <1>4, CommitKeeps
<1>5. CASE Disconnected
  <2>1. StoreConsistent' /\ ActiveKeys' = ActiveKeys
    BY <1>5, MapsKept DEF Disconnected, StoreConsistent, store
  <2> QED BY <1>5, <2>1
          DEF Disconnected, TypeOK, RelayBudget, ReceiptPendingKeys, store
<1>6. CASE PythonReady
  <2> DEFINE zero == [k \in Keys |-> 0]
  <2>1. /\ zero \in [Keys -> 0..(StaleRetryThreshold + 1)]
        /\ \A k \in Keys : zero[k] <= StaleRetryThreshold /\ ~(zero[k] > 0)
    OBVIOUS
  <2>2. Relay(ReceiptPendingKeys, zero, TRUE)
    BY <1>6 DEF PythonReady
  <2> HIDE DEF zero
  <2>3. TRUE \in BOOLEAN /\ (TRUE => \A k \in Keys : zero[k] <= StaleRetryThreshold)
    BY <2>1
  <2>4. \A k \in Keys : zero[k] > 0 => k \in ReceiptPendingKeys
    BY <2>1
  <2>5. connected' = ready' /\ UNCHANGED <<store, toUnity>>
    BY <1>6 DEF PythonReady
  <2> QED BY <2>1, <2>2, <2>3, <2>4, <2>5, RelayPendingKeeps
<1>7. CASE RetryPendingPythonResults
  BY <1>7, RelayPendingKeeps DEF RetryPendingPythonResults, TypeOK, RelayBudget
<1>8. ASSUME NEW m, LinkTakesAck(m) \/ LinkTakesMessage(m) PROVE IInv'
  <2>1. UNCHANGED <<store, peer>> /\ toUnity' \subseteq toUnity /\ toPython' \subseteq toPython
    BY <1>8 DEF LinkTakesAck, LinkTakesMessage
  <2>2. StoreConsistent' /\ ActiveKeys' = ActiveKeys
    BY <2>1, MapsKept DEF StoreConsistent, store
  <2> QED BY <2>1, <2>2 DEF TypeOK, RelayBudget, ReceiptPendingKeys, store, peer
<1>9. CASE UNCHANGED vars
  <2>1. StoreConsistent' /\ ActiveKeys' = ActiveKeys
    BY <1>9, MapsKept DEF StoreConsistent, vars
  <2> QED BY <1>9, <2>1 DEF TypeOK, RelayBudget, ReceiptPendingKeys, vars
<1> QED BY <1>1, <1>2, <1>3, <1>4, <1>5, <1>6, <1>7, <1>8, <1>9 DEF Next

\* Nothing is stored, and no peer is READY, at the start.
LEMMA InitKeeps == Init => IInv
<1> SUFFICES ASSUME Init PROVE IInv
  OBVIOUS
<1>1. ActiveKeys = {} /\ TombstonedKeys = {}
  BY DEF Init, ActiveKeys, Active, TombstonedKeys
<1>2. StoreConsistent
  BY <1>1, ListsEmpty, ResultBrokerAssumption DEF Init, StoreConsistent
<1>3. /\ attempts \in [Keys -> 0..(StaleRetryThreshold + 1)]
      /\ \A k \in Keys : ~(attempts[k] > 0)
  BY ResultBrokerAssumption DEF Init
<1>4. RelayBudget
  BY <1>3 DEF Init, RelayBudget
<1>5. TypeOK
  <2>1. /\ values \in [Keys -> Results \union {None}]
        /\ terminal \in [Keys -> Results \union {None}]
        /\ terminalOrder \in Seq(Keys)
    BY DEF Init
  <2>2. /\ ready \in BOOLEAN /\ connected \in BOOLEAN /\ pythonReceipt \subseteq Keys
        /\ toUnity \subseteq DurableAcks
        /\ toPython \subseteq ResultMessages \union CommitAcks
    BY DEF Init
  <2> QED BY <1>3, <2>1, <2>2 DEF TypeOK
<1> QED BY <1>2, <1>4, <1>5 DEF IInv

\* Types, consistency of the store and the relay's bookkeeping, for every
\* instance: attempts never pass StaleRetryThreshold + 1 and never outlive
\* their result, and python_connected_ never disagrees with the peer's state.
THEOREM BrokerInvariant == Spec => [](TypeOK /\ StoreConsistent /\ RelayBudget)
<1>1. IInv <=> TypeOK /\ StoreConsistent /\ RelayBudget
  BY DEF IInv
<1> QED BY <1>1, InitKeeps, InvariantStep, PTL DEF Spec

\* The three parts by themselves.  Types.
THEOREM TypeCorrect == Spec => []TypeOK
  BY BrokerInvariant, PTL

\* A result is active or retired, never both; its flags go with it; and the
\* deque lists exactly the tombstones, through every eviction.
THEOREM StoreStaysConsistent == Spec => []StoreConsistent
  BY BrokerInvariant, PTL

\* The retry budget: no counter outlives its result, and only a STALE peer has
\* one over the threshold.
THEOREM BudgetIsKept == Spec => []RelayBudget
  BY BrokerInvariant, PTL
-----------------------------------------------------------------------------
\* The fields of the messages.
LEMMA MessageFields ==
    /\ \A k, r : DurableAck(k, r).key = k /\ DurableAck(k, r).result = r
    /\ \A k, r : /\ Result(k, r).type = "Result"
                 /\ Result(k, r).key = k /\ Result(k, r).result = r
    /\ \A k, r, s : /\ CommitAck(k, r, s).type = "CommitAck"
                    /\ CommitAck(k, r, s).key = k /\ CommitAck(k, r, s).result = r
                    /\ CommitAck(k, r, s).status = s
  BY DEF DurableAck, Result, CommitAck

\* The relay loop adds results only.
LEMMA RelayAddsResults ==
    ASSUME NEW ks, NEW counts, NEW isReady, Relay(ks, counts, isReady)
    PROVE  \A m \in toPython' \ toPython :
             m.type = "Result" /\ isReady /\ \E k \in ks : m = Result(k, values'[k])
<1>1. PICK sent \in SUBSET ks :
        /\ isReady \/ sent = {}
        /\ toPython' = toPython \union {Result(k, values'[k]) : k \in sent}
  BY DEF Relay
<1> QED BY <1>1, MessageFields

\* A step that tells Unity DURABLE_RECEIVED, of what the store holds then.
LEMMA DurableAckSent == IInv /\ [Next]_vars => DurableAckStep
<1> SUFFICES ASSUME IInv, [Next]_vars, NEW m \in toUnity' \ toUnity
             PROVE  KnownResult(m.key)' = m.result
  BY DEF DurableAckStep
<1>1. ASSUME NEW k \in Keys, NEW r \in Results, ReceiveNew(k, r)
      PROVE  KnownResult(m.key)' = m.result
  <2>1. m = DurableAck(k, r)
    BY <1>1 DEF ReceiveNew, SendDurableAck
  <2>2. values'[k] = r /\ r # None
    BY <1>1, ResultBrokerAssumption DEF ReceiveNew, IInv, TypeOK
  <2> QED BY <2>1, <2>2, MessageFields DEF KnownResult, Active
<1>2. ASSUME NEW k \in Keys, NEW r \in Results, ReceiveDuplicate(k, r)
      PROVE  KnownResult(m.key)' = m.result
  <2>1. m = DurableAck(k, r) /\ KnownResult(k) = r
    BY <1>2 DEF ReceiveDuplicate, SendDurableAck
  <2>2. UNCHANGED <<values, terminal>>
    BY <1>2 DEF ReceiveDuplicate, store
  <2> QED BY <2>1, <2>2, MessageFields DEF KnownResult, Active
<1>3. CASE \/ \E k \in Keys, r \in Results :
                \/ AcknowledgePythonReceipt(k, r) \/ Commit(k, r)
                \/ CommitDuplicate(k, r) \/ CommitRefused(k, r)
           \/ Disconnected \/ PythonReady \/ RetryPendingPythonResults
           \/ \E x : LinkTakesAck(x) \/ LinkTakesMessage(x)
           \/ UNCHANGED vars
  BY <1>3 DEF AcknowledgePythonReceipt, Commit, CommitDuplicate, CommitRefused,
     Disconnected, PythonReady, RetryPendingPythonResults, LinkTakesAck,
     LinkTakesMessage, vars
<1> QED BY <1>1, <1>2, <1>3 DEF Next

\* Unity discards a result once it is told DURABLE_RECEIVED: the bridge never
\* says so of a result, or of an identity, it does not hold.
THEOREM DurableAcksAreTrue == Spec => DurableAckIsTrue
  BY DurableAckSent, BrokerInvariant, PTL DEF Spec, IInv, DurableAckIsTrue

\* What a step may add to the link to Python.
LEMMA ToPythonStep ==
    ASSUME IInv, [Next]_vars, NEW m \in toPython' \ toPython
    PROVE  \/ \E k \in Keys, r \in Results : ReceiveNew(k, r)
           \/ PythonReady
           \/ RetryPendingPythonResults
           \/ \E k \in Keys, r \in Results :
                Commit(k, r) \/ CommitDuplicate(k, r) \/ CommitRefused(k, r)
<1>1. CASE \/ \E k \in Keys, r \in Results :
                ReceiveDuplicate(k, r) \/ AcknowledgePythonReceipt(k, r)
           \/ Disconnected
           \/ \E x : LinkTakesAck(x) \/ LinkTakesMessage(x)
           \/ UNCHANGED vars
  BY <1>1 DEF ReceiveDuplicate, AcknowledgePythonReceipt, Disconnected,
     LinkTakesAck, LinkTakesMessage, vars
<1> QED BY <1>1 DEF Next

\* A step that relays a result, of what is active and unconfirmed then.
LEMMA RelaySent == IInv /\ [Next]_vars => RelayStep
<1> SUFFICES ASSUME IInv, [Next]_vars, NEW m \in toPython' \ toPython,
                    m.type = "Result"
             PROVE  /\ values'[m.key] = m.result
                    /\ m.key \notin pythonReceipt'
                    /\ ready \/ ready'
  BY DEF RelayStep
<1>1. ASSUME NEW k \in Keys, NEW r \in Results, ReceiveNew(k, r)
      PROVE  /\ values'[m.key] = m.result
             /\ m.key \notin pythonReceipt'
             /\ ready \/ ready'
  <2>1. Relay({k}, attempts, ready) /\ pythonReceipt' = pythonReceipt
    BY <1>1 DEF ReceiveNew
  <2>2. ready /\ m = Result(k, values'[k])
    BY <2>1, RelayAddsResults
  <2>3. k \notin ActiveKeys
    BY <1>1 DEF ReceiveNew, KnownResult, ActiveKeys, Active
  <2> QED BY <2>1, <2>2, <2>3, MessageFields DEF IInv, StoreConsistent
<1>2. CASE PythonReady
  <2>1. /\ Relay(ReceiptPendingKeys, [k \in Keys |-> 0], TRUE)
        /\ pythonReceipt' = pythonReceipt
    BY <1>2 DEF PythonReady, store
  <2>2. PICK k \in ReceiptPendingKeys : m = Result(k, values'[k])
    BY <2>1, RelayAddsResults
  <2>3. ready'
    <3>1. PICK sent \in SUBSET ReceiptPendingKeys :
            ready' = (TRUE /\ \A k_1 \in sent :
                         [x \in Keys |-> 0][k_1] < StaleRetryThreshold)
      BY <2>1 DEF Relay
    <3>2. \A x \in sent : [y \in Keys |-> 0][x] < StaleRetryThreshold
      BY ResultBrokerAssumption DEF ReceiptPendingKeys, ActiveKeys
    <3> QED BY <3>1, <3>2
  <2> QED BY <2>1, <2>2, <2>3, MessageFields DEF ReceiptPendingKeys
<1>3. CASE RetryPendingPythonResults
  <2>1. /\ Relay(ReceiptPendingKeys, attempts, ready)
        /\ pythonReceipt' = pythonReceipt
    BY <1>3 DEF RetryPendingPythonResults, store
  <2>2. ready /\ \E k \in ReceiptPendingKeys : m = Result(k, values'[k])
    BY <2>1, RelayAddsResults
  <2>3. PICK k \in ReceiptPendingKeys : m = Result(k, values'[k])
    BY <2>2
  <2> QED BY <2>1, <2>2, <2>3, MessageFields DEF ReceiptPendingKeys
<1>4. ASSUME NEW k \in Keys, NEW r \in Results,
             Commit(k, r) \/ CommitDuplicate(k, r) \/ CommitRefused(k, r)
      PROVE  m.type = "CommitAck"
  BY <1>4, MessageFields DEF Commit, CommitDuplicate, CommitRefused, SendCommitAck
<1> QED BY <1>1, <1>2, <1>3, <1>4, ToPythonStep

\* A confirmed, committed or conflicting result is never relayed again, and
\* nothing is relayed to a STALE peer.
THEOREM RelayIsExact == Spec => RelayedOnlyWhileUnconfirmed
  BY RelaySent, BrokerInvariant, PTL DEF Spec, IInv, RelayedOnlyWhileUnconfirmed

-----------------------------------------------------------------------------
\* A step that answers a commit, with what it does.
LEMMA CommitAnswered == IInv /\ [Next]_vars => CommitStep
<1> SUFFICES ASSUME IInv, [Next]_vars, NEW m \in toPython' \ toPython,
                    m.type = "CommitAck"
             PROVE  CASE m.status = "COMMITTED" ->
                           values[m.key] = m.result /\ terminal'[m.key] = m.result
                      [] m.status = "DUPLICATE" ->
                           values[m.key] = None /\ terminal[m.key] = m.result
                      [] OTHER -> KnownResult(m.key) # m.result
  BY DEF CommitStep
<1>1. ASSUME NEW k \in Keys, NEW r \in Results, Commit(k, r)
      PROVE  /\ m.status = "COMMITTED"
             /\ values[m.key] = m.result /\ terminal'[m.key] = m.result
  <2>1. m = CommitAck(k, r, "COMMITTED")
    BY <1>1 DEF Commit, SendCommitAck
  <2>2. values[k] = r /\ terminal'[k] = r
    BY <1>1 DEF Commit
  <2> QED BY <2>1, <2>2, MessageFields
<1>2. ASSUME NEW k \in Keys, NEW r \in Results, CommitDuplicate(k, r)
      PROVE  /\ m.status = "DUPLICATE"
             /\ values[m.key] = None /\ terminal[m.key] = m.result
  BY <1>2, MessageFields DEF CommitDuplicate, SendCommitAck, Active
<1>3. ASSUME NEW k \in Keys, NEW r \in Results, CommitRefused(k, r)
      PROVE  m.status = "PROTOCOL_ERROR" /\ KnownResult(m.key) # m.result
  BY <1>3, MessageFields DEF CommitRefused, SendCommitAck
<1>4. ~ \E k \in Keys, r \in Results : ReceiveNew(k, r)
  BY RelayAddsResults DEF ReceiveNew
<1>5. ~PythonReady /\ ~RetryPendingPythonResults
  BY RelayAddsResults DEF PythonReady, RetryPendingPythonResults
<1>6. \E k \in Keys, r \in Results :
        Commit(k, r) \/ CommitDuplicate(k, r) \/ CommitRefused(k, r)
  BY <1>4, <1>5, ToPythonStep
<1>7. \/ /\ m.status = "COMMITTED"
         /\ values[m.key] = m.result /\ terminal'[m.key] = m.result
      \/ /\ m.status = "DUPLICATE"
         /\ values[m.key] = None /\ terminal[m.key] = m.result
      \/ m.status = "PROTOCOL_ERROR" /\ KnownResult(m.key) # m.result
  BY <1>1, <1>2, <1>3, <1>6
<1> QED BY <1>7

\* The answer to a commit says what the bridge did with the result: a second
\* COMMITTED for an identity whose tombstone is kept is impossible.
THEOREM CommitAnswersTrue == Spec => CommitAnswersAreTrue
  BY CommitAnswered, BrokerInvariant, PTL DEF Spec, IInv, CommitAnswersAreTrue
-----------------------------------------------------------------------------
\* Every message of the result broker, to Unity or to Python, is borne out by the
\* store at the moment it is sent.
THEOREM SendsStayTrue == Spec => SendsAreTrue
  BY DurableAcksAreTrue, RelayIsExact, CommitAnswersTrue, PTL
     DEF DurableAckIsTrue, RelayedOnlyWhileUnconfirmed, CommitAnswersAreTrue,
         SendsAreTrue

\* A result's identity is learnt once, carried by the commit to the tombstone,
\* and forgotten only when the oldest tombstone makes room.
THEOREM IdentityIsKept == Spec => IdentityKept
<1>1. IInv /\ [Next]_vars => IdentityStep
  <2> SUFFICES ASSUME IInv, [Next]_vars PROVE IdentityStep
    OBVIOUS
  <2> USE ResultBrokerAssumption DEF IInv
  <2>1. ASSUME UNCHANGED <<values, terminal>> PROVE IdentityStep
    BY <2>1 DEF IdentityStep
  <2>2. ASSUME NEW k \in Keys, NEW r \in Results, ReceiveNew(k, r)
        PROVE  IdentityStep
    <3>1. /\ \A x \in Keys : values'[x] = IF x = k THEN r ELSE values[x]
          /\ terminal' = terminal
      BY <2>2 DEF ReceiveNew, TypeOK
    <3>2. values[k] = None /\ terminal[k] = None /\ r # None
      BY <2>2 DEF ReceiveNew, KnownResult, Active
    <3> QED BY <3>1, <3>2 DEF IdentityStep
  <2>3. ASSUME NEW k \in Keys, NEW r \in Results, Commit(k, r)
        PROVE  IdentityStep
    <3> DEFINE gone == Evicted(terminalOrder, k, TombstoneCapacity)
    <3>1. /\ values[k] = r /\ r # None
          /\ \A x \in Keys : values'[x] = IF x = k THEN None ELSE values[x]
          /\ \A x \in Keys : terminal'[x] = IF x = k THEN r
                                            ELSE IF x \in gone THEN None
                                            ELSE terminal[x]
      BY <2>3 DEF Commit, TypeOK
    <3>2. \A x \in gone :
            x = Head(terminalOrder) /\ Len(terminalOrder) = TombstoneCapacity
      BY <2>3, CommitKeeps
    <3>3. \A x \in Keys \cap gone : values[x] = None
      <4> SUFFICES ASSUME NEW x \in Keys \cap gone PROVE values[x] = None
        OBVIOUS
      <4>1. Len(terminalOrder) # 0
        BY <3>2
      <4>2. x = terminalOrder[1] /\ 1 \in 1..Len(terminalOrder)
        BY <3>2, <4>1 DEF TypeOK
      <4>3. x \in TombstonedKeys
        BY <4>2 DEF StoreConsistent, Lists
      <4> QED BY <4>3 DEF StoreConsistent, ActiveKeys, Active
    <3> HIDE DEF gone
    <3>4. SUFFICES ASSUME NEW x \in Keys
                   PROVE  \/ values'[x] = values[x] /\ terminal'[x] = terminal[x]
                          \/ /\ values[x] = None /\ terminal[x] = None
                             /\ values'[x] # None
                          \/ /\ values[x] # None /\ values'[x] = None
                             /\ terminal'[x] = values[x]
                          \/ /\ values[x] = None /\ values'[x] = None
                             /\ terminal'[x] = None
                             /\ Len(terminalOrder) = TombstoneCapacity
                             /\ x = Head(terminalOrder)
      BY DEF IdentityStep
    <3>5. CASE x = k
      BY <3>1, <3>5
    <3>6. CASE x # k /\ x \in gone
      BY <3>1, <3>2, <3>3, <3>6
    <3>7. CASE x # k /\ x \notin gone
      BY <3>1, <3>7
    <3> QED BY <3>5, <3>6, <3>7
  <2>4. CASE \/ \E k \in Keys, r \in Results :
                  \/ ReceiveDuplicate(k, r) \/ AcknowledgePythonReceipt(k, r)
                  \/ CommitDuplicate(k, r) \/ CommitRefused(k, r)
             \/ Disconnected \/ PythonReady \/ RetryPendingPythonResults
             \/ \E m \in toUnity : LinkTakesAck(m)
             \/ \E m \in toPython : LinkTakesMessage(m)
             \/ UNCHANGED vars
    <3>1. UNCHANGED <<values, terminal>>
      BY <2>4 DEF ReceiveDuplicate, AcknowledgePythonReceipt, CommitDuplicate,
         CommitRefused, Disconnected, PythonReady, RetryPendingPythonResults,
         LinkTakesAck, LinkTakesMessage, store, vars
    <3> QED BY <2>1, <3>1
  <2> QED BY <2>2, <2>3, <2>4 DEF Next
<1> QED BY <1>1, BrokerInvariant, PTL DEF Spec, IInv, IdentityKept
-----------------------------------------------------------------------------
\* The delivery to the production client, over a connection that may be lost.

\* There is one result to an execution.
OneResult == \A k \in Keys : values[k] \in {None, TheResult}

\* While the connection lasts, an unconfirmed result that the relay has counted
\* is still in the channel, or Python has read it and its receipt is on the way.
CountedIsUnderWay ==
    ~dropped =>
        \A k \in ReceiptPendingKeys :
            attempts[k] > 0 => Result(k, TheResult) \in toPython \/ k \in confirmations

\* The bridge takes a result for received, and retires one, only after Python
\* has read it.
RetiredWasRead ==
    confirmations \union commits \union pythonReceipt \union TombstonedKeys
      \subseteq consumed

DInv == IInv /\ OneResult /\ CountedIsUnderWay /\ RetiredWasRead

\* The delivery takes steps of the broker, but for the loss of the connection.
LEMMA DeliveryStep ==
    ASSUME [DeliveryNext]_allVars
    PROVE  [Next]_vars \/ ConnectionLost
<1>0. TheResult \in Results
  BY ResultDeliveryAssumption DEF TheResult
<1>1. ASSUME NEW k \in Keys,
             \/ UnitySendsResult(k) \/ BridgeTakesConfirmation(k)
             \/ BridgeTakesCommit(k)
      PROVE  Next
  BY <1>0, <1>1 DEF UnitySendsResult, BridgeTakesConfirmation, BridgeTakesCommit, Next
<1>2. ASSUME NEW k \in Keys, PythonCommits(k) PROVE UNCHANGED vars
  BY <1>2 DEF PythonCommits
<1>3. ASSUME NEW m \in toPython, PythonTakesResult(m) \/ PythonTakesCommitAck(m)
      PROVE  Next
  BY <1>3 DEF PythonTakesResult, PythonTakesCommitAck, Next
<1>4. ASSUME NEW m \in toUnity, UnityTakesAck(m) PROVE Next
  BY <1>4 DEF UnityTakesAck, Next
<1>5. CASE BridgeTakesReady \/ BridgeRetries
  BY <1>5 DEF BridgeTakesReady, BridgeRetries, Next
<1>6. CASE UNCHANGED allVars
  BY <1>6 DEF allVars
<1> QED BY <1>1, <1>2, <1>3, <1>4, <1>5, <1>6 DEF DeliveryNext

\* The loss of the connection leaves the store and the counters, and the peer
\* is no longer READY.
LEMMA LossKeeps ==
    ASSUME IInv, ConnectionLost
    PROVE  IInv'
<1> USE DEF IInv
<1>1. /\ UNCHANGED <<values, pythonReceipt, terminal, terminalOrder, attempts, toUnity>>
      /\ ready' = FALSE /\ connected' = FALSE /\ toPython' \subseteq toPython
  BY DEF ConnectionLost, store
<1>2. StoreConsistent' /\ ActiveKeys' = ActiveKeys
  BY <1>1, MapsKept DEF StoreConsistent
<1>3. TypeOK'
  BY <1>1 DEF TypeOK
<1>4. RelayBudget'
  BY <1>1, <1>2 DEF RelayBudget, ReceiptPendingKeys
<1> QED BY <1>2, <1>3, <1>4

\* The broker's part of the invariant.
LEMMA BrokerPartStep ==
    ASSUME IInv, [DeliveryNext]_allVars
    PROVE  IInv'
  BY DeliveryStep, InvariantStep, LossKeeps

\* What a relay counts, it has put in the channel.
LEMMA RelayCounts ==
    ASSUME NEW ks \in SUBSET Keys, NEW counts, NEW isReady,
           Relay(ks, counts, isReady)
    PROVE  /\ toPython \subseteq toPython'
           /\ \A k \in Keys : \/ attempts'[k] = counts[k]
                              \/ k \in ks /\ Result(k, values'[k]) \in toPython'
<1>1. PICK sent \in SUBSET ks :
        /\ attempts' = [k \in Keys |->
                          IF k \in sent THEN counts[k] + 1 ELSE counts[k]]
        /\ toPython' = toPython \union {Result(k, values'[k]) : k \in sent}
  BY DEF Relay
<1> QED BY <1>1

\* The bridge's steps add to the channel, and what they count is in it.
LEMMA BridgeDelivers ==
    ASSUME DInv, OneResult', dropped' = dropped,
           confirmations' = confirmations,
           \/ \E k \in Keys : ReceiveNew(k, TheResult)
           \/ PythonReady
           \/ RetryPendingPythonResults
    PROVE  CountedIsUnderWay'
<1> SUFFICES ASSUME ~dropped, NEW k \in ReceiptPendingKeys', attempts'[k] > 0
             PROVE  Result(k, TheResult) \in toPython' \/ k \in confirmations
  BY DEF CountedIsUnderWay
<1>1. k \in Keys /\ values'[k] = TheResult /\ k \notin pythonReceipt'
  BY DEF ReceiptPendingKeys, ActiveKeys, Active, OneResult
<1>2. /\ IInv
      /\ k \in ReceiptPendingKeys /\ attempts[k] > 0 =>
           Result(k, TheResult) \in toPython \/ k \in confirmations
  BY DEF DInv, CountedIsUnderWay
<1>3. attempts[k] > 0 => k \in ReceiptPendingKeys
  BY <1>1, <1>2 DEF IInv, RelayBudget
<1>4. ASSUME NEW x \in Keys, ReceiveNew(x, TheResult)
      PROVE  Result(k, TheResult) \in toPython' \/ k \in confirmations
  <2>1. Relay({x}, attempts, ready)
    BY <1>4 DEF ReceiveNew
  <2>2. toPython \subseteq toPython'
        /\ (attempts'[k] = attempts[k] \/ Result(k, values'[k]) \in toPython')
    BY <1>1, <2>1, RelayCounts
  <2> QED BY <1>1, <1>2, <1>3, <2>2
<1>5. CASE PythonReady
  <2>1. ReceiptPendingKeys \in SUBSET Keys
    BY DEF ReceiptPendingKeys, ActiveKeys
  <2>2. Relay(ReceiptPendingKeys, [y \in Keys |-> 0], TRUE)
    BY <1>5 DEF PythonReady
  <2>3. attempts'[k] = [y \in Keys |-> 0][k] \/ Result(k, values'[k]) \in toPython'
    BY <1>1, <2>1, <2>2, RelayCounts
  <2> QED BY <1>1, <2>3
<1>6. CASE RetryPendingPythonResults
  <2>1. ReceiptPendingKeys \in SUBSET Keys
    BY DEF ReceiptPendingKeys, ActiveKeys
  <2>2. Relay(ReceiptPendingKeys, attempts, ready)
    BY <1>6 DEF RetryPendingPythonResults
  <2>3. toPython \subseteq toPython'
        /\ (attempts'[k] = attempts[k] \/ Result(k, values'[k]) \in toPython')
    BY <1>1, <2>1, <2>2, RelayCounts
  <2> QED BY <1>1, <1>2, <1>3, <2>3
<1> QED BY <1>4, <1>5, <1>6

\* Every step of the delivery keeps its invariant.
LEMMA DeliveryInvariantStep == DInv /\ [DeliveryNext]_allVars => DInv'
<1> SUFFICES ASSUME DInv, [DeliveryNext]_allVars PROVE DInv'
  OBVIOUS
<1>0. IInv /\ IInv' /\ OneResult /\ CountedIsUnderWay /\ RetiredWasRead
  BY BrokerPartStep DEF DInv
<1>1. ASSUME NEW k \in Keys, UnitySendsResult(k) PROVE DInv'
  <2>1. /\ ReceiveNew(k, TheResult) /\ values' = [values EXCEPT ![k] = TheResult]
        /\ UNCHANGED <<pythonReceipt, terminal, clientVars>>
    BY <1>1 DEF UnitySendsResult, ReceiveNew
  <2>2. OneResult'
    BY <1>0, <2>1 DEF OneResult, IInv, TypeOK
  <2>3. RetiredWasRead'
    BY <1>0, <2>1 DEF RetiredWasRead, TombstonedKeys, clientVars
  <2>4. CountedIsUnderWay'
    BY <1>0, <2>1, <2>2, BridgeDelivers DEF clientVars
  <2> QED BY <1>0, <2>2, <2>3, <2>4 DEF DInv
<1>2. CASE BridgeTakesReady \/ BridgeRetries
  <2>1. /\ PythonReady \/ RetryPendingPythonResults
        /\ UNCHANGED <<values, pythonReceipt, terminal, confirmations, commits,
                       consumed, dropped>>
    BY <1>2 DEF BridgeTakesReady, BridgeRetries, PythonReady,
       RetryPendingPythonResults, store, clientVars
  <2>2. OneResult' /\ RetiredWasRead'
    BY <1>0, <2>1 DEF OneResult, RetiredWasRead, TombstonedKeys
  <2>3. CountedIsUnderWay'
    BY <1>0, <2>1, <2>2, BridgeDelivers
  <2> QED BY <1>0, <2>2, <2>3 DEF DInv
<1>3. ASSUME NEW k \in Keys, BridgeTakesConfirmation(k) PROVE DInv'
  <2>1. /\ k \in confirmations /\ confirmations' = confirmations \ {k}
        /\ KnownResult(k) = TheResult
        /\ pythonReceipt' = IF Active(k) THEN pythonReceipt \union {k} ELSE pythonReceipt
        /\ attempts' = [attempts EXCEPT ![k] = 0]
        /\ UNCHANGED <<values, terminal, toPython, commits, consumed, dropped>>
    BY <1>3 DEF BridgeTakesConfirmation, AcknowledgePythonReceipt
  <2>2. OneResult' /\ RetiredWasRead'
    BY <1>0, <2>1 DEF OneResult, RetiredWasRead, TombstonedKeys
  <2>3. \A x \in ReceiptPendingKeys' : x \in ReceiptPendingKeys /\ x # k
    BY <2>1 DEF ReceiptPendingKeys, ActiveKeys, Active
  <2>4. \A x \in ReceiptPendingKeys' : attempts'[x] = attempts[x]
    BY <1>0, <2>1, <2>3 DEF IInv, TypeOK, ReceiptPendingKeys, ActiveKeys
  <2>5. CountedIsUnderWay'
    BY <1>0, <2>1, <2>3, <2>4 DEF CountedIsUnderWay
  <2> QED BY <1>0, <2>2, <2>5 DEF DInv
<1>4. ASSUME NEW k \in Keys, BridgeTakesCommit(k) PROVE DInv'
  <2>1. /\ k \in commits /\ commits' = commits \ {k}
        /\ values' = [values EXCEPT ![k] = None]
        /\ pythonReceipt' = pythonReceipt \ {k}
        /\ \A x \in Keys : terminal'[x] # None => x = k \/ terminal[x] # None
        /\ attempts' = [attempts EXCEPT ![k] = 0]
        /\ toPython \subseteq toPython'
        /\ UNCHANGED <<confirmations, consumed, dropped>>
    BY <1>4 DEF BridgeTakesCommit, Commit, SendCommitAck
  <2>2. OneResult'
    BY <1>0, <2>1 DEF OneResult, IInv, TypeOK
  <2>3. RetiredWasRead'
    BY <1>0, <2>1 DEF RetiredWasRead, TombstonedKeys
  <2>4. \A x \in ReceiptPendingKeys' :
          x \in ReceiptPendingKeys /\ attempts'[x] = attempts[x]
    BY <1>0, <2>1 DEF IInv, TypeOK, ReceiptPendingKeys, ActiveKeys, Active
  <2>5. CountedIsUnderWay'
    BY <1>0, <2>1, <2>4 DEF CountedIsUnderWay
  <2> QED BY <1>0, <2>2, <2>3, <2>5 DEF DInv
<1>5. ASSUME NEW k \in Keys, PythonCommits(k) PROVE DInv'
  <2>1. /\ k \in consumed /\ commits' = {k}
        /\ UNCHANGED <<vars, confirmations, consumed, dropped>>
    BY <1>5 DEF PythonCommits
  <2> QED BY <1>0, <2>1 DEF DInv, OneResult, CountedIsUnderWay, RetiredWasRead,
          ReceiptPendingKeys, ActiveKeys, Active, TombstonedKeys, vars
<1>6. ASSUME NEW m \in toPython, PythonTakesResult(m) PROVE DInv'
  <2>1. /\ toPython' = toPython \ {m}
        /\ confirmations' = confirmations \union {m.key}
        /\ consumed' = consumed \union {m.key}
        /\ UNCHANGED <<values, pythonReceipt, terminal, attempts, commits, dropped>>
    BY <1>6 DEF PythonTakesResult, LinkTakesMessage, store, peer
  <2>2. OneResult' /\ RetiredWasRead' /\ ReceiptPendingKeys' = ReceiptPendingKeys
    BY <1>0, <2>1 DEF OneResult, RetiredWasRead, TombstonedKeys,
       ReceiptPendingKeys, ActiveKeys, Active
  <2>3. \A k : m = Result(k, TheResult) => m.key = k
    BY MessageFields
  <2>4. CountedIsUnderWay'
    BY <1>0, <2>1, <2>2, <2>3 DEF CountedIsUnderWay
  <2> QED BY <1>0, <2>2, <2>4 DEF DInv
<1>7. ASSUME NEW m, PythonTakesCommitAck(m) \/ UnityTakesAck(m) PROVE DInv'
  <2>1. /\ \A k : Result(k, TheResult) \in toPython => Result(k, TheResult) \in toPython'
        /\ UNCHANGED <<values, pythonReceipt, terminal, attempts, clientVars>>
    BY <1>7, MessageFields DEF PythonTakesCommitAck, UnityTakesAck, LinkTakesMessage,
       LinkTakesAck, store, peer
  <2> QED BY <1>0, <2>1 DEF DInv, OneResult, CountedIsUnderWay, RetiredWasRead,
          ReceiptPendingKeys, ActiveKeys, Active, TombstonedKeys, clientVars
<1>8. CASE ConnectionLost
  <2>1. /\ dropped' = TRUE
        /\ confirmations' \subseteq confirmations /\ commits' \subseteq commits
        /\ UNCHANGED <<values, pythonReceipt, terminal, consumed>>
    BY <1>8 DEF ConnectionLost, store
  <2> QED BY <1>0, <2>1 DEF DInv, OneResult, CountedIsUnderWay, RetiredWasRead,
          TombstonedKeys
<1>9. CASE UNCHANGED allVars
  BY <1>0, <1>9 DEF DInv, OneResult, CountedIsUnderWay, RetiredWasRead,
     ReceiptPendingKeys, ActiveKeys, Active, TombstonedKeys, allVars, vars, clientVars
<1> QED BY <1>1, <1>2, <1>3, <1>4, <1>5, <1>6, <1>7, <1>8, <1>9 DEF DeliveryNext

\* The invariant of the delivery, through the loss of the connection.
LEMMA DeliveryInvariant == DeliverySpec => []DInv
<1>1. Init => IInv
  BY InitKeeps
<1>2. DeliveryInit => DInv
  <2> SUFFICES ASSUME DeliveryInit PROVE DInv
    OBVIOUS
  <2>1. /\ Init /\ confirmations = {} /\ commits = {}
        /\ \A k \in Keys : values[k] = None /\ terminal[k] = None
        /\ pythonReceipt = {}
    BY DEF DeliveryInit, Init
  <2>2. OneResult /\ CountedIsUnderWay /\ RetiredWasRead
    BY <2>1 DEF OneResult, CountedIsUnderWay, RetiredWasRead, ReceiptPendingKeys,
       ActiveKeys, Active, TombstonedKeys
  <2> QED BY <1>1, <2>1, <2>2 DEF DInv
<1> QED BY <1>2, DeliveryInvariantStep, PTL DEF DeliverySpec

\* With the production client the broker keeps its invariant, although the
\* connection goes without a word to the store: in particular the counters
\* never pass the one send that exhausts the threshold.
THEOREM BrokerInvariantInDelivery ==
    DeliverySpec => [](TypeOK /\ StoreConsistent /\ RelayBudget)
<1>1. DInv => TypeOK /\ StoreConsistent /\ RelayBudget
  BY DEF DInv, IInv
<1> QED BY <1>1, DeliveryInvariant, PTL

\* What it sends there is true as well, in every step but the loss itself.
THEOREM SendsAreTrueInDelivery ==
    DeliverySpec => [][DurableAckStep /\ RelayStep /\ CommitStep]_allVars
<1>1. IInv /\ [DeliveryNext]_allVars => DurableAckStep /\ RelayStep /\ CommitStep
  <2>1. ASSUME IInv, [Next]_vars PROVE DurableAckStep /\ RelayStep /\ CommitStep
    BY <2>1, DurableAckSent, RelaySent, CommitAnswered
  <2>2. ASSUME ConnectionLost PROVE DurableAckStep /\ RelayStep /\ CommitStep
    BY <2>2 DEF ConnectionLost, DurableAckStep, RelayStep, CommitStep
  <2> QED BY <2>1, <2>2, DeliveryStep
<1>2. DInv => IInv
  BY DEF DInv
<1> QED BY <1>1, <1>2, DeliveryInvariant, PTL DEF DeliverySpec

\* While the connection lasts no counted result is lost: the retry budget is
\* spent on results that are in the channel or whose receipt is on the way.
THEOREM CountedResultsAreUnderWay == DeliverySpec => []CountedIsUnderWay
<1>1. DInv => CountedIsUnderWay
  BY DEF DInv
<1> QED BY <1>1, DeliveryInvariant, PTL

\* The bridge stops relaying a result, and retires it, only once Python has read
\* it, whatever is resent, repeated or lost with the connection.
THEOREM RetiredResultsWereRead == DeliverySpec => []RetiredWasRead
<1>1. DInv => RetiredWasRead
  BY DEF DInv
<1> QED BY <1>1, DeliveryInvariant, PTL
=============================================================================
