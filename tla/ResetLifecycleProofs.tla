----------------------- MODULE ResetLifecycleProofs ------------------------
(***************************************************************************)
(* Theorems about ResetLifecycle for any number of resets, faults and      *)
(* tombstones.  The inductive invariant adds to types and store what keeps *)
(* a reset from happening twice: messages from Python arrive in the order  *)
(* of their keys, at or above every key the gateway knows (QueueOK); a     *)
(* completion the client holds is that of a reset the gateway knows, or of *)
(* one it has forgotten for a later one (CopiesOK); the acknowledgement of *)
(* a pending accepted reset is on its way (AcksOK); and as long as Unity   *)
(* does not restart, completions name what Unity performed (WorldOK).      *)
(***************************************************************************)
EXTENDS ResetLifecycle, TombstoneFifoProofs, FiniteSetTheorems, TLAPS

Queued == {toBridge[i] : i \in 1..Len(toBridge)}

Known(k) == k \in pending \/ terminal[k] # NoState

\* Reset k is over and its tombstone is gone, evicted for that of a later one.
Forgotten(k) ==
    /\ k \notin pending /\ terminal[k] = NoState
    /\ \E j \in Keys : terminal[j] # NoState /\ k < j

\* Messages from Python come in the order of their keys, and none is of a reset
\* before one the gateway knows.
QueueOK ==
    /\ \A i, j \in 1..Len(toBridge) :
         i < j => toBridge[j] = Ready \/ toBridge[i].key <= toBridge[j].key
    /\ \A m \in Queued : m.key <= generation
    /\ \A m \in Queued, k \in Keys : Known(k) => m = Ready \/ k <= m.key
    /\ \A k \in Keys : Known(k) \/ k \in toUnity => k <= generation

\* The gateway has, or had, this completion.
Borne(m) ==
    complete[m.key] = m.state \/ terminal[m.key] = m.state \/ Forgotten(m.key)

\* Completions the client has or may read.
Loose ==
    toPython \union buffered
      \union {Completion(generation, observed) : x \in {phase} \intersect {"looking", "flying"}}

CopiesOK ==
    /\ \A m \in Loose : m \in Completions /\ Borne(m)
    /\ \A m, n \in Loose : m.key = n.key => m = n
    /\ phase \in {"looking", "flying"} => generation \in accepted
    /\ \A k \in accepted :
         /\ k <= generation
         /\ complete[k] # NoState \/ terminal[k] # NoState \/ Forgotten(k)

AcksOK ==
    reconnects = 0 => \A k \in accepted \intersect pending : Ack(k) \in Queued

\* What Unity has performed, and what is said of it.
WorldOK ==
    unityRestarts = 0 =>
        /\ \A k \in Keys : performed[k] # NoState => k <= generation
        /\ \A m \in fromUnity \union Loose : m.state = performed[m.key]
        /\ \A k \in Keys : /\ complete[k] \in {NoState, performed[k]}
                           /\ terminal[k] \in {NoState, performed[k]}
        /\ \A k \in accepted : performed[k] # NoState
        /\ \A k \in Keys :
             k = generation /\ EarlierAccepted /\ performed[k] # NoState
                => world = performed[k]

IInv ==
    /\ TypeOK /\ StoreConsistent /\ QueueOK /\ CopiesOK /\ BufferedIsOver
    /\ AcksOK /\ WorldOK
-----------------------------------------------------------------------------
\* The fields of messages and completions.
LEMMA Shapes ==
    /\ Ready \in Messages /\ Ready.key = 0
    /\ \A k \in Keys :
         /\ Request(k) \in Messages /\ Request(k).key = k /\ Request(k) # Ready
         /\ Ack(k) \in Messages /\ Ack(k).key = k /\ Ack(k) # Ready
    /\ \A j, k \in Keys : /\ Request(j) # Ack(k)
                          /\ Request(j) = Request(k) => j = k
                          /\ Ack(j) = Ack(k) => j = k
    /\ \A m \in Messages : m = Ready \/ m.key \in Keys
    /\ \A m \in Messages : m.key \in 0..MaxResets
    /\ \A k, s : Completion(k, s).key = k /\ Completion(k, s).state = s
    /\ \A k \in Keys, s \in States : Completion(k, s) \in Completions
    /\ \A m \in Completions :
         m.key \in Keys /\ m.state \in States /\ m = Completion(m.key, m.state)
<1> USE ResetLifecycleAssumption DEF Keys
<1>1. \A k \in Keys : Request(k) \in Messages /\ Ack(k) \in Messages
  BY DEF Messages
<1>2. Ready \in Messages
  BY DEF Messages
<1>3. /\ Ready.key = 0 /\ Ready.type = "Ready"
      /\ \A k : /\ Request(k).key = k /\ Request(k).type = "Request"
                /\ Ack(k).key = k /\ Ack(k).type = "Ack"
  BY DEF Ready, Request, Ack
<1>4. \A m \in Messages : m = Ready \/ \E k \in Keys : m = Request(k) \/ m = Ack(k)
  BY DEF Messages
<1>5. \A k, s : Completion(k, s).key = k /\ Completion(k, s).state = s
  BY DEF Completion
<1>6. /\ \A k \in Keys, s \in States : Completion(k, s) \in Completions
      /\ \A m \in Completions :
           m.key \in Keys /\ m.state \in States /\ m = Completion(m.key, m.state)
  BY DEF Completion, Completions
<1>7. /\ \A m \in Messages : m = Ready \/ m.key \in Keys
      /\ \A m \in Messages : m.key \in 0..MaxResets
  BY <1>3, <1>4
<1>8. /\ \A k \in Keys : Request(k) # Ready /\ Ack(k) # Ready
      /\ \A j, k \in Keys : /\ Request(j) # Ack(k)
                            /\ Request(j) = Request(k) => j = k
                            /\ Ack(j) = Ack(k) => j = k
  BY <1>3
<1> QED BY <1>1, <1>2, <1>3, <1>5, <1>6, <1>7, <1>8

\* Sends add completions the gateway holds.
LEMMA SendTypes ==
    ASSUME TypeOK, NEW ks \in SUBSET CompletedKeys, SendCompletions(ks)
    PROVE  /\ toPython' \subseteq Completions
           /\ \A m \in toPython' \ toPython :
                /\ m \in Completions /\ m.key \in CompletedKeys
                /\ m.state = complete[m.key]
<1>1. PICK sent \in SUBSET ks :
        toPython' = toPython \union {Completion(k, complete[k]) : k \in sent}
  BY DEF SendCompletions
<1>2. \A k \in sent : k \in Keys /\ complete[k] \in States
  BY DEF TypeOK, CompletedKeys, States, NoState
<1> QED BY <1>1, <1>2, Shapes DEF TypeOK

\* What a step does to the gateway's maps.
StoreOpened(k) ==
    /\ HandledBridgeMessage(Request(k))
    /\ ~Known(k) /\ pending' = pending \union {k}
    /\ UNCHANGED <<complete, terminal, terminalOrder>>

StoreCompleted(m) ==
    /\ m.key \in pending /\ complete[m.key] \in {NoState, m.state}
    /\ complete' = [complete EXCEPT ![m.key] = m.state]
    /\ UNCHANGED <<pending, terminal, terminalOrder, toBridge>>

StoreRetired(k) ==
    k \in CompletedKeys /\ HandledBridgeMessage(Ack(k)) /\ Retire(k)

LEMMA StoreCases ==
    ASSUME TypeOK, [Next]_vars
    PROVE  \/ UNCHANGED <<pending, complete, terminal, terminalOrder>>
           \/ \E k \in Keys : StoreOpened(k)
           \/ \E m \in fromUnity : StoreCompleted(m)
           \/ \E k \in Keys : StoreRetired(k)
<1> DEFINE Same == UNCHANGED <<pending, complete, terminal, terminalOrder>>
<1>1. ASSUME NEW k \in Keys, ReceivePythonReset(k)
      PROVE  Same \/ StoreOpened(k)
  BY <1>1 DEF ReceivePythonReset, ReplayRetired, RepeatPending, OpenReset, StoreOpened, Known
<1>2. ASSUME NEW k \in Keys, ReceivePythonResetAck(k)
      PROVE  Same \/ StoreRetired(k)
  BY <1>2 DEF ReceivePythonResetAck, StoreRetired
<1>3. ASSUME NEW m \in fromUnity, ReceiveUnityResetComplete(m)
      PROVE  Same \/ StoreCompleted(m)
  BY <1>3 DEF ReceiveUnityResetComplete, StoreCompletion, StoreCompleted
<1>4. CASE PythonReady \/ UnityReady \/ RetryPendingResets
  BY <1>4 DEF PythonReady, UnityReady, RetryPendingResets, gateway
<1>5. CASE \/ \E k \in Keys : UnityTakesRequest(k) \/ Submit(k)
           \/ UnityRestart \/ Lose
  BY <1>5 DEF UnityTakesRequest, Submit, UnityRestart, Lose, gateway
<1>6. CASE \/ \E m \in toPython : TakeCompletion(m) \/ PutAside(m)
           \/ WaitTimesOut \/ LookupSucceeds \/ LookupFails \/ Reconnect
           \/ UNCHANGED vars
  BY <1>6 DEF TakeCompletion, PutAside, WaitTimesOut, LookupSucceeds,
     LookupFails, Reconnect, gateway, vars
<1> QED BY <1>1, <1>2, <1>3, <1>4, <1>5, <1>6 DEF Next, BridgeTakesMessage
-----------------------------------------------------------------------------
LEMMA RetireTypes ==
    ASSUME TypeOK, NEW k \in Keys, Retire(k)
    PROVE  /\ pending' \subseteq Keys /\ complete' \in [Keys -> Nat]
           /\ terminal' \in [Keys -> Nat] /\ terminalOrder' \in Seq(Keys)
<1>1. terminalOrder \in Seq(Keys) /\ complete \in [Keys -> Nat] /\ pending \subseteq Keys
  BY DEF TypeOK
<1>2. terminal \in [Keys -> Nat]
  BY DEF TypeOK
<1> DEFINE longer == Append(terminalOrder, k)
           gone == Evicted(terminalOrder, k, TombstoneCapacity)
<1>3. longer \in Seq(Keys)
  BY <1>1
<1>4. Tail(longer) \in Seq(Keys)
  <2>1. Len(longer) = Len(terminalOrder) + 1 /\ Len(terminalOrder) \in Nat
    BY <1>1
  <2> HIDE DEF longer
  <2> QED BY <1>3, <2>1
<1>5. terminalOrder' \in Seq(Keys)
  BY <1>3, <1>4 DEF Retire, Pushed
<1> HIDE DEF gone
<1>6. complete[k] \in Nat /\ NoState \in Nat
  BY <1>1 DEF NoState
<1>7. terminal' = [j \in Keys |-> IF j = k THEN complete[k]
                                  ELSE IF j \in gone THEN NoState ELSE terminal[j]]
  BY DEF Retire, gone
<1>8. terminal' \in [Keys -> Nat]
  BY <1>2, <1>6, <1>7
<1>9. complete' \in [Keys -> Nat] /\ pending' \subseteq Keys
  BY <1>1, <1>6 DEF Retire
<1> QED BY <1>5, <1>8, <1>9

LEMMA TypeStep == TypeOK /\ [Next]_vars => TypeOK'
<1> SUFFICES ASSUME TypeOK, [Next]_vars PROVE TypeOK'
  OBVIOUS
<1> USE ResetLifecycleAssumption
<1>1. toBridge # <<>> =>
        /\ Head(toBridge) \in Messages /\ Tail(toBridge) \in Seq(Messages)
  BY DEF TypeOK
<1>2. CompletedKeys \in SUBSET Keys
  BY DEF CompletedKeys, TypeOK
<1>3. CASE PythonReady
  BY <1>1, <1>3, SendTypes
     DEF PythonReady, HandledBridgeMessage, TypeOK, gateway, unity, python
<1>4. CASE UnityReady
  BY <1>4 DEF UnityReady, TypeOK, unity, links, python
<1>5. ASSUME NEW k \in Keys, ReceivePythonReset(k)
      PROVE  TypeOK'
  <2>1. pending' \subseteq Keys /\ toUnity' \subseteq Keys
    BY <1>5 DEF ReceivePythonReset, ReplayRetired, RepeatPending, OpenReset,
       ForwardResets, TypeOK
  <2>2. toPython' \subseteq Completions
    <3>1. CASE ReplayRetired(k)
      <4>1. Completion(k, terminal[k]) \in Completions
        BY <3>1, Shapes DEF ReplayRetired, TypeOK, States, NoState
      <4> QED BY <3>1, <4>1 DEF ReplayRetired, TypeOK
    <3>2. CASE RepeatPending(k)
      BY <3>2, SendTypes DEF RepeatPending, CompletedKeys, TypeOK
    <3>3. CASE OpenReset(k)
      BY <3>3 DEF OpenReset, TypeOK
    <3> QED BY <1>5, <3>1, <3>2, <3>3 DEF ReceivePythonReset
  <2> QED BY <1>1, <1>5, <2>1, <2>2
          DEF ReceivePythonReset, HandledBridgeMessage, TypeOK, unity, python
<1>6. ASSUME NEW k \in Keys, ReceivePythonResetAck(k)
      PROVE  TypeOK'
  <2>1. CASE k \in CompletedKeys
    <3>1. Retire(k)
      BY <1>6, <2>1 DEF ReceivePythonResetAck
    <3> QED BY <1>1, <1>6, <3>1, RetireTypes
            DEF ReceivePythonResetAck, HandledBridgeMessage, TypeOK, unity, python
  <2>2. CASE k \notin CompletedKeys
    BY <1>1, <1>6, <2>2
       DEF ReceivePythonResetAck, HandledBridgeMessage, TypeOK, unity, python
  <2> QED BY <2>1, <2>2
<1>7. CASE RetryPendingResets
  BY <1>2, <1>7, SendTypes
     DEF RetryPendingResets, ForwardResets, TypeOK, gateway, unity, python
<1>8. ASSUME NEW m \in fromUnity, ReceiveUnityResetComplete(m)
      PROVE  TypeOK'
  <2>1. m.key \in Keys /\ m.state \in Nat /\ m \in Completions
    BY Shapes DEF TypeOK, States
  <2> QED BY <1>8, <2>1
          DEF ReceiveUnityResetComplete, StoreCompletion, TypeOK, unity, python
<1>9. ASSUME NEW k \in Keys, UnityTakesRequest(k)
      PROVE  TypeOK'
  <2>1. /\ world' \in States /\ performed' \in [Keys -> Nat] /\ performed'[k] \in States
    <3>1. /\ world \in States /\ world \in Nat /\ performed \in [Keys -> Nat]
          /\ world + 1 \in States /\ world + 1 \in Nat
      BY DEF TypeOK, States, NoState
    <3>2. CASE performed[k] # NoState
      BY <1>9, <3>1, <3>2 DEF UnityTakesRequest, States
    <3>3. CASE performed[k] = NoState
      BY <1>9, <3>1, <3>3 DEF UnityTakesRequest
    <3> QED BY <3>2, <3>3
  <2>2. Completion(k, performed'[k]) \in Completions
    BY <2>1, Shapes
  <2> QED BY <1>9, <2>1, <2>2 DEF UnityTakesRequest, TypeOK, gateway, python
<1>10. ASSUME NEW k \in Keys, Submit(k)
       PROVE  TypeOK'
  <2>1. toBridge' \in Seq(Messages)
    BY <1>10, Shapes DEF Submit, TypeOK
  <2>2. generation' = k /\ k # 0 /\ k \in 0..MaxResets
    BY <1>10 DEF Submit, Keys
  <2> QED BY <1>10, <2>1, <2>2 DEF Submit, TypeOK, Phases, gateway, unity
<1>11. CASE UnityRestart
  BY <1>11 DEF UnityRestart, TypeOK, States, NoState, gateway, links, python
<1>12. CASE Lose
  BY <1>12 DEF Lose, TypeOK, gateway, unity, python
<1>13. ASSUME NEW m \in Completions, m.key = generation, Accept(m)
       PROVE  /\ phase' \in Phases /\ observed' \in Nat /\ accepted' \subseteq Keys
              /\ toBridge' \in Seq(Messages)
  BY <1>13, Shapes DEF Accept, TypeOK, Phases, States
<1>15. ASSUME NEW m \in toPython, TakeCompletion(m)
       PROVE  TypeOK'
  BY <1>13, <1>15 DEF TakeCompletion, TypeOK, gateway, unity
<1>16. ASSUME NEW m \in toPython, PutAside(m)
       PROVE  TypeOK'
  BY <1>16 DEF PutAside, TypeOK, Phases, gateway, unity
<1>17. CASE WaitTimesOut
  <2>1. generation \in Keys
    BY <1>17 DEF WaitTimesOut, TypeOK, Keys
  <2> QED BY <1>17, <2>1 DEF WaitTimesOut, TypeOK, Phases, gateway, unity, links
<1>18. CASE LookupSucceeds \/ LookupFails
  BY <1>18 DEF LookupSucceeds, LookupFails, TypeOK, Phases, gateway, unity, links
<1>19. CASE Reconnect
  <2>1. \A n \in 0..Len(toBridge) : Append(SubSeq(toBridge, 1, n), Ready) \in Seq(Messages)
    BY Shapes DEF TypeOK
  <2> QED BY <1>19, <2>1 DEF Reconnect, TypeOK, gateway, unity
<1>20. CASE UNCHANGED vars
  BY <1>20 DEF TypeOK, vars, gateway, unity, links, python
<1> QED BY <1>3, <1>4, <1>5, <1>6, <1>7, <1>8, <1>9, <1>10, <1>11, <1>12,
           <1>15, <1>16, <1>17, <1>18, <1>19, <1>20 DEF Next, BridgeTakesMessage
-----------------------------------------------------------------------------
\* The acknowledgement of a complete reset moves it from the one map to the
\* other, and lets at most the oldest tombstone go.
LEMMA RetireStep ==
    ASSUME TypeOK, StoreConsistent, NEW k \in CompletedKeys, Retire(k)
    PROVE  /\ StoreConsistent'
           /\ pending' = pending \ {k}
           /\ terminal'[k] = complete[k] /\ terminal'[k] # NoState
           /\ \A j \in Keys \ {k} :
                /\ complete'[j] = complete[j]
                /\ terminal'[j] \in {NoState, terminal[j]}
<1> USE ResetLifecycleAssumption
<1> DEFINE gone == Evicted(terminalOrder, k, TombstoneCapacity)
<1>1. k \in Keys /\ k \in pending /\ k \notin TombstonedKeys /\ complete[k] # NoState
  BY DEF CompletedKeys, StoreConsistent, TypeOK
<1>2. Lists(terminalOrder, TombstonedKeys, TombstoneCapacity)
  BY DEF StoreConsistent
<1>3. /\ Lists(Pushed(terminalOrder, k, TombstoneCapacity),
               (TombstonedKeys \union {k}) \ gone, TombstoneCapacity)
      /\ k \notin gone
  BY <1>1, <1>2, ListsPushed
<1> HIDE DEF gone
<1>4. /\ \A j \in Keys : terminal'[j] = IF j = k THEN complete[k]
                                        ELSE IF j \in gone THEN NoState ELSE terminal[j]
      /\ \A j \in Keys : complete'[j] = IF j = k THEN NoState ELSE complete[j]
      /\ pending' = pending \ {k}
  BY DEF Retire, gone, TypeOK
<1>5. TombstonedKeys' = (TombstonedKeys \union {k}) \ gone
  BY <1>1, <1>3, <1>4 DEF TombstonedKeys
<1>6. Lists(terminalOrder, TombstonedKeys, TombstoneCapacity)'
  BY <1>3, <1>5 DEF Retire
<1>7. pending' \intersect TombstonedKeys' = {}
  BY <1>4, <1>5 DEF StoreConsistent
<1>8. \A j \in Keys \ pending' : complete'[j] = NoState
  BY <1>4 DEF StoreConsistent
<1> QED BY <1>1, <1>4, <1>6, <1>7, <1>8 DEF StoreConsistent

LEMMA StoreStep == TypeOK /\ StoreConsistent /\ [Next]_vars => StoreConsistent'
<1> SUFFICES ASSUME TypeOK, StoreConsistent, [Next]_vars PROVE StoreConsistent'
  OBVIOUS
<1>1. CASE UNCHANGED <<pending, complete, terminal, terminalOrder>>
  <2>1. TombstonedKeys' = TombstonedKeys
    BY <1>1 DEF TombstonedKeys
  <2> QED BY <1>1, <2>1 DEF StoreConsistent
<1>2. ASSUME NEW k \in Keys, StoreOpened(k) PROVE StoreConsistent'
  <2>1. TombstonedKeys' = TombstonedKeys /\ k \notin TombstonedKeys
    BY <1>2 DEF StoreOpened, TombstonedKeys, Known
  <2> QED BY <1>2, <2>1 DEF StoreConsistent, StoreOpened
<1>3. ASSUME NEW m \in fromUnity, StoreCompleted(m) PROVE StoreConsistent'
  <2>1. TombstonedKeys' = TombstonedKeys
    BY <1>3 DEF StoreCompleted, TombstonedKeys
  <2> QED BY <1>3, <2>1 DEF StoreConsistent, StoreCompleted, TypeOK
<1>4. ASSUME NEW k \in Keys, StoreRetired(k) PROVE StoreConsistent'
  BY <1>4, RetireStep DEF StoreRetired
<1> QED BY <1>1, <1>2, <1>3, <1>4, StoreCases

\* The gateway forgets a completion only for that of a later reset, and takes no
\* forgotten reset up again.
LEMMA BorneStep ==
    ASSUME TypeOK, StoreConsistent, QueueOK, [Next]_vars
    PROVE  /\ \A k \in Keys : Forgotten(k) => Forgotten(k)'
           /\ \A m \in Completions : Borne(m) => Borne(m)'
           /\ \A k \in Keys : Known(k)' => Known(k) \/ StoreOpened(k)
           /\ \A k \in Keys : complete[k] # NoState \/ terminal[k] # NoState =>
                \/ complete'[k] # NoState \/ terminal'[k] # NoState
                \/ Forgotten(k)'
<1> USE ResetLifecycleAssumption
<1>0. /\ \A m \in Completions : m.key \in Keys /\ m.state # NoState
      /\ \A j, k \in Keys : (j < k => ~(k <= j)) /\ j \in Nat
  BY Shapes DEF States, Keys
<1>1. CASE UNCHANGED <<pending, complete, terminal, terminalOrder>>
  BY <1>1 DEF Forgotten, Borne, Known
<1>2. ASSUME NEW k \in Keys, StoreOpened(k)
      PROVE  /\ \A j \in Keys : Forgotten(j) => Forgotten(j)'
             /\ \A m \in Completions : Borne(m) => Borne(m)'
             /\ \A j \in Keys : Known(j)' => Known(j) \/ StoreOpened(j)
             /\ \A j \in Keys : complete[j] # NoState \/ terminal[j] # NoState =>
                  complete'[j] # NoState \/ terminal'[j] # NoState
  <2>1. Request(k) \in Queued
    BY <1>2 DEF StoreOpened, HandledBridgeMessage, Queued, TypeOK
  <2>2. ~Forgotten(k)
    BY <1>0, <2>1, Shapes DEF QueueOK, Forgotten, Known
  <2>3. \A j \in Keys : Forgotten(j) => Forgotten(j)'
    BY <1>2, <2>2 DEF StoreOpened, Forgotten
  <2> QED BY <1>0, <1>2, <2>3 DEF StoreOpened, Borne, Known
<1>3. ASSUME NEW n \in fromUnity, StoreCompleted(n)
      PROVE  /\ \A j \in Keys : Forgotten(j) => Forgotten(j)'
             /\ \A m \in Completions : Borne(m) => Borne(m)'
             /\ \A j \in Keys : Known(j)' => Known(j)
             /\ \A j \in Keys : complete[j] # NoState \/ terminal[j] # NoState =>
                  complete'[j] # NoState \/ terminal'[j] # NoState
  <2>1. n.key \in Keys /\ n.state # NoState
    BY <1>0 DEF TypeOK
  <2>2. \A j \in Keys : complete[j] # NoState => complete'[j] = complete[j]
    BY <1>3, <2>1 DEF StoreCompleted, TypeOK
  <2> QED BY <1>0, <1>3, <2>2 DEF StoreCompleted, Forgotten, Borne, Known
<1>4. ASSUME NEW k \in Keys, StoreRetired(k)
      PROVE  /\ \A j \in Keys : Forgotten(j) => Forgotten(j)'
             /\ \A m \in Completions : Borne(m) => Borne(m)'
             /\ \A j \in Keys : Known(j)' => Known(j)
             /\ \A j \in Keys : complete[j] # NoState \/ terminal[j] # NoState =>
                  \/ complete'[j] # NoState \/ terminal'[j] # NoState
                  \/ Forgotten(j)'
  <2>1. /\ pending' = pending \ {k} /\ k \in pending
        /\ terminal'[k] = complete[k] /\ terminal'[k] # NoState
        /\ \A j \in Keys \ {k} : /\ complete'[j] = complete[j]
                                 /\ terminal'[j] \in {NoState, terminal[j]}
    BY <1>4, RetireStep DEF StoreRetired, CompletedKeys
  <2>2. Ack(k) \in Queued
    BY <1>4 DEF StoreRetired, HandledBridgeMessage, Queued, TypeOK
  <2>3. \A j \in Keys : Known(j) /\ j # k => j < k
    BY <2>2, Shapes DEF QueueOK, Keys
  <2>4. terminal[k] = NoState
    BY <2>1 DEF StoreConsistent, TombstonedKeys
  <2>5. \A j \in Keys : terminal[j] # NoState /\ terminal'[j] = NoState => Forgotten(j)'
    <3> SUFFICES ASSUME NEW j \in Keys, terminal[j] # NoState, terminal'[j] = NoState
                 PROVE  Forgotten(j)'
      OBVIOUS
    <3>1. j # k /\ j < k
      BY <2>1, <2>3 DEF Known
    <3>2. j \notin pending
      BY DEF StoreConsistent, TombstonedKeys
    <3> QED BY <2>1, <3>1, <3>2 DEF Forgotten
  <2>6. \A j \in Keys : Forgotten(j) => Forgotten(j)'
    <3> SUFFICES ASSUME NEW j \in Keys, Forgotten(j) PROVE Forgotten(j)'
      OBVIOUS
    <3>1. PICK i \in Keys : terminal[i] # NoState /\ j < i
      BY DEF Forgotten
    <3>2. j # k /\ j \notin pending' /\ terminal'[j] = NoState
      BY <2>1 DEF Forgotten
    <3>3. i < k
      BY <2>3, <2>4, <3>1 DEF Known
    <3>4. j < k
      BY <3>1, <3>3 DEF Keys
    <3> QED BY <2>1, <3>2, <3>4 DEF Forgotten
  <2>7. \A j \in Keys : Known(j)' => Known(j)
    BY <2>1 DEF Known
  <2>8. \A m \in Completions : Borne(m) => Borne(m)'
    <3> SUFFICES ASSUME NEW m \in Completions, Borne(m) PROVE Borne(m)'
      OBVIOUS
    <3>1. m.key \in Keys /\ m.state # NoState
      BY <1>0
    <3>2. CASE Forgotten(m.key)
      BY <2>6, <3>1, <3>2 DEF Borne
    <3>3. CASE complete[m.key] = m.state
      BY <2>1, <3>1, <3>3 DEF Borne
    <3>4. CASE terminal[m.key] = m.state
      BY <2>1, <2>4, <2>5, <3>1, <3>4 DEF Borne
    <3> QED BY <3>2, <3>3, <3>4 DEF Borne
  <2>9. \A j \in Keys : complete[j] # NoState \/ terminal[j] # NoState =>
          complete'[j] # NoState \/ terminal'[j] # NoState \/ Forgotten(j)'
    BY <2>1, <2>5
  <2> QED BY <2>6, <2>7, <2>8, <2>9
<1> QED BY <1>1, <1>2, <1>3, <1>4, StoreCases
-----------------------------------------------------------------------------
\* Taking the head of the queue, and adding to a part of it.
LEMMA QueueTail ==
    ASSUME TypeOK, toBridge # <<>>, toBridge' = Tail(toBridge)
    PROVE  /\ Head(toBridge) \in Queued /\ Queued' \subseteq Queued
           /\ \A m \in Queued : m = Head(toBridge) \/ m \in Queued'
           /\ Len(toBridge') \in Nat /\ Len(toBridge) \in Nat
           /\ \A i \in 1..Len(toBridge') :
                i + 1 \in 1..Len(toBridge) /\ toBridge'[i] = toBridge[i + 1]
<1>1. toBridge \in Seq(Messages)
  BY DEF TypeOK
<1>2. /\ Len(toBridge) \in Nat \ {0} /\ Len(toBridge') = Len(toBridge) - 1
      /\ Head(toBridge) = toBridge[1]
      /\ \A i \in 1..Len(toBridge') : toBridge'[i] = toBridge[i + 1]
  BY <1>1
<1>3. \A i \in 1..Len(toBridge') : i + 1 \in 1..Len(toBridge)
  BY <1>2
<1>4. Head(toBridge) \in Queued /\ Queued' \subseteq Queued
  BY <1>2, <1>3 DEF Queued
<1>5. \A i \in 1..Len(toBridge) : i = 1 \/ (i - 1 \in 1..Len(toBridge') /\ toBridge'[i - 1] = toBridge[i])
  BY <1>2
<1>6. \A m \in Queued : m = Head(toBridge) \/ m \in Queued'
  BY <1>2, <1>5 DEF Queued
<1> QED BY <1>2, <1>3, <1>4, <1>6

Extends(n, m) ==
    /\ n \in 0..Len(toBridge) /\ Len(toBridge') = n + 1
    /\ \A i \in 1..n : toBridge'[i] = toBridge[i]
    /\ toBridge'[n + 1] = m

LEMMA ExtendsAppend ==
    ASSUME TypeOK, NEW m \in Messages, toBridge' = Append(toBridge, m)
    PROVE  Extends(Len(toBridge), m)
  BY DEF Extends, TypeOK

LEMMA ExtendsPrefix ==
    ASSUME TypeOK, NEW m \in Messages, NEW n \in 0..Len(toBridge),
           toBridge' = Append(SubSeq(toBridge, 1, n), m)
    PROVE  Extends(n, m)
<1>1. toBridge \in Seq(Messages) /\ Len(toBridge) \in Nat
  BY DEF TypeOK
<1>2. /\ SubSeq(toBridge, 1, n) \in Seq(Messages) /\ Len(SubSeq(toBridge, 1, n)) = n
      /\ \A i \in 1..n : SubSeq(toBridge, 1, n)[i] = toBridge[i]
  BY <1>1
<1> QED BY <1>2 DEF Extends

LEMMA QueueExtended ==
    ASSUME TypeOK, NEW n, NEW m, Extends(n, m)
    PROVE  /\ Queued' \subseteq Queued \union {m} /\ m \in Queued'
           /\ n = Len(toBridge) => Queued \subseteq Queued'
           /\ n \in Nat /\ Len(toBridge) \in Nat /\ n <= Len(toBridge)
<1>1. Len(toBridge) \in Nat /\ n \in Nat /\ n <= Len(toBridge)
  BY DEF Extends, TypeOK
<1>2. \A i \in 1..(n + 1) : i = n + 1 \/ (i \in 1..n /\ i \in 1..Len(toBridge))
  BY <1>1
<1>3. Queued' \subseteq Queued \union {m}
  BY <1>1, <1>2 DEF Extends, Queued
<1>4. m \in Queued'
  BY <1>1 DEF Extends, Queued
<1>5. n = Len(toBridge) => Queued \subseteq Queued'
  BY <1>1 DEF Extends, Queued
<1> QED BY <1>1, <1>3, <1>4, <1>5

\* Python accepts a completion.
Accepts(m) ==
    /\ phase = "waiting" /\ m \in Completions /\ m \in toPython
    /\ m.key = generation /\ Accept(m)
    /\ UNCHANGED <<generation, reconnects>>

\* What a step does to the queue and to what Python knows of its resets.
SamePython == UNCHANGED <<generation, accepted, reconnects>>

LEMMA QueueCases ==
    ASSUME TypeOK, [Next]_vars
    PROVE  \/ UNCHANGED toBridge /\ SamePython
           \/ toBridge # <<>> /\ toBridge' = Tail(toBridge) /\ SamePython
           \/ \E k \in Keys : Submit(k)
           \/ \E m : Accepts(m)
           \/ Reconnect
<1>1. CASE BridgeTakesMessage
  BY <1>1 DEF BridgeTakesMessage, PythonReady, ReceivePythonReset, ReceivePythonResetAck,
     HandledBridgeMessage, SamePython, python
<1>2. CASE \/ UnityReady \/ RetryPendingResets \/ UnityRestart \/ Lose
           \/ \E m \in fromUnity : ReceiveUnityResetComplete(m)
           \/ \E k \in Keys : UnityTakesRequest(k)
  BY <1>2 DEF UnityReady, RetryPendingResets, UnityRestart, Lose,
     ReceiveUnityResetComplete, UnityTakesRequest, SamePython, python, links
<1>3. CASE \/ \E m \in toPython : PutAside(m)
           \/ WaitTimesOut \/ LookupSucceeds \/ LookupFails \/ UNCHANGED vars
  BY <1>3 DEF PutAside, WaitTimesOut, LookupSucceeds, LookupFails, SamePython, vars,
     python, links
<1>4. CASE \E m \in toPython : TakeCompletion(m)
  BY <1>4 DEF TakeCompletion, Accepts, TypeOK
<1> QED BY <1>1, <1>2, <1>3, <1>4 DEF Next

\* Requests go to Unity for pending resets only.
LEMMA ToUnityStep ==
    ASSUME TypeOK, [Next]_vars
    PROVE  \A k \in toUnity' : k \in toUnity \/ (k \in Keys /\ Known(k)')
<1> SUFFICES \A j \in toUnity' : j \in toUnity \/ j \in pending'
  BY TypeStep DEF Known, TypeOK
<1>1. ASSUME NEW k \in Keys, ReceivePythonReset(k)
      PROVE  \A j \in toUnity' : j \in toUnity \/ j \in pending'
  BY <1>1 DEF ReceivePythonReset, ReplayRetired, RepeatPending, OpenReset, ForwardResets
<1>2. CASE RetryPendingResets
  BY <1>2 DEF RetryPendingResets, ForwardResets, gateway
<1>3. CASE PythonReady \/ UnityReady \/ UnityRestart \/ Lose
  BY <1>3 DEF PythonReady, UnityReady, UnityRestart, Lose, links
<1>4. ASSUME NEW k \in Keys, ReceivePythonResetAck(k) \/ UnityTakesRequest(k) \/ Submit(k)
      PROVE  toUnity' \subseteq toUnity
  BY <1>4 DEF ReceivePythonResetAck, UnityTakesRequest, Submit
<1>5. ASSUME NEW m \in fromUnity, ReceiveUnityResetComplete(m)
      PROVE  toUnity' \subseteq toUnity
  BY <1>5 DEF ReceiveUnityResetComplete
<1>6. CASE \/ \E m \in toPython : TakeCompletion(m) \/ PutAside(m)
           \/ WaitTimesOut \/ LookupSucceeds \/ LookupFails \/ Reconnect
           \/ UNCHANGED vars
  BY <1>6 DEF TakeCompletion, PutAside, WaitTimesOut, LookupSucceeds,
     LookupFails, Reconnect, links, vars
<1>7. CASE \/ \E m \in fromUnity : ReceiveUnityResetComplete(m)
           \/ \E k \in Keys : UnityTakesRequest(k) \/ Submit(k)
  BY <1>4, <1>5, <1>7
<1>8. CASE BridgeTakesMessage
  BY <1>1, <1>3, <1>4, <1>8 DEF BridgeTakesMessage
<1> QED BY <1>2, <1>3, <1>6, <1>7, <1>8 DEF Next

LEMMA QueueStep ==
    ASSUME TypeOK, StoreConsistent, QueueOK, [Next]_vars
    PROVE  QueueOK'
<1> USE ResetLifecycleAssumption
<1>0. /\ generation \in Nat /\ \A k \in Keys : k \in Nat
      /\ \A m \in Messages : m = Ready \/ m.key \in Nat
      /\ \A m \in Queued : m \in Messages
  BY Shapes DEF TypeOK, Keys, Queued
<1>1. /\ \A i, j \in 1..Len(toBridge) :
           i < j => toBridge[j] = Ready \/ toBridge[i].key <= toBridge[j].key
      /\ \A m \in Queued : m.key <= generation
      /\ \A m \in Queued, k \in Keys : Known(k) => m = Ready \/ k <= m.key
      /\ \A k \in Keys : Known(k) \/ k \in toUnity => k <= generation
  BY DEF QueueOK
<1>2. \A k \in Keys : Known(k)' => Known(k) \/ StoreOpened(k)
  BY BorneStep
<1>3. \A k \in Keys : StoreOpened(k) =>
        /\ toBridge # <<>> /\ toBridge' = Tail(toBridge) /\ Head(toBridge) = Request(k)
        /\ Request(k) \in Queued /\ k <= generation
  <2> SUFFICES ASSUME NEW k \in Keys, StoreOpened(k)
               PROVE  /\ toBridge # <<>> /\ toBridge' = Tail(toBridge)
                      /\ Head(toBridge) = Request(k)
                      /\ Request(k) \in Queued /\ k <= generation
    OBVIOUS
  <2>1. toBridge # <<>> /\ toBridge' = Tail(toBridge) /\ Head(toBridge) = Request(k)
    BY DEF StoreOpened, HandledBridgeMessage
  <2>2. Request(k) \in Queued
    BY <2>1, QueueTail
  <2> QED BY <1>1, <2>1, <2>2, Shapes
<1>4. \A k \in Keys : Known(k)' \/ k \in toUnity' => k <= generation
  BY <1>1, <1>2, <1>3, ToUnityStep
<1>5. CASE UNCHANGED toBridge /\ SamePython
  <2>1. ~ \E k \in Keys : StoreOpened(k)
    <3>1. toBridge = <<>> \/ Len(Tail(toBridge)) # Len(toBridge)
      BY DEF TypeOK
    <3> QED BY <1>3, <1>5, <3>1
  <2>2. Queued' = Queued
    BY <1>5 DEF Queued
  <2> QED BY <1>1, <1>2, <1>4, <1>5, <2>1, <2>2 DEF QueueOK, SamePython
<1>6. CASE toBridge # <<>> /\ toBridge' = Tail(toBridge) /\ SamePython
  <2>1. /\ Queued' \subseteq Queued
        /\ Len(toBridge') \in Nat /\ Len(toBridge) \in Nat
        /\ \A i \in 1..Len(toBridge') :
             i + 1 \in 1..Len(toBridge) /\ toBridge'[i] = toBridge[i + 1]
    BY <1>6, QueueTail
  <2>2. \A i, j \in 1..Len(toBridge') :
          i < j => toBridge'[j] = Ready \/ toBridge'[i].key <= toBridge'[j].key
    BY <1>1, <2>1
  <2>3. \A m \in Queued' : m = Ready \/ Head(toBridge).key <= m.key
    <3>1. \A i \in 1..Len(toBridge') :
            toBridge[i + 1] = Ready \/ toBridge[1].key <= toBridge[i + 1].key
      BY <1>1, <2>1
    <3>2. Head(toBridge) = toBridge[1]
      BY <1>6 DEF TypeOK
    <3> QED BY <2>1, <3>1, <3>2 DEF Queued
  <2>4. \A m \in Queued', k \in Keys : Known(k)' => m = Ready \/ k <= m.key
    BY <1>1, <1>2, <1>3, <2>1, <2>3, Shapes
  <2> QED BY <1>1, <1>4, <1>6, <2>1, <2>2, <2>4 DEF QueueOK, SamePython
<1>7. ASSUME NEW n, NEW m \in Messages, Extends(n, m), generation' \in Nat,
             generation <= generation', m = Ready \/ m.key = generation',
             m.key <= generation', \A k \in Keys : Known(k)' => Known(k)
      PROVE  QueueOK'
  <2>1. /\ Queued' \subseteq Queued \union {m}
        /\ n \in Nat /\ Len(toBridge) \in Nat /\ n <= Len(toBridge)
    BY <1>7, QueueExtended
  <2>2. \A x \in Queued' : x.key <= generation'
    <3>1. \A x \in Queued : x.key \in Nat
      BY <1>0, Shapes
    <3> QED BY <1>0, <1>1, <1>7, <2>1, <3>1
  <2>3. \A i, j \in 1..Len(toBridge') :
          i < j => toBridge'[j] = Ready \/ toBridge'[i].key <= toBridge'[j].key
    <3> SUFFICES ASSUME NEW i \in 1..Len(toBridge'), NEW j \in 1..Len(toBridge'), i < j
                 PROVE  toBridge'[j] = Ready \/ toBridge'[i].key <= toBridge'[j].key
      OBVIOUS
    <3>1. i \in 1..n /\ toBridge'[i] = toBridge[i] /\ i \in 1..Len(toBridge)
      BY <1>7, <2>1 DEF Extends
    <3>2. CASE j = n + 1
      <4>1. toBridge'[j] = m
        BY <1>7, <3>2 DEF Extends
      <4>2. toBridge[i] \in Queued
        BY <3>1 DEF Queued
      <4>3. toBridge[i].key \in Nat /\ toBridge[i].key <= generation
        BY <1>0, <1>1, <4>2, Shapes
      <4> QED BY <1>0, <1>7, <3>1, <4>1, <4>3
    <3>3. CASE j # n + 1
      <4>1. j \in 1..n /\ toBridge'[j] = toBridge[j] /\ j \in 1..Len(toBridge)
        BY <1>7, <2>1, <3>3 DEF Extends
      <4> QED BY <1>1, <3>1, <4>1
    <3> QED BY <3>2, <3>3
  <2>4. \A x \in Queued', k \in Keys : Known(k)' => x = Ready \/ k <= x.key
    <3>1. \A k \in Keys : Known(k)' => Known(k) /\ k <= generation /\ k <= generation'
      BY <1>0, <1>1, <1>7
    <3> QED BY <1>1, <1>7, <2>1, <3>1
  <2>5. \A k \in Keys : Known(k)' \/ k \in toUnity' => k <= generation'
    BY <1>0, <1>4, <1>7
  <2> QED BY <2>2, <2>3, <2>4, <2>5 DEF QueueOK
<1>8. ASSUME NEW k \in Keys, Submit(k)
      PROVE  QueueOK'
  <2>1. UNCHANGED <<pending, terminal>> /\ toBridge' = Append(toBridge, Request(k))
    BY <1>8 DEF Submit, gateway
  <2>2. generation' = k /\ generation <= generation' /\ generation' \in Nat
    BY <1>0, <1>8 DEF Submit
  <2>3. Extends(Len(toBridge), Request(k))
    BY <2>1, ExtendsAppend, Shapes
  <2>4. \A j \in Keys : Known(j)' => Known(j)
    BY <2>1 DEF Known
  <2> QED BY <1>7, <2>2, <2>3, <2>4, Shapes
<1>9. ASSUME NEW m, Accepts(m)
      PROVE  QueueOK'
  <2>1. /\ generation' = generation /\ generation \in Keys
        /\ toBridge' = Append(toBridge, Ack(generation))
    BY <1>9, Shapes DEF Accepts, Accept
  <2>2. \A k \in Keys : ~StoreOpened(k)
    <3>1. Len(toBridge') = Len(toBridge) + 1 /\ Len(toBridge) \in Nat
      BY <2>1, Shapes DEF TypeOK
    <3>2. toBridge # <<>> => Len(Tail(toBridge)) = Len(toBridge) - 1
      BY DEF TypeOK
    <3> QED BY <1>3, <3>1, <3>2
  <2>3. Extends(Len(toBridge), Ack(generation))
    BY <2>1, ExtendsAppend, Shapes
  <2> QED BY <1>0, <1>2, <1>7, <2>1, <2>2, <2>3, Shapes
<1>10. CASE Reconnect
  <2>1. UNCHANGED <<pending, terminal, generation>>
    BY <1>10 DEF Reconnect, gateway
  <2>2. PICK n \in 0..Len(toBridge) : toBridge' = Append(SubSeq(toBridge, 1, n), Ready)
    BY <1>10 DEF Reconnect
  <2>3. Extends(n, Ready)
    BY <2>2, ExtendsPrefix, Shapes
  <2>4. \A j \in Keys : Known(j)' => Known(j)
    BY <2>1 DEF Known
  <2> QED BY <1>0, <1>7, <2>1, <2>3, <2>4, Shapes
<1> QED BY <1>5, <1>6, <1>8, <1>9, <1>10, QueueCases
-----------------------------------------------------------------------------
Landed(p) == p \in {"looking", "flying"}

\* The gateway has this completion after the step.
Given(m) ==
    m \in Completions /\ (complete'[m.key] = m.state \/ terminal'[m.key] = m.state)

LEMMA LooseAre ==
    /\ Loose = toPython \union buffered
                 \union (IF Landed(phase) THEN {Completion(generation, observed)} ELSE {})
    /\ Loose' = toPython' \union buffered'
                  \union (IF Landed(phase') THEN {Completion(generation', observed')} ELSE {})
<1>1. Loose = toPython \union buffered
                 \union (IF Landed(phase) THEN {Completion(generation, observed)} ELSE {})
  BY DEF Loose, Landed
<1>2. Loose' = toPython' \union buffered'
                  \union (IF Landed(phase') THEN {Completion(generation', observed')} ELSE {})
  BY DEF Loose, Landed
<1> QED BY <1>1, <1>2

\* A completion is new to the client only if the gateway has just sent it, and
\* the client has an observation only of a reset it has accepted.
LEMMA LooseStep ==
    ASSUME TypeOK, [Next]_vars
    PROVE  /\ \A m \in Loose' : m \in Loose \/ Given(m)
           /\ \/ UNCHANGED accepted
              \/ \E m \in Loose : Accepts(m)
           /\ Landed(phase') =>
                \/ Landed(phase) /\ UNCHANGED <<generation, observed, accepted>>
                \/ \E m \in Loose : Accepts(m) /\ observed' = m.state
<1> DEFINE Client == UNCHANGED <<phase, generation, observed, buffered, accepted>>
           Goal == /\ \A m \in Loose' : m \in Loose \/ Given(m)
                   /\ \/ UNCHANGED accepted
                      \/ \E m \in Loose : Accepts(m)
                   /\ Landed(phase') =>
                        \/ Landed(phase) /\ UNCHANGED <<generation, observed, accepted>>
                        \/ \E m \in Loose : Accepts(m) /\ observed' = m.state
<1> SUFFICES Goal
  OBVIOUS
<1>1. ASSUME Client, \A m \in toPython' : m \in toPython \/ Given(m)
      PROVE  Goal
  <2>1. UNCHANGED <<phase, generation, observed, buffered, accepted>>
    BY <1>1
  <2>2. Landed(phase') = Landed(phase) /\ Completion(generation', observed') = Completion(generation, observed)
    BY <2>1
  <2>3. \A m \in Loose' : m \in Loose \/ Given(m)
    <3> SUFFICES ASSUME NEW m \in Loose' PROVE m \in Loose \/ Given(m)
      OBVIOUS
    <3>1. CASE m \in toPython'
      BY <1>1, <3>1, LooseAre
    <3>2. CASE m \in buffered
      BY <3>2, LooseAre
    <3>3. CASE Landed(phase) /\ m = Completion(generation, observed)
      BY <3>3, LooseAre
    <3> QED BY <2>1, <2>2, <3>1, <3>2, <3>3, LooseAre
  <2>4. Landed(phase') => Landed(phase) /\ UNCHANGED <<generation, observed, accepted>>
    BY <2>1, <2>2
  <2> QED BY <2>1, <2>3, <2>4
<1>2. ASSUME NEW ks \in SUBSET CompletedKeys, SendCompletions(ks), UNCHANGED complete
      PROVE  \A m \in toPython' : m \in toPython \/ Given(m)
  BY <1>2, SendTypes DEF Given
<1>3. CASE PythonReady \/ RetryPendingResets
  <2>1. UNCHANGED complete /\ SendCompletions(CompletedKeys) /\ Client
    BY <1>3 DEF PythonReady, RetryPendingResets, gateway, python
  <2> HIDE DEF Client, Goal
  <2> QED BY <1>1, <1>2, <2>1
<1>4. ASSUME NEW k \in Keys, ReceivePythonReset(k)
      PROVE  Goal
  <2>1. UNCHANGED <<complete, terminal>> /\ Client
    BY <1>4 DEF ReceivePythonReset, python
  <2>2. CASE ReplayRetired(k)
    <3>1. /\ Completion(k, terminal[k]) \in Completions
          /\ Completion(k, terminal[k]).key = k
          /\ Completion(k, terminal[k]).state = terminal[k]
      BY <2>2, Shapes DEF ReplayRetired, TypeOK, States, NoState
    <3>2. \A m \in toPython' : m \in toPython \/ m = Completion(k, terminal[k])
      BY <2>2 DEF ReplayRetired
    <3>3. \A m \in toPython' : m \in toPython \/ Given(m)
      BY <2>1, <3>1, <3>2 DEF Given
    <3> HIDE DEF Client, Goal
    <3> QED BY <1>1, <2>1, <3>3
  <2>3. CASE RepeatPending(k)
    <3>1. UNCHANGED toPython \/ (k \in CompletedKeys /\ SendCompletions({k}))
      BY <2>3 DEF RepeatPending, CompletedKeys
    <3>2. \A m \in toPython' : m \in toPython \/ Given(m)
      BY <1>2, <2>1, <3>1
    <3> HIDE DEF Client, Goal
    <3> QED BY <1>1, <2>1, <3>2
  <2>4. CASE OpenReset(k)
    <3>1. UNCHANGED toPython
      BY <2>4 DEF OpenReset
    <3> HIDE DEF Client, Goal
    <3> QED BY <1>1, <2>1, <3>1
  <2> QED BY <1>4, <2>2, <2>3, <2>4 DEF ReceivePythonReset
<1>5. ASSUME NEW n \in fromUnity, ReceiveUnityResetComplete(n)
      PROVE  Goal
  <2>1. n \in Completions /\ n.key \in Keys
    BY Shapes DEF TypeOK
  <2>2. UNCHANGED toPython \/ ((\A m \in toPython' : m \in toPython \/ m = n)
                               /\ complete'[n.key] = n.state)
    BY <1>5, <2>1 DEF ReceiveUnityResetComplete, StoreCompletion, TypeOK
  <2>3. \A m \in toPython' : m \in toPython \/ Given(m)
    BY <2>1, <2>2 DEF Given
  <2>4. Client
    BY <1>5 DEF ReceiveUnityResetComplete, python
  <2> HIDE DEF Client, Goal
  <2> QED BY <1>1, <2>3, <2>4
<1>6. CASE \/ UnityReady \/ UnityRestart \/ Lose \/ UNCHANGED vars
  <2>1. toPython' \subseteq toPython /\ Client
    BY <1>6 DEF UnityReady, UnityRestart, Lose, vars, links, python
  <2> HIDE DEF Client, Goal
  <2> QED BY <1>1, <2>1
<1>7. ASSUME NEW k \in Keys, UnityTakesRequest(k) \/ ReceivePythonResetAck(k)
      PROVE  Goal
  <2>1. toPython' = toPython /\ Client
    BY <1>7 DEF UnityTakesRequest, ReceivePythonResetAck, python
  <2> HIDE DEF Client, Goal
  <2> QED BY <1>1, <2>1
<1>8. ASSUME toPython' \subseteq toPython, buffered' = buffered, UNCHANGED accepted,
             ~Landed(phase')
      PROVE  Goal
  BY <1>8, LooseAre
<1>9. ASSUME NEW k \in Keys, Submit(k)
      PROVE  Goal
  <2>1. /\ toPython' = toPython /\ buffered' = buffered /\ UNCHANGED accepted
        /\ ~Landed(phase')
    BY <1>9 DEF Submit, Landed
  <2> HIDE DEF Goal
  <2> QED BY <1>8, <2>1
<1>10. CASE WaitTimesOut \/ LookupFails
  <2>1. /\ toPython' = toPython /\ buffered' = buffered /\ UNCHANGED accepted
        /\ ~Landed(phase')
    BY <1>10 DEF WaitTimesOut, LookupFails, links, Landed
  <2> HIDE DEF Goal
  <2> QED BY <1>8, <2>1
<1>11. CASE LookupSucceeds
  <2>1. /\ toPython' = toPython /\ buffered' = buffered /\ Landed(phase)
        /\ UNCHANGED <<generation, observed, accepted>>
    BY <1>11 DEF LookupSucceeds, links, Landed
  <2> QED BY <2>1, LooseAre
<1>12. CASE Reconnect
  <2>1. toPython' = {} /\ Client
    BY <1>12 DEF Reconnect
  <2> HIDE DEF Client, Goal
  <2> QED BY <1>1, <2>1
<1>13. ASSUME NEW m \in toPython, Accepts(m),
              toPython' \subseteq toPython, buffered' \subseteq buffered
       PROVE  Goal
  <2>1. /\ observed' = m.state /\ generation' = m.key /\ m = Completion(m.key, m.state)
        /\ m \in Loose
    BY <1>13, Shapes, LooseAre DEF Accepts, Accept
  <2>2. \A n \in Loose' : n \in Loose
    BY <1>13, <2>1, LooseAre
  <2> QED BY <1>13, <2>1, <2>2
<1>15. ASSUME NEW m \in toPython, TakeCompletion(m)
       PROVE  Goal
  <2>1. Accepts(m) /\ toPython' \subseteq toPython /\ buffered' = buffered
    BY <1>15 DEF TakeCompletion, Accepts, TypeOK
  <2> HIDE DEF Goal
  <2> QED BY <1>13, <2>1
<1>16. ASSUME NEW m \in toPython, PutAside(m)
       PROVE  Goal
  <2>1. /\ toPython' \subseteq toPython /\ buffered' \subseteq buffered \union {m}
        /\ UNCHANGED <<generation, observed, accepted>>
        /\ phase' = phase \/ ~Landed(phase')
    BY <1>16 DEF PutAside, Landed
  <2> QED BY <2>1, LooseAre
<1> HIDE DEF Goal
<1> QED
  BY <1>3, <1>4, <1>5, <1>6, <1>7, <1>9, <1>10, <1>11, <1>12, <1>15, <1>16
     DEF Next, BridgeTakesMessage

\* Two completions of a reset are one: what the gateway has is what it had when
\* the client was told.
LEMMA CopiesStep ==
    ASSUME TypeOK, StoreConsistent, QueueOK, CopiesOK, [Next]_vars
    PROVE  CopiesOK'
<1>1. TypeOK' /\ StoreConsistent'
  BY TypeStep, StoreStep
<1>2. /\ \A m \in Completions : m.key \in Keys /\ m.state # NoState
      /\ generation \in Nat
  BY Shapes DEF States, TypeOK
<1>3. \A m \in Loose' : m \in Completions /\ Borne(m)'
  <2>1. \A m \in Loose : m \in Completions /\ Borne(m)
    BY DEF CopiesOK
  <2> QED BY <2>1, BorneStep, LooseStep DEF Given, Borne
<1>4. \A m, n \in Loose' : m.key = n.key => m = n
  <2>1. ASSUME NEW m \in Completions, NEW n \in Completions, Borne(m)', Given(n),
               m.key = n.key
        PROVE  m = n
    <3>1. n.key \in Keys /\ m.state # NoState /\ n.state # NoState
      BY <1>2
    <3>2. terminal'[n.key] = NoState \/ (complete'[n.key] = NoState /\ n.key \notin pending')
      BY <1>1, <3>1 DEF StoreConsistent, TombstonedKeys
    <3>3. complete'[n.key] # NoState => n.key \in pending'
      BY <1>1, <3>1 DEF StoreConsistent
    <3>4. ~Forgotten(n.key)'
      BY <2>1, <3>1, <3>3 DEF Given, Forgotten
    <3>5. m.state = n.state
      BY <2>1, <3>1, <3>2, <3>4 DEF Given, Borne
    <3> QED BY <2>1, <3>5, Shapes
  <2>2. \A m, n \in Loose : m.key = n.key => m = n
    BY DEF CopiesOK
  <2> QED BY <1>3, <2>1, <2>2, LooseStep DEF Given
<1>5. Landed(phase') => generation' \in accepted'
  <2>1. Landed(phase) => generation \in accepted
    BY DEF CopiesOK, Landed
  <2> QED BY <2>1, LooseStep DEF Accepts, Accept
<1>6. \A k \in accepted' :
        /\ k <= generation'
        /\ complete'[k] # NoState \/ terminal'[k] # NoState \/ Forgotten(k)'
  <2>1. \A k \in accepted : /\ k \in Keys /\ k <= generation
                            /\ complete[k] # NoState \/ terminal[k] # NoState \/ Forgotten(k)
    BY DEF CopiesOK, TypeOK
  <2>2. generation <= generation'
    <3>1. ASSUME NEW k \in Keys, Submit(k) PROVE generation <= generation'
      BY <1>2, <3>1 DEF Submit
    <3>2. \A m : Accepts(m) => generation' = generation
      BY DEF Accepts
    <3>3. Reconnect => generation' = generation
      BY DEF Reconnect
    <3> QED BY <1>2, <3>1, <3>2, <3>3, QueueCases DEF SamePython
  <2>3. \A k \in accepted :
          complete'[k] # NoState \/ terminal'[k] # NoState \/ Forgotten(k)'
    BY <2>1, BorneStep
  <2>4. \A k \in accepted : k <= generation'
    <3>1. generation' \in Nat /\ \A k \in accepted : k \in Nat
      BY <1>1, ResetLifecycleAssumption DEF TypeOK, Keys
    <3> QED BY <1>2, <2>1, <2>2, <3>1
  <2>5. CASE UNCHANGED accepted
    BY <2>3, <2>4, <2>5
  <2>6. ASSUME NEW m \in Loose, Accepts(m)
        PROVE  /\ accepted' = accepted \union {m.key} /\ generation' = m.key
               /\ m.key \in Keys /\ Borne(m)' /\ m.state # NoState
    BY <1>2, <2>6, BorneStep DEF Accepts, Accept, CopiesOK
  <2>7. ASSUME NEW m \in Loose, Accepts(m)
        PROVE  \A k \in accepted' :
                 /\ k <= generation'
                 /\ complete'[k] # NoState \/ terminal'[k] # NoState \/ Forgotten(k)'
    <3>1. m.key <= generation'
      BY <2>6, <2>7 DEF Keys
    <3>2. complete'[m.key] # NoState \/ terminal'[m.key] # NoState \/ Forgotten(m.key)'
      BY <2>6, <2>7 DEF Borne
    <3> QED BY <2>3, <2>4, <2>6, <2>7, <3>1, <3>2
  <2> QED BY <2>5, <2>7, LooseStep
<1> QED BY <1>3, <1>4, <1>5, <1>6 DEF CopiesOK, Landed

\* Nothing is put aside that Python could still wait for.
LEMMA BufferStep ==
    ASSUME TypeOK, StoreConsistent, QueueOK, CopiesOK, BufferedIsOver, [Next]_vars
    PROVE  BufferedIsOver'
<1>1. /\ generation \in Nat
      /\ \A m \in buffered : m.key \in Nat /\ m.key <= generation
      /\ \A m \in buffered : m.key = generation => phase = "flying"
  BY Shapes, ResetLifecycleAssumption DEF BufferedIsOver, TypeOK, Keys
<1>2. CASE UNCHANGED <<phase, generation, buffered>>
  BY <1>2 DEF BufferedIsOver
<1>3. ASSUME NEW k \in Keys, Submit(k)
      PROVE  BufferedIsOver'
  <2>1. /\ buffered' = buffered /\ generation' = k
        /\ k = generation + 1 \/ (k = generation /\ phase = "idle")
    BY <1>3 DEF Submit
  <2> QED BY <1>1, <2>1 DEF BufferedIsOver
<1>4. CASE \/ WaitTimesOut \/ LookupSucceeds \/ LookupFails
           \/ \E m \in toPython : TakeCompletion(m)
  <2>1. /\ UNCHANGED <<generation, buffered>> /\ phase \in {"waiting", "looking"}
    BY <1>4 DEF WaitTimesOut, LookupSucceeds, LookupFails, TakeCompletion
  <2> QED BY <1>1, <2>1 DEF BufferedIsOver
<1>5. ASSUME NEW m \in toPython, PutAside(m)
      PROVE  BufferedIsOver'
  <2>1. m \in Loose /\ \A n \in buffered : n \in Loose
    BY LooseAre
  <2>2. ~ \E n \in buffered : n.key = m.key /\ n # m
    BY <2>1 DEF CopiesOK
  <2>3. /\ buffered' = buffered \union {m} /\ UNCHANGED <<phase, generation>>
        /\ m.key = generation => phase = "flying"
    BY <1>5, <2>2 DEF PutAside
  <2>4. m.key <= generation
    <3>1. /\ m.key \in Keys /\ m.state # NoState /\ Borne(m)
          /\ \A k \in Keys : k \in Nat
      BY <2>1, Shapes, ResetLifecycleAssumption DEF CopiesOK, States, Keys
    <3>2. CASE Known(m.key)
      BY <3>1, <3>2 DEF QueueOK
    <3>3. CASE Forgotten(m.key)
      <4>1. PICK j \in Keys : Known(j) /\ m.key < j
        BY <3>3 DEF Forgotten, Known
      <4>2. j <= generation
        BY <4>1 DEF QueueOK
      <4> QED BY <1>1, <3>1, <4>1, <4>2
    <3>4. Known(m.key) \/ Forgotten(m.key)
      BY <3>1 DEF Borne, Known, StoreConsistent
    <3> QED BY <3>2, <3>3, <3>4
  <2> QED BY <1>1, <2>3, <2>4 DEF BufferedIsOver
<1>6. CASE BridgeTakesMessage
  BY <1>2, <1>6 DEF BridgeTakesMessage, PythonReady, ReceivePythonReset,
     ReceivePythonResetAck, python
<1>7. CASE \/ UnityReady \/ RetryPendingResets \/ UnityRestart \/ Lose \/ Reconnect
           \/ \E m \in fromUnity : ReceiveUnityResetComplete(m)
           \/ \E k \in Keys : UnityTakesRequest(k)
           \/ UNCHANGED vars
  BY <1>2, <1>7 DEF UnityReady, RetryPendingResets, UnityRestart, Lose, Reconnect,
     ReceiveUnityResetComplete, UnityTakesRequest, python, vars
<1> QED BY <1>3, <1>4, <1>5, <1>6, <1>7 DEF Next
-----------------------------------------------------------------------------
\* What a step does to the queue and to what is pending.
LEMMA AckCases ==
    ASSUME TypeOK, [Next]_vars
    PROVE  \/ UNCHANGED toBridge /\ SamePython /\ UNCHANGED pending
           \/ HandledBridgeMessage(Ready) /\ SamePython /\ UNCHANGED pending
           \/ \E k \in Keys : /\ HandledBridgeMessage(Request(k)) /\ SamePython
                              /\ UNCHANGED pending \/ StoreOpened(k)
           \/ \E k \in Keys : /\ HandledBridgeMessage(Ack(k)) /\ SamePython
                              /\ pending' \subseteq pending
                              /\ k \in CompletedKeys => k \notin pending'
           \/ /\ UNCHANGED pending
              /\ \/ \E k \in Keys : Submit(k)
                 \/ \E m : Accepts(m)
                 \/ Reconnect
<1>1. CASE PythonReady
  BY <1>1 DEF PythonReady, SamePython, gateway, python
<1>2. ASSUME NEW k \in Keys, ReceivePythonReset(k)
      PROVE  /\ HandledBridgeMessage(Request(k)) /\ SamePython
             /\ UNCHANGED pending \/ StoreOpened(k)
  BY <1>2 DEF ReceivePythonReset, ReplayRetired, RepeatPending, OpenReset, StoreOpened,
     Known, SamePython, python
<1>3. ASSUME NEW k \in Keys, ReceivePythonResetAck(k)
      PROVE  /\ HandledBridgeMessage(Ack(k)) /\ SamePython
             /\ pending' \subseteq pending
             /\ k \in CompletedKeys => k \notin pending'
  BY <1>3 DEF ReceivePythonResetAck, Retire, SamePython, python
<1>4. CASE \/ UnityReady \/ RetryPendingResets \/ UnityRestart \/ Lose
           \/ \E m \in fromUnity : ReceiveUnityResetComplete(m)
           \/ \E k \in Keys : UnityTakesRequest(k)
  BY <1>4 DEF UnityReady, RetryPendingResets, UnityRestart, Lose,
     ReceiveUnityResetComplete, UnityTakesRequest, SamePython, python, links, gateway
<1>5. CASE \/ \E m \in toPython : PutAside(m)
           \/ WaitTimesOut \/ LookupSucceeds \/ LookupFails \/ UNCHANGED vars
  BY <1>5 DEF PutAside, WaitTimesOut, LookupSucceeds, LookupFails, SamePython, vars,
     python, links, gateway
<1>6. CASE \E m \in toPython : TakeCompletion(m)
  BY <1>6 DEF TakeCompletion, Accepts, TypeOK, gateway
<1>7. CASE Reconnect \/ \E k \in Keys : Submit(k)
  BY <1>7 DEF Reconnect, Submit, gateway
<1>8. CASE BridgeTakesMessage
  BY <1>1, <1>2, <1>3, <1>8 DEF BridgeTakesMessage
<1> QED BY <1>4, <1>5, <1>6, <1>7, <1>8 DEF Next

\* An acknowledgement leaves the queue only by retiring its reset.
LEMMA AcksStep ==
    ASSUME TypeOK, StoreConsistent, QueueOK, CopiesOK, AcksOK, [Next]_vars
    PROVE  AcksOK'
<1> SUFFICES ASSUME reconnects' = 0, NEW j \in Keys, j \in accepted', j \in pending'
             PROVE  Ack(j) \in Queued'
  BY TypeStep DEF AcksOK, TypeOK
<1>1. j \in accepted =>
        j \in CompletedKeys \/ (j \notin pending /\ (terminal[j] # NoState \/ Forgotten(j)))
  BY DEF CopiesOK, CompletedKeys, StoreConsistent, TombstonedKeys, Forgotten
<1>2. reconnects = 0 /\ j \in accepted /\ j \in pending => Ack(j) \in Queued
  BY DEF AcksOK
<1>3. ASSUME NEW m, HandledBridgeMessage(m), SamePython, j \in pending, m # Ack(j)
      PROVE  Ack(j) \in Queued'
  BY <1>2, <1>3, QueueTail DEF HandledBridgeMessage, SamePython
<1>4. CASE UNCHANGED toBridge /\ SamePython /\ UNCHANGED pending
  BY <1>2, <1>4 DEF Queued, SamePython
<1>5. CASE HandledBridgeMessage(Ready) /\ SamePython /\ UNCHANGED pending
  BY <1>3, <1>5, Shapes
<1>6. ASSUME NEW k \in Keys, HandledBridgeMessage(Request(k)), SamePython,
             UNCHANGED pending \/ StoreOpened(k)
      PROVE  Ack(j) \in Queued'
  <2>1. CASE j \in pending
    BY <1>3, <1>6, <2>1, Shapes
  <2>2. CASE j \notin pending
    <3>1. j = k /\ ~Known(k)
      BY <1>6, <2>2 DEF StoreOpened
    <3>2. Request(j) \in Queued
      BY <1>6, <3>1, QueueTail DEF HandledBridgeMessage
    <3>3. Forgotten(j)
      BY <1>1, <1>6, <2>2, <3>1 DEF SamePython, Known, CompletedKeys
    <3>4. PICK i \in Keys : Known(i) /\ j < i
      BY <3>3 DEF Forgotten, Known
    <3>5. i <= j
      BY <3>2, <3>4, Shapes DEF QueueOK
    <3> QED BY <3>4, <3>5 DEF Keys
  <2> QED BY <2>1, <2>2
<1>7. ASSUME NEW k \in Keys, HandledBridgeMessage(Ack(k)), SamePython,
             pending' \subseteq pending, k \in CompletedKeys => k \notin pending'
      PROVE  Ack(j) \in Queued'
  <2>1. j \in pending /\ j # k
    BY <1>1, <1>7 DEF SamePython
  <2> QED BY <1>3, <1>7, <2>1, Shapes
<1>8. ASSUME NEW n, NEW m, Extends(n, m), n = Len(toBridge),
             UNCHANGED <<pending, reconnects>>, j \in accepted \/ m = Ack(j)
      PROVE  Ack(j) \in Queued'
  BY <1>2, <1>8, QueueExtended
<1>9. ASSUME NEW k \in Keys, Submit(k), UNCHANGED pending
      PROVE  Ack(j) \in Queued'
  <2>1. UNCHANGED <<accepted, reconnects>> /\ Extends(Len(toBridge), Request(k))
    BY <1>9, ExtendsAppend, Shapes DEF Submit
  <2> QED BY <1>8, <1>9, <2>1
<1>10. ASSUME NEW m, Accepts(m), UNCHANGED pending
       PROVE  Ack(j) \in Queued'
  <2>1. m.key \in Keys /\ UNCHANGED reconnects /\ accepted' = accepted \union {m.key}
        /\ Extends(Len(toBridge), Ack(m.key))
    BY <1>10, ExtendsAppend, Shapes DEF Accepts, Accept
  <2> QED BY <1>8, <1>10, <2>1
<1>11. ~Reconnect
  BY DEF Reconnect, TypeOK
<1> QED BY <1>4, <1>5, <1>6, <1>7, <1>9, <1>10, <1>11, AckCases
-----------------------------------------------------------------------------
\* What a step does to Unity and its completions.
LEMMA UnityCases ==
    ASSUME TypeOK, [Next]_vars
    PROVE  \/ UNCHANGED <<world, performed, unityRestarts>> /\ fromUnity' \subseteq fromUnity
           \/ \E k \in toUnity : UnityTakesRequest(k)
           \/ unityRestarts' # 0
<1> DEFINE Same == /\ UNCHANGED <<world, performed, unityRestarts>>
                   /\ fromUnity' \subseteq fromUnity
<1>1. CASE BridgeTakesMessage
  BY <1>1 DEF BridgeTakesMessage, PythonReady, ReceivePythonReset, ReceivePythonResetAck,
     unity
<1>2. CASE UnityReady \/ RetryPendingResets \/ Lose \/ UNCHANGED vars
  BY <1>2 DEF UnityReady, RetryPendingResets, Lose, unity, links, vars
<1>3. CASE UnityRestart
  BY <1>3 DEF UnityRestart, TypeOK
<1>4. CASE \/ \E m \in fromUnity : ReceiveUnityResetComplete(m)
           \/ \E k \in Keys : Submit(k)
  BY <1>4 DEF ReceiveUnityResetComplete, Submit, unity
<1>5. CASE \/ \E m \in toPython : TakeCompletion(m) \/ PutAside(m)
           \/ WaitTimesOut \/ LookupSucceeds \/ LookupFails \/ Reconnect
  BY <1>5 DEF TakeCompletion, PutAside, WaitTimesOut, LookupSucceeds,
     LookupFails, Reconnect, unity, links
<1>6. CASE \E k \in Keys : UnityTakesRequest(k)
  BY <1>6 DEF UnityTakesRequest
<1> QED BY <1>1, <1>2, <1>3, <1>4, <1>5, <1>6 DEF Next

\* Who earlier resets were accepted of is not touched by the newest.
LEMMA EarlierStep ==
    ASSUME TypeOK, QueueOK, WorldOK, unityRestarts = 0, [Next]_vars
    PROVE  /\ generation <= generation'
           /\ EarlierAccepted' /\ (\E k \in Keys : k = generation' /\ performed[k] # NoState)
                => generation' = generation /\ EarlierAccepted
<1> USE ResetLifecycleAssumption
<1> DEFINE Newest == \E k \in Keys : k = generation' /\ performed[k] # NoState
           Goal == /\ generation <= generation'
                   /\ EarlierAccepted' /\ Newest
                        => generation' = generation /\ EarlierAccepted
<1> SUFFICES Goal
  OBVIOUS
<1>0. generation \in Nat /\ generation' \in Nat /\ \A k \in Keys : k \in Nat
  BY TypeStep DEF TypeOK, Keys
<1>1. CASE SamePython
  BY <1>0, <1>1 DEF SamePython, EarlierAccepted
<1>2. CASE Reconnect
  BY <1>0, <1>2 DEF Reconnect, EarlierAccepted
<1>3. ASSUME NEW m, Accepts(m)
      PROVE  Goal
  <2>1. generation' = generation /\ accepted' = accepted \union {generation}
    BY <1>3 DEF Accepts, Accept
  <2>2. generation \notin 1..(generation - 1)
    BY <1>0
  <2>3. EarlierAccepted' => EarlierAccepted
    BY <2>1, <2>2 DEF EarlierAccepted
  <2> QED BY <1>0, <2>1, <2>3
<1>4. ASSUME NEW k \in Keys, Submit(k)
      PROVE  Goal
  <2>1. generation' = k /\ (k = generation + 1 \/ k = generation) /\ UNCHANGED accepted
    BY <1>4 DEF Submit
  <2>2. performed[k] # NoState => k <= generation
    BY DEF WorldOK
  <2>3. generation' = generation => (EarlierAccepted' => EarlierAccepted)
    BY <2>1 DEF EarlierAccepted
  <2>4. Newest => generation' = generation
    BY <1>0, <2>1, <2>2
  <2> HIDE DEF Newest
  <2> QED BY <1>0, <2>1, <2>3, <2>4
<1> HIDE DEF Goal
<1> QED BY <1>1, <1>2, <1>3, <1>4, QueueCases

\* What Unity performed stays performed, and it performs only the newest of the
\* resets a client that gives up none has asked for.
LEMMA PerformedStep ==
    ASSUME TypeOK, QueueOK, WorldOK, unityRestarts' = 0, [Next]_vars
    PROVE  /\ unityRestarts = 0
           /\ \A k \in Keys : performed[k] # NoState => performed'[k] = performed[k]
           /\ \A k \in Keys : performed'[k] # NoState =>
                performed[k] # NoState \/ k <= generation
           /\ \A m \in fromUnity' : m \in fromUnity \/ m.state = performed'[m.key]
           /\ \A k \in Keys :
                k = generation /\ EarlierAccepted /\ performed'[k] # NoState
                  => world' = performed'[k]
<1> USE ResetLifecycleAssumption
<1>1. unityRestarts = 0
  BY UnityCases DEF UnityTakesRequest
<1>2. /\ \A k \in accepted : performed[k] # NoState
      /\ \A k \in Keys :
           k = generation /\ EarlierAccepted /\ performed[k] # NoState
             => world = performed[k]
  BY <1>1 DEF WorldOK
<1>3. CASE UNCHANGED <<world, performed, unityRestarts>> /\ fromUnity' \subseteq fromUnity
  BY <1>1, <1>2, <1>3
<1>4. ASSUME NEW i \in toUnity, UnityTakesRequest(i)
      PROVE  /\ \A k \in Keys : performed[k] # NoState => performed'[k] = performed[k]
             /\ \A k \in Keys : performed'[k] # NoState =>
                  performed[k] # NoState \/ k <= generation
             /\ \A m \in fromUnity' : m \in fromUnity \/ m.state = performed'[m.key]
             /\ \A k \in Keys :
                  k = generation /\ EarlierAccepted /\ performed'[k] # NoState
                    => world' = performed'[k]
  <2>1. i \in Keys /\ i <= generation /\ performed \in [Keys -> Nat]
        /\ generation \in Nat /\ i \in Nat /\ i >= 1
    <3>1. i \in Keys /\ performed \in [Keys -> Nat] /\ generation \in Nat
      BY DEF TypeOK
    <3>2. i \in Nat /\ i >= 1
      BY <3>1 DEF Keys
    <3> QED BY <3>1, <3>2 DEF QueueOK
  <2>2. \A m \in fromUnity' : m \in fromUnity \/ m.state = performed'[m.key]
    BY <1>4, Shapes DEF UnityTakesRequest
  <2>3. CASE performed[i] # NoState
    BY <1>2, <1>4, <2>2, <2>3 DEF UnityTakesRequest
  <2>4. CASE performed[i] = NoState
    <3>1. world' = world + 1 /\ performed' = [performed EXCEPT ![i] = world + 1]
      BY <1>4, <2>4 DEF UnityTakesRequest
    <3>2. \A k \in Keys : performed'[k] = IF k = i THEN world + 1 ELSE performed[k]
      BY <2>1, <3>1
    <3>3. EarlierAccepted => i = generation
      <4>1. i < generation => i \in 1..(generation - 1)
        BY <2>1
      <4> QED BY <1>2, <2>1, <2>4, <4>1 DEF EarlierAccepted
    <3> QED BY <2>1, <2>2, <2>4, <3>1, <3>2, <3>3
  <2> QED BY <2>3, <2>4
<1> QED BY <1>1, <1>3, <1>4, UnityCases

\* Completions of a Unity that does not restart name what it performed.
LEMMA WorldStep ==
    ASSUME TypeOK, StoreConsistent, QueueOK, CopiesOK, WorldOK, [Next]_vars
    PROVE  WorldOK'
<1> SUFFICES ASSUME unityRestarts' = 0 PROVE WorldOK'
  BY DEF WorldOK
<1>1. /\ unityRestarts = 0
      /\ \A k \in Keys : performed[k] # NoState => performed'[k] = performed[k]
      /\ \A k \in Keys : performed'[k] # NoState => performed[k] # NoState \/ k <= generation
      /\ \A m \in fromUnity' : m \in fromUnity \/ m.state = performed'[m.key]
  BY PerformedStep
<1>2. /\ \A k \in Keys : performed[k] # NoState => k <= generation
      /\ \A m \in fromUnity \union Loose : m.state = performed[m.key]
      /\ \A k \in Keys : /\ complete[k] \in {NoState, performed[k]}
                         /\ terminal[k] \in {NoState, performed[k]}
      /\ \A k \in accepted : performed[k] # NoState
  BY <1>1 DEF WorldOK
<1>3. /\ \A m \in Completions : m.key \in Keys /\ m.state # NoState
      /\ fromUnity \subseteq Completions /\ accepted \subseteq Keys
      /\ generation \in Nat /\ generation' \in Nat /\ \A k \in Keys : k \in Nat
      /\ \A m \in Loose : m \in Completions
  <2>1. fromUnity \subseteq Completions /\ accepted \subseteq Keys /\ generation \in Nat
    BY DEF TypeOK
  <2>2. generation' \in Nat
    BY TypeStep DEF TypeOK
  <2>3. \A k \in Keys : k \in Nat
    BY ResetLifecycleAssumption DEF Keys
  <2>4. \A m \in Completions : m.key \in Keys /\ m.state # NoState
    BY Shapes DEF States
  <2> QED BY <2>1, <2>2, <2>3, <2>4 DEF CopiesOK
<1>4. \A k \in Keys : performed'[k] # NoState => k <= generation'
  <2>1. generation <= generation'
    BY <1>1, EarlierStep
  <2> QED BY <1>1, <1>2, <1>3, <2>1
<1>5. \A k \in Keys : /\ complete'[k] \in {NoState, performed'[k]}
                      /\ terminal'[k] \in {NoState, performed'[k]}
  <2>1. \A k \in Keys : /\ complete[k] \in {NoState, performed'[k]}
                        /\ terminal[k] \in {NoState, performed'[k]}
    BY <1>1, <1>2
  <2>2. CASE UNCHANGED <<pending, complete, terminal, terminalOrder>>
    BY <2>1, <2>2
  <2>3. ASSUME NEW k \in Keys, StoreOpened(k)
        PROVE  UNCHANGED <<complete, terminal>>
    BY <2>3 DEF StoreOpened
  <2>4. ASSUME NEW m \in fromUnity, StoreCompleted(m)
        PROVE  \A k \in Keys : /\ complete'[k] \in {NoState, performed'[k]}
                               /\ terminal'[k] = terminal[k]
    <3>1. m.key \in Keys /\ m.state = performed'[m.key] /\ complete \in [Keys -> Nat]
      BY <1>1, <1>2, <1>3 DEF TypeOK
    <3> QED BY <2>1, <2>4, <3>1 DEF StoreCompleted
  <2>5. ASSUME NEW k \in Keys, StoreRetired(k)
        PROVE  \A j \in Keys : /\ complete'[j] \in {NoState, performed'[j]}
                               /\ terminal'[j] \in {NoState, performed'[j]}
    <3>1. /\ terminal'[k] = complete[k]
          /\ \A j \in Keys \ {k} : /\ complete'[j] = complete[j]
                                   /\ terminal'[j] \in {NoState, terminal[j]}
      BY <2>5, RetireStep DEF StoreRetired
    <3>2. complete'[k] = NoState
      BY <2>5 DEF StoreRetired, Retire, TypeOK
    <3> QED BY <2>1, <3>1, <3>2
  <2> QED BY <2>1, <2>2, <2>3, <2>4, <2>5, StoreCases
<1>6. \A m \in fromUnity' \union Loose' : m.state = performed'[m.key]
  <2>1. \A m \in fromUnity \union Loose : m.state = performed'[m.key]
    BY <1>1, <1>2, <1>3
  <2>2. \A m : Given(m) => m.state = performed'[m.key]
    BY <1>3, <1>5 DEF Given
  <2> QED BY <1>1, <2>1, <2>2, LooseStep
<1>7. \A k \in accepted' : performed'[k] # NoState
  <2>1. \A k \in accepted : performed'[k] # NoState
    BY <1>1, <1>2, <1>3
  <2>2. ASSUME NEW m \in Loose, Accepts(m)
        PROVE  accepted' = accepted \union {m.key} /\ performed'[m.key] # NoState
    BY <1>1, <1>2, <1>3, <2>2 DEF Accepts, Accept
  <2> QED BY <2>1, <2>2, LooseStep
<1>8. \A k \in Keys :
        k = generation' /\ EarlierAccepted' /\ performed'[k] # NoState
          => world' = performed'[k]
  <2> SUFFICES ASSUME NEW k \in Keys, k = generation', EarlierAccepted',
                      performed'[k] # NoState
               PROVE  world' = performed'[k]
    OBVIOUS
  <2>1. CASE performed[k] # NoState
    <3>1. generation' = generation /\ EarlierAccepted
      BY <1>1, <2>1, EarlierStep
    <3> QED BY <3>1, PerformedStep
  <2>2. CASE performed[k] = NoState
    <3>1. performed'[k] # performed[k]
      BY <2>2
    <3>2. PICK i \in toUnity : UnityTakesRequest(i)
      BY <3>1, UnityCases
    <3>3. UNCHANGED <<generation, accepted>>
      BY <3>2 DEF UnityTakesRequest, python
    <3>4. EarlierAccepted
      BY <3>3 DEF EarlierAccepted
    <3> QED BY <3>3, <3>4, PerformedStep
  <2> QED BY <2>1, <2>2
<1> QED BY <1>4, <1>5, <1>6, <1>7, <1>8 DEF WorldOK
-----------------------------------------------------------------------------
LEMMA InitInv == Init => IInv
<1> SUFFICES ASSUME Init PROVE IInv
  OBVIOUS
<1> USE ResetLifecycleAssumption
<1>1. TombstonedKeys = {} /\ CompletedKeys = {}
  BY DEF Init, TombstonedKeys, CompletedKeys
<1>2. toBridge = <<Ready>> /\ Len(toBridge) = 1 /\ toBridge[1] = Ready
  BY DEF Init
<1>3. TypeOK
  <2>1. toBridge \in Seq(Messages)
    BY <1>2, Shapes
  <2>2. <<>> \in Seq(Keys) /\ NoState \in Nat /\ 1 \in States /\ 0 \in 0..MaxResets
    BY DEF NoState, States
  <2> QED BY <2>1, <2>2 DEF Init, TypeOK, Phases
<1>4. StoreConsistent
  <2>1. Lists(<<>>, {}, TombstoneCapacity)
    BY ListsEmpty
  <2> QED BY <1>1, <2>1 DEF Init, StoreConsistent
<1>5. Queued = {Ready} /\ \A k \in Keys : ~Known(k)
  BY <1>2 DEF Init, Queued, Known
<1>6. QueueOK
  BY <1>2, <1>5, Shapes DEF Init, QueueOK
<1>7. Loose = {}
  BY LooseAre DEF Init, Landed
<1>8. CopiesOK /\ AcksOK /\ BufferedIsOver
  BY <1>7 DEF Init, CopiesOK, AcksOK, BufferedIsOver
<1>9. WorldOK
  BY <1>7 DEF Init, WorldOK
<1> QED BY <1>3, <1>4, <1>6, <1>8, <1>9 DEF IInv

LEMMA InvariantStep == IInv /\ [Next]_vars => IInv'
  BY TypeStep, StoreStep, QueueStep, CopiesStep, BufferStep, AcksStep, WorldStep
     DEF IInv

\* The inductive invariant holds of every behaviour of the gateway with its
\* client and Unity.
THEOREM ResetInvariant == Spec => []IInv
  BY InitInv, InvariantStep, PTL DEF Spec

\* For any number of resets and tombstones and whatever is repeated, reordered
\* or lost, a reset is pending or over and the deque lists the tombstones, that
\* is, ReceivePythonReset, FinalizeResetLifecycle and RememberTerminal keep the
\* maps of the gateway together; and what _buffer_reset_completion puts aside is
\* never of a reset that wait_for_reset waits for.
THEOREM ConsistentAlways == Spec => []Consistent
<1>1. IInv => Consistent
  BY DEF IInv, Consistent
<1> QED BY <1>1, ResetInvariant, PTL

\* A reset completes once: ReceiveUnityResetComplete keeps the first completion
\* of a reset even if Unity restarts and performs it again, and neither a replay
\* from a tombstone nor the completions the client has put aside differ from it.
THEOREM CompletesOnce == Spec => []CompletionsAgree
<1>1. ASSUME IInv PROVE CompletionsAgree
  <2> DEFINE Held == {Completion(k, complete[k]) : k \in CompletedKeys}
                       \union {Completion(k, terminal[k]) : k \in TombstonedKeys}
  <2>1. Copies = Loose \union Held
    BY DEF Copies, Loose
  <2>2. /\ pending \subseteq Keys /\ \A m \in Loose : m \in Completions /\ Borne(m)
        /\ \A m, n \in Loose : m.key = n.key => m = n
        /\ \A m \in Completions : m.state # NoState /\ m = Completion(m.key, m.state)
    BY <1>1, Shapes DEF IInv, CopiesOK, TypeOK, States
  <2>3. \A k \in CompletedKeys :
          k \in Keys /\ k \in pending /\ terminal[k] = NoState /\ complete[k] # NoState
    BY <1>1, <2>2 DEF IInv, StoreConsistent, CompletedKeys, TombstonedKeys
  <2>4. \A k \in TombstonedKeys :
          k \in Keys /\ terminal[k] # NoState /\ complete[k] = NoState
    BY <1>1, <2>2 DEF IInv, StoreConsistent, TombstonedKeys
  <2>5. \A n \in Held : \E s : /\ n = Completion(n.key, s) /\ s # NoState
                               /\ ~Forgotten(n.key)
                               /\ \/ s = complete[n.key] /\ terminal[n.key] = NoState
                                  \/ s = terminal[n.key] /\ complete[n.key] = NoState
    BY <2>3, <2>4, Shapes DEF Forgotten
  <2> HIDE DEF Held
  <2>6. \A m, n \in Held : m.key = n.key => m = n
    BY <2>5
  <2>7. \A m \in Loose, n \in Held : m.key = n.key => m = n
    BY <2>2, <2>5 DEF Borne
  <2> QED BY <2>1, <2>2, <2>6, <2>7 DEF CompletionsAgree
<1> QED BY <1>1, ResetInvariant, PTL

\* The gateway holds one reset at a time for a client that accepts each before
\* it asks for the next: _accept_reset_completion queues the acknowledgement
\* before reset() can queue another request, and ReceivePythonResetAck retires.
THEOREM OneResetPending == Spec => []OnePendingReset
<1>1. ASSUME IInv, EarlierAccepted, reconnects = 0 PROVE Cardinality(pending) <= 1
  <2>1. /\ pending \subseteq Keys /\ generation \in Nat
        /\ \A k \in Keys : k \in Nat /\ k >= 1
    BY <1>1, ResetLifecycleAssumption DEF IInv, TypeOK, Keys
  <2>2. ASSUME NEW i \in pending, NEW j \in pending, i < j PROVE FALSE
    <3>1. j <= generation
      BY <1>1, <2>1 DEF IInv, QueueOK, Known
    <3>2. i \in 1..(generation - 1)
      BY <2>1, <2>2, <3>1
    <3>3. Ack(i) \in Queued
      BY <1>1, <3>2 DEF IInv, AcksOK, EarlierAccepted
    <3>4. j <= i
      BY <1>1, <2>1, <3>3, Shapes DEF IInv, QueueOK, Known
    <3> QED BY <2>1, <2>2, <3>4
  <2>3. \A i, j \in pending : i = j
    BY <2>1, <2>2
  <2>4. CASE pending = {}
    BY <2>4, FS_EmptySet
  <2>5. CASE pending # {}
    <3>1. PICK i \in pending : TRUE
      BY <2>5
    <3>2. pending = {i}
      BY <2>3, <3>1
    <3>3. Cardinality({i}) = 1
      BY FS_Singleton
    <3> QED BY <3>2, <3>3
  <2> QED BY <2>4, <2>5
<1>2. IInv => OnePendingReset
  BY <1>1 DEF OnePendingReset
<1> QED BY <1>2, ResetInvariant, PTL

\* While Python flies an episode the world is the one its reset observed, as
\* long as Unity does not restart and no earlier reset was given up: no repeated
\* request makes Unity reset under the client.
THEOREM ObservationStaysCurrent == Spec => []ObservationIsCurrent
<1>1. ASSUME IInv, Landed(phase), EarlierAccepted, unityRestarts = 0
      PROVE  observed = world
  <2>1. Completion(generation, observed) \in Loose
    BY <1>1, LooseAre
  <2>2. /\ Completion(generation, observed) \in Completions
        /\ observed = performed[generation]
    BY <1>1, <2>1, Shapes DEF IInv, CopiesOK, WorldOK
  <2>3. generation \in Keys /\ observed # NoState
    BY <2>2, Shapes DEF States
  <2> QED BY <1>1, <2>2, <2>3 DEF IInv, WorldOK
<1>2. IInv => ObservationIsCurrent
  BY <1>1 DEF ObservationIsCurrent, Landed
<1> QED BY <1>2, ResetInvariant, PTL
=============================================================================
