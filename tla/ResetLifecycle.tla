--------------------------- MODULE ResetLifecycle ---------------------------
(***************************************************************************)
(* Resets from Python to Unity and back: ResetGateway with the command     *)
(* client, the backend's reset() and Unity.  Python reserves an identity,  *)
(* sends one request and waits for its completion; the gateway keeps the   *)
(* request, forwards it until Unity completes it, sends the completion     *)
(* until Python acknowledges it, and then keeps a bounded tombstone.  Both *)
(* retries run from one timer, so requests and completions repeat.         *)
(*                                                                         *)
(* A reset is its key, the generation _next_reset_identity reserves; its   *)
(* request has one payload.  A completion is the key with the world state  *)
(* its observation_ref names: Unity's state counter.  Unity, external,     *)
(* answers a request it knows without performing it again, but forgets     *)
(* what it knew, and begins a new world, when it restarts.  The DEALER to  *)
(* the bridge keeps its order; other links reorder, repeat and lose.  A    *)
(* reconnect of the client loses a tail of what it had sent.               *)
(***************************************************************************)
EXTENDS TombstoneFifo, FiniteSets

CONSTANTS
    MaxResets,          \* identities reserved
    MaxFaults,          \* failed calls, reconnects and restarts of Unity
    TombstoneCapacity   \* kTerminalTombstoneCapacity

ASSUME ResetLifecycleAssumption ==
    /\ MaxResets \in Nat /\ MaxFaults \in Nat
    /\ TombstoneCapacity \in Nat \ {0}

VARIABLES
    pending,        \* keys of pending_resets_
    complete,       \* complete_payload of each pending reset, or NoState
    terminal,       \* terminal_resets_: the completion of each, or NoState
    terminalOrder,  \* terminal_reset_order_
    registered,     \* Unity has announced READY
    toUnity,        \* requests in flight to Unity
    fromUnity,      \* completions in flight to the bridge
    toBridge,       \* messages in flight from Python, in order
    toPython,       \* completions in flight to or at Python's socket
    world,          \* Unity's state counter
    performed,      \* the state Unity's reset of each key made, or NoState
    unityRestarts,  \* restarts so far
    phase,          \* where Python is: see Phases
    generation,     \* _reset_generation: the last key reserved
    observed,       \* the state of the completion accepted last
    buffered,       \* _reset_completions
    accepted,       \* keys whose completion Python has acknowledged
    givenUp,        \* keys a wait for which has timed out
    failures,       \* calls that ended with an exception
    reconnects      \* reconnects so far

gateway == <<pending, complete, terminal, terminalOrder, registered>>
unity == <<world, performed, unityRestarts>>
links == <<toUnity, fromUnity, toBridge, toPython>>
python == <<phase, generation, observed, buffered, accepted, givenUp,
            failures, reconnects>>
vars == <<gateway, unity, links, python>>

Keys == 1..MaxResets
NoState == 0
States == Nat \ {NoState}
Phases == {"idle",      \* before the first reset, or after a failed one
           "waiting",   \* in wait_for_reset
           "looking",   \* in lookup_reset, the completion acknowledged
           "flying"}    \* reset() has returned

Completions == [key : Keys, state : States]
Completion(k, s) == [key |-> k, state |-> s]
Ready == [type |-> "Ready", key |-> 0]
Request(k) == [type |-> "Request", key |-> k]
Ack(k) == [type |-> "Ack", key |-> k]
Messages == {Ready} \union {Request(k) : k \in Keys} \union {Ack(k) : k \in Keys}

TombstonedKeys == {k \in Keys : terminal[k] # NoState}
MayFail == failures + reconnects + unityRestarts < MaxFaults
CompletedKeys == {k \in pending : complete[k] # NoState}   \* unity_complete

Init ==
    /\ pending = {}
    /\ complete = [k \in Keys |-> NoState]
    /\ terminal = [k \in Keys |-> NoState]
    /\ terminalOrder = <<>>
    /\ registered = FALSE
    /\ toUnity = {} /\ fromUnity = {} /\ toPython = {}
    /\ toBridge = <<Ready>>
    /\ world = 1
    /\ performed = [k \in Keys |-> NoState]
    /\ unityRestarts = 0
    /\ phase = "idle" /\ generation = 0 /\ observed = NoState
    /\ buffered = {} /\ accepted = {} /\ givenUp = {}
    /\ failures = 0 /\ reconnects = 0
-----------------------------------------------------------------------------
\* The gateway.  Each send may be refused by the socket.

\* ForwardResetToUnity; no Unity is known before its READY.
ForwardResets(ks) ==
    toUnity' \in {toUnity \union sent :
                    sent \in {ss \in SUBSET ks : registered \/ ss = {}}}

\* SendResetToPython of the completions of pending resets ks.
SendCompletions(ks) ==
    toPython' \in {toPython \union {Completion(k, complete[k]) : k \in sent} :
                     sent \in SUBSET ks}

HandledBridgeMessage(m) == toBridge # <<>> /\ Head(toBridge) = m /\ toBridge' = Tail(toBridge)

\* OnPythonReady.
PythonReady ==
    /\ HandledBridgeMessage(Ready)
    /\ SendCompletions(CompletedKeys)
    /\ UNCHANGED <<gateway, unity, python, toUnity, fromUnity>>

\* OnUnityReady.
UnityReady ==
    /\ ~registered
    /\ registered' = TRUE
    /\ UNCHANGED <<pending, complete, terminal, terminalOrder, unity, links, python>>

\* ReceivePythonReset of a reset that is over: its completion is replayed.
ReplayRetired(k) ==
    /\ terminal[k] # NoState
    /\ toPython' \in {toPython, toPython \union {Completion(k, terminal[k])}}
    /\ UNCHANGED <<pending, toUnity>>

RepeatPending(k) ==
    /\ terminal[k] = NoState /\ k \in pending
    /\ IF complete[k] # NoState
       THEN SendCompletions({k}) /\ UNCHANGED toUnity
       ELSE ForwardResets({k}) /\ UNCHANGED toPython
    /\ UNCHANGED pending

OpenReset(k) ==
    /\ terminal[k] = NoState /\ k \notin pending
    /\ pending' = pending \union {k}
    /\ ForwardResets({k})
    /\ UNCHANGED toPython

\* ReceivePythonReset.
ReceivePythonReset(k) ==
    /\ HandledBridgeMessage(Request(k))
    /\ ReplayRetired(k) \/ RepeatPending(k) \/ OpenReset(k)
    /\ UNCHANGED <<complete, terminal, terminalOrder, registered, fromUnity,
                   unity, python>>

CompletionOverwrites(m) ==
    /\ complete' = [complete EXCEPT ![m.key] = m.state]
    /\ toPython' \in {toPython, toPython \union {m}}

\* The first completion of a pending reset is stored and, like a repetition of
\* it, sent on.  Another one only counts an error.
StoreCompletion(m) ==
    /\ complete[m.key] \in {NoState, m.state}
    /\ complete' = [complete EXCEPT ![m.key] = m.state]
    /\ toPython' \in {toPython, toPython \union {m}}

\* ReceiveUnityResetComplete.
ReceiveUnityResetComplete(m) ==
    /\ m \in fromUnity
    /\ fromUnity' = fromUnity \ {m}
    /\ \/ m.key \in pending /\ StoreCompletion(m)
       \/ /\ m.key \notin pending \/ complete[m.key] \notin {NoState, m.state}
          /\ UNCHANGED <<complete, toPython>>
    /\ UNCHANGED <<pending, terminal, terminalOrder, registered, toUnity,
                   toBridge, unity, python>>

RetireKeepsPending(k) ==
    /\ pending' = pending /\ complete' = complete
    /\ terminal' = [j \in Keys |->
                      IF j = k THEN complete[k]
                      ELSE IF j \in Evicted(terminalOrder, k, TombstoneCapacity)
                           THEN NoState ELSE terminal[j]]
    /\ terminalOrder' = Pushed(terminalOrder, k, TombstoneCapacity)

\* FinalizeResetLifecycle with RememberTerminal.
Retire(k) ==
    /\ pending' = pending \ {k}
    /\ complete' = [complete EXCEPT ![k] = NoState]
    /\ terminal' = [j \in Keys |->
                      IF j = k THEN complete[k]
                      ELSE IF j \in Evicted(terminalOrder, k, TombstoneCapacity)
                           THEN NoState ELSE terminal[j]]
    /\ terminalOrder' = Pushed(terminalOrder, k, TombstoneCapacity)

\* ReceivePythonResetAck; one for a reset that is not complete changes nothing.
ReceivePythonResetAck(k) ==
    /\ HandledBridgeMessage(Ack(k))
    /\ IF k \in CompletedKeys THEN Retire(k)
       ELSE UNCHANGED <<pending, complete, terminal, terminalOrder>>
    /\ UNCHANGED <<registered, toUnity, fromUnity, toPython, unity, python>>

RetryForwardsOnly ==
    /\ ForwardResets(pending \ CompletedKeys)
    /\ UNCHANGED <<gateway, unity, python, fromUnity, toBridge, toPython>>

\* The retry timer of the command gateway.
RetryPendingResets ==
    /\ ForwardResets(pending \ CompletedKeys)
    /\ SendCompletions(CompletedKeys)
    /\ UNCHANGED <<gateway, unity, python, fromUnity, toBridge>>
-----------------------------------------------------------------------------
\* Unity, and the links.

UnityTakesRequest(k) ==
    /\ k \in toUnity
    /\ toUnity' = toUnity \ {k}
    /\ IF performed[k] # NoState
       THEN UNCHANGED <<world, performed>>
       ELSE /\ world' = world + 1
            /\ performed' = [performed EXCEPT ![k] = world + 1]
    /\ fromUnity' = fromUnity \union {Completion(k, performed'[k])}
    /\ UNCHANGED <<unityRestarts, gateway, toBridge, toPython, python>>

UnityRestart ==
    /\ MayFail
    /\ unityRestarts' = unityRestarts + 1
    /\ world' = world + 1
    /\ performed' = [k \in Keys |-> NoState]
    /\ UNCHANGED <<gateway, links, python>>

Lose ==
    /\ \/ \E k \in toUnity : toUnity' = toUnity \ {k} /\ UNCHANGED <<fromUnity, toPython>>
       \/ \E m \in fromUnity : fromUnity' = fromUnity \ {m} /\ UNCHANGED <<toUnity, toPython>>
       \/ \E m \in toPython : toPython' = toPython \ {m} /\ UNCHANGED <<toUnity, fromUnity>>
    /\ UNCHANGED <<gateway, unity, python, toBridge>>
-----------------------------------------------------------------------------
\* Python.

\* reset() submits its request.  The environment takes a new identity for every
\* call; the backend also lets a failed call be made again under its own.
Submit(k) ==
    /\ \/ phase \in {"idle", "flying"} /\ k = generation + 1
       \/ phase = "idle" /\ k = generation
    /\ k \in Keys
    /\ generation' = k
    /\ phase' = "waiting"
    /\ toBridge' = Append(toBridge, Request(k))
    /\ UNCHANGED <<gateway, unity, toUnity, fromUnity, toPython, observed,
                   buffered, accepted, givenUp, failures, reconnects>>

\* _accept_reset_completion: acknowledge, return.
Accept(m) ==
    /\ phase' = "looking"
    /\ observed' = m.state
    /\ accepted' = accepted \union {m.key}
    /\ toBridge' = Append(toBridge, Ack(m.key))

TakeAnyCompletion(m) ==
    /\ phase = "waiting"
    /\ m \in toPython
    /\ toPython' = toPython \ {m}
    /\ Accept(m)
    /\ UNCHANGED <<gateway, unity, toUnity, fromUnity, generation, buffered,
                   givenUp, failures, reconnects>>

\* wait_for_reset.  It first looks among the completions put aside, but none of
\* them is ever of the reset it waits for: see BufferedIsOver.
TakeCompletion(m) ==
    /\ phase = "waiting"
    /\ m \in toPython /\ m.key = generation
    /\ toPython' = toPython \ {m}
    /\ Accept(m)
    /\ UNCHANGED <<gateway, unity, toUnity, fromUnity, generation, buffered,
                   givenUp, failures, reconnects>>

\* _buffer_reset_completion of a completion that wait_for_reset or
\* wait_for_receipt does not wait for.  If another one of that reset is there
\* already it raises.
PutAside(m) ==
    /\ \/ phase = "waiting" /\ m.key # generation
       \/ phase = "flying"
    /\ m \in toPython
    /\ toPython' = toPython \ {m}
    /\ IF \E n \in buffered : n.key = m.key /\ n # m
       THEN phase' = "idle" /\ UNCHANGED buffered
       ELSE buffered' = buffered \union {m} /\ UNCHANGED phase
    /\ UNCHANGED <<gateway, unity, toUnity, fromUnity, toBridge, generation,
                   observed, accepted, givenUp, failures, reconnects>>

WaitTimesOut ==
    /\ phase = "waiting"
    /\ MayFail
    /\ failures' = failures + 1
    /\ phase' = "idle"
    /\ givenUp' = givenUp \union {generation}
    /\ UNCHANGED <<gateway, unity, links, generation, observed, buffered,
                   accepted, reconnects>>

\* lookup_reset returns the observation; see SnapshotRetrieval.
LookupSucceeds ==
    /\ phase = "looking"
    /\ phase' = "flying"
    /\ UNCHANGED <<gateway, unity, links, generation, observed, buffered,
                   accepted, givenUp, failures, reconnects>>

LookupFails ==
    /\ phase = "looking" /\ MayFail
    /\ failures' = failures + 1
    /\ phase' = "idle"
    /\ UNCHANGED <<gateway, unity, links, generation, observed, buffered,
                   accepted, givenUp, reconnects>>

\* reconnect() closes the socket without lingering and opens a new one, which
\* announces itself.
Reconnect ==
    /\ phase \in {"idle", "flying"}
    /\ MayFail
    /\ reconnects' = reconnects + 1
    /\ \E n \in 0..Len(toBridge) :
         toBridge' = Append(SubSeq(toBridge, 1, n), Ready)
    /\ toPython' = {}
    /\ UNCHANGED <<gateway, unity, toUnity, fromUnity, phase, generation,
                   observed, buffered, accepted, givenUp, failures>>
-----------------------------------------------------------------------------
BridgeTakesMessage ==
    \/ PythonReady
    \/ \E k \in Keys : ReceivePythonReset(k) \/ ReceivePythonResetAck(k)

Next ==
    \/ BridgeTakesMessage
    \/ UnityReady
    \/ RetryPendingResets
    \/ \E m \in fromUnity : ReceiveUnityResetComplete(m)
    \/ \E k \in Keys : UnityTakesRequest(k) \/ Submit(k)
    \/ UnityRestart
    \/ Lose
    \/ \E m \in toPython : TakeCompletion(m) \/ PutAside(m)
    \/ WaitTimesOut
    \/ LookupSucceeds
    \/ LookupFails
    \/ Reconnect

\* Spin polls the sockets and the timer for ever, Unity announces itself and
\* answers, Python reads what it waits for, and no link loses or refuses the
\* same message for ever.
Fairness ==
    /\ WF_vars(BridgeTakesMessage)
    /\ WF_vars(UnityReady)
    /\ \A k \in Keys :
         /\ SF_vars(RetryPendingResets /\ k \in toUnity' \ toUnity)
         /\ SF_vars(UnityTakesRequest(k))
         /\ SF_vars(\E m \in fromUnity : m.key = k /\ ReceiveUnityResetComplete(m))
         /\ SF_vars(RetryPendingResets /\ \E m \in toPython' \ toPython : m.key = k)
         /\ SF_vars(\E m \in toPython : m.key = k /\ TakeCompletion(m))

Spec == Init /\ [][Next]_vars /\ Fairness
-----------------------------------------------------------------------------
\* The variables hold values of the types of the maps and of the wire; a
\* completion on the wire names a state.
TypeOK ==
    /\ pending \subseteq Keys
    /\ complete \in [Keys -> Nat]
    /\ terminal \in [Keys -> Nat]
    /\ terminalOrder \in Seq(Keys)
    /\ registered \in BOOLEAN
    /\ toUnity \subseteq Keys
    /\ fromUnity \subseteq Completions
    /\ toBridge \in Seq(Messages)
    /\ toPython \subseteq Completions
    /\ world \in States
    /\ performed \in [Keys -> Nat]
    /\ unityRestarts \in Nat
    /\ phase \in Phases
    /\ generation \in 0..MaxResets
    /\ generation = 0 => phase = "idle"
    /\ observed \in Nat
    /\ buffered \subseteq Completions
    /\ accepted \subseteq Keys
    /\ givenUp \subseteq Keys
    /\ failures \in Nat
    /\ reconnects \in Nat

\* A reset is pending or over, never both, only pending ones have a completion
\* of their own, and the deque lists exactly the tombstones.
StoreConsistent ==
    /\ \A k \in Keys \ pending : complete[k] = NoState
    /\ pending \intersect TombstonedKeys = {}
    /\ Lists(terminalOrder, TombstonedKeys, TombstoneCapacity)

\* What is put aside is of a reset that is over for the client, so that what
\* wait_for_reset waits for only ever comes from the socket.
BufferedIsOver ==
    \A m \in buffered :
        m.key <= generation /\ (m.key = generation => phase = "flying")

\* All: the gateway's maps, its deque and everything on the wire and in the
\* client's buffer fit together, whichever of the repeated messages comes next.
Consistent == TypeOK /\ StoreConsistent /\ BufferedIsOver

\* Every completion Python has, will read or may be sent again.
Copies ==
    toPython \union buffered
      \union {Completion(k, complete[k]) : k \in CompletedKeys}
      \union {Completion(k, terminal[k]) : k \in TombstonedKeys}
      \union {Completion(generation, observed) : x \in {phase} \intersect {"looking", "flying"}}

\* All copies of a reset's completion name one world, however often Unity was
\* asked, answered or restarted, and wherever the client put them: a reset
\* completes once.  So the client never meets the conflict it raises on.
CompletionsAgree == \A m, n \in Copies : m.key = n.key => m = n

EarlierAccepted == 1..(generation - 1) \subseteq accepted

\* While Python flies an episode, the world is the one its reset observed: no
\* repeated or late request of another reset, and no completion of another,
\* comes between.  A restart of Unity ends every world, and a reset that was
\* given up is still performed when its request gets through.
ObservationIsCurrent ==
    phase \in {"looking", "flying"} /\ EarlierAccepted /\ unityRestarts = 0
        => observed = world

\* The gateway never holds more than one reset at a time for a client that
\* gives up none and keeps its connection: the acknowledgement of each goes
\* before the request of the next.
OnePendingReset ==
    EarlierAccepted /\ reconnects = 0 => Cardinality(pending) <= 1

\* A reset that is waited for is accepted and retired, whatever is lost on the
\* way, unless its wait is given up or the client loses its connection.
ResetCompletes ==
    \A k \in Keys :
        phase = "waiting" /\ generation = k
            ~> k \in accepted \ pending \/ k \in givenUp \/ reconnects > 0
=============================================================================
