------------------------- MODULE SnapshotRetrieval -------------------------
(***************************************************************************)
(* The snapshot path from Unity to Python: the snapshot broker with the    *)
(* production client, ZmqBridgeSnapshotRetriever, and with Unity.  The     *)
(* client sends a lookup and takes the first message that arrives within   *)
(* its timeout, whatever lookup it answers; a lookup given up leaves its   *)
(* answer to come.  Every request is looked up once: the next execution    *)
(* and the next reset have new identities.  Unity, which is external, may  *)
(* answer any request, with the snapshot or with MISSING.  An answer to    *)
(* Python may be refused by the bridge's socket, or dropped by it without  *)
(* a word, for the ROUTER is not mandatory.                                *)
(***************************************************************************)
EXTENDS SnapshotBroker, FiniteSets

CONSTANT MaxTimeouts   \* lookups that may be given up

ASSUME SnapshotRetrievalAssumption == Snapshots # {} /\ MaxTimeouts \in Nat

VARIABLES
    atUnity,    \* requests under way to Unity
    replies,    \* replies of Unity under way to the bridge
    asks,       \* lookups under way to the bridge, in order
    inbox,      \* answers under way to or at the client's socket, in order
    lookup,     \* the request the client waits for, or None
    lookedUp,   \* the requests it has sent
    taken,      \* how many answers it has taken
    got,        \* the requests whose snapshot it has returned
    timeouts,   \* how many lookups it has given up
    raised,     \* a lookup has ended with PrimitiveExecutionProtocolError
    lost        \* an answer has been refused or dropped

links == <<atUnity, replies, asks, inbox, lost>>
client == <<lookup, lookedUp, taken, got, timeouts, raised>>
allVars == <<vars, links, client>>

TheSnapshot == CHOOSE s \in Snapshots : TRUE
Replies == [request : Requests, snapshot : {TheSnapshot, Missing}]
Reply(q, s) == [request |-> q, snapshot |-> s]

RetrievalInit ==
    /\ Init
    /\ atUnity = {} /\ replies = {} /\ asks = <<>> /\ inbox = <<>>
    /\ lookup = None /\ lookedUp = {} /\ taken = 0 /\ got = {}
    /\ timeouts = 0 /\ raised = FALSE /\ lost = FALSE
-----------------------------------------------------------------------------
\* What the broker hands to its sockets in this step goes on its way.
Carry ==
    /\ atUnity' = atUnity \union
                    {m.request : m \in {x \in toUnity' : x.type = "SnapshotRequest"}}
    /\ inbox' \in {inbox} \union {Append(inbox, m) : m \in toPython'}
    /\ lost' = \/ lost
               \/ toPython' # {} /\ inbox' = inbox
               \/ \E q \in parked' : cache'[q.ref] # None

BridgeTakesResult(q) ==
    /\ UnityResult(q)
    /\ Carry
    /\ UNCHANGED <<replies, asks, client>>

BridgeSeesUnityReady ==
    /\ UnityReady
    /\ Carry
    /\ UNCHANGED <<replies, asks, client>>

BridgePolls ==
    /\ Poll
    /\ Carry
    /\ UNCHANGED <<replies, asks, client>>

BridgeAsksAgain(q) == BridgePolls /\ Ask(q) \in toUnity'

BridgeTakesLookup ==
    /\ asks # <<>>
    /\ asks' = Tail(asks)
    /\ LET q == Head(asks)
       IN  IF Unknown(q) \/ requests[q.key] = q
           THEN (PythonLookupParked(q) \/ PythonLookupAnswered(q)) /\ Carry
           ELSE UNCHANGED <<vars, atUnity, inbox, lost>>
    /\ UNCHANGED <<replies, client>>

\* A reply that no longer fits the store is ignored.
BridgeTakesReply(q, s) ==
    /\ Reply(q, s) \in replies
    /\ replies' = replies \ {Reply(q, s)}
    /\ \/ /\ \/ s # Missing /\ UnitySnapshotStored(q, s)
             \/ s # Missing /\ UnitySnapshotRelayed(q, s)
             \/ s # Missing /\ UnitySnapshotAfter(q, s)
             \/ s = Missing /\ UnityMissing(q)
          /\ Carry
       \/ /\ IF s = Missing THEN q \notin parked
             ELSE ~Active(q.key) /\ terminal[q.key] # Tombstone(q, s)
          /\ UNCHANGED <<vars, atUnity, inbox, lost>>
    /\ UNCHANGED <<asks, client>>

\* Python commits the execution whose snapshot it has.
BridgeTakesCommit(q) ==
    /\ q \in got
    /\ FinalizeExecution(q)
    /\ Carry
    /\ UNCHANGED <<replies, asks, client>>

UnityReplies(q) ==
    /\ q \in atUnity
    /\ atUnity' = atUnity \ {q}
    /\ \E s \in {TheSnapshot, Missing} : replies' = replies \union {Reply(q, s)}
    /\ UNCHANGED <<vars, asks, inbox, lost, client>>
-----------------------------------------------------------------------------
\* retrieve sends its request.  Python knows the reference of an execution
\* from the result, which the bridge had before it; that of a reset from Unity.
SendLookup(q) ==
    /\ lookup = None /\ q \notin lookedUp
    /\ IsReset(q) \/ requests[q.key] = q
    /\ lookup' = q
    /\ lookedUp' = lookedUp \union {q}
    /\ asks' = Append(asks, q)
    /\ UNCHANGED <<vars, atUnity, replies, inbox, lost, taken, got, timeouts, raised>>

\* retrieve takes a message: the snapshot of its request, None for MISSING, and
\* the identity check raises for another request's answer.
TakeAnswer ==
    /\ lookup # None /\ inbox # <<>>
    /\ LET m == Head(inbox)
       IN  /\ raised' = (raised \/ m.request # lookup)
           /\ got' = IF m.request = lookup /\ m.snapshot # Missing
                     THEN got \union {lookup} ELSE got
    /\ inbox' = Tail(inbox)
    /\ taken' = taken + 1
    /\ lookup' = None
    /\ UNCHANGED <<vars, atUnity, replies, asks, lost, lookedUp, timeouts>>

\* retrieve gives up.
LookupTimesOut ==
    /\ lookup # None /\ inbox = <<>> /\ timeouts < MaxTimeouts
    /\ lookup' = None
    /\ timeouts' = timeouts + 1
    /\ UNCHANGED <<vars, links, lookedUp, taken, got, raised>>

RetrievalNext ==
    \/ \E q \in Requests :
         \/ BridgeTakesResult(q)
         \/ BridgeTakesCommit(q)
         \/ UnityReplies(q)
         \/ SendLookup(q)
         \/ \E s \in {TheSnapshot, Missing} : BridgeTakesReply(q, s)
    \/ BridgeSeesUnityReady
    \/ BridgePolls
    \/ BridgeTakesLookup
    \/ TakeAnswer
    \/ LookupTimesOut

\* Spin polls its sockets for ever and Poll comes round every interval; Unity
\* announces itself and replies to what reaches it; the socket to Unity does
\* not refuse for ever.
Fairness ==
    /\ WF_allVars(BridgeSeesUnityReady)
    /\ WF_allVars(BridgeTakesLookup)
    /\ WF_allVars(TakeAnswer)
    /\ \A q \in Requests :
         /\ SF_allVars(BridgeAsksAgain(q))
         /\ WF_allVars(UnityReplies(q))
         /\ \A s \in {TheSnapshot, Missing} : WF_allVars(BridgeTakesReply(q, s))

RetrievalSpec == RetrievalInit /\ [][RetrievalNext]_allVars /\ Fairness
-----------------------------------------------------------------------------
\* Each lookup is answered at most once, by one of four paths (at once, when
\* the snapshot comes, when it is reported missing, never): what is under way,
\* parked or waiting to be read never exceeds the lookups still unanswered.
OneAnswerPerLookup ==
    Len(asks) + Cardinality(parked) + Len(inbox) <= Cardinality(lookedUp) - taken

\* A client that has given up no lookup never reads another lookup's answer,
\* however often Unity is asked again and replies again.
RaisesOnlyAfterTimeout == raised => timeouts > 0

\* A lookup ends without its timeout, unless an answer was refused or dropped:
\* the bridge asks Unity until it has a reply, and relays the reply.
LookupEnds == lookup # None ~> lookup = None \/ lost

\* The retriever's interface: the snapshot of the exact request, or None.
LookupIsExact == ~raised
=============================================================================
