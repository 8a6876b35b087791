# TLA+ models of the execution path and of calibration training

This directory holds TLA+ modules, TLC configurations and TLAPS proofs about two
parts of the repository. The first is the bridge between the Python planner and the
Unity simulator, in which several processes exchange messages that are lost,
repeated, late or reordered. The second is the critic calibration run, which
collects a replay over many hours, commits it with checkpoints, and resumes after
exceptions and crashes. In both an error costs a wrong, missing or doubled
transition in a training set, and is hard to notice. `PROJECT.json` gives, for each
definition, the source lines it stands for.

Paths below are relative to the repository root.

## 1. Inventory

### Components, state, operations

| Component | Source | State | Operations | Correct when |
|---|---|---|---|---|
| Command broker | `include/planning/bridge/primitive_execution_command_broker.hpp`, `src/bridge/command_gateway.cpp` | `values_` (active commands, with `unity_receipt_received` and `python_ack_sent`), `terminal_` and `terminal_order_` (tombstones, 1024 of them) | `Receive`, `HandleUnityReceipt`, `RetryPendingCommands`, `RetryPythonAcks`, `FinalizeExecution` | a command is forwarded only while it may be needed, RECEIVED is told only of what Unity has, identities are not forgotten early |
| Result broker and relay | `include/planning/bridge/primitive_execution_result_broker.hpp`, `src/bridge/result_gateway.cpp`, `include/planning/transport/reliable_zmq_adapters.hpp` | results, tombstones, peer state (READY/STALE), `unacknowledged_attempts_`, `python_connected_` | `Receive`, `AcknowledgePythonReceipt`, `CommitPython`, READY, the retry timer, the socket monitor | every acknowledgement is true, retries stay within the budget, results reach a live client |
| Lifecycle finalizer, main loop | `src/bridge/bridge_node.cpp` | none of its own | `Spin` polls all gateways in turn; the finalizer retires command and snapshot when a result is committed | both brokers agree about each execution |
| Production client | `python/planning/runtime/reliable_unity_env_backend.py`, `primitive_execution_command_transport.py` | id counter, receipts, results, the completed call | `execute` (submit, receipt, result, lookup, commit), `reset` | a transition is returned only for the execution that was requested and committed |
| Unity | not in the repository | admitted executions, unacknowledged result | admits one execution, performs it, resends its result | external: modelled as the bridge uses it |
| Endpoint snapshot retrieval | `include/planning/bridge/observation_retrieval_broker.hpp`, `src/bridge/snapshot_gateway.cpp`, `reliable_endpoint_snapshot_provider.py` | active requests (`pending_`, with their `pending` flag), cache, tombstones, parked lookups | `ReceiveResult`, `ReceiveRequest`, `ReceiveSnapshot`, MISSING, READY, `Poll`, `FinalizeRequest`; `retrieve` with a timeout | a snapshot is stored once, kept until it is no longer needed and no longer, and an answer goes to the request it belongs to |
| Reset lifecycle | `src/bridge/reset_gateway.cpp`, `wait_for_reset` and `reconnect` of the command client, `reset` of the backend, `_next_reset_identity` of `unity_env.py` | `pending_resets_` with request and completion, `terminal_resets_`, `_reset_generation`, `_reset_completions` | request, completion, acknowledgement, retries to both sides, READY, reconnect | a reset completes once, the episode is flown in the world its reset made, and no retry lives for ever |
| Diagnostic runner | `python/planning/diagnostics/reliable_single_worker.py` | consumer buffers, one recovery per primitive | as the production client, with READY recovery | same as the production client |
| Parallel sessions | `python/planning/runtime/parallel_env.py` | worker pipes, reset-required flags | step, reset, restart a worker | no step on a session in error |
| Managed runtime | `python/planning/runtime/lifecycle.py`, `managed_runtime.py`, `process_supervisor.py`, `ports.py` | registry, leases, process groups | start, stop, reap | no leaked lease or process |
| Checkpoint transaction and replay | `python/planning/awac/{replay,checkpoint,storage}.py` | memory-mapped rows, `metadata.json`, the pending-generation sidecar, artifacts, the manifest; in memory `total_added` and the recovery state | `add_batch`, flush, commit, retention, recovery, close | the last commit is always on disk, accepted, and resumed exactly |
| Critic calibration run | `python/planning/awac/calibration_runtime.py`, `phase1.py`, `_run_online_calibration` of `trainer.py` | mission cursor, completed missions, active episodes, gate history, RNG assignments, stop reason | assign, step, store, gate, commit, handle an exception, resume | each mission is stored once, caps and verdicts hold over all processes |
| CSV journals | `python/planning/data/csv_journal.py`, `common/atomic.py`, `common/checkpoint.py` | file contents | append, recover, publish | a crash loses no committed row |
| Telemetry, wire formats, learning and planning | `src/bridge/telemetry_bridge.cpp`, `include/planning/protocol`, `python/planning/{awac,sac,evaluation,...}` | - | - | outside these models, see section 7 |

### How they interact

    Python --command--> CommandGateway --forward/retry--> Unity
    Python <--RECEIVED- CommandGateway <---receipt------- Unity
    Python <--result--- ResultGateway  <---result-------- Unity
    Python --confirm--> ResultGateway  ---DURABLE_RECEIVED-> Unity
    Python --commit---> ResultGateway  --finalizer--> CommandBroker, SnapshotBroker
    Python <-COMMITTED- ResultGateway
    Python ---reset---> ResetGateway --forward/retry--> Unity
    Python <-complete-- ResetGateway <--complete------- Unity
    Python ---ack-----> ResetGateway
    Python ---lookup--> SnapshotGateway --ask/retry--> Unity
    Python <-snapshot-- SnapshotGateway <-snapshot or MISSING- Unity

    CalibrationReplayProducer --add_batch--> AWACReplayBuffer --rows, metadata, sidecar--> disk
    CalibrationReplayProducer --on_checkpoint, exception, end--> trainer --commit--> artifact, manifest
    new process --load manifest, recover replay, restore progress--> CalibrationReplayProducer

The bridge is one thread: `UnityBridgeNode::Spin` polls every socket, and a
handler runs to its end before the next starts. A handler is therefore one
action. Python is one caller at a time, and everything between the processes is
asynchronous: ZeroMQ sockets with `DONTWAIT` sends that may fail, peers that
reconnect silently, timers that fire whatever the state.

### What is hard

Repeated and late messages that meet an entry in another stage of its life;
the bounded tombstone memory behind the duplicate detection; the retry budget that
is counted per result but silences a whole peer; calls given up in Python that go
on in Unity; resets that are given up but not withdrawn, and one timer that repeats
their requests and their completions; the one READY of the client; a new process that repeats the ids of
the old. In training: a commit that is six writes, an exception or a crash between
any two of them, a recovery that may itself be interrupted, a ring buffer whose
uncommitted rows share the files with the committed ones, workers whose episodes
end out of order, verdicts that come while others fly. `PROJECT.json` "hazards" lists each at its line with the properties that
examine it, and says which no property covers yet.

## 2. Modules

| Module | Models |
|---|---|
| `TombstoneFifo` | the map-and-deque tombstone memory all stores share, as operators: `Pushed`, `Evicted`, and `Lists`, the relation between them |
| `CommandBroker` | the command broker with its gateway |
| `ResultBroker` | the result broker with its gateway and relay |
| `ExactlyOnce` | abstract specification: what the path promises the environment |
| `ReliableExecution` | Python, both brokers (`INSTANCE`), the finalizer, Unity, and lossy, reordering links |
| `ResultDelivery` | the result broker with the production client, under fairness |
| `SnapshotBroker` | the snapshot broker with its gateway, for executions and resets |
| `SnapshotRetrieval` | the snapshot broker with the production client and Unity, under fairness |
| `ResetLifecycle` | the reset gateway with the command client, `reset()` and Unity, under fairness |
| `CommittedReplay` | abstract specification: what the checkpoint transaction promises a run |
| `CheckpointTransaction` | replay, commit, retention and recovery, with an exception or a crash at every step |
| `CalibrationRun` | the calibration producer and the trainer around it, over several processes |
| `TombstoneFifoProofs`, `CommandBrokerProofs` | theorems about the deque and the command broker |
| `ResultProofs` | theorems about `ResultBroker` and `ResultDelivery` |
| `SnapshotProofs` | theorems about `SnapshotBroker` and `SnapshotRetrieval` |
| `ReliableExecutionProofs` | theorems about the whole path, with the step simulation of `ExactlyOnce` |
| `ResetLifecycleProofs`, `CheckpointTransactionProofs`, `CalibrationRunProofs` | theorems about the component each is named for |
| `MC...` | constants and state constraints for TLC |

Definitions named `...Again`, `...WithoutTombstones`, `KeepTail` and the like, which
no action uses, are wrong variants of the definition that follows
them. Replacing that definition by the variant breaks the property named for it in
`PROJECT.json` "mutants"; this shows the property can fail.

### State and actions against the code

`CommandBroker`. `values`, `terminal`, `terminalOrder` are the members of
`InMemoryCommandStore`; the two flags of an entry are the sets `unityReceipt` and
`pythonAck`. `Receive` is split by its outcome: foreign runtime, malformed,
conflict, duplicate, new. A command is its canonical payload and `HashOf` its
`command_sequence_hash`: two payloads may share a hash, since the hash covers only
the frames, and the store compares payloads while active but hashes afterwards.
Every send is a nondeterministic choice, accepted or not.

`ResultBroker`. As above, with `ready` (`peer_.state`), `connected`
(`python_connected_`) and `attempts` (`unacknowledged_attempts_`). `Relay` is the
whole loop over a set of results in map order: a failed send leaves no trace, and
the send that takes a count over `stale_retry_threshold_` marks the peer STALE and
is the last of the loop. The `committed` flag is set and erased in one handler and
does not appear.

`ReliableExecution`. `phase` is where `execute()` is with each id; each wait may
time out (`Abort`). `TakeStrayResult` follows `_offer` as written: it reads an
attribute nothing defines and the call ends. `BridgeTakesCommit` is the handler
with the finalizer in it. `Restart` is a new process with the same configured
`runtime_instance_id` and a counter that starts again; messages to the old sockets
are gone, those it had sent are not. Messages in flight are sets, so the links
reorder freely; `Lose` drops any message of a bridge link, and a message of
another link is as good as lost when nobody takes it. `performedSince` is a history variable:
it records which executions Unity admitted after Python's current request.

`SnapshotBroker`. `requests` is `pending_` and `awaiting` the keys whose entry has
`pending` set; `cache`, `terminal` and `terminalOrder` are the members of their
names, `parked` is `pending_python_snapshot_deliveries_`, `registered` says that
Unity has announced READY. A request is its key and its reference, as `KeyFor` makes
them. `toUnity` and `toPython` are what the last step handed to the sockets; each
send may be refused. `connected_` is constantly true, for nothing calls
`OnUnityDisconnected`. The retirement of a reset is part of the step that delivers
its answer; the retirement of an execution is `FinalizeExecution`, which the
finalizer of the bridge node calls.

`SnapshotRetrieval`. The client is `ZmqBridgeSnapshotRetriever`: it sends a lookup
and takes the next message on its socket (`TakeAnswer`) or gives up
(`LookupTimesOut`). The DEALER socket keeps order, so `asks` and `inbox` are
sequences. Production looks each request up once. The ROUTER to Python is not
mandatory, so an answer may be dropped after it was handed over; `lost` remembers
that this, or a refusal, has happened.

`ResetLifecycle`. `pending`, `terminal` and `terminalOrder` are the members of
`ResetGateway`; `complete` is `complete_payload` of a pending reset, whose
`unity_complete` is `complete[k] # NoState`. A reset is its generation, the number
`_next_reset_identity` puts in both ids, and a completion is the reset with the world
its `observation_ref` names. `world` counts the worlds Unity has made; `performed` is
what it remembers of each reset, and a restart forgets it. `phase` is where `reset()`
is: waiting for the completion, looking the observation up, or done. `Submit` takes a
new identity, as the environment does, or after a failed call the same one, as the
backend allows. A completion that is not waited for is put aside (`PutAside`). `wait_for_reset`
looks there first, but what is put aside is always of a reset that is over for the
client (`BufferedIsOver`, part of `Consistent`), so no action takes it from there: the
lookup at `primitive_execution_command_transport.py:320-329` never finds anything as the
environment uses the client. The client's DEALER keeps order, so
`toBridge` is a sequence; a reconnect loses any tail of it and what had arrived, and
announces itself again. The other links are sets. Python's acknowledgement is
remembered in `accepted`, waits given up in `givenUp`; both are history.

`CheckpointTransaction`. Each action is one write to a file or one change in memory,
in the order of the code: the plan of an append goes to the sidecar before the first
row; a commit flushes `metadata.json`, saves the artifact, publishes the manifest,
activates the next generation and collects old ones. `metadata` is the
`total_added` of `metadata.json`, on which its other fields depend; `slots` holds which
row is in each slot of the ring, and a crash may tear the slots being written. An
exception is `RollBackBatch`, `CommitFails` or `Interrupt`, after which `mode` leads the
process to the trainer's last commit and to `Close`, whose flush makes uncommitted
rows part of `metadata.json`. `OpenReplay` to `Reactivate` are the recovery, step by
step, and it may fail or crash too. A run has one checkpoint name here; the pass
checkpoint is the last thing a run writes, under a name of its own.

`CalibrationRun`. A wave is staged whole (`StageWave`), then its results are taken one by
one (`TakeTransition`; `StoreEpisode` and `CompleteEpisode` for the last of an episode),
as `_step_once` does. The order of the workers within a wave is left open, which is
more than the code does. `progress` is what a checkpoint holds of the run, `saved` the
last one committed. Commit and resume are one step each: this is what
`CheckpointTransaction` is shown to implement. `replay` counts how often each mission's
episode is in it. A worker's `assigned` stands for the RNG identity, a function of seed,
worker and mission. A gate gives any verdict its evaluator can give in that state.

Unity is external: it answers a command it knows without performing it again,
performs one execution at a time, and resends a result until DURABLE_RECEIVED.
This is what the bridge's retries and the contract tests rely on.

## 3. Runs

| Run | Question | Instance | Result |
|---|---|---|---|
| `command_broker` | Does the store stay consistent; are forwards, receipts and forgetting exact? | 2 own keys, 1 foreign, 3 payloads with 2 hashes, 1 tombstone, 2 messages in flight | holds |
| `result_broker` | Are store, peer and budget in step; are acknowledgements true? | 2 keys, 2 identities each, 1 tombstone, threshold 1, 2 messages in flight | holds |
| `reliable_execution` | Does the composition implement `ExactlyOnce`; do the brokers agree and is every transition committed, also after restarts? | 2 executions of one process, or 1 id asked for by 3 processes in turn with 2 actions; 3 messages in flight | holds |
| `result_delivery` | Does a result reach Python? | 2 results, threshold 2, one lost connection | holds |
| `snapshot_broker` | Is each snapshot kept, served and dropped as its request needs? | 2 executions, the first with 2 conflicting requests, 2 resets, 2 contents, 1 tombstone | holds |
| `snapshot_retrieval` | Is a lookup answered at most once, and does it end? | 1 execution, 1 reset, 1 timeout | holds |
| `reset_lifecycle` | Does a reset complete once, in the world that is then flown, and is it always accepted and retired? | 2 resets, 1 tombstone, 1 fault (a failed call, a reconnect or a restart of Unity) | holds |
| `checkpoint_transaction` | Is the last commit always complete, accepted by recovery, and resumed exactly? | 3 slots, 6 rows, 3 generations of which 2 are kept, any number of processes | holds |
| `calibration_run` | Is each mission stored once, are caps and verdicts respected, does every process end? | 4 missions (1 holdout), 2 workers, episodes of at most 2 steps, a gate every 2 steps, 3 caps, 3 processes | holds |
| `restart_reuses_id` | Is a transition always of an execution performed for this request? | 1 id, 2 processes | violated |
| `late_snapshot` | Does a lookup return the snapshot of its request, or none? | as `snapshot_retrieval` | violated |
| `resume_reassigns` | Does a resume start the first uncommitted mission? | 3 missions, otherwise as `calibration_run` | violated |

### Properties worth a word

* `StoreConsistent`: map and deque move together through every eviction. If they
  part, a tombstone is never evicted, or a finished command is accepted again.
* `SendsAreJustified` (`ForwardedOnlyWhilePending` and `ReceiptHasEvidence`): what a
  message sent now says about the store at the moment it is sent, whichever of five
  paths sent it.
* `IdentityKept` (both brokers): a key's identity is learnt once, carried to its
  tombstone, and dropped only by the eviction of the oldest.
* `RelayBudget`: counters exist only for unconfirmed active results, a READY peer
  has none over the threshold, and `python_connected_` never disagrees with the
  relay's peer state.
* `SendsAreTrue` (`DurableAckIsTrue`, `RelayedOnlyWhileUnconfirmed` and
  `CommitAnswersAreTrue`): Unity may free what it is told is held, only unconfirmed
  results are relayed, and COMMITTED is said by the one step that retires the result.
* `BrokersAgree`: an execution is active or retired in both brokers under one
  identity, or in neither.
* `TransitionIsCommitted`, `ImplementsExactlyOnce`: Python has a transition only of
  a committed execution that Unity performed, once, for that command.
* `SentResultConfirmed`, `ConfirmedOrStale`: a delivery that began ends; a READY
  peer is served until it confirms or goes STALE.
* `NothingOutlivesRequests` (`PayloadsAreOwned` and `ParkedIsActive`),
  `ServedOrOutstanding`: a cached payload or a parked lookup has an active request, and an active request has a payload or is asked for. The one bounds the cache by
  the work in progress, the other means no lookup is forgotten. The second
  needs each reference to be asked for under one key (`OneKeyPerRef`), because
  payloads are stored by reference and retired by key; Unity is expected to make such
  references, and the code relies on that without checking it.
* `SnapshotImmutable`, `SentIsHeld`: what Unity is told it may free, and what Python
  is given, are contents the bridge holds under that reference, and never change.
* `OneAnswerPerLookup`: a lookup is answered at once, when the snapshot comes, when
  it is reported missing, or not at all, and Unity is asked and answers any number
  of times; no interleaving answers twice. So a client that has never given up a
  lookup never meets a foreign answer (`RaisesOnlyAfterTimeout`).
* `CompletionsAgree`: a reset completes once. Unity may be asked and may answer any
  number of times and, after a restart, perform the reset anew; still the copies at the
  gateway, on the way to the client and put aside by it all name one world, so the
  conflict on which `_buffer_reset_completion` raises never arises.
* `ObservationIsCurrent`: the world in which Python flies is the one its reset observed:
  no repetition of any request makes Unity reset under the episode. It exempts two cases in
  which the code does not keep this: a restart of Unity, and an earlier reset that was
  given up, whose request stays pending and is performed when it gets through.
* `OnePendingReset`: the bound on `pending_resets_` which
  `tests/cpp/reset_gateway_lifecycle_memory_v1.cpp` checks ("reset active peak must be
  bounded"), here for every order: acknowledgements keep ahead of the next request as long
  as the client keeps its connection and gives up no reset.
* `ResetCompletes`: a reset that is waited for is accepted, and retired in the gateway,
  whatever is lost, unless its wait ends or the connection does.
* `CommittedRowsIntact`, `RecoveryAccepts`: the two halves of being able to resume. The
  rows of the last commit are where they were, although the ring goes on; and metadata,
  sidecar, artifact and manifest fit each other whenever a process ends, at whatever
  step of an append, a commit, a recovery or a close.
* `ImplementsCommittedReplay`: and then a resume gives exactly the rows of that commit,
  no more and no fewer.
* `LastKnownGoodKept`: retention, with unlinks that fail and artifacts that interrupted
  commits left, keeps the committed generation and the one before.
* `ReplayIsProgress`: the replay and the completed missions, two records kept in
  different places and committed together, never disagree.
* `CapsRespected`, `NoMissionSkipped`: over all processes, with missions in flight and
  episodes that end out of order.
* `VerdictIsFinal`: nothing starts after a verdict, and after divergence nothing more
  reaches the replay, though other workers are in the middle of their episodes.
* `CommittedWorkKept`, `RunEnds`: progress is never taken back by a later commit, and
  every process ends by itself.

### Bounds and why they are enough

* `TombstoneCapacity = 1` with two keys makes every eviction happen in the broker
  runs; a third commit adds no new case, and the proofs cover every capacity. In
  the composition the capacity is the number of executions, so nothing is evicted:
  after an eviction a late duplicate is a new message to both brokers, at different
  times, and `BrokersAgree` and the refinement hold only for duplicates younger
  than 1024 commits. That limit is the code's (hazard at
  `primitive_execution_result_broker.hpp:172`).
* `StaleRetryThreshold` 1 or 2: first delivery, retries within the budget, and the
  one that exhausts it.
* `MaxInFlight` (a state constraint) bounds messages under way, so that a repeated
  message can meet the next one; an order of more messages is reached as successive
  pairs, because any message may stay in flight for ever.
* `MaxRestarts = 2`, one id: what a process leaves behind meets the next two. Two
  actions let the new process ask for something else under the old id.
* `snapshot_broker`: two requests of one execution conflict; an execution and
  resets compete for one tombstone, so every eviction happens; a late reply meets an
  active, a retired and a forgotten request.
* `snapshot_retrieval`: two lookups, one of each kind, and one timeout: the least in
  which a late answer meets a later lookup. Its tombstones are not evicted.
* `reset_lifecycle`: a second reset meets all that the first has left on the way, retires
  it from the one tombstone, and one fault of either kind falls anywhere. The safety
  properties, which the proofs cover for every bound, were also checked with three resets
  and one fault, and with two resets and one fault of each kind.
* `checkpoint_transaction`: three slots and six rows make the ring wrap, refuse an
  append and write over rows that are no longer committed; with three generations of
  which two are kept, one is collected. Nothing bounds crashes or processes. The proofs
  cover every size.
* `calibration_run`: four missions for two workers let one worker pass the other, two
  resumes start in the middle, and of the three caps one ends the run by transitions,
  one by episodes, one not at all.
* Two executions in `reliable_execution`: a given-up call and its successor, which
  is what late messages need.

### Deadlock

`ResultDelivery` stops when all is committed, or when the peer is STALE for ever;
a `CheckpointTransaction` when a run is closed before its first commit or its bounds are
used up; a `CalibrationRun` when its last process has ended. Their runs do not check
deadlock. In every other run deadlock is checked.

## 4. Fairness

`ResultDelivery`, `SnapshotRetrieval`, `ResetLifecycle` and `CalibrationRun` assume some. In `ResultDelivery`, `WF` on `BridgeTakesReady` and
`BridgeTakesConfirmation`: `Spin` polls every socket for ever. `SF` on
`BridgeResends(k)`: the retry timer comes round, and its send to a connected peer
does not find the channel full for ever; strong fairness, because failed sends
and other steps disable and enable it. `WF` on `PythonTakesResult`: a session that
goes on executing reads what has arrived. Nothing is assumed of Unity, of READY
being sent again (the client sends it once), or of commits (a call may be given up
before).

In `SnapshotRetrieval`, `WF` on `BridgeTakesLookup`, `BridgeTakesReply` and
`TakeAnswer`: `Spin` polls both snapshot sockets for ever, and `retrieve` waits on its
own. `SF` on `BridgeAsksAgain(q)`: `Poll` comes round each 100 ms, and the socket to
Unity does not refuse for ever. `WF` on `BridgeSeesUnityReady` and `UnityReplies`:
Unity announces itself and replies, if only MISSING, to what reaches it; without
this a lookup could end only by its timeout, which the property does not use.
`LookupEnds` exempts behaviours in which an answer to Python was refused or dropped,
because the code does not repair that.

In `ResetLifecycle`, `WF` on `BridgeTakesMessage` and `UnityReady`: `Spin`
polls the command socket for ever and Unity announces itself. For each reset, `SF` on a retry whose send succeeds, in either
direction, on Unity taking the request, on the bridge taking a completion of it, and on
Python taking one while it waits: the timer comes round for ever, and no link refuses or
loses every one of the repetitions. Nothing is assumed of faults or of Python making the
next call.

In `CalibrationRun`, `WF` on `Run`, the steps the trainer's thread takes by itself: it goes
on, and the worker pool answers each request or fails it after a timeout. Nothing is
assumed of exceptions, crashes, verdicts or resumes.

## 5. What the failing runs show

* `restart_reuses_id`. `count(44_000_000_000_000)` starts again in each process
  (`reliable_unity_env_backend.py:180`) while `runtime_instance_id` is configured.
  A new process that asks for the same action under the same id is answered from
  the old process's entry, and returns the old execution's result although nothing
  was performed for it. `TransitionIsCommitted` still holds: with another action
  the command conflicts and the call fails.
* `late_snapshot`. `retrieve` takes the first message on its socket for its answer
  (`reliable_endpoint_snapshot_provider.py:195`). When a lookup was given up, the
  bridge still has it parked and answers it later; the next lookup reads that
  answer and raises, and leaves its own answer to the one after it.
* `resume_reassigns`. A checkpoint holds the RNG identity of every mission assigned, and
  the identity contains the worker (`calibration_runtime.py:114-150`). A mission that
  worker 1 was flying at a checkpoint is the first uncommitted one after the resume and
  goes to worker 0, so `_assign_missions` raises (`calibration_runtime.py:993`). The
  exception handler commits the same assignments, so every later resume raises too.
  With a `behavior_rng_seed`, as production has, a run can be resumed only if no mission
  in flight changes its worker.

Two more disagreements have no run of their own. `_offer` reads `self._max_buffered_results`,
which no code defines (`reliable_unity_env_backend.py:455`), so the first out-of-order
result ends whatever execution is in progress, with its receipt already sent, although
`docs/COLLECTION_RUNTIME_LIFECYCLE_MEMORY_FIX_V1.md:89-91` says that such results remain in
the transport's cache; `TakeStrayResult` of `ReliableExecution` does what the code does.
And results that reach a STALE peer are
never relayed until a new READY, which the production client does not send
(hazard at `reliable_unity_env_backend.py:427`), although the schema document speaks of
relaying until the receipt. One case is excluded from a run: with
`InterruptsInsideStep = TRUE`, a KeyboardInterrupt between `add_batch` and the entry in
`_completed_mission_ids` (`calibration_runtime.py:1346-1349`) makes the trainer commit rows
of a mission that counts as not flown, and `ReplayIsProgress` fails when the resume flies
it again. `calibration_run` leaves this one interrupt out and shows the rest.

## 6. Proofs

TLAPS checks these for every value of the constants that satisfies the named
assumptions of the module: `CommandBrokerAssumption`, `ResultBrokerAssumption`,
`SnapshotBrokerAssumption`, `ResultDeliveryAssumption` (there are results),
`SnapshotRetrievalAssumption` (there are snapshots, the timeouts are bounded by a
number), `ReliableExecutionAssumption` (execution ids are numbers, capacity and
threshold are positive), `ResetLifecycleAssumption`, `ConstantsAssumption` and
`NoneAssumption` of `CheckpointTransaction`, `ConstantsAssumption` of
`CalibrationRun`. Every safety property that a passing run checks is also a theorem.

* `TombstoneFifoProofs!ListsPushed`: pushing a key that is not listed keeps the
  deque an exact, duplicate-free, bounded list of the tombstones. It is split by
  whether the deque is full; every store's commit ends in this loop, and both
  broker proofs cite it.
* `CommandBrokerProofs`: `TypeCorrect`; `StoreStaysConsistent`, by induction on
  `TypeOK /\ StoreConsistent`. The strengthening is the disjointness of active
  keys and tombstones: without it a finished key could already be in the deque, and
  `ListsPushed` would not apply. From it follow the action properties
  `ForwardingIsExact`, `ReceiptsHaveEvidence`, together `SendsHaveEvidence`, and
  `IdentityIsKept`, one step of the proof for each action that can disturb them.
* `ResultProofs`: `BrokerInvariant`, by induction on
  `TypeOK /\ StoreConsistent /\ RelayBudget`. The three need each other: the type
  of `attempts` (at most one over the threshold) holds only because a READY peer has
  nothing over it, and that only because a commit or a receipt clears the counter
  of the key it retires. `RelayLoop` is the lemma about the loop.
  `DurableAcksAreTrue`, `RelayIsExact` and `CommitAnswersTrue`, together
  `SendsStayTrue`, and `IdentityIsKept` follow from it.
  With the production client, by induction on
  `DInv == IInv /\ OneResult /\ CountedIsUnderWay /\ RetiredWasRead`:
  the same invariant (`BrokerInvariantInDelivery`) and the truth of every message
  (`SendsAreTrueInDelivery`) survive the loss of the connection.
  `CountedResultsAreUnderWay` says that while the connection lasts a result whose
  relays are counted is in the channel or its receipt is on the way, so the
  threshold is never reached by results that got lost, and `RetiredResultsWereRead`
  that the bridge stops relaying a result only once Python has read it. The first
  needs `OneResult`, for the message in the channel must be of the result now stored.
* `SnapshotProofs`: `BrokerInvariant`, by induction on
  `TypeOK /\ StoreConsistent /\ PayloadsAreOwned /\ ParkedIsActive`. Ownership needs the
  keys to be consistent (a retired payload was filed under the reference of the
  retired request), and `ParkedIsActive` needs it too, because a commit removes only
  the lookup equal to the request it retires. `NothingIsLeftBehind`,
  `SnapshotsAreImmutable` and `SentSnapshotsAreHeld` follow from it; `ActiveRequestsAreServed` is a second
  induction, under the assumption `OneKeyPerRef`.
  `BridgeImplementsBroker` shows every step of the retrieval path to be a step of the
  broker or a stutter, so `BridgeKeepsItsPromises` carries these over. The client's
  side is `RetrievalInvariant`, by induction on
  `RInv == ClientTypes /\ Balanced /\ OneAnswerPerLookup /\ OnlyMine /\ RaisesOnlyAfterTimeout`.
  `Balanced` accounts for every lookup sent: it is answered, given up or in progress, so
  with no timeout at most one is open. `OnlyMine` says that then every answer that is
  asked for, parked or unread is for the lookup in progress, and the client has
  no answer of another to raise for (`RaisingNeedsATimeout`); it is the converse of what
  the failing run `late_snapshot` shows. The proofs count sets, with the
  library's cardinality theorems.
* `ReliableExecutionProofs`: the composition, in three parts.
  - Until the first eviction. `PathInvariant` is by induction on
    `IInv == TypeOK /\ ResultStore /\ (NothingEvicted => Joined /\ TransitionIsCommitted)`.
    `Joined` follows a command around the loop: what is forwarded is what the bridge knows,
    Unity admitted only that, a result in flight or stored is of what Unity performed, the
    two stores agree down to the order of their tombstones, and COMMITTED on its way to
    Python is true. No part is inductive by itself: `BrokersAgree` needs a result that comes
    to find its command still active, and that follows only from what Unity
    admitted. `NothingEvicted` is a predicate of the state: the deque
    never was full, or it has just become full with the last execution. With room for the
    tombstones of all executions (`RoomForAll`; the bridge keeps `TombstoneCapacity`
    of them) it always holds, and `BrokersAlwaysAgree`, `TransitionsAreCommitted`
    and `ExactlyOnceImplemented` need no further condition. The last is the step simulation of
    `ExactlyOnce` for the first process; its lemma `NoCommandUnasked` says that the
    bridge holds no command Python has not asked for, without which a performance might
    precede its request.
  - Through every eviction. `TransitionsWerePerformed` needs no condition at all: a
    transition Python returns is of a primitive Unity performed with the payload
    Python asked for, whatever the bridge forgets and however many processes repeat the
    ids. The reason is that Unity never forgets, so there is one result for each execution
    (`Named /\ Earned`). `FirstProcessIsFresh` adds that in the first process it was
    performed after the request; `restart_reuses_id` shows that this is lost with the second.
    `BrokersAgreeUnlessRecalled` and `TransitionsCommittedUnlessRecalled` say what eviction can
    do to the two stores: nothing, unless a command or a result comes for an
    execution the bridge has forgotten (`NoneRecalled`). The condition is necessary: with a
    capacity of one TLC finds a result that Unity resends after the eviction, stored as
    new with no command. In the code such a message is one delayed by more than
    `TombstoneCapacity` commits, or the command of a new process that repeats an evicted id.
  - `PathRunsTheBrokers`: the path changes each broker's store, and the relay's peer, only by
    steps of that broker's own specification.

  TLC checked these invariants before they were proved: `IInv` on 448,444 states with one
  tombstone (so with evictions) and 435,585 with two, `Earned` on the former,
  `Agreed` on the 433,765 states `NoneRecalled` leaves of it, `RInv` on 8.8 million states, `DInv` on 23,873.
* `ResetLifecycleProofs`: one inductive invariant,
  `Consistent /\ QueueOK /\ CopiesOK /\ AcksOK /\ WorldOK`. The gateway's
  memory is bounded, so a completion still on its way may be of a reset the gateway has
  forgotten, and nothing in the store says what it was. `QueueOK` makes that harmless:
  messages from Python arrive in the order of their resets, at or above every reset the
  gateway knows, so a tombstone is evicted only for a later reset (`Forgotten`) and no
  request of a forgotten one can come and open it anew. `BorneStep` is that argument, and
  `CopiesOK` (completions the client may read are those the gateway has or had) follows
  from it. `AcksOK` says that the acknowledgement of an accepted reset that is still
  pending is in the queue; with `QueueOK` it gives `OneResetPending`: a second pending
  reset would be later than a message of the first. `WorldOK` says what Unity has
  performed as long as it does not restart: every accepted reset, and besides them only the
  newest, whose world is the current one. `ConsistentAlways`, `CompletesOnce` and
  `ObservationStaysCurrent` follow from it.
* `CheckpointTransactionProofs`: one inductive invariant,
  `TypeOK /\ DiskOK /\ ProcessOK /\ CountsOK /\ CommittedRowsIntact /\ RowsKnown`.
  `DiskOK` says how the four files fit each other whoever reads them: the sidecar is of
  the committed generation and its window is the one activation writes, or it is
  older and `metadata.json` is exactly the committed one. `ProcessOK` says what a living
  process knows: its `guard` is the sidecar, or is behind it in the steps between two
  writes. Neither holds without the other, for each write is justified by what the
  process knows and each recovery by what the disk says. `CountsOK` bounds every total by
  the rows produced, and `RowsKnown` says that no slot of a committed row, or of a row in
  use, is empty or torn. `CommittedRowsSafe` is the arithmetic of the ring: `SlotDistinct`
  shows that fewer than `Capacity` consecutive rows lie in distinct slots, and
  `WindowIsSafe` that a window of activation stays below that. `AlwaysRecoverable` and
  `TypeCorrect` are corollaries. `GoodGenerationsKept` is a second induction:
  retention deletes only artifacts with `KeepLatest` later ones. `Refinement` shows each
  step to be one step of `CommittedReplay` or a stutter: `PublishManifest` is the commit,
  `WriteRows` collects, `Reactivate` resumes.
* `CalibrationRunProofs`: one inductive invariant,
  `TypeOK /\ ActiveOK /\ CursorOK /\ StepOK /\ CapsOK /\ ReplayOK /\ SavedOK`.
  `ActiveOK` (missions in flight are behind the cursor, not completed and all
  different) and `CursorOK` (what the cursor has passed is completed or in flight)
  make each other inductive: an assignment takes missions from the cursor on, in order.
  That order is the heart of the proof. Workers and missions are matched by rank;
  `RankInjective`, `RankBelow` and `RankOnto` say that a rank tells the member, that
  at most `k` members rank below `k`, and that every rank below the cardinality occurs.
  From them `TakesIsInjective` (no mission goes to two workers), `CursorMoves` (no open
  mission is passed over) and `Assigned` (at most `Slots` new missions) follow.
  `CapsOK` counts the results of the wave still to be taken against the cap of transitions,
  and the missions in flight against that of episodes. `ReplayOK` speaks of
  the missions stored, which between `StoreEpisode` and `CompleteEpisode` are one more than
  the completed ones; it needs the absence of interrupts inside a wave, which the
  theorem `ReplayExact` assumes. `SafetyCapsHold`, `NoMissionLost`,
  `VerdictsAreFinal` and `CommitsOnlyAdd` hold with those interrupts too.

Only model-checked: the liveness properties (`SentResultConfirmed`, `ConfirmedOrStale`,
`LookupEnds`, `ResetCompletes`, `RunEnds`). They rest on fairness, hence on `ENABLED`,
which is beyond this prover. The three failing runs are counterexamples and need no proof.

## 7. Not modelled

Counters, audit records, diagnostics and logging; message encoding and the
computation of hashes (the models use the identities they stand for; the
repository has vector tests for them); several Python peers on one bridge; the
ROS telemetry, which carries no result; the learner, planning, geometry and
evaluation, which are numerical, and the many offline audits and diagnostic scripts,
which read files and report. Of the trainer, checks of arguments and identities that
only refuse to start; the loss of writes the operating system has not yet put on disk
(`metadata.json` is not synced, hazard at `checkpoint.py:1782`). Unity's own program is not in the repository.

## 8. Plan

In order of importance.

1. `StandardRun`: the Standard phase over `CheckpointTransaction`, with its resume that
   opens the replay without the recovery and its handoff from the pass checkpoint.
2. The lookup of `ReliableExecution` and its finalizer use `SnapshotBroker`, so that
   `BrokersAgree` speaks of all three brokers.
3. `ParallelSessions` and `RuntimeRegistry`; `CsvJournal` with a crash at every step.
4. A variant of `ResultDelivery` for the diagnostic runner, which sends READY
   again after a timeout, once per primitive; `ReceiptDelivery`, the liveness of
   RECEIVED.
5. Theorems still to come: the simulation of `ExactlyOnce` beyond evictions, with a
   history of what was committed, under `NoneRecalled`; the theorems of the components
   above as they are modelled.
