------------------------ MODULE CheckpointTransaction ------------------------
(***************************************************************************)
(* One training run's replay (AWACReplayBuffer) and the transaction that   *)
(* commits it with a checkpoint, commit_calibration_checkpoint_transaction *)
(* of awac/checkpoint.py.  The files are the memory-mapped rows,           *)
(* metadata.json, the pending-generation sidecar, the immutable artifacts  *)
(* and the manifest, which is written last and alone decides what a resume *)
(* loads.  The process may end at every step: by an exception, which the   *)
(* trainer answers with one more commit and a close, or by a crash, which  *)
(* leaves the files as they are.                                           *)
(*                                                                         *)
(* metadata.json is a function of total_added (size and position follow    *)
(* from it, the other fields never change), so it is modelled by that      *)
(* number, and its SHA by the number too.  A row is known by the order in  *)
(* which it was produced; the SHA of an artifact by what it holds.         *)
(* Diagnostics and the alias decide nothing and are left out.              *)
(***************************************************************************)
EXTENDS Naturals, Sequences, FiniteSets

CONSTANTS
    Capacity,         \* rows of the ring buffer
    KeepLatest,       \* generations a rolling checkpoint keeps
    MaxRows,          \* bound: rows produced by all processes together
    MaxGenerations,   \* bound: generations committed
    None

ASSUME ConstantsAssumption ==
    /\ Capacity \in Nat \ {0} /\ KeepLatest \in Nat \ {0}
    /\ MaxRows \in Nat /\ MaxGenerations \in Nat

Slots == 0..(Capacity - 1)
Generations == 1..MaxGenerations
RowIds == 1..MaxRows \union {None}
Totals == 0..MaxRows

\* What an artifact, the sidecar and the manifest may hold.
Contents == [total : Totals, rows : Seq(RowIds)]
Windows == [generation : Generations, base : Totals, maxSafe : Nat, planned : Totals]
Manifests == [generation : Generations, total : Totals, content : Contents]

ASSUME NoneAssumption ==
    None \notin Nat \union Seq(RowIds) \union Contents \union Windows \union Manifests

VARIABLES
    slots,       \* the rows on disk, by slot; None before the first, or torn
    metadata,    \* total_added in metadata.json
    pending,     \* calibration_replay_pending_generation.json
    manifest,    \* <name>.transaction.json
    artifacts,   \* <name>.generation-N.pt, by N
    pc,          \* where the process is, "down" when there is none
    mode,        \* "run", then "stop" after an exception, then "close"
    total,       \* total_added in memory
    guard,       \* _calibration_checkpoint_recovery_state
    batch,       \* rows of the batch being appended
    produced     \* rows produced so far

disk == <<slots, metadata, pending, manifest, artifacts>>
memory == <<total, guard, batch>>
vars == <<disk, pc, mode, memory, produced>>

Size(t) == IF t < Capacity THEN t ELSE Capacity
Slot(t) == t % Capacity

\* The rows a replay with t rows added would sample from, oldest first.
Rows(s, t) == [i \in 1..Size(t) |-> s[Slot(t - Size(t) + i - 1)]]

Content(s, t) == [total |-> t, rows |-> Rows(s, t)]

\* Mutant: any row up to a whole ring may follow.
WholeRing(g, t) == [generation |-> g, base |-> t, maxSafe |-> t + Capacity, planned |-> t]

\* What activation writes: rows may be appended up to maxSafe without
\* touching a committed one.
Window(g, t) ==
    [generation |-> g, base |-> t, maxSafe |-> t + Capacity - Size(t), planned |-> t]

LastGeneration == IF manifest = None THEN 0 ELSE manifest.generation

Init ==
    /\ slots = [i \in Slots |-> None]
    /\ metadata = 0
    /\ pending = None
    /\ manifest = None
    /\ artifacts = [g \in Generations |-> None]
    /\ pc = "collect" /\ mode = "run"
    /\ total = 0 /\ guard = None /\ batch = 0
    /\ produced = 0
-----------------------------------------------------------------------------
\* add_batch.

\* Mutant: the plan is only kept in memory.
PlanInMemory(n) ==
    /\ pc = "collect" /\ mode = "run"
    /\ produced + n <= MaxRows
    /\ guard # None => total + n <= guard.maxSafe
    /\ guard' = IF guard = None THEN None ELSE [guard EXCEPT !.planned = total + n]
    /\ batch' = n
    /\ pc' = "append"
    /\ UNCHANGED <<disk, mode, total, produced>>

\* The plan is on disk before the first row is, and is refused when it would
\* reach a committed row.
PlanAppend(n) ==
    /\ pc = "collect" /\ mode = "run"
    /\ produced + n <= MaxRows
    /\ IF guard = None
       THEN UNCHANGED <<guard, pending>>
       ELSE /\ total + n <= guard.maxSafe
            /\ guard' = [guard EXCEPT !.planned = total + n]
            /\ pending' = guard'
    /\ batch' = n
    /\ pc' = "append"
    /\ UNCHANGED <<slots, metadata, manifest, artifacts, mode, total, produced>>

RefuseAppend(n) ==
    /\ pc = "collect" /\ mode = "run"
    /\ produced + n <= MaxRows
    /\ guard # None /\ total + n > guard.maxSafe
    /\ mode' = "stop"
    /\ UNCHANGED <<disk, pc, memory, produced>>

WriteRows ==
    /\ pc = "append"
    /\ slots' = [s \in Slots |->
                   IF \E j \in 1..batch : Slot(total + j - 1) = s
                   THEN produced + (CHOOSE j \in 1..batch : Slot(total + j - 1) = s)
                   ELSE slots[s]]
    /\ total' = total + batch
    /\ produced' = produced + batch
    /\ batch' = 0
    /\ pc' = "collect"
    /\ UNCHANGED <<metadata, pending, manifest, artifacts, mode, guard>>

\* An exception while the rows are written: they are put back as they were,
\* the plan is not.
RollBackBatch ==
    /\ pc = "append"
    /\ batch' = 0
    /\ pc' = "collect" /\ mode' = "stop"
    /\ UNCHANGED <<disk, total, guard, produced>>
-----------------------------------------------------------------------------
\* commit_calibration_checkpoint_transaction.

\* The trainer commits once more after an exception, and no more after that.
BeginCommit ==
    /\ pc = "collect" /\ mode \in {"run", "stop"}
    /\ LastGeneration < MaxGenerations
    /\ pc' = "flush"
    /\ mode' = IF mode = "run" THEN "run" ELSE "close"
    /\ UNCHANGED <<disk, memory, produced>>

FlushReplay ==
    /\ pc = "flush"
    /\ metadata' = total
    /\ pc' = "save"
    /\ UNCHANGED <<slots, pending, manifest, artifacts, mode, memory, produced>>

\* The artifact replaces one that an interrupted transaction left behind.
SaveArtifact ==
    /\ pc = "save"
    /\ artifacts' = [artifacts EXCEPT ![LastGeneration + 1] = Content(slots, total)]
    /\ pc' = "publish"
    /\ UNCHANGED <<slots, metadata, pending, manifest, mode, memory, produced>>

\* Mutant: the manifest counts generations from zero.
PublishPrevious ==
    /\ pc = "publish"
    /\ manifest' = [generation |-> LastGeneration,
                    total |-> metadata, content |-> artifacts[LastGeneration + 1]]
    /\ pc' = "activate"
    /\ UNCHANGED <<slots, metadata, pending, artifacts, mode, memory, produced>>

PublishManifest ==
    /\ pc = "publish"
    /\ manifest' = [generation |-> LastGeneration + 1,
                    total |-> metadata, content |-> artifacts[LastGeneration + 1]]
    /\ pc' = "activate"
    /\ UNCHANGED <<slots, metadata, pending, artifacts, mode, memory, produced>>

\* activate_calibration_checkpoint_generation.
Activate ==
    /\ pc = "activate"
    /\ metadata' = total
    /\ guard' = Window(manifest.generation, total)
    /\ pending' = guard'
    /\ pc' = "retain"
    /\ UNCHANGED <<slots, manifest, artifacts, mode, total, batch, produced>>

\* garbage_collect_checkpoint_generations: generations above the manifest are
\* never touched, of the others the latest are kept, and an unlink may fail.
Present == {g \in Generations : artifacts[g] # None /\ g <= LastGeneration}

\* Mutant: a generation counts itself among the later ones.
RetainedFewer == {g \in Present : Cardinality({h \in Present : h >= g}) < KeepLatest}

Retained == {g \in Present : Cardinality({h \in Present : h > g}) < KeepLatest}

CollectGarbage ==
    /\ pc = "retain"
    /\ \E deleted \in SUBSET (Present \ Retained) :
         artifacts' = [g \in Generations |-> IF g \in deleted THEN None ELSE artifacts[g]]
    /\ pc' = "collect"
    /\ UNCHANGED <<slots, metadata, pending, manifest, mode, memory, produced>>

CommitFails ==
    /\ pc \in {"flush", "save", "publish", "activate"}
    /\ pc' = "collect"
    /\ mode' = IF mode = "run" THEN "stop" ELSE "close"
    /\ UNCHANGED <<disk, memory, produced>>
-----------------------------------------------------------------------------
\* How a process ends.

Forget ==
    /\ pc' = "down" /\ mode' = "run"
    /\ total' = 0 /\ guard' = None /\ batch' = 0

\* KeyboardInterrupt, or an exception of the environment or the learner.
Interrupt ==
    /\ pc = "collect" /\ mode = "run"
    /\ mode' = "stop"
    /\ UNCHANGED <<disk, pc, memory, produced>>

\* The trainer's finally clause: close() flushes.
Close ==
    /\ pc = "collect"
    /\ metadata' = total
    /\ Forget
    /\ UNCHANGED <<slots, pending, manifest, artifacts, produced>>

\* A crash while rows are written leaves any of their slots torn.
Crash ==
    /\ pc # "down"
    /\ \E torn \in SUBSET {Slot(total + j - 1) : j \in 1..batch} :
         slots' = [s \in Slots |-> IF s \in torn THEN None ELSE slots[s]]
    /\ Forget
    /\ UNCHANGED <<metadata, pending, manifest, artifacts, produced>>
-----------------------------------------------------------------------------
\* A new process resumes: load_committed_calibration_resume_checkpoint, then
\* recover_calibration_replay_from_checkpoint_transaction.

ArtifactAccepted ==
    artifacts[manifest.generation] = manifest.content

\* _validate_calibration_pending_tail.
TailAccepted ==
    /\ pending.base = manifest.total
    /\ pending.planned \in pending.base..pending.maxSafe
    /\ metadata \in pending.base..pending.planned

OpenReplay ==
    /\ pc = "down" /\ manifest # None
    /\ ArtifactAccepted
    /\ total' = metadata
    /\ pc' = "opened"
    /\ UNCHANGED <<disk, mode, guard, batch, produced>>

\* Mutant: the tail is validated but not taken back.
KeepTail ==
    /\ pc = "opened"
    /\ pending # None /\ pending.generation = manifest.generation
    /\ TailAccepted
    /\ metadata' = manifest.total
    /\ pc' = "restored"
    /\ UNCHANGED <<slots, pending, manifest, artifacts, mode, memory, produced>>

RollBackTail ==
    /\ pc = "opened"
    /\ pending # None /\ pending.generation = manifest.generation
    /\ TailAccepted
    /\ total' = manifest.total
    /\ metadata' = manifest.total
    /\ pc' = "restored"
    /\ UNCHANGED <<slots, pending, manifest, artifacts, mode, guard, batch, produced>>

\* No sidecar, or one that a crash between manifest and activation left.
NothingToRollBack ==
    /\ pc = "opened"
    /\ pending # None => pending.generation < manifest.generation
    /\ pc' = "restored"
    /\ UNCHANGED <<disk, mode, memory, produced>>

DropPending ==
    /\ pc = "restored"
    /\ pending' = None
    /\ pc' = "verify"
    /\ UNCHANGED <<slots, metadata, manifest, artifacts, mode, memory, produced>>

Reactivate ==
    /\ pc = "verify"
    /\ metadata = manifest.total
    /\ guard' = Window(manifest.generation, total)
    /\ pending' = guard'
    /\ pc' = "collect"
    /\ UNCHANGED <<slots, metadata, manifest, artifacts, mode, total, batch, produced>>

\* An exception while resuming: the finally clause closes the replay.
ResumeFails ==
    /\ pc \in {"opened", "restored", "verify"}
    /\ metadata' = total
    /\ Forget
    /\ UNCHANGED <<slots, pending, manifest, artifacts, produced>>

Next ==
    \/ \E n \in 1..Capacity : PlanAppend(n) \/ RefuseAppend(n)
    \/ WriteRows \/ RollBackBatch
    \/ BeginCommit \/ FlushReplay \/ SaveArtifact \/ PublishManifest
    \/ Activate \/ CollectGarbage \/ CommitFails
    \/ Interrupt \/ Close \/ Crash
    \/ OpenReplay \/ RollBackTail \/ NothingToRollBack \/ DropPending
    \/ Reactivate \/ ResumeFails

Spec == Init /\ [][Next]_vars
-----------------------------------------------------------------------------
\* Types.
TypeOK ==
    /\ slots \in [Slots -> RowIds]
    /\ metadata \in Totals
    /\ pending \in Windows \union {None}
    /\ manifest \in Manifests \union {None}
    /\ artifacts \in [Generations -> Contents \union {None}]
    /\ pc \in {"down", "collect", "append", "flush", "save", "publish", "activate",
               "retain", "opened", "restored", "verify"}
    /\ mode \in {"run", "stop", "close"}
    /\ total \in Totals
    /\ guard \in Windows \union {None}
    /\ batch \in 0..Capacity
    /\ produced \in Totals

\* The rows of the last commit are on disk as they were committed, whatever
\* was appended, torn, rolled back or closed since: the ring never writes over
\* a committed row.
CommittedRowsIntact ==
    manifest # None => Rows(slots, manifest.total) = manifest.content.rows

\* Whenever a process has ended, at whatever step, the files are such that the
\* next one accepts them: nothing the run itself does makes its last committed
\* generation impossible to resume.
RecoveryAccepts ==
    pc = "down" /\ manifest # None =>
        /\ ArtifactAccepted
        /\ pending # None => pending.generation <= manifest.generation
        /\ IF pending # None /\ pending.generation = manifest.generation
           THEN TailAccepted ELSE metadata = manifest.total

\* Retention never takes the generation a resume would load, nor the one
\* before it, although unlinks fail and interrupted commits leave artifacts.
LastKnownGoodKept ==
    manifest # None =>
        \A g \in Generations :
            g <= manifest.generation /\ manifest.generation < g + KeepLatest
                => artifacts[g] # None

\* The rows a training process sees.
Live == IF pc \in {"down", "opened", "restored", "verify"}
        THEN None ELSE Rows(slots, total)

Promise == INSTANCE CommittedReplay WITH
    committed <- IF manifest = None THEN None ELSE manifest.content.rows,
    live <- Live

\* A resume gives exactly the rows of the last commit, a commit publishes
\* exactly the rows in use, and the ring buffer is a bounded queue.
ImplementsCommittedReplay == Promise!Spec
=============================================================================
