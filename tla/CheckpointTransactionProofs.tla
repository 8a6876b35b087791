---------------------- MODULE CheckpointTransactionProofs ----------------------
(***************************************************************************)
(* Theorems about CheckpointTransaction, for every capacity, retention and *)
(* number of rows and generations: types, that committed rows stay on disk *)
(* as committed, that whatever ends a process the next one is accepted,    *)
(* that retention keeps the last generations, and that the whole           *)
(* implements CommittedReplay.  All follow from one inductive invariant,   *)
(* IInv, in four parts: what the files say of each other (DiskOK), what    *)
(* memory says of the files at each point of the transaction (ProcessOK),  *)
(* counts, and which slots hold rows.                                      *)
(***************************************************************************)
EXTENDS CheckpointTransaction, FiniteSetTheorems, TLAPS

\* The ring: the slot of row t, and the turn of the ring it is written in.
LEMMA DivMod ==
    ASSUME NEW t \in Nat
    PROVE  /\ Slot(t) \in Slots
           /\ t = Capacity * (t \div Capacity) + Slot(t)
           /\ t \div Capacity \in Nat
  BY ConstantsAssumption, SMTT(20) DEF Slot, Slots

\* Rows less than a ring apart have different slots (AWACReplayBuffer's
\* position is total_added modulo capacity).
LEMMA SlotDistinct ==
    ASSUME NEW x \in Nat, NEW y \in Nat, x < y, y < x + Capacity
    PROVE  Slot(x) # Slot(y)
  <1> DEFINE p == x \div Capacity
             q == y \div Capacity
  <1>1. x = Capacity * p + Slot(x) /\ y = Capacity * q + Slot(y) /\ p \in Nat /\ q \in Nat
    BY DivMod
  <1>2. Capacity \in Nat \ {0} BY ConstantsAssumption
  <1> HIDE DEF p, q
  <1>3. SUFFICES ASSUME Slot(x) = Slot(y) PROVE FALSE
    OBVIOUS
  <1>4. Slot(x) \in Nat /\ Slot(y) \in Nat BY DivMod DEF Slots
  <1>5. Capacity * q > Capacity * p /\ Capacity * q < Capacity * p + Capacity
    BY <1>1, <1>2, <1>3, <1>4, SMTT(20)
  <1>6. Capacity * (p + 1) = Capacity * p + Capacity
    <2>1. p \in Nat /\ Capacity \in Nat BY <1>1, <1>2
    <2> QED BY <2>1, SMTT(20)
  <1>7. CASE q <= p
    <2>1. Capacity * q <= Capacity * p BY <1>1, <1>2, <1>7, SMTT(20)
    <2> QED BY <2>1, <1>5, <1>1, <1>2, SMTT(20)
  <1>8. CASE q >= p + 1
    <2>1. Capacity * q >= Capacity * (p + 1) BY <1>1, <1>2, <1>8, SMTT(20)
    <2> QED BY <2>1, <1>5, <1>6, <1>1, <1>2, SMTT(20)
  <1> QED BY <1>7, <1>8, <1>1, SMT
-----------------------------------------------------------------------------
\* The inductive invariant.

Training == {"collect", "append", "flush", "save", "publish", "activate", "retain"}
Resuming == {"opened", "restored", "verify"}
Current == pending # None /\ manifest # None /\ pending.generation = manifest.generation

WindowOK(p) ==
    /\ p.base = manifest.total
    /\ p.maxSafe = p.base + Capacity - Size(p.base)
    /\ p.base <= p.planned /\ p.planned <= p.maxSafe

\* The files, at every step: a sidecar of the manifest's generation covers the
\* rows in metadata.json; without one metadata.json is that of the manifest.
DiskOK ==
    /\ manifest = None => pending = None
    /\ pending # None => pending.generation <= LastGeneration
    /\ Current =>
         /\ WindowOK(pending)
         /\ manifest.total <= metadata /\ metadata <= pending.planned
    /\ manifest # None /\ ~Current => metadata = manifest.total
    /\ manifest # None => artifacts[manifest.generation] = manifest.content

\* Memory and files: an append has its plan on disk, and until the sidecar of a
\* published generation is active no rows are appended.
ProcessOK ==
    /\ manifest = None => guard = None
    /\ pc \in Resuming => manifest # None
    /\ pc \in Training /\ Current =>
         /\ guard = pending
         /\ manifest.total <= total /\ total + batch <= guard.planned
    /\ pc \in Training /\ manifest # None /\ ~Current =>
         /\ total = manifest.total /\ pc # "append"
         /\ pc = "collect" => mode # "run"
    /\ pc = "opened" => total = metadata
    /\ pc \in {"restored", "verify"} => total = metadata /\ total = manifest.total
    /\ pc = "verify" => pending = None
    /\ pc \in {"save", "publish", "activate", "retain"} => metadata = total
    /\ pc \in {"flush", "save", "publish"} => LastGeneration < MaxGenerations
    /\ pc = "publish" => artifacts[LastGeneration + 1] = Content(slots, total)
    /\ pc = "activate" => manifest # None /\ manifest.total = total
    /\ pc = "retain" => Current
    /\ pc \in Training => metadata <= total
    /\ pc # "append" => batch = 0
    /\ pc = "append" => batch # 0

CountsOK ==
    /\ produced + batch <= MaxRows /\ total <= produced
    /\ metadata <= produced
    /\ manifest # None => manifest.total <= produced

\* No slot of a committed row, or of a row in use, is empty or torn.
RowsKnown ==
    /\ manifest # None =>
         \A i \in 1..Size(manifest.total) : Rows(slots, manifest.total)[i] # None
    /\ pc \in Training => \A i \in 1..Size(total) : Rows(slots, total)[i] # None

IInv == TypeOK /\ DiskOK /\ ProcessOK /\ CountsOK /\ CommittedRowsIntact /\ RowsKnown
-----------------------------------------------------------------------------
\* What the operators of the module return.
LEMMA RowsType ==
    ASSUME NEW s \in [Slots -> RowIds], NEW t \in Nat
    PROVE  /\ Size(t) \in Nat /\ Size(t) <= t /\ Size(t) <= Capacity
           /\ Rows(s, t) \in Seq(RowIds)
           /\ Len(Rows(s, t)) = Size(t)
           /\ \A i \in 1..Size(t) : Rows(s, t)[i] = s[Slot(t - Size(t) + i - 1)]
  <1>1. Size(t) \in Nat /\ Size(t) <= t /\ Size(t) <= Capacity
    BY ConstantsAssumption DEF Size
  <1>2. \A i \in 1..Size(t) : s[Slot(t - Size(t) + i - 1)] \in RowIds
    <2> TAKE i \in 1..Size(t)
    <2>1. t - Size(t) + i - 1 \in Nat BY <1>1
    <2> QED BY <2>1, DivMod
  <1> QED BY <1>1, <1>2 DEF Rows

\* A window begins with nothing planned, and is never empty backwards.
LEMMA WindowType ==
    ASSUME NEW g \in Generations, NEW t \in Totals
    PROVE  /\ Window(g, t) \in Windows /\ Window(g, t) # None
           /\ Window(g, t).generation = g
           /\ Window(g, t).base = t /\ Window(g, t).planned = t
           /\ Window(g, t).maxSafe = t + Capacity - Size(t)
           /\ t <= Window(g, t).maxSafe
  <1>1. t + Capacity - Size(t) \in Nat /\ t <= t + Capacity - Size(t)
    BY ConstantsAssumption DEF Size, Totals
  <1>2. Window(g, t) \in Windows BY <1>1 DEF Window, Windows
  <1> QED BY <1>1, <1>2, NoneAssumption DEF Window

\* What SaveArtifact writes is an artifact.
LEMMA ContentType ==
    ASSUME NEW s \in [Slots -> RowIds], NEW t \in Totals
    PROVE  Content(s, t) \in Contents /\ Content(s, t) # None
  <1>1. Content(s, t) \in Contents
    BY RowsType, ConstantsAssumption DEF Content, Contents, Totals
  <1> QED BY <1>1, NoneAssumption

\* The fields of the files, when there are such files.
LEMMA Fields ==
    ASSUME TypeOK
    PROVE  /\ LastGeneration \in Nat /\ LastGeneration <= MaxGenerations
           /\ manifest # None =>
                /\ manifest \in Manifests
                /\ manifest.generation \in Generations /\ manifest.total \in Totals
                /\ manifest.content \in Contents
           /\ \A w \in {pending, guard} : w # None =>
                /\ w \in Windows
                /\ w.generation \in Generations /\ w.base \in Totals
                /\ w.maxSafe \in Nat /\ w.planned \in Totals
  BY ConstantsAssumption
     DEF TypeOK, Manifests, Windows, LastGeneration, Generations

\* A plan changes the planned end of a window and nothing else.
LEMMA Extended ==
    ASSUME NEW w \in Windows, NEW t \in Totals
    PROVE  /\ [w EXCEPT !.planned = t] \in Windows /\ [w EXCEPT !.planned = t] # None
           /\ [w EXCEPT !.planned = t].generation = w.generation
           /\ [w EXCEPT !.planned = t].base = w.base
           /\ [w EXCEPT !.planned = t].maxSafe = w.maxSafe
           /\ [w EXCEPT !.planned = t].planned = t
  <1>1. [w EXCEPT !.planned = t] \in Windows BY DEF Windows
  <1> QED BY <1>1, NoneAssumption DEF Windows

\* What a step that appends rows writes.
LEMMA Written ==
    ASSUME TypeOK, CountsOK, WriteRows
    PROVE  /\ slots' \in [Slots -> RowIds]
           /\ \A t \in Nat :
                (\A j \in 1..batch : Slot(total + j - 1) # Slot(t))
                  => slots'[Slot(t)] = slots[Slot(t)]
           /\ \A t \in Nat :
                (\E j \in 1..batch : Slot(total + j - 1) = Slot(t))
                  => slots'[Slot(t)] # None
  <1> DEFINE W(s) == \E j \in 1..batch : Slot(total + j - 1) = s
             J(s) == CHOOSE j \in 1..batch : Slot(total + j - 1) = s
  <1>1. slots' = [s \in Slots |-> IF W(s) THEN produced + J(s) ELSE slots[s]]
    BY DEF WriteRows
  <1>2. \A s \in Slots : W(s) => J(s) \in 1..batch
    OBVIOUS
  <1>3. batch \in Nat /\ produced \in Nat /\ produced + batch <= MaxRows /\ MaxRows \in Nat
    BY ConstantsAssumption DEF TypeOK, CountsOK, Totals
  <1>4. \A s \in Slots : W(s) => produced + J(s) \in 1..MaxRows /\ produced + J(s) # None
    <2> SUFFICES ASSUME NEW s \in Slots, W(s)
                 PROVE  produced + J(s) \in 1..MaxRows /\ produced + J(s) # None
      OBVIOUS
    <2>1. J(s) \in 1..batch BY <1>2
    <2> HIDE DEF W, J
    <2> QED BY <2>1, <1>3, NoneAssumption
  <1>5. \A t \in Nat : Slot(t) \in Slots BY DivMod
  <1>6. slots \in [Slots -> RowIds] BY DEF TypeOK
  <1>7. \A s \in Slots : slots'[s] = IF W(s) THEN produced + J(s) ELSE slots[s]
    BY <1>1
  <1> HIDE DEF J
  <1>8. slots' \in [Slots -> RowIds]
    <2>1. \A s \in Slots : (IF W(s) THEN produced + J(s) ELSE slots[s]) \in RowIds
      <3> TAKE s \in Slots
      <3>1. CASE W(s) BY <3>1, <1>4 DEF RowIds
      <3>2. CASE ~W(s) BY <3>2, <1>6
      <3> QED BY <3>1, <3>2
    <2> HIDE DEF W
    <2> QED BY <1>1, <2>1
  <1>9. \A t \in Nat : ~W(Slot(t)) => slots'[Slot(t)] = slots[Slot(t)]
    BY <1>5, <1>7
  <1>10. \A t \in Nat : W(Slot(t)) => slots'[Slot(t)] # None
    BY <1>5, <1>7, <1>4
  <1> QED BY <1>8, <1>9, <1>10
-----------------------------------------------------------------------------
\* Each part of the invariant, action by action.  The types need the other
\* parts: the manifest is published only while a generation is left.
LEMMA TypeInductive == IInv /\ Next => TypeOK'
  <1> SUFFICES ASSUME IInv, Next
               PROVE  TypeOK'
    OBVIOUS
  <1> USE ConstantsAssumption, NoneAssumption DEF IInv
  <1>1. ASSUME NEW n \in 1..Capacity, PlanAppend(n) PROVE TypeOK'
    <2>1. total + n \in Totals
      BY <1>1 DEF PlanAppend, CountsOK, TypeOK, Totals
    <2>2. guard # None => [guard EXCEPT !.planned = total + n] \in Windows
      BY <2>1, Fields DEF Windows
    <2>3. n \in 0..Capacity OBVIOUS
    <2> QED BY <1>1, <2>2, <2>3 DEF PlanAppend, TypeOK
  <1>2. ASSUME NEW n \in 1..Capacity, RefuseAppend(n) PROVE TypeOK'
    BY <1>2 DEF RefuseAppend, TypeOK, disk, memory
  <1>3. CASE WriteRows
    <2>1. slots' \in [Slots -> RowIds] BY <1>3, Written
    <2>2. total' \in Totals /\ produced' \in Totals /\ batch' \in 0..Capacity
      BY <1>3 DEF WriteRows, CountsOK, TypeOK, Totals
    <2> QED BY <1>3, <2>1, <2>2 DEF WriteRows, TypeOK
  <1>4. CASE RollBackBatch
    BY <1>4 DEF RollBackBatch, TypeOK, disk
  <1>5. CASE BeginCommit
    BY <1>5 DEF BeginCommit, TypeOK, disk, memory
  <1>6. CASE FlushReplay
    BY <1>6 DEF FlushReplay, TypeOK, memory
  <1>7. CASE SaveArtifact
    <2>1. Content(slots, total) \in Contents BY ContentType DEF TypeOK
    <2> QED BY <1>7, <2>1 DEF SaveArtifact, TypeOK, memory
  <1>8. CASE PublishManifest
    <2>1. LastGeneration + 1 \in Generations
      BY <1>8, Fields DEF PublishManifest, ProcessOK, Generations
    <2>2. artifacts[LastGeneration + 1] \in Contents
      BY <1>8, ContentType DEF PublishManifest, ProcessOK, TypeOK
    <2>3. manifest' \in Manifests
      BY <1>8, <2>1, <2>2 DEF PublishManifest, Manifests, TypeOK
    <2> QED BY <1>8, <2>3 DEF PublishManifest, TypeOK, memory
  <1>9. CASE Activate
    <2>1. Window(manifest.generation, total) \in Windows
      BY <1>9, Fields, WindowType DEF Activate, ProcessOK, TypeOK
    <2> QED BY <1>9, <2>1 DEF Activate, TypeOK
  <1>10. CASE CollectGarbage
    BY <1>10 DEF CollectGarbage, TypeOK, memory
  <1>11. CASE CommitFails
    BY <1>11 DEF CommitFails, TypeOK, disk, memory
  <1>12. CASE Interrupt
    BY <1>12 DEF Interrupt, TypeOK, disk, memory
  <1>13. CASE Close
    BY <1>13 DEF Close, TypeOK, Forget, Totals, ProcessOK
  <1>14. CASE Crash
    <2>1. slots' \in [Slots -> RowIds]
      BY <1>14 DEF Crash, TypeOK, RowIds
    <2> QED BY <1>14, <2>1 DEF Crash, Forget, TypeOK, Totals
  <1>15. CASE OpenReplay
    BY <1>15 DEF OpenReplay, TypeOK, disk
  <1>16. CASE RollBackTail
    <2>1. manifest.total \in Totals
      BY <1>16, Fields DEF RollBackTail, ProcessOK, Resuming
    <2> QED BY <1>16, <2>1 DEF RollBackTail, TypeOK
  <1>17. CASE NothingToRollBack
    BY <1>17 DEF NothingToRollBack, TypeOK, disk, memory
  <1>18. CASE DropPending
    BY <1>18 DEF DropPending, TypeOK, memory
  <1>19. CASE Reactivate
    <2>1. Window(manifest.generation, total) \in Windows
      BY <1>19, Fields, WindowType DEF Reactivate, ProcessOK, Resuming, TypeOK
    <2> QED BY <1>19, <2>1 DEF Reactivate, TypeOK
  <1>20. CASE ResumeFails
    BY <1>20 DEF ResumeFails, TypeOK, Forget, Totals, ProcessOK
  <1> QED BY <1>1, <1>2, <1>3, <1>4, <1>5, <1>6, <1>7, <1>8, <1>9, <1>10, <1>11,
             <1>12, <1>13, <1>14, <1>15, <1>16, <1>17, <1>18, <1>19, <1>20 DEF Next

\* No count exceeds the rows produced.
LEMMA CountsInductive == IInv /\ Next => CountsOK'
  <1> SUFFICES ASSUME IInv, Next
               PROVE  CountsOK'
    OBVIOUS
  <1> USE ConstantsAssumption, NoneAssumption DEF IInv
  <1>1. ASSUME NEW n \in 1..Capacity, PlanAppend(n) PROVE CountsOK'
    BY <1>1 DEF PlanAppend, CountsOK
  <1>2. ASSUME NEW n \in 1..Capacity, RefuseAppend(n) PROVE CountsOK'
    BY <1>2 DEF RefuseAppend, disk, memory, CountsOK
  <1>3. CASE WriteRows
    <2>1. total' = total + batch /\ produced' = produced + batch /\ batch' = 0
          /\ UNCHANGED <<metadata, manifest>>
      BY <1>3 DEF WriteRows
    <2>2. batch \in Nat /\ total \in Nat /\ produced \in Nat /\ metadata \in Nat
          /\ (manifest # None => manifest.total \in Nat)
      BY Fields DEF TypeOK, Totals
    <2> QED BY <2>1, <2>2 DEF CountsOK
  <1>4. CASE RollBackBatch
    BY <1>4 DEF RollBackBatch, TypeOK, disk, Totals, ProcessOK, CountsOK, DiskOK
  <1>5. CASE BeginCommit
    BY <1>5 DEF BeginCommit, disk, memory, CountsOK
  <1>6. CASE FlushReplay
    BY <1>6 DEF FlushReplay, memory, CountsOK
  <1>7. CASE SaveArtifact
    BY <1>7 DEF SaveArtifact, memory, CountsOK
  <1>8. CASE PublishManifest
    BY <1>8 DEF PublishManifest, memory, CountsOK
  <1>9. CASE Activate
    BY <1>9 DEF Activate, CountsOK
  <1>10. CASE CollectGarbage
    BY <1>10 DEF CollectGarbage, memory, CountsOK
  <1>11. CASE CommitFails
    BY <1>11 DEF CommitFails, disk, memory, CountsOK
  <1>12. CASE Interrupt
    BY <1>12 DEF Interrupt, disk, memory, CountsOK
  <1>13. CASE Close
    BY <1>13 DEF Close, TypeOK, Forget, Totals, ProcessOK, CountsOK, DiskOK
  <1>14. CASE Crash
    BY <1>14 DEF Crash, TypeOK, Forget, Totals, ProcessOK, CountsOK, DiskOK
  <1>15. CASE OpenReplay
    BY <1>15 DEF OpenReplay, disk, CountsOK
  <1>16. CASE RollBackTail
    BY <1>16 DEF RollBackTail, TypeOK, Totals, ProcessOK, CountsOK, DiskOK
  <1>17. CASE NothingToRollBack
    BY <1>17 DEF NothingToRollBack, disk, memory, CountsOK
  <1>18. CASE DropPending
    BY <1>18 DEF DropPending, memory, CountsOK
  <1>19. CASE Reactivate
    BY <1>19 DEF Reactivate, CountsOK
  <1>20. CASE ResumeFails
    BY <1>20 DEF ResumeFails, TypeOK, Forget, Totals, ProcessOK, CountsOK, DiskOK
  <1> QED BY <1>1, <1>2, <1>3, <1>4, <1>5, <1>6, <1>7, <1>8, <1>9, <1>10, <1>11,
             <1>12, <1>13, <1>14, <1>15, <1>16, <1>17, <1>18, <1>19, <1>20 DEF Next

\* The files agree after every step, wherever the process stops.
LEMMA DiskInductive == IInv /\ Next => DiskOK'
  <1> SUFFICES ASSUME IInv, Next
               PROVE  DiskOK'
    OBVIOUS
  <1> USE ConstantsAssumption, NoneAssumption DEF IInv
  <1>1. ASSUME NEW n \in 1..Capacity, PlanAppend(n) PROVE DiskOK'
    <2>1. CASE manifest = None
      BY <1>1, <2>1 DEF PlanAppend, DiskOK, ProcessOK, Current, LastGeneration
    <2>2. CASE manifest # None
      <3>1. Current /\ guard = pending /\ manifest.total <= total
        BY <1>1, <2>2 DEF PlanAppend, ProcessOK, Training
      <3>2. pending' = [pending EXCEPT !.planned = total + n] /\ total + n <= pending.maxSafe
            /\ UNCHANGED <<slots, metadata, manifest, artifacts>>
        BY <1>1, <3>1 DEF PlanAppend, Current
      <3>3. /\ pending'.generation = pending.generation /\ pending'.base = pending.base
            /\ pending'.maxSafe = pending.maxSafe /\ pending'.planned = total + n
        BY <3>1, <3>2, Fields DEF Current, Windows
      <3>6. /\ total \in Nat /\ metadata \in Nat /\ manifest.total \in Nat /\ produced \in Nat
            /\ metadata <= total /\ manifest.total <= total
            /\ total <= produced /\ produced + n <= MaxRows
        BY <1>1, <3>1, Fields DEF PlanAppend, ProcessOK, CountsOK, Training, TypeOK,
           Totals, Current
      <3>5. total + n \in Totals /\ metadata <= total + n /\ manifest.total <= total + n
        BY <3>6 DEF Totals
      <3>4. pending' # None
        BY <3>1, <3>2, <3>5, Fields, Extended DEF Current
      <3> QED BY <3>1, <3>2, <3>3, <3>4, <3>5 DEF DiskOK, Current, WindowOK, LastGeneration
    <2> QED BY <2>1, <2>2
  <1>2. ASSUME NEW n \in 1..Capacity, RefuseAppend(n) PROVE DiskOK'
    BY <1>2 DEF RefuseAppend, disk, memory, LastGeneration, DiskOK, Current, WindowOK
  <1>3. CASE WriteRows
    BY <1>3 DEF WriteRows, LastGeneration, DiskOK, Current, WindowOK
  <1>4. CASE RollBackBatch
    BY <1>4 DEF RollBackBatch, disk, LastGeneration, DiskOK, Current, WindowOK
  <1>5. CASE BeginCommit
    BY <1>5 DEF BeginCommit, disk, memory, LastGeneration, DiskOK, Current, WindowOK
  <1>6. CASE FlushReplay
    <2>1. metadata' = total /\ UNCHANGED <<pending, manifest, artifacts>>
      BY <1>6 DEF FlushReplay
    <2>2. pc \in Training /\ batch = 0 /\ total \in Nat
      BY <1>6 DEF FlushReplay, Training, ProcessOK, TypeOK, Totals
    <2>3. Current => manifest.total <= total /\ total <= pending.planned
      BY <2>2 DEF ProcessOK
    <2>4. manifest # None /\ ~Current => total = manifest.total
      BY <2>2 DEF ProcessOK
    <2>5. (Current <=> Current') /\ LastGeneration' = LastGeneration
      BY <2>1 DEF Current, LastGeneration
    <2> QED BY <2>1, <2>3, <2>4, <2>5 DEF DiskOK, WindowOK
  <1>7. CASE SaveArtifact
    <2>1. UNCHANGED <<pending, manifest, metadata>>
      BY <1>7 DEF SaveArtifact
    <2>2. manifest # None => artifacts'[manifest.generation] = artifacts[manifest.generation]
      <3> SUFFICES ASSUME manifest # None
                   PROVE  artifacts'[manifest.generation] = artifacts[manifest.generation]
        OBVIOUS
      <3>1. manifest.generation \in Generations /\ manifest.generation \in Nat
            /\ manifest.generation # LastGeneration + 1
        BY Fields DEF Generations, LastGeneration
      <3>2. artifacts' = [artifacts EXCEPT ![LastGeneration + 1] = Content(slots, total)]
        BY <1>7 DEF SaveArtifact
      <3>3. artifacts \in [Generations -> Contents \union {None}] BY DEF TypeOK
      <3> QED BY <3>1, <3>2, <3>3
    <2>3. (Current <=> Current') /\ LastGeneration' = LastGeneration
      BY <2>1 DEF Current, LastGeneration
    <2> QED BY <2>1, <2>2, <2>3 DEF DiskOK, WindowOK
  <1>8. CASE PublishManifest
    <2>1. LastGeneration + 1 \in Generations
      BY <1>8, Fields DEF PublishManifest, ProcessOK, Generations
    <2>2. artifacts[LastGeneration + 1] \in Contents
      BY <1>8, ContentType DEF PublishManifest, ProcessOK, TypeOK
    <2>3. manifest' \in Manifests /\ manifest' # None
      BY <1>8, <2>1, <2>2 DEF PublishManifest, Manifests, TypeOK
    <2>4. /\ manifest'.generation = LastGeneration + 1 /\ manifest'.total = metadata
          /\ manifest'.content = artifacts[LastGeneration + 1]
          /\ UNCHANGED <<slots, metadata, pending, artifacts>>
      BY <1>8 DEF PublishManifest
    <2>5. pending # None => pending.generation \in Nat /\ pending.generation <= LastGeneration
      BY Fields DEF DiskOK, Generations
    <2>6. ~Current' BY <2>4, <2>5, Fields DEF Current
    <2> QED BY <2>3, <2>4, <2>5, <2>6, Fields DEF DiskOK, LastGeneration
  <1>9. CASE Activate
    <2>1. /\ manifest # None /\ manifest.total = total /\ metadata' = total
          /\ pending' = Window(manifest.generation, total)
          /\ UNCHANGED <<slots, manifest, artifacts>>
      BY <1>9 DEF Activate, ProcessOK
    <2> DEFINE w == Window(manifest.generation, total)
    <2>2. /\ w # None /\ w.generation = manifest.generation
          /\ w.base = total /\ w.planned = total
          /\ w.maxSafe = total + Capacity - Size(total) /\ total <= w.maxSafe
      BY <2>1, Fields, WindowType
    <2> HIDE DEF w
    <2>3. pending' = w BY <2>1 DEF w
    <2>4. total <= total /\ manifest.generation <= manifest.generation
      BY <2>1, Fields DEF Totals, Generations
    <2> QED BY <2>1, <2>2, <2>3, <2>4 DEF DiskOK, Current, WindowOK, LastGeneration
  <1>10. CASE CollectGarbage
    <2>1. PICK deleted \in SUBSET (Present \ Retained) :
              artifacts' = [g \in Generations |-> IF g \in deleted THEN None ELSE artifacts[g]]
      BY <1>10 DEF CollectGarbage
    <2>2. UNCHANGED <<slots, metadata, pending, manifest>> BY <1>10 DEF CollectGarbage
    <2>3. ASSUME manifest # None PROVE manifest.generation \notin deleted
      <3>1. {h \in Present : h > manifest.generation} = {}
        BY <2>3, Fields DEF Present, LastGeneration, Generations
      <3>2. Cardinality({}) = 0 BY FS_EmptySet
      <3> QED BY <3>1, <3>2, <2>1 DEF Retained
    <2>4. manifest # None => artifacts'[manifest.generation] = artifacts[manifest.generation]
      BY <2>1, <2>3, Fields
    <2> QED BY <2>2, <2>4 DEF DiskOK, Current, WindowOK, LastGeneration
  <1>11. CASE CommitFails
    BY <1>11 DEF CommitFails, disk, memory, LastGeneration, DiskOK, Current, WindowOK
  <1>12. CASE Interrupt
    BY <1>12 DEF Interrupt, disk, memory, LastGeneration, DiskOK, Current, WindowOK
  <1>13. CASE Close
    BY <1>13 DEF Close, TypeOK, Forget, Totals, LastGeneration, ProcessOK, DiskOK,
       CountsOK, Current, WindowOK, Training, Resuming
  <1>14. CASE Crash
    BY <1>14 DEF Crash, Forget, LastGeneration, DiskOK, Current, WindowOK
  <1>15. CASE OpenReplay
    BY <1>15 DEF OpenReplay, disk, LastGeneration, DiskOK, Current, WindowOK
  <1>16. CASE RollBackTail
    BY <1>16 DEF RollBackTail, TypeOK, Windows, Totals, Generations, LastGeneration,
       ProcessOK, DiskOK, CountsOK, Current, WindowOK, Training, Resuming
  <1>17. CASE NothingToRollBack
    BY <1>17 DEF NothingToRollBack, disk, memory, LastGeneration, DiskOK, Current,
       WindowOK
  <1>18. CASE DropPending
    BY <1>18 DEF DropPending, memory, LastGeneration, ProcessOK, DiskOK, Current,
       WindowOK, Training
  <1>19. CASE Reactivate
    <2>1. /\ manifest # None /\ manifest.total = total /\ metadata = total
          /\ pending' = Window(manifest.generation, total)
          /\ UNCHANGED <<slots, metadata, manifest, artifacts>>
      BY <1>19 DEF Reactivate, ProcessOK, Resuming
    <2> DEFINE w == Window(manifest.generation, total)
    <2>2. /\ w # None /\ w.generation = manifest.generation
          /\ w.base = total /\ w.planned = total
          /\ w.maxSafe = total + Capacity - Size(total) /\ total <= w.maxSafe
      BY <2>1, Fields, WindowType
    <2> HIDE DEF w
    <2>3. pending' = w BY <2>1 DEF w
    <2>4. total <= total /\ manifest.generation <= manifest.generation
      BY <2>1, Fields DEF Totals, Generations
    <2> QED BY <2>1, <2>2, <2>3, <2>4 DEF DiskOK, Current, WindowOK, LastGeneration
  <1>20. CASE ResumeFails
    BY <1>20 DEF ResumeFails, Forget, LastGeneration, ProcessOK, DiskOK, Current,
       WindowOK, Training
  <1> QED BY <1>1, <1>2, <1>3, <1>4, <1>5, <1>6, <1>7, <1>8, <1>9, <1>10, <1>11,
             <1>12, <1>13, <1>14, <1>15, <1>16, <1>17, <1>18, <1>19, <1>20 DEF Next

\* Memory agrees with the files after every step.
LEMMA ProcessInductive == IInv /\ Next => ProcessOK'
  <1> SUFFICES ASSUME IInv, Next
               PROVE  ProcessOK'
    OBVIOUS
  <1> USE ConstantsAssumption, NoneAssumption DEF IInv
  <1>1. ASSUME NEW n \in 1..Capacity, PlanAppend(n) PROVE ProcessOK'
    <2>1. CASE manifest = None
      BY <1>1, <2>1 DEF PlanAppend, DiskOK, ProcessOK, Current, Training, Resuming,
         LastGeneration
    <2>2. CASE manifest # None
      <3>1. Current /\ guard = pending /\ manifest.total <= total
        BY <1>1, <2>2 DEF PlanAppend, ProcessOK, Training
      <3>2. /\ guard' = [guard EXCEPT !.planned = total + n] /\ pending' = guard'
            /\ UNCHANGED <<slots, metadata, manifest, artifacts, total>>
            /\ pc' = "append" /\ batch' = n
        BY <1>1, <3>1 DEF PlanAppend, Current
      <3>3. guard'.generation = guard.generation /\ guard'.planned = total + n
        BY <3>1, <3>2, Fields DEF Current, Windows
      <3>5. /\ total + n \in Totals /\ total + n <= total + n /\ n # 0
            /\ metadata <= total
        BY <1>1, <3>1, Fields, SMTT(20) DEF PlanAppend, ProcessOK, CountsOK, Training, TypeOK,
           Totals
      <3>4. pending' # None
        BY <3>1, <3>2, <3>5, Fields, Extended DEF Current
      <3>6. Current' BY <3>1, <3>2, <3>3, <3>4 DEF Current
      <3> QED BY <2>2, <3>1, <3>2, <3>3, <3>5, <3>6 DEF ProcessOK, Training, Resuming
    <2> QED BY <2>1, <2>2
  <1>2. ASSUME NEW n \in 1..Capacity, RefuseAppend(n) PROVE ProcessOK'
    BY <1>2 DEF RefuseAppend, disk, memory, LastGeneration, ProcessOK, Current,
       Training, Resuming
  <1>3. CASE WriteRows
    BY <1>3 DEF WriteRows, TypeOK, disk, memory, Forget, Windows, Totals, Generations,
       LastGeneration, ProcessOK, DiskOK, Current, WindowOK, Training, Resuming, Size,
       Window
  <1>4. CASE RollBackBatch
    BY <1>4 DEF RollBackBatch, TypeOK, disk, Windows, Totals, Generations,
       LastGeneration, ProcessOK, DiskOK, Current, Training, Resuming, Window
  <1>5. CASE BeginCommit
    BY <1>5 DEF BeginCommit, disk, memory, LastGeneration, ProcessOK, Current,
       Training, Resuming
  <1>6. CASE FlushReplay
    BY <1>6 DEF FlushReplay, TypeOK, memory, Totals, LastGeneration, ProcessOK,
       Current, Training, Resuming
  <1>7. CASE SaveArtifact
    <2>1. UNCHANGED <<slots, metadata, pending, manifest, mode, total, guard, batch>>
          /\ pc = "save" /\ pc' = "publish"
      BY <1>7 DEF SaveArtifact, memory
    <2>2. LastGeneration + 1 \in Generations
      BY <1>7, Fields DEF SaveArtifact, ProcessOK, Generations
    <2>3. artifacts'[LastGeneration + 1] = Content(slots, total)
      BY <1>7, <2>2 DEF SaveArtifact, TypeOK
    <2>4. LastGeneration' = LastGeneration /\ Content(slots, total)' = Content(slots, total)
      BY <2>1 DEF LastGeneration, Content, Rows, Size
    <2> QED BY <2>1, <2>3, <2>4 DEF ProcessOK, Current, Training, Resuming, LastGeneration
  <1>8. CASE PublishManifest
    <2>1. pc = "publish" /\ pc' = "activate"
          /\ manifest'.generation = LastGeneration + 1 /\ manifest'.total = metadata
          /\ UNCHANGED <<slots, metadata, pending, artifacts, mode, total, guard, batch>>
      BY <1>8 DEF PublishManifest, memory
    <2>2. manifest' # None
      <3>1. LastGeneration + 1 \in Generations
        BY <2>1, Fields DEF ProcessOK, Generations
      <3>2. artifacts[LastGeneration + 1] \in Contents
        BY <2>1, ContentType DEF ProcessOK, TypeOK
      <3>3. manifest' \in Manifests
        BY <1>8, <3>1, <3>2 DEF PublishManifest, Manifests, TypeOK
      <3> QED BY <3>3
    <2>3. pending # None => pending.generation \in Nat /\ pending.generation <= LastGeneration
      BY Fields DEF DiskOK, Generations
    <2>4. ~Current' BY <2>1, <2>3, Fields DEF Current
    <2> QED BY <2>1, <2>2, <2>4 DEF ProcessOK, Training, Resuming
  <1>9. CASE Activate
    <2>1. /\ manifest # None /\ manifest.total = total /\ metadata' = total
          /\ guard' = Window(manifest.generation, total) /\ pending' = guard'
          /\ pc = "activate" /\ pc' = "retain"
          /\ UNCHANGED <<slots, manifest, artifacts, total, batch>>
      BY <1>9 DEF Activate, ProcessOK
    <2> DEFINE w == Window(manifest.generation, total)
    <2>2. w # None /\ w.generation = manifest.generation /\ w.planned = total
      BY <2>1, Fields, WindowType
    <2> HIDE DEF w
    <2>3. guard' = w BY <2>1 DEF w
    <2>4. batch = 0 /\ total \in Nat /\ total + 0 = total /\ total <= total
      BY <2>1, Fields DEF ProcessOK, Totals, TypeOK
    <2>5. Current' BY <2>1, <2>2, <2>3 DEF Current
    <2>6. guard' = pending' /\ manifest'.total <= total' /\ total' + batch' <= guard'.planned
      BY <2>1, <2>2, <2>3, <2>4
    <2>7. metadata' = total' /\ manifest' # None /\ batch' = 0 /\ total' <= total'
      BY <2>1, <2>4
    <2> QED BY <2>1, <2>5, <2>6, <2>7 DEF ProcessOK, Training, Resuming
  <1>10. CASE CollectGarbage
    BY <1>10 DEF CollectGarbage, memory, LastGeneration, ProcessOK, Current, Training,
       Resuming
  <1>11. CASE CommitFails
    BY <1>11 DEF CommitFails, disk, memory, LastGeneration, ProcessOK, Current,
       Training, Resuming
  <1>12. CASE Interrupt
    BY <1>12 DEF Interrupt, disk, memory, LastGeneration, ProcessOK, Current,
       Training, Resuming
  <1>13. CASE Close
    BY <1>13 DEF Close, Forget, LastGeneration, ProcessOK, Current, Training, Resuming
  <1>14. CASE Crash
    BY <1>14 DEF Crash, Forget, LastGeneration, ProcessOK, Current, Training, Resuming
  <1>15. CASE OpenReplay
    BY <1>15 DEF OpenReplay, disk, LastGeneration, ProcessOK, Current, Training,
       Resuming
  <1>16. CASE RollBackTail
    BY <1>16 DEF RollBackTail, LastGeneration, ProcessOK, Current, Training, Resuming
  <1>17. CASE NothingToRollBack
    BY <1>17 DEF NothingToRollBack, TypeOK, disk, memory, Windows, Totals,
       Generations, LastGeneration, ProcessOK, DiskOK, Current, Training, Resuming,
       Window
  <1>18. CASE DropPending
    BY <1>18 DEF DropPending, memory, LastGeneration, ProcessOK, Current, Training,
       Resuming
  <1>19. CASE Reactivate
    <2>1. /\ manifest # None /\ manifest.total = total /\ metadata = total
          /\ guard' = Window(manifest.generation, total) /\ pending' = guard'
          /\ pc = "verify" /\ pc' = "collect"
          /\ UNCHANGED <<slots, metadata, manifest, artifacts, total, batch>>
      BY <1>19 DEF Reactivate, ProcessOK, Resuming
    <2> DEFINE w == Window(manifest.generation, total)
    <2>2. w # None /\ w.generation = manifest.generation /\ w.planned = total
      BY <2>1, Fields, WindowType
    <2> HIDE DEF w
    <2>3. guard' = w BY <2>1 DEF w
    <2>4. batch = 0 /\ total \in Nat /\ total + 0 = total /\ total <= total
      BY <2>1, Fields DEF ProcessOK, Totals, TypeOK
    <2>5. Current' BY <2>1, <2>2, <2>3 DEF Current
    <2>6. guard' = pending' /\ manifest'.total <= total' /\ total' + batch' <= guard'.planned
      BY <2>1, <2>2, <2>3, <2>4
    <2>7. metadata' = total' /\ manifest' # None /\ batch' = 0 /\ total' <= total'
      BY <2>1, <2>4
    <2> QED BY <2>1, <2>5, <2>6, <2>7 DEF ProcessOK, Training, Resuming
  <1>20. CASE ResumeFails
    BY <1>20 DEF ResumeFails, Forget, LastGeneration, ProcessOK, Current, Training,
       Resuming
  <1> QED BY <1>1, <1>2, <1>3, <1>4, <1>5, <1>6, <1>7, <1>8, <1>9, <1>10, <1>11,
             <1>12, <1>13, <1>14, <1>15, <1>16, <1>17, <1>18, <1>19, <1>20 DEF Next

\* Rows are read by the slots of the last Size(t) of the t rows added.
LEMMA SameRows ==
    ASSUME NEW s, NEW r, NEW t \in Nat,
           \A x \in Nat : t - Size(t) <= x /\ x < t => s[Slot(x)] = r[Slot(x)]
    PROVE  Rows(s, t) = Rows(r, t)
  <1>1. Size(t) \in Nat /\ Size(t) <= t BY ConstantsAssumption DEF Size
  <1>2. \A i \in 1..Size(t) : s[Slot(t - Size(t) + i - 1)] = r[Slot(t - Size(t) + i - 1)]
    <2> TAKE i \in 1..Size(t)
    <2>1. /\ t - Size(t) + i - 1 \in Nat
          /\ t - Size(t) <= t - Size(t) + i - 1 /\ t - Size(t) + i - 1 < t
      BY <1>1
    <2> QED BY <2>1
  <1> QED BY <1>2 DEF Rows

\* The window leaves every committed row its slot: what may be appended never
\* falls on one.
LEMMA WindowIsSafe ==
    ASSUME NEW base \in Nat, NEW x \in Nat, NEW y \in Nat,
           base - Size(base) <= x, x < base,
           base <= y, y < base + Capacity - Size(base)
    PROVE  Slot(x) # Slot(y)
  <1>1. x < y /\ y < x + Capacity
    BY ConstantsAssumption DEF Size
  <1> QED BY <1>1, SlotDistinct

\* A batch, whole or torn, leaves the committed rows alone.
LEMMA BatchKeepsCommitted ==
    ASSUME IInv, manifest # None, pc \in Training,
           NEW r,
           \A x \in Nat : (\A j \in 1..batch : Slot(total + j - 1) # Slot(x))
                             => r[Slot(x)] = slots[Slot(x)]
    PROVE  Rows(r, manifest.total) = Rows(slots, manifest.total)
  <1> DEFINE base == manifest.total
  <1>1. base \in Nat /\ total \in Nat /\ batch \in Nat
    BY Fields DEF IInv, TypeOK, Totals
  <1>2. CASE batch = 0
    <2>1. \A x \in Nat : r[Slot(x)] = slots[Slot(x)] BY <1>2
    <2> QED BY <1>1, <2>1, SameRows
  <1>3. CASE batch # 0
    <2>1. Current /\ base <= total /\ total + batch <= base + Capacity - Size(base)
      <3>1. pc = "append" BY <1>3 DEF IInv, ProcessOK
      <3>2. Current /\ guard = pending BY <3>1 DEF IInv, ProcessOK, Training
      <3>3. /\ base <= total /\ total + batch <= guard.planned
            /\ guard.planned <= guard.maxSafe /\ guard.maxSafe = base + Capacity - Size(base)
        BY <3>1, <3>2 DEF IInv, ProcessOK, DiskOK, WindowOK, Training
      <3>4. guard.planned \in Nat /\ guard.maxSafe \in Nat
        BY <3>2, Fields DEF IInv, Current, Totals
      <3> QED BY <3>2, <3>3, <3>4, <1>1
    <2> HIDE DEF base
    <2>2. Size(base) \in Nat /\ Size(base) <= base
      BY <1>1, ConstantsAssumption DEF Size
    <2>3. ASSUME NEW x \in Nat, base - Size(base) <= x, x < base, NEW j \in 1..batch
          PROVE  Slot(total + j - 1) # Slot(x)
      <3>1. /\ total + j - 1 \in Nat /\ base <= total + j - 1
            /\ total + j - 1 < base + Capacity - Size(base)
        BY <1>1, <2>1, <2>2, ConstantsAssumption
      <3> QED BY <1>1, <2>3, <3>1, WindowIsSafe
    <2>4. \A x \in Nat : base - Size(base) <= x /\ x < base => r[Slot(x)] = slots[Slot(x)]
      BY <2>3
    <2> QED BY <1>1, <2>4, SameRows DEF base
  <1> QED BY <1>2, <1>3

\* Committed rows stay, and rows in use are rows.
LEMMA RowsInductive == IInv /\ Next => CommittedRowsIntact' /\ RowsKnown'
  <1> SUFFICES ASSUME IInv, Next
               PROVE  CommittedRowsIntact' /\ RowsKnown'
    OBVIOUS
  <1>1. CASE WriteRows
    <2>1. UNCHANGED manifest /\ total' = total + batch /\ pc = "append" /\ pc' = "collect"
      BY <1>1 DEF WriteRows
    <2>2. total \in Nat /\ batch \in Nat /\ (manifest # None => manifest.total \in Nat)
      BY Fields DEF IInv, TypeOK, Totals
    <2>3. ASSUME manifest # None
          PROVE  Rows(slots', manifest.total) = Rows(slots, manifest.total)
      BY <1>1, <2>1, <2>3, Written, BatchKeepsCommitted DEF IInv, Training
    <2>4. ASSUME NEW i \in 1..Size(total + batch)
          PROVE  Rows(slots', total + batch)[i] # None
      <3> DEFINE x == total + batch - Size(total + batch) + i - 1
      <3>1. /\ Size(total + batch) \in Nat /\ Size(total + batch) <= total + batch
            /\ Size(total) \in Nat /\ Size(total) <= total
            /\ total - Size(total) <= total + batch - Size(total + batch)
        BY <2>2, ConstantsAssumption DEF Size
      <3>2. x \in Nat /\ total - Size(total) <= x /\ x < total + batch
        BY <2>2, <3>1
      <3>3. Rows(slots', total + batch)[i] = slots'[Slot(x)]
        BY <2>2, <2>4, <3>1, <3>2, SMT DEF Rows
      <3> HIDE DEF x
      <3>4. CASE \E j \in 1..batch : Slot(total + j - 1) = Slot(x)
        BY <1>1, <3>2, <3>3, <3>4, Written DEF IInv
      <3>5. CASE \A j \in 1..batch : Slot(total + j - 1) # Slot(x)
        <4>1. x < total
          <5> SUFFICES ASSUME x >= total PROVE FALSE
            BY <2>2, <3>2
          <5>1. x - total + 1 \in 1..batch /\ total + (x - total + 1) - 1 = x
            BY <2>2, <3>2
          <5> QED BY <5>1, <3>5
        <4>2. slots'[Slot(x)] = slots[Slot(x)]
          BY <1>1, <3>2, <3>5, Written DEF IInv
        <4>3. /\ x - total + Size(total) + 1 \in 1..Size(total)
              /\ total - Size(total) + (x - total + Size(total) + 1) - 1 = x
          BY <2>2, <3>1, <3>2, <4>1
        <4>4. Rows(slots, total)[x - total + Size(total) + 1] = slots[Slot(x)]
          BY <4>3 DEF Rows
        <4>5. Rows(slots, total)[x - total + Size(total) + 1] # None
          BY <2>1, <4>3 DEF IInv, RowsKnown, Training
        <4> QED BY <3>3, <4>2, <4>4, <4>5
      <3> QED BY <3>4, <3>5
    <2> QED BY <2>1, <2>3, <2>4 DEF IInv, CommittedRowsIntact, RowsKnown
  <1>2. CASE Crash
    <2>1. PICK torn \in SUBSET {Slot(total + j - 1) : j \in 1..batch} :
              slots' = [s \in Slots |-> IF s \in torn THEN None ELSE slots[s]]
      BY <1>2 DEF Crash
    <2>2. UNCHANGED manifest /\ pc' = "down" BY <1>2 DEF Crash, Forget
    <2>3. \A x \in Nat : (\A j \in 1..batch : Slot(total + j - 1) # Slot(x))
                            => slots'[Slot(x)] = slots[Slot(x)]
      BY <2>1, DivMod
    <2>4. ASSUME manifest # None
          PROVE  Rows(slots', manifest.total) = Rows(slots, manifest.total)
      <3>1. CASE pc \in Training
        BY <2>3, <2>4, <3>1, BatchKeepsCommitted
      <3>2. CASE pc \notin Training
        <4>1. batch = 0 BY <3>2 DEF IInv, ProcessOK, Training
        <4>2. \A x \in Nat : slots'[Slot(x)] = slots[Slot(x)] BY <2>3, <4>1
        <4> QED BY <2>4, <4>2, SameRows, Fields DEF IInv, Totals
      <3> QED BY <3>1, <3>2
    <2> QED BY <2>2, <2>4 DEF IInv, CommittedRowsIntact, RowsKnown, Training
  <1>3. CASE PublishManifest
    <2>1. /\ UNCHANGED <<slots, total>> /\ metadata = total /\ pc = "publish"
          /\ manifest'.total = total /\ manifest'.content = Content(slots, total)
      BY <1>3 DEF PublishManifest, memory, IInv, ProcessOK
    <2>2. Content(slots, total).rows = Rows(slots, total) BY DEF Content
    <2> QED BY <2>1, <2>2 DEF IInv, CommittedRowsIntact, RowsKnown, Training
  <1>4. CASE /\ UNCHANGED <<slots, manifest, total>>
             /\ pc' \in Training => pc \in Training
    BY <1>4 DEF IInv, CommittedRowsIntact, RowsKnown
  <1>5. CASE Reactivate
    <2>1. UNCHANGED <<slots, manifest, total>> /\ total = manifest.total /\ manifest # None
      BY <1>5 DEF Reactivate, IInv, ProcessOK, Resuming
    <2> QED BY <2>1 DEF IInv, CommittedRowsIntact, RowsKnown
  <1>6. CASE /\ UNCHANGED <<slots, manifest>> /\ pc' \notin Training
    BY <1>6 DEF IInv, CommittedRowsIntact, RowsKnown
  <1>7. ASSUME NEW n \in 1..Capacity, PlanAppend(n) \/ RefuseAppend(n)
        PROVE  UNCHANGED <<slots, manifest, total>> /\ pc \in Training
    BY <1>7 DEF PlanAppend, RefuseAppend, disk, memory, Training
  <1>8. ASSUME RollBackBatch \/ BeginCommit \/ FlushReplay \/ SaveArtifact \/ Activate
                 \/ CollectGarbage \/ CommitFails \/ Interrupt
        PROVE  UNCHANGED <<slots, manifest, total>> /\ pc \in Training
    BY <1>8 DEF RollBackBatch, BeginCommit, FlushReplay, SaveArtifact, Activate,
                CollectGarbage, CommitFails, Interrupt, disk, memory, Training
  <1>9. ASSUME Close \/ OpenReplay \/ RollBackTail \/ NothingToRollBack \/ DropPending
                 \/ ResumeFails
        PROVE  UNCHANGED <<slots, manifest>> /\ pc' \notin Training
    BY <1>9 DEF Close, OpenReplay, RollBackTail, NothingToRollBack, DropPending,
                ResumeFails, Forget, disk, memory, Training
  <1> QED BY <1>1, <1>2, <1>3, <1>4, <1>5, <1>6, <1>7, <1>8, <1>9 DEF Next
-----------------------------------------------------------------------------
\* IInv is inductive: every step of a run keeps it.
THEOREM Inductive == IInv /\ [Next]_vars => IInv'
  <1> SUFFICES ASSUME IInv, [Next]_vars PROVE IInv'
    OBVIOUS
  <1>1. CASE Next
    BY <1>1, TypeInductive, CountsInductive, DiskInductive, ProcessInductive,
       RowsInductive
       DEF IInv
  <1>2. CASE UNCHANGED vars
    <2>1. UNCHANGED <<slots, metadata, pending, manifest, artifacts, pc, mode,
                      total, guard, batch, produced>>
      BY <1>2 DEF vars, disk, memory
    <2>2. TypeOK' BY <2>1 DEF IInv, TypeOK
    <2>3. DiskOK' BY <2>1 DEF IInv, DiskOK, Current, WindowOK, LastGeneration
    <2>4. ProcessOK'
      BY <2>1 DEF IInv, ProcessOK, Current, LastGeneration, Content, Rows, Size
    <2>5. CountsOK' BY <2>1 DEF IInv, CountsOK
    <2>6. CommittedRowsIntact' /\ RowsKnown'
      BY <2>1 DEF IInv, CommittedRowsIntact, RowsKnown
    <2> QED BY <2>2, <2>3, <2>4, <2>5, <2>6 DEF IInv
  <1> QED BY <1>1, <1>2

\* A run starts with empty files and an empty ring.
LEMMA Initially == Init => IInv
  <1> SUFFICES ASSUME Init PROVE IInv
    OBVIOUS
  <1> USE ConstantsAssumption, NoneAssumption DEF Init
  <1>1. TypeOK BY DEF TypeOK, RowIds, Totals
  <1>2. DiskOK BY DEF DiskOK, Current
  <1>3. ProcessOK BY DEF ProcessOK, Current, LastGeneration, Resuming
  <1>4. CountsOK BY DEF CountsOK
  <1>5. CommittedRowsIntact BY DEF CommittedRowsIntact
  <1>6. RowsKnown BY DEF RowsKnown, Size
  <1> QED BY <1>1, <1>2, <1>3, <1>4, <1>5, <1>6 DEF IInv

\* So it always holds.
LEMMA Invariance == Spec => []IInv
  BY Initially, Inductive, PTL DEF Spec

\* Types.
THEOREM TypeCorrect == Spec => []TypeOK
  <1>1. IInv => TypeOK BY DEF IInv
  <1> QED BY <1>1, Invariance, PTL

\* The ring never writes over a row of the last commit, whatever is appended,
\* torn, rolled back or closed.
THEOREM CommittedRowsSafe == Spec => []CommittedRowsIntact
  <1>1. IInv => CommittedRowsIntact BY DEF IInv
  <1> QED BY <1>1, Invariance, PTL

\* Whatever ends a process, at whatever step of add_batch, of the commit or of
\* the recovery itself, the files are such that recovery accepts them.
THEOREM AlwaysRecoverable == Spec => []RecoveryAccepts
  <1>1. IInv => RecoveryAccepts
    <2> SUFFICES ASSUME IInv, pc = "down", manifest # None
                 PROVE  /\ ArtifactAccepted
                        /\ pending # None => pending.generation <= manifest.generation
                        /\ IF pending # None /\ pending.generation = manifest.generation
                           THEN TailAccepted ELSE metadata = manifest.total
      BY DEF RecoveryAccepts
    <2>1. ArtifactAccepted BY DEF IInv, DiskOK, ArtifactAccepted
    <2>2. pending # None => pending.generation <= manifest.generation
      BY DEF IInv, DiskOK, LastGeneration
    <2>3. CASE Current
      <3>1. pending \in Windows /\ metadata \in Nat BY <2>3, Fields DEF IInv, TypeOK, Totals, Current
      <3>2. TailAccepted
        BY <2>3, <3>1, Fields DEF IInv, DiskOK, WindowOK, TailAccepted, Totals, Current
      <3> QED BY <2>1, <2>2, <2>3, <3>2 DEF Current
    <2>4. CASE ~Current
      BY <2>1, <2>2, <2>4 DEF IInv, DiskOK, Current
    <2> QED BY <2>3, <2>4
  <1> QED BY <1>1, Invariance, PTL

\* Retention deletes only artifacts with KeepLatest later ones.
LEMMA RetentionInductive ==
    IInv /\ LastKnownGoodKept /\ [Next]_vars => LastKnownGoodKept'
  <1> SUFFICES ASSUME IInv, LastKnownGoodKept, [Next]_vars
               PROVE  LastKnownGoodKept'
    OBVIOUS
  <1>1. CASE PublishManifest
    <2>1. /\ manifest'.generation = LastGeneration + 1 /\ UNCHANGED artifacts
          /\ pc = "publish"
      BY <1>1 DEF PublishManifest
    <2>2. LastGeneration + 1 \in Generations /\ LastGeneration \in Nat
      BY <2>1, Fields, ConstantsAssumption DEF IInv, ProcessOK, Generations
    <2>3. artifacts[LastGeneration + 1] # None
      BY <2>1, ContentType DEF IInv, TypeOK, ProcessOK
    <2>4. ASSUME NEW g \in Generations,
                 g <= LastGeneration + 1, LastGeneration + 1 < g + KeepLatest
          PROVE  artifacts[g] # None
      <3>1. CASE g = LastGeneration + 1 BY <2>3, <3>1
      <3>2. CASE g # LastGeneration + 1
        <4>1. g <= LastGeneration /\ LastGeneration < g + KeepLatest /\ g >= 1
          BY <2>2, <2>4, <3>2, ConstantsAssumption DEF Generations
        <4>2. manifest # None /\ manifest.generation = LastGeneration
          <5>1. LastGeneration # 0 BY <2>2, <4>1 DEF Generations
          <5> QED BY <5>1 DEF LastGeneration
        <4> QED BY <4>1, <4>2, <2>4 DEF LastKnownGoodKept
      <3> QED BY <3>1, <3>2
    <2> QED BY <2>1, <2>4 DEF LastKnownGoodKept
  <1>2. CASE SaveArtifact
    <2>1. /\ UNCHANGED manifest
          /\ artifacts' = [artifacts EXCEPT ![LastGeneration + 1] = Content(slots, total)]
      BY <1>2 DEF SaveArtifact
    <2>2. ASSUME NEW g \in Generations, manifest # None, g <= manifest.generation
          PROVE  artifacts'[g] = artifacts[g]
      <3>1. g # LastGeneration + 1 BY <2>2, Fields DEF IInv, LastGeneration, Generations
      <3> QED BY <2>1, <3>1 DEF IInv, TypeOK
    <2> QED BY <2>1, <2>2 DEF LastKnownGoodKept
  <1>3. CASE CollectGarbage
    <2>1. PICK deleted \in SUBSET (Present \ Retained) :
              artifacts' = [g \in Generations |-> IF g \in deleted THEN None ELSE artifacts[g]]
      BY <1>3 DEF CollectGarbage
    <2>2. UNCHANGED manifest BY <1>3 DEF CollectGarbage
    <2>3. ASSUME manifest # None, NEW g \in Generations,
                 g <= manifest.generation, manifest.generation < g + KeepLatest
          PROVE  artifacts'[g] # None
      <3> DEFINE later == {h \in Present : h > g}
      <3>1. /\ manifest.generation \in Nat /\ g \in Nat /\ LastGeneration = manifest.generation
        BY <2>3, Fields DEF IInv, LastGeneration, Generations
      <3>2. later \subseteq (g + 1)..manifest.generation
        BY <3>1 DEF Present, Generations
      <3>3. /\ IsFiniteSet((g + 1)..manifest.generation)
            /\ Cardinality((g + 1)..manifest.generation) <= manifest.generation - g
        <4>1. g + 1 \in Int /\ manifest.generation \in Int BY <3>1
        <4>2. /\ IsFiniteSet((g + 1)..manifest.generation)
              /\ Cardinality((g + 1)..manifest.generation)
                   = IF g + 1 > manifest.generation THEN 0
                     ELSE manifest.generation - (g + 1) + 1
          BY <4>1, FS_Interval
        <4> QED BY <2>3, <3>1, <4>2
      <3>4. Cardinality(later) <= Cardinality((g + 1)..manifest.generation)
            /\ IsFiniteSet(later)
        BY <3>2, <3>3, FS_Subset
      <3>5. Cardinality(later) \in Nat /\ Cardinality((g + 1)..manifest.generation) \in Nat
        BY <3>3, <3>4, FS_CardinalityType
      <3> HIDE DEF later
      <3>6. Cardinality(later) < KeepLatest
        BY <2>3, <3>1, <3>3, <3>4, <3>5, ConstantsAssumption
      <3>7. g \notin deleted
        BY <2>1, <3>6 DEF Retained, later
      <3>8. artifacts[g] # None BY <2>3 DEF LastKnownGoodKept
      <3> QED BY <2>1, <3>7, <3>8
    <2> QED BY <2>2, <2>3 DEF LastKnownGoodKept
  <1>4. CASE UNCHANGED <<manifest, artifacts>>
    BY <1>4 DEF LastKnownGoodKept
  <1>5. ASSUME NEW n \in 1..Capacity, PlanAppend(n) \/ RefuseAppend(n)
        PROVE  UNCHANGED <<manifest, artifacts>>
    BY <1>5 DEF PlanAppend, RefuseAppend, disk
  <1>6. ASSUME \/ UNCHANGED vars
               \/ WriteRows \/ RollBackBatch \/ BeginCommit \/ FlushReplay
               \/ Activate \/ CommitFails \/ Interrupt \/ Close \/ Crash
               \/ OpenReplay \/ RollBackTail \/ NothingToRollBack \/ DropPending
               \/ Reactivate \/ ResumeFails
        PROVE  UNCHANGED <<manifest, artifacts>>
    BY <1>6 DEF WriteRows, RollBackBatch, BeginCommit, FlushReplay, Activate,
       CommitFails,
                Interrupt, Close, Crash, OpenReplay, RollBackTail, NothingToRollBack,
                DropPending, Reactivate, ResumeFails, disk, vars
  <1> QED BY <1>1, <1>2, <1>3, <1>4, <1>5, <1>6 DEF Next

\* The last KeepLatest generations are always there to load.
THEOREM GoodGenerationsKept == Spec => []LastKnownGoodKept
  <1>1. Init => LastKnownGoodKept BY DEF Init, LastKnownGoodKept
  <1> QED BY <1>1, RetentionInductive, Invariance, PTL DEF Spec

\* Appending rows is the abstract replay taking them.
LEMMA WriteCollects ==
    ASSUME IInv, IInv', WriteRows
    PROVE  \E n \in 1..Capacity : Promise!Collect(n)
  <1> DEFINE t == total + batch
             old == Rows(slots, total)
             new == Rows(slots', t)
  <1>1. /\ total \in Nat /\ batch \in 1..Capacity /\ t \in Nat /\ batch \in Nat
        /\ slots \in [Slots -> RowIds] /\ slots' \in [Slots -> RowIds]
    <2>1. total \in Nat /\ batch \in 0..Capacity /\ batch # 0
      BY DEF IInv, TypeOK, ProcessOK, WriteRows, Totals
    <2>2. slots \in [Slots -> RowIds] /\ slots' \in [Slots -> RowIds]
      BY DEF IInv, TypeOK
    <2> QED BY <2>1, <2>2, ConstantsAssumption
  <1>2. /\ pc = "append" /\ pc' = "collect" /\ total' = t /\ UNCHANGED manifest
    BY DEF WriteRows
  <1>3. Live = old /\ Live' = new
    BY <1>2 DEF Live
  <1>4. /\ Size(total) \in Nat /\ Size(total) <= total /\ Size(total) <= Capacity
        /\ old \in Seq(RowIds) /\ Len(old) = Size(total)
        /\ \A i \in 1..Size(total) : old[i] = slots[Slot(total - Size(total) + i - 1)]
    BY <1>1, RowsType
  <1>5. /\ Size(t) \in Nat /\ Size(t) <= t /\ Size(t) <= Capacity
        /\ new \in Seq(RowIds) /\ Len(new) = Size(t)
        /\ \A i \in 1..Size(t) : new[i] = slots'[Slot(t - Size(t) + i - 1)]
    BY <1>1, RowsType
  <1>6. \A i \in 1..Size(t) : new[i] # None
    BY <1>2 DEF IInv, RowsKnown, Training
  <1>7. Size(t) = IF Size(total) + batch < Capacity THEN Size(total) + batch ELSE Capacity
    BY <1>1, ConstantsAssumption DEF Size
  <1>8. Size(t) <= Size(total) + batch /\ total - Size(total) <= t - Size(t)
    BY <1>1, ConstantsAssumption DEF Size
  <1>9. Len(new) = IF Len(old) + batch < Capacity THEN Len(old) + batch ELSE Capacity
    BY <1>4, <1>5, <1>7
  <1> HIDE DEF t, old, new
  <1>10. new \in Seq(Nat)
    <2>1. \A i \in 1..Len(new) : new[i] \in Nat
      BY <1>5, <1>6, ConstantsAssumption DEF RowIds
    <2> QED BY <1>5, <2>1
  <1>11. ASSUME NEW i \in 1..(Len(new) - batch)
         PROVE  new[i] = old[i + Len(old) + batch - Len(new)]
    <2> DEFINE x == t - Size(t) + i - 1
               k == i + Size(total) + batch - Size(t)
    <2>1. /\ i \in 1..Size(t) /\ x \in Nat /\ x < total /\ total - Size(total) <= x
          /\ t - Capacity <= x
      <3>1. /\ i \in Nat /\ i >= 1 /\ i <= Size(t) - batch
        BY <1>1, <1>5, <1>11
      <3> QED BY <3>1, <1>1, <1>4, <1>5, <1>8, ConstantsAssumption DEF t
    <2>2. k \in 1..Size(total) /\ total - Size(total) + k - 1 = x
      BY <1>1, <1>4, <1>5, <1>8, <1>11, SMTT(30) DEF t
    <2>3. new[i] = slots'[Slot(x)] BY <1>5, <2>1
    <2>4. old[k] = slots[Slot(x)] BY <1>4, <2>2
    <2>5. ASSUME NEW j \in 1..batch PROVE Slot(total + j - 1) # Slot(x)
      <3>1. /\ total + j - 1 \in Nat /\ x < total + j - 1
            /\ total + j - 1 < x + Capacity
        BY <1>1, <2>1, ConstantsAssumption DEF t
      <3> QED BY <2>1, <3>1, SlotDistinct
    <2>6. slots'[Slot(x)] = slots[Slot(x)] BY <2>1, <2>5, Written DEF IInv
    <2>7. k = i + Len(old) + batch - Len(new) BY <1>4, <1>5
    <2> QED BY <2>3, <2>4, <2>6, <2>7
  <1>12. old # None BY <1>4, NoneAssumption
  <1>13. Promise!Collect(batch)
    BY <1>2, <1>3, <1>9, <1>10, <1>11, <1>12 DEF Promise!Collect
  <1> QED BY <1>1, <1>13

\* Every step is one of the abstract replay or leaves it as it is.
LEMMA StepRefines ==
    ASSUME IInv, IInv', [Next]_vars
    PROVE  [Promise!Next]_<<IF manifest = None THEN None ELSE manifest.content.rows, Live>>
  <1> DEFINE committed == IF manifest = None THEN None ELSE manifest.content.rows
  <1>1. CASE WriteRows
    BY <1>1, WriteCollects DEF Promise!Next
  <1>2. CASE PublishManifest
    <2>1. /\ UNCHANGED <<slots, total>> /\ pc = "publish" /\ pc' = "activate"
          /\ manifest'.content = Content(slots, total)
      BY <1>2 DEF PublishManifest, memory, IInv, ProcessOK
    <2>2. manifest' # None BY <2>1 DEF IInv, ProcessOK
    <2>3. Content(slots, total).rows = Rows(slots, total) BY DEF Content
    <2>4. Live = Rows(slots, total) /\ Live' = Rows(slots, total)
      BY <2>1 DEF Live, Rows, Size
    <2>5. Rows(slots, total) # None
      <3>1. Rows(slots, total) \in Seq(RowIds)
        BY RowsType DEF IInv, TypeOK, Totals
      <3> QED BY <3>1, NoneAssumption
    <2>6. Promise!Commit
      BY <2>1, <2>2, <2>3, <2>4, <2>5 DEF Promise!Commit
    <2> QED BY <2>6 DEF Promise!Next
  <1>3. CASE Reactivate
    <2>1. /\ UNCHANGED <<slots, total, manifest>> /\ pc = "verify" /\ pc' = "collect"
          /\ manifest # None /\ total = manifest.total
      BY <1>3 DEF Reactivate, IInv, ProcessOK, Resuming
    <2>2. Live = None /\ Live' = Rows(slots, total)
      BY <2>1 DEF Live, Rows, Size
    <2>3. manifest.content.rows = Rows(slots, total)
      BY <2>1 DEF IInv, CommittedRowsIntact
    <2>4. Rows(slots, total) # None
      <3>1. Rows(slots, total) \in Seq(RowIds)
        BY RowsType DEF IInv, TypeOK, Totals
      <3> QED BY <3>1, NoneAssumption
    <2>5. Promise!Resume
      BY <2>1, <2>2, <2>3, <2>4 DEF Promise!Resume
    <2> QED BY <2>5 DEF Promise!Next
  <1>4. CASE UNCHANGED manifest /\ pc' \notin Training
    <2>1. pc \in {"down"} \union Resuming \union Training
          /\ pc' \in {"down"} \union Resuming \union Training
      BY DEF IInv, TypeOK, Training, Resuming
    <2>2. Live' = None BY <1>4, <2>1 DEF Live, Training, Resuming
    <2>3. Promise!End BY <1>4, <2>2 DEF Promise!End
    <2> QED BY <2>3 DEF Promise!Next
  <1>5. CASE UNCHANGED <<slots, total, manifest>> /\ pc \in Training /\ pc' \in Training
    <2>1. UNCHANGED Live BY <1>5 DEF Live, Training, Rows, Size
    <2> QED BY <1>5, <2>1
  <1>6. CASE UNCHANGED vars
    BY <1>6 DEF vars, disk, memory, Live, Rows, Size
  <1>7. ASSUME NEW n \in 1..Capacity, PlanAppend(n) \/ RefuseAppend(n)
        PROVE  UNCHANGED <<slots, total, manifest>> /\ pc \in Training /\ pc' \in Training
    BY <1>7 DEF PlanAppend, RefuseAppend, disk, memory, Training
  <1>8. ASSUME RollBackBatch \/ BeginCommit \/ FlushReplay \/ SaveArtifact \/ Activate
                 \/ CollectGarbage \/ CommitFails \/ Interrupt
        PROVE  UNCHANGED <<slots, total, manifest>> /\ pc \in Training /\ pc' \in Training
    BY <1>8 DEF RollBackBatch, BeginCommit, FlushReplay, SaveArtifact, Activate,
                CollectGarbage, CommitFails, Interrupt, disk, memory, Training
  <1>9. ASSUME Close \/ Crash \/ OpenReplay \/ RollBackTail \/ NothingToRollBack
                 \/ DropPending \/ ResumeFails
        PROVE  UNCHANGED manifest /\ pc' \notin Training
    BY <1>9 DEF Close, Crash, OpenReplay, RollBackTail, NothingToRollBack, DropPending,
                ResumeFails, Forget, disk, memory, Training
  <1> QED BY <1>1, <1>2, <1>3, <1>4, <1>5, <1>6, <1>7, <1>8, <1>9 DEF Next

\* The transaction implements a bounded replay with an atomic commit: a resume
\* gives exactly the rows of the last commit.
THEOREM Refinement == Spec => ImplementsCommittedReplay
  <1>1. Init => Promise!Init
    <2> SUFFICES ASSUME Init PROVE Promise!Init
      OBVIOUS
    <2>1. Live = <<>>
      BY ConstantsAssumption DEF Init, Live, Rows, Size
    <2> QED BY <2>1 DEF Init, Promise!Init
  <1>2. IInv /\ IInv' /\ [Next]_vars =>
          [Promise!Next]_<<IF manifest = None THEN None ELSE manifest.content.rows, Live>>
    BY StepRefines
  <1> QED BY <1>1, <1>2, Invariance, PTL
          DEF Spec, ImplementsCommittedReplay, Promise!Spec
=============================================================================
