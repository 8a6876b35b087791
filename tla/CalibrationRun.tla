--------------------------- MODULE CalibrationRun ---------------------------
(***************************************************************************)
(* Critic calibration: CalibrationReplayProducer (calibration_runtime.py)  *)
(* under the trainer's _run_online_calibration, over several processes.    *)
(* Workers fly missions in lockstep waves.  An episode's transitions are   *)
(* staged until it ends; a train episode's then go to the replay in one    *)
(* batch, a holdout episode's to the holdout records.  Every Interval      *)
(* environment steps a gate is observed and the run committed.  A process  *)
(* ends by finishing, by an exception, after which the trainer commits     *)
(* once more, or by a crash; the next one resumes from the last commit.    *)
(*                                                                         *)
(* A commit is one step here, and a resume gives back what it published:   *)
(* that is what CheckpointTransaction is shown to implement.  The learner  *)
(* is left out; what its evaluation says at a gate is any verdict the gate *)
(* can give.  A replay is known by how often each mission's episode is in  *)
(* it.                                                                     *)
(***************************************************************************)
EXTENDS Naturals, FiniteSets

CONSTANTS
    NumMissions,      \* missions of the source, in order
    Holdout,          \* missions of the holdout split; the others train
    NumWorkers,
    MaxSteps,         \* the steps after which an episode is over
    Interval,         \* calibration_window_interval_steps
    SafetyCaps,       \* caps a run may be started with
    InterruptsInsideStep,   \* whether KeyboardInterrupt may hit _step_once
    MaxProcesses,     \* bound: processes of the run
    None

Missions == 1..NumMissions
Workers == 1..NumWorkers
Reasons == {"CALIBRATION_GATE_PASS", "CALIBRATION_DIVERGED",
            "CALIBRATION_SAFETY_CAP_REACHED", "MISSION_SOURCE_EXHAUSTED"}

ASSUME ConstantsAssumption ==
    /\ NumMissions \in Nat \ {0} /\ NumWorkers \in Nat \ {0}
    /\ Holdout \subseteq Missions
    /\ {MaxSteps, Interval, MaxProcesses} \subseteq Nat \ {0}
    /\ SafetyCaps \subseteq [transitions : Nat \ {0}, episodes : Nat \ {0}]
    /\ InterruptsInsideStep \in BOOLEAN
    /\ None \notin Nat \union Reasons

VARIABLES
    safetyCap,   \* Phase1CalibrationSafetyCap
    progress,    \* what a checkpoint holds of the run
    saved,       \* the committed checkpoint
    pc,          \* where the process is
    cursor,      \* _next_unassigned_index, from 1
    active,      \* the mission of each worker
    steps,       \* the staged transitions of each worker's episode
    wave,        \* workers whose results of this wave are still to be taken
    over,        \* workers whose episode this wave ends
    half,        \* the worker whose episode is stored but not yet completed
    stop,        \* _stop_reason
    failure,     \* what ended the last process that failed
    processes    \* processes so far

volatile == <<cursor, active, steps, wave, over, half, stop>>
vars == <<safetyCap, progress, saved, pc, volatile, failure, processes>>

Fresh == [completed |-> {},                           \* _completed_mission_ids
          replay |-> [m \in Missions |-> 0],
          records |-> {},                             \* missions of _holdout_records
          envSteps |-> 0,                             \* _environment_step_count
          assigned |-> [m \in Missions |-> None],     \* _episode_rng_assignments
          gate |-> "PENDING"]                         \* controller.certification

Active == {w \in Workers : active[w] # None}

CapReached ==
    \/ progress.envSteps >= safetyCap.transitions
    \/ Cardinality(progress.completed) >= safetyCap.episodes

NoEpisodes == [w \in Workers |-> None]

Init ==
    /\ safetyCap \in SafetyCaps
    /\ progress = Fresh /\ saved = None
    /\ pc = "loop" /\ cursor = 1
    /\ active = NoEpisodes /\ steps = [w \in Workers |-> 0]
    /\ wave = {} /\ over = {} /\ half = None
    /\ stop = None /\ failure = None /\ processes = 1
-----------------------------------------------------------------------------
\* run: the loop, up to the step of a wave.

\* The cap is reached at the head of the loop, or the next wave would cross it.
StopAtCap ==
    /\ \/ pc = "loop" /\ stop = None /\ CapReached
       \/ pc = "assigned" /\ Active # {}
          /\ progress.envSteps + Cardinality(Active) > safetyCap.transitions
    /\ stop' = "CALIBRATION_SAFETY_CAP_REACHED"
    /\ active' = NoEpisodes
    /\ pc' = "finish"
    /\ UNCHANGED <<safetyCap, progress, saved, cursor, steps, wave, over, half,
                   failure, processes>>

\* Mutant: the missions in flight are not counted.
SlotsOfCompleted == safetyCap.episodes - Cardinality(progress.completed)

Slots == safetyCap.episodes - Cardinality(progress.completed) - Cardinality(Active)
Idle == Workers \ Active

\* Mutant: completed missions are not left out.
OpenAgain == {m \in Missions : m >= cursor}

Open == {m \in Missions : m >= cursor /\ m \notin progress.completed}
Rank(x, S) == Cardinality({y \in S : y < x})

\* _assign_missions: idle workers in order take the missions not completed,
\* in order, as far as the episode cap allows.
Takes(w, m) ==
    w \in Idle /\ m \in Open /\ Rank(w, Idle) = Rank(m, Open) /\ Rank(w, Idle) < Slots

\* The worker is part of the RNG identity of an episode, and an identity
\* recorded before must not change.
Mismatch(w, m) == Takes(w, m) /\ progress.assigned[m] \notin {None, w}

\* A worker that finds no mission has looked through the whole source.
CursorAfter ==
    LET taken == {m \in Open : \E w \in Workers : Takes(w, m)}
        unserved == {w \in Idle : Rank(w, Idle) < Slots /\ \A m \in Open : ~Takes(w, m)}
    IN  CASE unserved # {} -> NumMissions + 1
          [] unserved = {} /\ taken = {} -> cursor
          [] OTHER -> 1 + CHOOSE m \in taken : \A q \in taken : q <= m

\* Mutant: a verdict does not keep new missions from starting.
AssignAlways == pc = "loop"

MayAssign == pc = "loop" /\ stop = None /\ ~CapReached

AssignMissions ==
    /\ MayAssign
    /\ \A w \in Workers, m \in Missions : ~Mismatch(w, m)
    /\ active' = [w \in Workers |->
                    IF \E m \in Missions : Takes(w, m)
                    THEN CHOOSE m \in Missions : Takes(w, m) ELSE active[w]]
    /\ steps' = [w \in Workers |-> IF w \in Idle THEN 0 ELSE steps[w]]
    /\ progress' = [progress EXCEPT !.assigned =
                      [m \in Missions |->
                         IF \E w \in Workers : Takes(w, m)
                         THEN CHOOSE w \in Workers : Takes(w, m) ELSE @[m]]]
    /\ cursor' = CursorAfter
    /\ pc' = "assigned"
    /\ UNCHANGED <<safetyCap, saved, wave, over, half, stop, failure, processes>>

\* Assignment raises at the first worker whose mission was another's; the
\* identities of the workers before it are recorded.
AssignmentChanged ==
    /\ MayAssign
    /\ \E w \in Workers, m \in Missions : Mismatch(w, m)
    /\ progress' = [progress EXCEPT !.assigned =
                      [m \in Missions |->
                         IF \E w \in Workers :
                              /\ Takes(w, m)
                              /\ \A v \in 1..w, q \in Missions : ~Mismatch(v, q)
                         THEN CHOOSE w \in Workers : Takes(w, m) ELSE @[m]]]
    /\ failure' = "assignment"
    /\ pc' = "failed"
    /\ UNCHANGED <<safetyCap, saved, volatile, processes>>

\* After a verdict nothing new is started.
NothingToAssign ==
    /\ pc = "loop" /\ stop # None
    /\ pc' = "assigned"
    /\ UNCHANGED <<safetyCap, progress, saved, volatile, failure, processes>>

\* Mutant: only a reason to stop ends the run.
WaitForReason ==
    /\ pc = "assigned" /\ Active = {}
    /\ pc' = IF stop # None THEN "finish" ELSE "loop"
    /\ UNCHANGED <<safetyCap, progress, saved, volatile, failure, processes>>

NothingActive ==
    /\ pc = "assigned" /\ Active = {}
    /\ IF stop # None \/ cursor > NumMissions
       THEN /\ pc' = "finish"
            /\ stop' = IF stop = None THEN "MISSION_SOURCE_EXHAUSTED" ELSE stop
       ELSE pc' = "loop" /\ UNCHANGED stop
    /\ UNCHANGED <<safetyCap, progress, saved, cursor, active, steps, wave, over, half,
                   failure, processes>>
-----------------------------------------------------------------------------
\* _step_once: the results of all workers are validated before any is taken.

StageWave ==
    /\ pc = "assigned" /\ Active # {}
    /\ progress.envSteps + Cardinality(Active) <= safetyCap.transitions
    /\ wave' = Active
    /\ \E ended \in SUBSET Active :
         /\ {w \in Active : steps[w] + 1 >= MaxSteps} \subseteq ended
         /\ over' = ended
    /\ pc' = "wave"
    /\ UNCHANGED <<safetyCap, progress, saved, cursor, active, steps, half, stop,
                   failure, processes>>

TakeTransition(w) ==
    /\ pc = "wave" /\ half = None
    /\ w \in wave \ over
    /\ wave' = wave \ {w}
    /\ steps' = [steps EXCEPT ![w] = @ + 1]
    /\ progress' = [progress EXCEPT !.envSteps = @ + 1]
    /\ UNCHANGED <<safetyCap, saved, pc, cursor, active, over, half, stop, failure,
                   processes>>

\* Mutant: every episode leaves diagnostic records.
RecordEveryEpisode(w) ==
    /\ pc = "wave" /\ half = None
    /\ w \in wave \intersect over
    /\ half' = w
    /\ progress' = [progress EXCEPT
                      !.envSteps = @ + 1,
                      !.replay[active[w]] = IF active[w] \in Holdout THEN @ ELSE @ + 1,
                      !.records = @ \union {active[w]}]
    /\ UNCHANGED <<safetyCap, saved, pc, cursor, active, steps, wave, over, stop,
                   failure, processes>>

\* The last transition of an episode: its rows go to the replay, or its
\* records to the holdout.  The replay may refuse them.
StoreEpisode(w) ==
    /\ pc = "wave" /\ half = None
    /\ w \in wave \intersect over
    /\ half' = w
    /\ progress' = [progress EXCEPT
                      !.envSteps = @ + 1,
                      !.replay[active[w]] = IF active[w] \in Holdout THEN @ ELSE @ + 1,
                      !.records = IF active[w] \in Holdout THEN @ \union {active[w]} ELSE @]
    /\ UNCHANGED <<safetyCap, saved, pc, cursor, active, steps, wave, over, stop,
                   failure, processes>>

StoreFails(w) ==
    /\ pc = "wave" /\ half = None
    /\ w \in wave \intersect over /\ active[w] \notin Holdout
    /\ progress' = [progress EXCEPT !.envSteps = @ + 1]
    /\ failure' = "runtime"
    /\ pc' = "failed"
    /\ UNCHANGED <<safetyCap, saved, volatile, processes>>

CompleteEpisode ==
    /\ pc = "wave" /\ half # None
    /\ wave' = wave \ {half}
    /\ half' = None
    /\ progress' = [progress EXCEPT !.completed = @ \union {active[half]}]
    /\ active' = [active EXCEPT ![half] = None]
    /\ UNCHANGED <<safetyCap, saved, pc, cursor, steps, over, stop, failure, processes>>

\* _observe_gate.  Without holdout records the gate is PENDING; a PENDING gate
\* at the cap is BLOCKED_PENDING.
WaveTaken == pc = "wave" /\ wave = {} /\ half = None
GateIsDue == stop = None /\ progress.envSteps % Interval = 0

NoGate ==
    /\ WaveTaken /\ ~GateIsDue
    /\ pc' = "after"
    /\ UNCHANGED <<safetyCap, progress, saved, volatile, failure, processes>>

ObserveGate(verdict) ==
    /\ WaveTaken /\ GateIsDue
    /\ progress.records = {} => verdict = "PENDING"
    /\ progress' = [progress EXCEPT !.gate =
                      IF verdict = "PENDING" /\ CapReached THEN "BLOCKED_PENDING" ELSE verdict]
    /\ pc' = "gate"
    /\ UNCHANGED <<safetyCap, saved, volatile, failure, processes>>

StopReason(gate) ==
    CASE gate = "PASS" -> "CALIBRATION_GATE_PASS"
      [] gate = "FAIL_DIVERGED" -> "CALIBRATION_DIVERGED"
      [] gate = "BLOCKED_PENDING" -> "CALIBRATION_SAFETY_CAP_REACHED"
      [] OTHER -> None

\* Every holdout record must belong to a completed holdout episode.
PayloadValid == progress.records \subseteq progress.completed

\* calibration_gate_state of a payload.
State(gate) == IF gate = "BLOCKED_PENDING" THEN "PENDING" ELSE gate

Commit(name, state) ==
    /\ PayloadValid
    /\ saved' = [name |-> name, state |-> state, progress |-> progress]

\* on_checkpoint, before the verdict takes effect.
CommitGate ==
    /\ pc = "gate"
    /\ Commit("checkpoint_last", State(progress.gate))
    /\ stop' = StopReason(progress.gate)
    /\ pc' = "after"
    /\ UNCHANGED <<safetyCap, progress, cursor, active, steps, wave, over, half,
                   failure, processes>>

\* The end of the loop's body.
AfterWave ==
    /\ pc = "after"
    /\ stop' = IF stop = None /\ CapReached THEN "CALIBRATION_SAFETY_CAP_REACHED" ELSE stop
    /\ active' = IF stop = "CALIBRATION_DIVERGED" \/ (stop' # None /\ CapReached)
                 THEN NoEpisodes ELSE active
    /\ pc' = IF stop' # None /\ (CapReached \/ \A w \in Workers : active'[w] = None)
             THEN "finish" ELSE "loop"
    /\ UNCHANGED <<safetyCap, progress, saved, cursor, steps, wave, over, half,
                   failure, processes>>
-----------------------------------------------------------------------------
\* The trainer: how a process ends, and how the next one starts.

\* The commit of a run that returned.
FinalCommit ==
    /\ pc = "finish"
    /\ IF stop = "CALIBRATION_GATE_PASS"
       THEN Commit("checkpoint_calibration_pass", "PASS")
       ELSE Commit("checkpoint_last",
                   IF stop = "CALIBRATION_SAFETY_CAP_REACHED"
                   THEN "PENDING" ELSE State(progress.gate))
    /\ pc' = "ended"
    /\ UNCHANGED <<safetyCap, progress, volatile, failure, processes>>

\* An exception: a worker or a commit fails, the critics do at the end of a
\* wave, or KeyboardInterrupt.
Fails ==
    /\ \/ pc \in {"loop", "assigned", "gate", "after"}
       \/ pc = "wave" /\ (WaveTaken \/ InterruptsInsideStep)
    /\ failure' = "runtime"
    /\ pc' = "failed"
    /\ UNCHANGED <<safetyCap, progress, saved, volatile, processes>>

\* The trainer commits once more, unless the gate diverged.
HandleFailure ==
    /\ pc = "failed"
    /\ \/ progress.gate # "FAIL_DIVERGED" /\ Commit("checkpoint_last", "PENDING")
       \/ (progress.gate = "FAIL_DIVERGED" \/ ~PayloadValid) /\ UNCHANGED saved
    /\ pc' = "ended"
    /\ UNCHANGED <<safetyCap, progress, volatile, failure, processes>>

\* The process is gone: killed, or a commit of the trainer failed too.
Crash ==
    /\ pc # "ended"
    /\ pc' = "ended"
    /\ UNCHANGED <<safetyCap, progress, saved, volatile, failure, processes>>

\* _validate_online_resume_identity.
Resumable ==
    /\ saved.name = "checkpoint_last"
    /\ saved.state = "PENDING"
    /\ saved.progress.gate \in {"PENDING", "BLOCKED_PENDING"}

\* Mutant: the missions completed are taken for a prefix of the source.
CountCompleted(p) == Cardinality(p.completed) + 1

\* _durable_next_mission_index.
FirstUncompleted(p) ==
    CHOOSE n \in 1..(NumMissions + 1) :
        n \notin p.completed /\ 1..(n - 1) \subseteq p.completed

\* Mutant: the environment steps start again.
RestoreMissionsOnly(p) == [p EXCEPT !.envSteps = 0]

\* restore_progress: the gate history gives the controller the gate it had.
Restored(p) == p

Resume ==
    /\ pc = "ended" /\ processes < MaxProcesses
    /\ saved # None /\ Resumable
    /\ processes' = processes + 1
    /\ progress' = Restored(saved.progress)
    /\ cursor' = FirstUncompleted(saved.progress)
    /\ active' = NoEpisodes /\ steps' = [w \in Workers |-> 0]
    /\ wave' = {} /\ over' = {} /\ half' = None /\ stop' = None
    /\ pc' = "loop"
    /\ UNCHANGED <<safetyCap, saved, failure>>

Run ==
    \/ StopAtCap \/ AssignMissions \/ AssignmentChanged
    \/ NothingToAssign \/ NothingActive
    \/ StageWave
    \/ \E w \in Workers : TakeTransition(w) \/ StoreEpisode(w)
    \/ CompleteEpisode
    \/ NoGate
    \/ \E verdict \in {"PENDING", "PASS", "FAIL_DIVERGED"} : ObserveGate(verdict)
    \/ CommitGate \/ AfterWave
    \/ FinalCommit \/ HandleFailure

Next == Run \/ (\E w \in Workers : StoreFails(w)) \/ Fails \/ Crash \/ Resume

\* The trainer's thread goes on, and the pool answers every request or fails
\* it after a timeout.
Spec == Init /\ [][Next]_vars /\ WF_vars(Run)
-----------------------------------------------------------------------------
Verdicts == {"PENDING", "BLOCKED_PENDING", "PASS", "FAIL_DIVERGED"}
Progress == [completed : SUBSET Missions, replay : [Missions -> Nat],
             records : SUBSET Holdout, envSteps : Nat,
             assigned : [Missions -> Workers \union {None}], gate : Verdicts]

\* Types.
TypeOK ==
    /\ safetyCap \in SafetyCaps
    /\ progress \in Progress
    /\ saved \in [name : {"checkpoint_last", "checkpoint_calibration_pass"},
                 state : Verdicts, progress : Progress] \union {None}
    /\ pc \in {"loop", "assigned", "wave", "gate", "after", "finish", "failed", "ended"}
    /\ cursor \in 1..(NumMissions + 1)
    /\ active \in [Workers -> Missions \union {None}]
    /\ steps \in [Workers -> 0..(MaxSteps - 1)]
    /\ wave \subseteq Active /\ over \subseteq Workers
    /\ half \in wave \union {None}
    /\ stop \in Reasons \union {None}
    /\ failure \in {None, "runtime", "assignment"}
    /\ processes \in 1..MaxProcesses

Exact(p) ==
    /\ \A m \in Missions :
         p.replay[m] = IF m \in p.completed \ Holdout THEN 1 ELSE 0
    /\ p.records = p.completed \intersect Holdout

\* The replay holds the episode of every completed train mission once, and
\* nothing else, in the process and in every checkpoint: no crash, failure or
\* resume duplicates a transition, drops one, or lets a holdout one in.
ReplayIsProgress ==
    /\ half = None => Exact(progress)
    /\ saved # None => Exact(saved.progress)

\* The safety cap holds over all the processes of the run, for the missions
\* in flight too.
CapsRespected ==
    /\ progress.envSteps <= safetyCap.transitions
    /\ Cardinality(progress.completed) + Cardinality(Active) <= safetyCap.episodes

\* A run that stops because the source is exhausted has completed every
\* mission, although workers end out of order and resumes start in the middle;
\* and no mission is flown twice at once or again.
NoMissionSkipped ==
    /\ stop = "MISSION_SOURCE_EXHAUSTED" => progress.completed = Missions
    /\ \A v, w \in Active :
         /\ active[v] = active[w] => v = w
         /\ half = None => active[w] \notin progress.completed

\* Once the gate has passed or diverged the process starts no mission, and
\* after divergence its replay does not change.
VerdictStep ==
    /\ stop \in {"CALIBRATION_GATE_PASS", "CALIBRATION_DIVERGED"} /\ processes' = processes
        => \A w \in Workers : active'[w] \in {active[w], None}
    /\ stop = "CALIBRATION_DIVERGED" /\ processes' = processes
        => progress'.replay = progress.replay
VerdictIsFinal == [][VerdictStep]_vars

\* What was committed stays committed: checkpoints only ever add completed
\* missions and environment steps, across processes too.
CommittedWorkStep ==
    saved # None =>
        /\ saved.progress.completed \subseteq saved'.progress.completed
        /\ saved.progress.envSteps <= saved'.progress.envSteps
CommittedWorkKept == [][CommittedWorkStep]_vars

\* Every process ends, whatever the gate says and whenever it fails.
RunEnds == pc # "ended" ~> pc = "ended"

\* What restore_progress says of itself: a resume starts the first uncommitted
\* mission from its reset.
ResumeAssigns == failure # "assignment"
=============================================================================
