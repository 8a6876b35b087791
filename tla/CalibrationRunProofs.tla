------------------------- MODULE CalibrationRunProofs -------------------------
(***************************************************************************)
(* Theorems about CalibrationRun, for every number of missions, workers,   *)
(* steps, caps and processes: types, that the safety caps hold over all    *)
(* processes, that no mission is skipped or flown twice, that the replay   *)
(* is exactly the completed train missions, that a verdict is final and    *)
(* that committed work is kept.  All follow from one inductive invariant,  *)
(* IInv: what the missions in flight are (ActiveOK), what the cursor has   *)
(* passed (CursorOK), where the steps of a wave can be (StepOK), the       *)
(* transitions and episodes under way (CapsOK), what is stored (ReplayOK)  *)
(* and how a checkpoint relates to the process (SavedOK).                  *)
(***************************************************************************)
EXTENDS CalibrationRun, FiniteSetTheorems, WellFoundedInduction, TLAPS

\* Ranks: the order in which workers and missions are matched.

LEMMA MinExists ==
    ASSUME NEW S \in SUBSET Nat, S # {}
    PROVE  \E x \in S : \A y \in S : x <= y
  <1> DEFINE T == {0..x : x \in S}
  <1>1. T # {}
    OBVIOUS
  <1>2. T \subseteq FiniteSubsetsOf(Nat)
    <2> SUFFICES ASSUME NEW x \in S PROVE 0..x \in FiniteSubsetsOf(Nat)
      OBVIOUS
    <2>1. IsFiniteSet(0..x) BY FS_Interval
    <2> QED BY <2>1 DEF FiniteSubsetsOf
  <1>3. PICK t \in T : \A u \in T : <<u, t>> \notin StrictSubsetOrdering(Nat)
    <2> HIDE DEF T
    <2> QED BY <1>1, <1>2, FS_StrictSubsetOrderingWellFounded, WFMin
  <1>4. PICK x \in S : t = 0..x
    OBVIOUS
  <1>5. ASSUME NEW y \in S, y < x PROVE FALSE
    <2>1. 0..y \in T /\ 0..y \in FiniteSubsetsOf(Nat) /\ 0..x \in FiniteSubsetsOf(Nat)
      BY <1>2
    <2>2. 0..y \subseteq 0..x /\ 0..y # 0..x BY <1>5
    <2> QED BY <1>3, <1>4, <2>1, <2>2 DEF StrictSubsetOrdering, FiniteSubsetsOf
  <1> QED BY <1>5

LEMMA MaxExists ==
    ASSUME NEW n \in Nat, NEW S \in SUBSET (1..n), S # {}
    PROVE  \E x \in S : \A y \in S : y <= x
  <1> DEFINE T == {n - x : x \in S}
  <1>1. T \subseteq Nat
    <2> SUFFICES ASSUME NEW x \in S PROVE n - x \in Nat
      OBVIOUS
    <2> QED OBVIOUS
  <1>2. T # {}
    OBVIOUS
  <1>3. PICK t \in T : \A u \in T : t <= u
    <2> HIDE DEF T
    <2> QED BY <1>1, <1>2, MinExists
  <1>4. PICK x \in S : t = n - x
    OBVIOUS
  <1>5. ASSUME NEW y \in S PROVE y <= x
    <2>1. t <= n - y BY <1>3
    <2>2. x \in 1..n /\ y \in 1..n OBVIOUS
    <2> QED BY <1>4, <2>1, <2>2
  <1> QED BY <1>5

LEMMA RankType ==
    ASSUME NEW n \in Nat, NEW S \in SUBSET (1..n), NEW x \in 1..n
    PROVE  /\ IsFiniteSet(S) /\ Cardinality(S) \in Nat
           /\ IsFiniteSet({y \in S : y < x}) /\ Rank(x, S) \in Nat
  <1>1. IsFiniteSet(1..n) BY FS_Interval
  <1>2. IsFiniteSet(S) BY <1>1, FS_Subset
  <1>3. {y \in S : y < x} \in SUBSET S OBVIOUS
  <1>4. IsFiniteSet({y \in S : y < x}) BY <1>2, <1>3, FS_Subset
  <1> QED BY <1>2, <1>4, FS_CardinalityType DEF Rank

\* A larger member has a larger rank.
LEMMA RankGrows ==
    ASSUME NEW n \in Nat, NEW S \in SUBSET (1..n), NEW x \in S, NEW y \in S, x < y
    PROVE  Rank(x, S) < Rank(y, S)
  <1> DEFINE Below(z) == {w \in S : w < z}
  <1>1. /\ IsFiniteSet(Below(x)) /\ IsFiniteSet(Below(y))
        /\ Rank(x, S) \in Nat /\ Rank(y, S) \in Nat
    BY RankType
  <1>2. Below(x) \in SUBSET Below(y) /\ x \in Below(y) /\ x \notin Below(x)
    <2>1. x \in Nat /\ y \in Nat /\ \A w \in S : w \in Nat OBVIOUS
    <2>2. \A w \in S : w < x => w < y BY <2>1
    <2>3. ~(x < x) BY <2>1
    <2> QED BY <2>2, <2>3, Zenon
  <1> HIDE DEF Below
  <1>3. /\ Cardinality(Below(x)) <= Cardinality(Below(y))
        /\ Cardinality(Below(x)) # Cardinality(Below(y))
    BY <1>1, <1>2, FS_Subset
  <1> QED BY <1>1, <1>3 DEF Rank, Below

\* At most k members have a rank below k.
LEMMA RankBelow ==
    ASSUME NEW n \in Nat, NEW S \in SUBSET (1..n), NEW k \in Nat
    PROVE  /\ IsFiniteSet({x \in S : Rank(x, S) < k})
           /\ Cardinality({x \in S : Rank(x, S) < k}) <= k
  <1> DEFINE L == {x \in S : Rank(x, S) < k}
  <1>1. L \in SUBSET (1..n) OBVIOUS
  <1>2. CASE L = {}
    BY <1>2, FS_EmptySet
  <1>3. CASE L # {}
    <2>1. PICK x \in L : \A y \in L : y <= x
      <3> HIDE DEF L
      <3> QED BY <1>1, <1>3, MaxExists
    <2>2. /\ IsFiniteSet(L) /\ Cardinality(L) \in Nat
          /\ IsFiniteSet({y \in S : y < x}) /\ Rank(x, S) \in Nat
      <3>1. x \in 1..n OBVIOUS
      <3> HIDE DEF L
      <3> QED BY <1>1, <3>1, RankType
    <2>3. (L \ {x}) \in SUBSET {y \in S : y < x}
      <3>1. ASSUME NEW y \in L, y # x PROVE y < x
        BY <2>1, <3>1
      <3> QED BY <3>1
    <2>4. Cardinality(L \ {x}) <= Rank(x, S)
      BY <2>2, <2>3, FS_Subset DEF Rank
    <2>5. Cardinality(L \ {x}) = Cardinality(L) - 1
      <3> HIDE DEF L
      <3> QED BY <2>2, FS_RemoveElement
    <2>6. Rank(x, S) < k OBVIOUS
    <2> QED BY <2>2, <2>4, <2>5, <2>6
  <1> QED BY <1>2, <1>3

\* Every k below the cardinality is the rank of a member.
LEMMA RankOnto ==
    ASSUME NEW n \in Nat, NEW S \in SUBSET (1..n), NEW k \in Nat, k < Cardinality(S)
    PROVE  \E x \in S : Rank(x, S) = k
  <1> DEFINE L == {x \in S : Rank(x, S) < k}
             H == {x \in S : Rank(x, S) >= k}
  <1>1. \A x \in S : Rank(x, S) \in Nat BY RankType
  <1>2. IsFiniteSet(L) /\ Cardinality(L) <= k BY RankBelow
  <1>3. H # {}
    <2>1. H = {} => S = L
      <3>1. \A x \in S : Rank(x, S) < k \/ Rank(x, S) >= k BY <1>1
      <3> QED BY <3>1, Zenon
    <2>2. L = S => Cardinality(S) <= k BY <1>2
    <2>3. Cardinality(S) \in Nat
      <3>1. IsFiniteSet(1..n) BY FS_Interval
      <3> QED BY <3>1, FS_Subset, FS_CardinalityType
    <2> QED BY <2>1, <2>2, <2>3
  <1>4. PICK x \in H : \A y \in H : x <= y
    <2>1. H \subseteq Nat
      <3>1. H \subseteq S BY Zenon
      <3>2. S \subseteq Nat OBVIOUS
      <3> QED BY <3>1, <3>2, Zenon
    <2> HIDE DEF H
    <2> QED BY <1>3, <2>1, MinExists
  <1>5. {y \in S : y < x} \in SUBSET L
    <2>1. ASSUME NEW y \in S, y < x, y \notin L PROVE FALSE
      <3>1. y \in H BY <1>1, <2>1
      <3>2. x <= y BY <1>4, <3>1
      <3> QED BY <2>1, <3>2
    <2> QED BY <2>1
  <1>6. Rank(x, S) <= Cardinality(L) BY <1>2, <1>5, FS_Subset DEF Rank
  <1>7. Cardinality(L) \in Nat BY <1>2, FS_CardinalityType
  <1>8. x \in S /\ Rank(x, S) >= k /\ Rank(x, S) \in Nat BY <1>1
  <1> HIDE DEF L, H
  <1> QED BY <1>2, <1>6, <1>7, <1>8
-----------------------------------------------------------------------------
\* The inductive invariant.

\* Missions in flight are behind the cursor, not completed, and all different.
ActiveOK ==
    /\ \A w \in Active : active[w] < cursor /\ active[w] \notin progress.completed
    /\ \A v, w \in Active : active[v] = active[w] => v = w

\* While the loop runs, a mission the cursor has passed is completed or flown.
CursorOK ==
    pc \in {"loop", "assigned", "wave", "gate", "after"} =>
        \A m \in Missions :
            m < cursor => m \in progress.completed \/ \E w \in Workers : active[w] = m

\* Results are only open inside a wave, and a reason to stop confines the loop.
StepOK ==
    /\ pc \in {"loop", "assigned", "gate", "after", "finish"} => wave = {}
    /\ pc = "wave" => \A w \in wave : steps[w] + 1 >= MaxSteps => w \in over
    /\ stop = "CALIBRATION_DIVERGED" => pc \in {"after", "finish", "failed", "ended"}
    /\ stop = "MISSION_SOURCE_EXHAUSTED" =>
         pc \in {"finish", "ended"} /\ progress.completed = Missions

\* The results of the wave not yet counted.
Uncounted == IF pc = "wave" THEN wave \ {half} ELSE {}

\* The cap of transitions holds with the rest of the wave, and that of
\* episodes with those in flight.
CapsOK ==
    /\ progress.envSteps + Cardinality(Uncounted) <= safetyCap.transitions
    /\ Cardinality(progress.completed) + Cardinality(Active) <= safetyCap.episodes
    /\ saved # None =>
         /\ saved.progress.envSteps <= safetyCap.transitions
         /\ Cardinality(saved.progress.completed) <= safetyCap.episodes

\* The missions whose episode is stored.
Stored == progress.completed \union (IF half = None THEN {} ELSE {active[half]})

\* Unless a wave can be interrupted, what is stored is exact at every step.
ReplayOK ==
    ~InterruptsInsideStep =>
        /\ half # None => pc \in {"wave", "ended"}
        /\ Exact([progress EXCEPT !.completed = Stored])
        /\ saved # None => Exact(saved.progress)

\* A process is never behind its checkpoint.
SavedOK ==
    saved # None =>
        /\ saved.progress.completed \subseteq progress.completed
        /\ saved.progress.envSteps <= progress.envSteps

IInv == TypeOK /\ ActiveOK /\ CursorOK /\ StepOK /\ CapsOK /\ ReplayOK /\ SavedOK
-----------------------------------------------------------------------------
\* What the type invariant says of the parts of the state.
LEMMA ProgressFields ==
    ASSUME NEW p \in Progress
    PROVE  /\ p.completed \subseteq Missions /\ p.replay \in [Missions -> Nat]
           /\ p.records \subseteq Holdout /\ p.envSteps \in Nat
           /\ p.assigned \in [Missions -> Workers \union {None}]
           /\ p.gate \in Verdicts
           /\ IsFiniteSet(p.completed) /\ Cardinality(p.completed) \in Nat
  <1>1. /\ p.completed \subseteq Missions /\ p.replay \in [Missions -> Nat]
        /\ p.records \subseteq Holdout /\ p.envSteps \in Nat
        /\ p.assigned \in [Missions -> Workers \union {None}]
        /\ p.gate \in Verdicts
    BY DEF Progress
  <1>2. IsFiniteSet(1..NumMissions) BY ConstantsAssumption, FS_Interval
  <1>3. IsFiniteSet(p.completed) BY <1>1, <1>2, FS_Subset DEF Missions
  <1> QED BY <1>1, <1>3, FS_CardinalityType

LEMMA Facts ==
    ASSUME TypeOK
    PROVE  /\ safetyCap.transitions \in Nat /\ safetyCap.episodes \in Nat
           /\ progress \in Progress
           /\ saved # None => saved.progress \in Progress
           /\ Missions \subseteq Nat /\ Workers \subseteq Nat
           /\ None \notin Missions /\ None \notin Workers
           /\ Active \in SUBSET Workers /\ IsFiniteSet(Active) /\ Cardinality(Active) \in Nat
           /\ IsFiniteSet(wave) /\ Cardinality(wave) \in Nat
           /\ \A w \in Active : active[w] \in Missions
  <1>1. IsFiniteSet(1..NumWorkers) BY ConstantsAssumption, FS_Interval
  <1>2. Active \in SUBSET Workers BY DEF Active
  <1>3. wave \in SUBSET Workers BY <1>2 DEF TypeOK
  <1>4. IsFiniteSet(Active) /\ IsFiniteSet(wave)
    BY <1>1, <1>2, <1>3, FS_Subset DEF Workers
  <1>5. safetyCap.transitions \in Nat /\ safetyCap.episodes \in Nat
    BY ConstantsAssumption DEF TypeOK
  <1>6. Missions \subseteq Nat /\ Workers \subseteq Nat
        /\ None \notin Missions /\ None \notin Workers
    BY ConstantsAssumption DEF Missions, Workers
  <1>7. \A w \in Active : active[w] \in Missions
    BY <1>6 DEF Active, TypeOK
  <1>8. saved # None => saved.progress \in Progress
    BY DEF TypeOK
  <1> QED BY <1>2, <1>4, <1>5, <1>6, <1>7, <1>8, FS_CardinalityType DEF TypeOK

\* The cap of transitions, without the wave.
LEMMA CapsSpelledOut ==
    ASSUME IInv
    PROVE  /\ Uncounted \in SUBSET wave /\ IsFiniteSet(Uncounted)
           /\ Cardinality(Uncounted) \in Nat
           /\ progress.envSteps <= safetyCap.transitions
           /\ Cardinality(progress.completed) \in Nat /\ progress.envSteps \in Nat
  <1>1. Uncounted \in SUBSET wave BY DEF Uncounted
  <1>2. IsFiniteSet(Uncounted) BY <1>1, Facts, FS_Subset DEF IInv
  <1>3. Cardinality(Uncounted) \in Nat BY <1>2, FS_CardinalityType
  <1>4. /\ safetyCap.transitions \in Nat /\ progress.envSteps \in Nat
        /\ Cardinality(progress.completed) \in Nat
    BY Facts, ProgressFields DEF IInv
  <1> QED BY <1>1, <1>2, <1>3, <1>4 DEF IInv, CapsOK
-----------------------------------------------------------------------------
\* Steps that only move the process.

LEMMA PcMoves ==
    ASSUME IInv,
           UNCHANGED <<safetyCap, progress, saved, volatile, processes>>,
           failure' \in {None, "runtime", "assignment"},
           pc' \in {"loop", "assigned", "after", "failed", "ended"},
           pc' \in {"loop", "assigned", "after"} =>
               wave = {} /\ pc \in {"loop", "assigned", "wave"},
           pc' = "failed" =>
               /\ pc \in {"loop", "assigned", "wave", "gate", "after"}
               /\ half = None \/ InterruptsInsideStep
    PROVE  IInv'
  <1> USE DEF volatile
  <1>1. TypeOK' BY DEF IInv, TypeOK, Active
  <1>2. ActiveOK' BY DEF IInv, ActiveOK, Active
  <1>3. CursorOK' BY DEF IInv, CursorOK
  <1>4. StepOK' BY DEF IInv, StepOK
  <1>5. CapsOK'
    <2>1. Uncounted' = {} BY DEF Uncounted
    <2>2. Active' = Active BY DEF Active
    <2>3. progress.envSteps + 0 <= safetyCap.transitions BY CapsSpelledOut
    <2> QED BY <2>1, <2>2, <2>3, FS_EmptySet DEF CapsOK, IInv
  <1>6. ReplayOK'
    <2>1. Stored' = Stored BY DEF Stored
    <2>2. half # None => half \in wave BY DEF IInv, TypeOK
    <2> QED BY <2>1, <2>2 DEF IInv, ReplayOK, Exact
  <1>7. SavedOK' BY DEF IInv, SavedOK
  <1> QED BY <1>1, <1>2, <1>3, <1>4, <1>5, <1>6, <1>7 DEF IInv

\* The loop ends.  The missions in flight may be given up.
LEMMA Finishes ==
    ASSUME IInv, wave = {}, pc \in {"loop", "assigned", "after"},
           UNCHANGED <<safetyCap, progress, saved, cursor, steps, wave, over, half,
                       failure, processes>>,
           pc' = "finish", active' = active \/ active' = NoEpisodes,
           stop' \in Reasons \union {None},
           stop' = "MISSION_SOURCE_EXHAUSTED" => progress.completed = Missions
    PROVE  IInv'
  <1>1. half = None BY DEF IInv, TypeOK
  <1>2. /\ active' \in [Workers -> Missions \union {None}] /\ Active' \in SUBSET Active
        /\ \A w \in Active' : active'[w] = active[w]
    BY DEF IInv, TypeOK, NoEpisodes, Active
  <1>3. TypeOK' BY <1>1, <1>2 DEF IInv, TypeOK
  <1>4. ActiveOK' BY <1>2 DEF IInv, ActiveOK
  <1>5. CursorOK' BY DEF CursorOK
  <1>6. StepOK' BY DEF StepOK
  <1>7. CapsOK'
    <2>1. Uncounted' = {} BY DEF Uncounted
    <2>2. IsFiniteSet(Active) /\ Cardinality(Active) \in Nat /\ safetyCap.episodes \in Nat
      BY Facts DEF IInv
    <2>3. /\ IsFiniteSet(Active') /\ Cardinality(Active') <= Cardinality(Active)
          /\ Cardinality(Active') \in Nat
      BY <1>2, <2>2, FS_Subset, FS_CardinalityType
    <2>4. progress.envSteps + 0 <= safetyCap.transitions
          /\ Cardinality(progress.completed) \in Nat
      BY CapsSpelledOut
    <2>5. Cardinality(progress.completed) + Cardinality(Active') <= safetyCap.episodes
      BY <2>2, <2>3, <2>4 DEF IInv, CapsOK
    <2> QED BY <2>1, <2>4, <2>5, FS_EmptySet DEF CapsOK, IInv
  <1>8. ReplayOK'
    <2>1. Stored' = Stored BY <1>1 DEF Stored
    <2> QED BY <2>1, <1>1 DEF IInv, ReplayOK, Exact
  <1>9. SavedOK' BY DEF IInv, SavedOK
  <1> QED BY <1>3, <1>4, <1>5, <1>6, <1>7, <1>8, <1>9 DEF IInv

LEMMA NothingActiveKeeps == IInv /\ NothingActive => IInv'
  <1> SUFFICES ASSUME IInv, NothingActive PROVE IInv'
    OBVIOUS
  <1>1. pc = "assigned" /\ wave = {} /\ \A w \in Workers : active[w] = None
    BY DEF NothingActive, IInv, StepOK, Active
  <1>2. CASE stop # None \/ cursor > NumMissions
    <2>1. /\ pc' = "finish"
          /\ stop' = IF stop = None THEN "MISSION_SOURCE_EXHAUSTED" ELSE stop
          /\ UNCHANGED <<safetyCap, progress, saved, cursor, active, steps, wave, over, half,
                         failure, processes>>
      BY <1>2 DEF NothingActive
    <2>2. stop' \in Reasons \union {None} BY <2>1 DEF IInv, TypeOK, Reasons
    <2>3. stop # "MISSION_SOURCE_EXHAUSTED" BY <1>1 DEF IInv, StepOK
    <2>4. ASSUME stop = None PROVE progress.completed = Missions
      <3>1. cursor > NumMissions /\ cursor \in Nat BY <1>2, <2>4 DEF IInv, TypeOK
      <3>2. \A m \in Missions : m < cursor
        BY <3>1, ConstantsAssumption DEF Missions
      <3>3. \A m \in Missions : \A w \in Workers : active[w] # m
        BY <1>1, Facts DEF IInv
      <3>4. Missions \subseteq progress.completed
        BY <3>2, <3>3, <1>1 DEF IInv, CursorOK
      <3> QED BY <3>4, Facts, ProgressFields DEF IInv
    <2> QED BY <1>1, <2>1, <2>2, <2>3, <2>4, Finishes
  <1>3. CASE ~(stop # None \/ cursor > NumMissions)
    BY <1>1, <1>3, PcMoves DEF NothingActive, volatile, IInv, TypeOK
  <1> QED BY <1>2, <1>3

LEMMA StopAtCapKeeps == IInv /\ StopAtCap => IInv'
  BY Finishes DEF StopAtCap, IInv, StepOK, Reasons

LEMMA AfterWaveKeeps == IInv /\ AfterWave => IInv'
  <1> SUFFICES ASSUME IInv, AfterWave PROVE IInv'
    OBVIOUS
  <1>1. /\ pc = "after" /\ wave = {}
        /\ UNCHANGED <<safetyCap, progress, saved, cursor, steps, wave, over, half,
                       failure, processes>>
        /\ active' = active \/ active' = NoEpisodes
        /\ stop' \in Reasons \union {None} /\ stop' # "MISSION_SOURCE_EXHAUSTED"
    BY DEF AfterWave, IInv, StepOK, TypeOK, Reasons
  <1>2. CASE pc' = "finish"
    BY <1>1, <1>2, Finishes
  <1>3. CASE pc' # "finish"
    <2>1. pc' = "loop" /\ ~(stop' # None /\ (CapReached \/ \A w \in Workers : active'[w] = None))
      BY <1>3 DEF AfterWave
    <2>2. stop' = "CALIBRATION_DIVERGED" => stop = "CALIBRATION_DIVERGED"
      BY DEF AfterWave
    <2>3. stop # "CALIBRATION_DIVERGED" /\ active' = active
      <3>1. stop = "CALIBRATION_DIVERGED" =>
              stop' = stop /\ stop # None /\ active' = NoEpisodes
        BY ConstantsAssumption DEF AfterWave, Reasons
      <3> QED BY <2>1, <3>1 DEF AfterWave, NoEpisodes
    <2>4. half = None BY <1>1 DEF IInv, TypeOK
    <2>5. TypeOK' BY <1>1, <2>1, <2>3 DEF IInv, TypeOK, Active
    <2>6. ActiveOK' BY <1>1, <2>3 DEF IInv, ActiveOK, Active
    <2>7. CursorOK' BY <1>1, <2>3 DEF IInv, CursorOK
    <2>8. StepOK' BY <1>1, <2>1, <2>2, <2>3 DEF IInv, StepOK
    <2>9. CapsOK' BY <1>1, <2>1, <2>3 DEF IInv, CapsOK, Uncounted, Active
    <2>10. ReplayOK' BY <1>1, <2>3, <2>4 DEF IInv, ReplayOK, Exact, Stored
    <2>11. SavedOK' BY <1>1 DEF IInv, SavedOK
    <2> QED BY <2>5, <2>6, <2>7, <2>8, <2>9, <2>10, <2>11 DEF IInv
  <1> QED BY <1>2, <1>3

LEMMA QuietStepsKeep ==
    IInv /\ (NothingToAssign \/ NoGate \/ Fails \/ Crash) => IInv'
  <1> SUFFICES ASSUME IInv, NothingToAssign \/ NoGate \/ Fails \/ Crash PROVE IInv'
    OBVIOUS
  <1>0. failure \in {None, "runtime", "assignment"} BY DEF IInv, TypeOK
  <1>1. CASE NothingToAssign
    BY <1>0, <1>1, PcMoves DEF NothingToAssign, IInv, StepOK
  <1>2. CASE NoGate
    BY <1>0, <1>2, PcMoves DEF NoGate, WaveTaken
  <1>3. CASE Fails
    <2>1. pc \in {"loop", "assigned", "gate", "after"} => half = None
      BY DEF IInv, StepOK, TypeOK
    <2> QED BY <1>3, <2>1, PcMoves DEF Fails, WaveTaken
  <1>4. CASE Crash
    BY <1>0, <1>4, PcMoves DEF Crash
  <1> QED BY <1>1, <1>2, <1>3, <1>4

\* A gate changes nothing but the verdict.
LEMMA ObserveGateKeeps ==
    ASSUME IInv, NEW verdict \in {"PENDING", "PASS", "FAIL_DIVERGED"}, ObserveGate(verdict)
    PROVE  IInv'
  <1> DEFINE g == IF verdict = "PENDING" /\ CapReached THEN "BLOCKED_PENDING" ELSE verdict
  <1>1. /\ progress' = [progress EXCEPT !.gate = g] /\ g \in Verdicts
        /\ pc = "wave" /\ wave = {} /\ half = None /\ stop = None /\ pc' = "gate"
        /\ UNCHANGED <<safetyCap, saved, volatile, failure, processes>>
    BY DEF ObserveGate, WaveTaken, GateIsDue, Verdicts
  <1> HIDE DEF g
  <1>2. /\ progress' \in Progress
        /\ progress'.completed = progress.completed /\ progress'.replay = progress.replay
        /\ progress'.records = progress.records /\ progress'.envSteps = progress.envSteps
    BY <1>1, Facts DEF IInv, Progress
  <1> USE DEF volatile
  <1>3. TypeOK' BY <1>1, <1>2 DEF IInv, TypeOK, Active
  <1>4. ActiveOK' BY <1>1, <1>2 DEF IInv, ActiveOK, Active
  <1>5. CursorOK' BY <1>1, <1>2 DEF IInv, CursorOK
  <1>6. StepOK' BY <1>1, ConstantsAssumption DEF IInv, StepOK, Reasons
  <1>7. CapsOK'
    <2>1. Uncounted' = {} BY <1>1 DEF Uncounted
    <2>2. Active' = Active BY <1>1 DEF Active
    <2>3. progress.envSteps + 0 <= safetyCap.transitions BY CapsSpelledOut
    <2> QED BY <1>1, <1>2, <2>1, <2>2, <2>3, FS_EmptySet DEF CapsOK, IInv
  <1>8. ReplayOK'
    <2>1. Stored' = Stored BY <1>1, <1>2 DEF Stored
    <2>2. Exact([progress EXCEPT !.completed = Stored])'
          <=> Exact([progress EXCEPT !.completed = Stored])
      BY <1>2, <2>1, Facts DEF Exact, IInv, Progress
    <2> QED BY <1>1, <2>2 DEF IInv, ReplayOK, Exact
  <1>9. SavedOK' BY <1>1, <1>2 DEF IInv, SavedOK
  <1> QED BY <1>3, <1>4, <1>5, <1>6, <1>7, <1>8, <1>9 DEF IInv

\* A commit saves the progress of the process.
LEMMA Commits ==
    ASSUME IInv, NEW name \in {"checkpoint_last", "checkpoint_calibration_pass"},
           NEW state \in Verdicts,
           saved' = saved \/ Commit(name, state),
           UNCHANGED <<safetyCap, progress, cursor, active, steps, wave, over, half,
                       failure, processes>>,
           stop' \in Reasons \union {None}, pc' \in {"after", "ended"},
           pc' = "after" => pc = "gate",
           pc' = "ended" => stop' = stop /\ pc \in {"finish", "failed"},
           stop' = "MISSION_SOURCE_EXHAUSTED" => stop = stop' /\ pc' = "ended"
    PROVE  IInv'
  <1>1. saved' = saved \/ (saved' # None => saved'.progress = progress)
    BY DEF Commit
  <1>2. TypeOK' BY Facts DEF IInv, TypeOK, Commit, Active
  <1>3. ActiveOK' BY DEF IInv, ActiveOK, Active
  <1>4. CursorOK' BY DEF IInv, CursorOK
  <1>5. StepOK' BY DEF IInv, StepOK
  <1>6. CapsOK'
    <2>1. Uncounted' = {} BY DEF Uncounted
    <2>2. Active' = Active BY DEF Active
    <2>3. /\ progress.envSteps + 0 <= safetyCap.transitions
          /\ Cardinality(progress.completed) \in Nat
      BY CapsSpelledOut
    <2>4. safetyCap.episodes \in Nat /\ Cardinality(Active) \in Nat BY Facts DEF IInv
    <2>5. Cardinality(progress.completed) <= safetyCap.episodes
      BY <2>3, <2>4 DEF IInv, CapsOK
    <2> QED BY <1>1, <2>1, <2>2, <2>3, <2>5, FS_EmptySet, CapsSpelledOut DEF CapsOK, IInv
  <1>7. ReplayOK'
    <2> SUFFICES ASSUME ~InterruptsInsideStep PROVE ReplayOK'
      BY DEF ReplayOK
    <2>1. half = None BY DEF IInv, TypeOK, StepOK, ReplayOK
    <2>2. Stored = progress.completed /\ Stored' = Stored BY <2>1 DEF Stored
    <2>3. Exact([progress EXCEPT !.completed = Stored]) <=> Exact(progress)
      BY <2>2, Facts DEF Exact, IInv, Progress
    <2>4. saved' # None => Exact(saved'.progress)
      BY <1>1, <2>3 DEF IInv, ReplayOK
    <2> QED BY <2>1, <2>2, <2>4 DEF IInv, ReplayOK, Exact
  <1>8. SavedOK'
    <2>1. progress.envSteps <= progress.envSteps BY CapsSpelledOut
    <2> QED BY <1>1, <2>1 DEF IInv, SavedOK
  <1> QED BY <1>2, <1>3, <1>4, <1>5, <1>6, <1>7, <1>8 DEF IInv

LEMMA CommitsKeep == IInv /\ (CommitGate \/ FinalCommit \/ HandleFailure) => IInv'
  <1> SUFFICES ASSUME IInv, CommitGate \/ FinalCommit \/ HandleFailure PROVE IInv'
    OBVIOUS
  <1> USE DEF Verdicts
  <1>1. /\ progress.gate \in Verdicts /\ State(progress.gate) \in Verdicts
        /\ stop \in Reasons \union {None}
    <2>1. progress.gate \in Verdicts BY Facts, ProgressFields DEF IInv
    <2> QED BY <2>1 DEF State, IInv, TypeOK
  <1>2. CASE CommitGate
    <2>1. /\ StopReason(progress.gate) \in Reasons \union {None}
          /\ StopReason(progress.gate) # "MISSION_SOURCE_EXHAUSTED"
      BY <1>1, ConstantsAssumption DEF StopReason, Reasons
    <2> QED BY <1>1, <1>2, <2>1, Commits DEF CommitGate
  <1>3. CASE FinalCommit
    <2>1. PICK name \in {"checkpoint_last", "checkpoint_calibration_pass"},
               state \in Verdicts : Commit(name, state)
      BY <1>1, <1>3 DEF FinalCommit
    <2> QED BY <1>1, <1>3, <2>1, Commits DEF FinalCommit, volatile
  <1>4. CASE HandleFailure
    BY <1>1, <1>4, Commits DEF HandleFailure, volatile
  <1> QED BY <1>2, <1>3, <1>4
-----------------------------------------------------------------------------
\* The steps of a wave.

LEMMA StageWaveKeeps == IInv /\ StageWave => IInv'
  <1> SUFFICES ASSUME IInv, StageWave PROVE IInv'
    OBVIOUS
  <1>1. /\ pc = "assigned" /\ pc' = "wave" /\ wave = {} /\ wave' = Active
        /\ progress.envSteps + Cardinality(Active) <= safetyCap.transitions
        /\ {w \in Active : steps[w] + 1 >= MaxSteps} \subseteq over' /\ over' \subseteq Active
        /\ UNCHANGED <<safetyCap, progress, saved, cursor, active, steps, half, stop,
                       failure, processes>>
    BY DEF StageWave, IInv, StepOK
  <1>2. half = None BY <1>1 DEF IInv, TypeOK
  <1>3. Active' = Active BY <1>1 DEF Active
  <1>4. TypeOK' BY <1>1, <1>2, <1>3, Facts DEF IInv, TypeOK
  <1>5. ActiveOK' BY <1>1, <1>3 DEF IInv, ActiveOK
  <1>6. CursorOK' BY <1>1 DEF IInv, CursorOK
  <1>7. StepOK' BY <1>1 DEF IInv, StepOK
  <1>8. CapsOK'
    <2>1. None \notin Active BY Facts DEF IInv
    <2>2. Uncounted' = Active BY <1>1, <1>2, <2>1 DEF Uncounted
    <2> QED BY <1>1, <1>3, <2>2 DEF IInv, CapsOK
  <1>9. ReplayOK'
    <2>1. Stored' = Stored BY <1>1 DEF Stored
    <2> QED BY <1>1, <1>2, <2>1 DEF IInv, ReplayOK, Exact
  <1>10. SavedOK' BY <1>1 DEF IInv, SavedOK
  <1> QED BY <1>4, <1>5, <1>6, <1>7, <1>8, <1>9, <1>10 DEF IInv

\* A result counts as one environment step.
LEMMA OneCounted ==
    ASSUME IInv, pc = "wave", half = None, NEW w \in wave
    PROVE  /\ Uncounted = wave
           /\ IsFiniteSet(wave \ {w}) /\ Cardinality(wave \ {w}) \in Nat
           /\ Cardinality(wave) = Cardinality(wave \ {w}) + 1
           /\ progress.envSteps + 1 + Cardinality(wave \ {w}) <= safetyCap.transitions
           /\ progress.envSteps + 1 <= safetyCap.transitions
           /\ w \in Workers /\ w \in Active /\ w # None
  <1>1. Uncounted = wave
    <2>1. None \notin wave BY Facts DEF IInv, TypeOK
    <2> QED BY <2>1 DEF Uncounted
  <1>2. IsFiniteSet(wave) /\ Cardinality(wave) \in Nat BY Facts DEF IInv
  <1>3. /\ IsFiniteSet(wave \ {w}) /\ Cardinality(wave \ {w}) \in Nat
        /\ Cardinality(wave \ {w}) = Cardinality(wave) - 1
    BY <1>2, FS_RemoveElement, FS_CardinalityType
  <1>4. progress.envSteps + Cardinality(wave) <= safetyCap.transitions
    BY <1>1 DEF IInv, CapsOK
  <1>5. progress.envSteps \in Nat /\ safetyCap.transitions \in Nat
    BY Facts, ProgressFields DEF IInv
  <1>6. w \in Workers /\ w \in Active /\ w # None BY Facts DEF IInv, TypeOK
  <1> QED BY <1>1, <1>2, <1>3, <1>4, <1>5, <1>6

LEMMA TakeTransitionKeeps ==
    ASSUME IInv, NEW w \in Workers, TakeTransition(w)
    PROVE  IInv'
  <1>1. /\ pc = "wave" /\ half = None /\ w \in wave /\ w \notin over
        /\ wave' = wave \ {w} /\ steps' = [steps EXCEPT ![w] = @ + 1]
        /\ progress' = [progress EXCEPT !.envSteps = @ + 1]
        /\ UNCHANGED <<safetyCap, saved, pc, cursor, active, over, half, stop, failure,
                       processes>>
    BY DEF TakeTransition
  <1>2. /\ progress' \in Progress
        /\ progress'.completed = progress.completed /\ progress'.replay = progress.replay
        /\ progress'.records = progress.records /\ progress'.envSteps = progress.envSteps + 1
    BY <1>1, Facts, ProgressFields DEF IInv, Progress
  <1>3. Active' = Active BY <1>1 DEF Active
  <1>4. steps[w] \in Nat /\ steps[w] + 1 < MaxSteps /\ MaxSteps \in Nat
    <2>1. steps[w] \in 0..(MaxSteps - 1) /\ MaxSteps \in Nat
      BY ConstantsAssumption DEF IInv, TypeOK
    <2>2. ~(steps[w] + 1 >= MaxSteps) BY <1>1 DEF IInv, StepOK
    <2> QED BY <2>1, <2>2
  <1>5. steps' \in [Workers -> 0..(MaxSteps - 1)]
    <2>1. steps[w] + 1 \in 0..(MaxSteps - 1) BY <1>4
    <2> QED BY <1>1, <2>1 DEF IInv, TypeOK
  <1>6. TypeOK' BY <1>1, <1>2, <1>3, <1>5 DEF IInv, TypeOK
  <1>7. ActiveOK' BY <1>1, <1>2, <1>3 DEF IInv, ActiveOK
  <1>8. CursorOK' BY <1>1, <1>2 DEF IInv, CursorOK
  <1>9. StepOK'
    <2>1. \A v \in wave' : steps'[v] = steps[v]
      BY <1>1 DEF IInv, TypeOK, Active
    <2> QED BY <1>1, <1>2, <2>1 DEF IInv, StepOK
  <1>10. CapsOK'
    <2>1. Uncounted' = wave \ {w}
      <3>1. None \notin wave BY Facts DEF IInv, TypeOK
      <3> QED BY <1>1, <3>1 DEF Uncounted
    <2> QED BY <1>1, <1>2, <1>3, <2>1, OneCounted DEF IInv, CapsOK
  <1>11. ReplayOK'
    <2>1. Stored' = Stored BY <1>1, <1>2 DEF Stored
    <2>2. Exact([progress EXCEPT !.completed = Stored])'
          <=> Exact([progress EXCEPT !.completed = Stored])
      BY <1>2, <2>1, Facts DEF Exact, IInv, Progress
    <2> QED BY <1>1, <2>2 DEF IInv, ReplayOK, Exact
  <1>12. SavedOK'
    <2>1. saved # None => saved.progress.envSteps \in Nat
      BY Facts, ProgressFields DEF IInv
    <2>2. progress.envSteps \in Nat BY Facts, ProgressFields DEF IInv
    <2> QED BY <1>1, <1>2, <2>1, <2>2 DEF IInv, SavedOK
  <1> QED BY <1>6, <1>7, <1>8, <1>9, <1>10, <1>11, <1>12 DEF IInv

LEMMA StoredExact ==
    ASSUME NEW p \in Progress, NEW S
    PROVE  Exact([p EXCEPT !.completed = S]) <=>
             /\ \A m \in Missions : p.replay[m] = IF m \in S \ Holdout THEN 1 ELSE 0
             /\ p.records = S \intersect Holdout
  BY DEF Exact, Progress

LEMMA StoreEpisodeKeeps ==
    ASSUME IInv, NEW w \in Workers, StoreEpisode(w)
    PROVE  IInv'
  <1> DEFINE m == active[w]
  <1>1. /\ pc = "wave" /\ half = None /\ w \in wave /\ half' = w
        /\ UNCHANGED <<safetyCap, saved, pc, cursor, active, steps, wave, over, stop,
                       failure, processes>>
    BY DEF StoreEpisode
  <1>2. w \in Active /\ m \in Missions /\ w # None
    BY <1>1, Facts, OneCounted DEF IInv
  <1>3. /\ progress' \in Progress
        /\ progress'.completed = progress.completed
        /\ progress'.envSteps = progress.envSteps + 1
        /\ progress'.replay = [progress.replay EXCEPT ![m] = IF m \in Holdout THEN @ ELSE @ + 1]
        /\ progress'.records = IF m \in Holdout THEN progress.records \union {m}
                               ELSE progress.records
    <2>1. progress' = [progress EXCEPT
                         !.envSteps = @ + 1,
                         !.replay[m] = IF m \in Holdout THEN @ ELSE @ + 1,
                         !.records = IF m \in Holdout THEN @ \union {m} ELSE @]
      BY DEF StoreEpisode
    <2> HIDE DEF m
    <2>2. progress \in Progress BY Facts DEF IInv
    <2>3. /\ progress'.completed = progress.completed
          /\ progress'.envSteps = progress.envSteps + 1
          /\ progress'.assigned = progress.assigned /\ progress'.gate = progress.gate
      BY <2>1, <2>2 DEF Progress
    <2>4. progress'.records = IF m \in Holdout THEN progress.records \union {m}
                              ELSE progress.records
      BY <2>1, <2>2 DEF Progress
    <2>5. progress'.replay = [progress.replay EXCEPT
                                ![m] = IF m \in Holdout THEN @ ELSE @ + 1]
      BY <2>1, <2>2 DEF Progress
    <2>6. progress'.replay \in [Missions -> Nat]
      BY <1>2, <2>2, <2>5, ProgressFields
    <2>7. progress' \in Progress
      <3>1. progress' = [completed |-> progress'.completed, replay |-> progress'.replay,
                         records |-> progress'.records, envSteps |-> progress'.envSteps,
                         assigned |-> progress'.assigned, gate |-> progress'.gate]
        BY <2>1, <2>2 DEF Progress
      <3> QED BY <3>1, <2>2, <2>3, <2>4, <2>6, ProgressFields DEF Progress
    <2> QED BY <2>3, <2>4, <2>5, <2>7
  <1>4. Active' = Active BY <1>1 DEF Active
  <1>5. TypeOK' BY <1>1, <1>3, <1>4 DEF IInv, TypeOK
  <1>6. ActiveOK' BY <1>1, <1>3, <1>4 DEF IInv, ActiveOK
  <1>7. CursorOK' BY <1>1, <1>3 DEF IInv, CursorOK
  <1>8. StepOK' BY <1>1, <1>3 DEF IInv, StepOK
  <1>9. CapsOK'
    <2>1. Uncounted' = wave \ {w} BY <1>1 DEF Uncounted
    <2> QED BY <1>1, <1>3, <1>4, <2>1, OneCounted DEF IInv, CapsOK
  <1>10. ReplayOK'
    <2> SUFFICES ASSUME ~InterruptsInsideStep PROVE ReplayOK'
      BY DEF ReplayOK
    <2>1. Stored = progress.completed /\ Stored' = progress.completed \union {m}
      BY <1>1, <1>2, <1>3 DEF Stored
    <2>2. /\ \A q \in Missions :
               progress.replay[q] = IF q \in progress.completed \ Holdout THEN 1 ELSE 0
          /\ progress.records = progress.completed \intersect Holdout
      BY <2>1, StoredExact, Facts DEF IInv, ReplayOK
    <2>3. m \notin progress.completed BY <1>2 DEF IInv, ActiveOK
    <2>4. \A q \in Missions : progress'.replay[q] =
            IF q \in (progress.completed \union {m}) \ Holdout THEN 1 ELSE 0
      <3> HIDE DEF m
      <3>1. progress.replay \in [Missions -> Nat] BY Facts, ProgressFields DEF IInv
      <3>2. ASSUME NEW q \in Missions, q # m
            PROVE  progress'.replay[q] = progress.replay[q]
        BY <1>3, <3>1, <3>2
      <3>3. progress'.replay[m] = IF m \in Holdout THEN 0 ELSE 1
        BY <1>2, <1>3, <2>2, <2>3, <3>1
      <3> QED BY <2>2, <3>2, <3>3
    <2>5. progress'.records = (progress.completed \union {m}) \intersect Holdout
      BY <1>3, <2>2
    <2>6. Exact([progress EXCEPT !.completed = Stored])'
      <3>1. Exact([progress' EXCEPT !.completed = Stored'])
        BY <1>3, <2>1, <2>4, <2>5 DEF Exact, Progress
      <3> QED BY <3>1 DEF Exact
    <2> QED BY <1>1, <2>6 DEF IInv, ReplayOK, Exact
  <1>11. SavedOK'
    <2>1. saved # None => saved.progress.envSteps \in Nat
      BY Facts, ProgressFields DEF IInv
    <2>2. progress.envSteps \in Nat BY Facts, ProgressFields DEF IInv
    <2> QED BY <1>1, <1>3, <2>1, <2>2 DEF IInv, SavedOK
  <1> QED BY <1>5, <1>6, <1>7, <1>8, <1>9, <1>10, <1>11 DEF IInv

LEMMA StoreFailsKeeps ==
    ASSUME IInv, NEW w \in Workers, StoreFails(w)
    PROVE  IInv'
  <1>1. /\ pc = "wave" /\ half = None /\ w \in wave /\ pc' = "failed" /\ failure' = "runtime"
        /\ progress' = [progress EXCEPT !.envSteps = @ + 1]
        /\ UNCHANGED <<safetyCap, saved, cursor, active, steps, wave, over, half, stop,
                       processes>>
    BY DEF StoreFails, volatile
  <1>2. /\ progress' \in Progress
        /\ progress'.completed = progress.completed /\ progress'.replay = progress.replay
        /\ progress'.records = progress.records /\ progress'.envSteps = progress.envSteps + 1
    BY <1>1, Facts, ProgressFields DEF IInv, Progress
  <1>3. Active' = Active BY <1>1 DEF Active
  <1>4. TypeOK' BY <1>1, <1>2, <1>3 DEF IInv, TypeOK
  <1>5. ActiveOK' BY <1>1, <1>2, <1>3 DEF IInv, ActiveOK
  <1>6. CursorOK' BY <1>1 DEF CursorOK
  <1>7. StepOK' BY <1>1, <1>2 DEF IInv, StepOK
  <1>8. CapsOK'
    <2>1. Uncounted' = {} BY <1>1 DEF Uncounted
    <2>2. progress.envSteps + 1 + 0 <= safetyCap.transitions
      <3>1. progress.envSteps + 1 <= safetyCap.transitions BY <1>1, OneCounted
      <3> QED BY <3>1, CapsSpelledOut
    <2> QED BY <1>1, <1>2, <1>3, <2>1, <2>2, FS_EmptySet DEF IInv, CapsOK
  <1>9. ReplayOK'
    <2>1. Stored' = Stored BY <1>1, <1>2 DEF Stored
    <2>2. Exact([progress EXCEPT !.completed = Stored])'
          <=> Exact([progress EXCEPT !.completed = Stored])
      BY <1>2, <2>1, Facts DEF Exact, IInv, Progress
    <2> QED BY <1>1, <2>2 DEF IInv, ReplayOK, Exact
  <1>10. SavedOK'
    <2>1. saved # None => saved.progress.envSteps \in Nat
      BY Facts, ProgressFields DEF IInv
    <2>2. progress.envSteps \in Nat BY Facts, ProgressFields DEF IInv
    <2> QED BY <1>1, <1>2, <2>1, <2>2 DEF IInv, SavedOK
  <1> QED BY <1>4, <1>5, <1>6, <1>7, <1>8, <1>9, <1>10 DEF IInv

\* The mission leaves its worker and enters the completed ones: the number of
\* both together stays.
LEMMA CompleteEpisodeKeeps == IInv /\ CompleteEpisode => IInv'
  <1> SUFFICES ASSUME IInv, CompleteEpisode PROVE IInv'
    OBVIOUS
  <1> DEFINE m == active[half]
  <1>1. /\ pc = "wave" /\ half # None /\ half' = None /\ wave' = wave \ {half}
        /\ progress' = [progress EXCEPT !.completed = @ \union {m}]
        /\ active' = [active EXCEPT ![half] = None]
        /\ UNCHANGED <<safetyCap, saved, pc, cursor, steps, over, stop, failure, processes>>
    BY DEF CompleteEpisode
  <1>2. half \in wave /\ half \in Active /\ half \in Workers /\ m \in Missions
    BY <1>1, Facts DEF IInv, TypeOK
  <1> HIDE DEF m
  <1>3. /\ progress' \in Progress
        /\ progress'.completed = progress.completed \union {m}
        /\ progress'.replay = progress.replay
        /\ progress'.records = progress.records /\ progress'.envSteps = progress.envSteps
    BY <1>1, <1>2, Facts DEF IInv, Progress
  <1>4. /\ active' \in [Workers -> Missions \union {None}]
        /\ Active' = Active \ {half}
        /\ \A w \in Active' : active'[w] = active[w]
    BY <1>1, <1>2 DEF Active, IInv, TypeOK
  <1>5. m \notin progress.completed /\ \A w \in Active \ {half} : active[w] # m
    BY <1>2 DEF IInv, ActiveOK, m
  <1>6. TypeOK' BY <1>1, <1>3, <1>4 DEF IInv, TypeOK
  <1>7. ActiveOK' BY <1>1, <1>3, <1>4, <1>5 DEF IInv, ActiveOK
  <1>8. CursorOK'
    <2> SUFFICES ASSUME NEW q \in Missions, q < cursor
                 PROVE  q \in progress'.completed \/ \E w \in Workers : active'[w] = q
      BY <1>1 DEF CursorOK
    <2>1. q \in progress.completed \/ \E w \in Workers : active[w] = q
      BY <1>1 DEF IInv, CursorOK
    <2>2. ASSUME NEW w \in Workers, active[w] = q, w # half PROVE active'[w] = q
      BY <1>1, <2>2 DEF IInv, TypeOK
    <2> QED BY <1>3, <2>1, <2>2 DEF m
  <1>9. StepOK' BY <1>1 DEF IInv, StepOK
  <1>10. CapsOK'
    <2>1. Uncounted' = Uncounted
      <3>1. None \notin wave BY Facts DEF IInv, TypeOK
      <3> QED BY <1>1, <3>1 DEF Uncounted
    <2>2. Cardinality(Active') = Cardinality(Active) - 1
      BY <1>2, <1>4, Facts, FS_RemoveElement DEF IInv
    <2>3. Cardinality(progress'.completed) = Cardinality(progress.completed) + 1
      <3>1. IsFiniteSet(progress.completed) BY Facts, ProgressFields DEF IInv
      <3> QED BY <1>3, <1>5, <3>1, FS_AddElement
    <2>4. Cardinality(Active) \in Nat /\ Cardinality(progress.completed) \in Nat
      BY Facts, ProgressFields DEF IInv
    <2> QED BY <1>1, <1>3, <2>1, <2>2, <2>3, <2>4 DEF IInv, CapsOK
  <1>11. ReplayOK'
    <2>1. Stored' = Stored BY <1>1, <1>3 DEF Stored, m
    <2>2. Exact([progress EXCEPT !.completed = Stored])'
          <=> Exact([progress EXCEPT !.completed = Stored])
      BY <1>3, <2>1, Facts DEF Exact, IInv, Progress
    <2> QED BY <1>1, <2>2 DEF IInv, ReplayOK, Exact
  <1>12. SavedOK' BY <1>1, <1>3 DEF IInv, SavedOK
  <1> QED BY <1>6, <1>7, <1>8, <1>9, <1>10, <1>11, <1>12 DEF IInv
-----------------------------------------------------------------------------
\* Assignment: idle workers and open missions, matched by rank.

LEMMA IdleAndOpen ==
    ASSUME IInv
    PROVE  /\ NumWorkers \in Nat /\ NumMissions \in Nat /\ Slots \in Nat
           /\ Idle \in SUBSET (1..NumWorkers) /\ Open \in SUBSET (1..NumMissions)
           /\ Idle \intersect Active = {} /\ Idle \subseteq Workers /\ Open \subseteq Missions
  <1>1. NumWorkers \in Nat /\ NumMissions \in Nat BY ConstantsAssumption
  <1>2. /\ safetyCap.episodes \in Nat /\ Cardinality(Active) \in Nat
        /\ Cardinality(progress.completed) \in Nat
    BY Facts, ProgressFields DEF IInv
  <1>3. Slots \in Nat BY <1>2 DEF Slots, IInv, CapsOK
  <1> QED BY <1>1, <1>3 DEF Idle, Open, Workers, Missions

LEMMA RankBound ==
    ASSUME NEW n \in Nat, NEW S \in SUBSET (1..n), NEW x \in S
    PROVE  Rank(x, S) < Cardinality(S) /\ Rank(x, S) \in Nat /\ Cardinality(S) \in Nat
  <1>1. x \in 1..n OBVIOUS
  <1>2. IsFiniteSet(S) /\ Cardinality(S) \in Nat /\ Rank(x, S) \in Nat BY <1>1, RankType
  <1>3. {y \in S : y < x} \in SUBSET S /\ {y \in S : y < x} # S
    <2>1. ~(x < x) BY <1>1
    <2> QED BY <2>1
  <1>4. Rank(x, S) <= Cardinality(S) /\ Rank(x, S) # Cardinality(S)
    BY <1>2, <1>3, FS_Subset DEF Rank
  <1> QED BY <1>2, <1>4

\* The rank of a member tells it.
LEMMA RankInjective ==
    ASSUME NEW n \in Nat, NEW S \in SUBSET (1..n), NEW x \in S, NEW y \in S,
           Rank(x, S) = Rank(y, S)
    PROVE  x = y
  <1>1. Rank(x, S) \in Nat BY RankBound
  <1>2. ASSUME x < y PROVE FALSE
    <2>1. Rank(x, S) < Rank(y, S) BY <1>2, RankGrows
    <2> QED BY <1>1, <2>1
  <1>3. ASSUME y < x PROVE FALSE
    <2>1. Rank(y, S) < Rank(x, S) BY <1>3, RankGrows
    <2> QED BY <1>1, <2>1
  <1>4. x \in Nat /\ y \in Nat OBVIOUS
  <1> QED BY <1>2, <1>3, <1>4

\* A worker takes one mission, and a mission goes to one worker.
LEMMA TakesIsInjective ==
    ASSUME IInv, NEW w, NEW m, NEW v, NEW q, Takes(w, m), Takes(v, q)
    PROVE  w = v <=> m = q
  <1>1. /\ w \in Idle /\ v \in Idle /\ m \in Open /\ q \in Open
        /\ Rank(w, Idle) = Rank(m, Open) /\ Rank(v, Idle) = Rank(q, Open)
    BY DEF Takes
  <1>2. w = v => m = q BY <1>1, IdleAndOpen, RankInjective
  <1>3. m = q => w = v BY <1>1, IdleAndOpen, RankInjective
  <1> QED BY <1>2, <1>3

\* The open missions ranked up to a served worker are all taken.
LEMMA ServedBelow ==
    ASSUME IInv, NEW m \in Open, NEW u \in Idle, Rank(u, Idle) < Slots,
           Rank(m, Open) <= Rank(u, Idle)
    PROVE  \E w \in Workers : Takes(w, m)
  <1>1. /\ Rank(u, Idle) < Cardinality(Idle) /\ Rank(u, Idle) \in Nat
        /\ Cardinality(Idle) \in Nat
    BY IdleAndOpen, RankBound
  <1>2. Rank(m, Open) \in Nat BY IdleAndOpen, RankBound
  <1>3. Rank(m, Open) < Cardinality(Idle) BY <1>1, <1>2
  <1>4. PICK w \in Idle : Rank(w, Idle) = Rank(m, Open)
    BY <1>2, <1>3, IdleAndOpen, RankOnto
  <1>5. Rank(w, Idle) < Slots BY <1>1, <1>2, <1>4, IdleAndOpen
  <1> QED BY <1>4, <1>5, IdleAndOpen DEF Takes

\* The cursor moves past what is taken, and past nothing else that is open.
LEMMA CursorMoves ==
    ASSUME IInv
    PROVE  /\ CursorAfter \in 1..(NumMissions + 1) /\ cursor <= CursorAfter
           /\ \A w \in Workers, m \in Missions : Takes(w, m) => m < CursorAfter
           /\ \A m \in Open : m < CursorAfter => \E w \in Workers : Takes(w, m)
  <1> DEFINE taken == {m \in Open : \E w \in Workers : Takes(w, m)}
             unserved == {w \in Idle : Rank(w, Idle) < Slots /\ \A m \in Open : ~Takes(w, m)}
  <1>1. CursorAfter = CASE unserved # {} -> NumMissions + 1
                        [] unserved = {} /\ taken = {} -> cursor
                        [] OTHER -> 1 + CHOOSE m \in taken : \A q \in taken : q <= m
    BY DEF CursorAfter
  <1>2. /\ \A w \in Workers, m \in Missions : Takes(w, m) => m \in taken
        /\ \A m \in taken : m \in Open /\ \E w \in Workers : Takes(w, m)
    BY DEF Takes
  <1>3. /\ taken \in SUBSET (1..NumMissions) /\ NumMissions \in Nat
        /\ cursor \in 1..(NumMissions + 1)
        /\ \A m \in Open : m >= cursor /\ m \in 1..NumMissions
    BY IdleAndOpen DEF Open, IInv, TypeOK
  <1>4. CASE unserved # {}
    <2>1. CursorAfter = NumMissions + 1
      <3> HIDE DEF taken, unserved
      <3> QED BY <1>1, <1>4
    <2>2. PICK u \in Idle : Rank(u, Idle) < Slots /\ \A m \in Open : ~Takes(u, m)
      BY <1>4
    <2>3. Rank(u, Idle) \in Nat BY IdleAndOpen, RankBound
    <2>4. ~(Rank(u, Idle) < Cardinality(Open))
      <3> SUFFICES ASSUME Rank(u, Idle) < Cardinality(Open) PROVE FALSE
        OBVIOUS
      <3>1. PICK m \in Open : Rank(m, Open) = Rank(u, Idle)
        BY <2>3, IdleAndOpen, RankOnto
      <3> QED BY <2>2, <3>1 DEF Takes
    <2>5. ASSUME NEW m \in Open PROVE \E w \in Workers : Takes(w, m)
      <3>1. Rank(m, Open) < Cardinality(Open) /\ Rank(m, Open) \in Nat
            /\ Cardinality(Open) \in Nat
        BY IdleAndOpen, RankBound
      <3>2. Rank(m, Open) <= Rank(u, Idle) BY <2>3, <2>4, <3>1
      <3> QED BY <2>2, <3>2, ServedBelow
    <2>6. \A m \in taken : m < NumMissions + 1 BY <1>3
    <2>7. cursor <= NumMissions + 1 BY <1>3
    <2>8. NumMissions + 1 \in 1..(NumMissions + 1) BY <1>3
    <2> HIDE DEF taken, unserved
    <2> QED BY <1>2, <2>1, <2>5, <2>6, <2>7, <2>8
  <1>5. CASE unserved = {} /\ taken = {}
    <2>1. CursorAfter = cursor BY <1>1, <1>5
    <2>2. \A m \in Open : ~(m < cursor) BY <1>3
    <2> HIDE DEF taken, unserved
    <2> QED BY <1>2, <1>3, <1>5, <2>1, <2>2
  <1>6. CASE unserved = {} /\ taken # {}
    <2> DEFINE last == CHOOSE m \in taken : \A q \in taken : q <= m
    <2>1. last \in taken /\ \A q \in taken : q <= last
      <3> HIDE DEF taken
      <3> QED BY <1>3, <1>6, MaxExists
    <2>2. CursorAfter = 1 + last BY <1>1, <1>6
    <2> HIDE DEF last
    <2>3. PICK u \in Workers : Takes(u, last) BY <2>1, <1>2
    <2>4. /\ u \in Idle /\ last \in Open /\ Rank(u, Idle) = Rank(last, Open)
          /\ Rank(u, Idle) < Slots
      BY <2>3 DEF Takes
    <2>5. ASSUME NEW m \in Open, m < 1 + last PROVE \E w \in Workers : Takes(w, m)
      <3>1. m \in Nat /\ last \in Nat BY <1>3, <2>4
      <3>2. CASE m = last BY <2>3, <3>2
      <3>3. CASE m < last
        <4>1. Rank(m, Open) < Rank(last, Open) BY <2>4, <3>3, IdleAndOpen, RankGrows
        <4>2. Rank(m, Open) \in Nat /\ Rank(last, Open) \in Nat
          BY <2>4, IdleAndOpen, RankBound
        <4>3. Rank(m, Open) <= Rank(u, Idle) BY <2>4, <4>1, <4>2
        <4> QED BY <2>4, <4>3, ServedBelow
      <3> QED BY <2>5, <3>1, <3>2, <3>3
    <2>6. last \in 1..NumMissions /\ last >= cursor BY <1>3, <2>4
    <2>7. /\ 1 + last \in 1..(NumMissions + 1) /\ cursor <= 1 + last
          /\ \A m \in taken : m < 1 + last
      BY <1>3, <2>1, <2>6
    <2> HIDE DEF taken, unserved
    <2> QED BY <1>2, <2>2, <2>5, <2>7
  <1> QED BY <1>4, <1>5, <1>6

\* After an assignment the active workers are those before it and at most
\* Slots others, each with the mission it takes.
LEMMA Assigned ==
    ASSUME IInv, AssignMissions
    PROVE  /\ active' \in [Workers -> Missions \union {None}]
           /\ Active \subseteq Active' /\ \A w \in Active : active'[w] = active[w]
           /\ \A w \in Active' \ Active : Takes(w, active'[w])
           /\ \A w \in Workers, m \in Missions : Takes(w, m) => active'[w] = m
           /\ Cardinality(Active') <= Cardinality(Active) + Slots
           /\ Cardinality(Active') \in Nat
  <1>1. active' = [w \in Workers |->
                     IF \E m \in Missions : Takes(w, m)
                     THEN CHOOSE m \in Missions : Takes(w, m) ELSE active[w]]
    BY DEF AssignMissions
  <1>2. ASSUME NEW w \in Workers, NEW m \in Missions, Takes(w, m) PROVE active'[w] = m
    <2>1. \A q \in Missions : Takes(w, q) => q = m BY <1>2, TakesIsInjective
    <2> QED BY <1>1, <1>2, <2>1
  <1>3. ASSUME NEW w \in Workers, \A m \in Missions : ~Takes(w, m)
        PROVE  active'[w] = active[w]
    BY <1>1, <1>3
  <1>4. active \in [Workers -> Missions \union {None}] /\ None \notin Missions
    BY Facts DEF IInv, TypeOK
  <1>5. active' \in [Workers -> Missions \union {None}]
    <2>1. \A w \in Workers : active'[w] \in Missions \union {None}
      BY <1>2, <1>3, <1>4
    <2> QED BY <1>1, <2>1
  <1>6. \A w \in Active : \A m : ~Takes(w, m) BY IdleAndOpen DEF Takes
  <1>7. \A w \in Active : active'[w] = active[w] BY <1>3, <1>6 DEF Active
  <1>8. Active \subseteq Active' BY <1>7 DEF Active
  <1>9. \A w \in Active' \ Active : Takes(w, active'[w])
    <2> SUFFICES ASSUME NEW w \in Workers, active'[w] # None, active[w] = None
                 PROVE  Takes(w, active'[w])
      BY DEF Active
    <2>1. PICK m \in Missions : Takes(w, m) BY <1>3
    <2> QED BY <1>2, <2>1
  <1>10. Cardinality(Active') <= Cardinality(Active) + Slots /\ Cardinality(Active') \in Nat
    <2> DEFINE L == {w \in Idle : Rank(w, Idle) < Slots}
    <2>1. IsFiniteSet(L) /\ Cardinality(L) <= Slots /\ Slots \in Nat
      BY IdleAndOpen, RankBelow
    <2>2. Active' \in SUBSET (Active \union L)
      BY <1>9 DEF Takes
    <2>3. IsFiniteSet(Active) /\ Cardinality(Active) \in Nat BY Facts DEF IInv
    <2> HIDE DEF L
    <2>4. /\ IsFiniteSet(Active \union L) /\ Cardinality(L) \in Nat
          /\ Cardinality(Active \union L) =
               Cardinality(Active) + Cardinality(L) - Cardinality(Active \intersect L)
          /\ Cardinality(Active \intersect L) \in Nat
      BY <2>1, <2>3, FS_Union, FS_Intersection, FS_CardinalityType
    <2>5. /\ Cardinality(Active') <= Cardinality(Active \union L)
          /\ Cardinality(Active') \in Nat /\ Cardinality(Active \union L) \in Nat
      BY <2>2, <2>4, FS_Subset, FS_CardinalityType
    <2> QED BY <2>1, <2>3, <2>4, <2>5
  <1> QED BY <1>2, <1>5, <1>7, <1>8, <1>9, <1>10

\* A new identity in the RNG assignments is no progress.
LEMMA OnlyAssigned ==
    ASSUME IInv, NEW a \in [Missions -> Workers \union {None}],
           progress' = [progress EXCEPT !.assigned = a]
    PROVE  /\ progress' \in Progress
           /\ progress'.completed = progress.completed /\ progress'.replay = progress.replay
           /\ progress'.records = progress.records /\ progress'.envSteps = progress.envSteps
  BY Facts DEF IInv, Progress

LEMMA AssignMissionsKeeps == IInv /\ AssignMissions => IInv'
  <1> SUFFICES ASSUME IInv, AssignMissions PROVE IInv'
    OBVIOUS
  <1>1. /\ pc = "loop" /\ pc' = "assigned" /\ stop = None /\ cursor' = CursorAfter
        /\ steps' = [w \in Workers |-> IF w \in Idle THEN 0 ELSE steps[w]]
        /\ UNCHANGED <<safetyCap, saved, wave, over, half, stop, failure, processes>>
        /\ wave = {} /\ half = None
    BY DEF AssignMissions, MayAssign, IInv, StepOK, TypeOK
  <1>2. /\ progress' \in Progress
        /\ progress'.completed = progress.completed /\ progress'.replay = progress.replay
        /\ progress'.records = progress.records /\ progress'.envSteps = progress.envSteps
    <2> DEFINE a == [m \in Missions |->
                       IF \E w \in Workers : Takes(w, m)
                       THEN CHOOSE w \in Workers : Takes(w, m) ELSE progress.assigned[m]]
    <2>1. progress.assigned \in [Missions -> Workers \union {None}]
      BY Facts, ProgressFields DEF IInv
    <2>2. ASSUME NEW m \in Missions PROVE a[m] \in Workers \union {None}
      BY <2>1
    <2>3. a \in [Missions -> Workers \union {None}] BY <2>2
    <2>4. progress' = [progress EXCEPT !.assigned = a] BY DEF AssignMissions
    <2> HIDE DEF a
    <2> QED BY <2>3, <2>4, OnlyAssigned
  <1>3. steps' \in [Workers -> 0..(MaxSteps - 1)]
    <2>1. 0 \in 0..(MaxSteps - 1) BY ConstantsAssumption
    <2> QED BY <1>1, <2>1 DEF IInv, TypeOK
  <1>4. TypeOK'
    BY <1>1, <1>2, <1>3, Assigned, CursorMoves DEF IInv, TypeOK
  <1>5. ActiveOK'
    <2>1. ASSUME NEW w \in Active'
          PROVE  /\ active'[w] < cursor' /\ active'[w] \notin progress'.completed
                 /\ w \in Active => active'[w] = active[w] /\ active[w] < cursor
                 /\ w \notin Active => Takes(w, active'[w]) /\ active'[w] >= cursor
      <3>1. CASE w \in Active
        <4>1. active[w] < cursor /\ active[w] \notin progress.completed
          BY <3>1 DEF IInv, ActiveOK
        <4>2. active[w] \in Nat /\ cursor \in Nat /\ cursor' \in Nat /\ cursor <= cursor'
          BY <1>1, <3>1, Facts, CursorMoves, ConstantsAssumption DEF IInv, TypeOK
        <4> QED BY <1>2, <3>1, <4>1, <4>2, Assigned
      <3>2. CASE w \notin Active
        <4>1. Takes(w, active'[w]) /\ active'[w] \in Open
          BY <3>2, Assigned DEF Takes
        <4>2. active'[w] \in Missions /\ active'[w] \notin progress.completed
              /\ active'[w] >= cursor
          BY <4>1 DEF Open
        <4>3. w \in Workers BY DEF Active
        <4> QED BY <1>1, <1>2, <3>2, <4>1, <4>2, <4>3, CursorMoves
      <3> QED BY <3>1, <3>2
    <2>2. ASSUME NEW v \in Active', NEW w \in Active', active'[v] = active'[w] PROVE v = w
      <3>1. active'[v] \in Nat /\ active'[w] \in Nat /\ cursor \in Nat
        BY Assigned, Facts, ConstantsAssumption DEF IInv, TypeOK, Active
      <3>2. CASE v \in Active /\ w \in Active
        BY <2>1, <2>2, <3>2 DEF IInv, ActiveOK
      <3>3. CASE v \notin Active /\ w \notin Active
        BY <2>1, <2>2, <3>3, TakesIsInjective
      <3>4. CASE ~(v \in Active <=> w \in Active)
        BY <2>1, <2>2, <3>1, <3>4
      <3> QED BY <3>2, <3>3, <3>4
    <2> QED BY <2>1, <2>2 DEF ActiveOK
  <1>6. CursorOK'
    <2> SUFFICES ASSUME NEW m \in Missions, m < cursor'
                 PROVE  m \in progress'.completed \/ \E w \in Workers : active'[w] = m
      BY DEF CursorOK
    <2>1. CASE m < cursor
      <3>1. m \in progress.completed \/ \E w \in Workers : active[w] = m
        BY <1>1, <2>1 DEF IInv, CursorOK
      <3>2. \A w \in Workers : active[w] = m => active'[w] = m
        BY Assigned, Facts DEF IInv, Active
      <3> QED BY <1>2, <3>1, <3>2
    <2>2. CASE ~(m < cursor) /\ m \notin progress.completed
      <3>1. m \in Open
        <4>1. m \in Nat /\ cursor \in Nat BY Facts DEF IInv, TypeOK
        <4> QED BY <2>2, <4>1 DEF Open
      <3> QED BY <1>1, <3>1, CursorMoves, Assigned
    <2> QED BY <1>2, <2>1, <2>2
  <1>7. StepOK' BY <1>1, ConstantsAssumption DEF StepOK, Reasons
  <1>8. CapsOK'
    <2>1. Uncounted' = {} BY <1>1 DEF Uncounted
    <2>2. /\ progress.envSteps + 0 <= safetyCap.transitions
          /\ Cardinality(progress.completed) \in Nat
      BY CapsSpelledOut
    <2>3. safetyCap.episodes \in Nat /\ Cardinality(Active) \in Nat BY Facts DEF IInv
    <2>4. Cardinality(progress.completed) + Cardinality(Active') <= safetyCap.episodes
      BY <2>2, <2>3, Assigned DEF Slots
    <2> QED BY <1>1, <1>2, <2>1, <2>2, <2>4, FS_EmptySet DEF CapsOK, IInv
  <1>9. ReplayOK'
    <2>1. Stored' = Stored BY <1>1, <1>2 DEF Stored
    <2>2. Exact([progress EXCEPT !.completed = Stored])'
          <=> Exact([progress EXCEPT !.completed = Stored])
      BY <1>2, <2>1, Facts DEF Exact, IInv, Progress
    <2> QED BY <1>1, <2>2 DEF IInv, ReplayOK, Exact
  <1>10. SavedOK' BY <1>1, <1>2 DEF IInv, SavedOK
  <1> QED BY <1>4, <1>5, <1>6, <1>7, <1>8, <1>9, <1>10 DEF IInv

LEMMA AssignmentChangedKeeps == IInv /\ AssignmentChanged => IInv'
  <1> SUFFICES ASSUME IInv, AssignmentChanged PROVE IInv'
    OBVIOUS
  <1>1. /\ pc = "loop" /\ pc' = "failed" /\ stop = None /\ failure' = "assignment"
        /\ UNCHANGED <<safetyCap, saved, cursor, active, steps, wave, over, half, stop,
                       processes>>
        /\ wave = {} /\ half = None
    BY DEF AssignmentChanged, MayAssign, IInv, StepOK, TypeOK, volatile
  <1>2. /\ progress' \in Progress
        /\ progress'.completed = progress.completed /\ progress'.replay = progress.replay
        /\ progress'.records = progress.records /\ progress'.envSteps = progress.envSteps
    <2> DEFINE Before(w) == \A v \in 1..w, q \in Missions : ~Mismatch(v, q)
               a == [m \in Missions |->
                       IF \E w \in Workers : Takes(w, m) /\ Before(w)
                       THEN CHOOSE w \in Workers : Takes(w, m) ELSE progress.assigned[m]]
    <2>1. progress.assigned \in [Missions -> Workers \union {None}]
      BY Facts, ProgressFields DEF IInv
    <2>4. progress' = [progress EXCEPT !.assigned = a] BY DEF AssignmentChanged
    <2> HIDE DEF Before
    <2>2. ASSUME NEW m \in Missions PROVE a[m] \in Workers \union {None}
      BY <2>1
    <2>3. a \in [Missions -> Workers \union {None}] BY <2>2
    <2> HIDE DEF a
    <2> QED BY <2>3, <2>4, OnlyAssigned
  <1>3. Active' = Active BY <1>1 DEF Active
  <1>4. TypeOK' BY <1>1, <1>2, <1>3 DEF IInv, TypeOK
  <1>5. ActiveOK' BY <1>1, <1>2, <1>3 DEF IInv, ActiveOK
  <1>6. CursorOK' BY <1>1 DEF CursorOK
  <1>7. StepOK' BY <1>1, ConstantsAssumption DEF StepOK, Reasons
  <1>8. CapsOK'
    <2>1. Uncounted' = {} BY <1>1 DEF Uncounted
    <2>2. progress.envSteps + 0 <= safetyCap.transitions BY CapsSpelledOut
    <2> QED BY <1>1, <1>2, <1>3, <2>1, <2>2, FS_EmptySet DEF CapsOK, IInv
  <1>9. ReplayOK'
    <2>1. Stored' = Stored BY <1>1, <1>2 DEF Stored
    <2>2. Exact([progress EXCEPT !.completed = Stored])'
          <=> Exact([progress EXCEPT !.completed = Stored])
      BY <1>2, <2>1, Facts DEF Exact, IInv, Progress
    <2> QED BY <1>1, <2>2 DEF IInv, ReplayOK, Exact
  <1>10. SavedOK' BY <1>1, <1>2 DEF IInv, SavedOK
  <1> QED BY <1>4, <1>5, <1>6, <1>7, <1>8, <1>9, <1>10 DEF IInv

\* A resume starts at the first mission not completed.
LEMMA ResumeKeeps == IInv /\ Resume => IInv'
  <1> SUFFICES ASSUME IInv, Resume PROVE IInv'
    OBVIOUS
  <1>1. /\ saved # None /\ progress' = saved.progress /\ pc' = "loop"
        /\ cursor' = FirstUncompleted(saved.progress)
        /\ active' = NoEpisodes /\ steps' = [w \in Workers |-> 0]
        /\ wave' = {} /\ over' = {} /\ half' = None /\ stop' = None
        /\ processes < MaxProcesses /\ processes' = processes + 1
        /\ UNCHANGED <<safetyCap, saved, failure>>
    BY DEF Resume, Restored
  <1>2. Active' = {} BY <1>1 DEF Active, NoEpisodes
  <1>3. /\ saved.progress \in Progress /\ saved.progress.completed \subseteq Missions
        /\ NumMissions \in Nat /\ saved.progress.envSteps \in Nat
        /\ Cardinality(saved.progress.completed) \in Nat
    BY <1>1, Facts, ProgressFields, ConstantsAssumption DEF IInv
  <1>4. cursor' \in 1..(NumMissions + 1) /\ 1..(cursor' - 1) \subseteq saved.progress.completed
    <2> DEFINE done == saved.progress.completed
               left == (1..(NumMissions + 1)) \ done
    <2>1. NumMissions + 1 \in left BY <1>3 DEF Missions
    <2>2. left \in SUBSET Nat BY <1>3
    <2>3. PICK n \in left : \A q \in left : n <= q
      <3> HIDE DEF left
      <3> QED BY <2>1, <2>2, MinExists
    <2>4. 1..(n - 1) \subseteq done
      <3> SUFFICES ASSUME NEW q \in 1..(n - 1), q \notin done PROVE FALSE
        OBVIOUS
      <3>1. n \in 1..(NumMissions + 1) OBVIOUS
      <3>2. q \in left /\ q < n BY <3>1, <1>3
      <3> QED BY <2>3, <3>1, <3>2
    <2>5. n \in 1..(NumMissions + 1) /\ n \notin done OBVIOUS
    <2> QED BY <1>1, <2>4, <2>5 DEF FirstUncompleted
  <1>5. TypeOK'
    <2>1. 0 \in 0..(MaxSteps - 1) BY ConstantsAssumption
    <2>2. processes' \in 1..MaxProcesses
      BY <1>1, ConstantsAssumption DEF IInv, TypeOK
    <2> QED BY <1>1, <1>2, <1>3, <1>4, <2>1, <2>2 DEF IInv, TypeOK, NoEpisodes
  <1>6. ActiveOK' BY <1>2 DEF ActiveOK
  <1>7. CursorOK'
    <2> SUFFICES ASSUME NEW m \in Missions, m < cursor'
                 PROVE  m \in saved.progress.completed
      BY <1>1 DEF CursorOK
    <2>1. m \in 1..(cursor' - 1)
      <3>1. m \in Nat /\ 1 <= m /\ NumMissions \in Nat BY <1>3 DEF Missions
      <3>2. cursor' \in Nat BY <1>3, <1>4
      <3>3. \A c \in Nat : m < c => m \in 1..(c - 1) BY <3>1
      <3> QED BY <3>2, <3>3, Zenon
    <2> QED BY <1>4, <2>1
  <1>8. StepOK' BY <1>1, ConstantsAssumption DEF StepOK, Reasons
  <1>9. CapsOK'
    <2>1. Uncounted' = {} BY <1>1 DEF Uncounted
    <2>2. /\ saved.progress.envSteps <= safetyCap.transitions
          /\ Cardinality(saved.progress.completed) <= safetyCap.episodes
      BY <1>1 DEF IInv, CapsOK
    <2> QED BY <1>1, <1>2, <1>3, <2>1, <2>2, FS_EmptySet DEF CapsOK
  <1>10. ReplayOK'
    <2>1. Stored' = saved.progress.completed BY <1>1 DEF Stored
    <2>2. Exact([progress' EXCEPT !.completed = Stored']) <=> Exact(saved.progress)
      BY <1>1, <1>3, <2>1 DEF Exact, Progress
    <2> QED BY <1>1, <2>2 DEF IInv, ReplayOK, Exact
  <1>11. SavedOK' BY <1>1, <1>3 DEF SavedOK
  <1> QED BY <1>5, <1>6, <1>7, <1>8, <1>9, <1>10, <1>11 DEF IInv
-----------------------------------------------------------------------------
\* Every step keeps the invariant.
LEMMA Inductive == IInv /\ [Next]_vars => IInv'
  <1> SUFFICES ASSUME IInv, [Next]_vars PROVE IInv'
    OBVIOUS
  <1>1. CASE StopAtCap BY <1>1, StopAtCapKeeps
  <1>2. CASE AssignMissions BY <1>2, AssignMissionsKeeps
  <1>3. CASE AssignmentChanged BY <1>3, AssignmentChangedKeeps
  <1>4. CASE NothingToAssign \/ NoGate \/ Fails \/ Crash BY <1>4, QuietStepsKeep
  <1>5. CASE NothingActive BY <1>5, NothingActiveKeeps
  <1>6. CASE StageWave BY <1>6, StageWaveKeeps
  <1>7. ASSUME NEW w \in Workers, TakeTransition(w) PROVE IInv'
    BY <1>7, TakeTransitionKeeps
  <1>8. ASSUME NEW w \in Workers, StoreEpisode(w) PROVE IInv'
    BY <1>8, StoreEpisodeKeeps
  <1>9. ASSUME NEW w \in Workers, StoreFails(w) PROVE IInv'
    BY <1>9, StoreFailsKeeps
  <1>10. CASE CompleteEpisode BY <1>10, CompleteEpisodeKeeps
  <1>11. ASSUME NEW verdict \in {"PENDING", "PASS", "FAIL_DIVERGED"}, ObserveGate(verdict)
         PROVE  IInv'
    BY <1>11, ObserveGateKeeps
  <1>12. CASE CommitGate \/ FinalCommit \/ HandleFailure BY <1>12, CommitsKeep
  <1>13. CASE AfterWave BY <1>13, AfterWaveKeeps
  <1>14. CASE Resume BY <1>14, ResumeKeeps
  <1>15. CASE UNCHANGED vars
    BY <1>15 DEF vars, volatile, IInv, TypeOK, ActiveOK, CursorOK, StepOK, CapsOK, ReplayOK,
       SavedOK, Active, Stored, Uncounted, Exact
  <1> QED
    BY <1>1, <1>2, <1>3, <1>4, <1>5, <1>6, <1>7, <1>8, <1>9, <1>10, <1>11, <1>12, <1>13,
       <1>14, <1>15 DEF Next, Run

\* A run starts with nothing flown, stored or saved.
LEMMA Initially == Init => IInv
  <1> SUFFICES ASSUME Init PROVE IInv
    OBVIOUS
  <1> USE DEF Init
  <1>1. Active = {} BY DEF Active, NoEpisodes
  <1>2. /\ progress.completed = {} /\ progress.replay = [m \in Missions |-> 0]
        /\ progress.records = {} /\ progress.envSteps = 0 /\ progress \in Progress
    BY DEF Fresh, Progress, Verdicts
  <1>3. safetyCap.transitions \in Nat /\ safetyCap.episodes \in Nat
    BY ConstantsAssumption
  <1>4. TypeOK
    <2>1. /\ 0 \in 0..(MaxSteps - 1) /\ 1 \in 1..MaxProcesses
          /\ 1 \in 1..(NumMissions + 1)
      BY ConstantsAssumption
    <2> QED BY <1>1, <1>2, <2>1 DEF TypeOK, NoEpisodes
  <1>5. ActiveOK BY <1>1 DEF ActiveOK
  <1>6. CursorOK
    <2>1. \A m \in Missions : ~(m < 1) BY ConstantsAssumption DEF Missions
    <2> QED BY <2>1 DEF CursorOK
  <1>7. StepOK BY ConstantsAssumption DEF StepOK, Reasons
  <1>8. CapsOK
    <2>1. Uncounted = {} BY DEF Uncounted
    <2> QED BY <1>1, <1>2, <1>3, <2>1, FS_EmptySet DEF CapsOK
  <1>9. ReplayOK
    <2>1. Stored = {} BY <1>2 DEF Stored
    <2>2. Exact([progress EXCEPT !.completed = Stored])
      BY <1>2, <2>1, StoredExact
    <2> QED BY <2>2 DEF ReplayOK
  <1>10. SavedOK BY DEF SavedOK
  <1> QED BY <1>4, <1>5, <1>6, <1>7, <1>8, <1>9, <1>10 DEF IInv

LEMMA Invariance == Spec => []IInv
  BY Initially, Inductive, PTL DEF Spec
-----------------------------------------------------------------------------
\* Types.
THEOREM TypeCorrect == Spec => []TypeOK
  <1>1. IInv => TypeOK BY DEF IInv
  <1> QED BY <1>1, Invariance, PTL

\* The safety caps of Phase1CalibrationSafetyCap hold over all the processes of
\* a run, for the missions in flight too.
THEOREM SafetyCapsHold == Spec => []CapsRespected
  <1>1. IInv => CapsRespected
    BY CapsSpelledOut DEF CapsRespected, IInv, CapsOK
  <1> QED BY <1>1, Invariance, PTL

\* A run that has exhausted its source has completed every mission, and
\* _assign_missions never hands out a mission that is flown or completed.
THEOREM NoMissionLost == Spec => []NoMissionSkipped
  <1>1. IInv => NoMissionSkipped
    BY DEF NoMissionSkipped, IInv, StepOK, ActiveOK
  <1> QED BY <1>1, Invariance, PTL

\* Unless KeyboardInterrupt strikes inside _step_once, the replay of the
\* process and of every checkpoint is that of the completed train missions.
THEOREM ReplayExact ==
    ASSUME ~InterruptsInsideStep
    PROVE  Spec => []ReplayIsProgress
  <1>1. IInv => ReplayIsProgress
    <2> SUFFICES ASSUME IInv PROVE ReplayIsProgress
      OBVIOUS
    <2>1. half = None => Stored = progress.completed BY DEF Stored
    <2>2. half = None => Exact(progress)
      BY <2>1, StoredExact, Facts DEF IInv, ReplayOK, Exact
    <2> QED BY <2>2 DEF ReplayIsProgress, IInv, ReplayOK
  <1> QED BY <1>1, Invariance, PTL

\* Once the gate has passed or diverged, the process starts no mission, and
\* after divergence its replay stays.
THEOREM VerdictsAreFinal == Spec => VerdictIsFinal
  <1>1. IInv /\ [Next]_vars => [VerdictStep]_vars
    <2> SUFFICES ASSUME IInv, Next,
                        stop \in {"CALIBRATION_GATE_PASS", "CALIBRATION_DIVERGED"},
                        processes' = processes
                 PROVE  /\ \A w \in Workers : active'[w] \in {active[w], None}
                        /\ stop = "CALIBRATION_DIVERGED" => progress'.replay = progress.replay
      BY DEF VerdictStep
    <2>1. stop # None BY ConstantsAssumption DEF Reasons
    <2>2. ~AssignMissions /\ ~AssignmentChanged
      BY <2>1 DEF AssignMissions, AssignmentChanged, MayAssign
    <2>3. ~Resume
      <3>1. processes \in Nat BY ConstantsAssumption DEF IInv, TypeOK
      <3> QED BY <3>1 DEF Resume
    <2>4. ASSUME NEW verdict PROVE ~ObserveGate(verdict)
      BY <2>1 DEF ObserveGate, GateIsDue
    <2>5. ASSUME NEW w \in Workers PROVE active'[w] \in {active[w], None}
      <3>1. CASE CompleteEpisode
        BY <3>1 DEF CompleteEpisode, IInv, TypeOK
      <3>2. CASE active' = active \/ active' = NoEpisodes
        BY <3>2 DEF NoEpisodes
      <3>3. CompleteEpisode \/ active' = active \/ active' = NoEpisodes
        BY <2>2, <2>3, <2>4 DEF Next, Run, volatile, StopAtCap, NothingToAssign,
           NothingActive, StageWave, TakeTransition, StoreEpisode, StoreFails, NoGate,
           CommitGate, AfterWave, FinalCommit, HandleFailure, Fails, Crash
      <3> QED BY <3>1, <3>2, <3>3
    <2>6. ASSUME stop = "CALIBRATION_DIVERGED" PROVE progress' = progress
      <3>1. pc \in {"after", "finish", "failed", "ended"} BY <2>6 DEF IInv, StepOK
      <3> QED BY <2>2, <2>3, <2>4, <3>1 DEF Next, Run, volatile, StopAtCap, NothingToAssign,
           NothingActive, StageWave, TakeTransition, StoreEpisode, StoreFails,
           CompleteEpisode, NoGate, CommitGate, AfterWave, FinalCommit, HandleFailure,
           Fails, Crash
    <2> QED BY <2>5, <2>6
  <1> QED BY <1>1, Invariance, PTL DEF Spec, VerdictIsFinal

\* Checkpoints only ever add completed missions and environment steps, whatever
\* ends the processes that write them.
THEOREM CommitsOnlyAdd == Spec => CommittedWorkKept
  <1>1. IInv /\ [Next]_vars => [CommittedWorkStep]_vars
    <2> SUFFICES ASSUME IInv, Next, saved # None
                 PROVE  /\ saved.progress.completed \subseteq saved'.progress.completed
                        /\ saved.progress.envSteps <= saved'.progress.envSteps
      BY DEF CommittedWorkStep
    <2>1. saved' = saved \/ saved'.progress = progress
      <3>1. CASE CommitGate \/ FinalCommit \/ HandleFailure
        <4>1. ASSUME NEW name, NEW state, Commit(name, state) PROVE saved'.progress = progress
          BY <4>1 DEF Commit
        <4> QED BY <3>1, <4>1 DEF CommitGate, FinalCommit, HandleFailure
      <3>2. CASE ~(CommitGate \/ FinalCommit \/ HandleFailure)
        BY <3>2 DEF Next, Run, volatile, StopAtCap, AssignMissions, AssignmentChanged,
           NothingToAssign, NothingActive, StageWave, TakeTransition, StoreEpisode,
           StoreFails, CompleteEpisode, NoGate, ObserveGate, AfterWave, Fails, Crash, Resume
      <3> QED BY <3>1, <3>2
    <2>2. saved.progress.envSteps <= saved.progress.envSteps
      BY Facts, ProgressFields DEF IInv
    <2> QED BY <2>1, <2>2 DEF IInv, SavedOK
  <1> QED BY <1>1, Invariance, PTL DEF Spec, CommittedWorkKept
====
