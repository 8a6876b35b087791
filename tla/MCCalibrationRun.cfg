\* Four missions for two workers, three processes, a cap that can be reached.
SPECIFICATION Spec
CONSTANTS
    NumMissions = 4
    Holdout <- SecondMission
    NumWorkers = 2
    MaxSteps = 2
    Interval = 2
    SafetyCaps <- Caps
    InterruptsInsideStep = FALSE
    MaxProcesses = 3
    None = None
INVARIANTS TypeOK ReplayIsProgress CapsRespected NoMissionSkipped
PROPERTIES VerdictIsFinal CommittedWorkKept RunEnds
\* The run is over once its last process has ended.
CHECK_DEADLOCK FALSE
