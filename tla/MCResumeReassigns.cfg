\* A mission in flight at a checkpoint is another worker's after the resume.
SPECIFICATION Spec
CONSTANTS
    NumMissions = 3
    Holdout <- SecondMission
    NumWorkers = 2
    MaxSteps = 2
    Interval = 2
    SafetyCaps <- Caps
    InterruptsInsideStep = FALSE
    MaxProcesses = 3
    None = None
INVARIANTS ResumeAssigns
\* The run is over once its last process has ended.
CHECK_DEADLOCK FALSE
