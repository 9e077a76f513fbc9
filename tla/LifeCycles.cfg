CONSTANTS
    MaxNumTasks = 11
    SchedulerType = "PreemptivePriority"
    LifeCycleType = "B1"
    Copies <- TenEach
    NumInputs = 10
    MinTicks <- NoDelay
SPECIFICATION SpecAny
INVARIANTS ReadyQueueExact ChildrenBecomePrograms AllProgramsTerminated InputsDistinctByPriority RaisedAfterCriticalRegion
PROPERTIES TerminatedStays LifeCycleEnds
