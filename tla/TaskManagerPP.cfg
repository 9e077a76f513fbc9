CONSTANTS
    MaxNumTasks = 4
    SchedulerType = "PreemptivePriority"
    LifeCycleType = "A"
SPECIFICATION Spec
PROPERTIES PicksBest
\* A fault is the end of what the code defines.
CHECK_DEADLOCK FALSE
