CONSTANTS
    MaxNumTasks = 4
    SchedulerType = "RoundRobin"
    LifeCycleType = "A"
SPECIFICATION Spec
INVARIANTS ReadyQueueExact PopFindsTask NoLostWakeup
PROPERTIES DeliveredOnce EveryReadyTaskRuns
\* A fault is the end of what the code defines.
CHECK_DEADLOCK FALSE
