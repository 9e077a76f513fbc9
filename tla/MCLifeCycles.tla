----------------------------- MODULE MCLifeCycles -----------------------------
(***************************************************************************)
(* startInitProcess starts the init program of the lifecycle the kernel    *)
(* was built with.  Each of the five is checked, as lifeCycleType has it:  *)
(* A under round robin with two collatz and one long-running program, and  *)
(* B1 to B4 at their real sizes under the preemptive scheduler, which B3   *)
(* and B4 require.                                                         *)
(***************************************************************************)
EXTENDS LifeCycles

\* In B3 and B4 the fifth interrupt comes before any Delay loop ends: Delay
\* does 750 million iterations.  The programs of A, B1 and B2 may also end at
\* once, or be interrupted at work.
Each(n) == [program \in Programs |-> n]
NoDelay == Each(0)
LongDelay == Each(5)

\* Two tasks of one program and one of another.
TwoCollatz == [Each(1) EXCEPT !["collatz"] = 2]
TenEach == Each(10)

VARIABLE lifeCycleType    \* what startInitProcess switches on

\* The module's own constants are those of B1.
A == INSTANCE LifeCycles WITH
        MaxNumTasks <- 4, SchedulerType <- "RoundRobin",
        LifeCycleType <- "A", Copies <- TwoCollatz, NumInputs <- 10,
        MinTicks <- NoDelay
B2 == INSTANCE LifeCycles WITH
        MaxNumTasks <- 7, SchedulerType <- "PreemptivePriority",
        LifeCycleType <- "B2", Copies <- Each(3), NumInputs <- 10,
        MinTicks <- NoDelay
B3 == INSTANCE LifeCycles WITH
        MaxNumTasks <- 5, SchedulerType <- "PreemptivePriority",
        LifeCycleType <- "B3", Copies <- Each(1), NumInputs <- 10,
        MinTicks <- LongDelay
B4 == INSTANCE LifeCycles WITH
        MaxNumTasks <- 5, SchedulerType <- "PreemptivePriority",
        LifeCycleType <- "B4", Copies <- Each(1), NumInputs <- 10,
        MinTicks <- LongDelay

kernelVars == <<allVars, lifeCycleType>>

startInitProcess ==
    \/ lifeCycleType = "A" /\ A!InitKernel
    \/ lifeCycleType = "B1" /\ InitKernel
    \/ lifeCycleType = "B2" /\ B2!InitKernel
    \/ lifeCycleType = "B3" /\ B3!InitKernel
    \/ lifeCycleType = "B4" /\ B4!InitKernel

TickAny ==
    /\ \/ lifeCycleType = "A" /\ A!Tick
       \/ lifeCycleType = "B1" /\ Tick
       \/ lifeCycleType = "B2" /\ B2!Tick
       \/ lifeCycleType = "B3" /\ B3!Tick
       \/ lifeCycleType = "B4" /\ B4!Tick
    /\ UNCHANGED lifeCycleType

StepAny(p) ==
    /\ p = currentTask
    /\ \/ lifeCycleType = "A" /\ A!Step(p)
       \/ lifeCycleType = "B1" /\ Step(p)
       \/ lifeCycleType = "B2" /\ B2!Step(p)
       \/ lifeCycleType = "B3" /\ B3!Step(p)
       \/ lifeCycleType = "B4" /\ B4!Step(p)
    /\ UNCHANGED lifeCycleType

NextAny == TickAny \/ \E p \in Pids : StepAny(p)

\* The same fairness as in LifeCycles.
SpecAny ==
    /\ startInitProcess
    /\ [][NextAny]_kernelVars
    /\ WF_kernelVars(TickAny)
    /\ \A p \in Pids : SF_kernelVars(StepAny(p))

-----------------------------------------------------------------------------
(* The other properties are those of LifeCycles and TaskManager: what they *)
(* say does not depend on the constants.                                   *)

\* Under the preemptive scheduler each run of a program has an input of its
\* own; under round robin, in A, the two steps of inputs[no++] can interleave.
InputsDistinctByPriority ==
    /\ lifeCycleType = "B1" => InputsDistinct
    /\ lifeCycleType = "B2" => B2!InputsDistinct
    /\ lifeCycleType = "B3" => B3!InputsDistinct
    /\ lifeCycleType = "B4" => B4!InputsDistinct
=============================================================================
