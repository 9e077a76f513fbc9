------------------------------ MODULE LifeCycles ------------------------------
(***************************************************************************)
(* The kernel as it is run: TaskManager driven by the programs of          *)
(* kernel.cpp.  The init program of the lifecycle forks the worker         *)
(* programs, turns each child into its program with execve, and waits      *)
(* until waitpid(-1) answers -1.  A step is one system call, or one of the *)
(* instructions of a worker that another task can tell: reading and        *)
(* writing the global that numbers the inputs.  A timer interrupt may come *)
(* between any two steps.                                                  *)
(***************************************************************************)
EXTENDS TaskManager

CONSTANTS
    Copies,      \* per program, its tasks: 3 in A and B2, 10 in B1
    NumInputs,   \* entries of each inputs array: 10
    MinTicks     \* per program, the timer interrupts its Delay loops last,
                 \* at least; 0 for a program that may end at any time

Programs == {"collatz", "longRunning", "binarySearch", "linearSearch"}

VARIABLES
    script,      \* the instructions of the init program
    prog,        \* per task, "init" or the program execve turned it into
    pc,          \* per task, the next instruction
    input,       \* per task, the index of the input it has loaded
    ran,         \* per task, timer interrupts seen at work, up to MinTicks
    inputNo      \* per program, the global that numbers its inputs

userVars == <<script, prog, pc, input, ran, inputNo>>
allVars == <<vars, userVars>>

-----------------------------------------------------------------------------
(* The programs *)

Instr(op, arg) == [op |-> op, arg |-> arg]
NoArg == ""

Spawn(program) ==
    <<Instr("fork", NoArg), Instr("forkpid", NoArg), Instr("exec", program)>>

\* Spawns a sequence of programs, one after the other: three instructions each.
SpawnAll(programs) ==
    [i \in 1 .. 3 * Len(programs) |->
        Spawn(programs[1 + ((i - 1) \div 3)])[1 + ((i - 1) % 3)]]

SpawnAt(program, newPriority) ==
    Append(Spawn(program), Instr("priority", newPriority))

\* while (syswaitpid(-1) != -1);  then while(1);
WaitAll == <<Instr("wait", NoArg), Instr("again", NoArg), Instr("done", NoArg)>>

CopiesOf(program) == [i \in 1 .. Copies[program] |-> program]

initA == SpawnAll(CopiesOf("collatz") \o CopiesOf("longRunning")) \o WaitAll

initB1(program) == SpawnAll(CopiesOf(program)) \o WaitAll

initB2(program1, program2) ==
    SpawnAll(CopiesOf(program1) \o CopiesOf(program2)) \o WaitAll

initB3 ==
    SpawnAt("collatz", Low)
        \o <<Instr("collatzadded", NoArg), Instr("block", NoArg)>>
        \o SpawnAt("longRunning", Low)
        \o SpawnAt("binarySearch", Low)
        \o SpawnAt("linearSearch", Low)
        \o WaitAll

initB4 ==
    <<Instr("ignore", TRUE)>>
        \o SpawnAt("collatz", Low)
        \o <<Instr("collatzadded", NoArg)>>
        \o SpawnAt("longRunning", Medium)
        \o SpawnAt("binarySearch", Medium)
        \o SpawnAt("linearSearch", Medium)
        \o <<Instr("ignore", FALSE)>>
        \o WaitAll

\* B1 and B2 draw their programs with sysrand, the time stamp counter.
Scripts ==
    CASE LifeCycleType = "A" -> {initA}
      [] LifeCycleType = "B1" -> {initB1(a) : a \in Programs}
      [] LifeCycleType = "B2" ->
           {initB2(d[1], d[2]) :
              d \in {e \in Programs \X Programs : e[1] # e[2]}}
      [] LifeCycleType = "B3" -> {initB3}
      [] LifeCycleType = "B4" -> {initB4}

\* inputs[no++] without optimisation: load the global, then store it plus
\* one; then print and Delay; then exit.
Worker ==
    <<Instr("load", NoArg), Instr("store", NoArg), Instr("work", NoArg),
      Instr("exit", NoArg)>>

CodeOf(p) == IF prog[p] = "init" THEN script ELSE Worker

InitPrograms ==
    /\ script \in Scripts
    /\ prog = [p \in Pids |-> "init"]
    /\ pc = [p \in Pids |-> 1]
    /\ input = [p \in Pids |-> 0]
    /\ ran = [p \in Pids |-> 0]
    /\ inputNo = [program \in Programs |-> 0]

InitKernel == Init /\ InitPrograms

-----------------------------------------------------------------------------
(* One step of the running task p *)

At(p, op) == p = currentTask /\ Calling /\ CodeOf(p)[pc[p]].op = op
Arg(p) == CodeOf(p)[pc[p]].arg

GoTo(p, target) ==
    /\ pc' = [pc EXCEPT ![p] = target]
    /\ UNCHANGED <<script, prog, input, ran, inputNo>>

Continue(p) == GoTo(p, pc[p] + 1)

\* The child is a copy of its parent and continues after the same call.
ForkStep(p) ==
    /\ At(p, "fork")
    /\ Fork
    /\ pc' = IF HasFreeSlot
             THEN [pc EXCEPT ![p] = @ + 1, ![numTasks] = pc[p] + 1]
             ELSE pc
    /\ UNCHANGED <<script, prog, input, ran, inputNo>>

ForkPidStep(p) == At(p, "forkpid") /\ ForkPid /\ Continue(p)

\* if (sysforkpid() == 0) sysexecve(program);
ExecStep(p) ==
    /\ At(p, "exec")
    /\ IF eax[p] = 0
       THEN /\ Execve
            /\ prog' = [prog EXCEPT ![p] = Arg(p)]
            /\ pc' = [pc EXCEPT ![p] = 1]
            /\ UNCHANGED <<script, input, ran, inputNo>>
       ELSE Continue(p) /\ UNCHANGED vars

PriorityStep(p) == At(p, "priority") /\ SetLastTaskPriority(Arg(p)) /\ Continue(p)
CollatzAddedStep(p) == At(p, "collatzadded") /\ CollatzAdded /\ Continue(p)
BlockStep(p) == At(p, "block") /\ BlockForCollatz /\ Continue(p)
IgnoreStep(p) == At(p, "ignore") /\ SetIgnoreSchedule(Arg(p)) /\ Continue(p)
WaitStep(p) == At(p, "wait") /\ Waitpid(AnyChild) /\ Continue(p)

AgainStep(p) ==
    /\ At(p, "again")
    /\ GoTo(p, IF eax[p] # NoTask THEN pc[p] - 1 ELSE pc[p] + 1)
    /\ UNCHANGED vars

LoadStep(p) ==
    /\ At(p, "load")
    /\ input' = [input EXCEPT ![p] = inputNo[prog[p]]]
    /\ pc' = [pc EXCEPT ![p] = @ + 1]
    /\ UNCHANGED <<vars, script, prog, ran, inputNo>>

StoreStep(p) ==
    /\ At(p, "store")
    /\ inputNo' = [inputNo EXCEPT ![prog[p]] = input[p] + 1]
    /\ pc' = [pc EXCEPT ![p] = @ + 1]
    /\ UNCHANGED <<vars, script, prog, input, ran>>

WorkStep(p) ==
    /\ At(p, "work")
    /\ ran[p] >= MinTicks[prog[p]]
    /\ Continue(p)
    /\ UNCHANGED vars

ExitStep(p) == At(p, "exit") /\ Exit /\ UNCHANGED userVars

Step(p) ==
    \/ ForkStep(p)
    \/ ForkPidStep(p)
    \/ ExecStep(p)
    \/ PriorityStep(p)
    \/ CollatzAddedStep(p)
    \/ BlockStep(p)
    \/ IgnoreStep(p)
    \/ WaitStep(p)
    \/ AgainStep(p)
    \/ LoadStep(p)
    \/ StoreStep(p)
    \/ WorkStep(p)
    \/ ExitStep(p)

\* The time a program spends in Delay is counted in ticks.
AtWork(p) == prog[p] # "init" /\ CodeOf(p)[pc[p]].op = "work"

Tick ==
    /\ TimerInterrupt
    /\ ran' = [p \in Pids |->
                 IF /\ p = currentTask
                    /\ AtWork(p)
                    /\ ran[p] < MinTicks[prog[p]]
                 THEN ran[p] + 1
                 ELSE ran[p]]
    /\ UNCHANGED <<script, prog, pc, input, inputNo>>

NextKernel == Tick \/ \E p \in Pids : Step(p)

\* A time slice lasts 55 ms: a task dispatched again and again gets further.
FairnessKernel ==
    /\ WF_allVars(Tick)
    /\ \A p \in Pids : SF_allVars(Step(p))

SpecKernel == InitKernel /\ [][NextKernel]_allVars /\ FairnessKernel

-----------------------------------------------------------------------------
(* Properties *)

InitDone == prog[InitPid] = "init" /\ script[pc[InitPid]].op = "done"
NumSpawned == Cardinality({i \in DOMAIN script : script[i].op = "fork"})

\* A forked child goes from its fork to its execve and never runs a further
\* line of the init program, wherever the tick falls between fork, forkpid
\* and execve: the pid each of the two sees is its own.
ChildrenBecomePrograms ==
    \A p \in 1 .. numTasks - 1 :
        prog[p] = "init" => script[pc[p]].op \in {"forkpid", "exec"}

\* "All programs terminated" (initA, l.415): when init prints it, every task
\* it forked has exited and has been waited for, and none was missed.
AllProgramsTerminated ==
    InitDone =>
        /\ numTasks = NumSpawned + 1
        /\ \A p \in 1 .. NumSpawned :
             state[p] = "Terminated" /\ parentTookInWait[p]

TerminatedKept ==
    \A p \in DOMAIN state : state[p] = "Terminated" => state'[p] = "Terminated"

\* A task that has exited never runs again.
TerminatedStays == [][TerminatedKept]_vars

\* The lifecycle ends: init sees every program finish.
LifeCycleEnds == <>InitDone

\* "Each process can run at max 10 times in a lifecycle" with the inputs set
\* "accordingly" (ReadMe): the runs of a program use different entries of its
\* inputs array, none past its end.
HasInput(p) == prog[p] # "init" /\ Worker[pc[p]].op \in {"work", "exit"}
InputsDistinct ==
    \A p, r \in Pids : HasInput(p) /\ HasInput(r) =>
        /\ input[p] < NumInputs
        /\ p # r /\ prog[p] = prog[r] => input[p] # input[r]

HasCriticalRegion == \E i \in DOMAIN script : script[i].op = "ignore"

\* "Critical region: Prepare ready queue before start scheduling" (initB4):
\* the count to the fifth interrupt, which lets collatz overtake the others,
\* starts when all of them are in the queue.
RaisedAfterCriticalRegion ==
    HasCriticalRegion /\ interruptNumAfterCollatz > 0 =>
        /\ ~ignoreSchedule
        /\ numTasks = NumSpawned + 1
=============================================================================
