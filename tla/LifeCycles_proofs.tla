--------------------------- MODULE LifeCycles_proofs ---------------------------
(***************************************************************************)
(* Proofs about LifeCycles.                                                *)
(***************************************************************************)
EXTENDS LifeCycles, TaskManager_proofs

-----------------------------------------------------------------------------
(* How the init programs are laid out *)

\* The programs that init spawns, and where it forks the pth of them.
NumForks(s) == IF LifeCycleType \in {"B3", "B4"} THEN 4 ELSE (Len(s) - 3) \div 3

ForkAt(p) ==
    IF LifeCycleType \in {"B3", "B4"} /\ p > 1 THEN 4 * p - 1
    ELSE IF LifeCycleType = "B4" THEN 2
    ELSE 3 * p - 2

SpawnOps == {"fork", "forkpid", "exec"}
SetUpOps == {"priority", "collatzadded", "block", "ignore"}
WaitOps == {"wait", "again", "done"}

\* Fork, forkpid and exec follow each other, and init waits at the end.
WellLaid(s) ==
    /\ Len(s) \in Nat /\ Len(s) >= 3 /\ NumForks(s) \in Nat
    /\ \A i \in 1 .. Len(s) : s[i].op \in SpawnOps \cup SetUpOps \cup WaitOps
    /\ \A i \in 1 .. Len(s) : s[i].op \in WaitOps => i >= Len(s) - 2
    /\ s[Len(s) - 2].op = "wait"
    /\ s[Len(s) - 1].op = "again"
    /\ s[Len(s)].op = "done"
    /\ \A p \in 1 .. NumForks(s) :
         /\ ForkAt(p) + 2 < Len(s) - 2
         /\ s[ForkAt(p)].op = "fork"
         /\ s[ForkAt(p) + 1].op = "forkpid"
         /\ s[ForkAt(p) + 2].op = "exec"
         /\ s[ForkAt(p) + 2].arg \in Programs
    /\ \A i \in 1 .. Len(s) : s[i].op \in SpawnOps =>
         \E p \in 1 .. NumForks(s) :
            \/ s[i].op = "fork" /\ i = ForkAt(p)
            \/ s[i].op = "forkpid" /\ i = ForkAt(p) + 1
            \/ s[i].op = "exec" /\ i = ForkAt(p) + 2
    /\ LifeCycleType \notin {"B3", "B4"} =>
         \A i \in 1 .. Len(s) : s[i].op \notin SetUpOps

\* The forks of init follow one another, three instructions apart.
LEMMA ForksInOrder ==
    ASSUME NEW p \in Nat, NEW r \in Nat, 1 <= p, p < r
    PROVE  ForkAt(p) \in Nat /\ 1 <= ForkAt(p) /\ ForkAt(p) + 3 <= ForkAt(r)
BY DEF ForkAt

\* A fork has a place in the init program.
LEMMA ForkPlace ==
    ASSUME NEW p \in Nat, 1 <= p
    PROVE  ForkAt(p) \in Nat /\ 1 <= ForkAt(p)
BY DEF ForkAt

\* A sequence of three instructions per program.
LEMMA SpawnInstructions ==
    ASSUME NEW program \in Programs
    PROVE  /\ Spawn(program)[1] = [op |-> "fork", arg |-> ""]
           /\ Spawn(program)[2] = [op |-> "forkpid", arg |-> ""]
           /\ Spawn(program)[3] = [op |-> "exec", arg |-> program]
BY DEF Spawn, Instr, NoArg

Args == Programs \cup {Low, Medium, High} \cup {TRUE, FALSE} \cup {NoArg}
Instructions == [op : SpawnOps \cup SetUpOps \cup WaitOps, arg : Args]

\* What Instr makes is an instruction.
LEMMA InstrTyped ==
    ASSUME NEW op \in SpawnOps \cup SetUpOps \cup WaitOps, NEW arg \in Args
    PROVE  Instr(op, arg) \in Instructions
BY Zenon DEF Instr, Instructions

\* A sequence of instructions behind another.
LEMMA ConcatAt ==
    ASSUME NEW s \in Seq(Instructions), NEW t \in Seq(Instructions)
    PROVE  /\ s \o t \in Seq(Instructions)
           /\ Len(s) \in Nat /\ Len(t) \in Nat
           /\ Len(s \o t) = Len(s) + Len(t)
           /\ \A i \in 1 .. Len(s) : (s \o t)[i] = s[i]
           /\ \A i \in 1 .. Len(t) : (s \o t)[Len(s) + i] = t[i]
<1>1. /\ s \o t \in Seq(Instructions)
      /\ Len(s \o t) = Len(s) + Len(t)
      /\ \A i \in 1 .. Len(s) + Len(t) : (s \o t)[i] =
            IF i <= Len(s) THEN s[i] ELSE t[i - Len(s)]
  BY ConcatProperties, Zenon
<1>2. Len(s) \in Nat /\ Len(t) \in Nat
  BY LenProperties
<1> QED
  BY <1>1, <1>2

\* A sequence of instructions and one more.
LEMMA AppendAt ==
    ASSUME NEW s \in Seq(Instructions), NEW e \in Instructions
    PROVE  /\ Append(s, e) \in Seq(Instructions)
           /\ Len(Append(s, e)) = Len(s) + 1
           /\ \A i \in 1 .. Len(s) : Append(s, e)[i] = s[i]
           /\ Append(s, e)[Len(s) + 1] = e
OBVIOUS

\* A single instruction is a sequence.
LEMMA OneInstruction ==
    ASSUME NEW e \in Instructions
    PROVE  <<e>> \in Seq(Instructions) /\ Len(<<e>>) = 1 /\ <<e>>[1] = e
OBVIOUS

\* The four instructions that spawn a program and set its priority.
LEMMA SpawnAtPlaces ==
    ASSUME NEW a \in Programs, NEW prio \in {Low, Medium, High}
    PROVE  /\ SpawnAt(a, prio) \in Seq(Instructions)
           /\ Len(SpawnAt(a, prio)) = 4
           /\ SpawnAt(a, prio)[1] = Instr("fork", NoArg)
           /\ SpawnAt(a, prio)[2] = Instr("forkpid", NoArg)
           /\ SpawnAt(a, prio)[3] = Instr("exec", a)
           /\ SpawnAt(a, prio)[4] = Instr("priority", prio)
<1> DEFINE s == Spawn(a)
           e == Instr("priority", prio)
<1>1. /\ Instr("fork", NoArg) \in Instructions
      /\ Instr("forkpid", NoArg) \in Instructions
      /\ Instr("exec", a) \in Instructions
      /\ e \in Instructions
  BY InstrTyped, Zenon DEF SpawnOps, SetUpOps, Args
<1>2. s \in Seq(Instructions) /\ Len(s) = 3
  BY <1>1 DEF Spawn
<1>3. s[1] = Instr("fork", NoArg) /\ s[2] = Instr("forkpid", NoArg) /\ s[3] = Instr("exec", a)
  BY DEF Spawn
<1>4. e \in Instructions
  BY <1>1
<1> HIDE DEF s, e
<1>5. /\ Append(s, e) \in Seq(Instructions)
      /\ Len(Append(s, e)) = Len(s) + 1
      /\ \A i \in 1 .. Len(s) : Append(s, e)[i] = s[i]
      /\ Append(s, e)[Len(s) + 1] = e
  BY <1>2, <1>4, AppendAt
<1> QED
  BY <1>2, <1>3, <1>5 DEF SpawnAt, s, e

\* The three instructions of the loop that waits for every child.
LEMMA WaitAllPlaces ==
    /\ WaitAll \in Seq(Instructions)
    /\ Len(WaitAll) = 3
    /\ WaitAll[1] = Instr("wait", NoArg)
    /\ WaitAll[2] = Instr("again", NoArg)
    /\ WaitAll[3] = Instr("done", NoArg)
<1>1. /\ Instr("wait", NoArg) \in Instructions
      /\ Instr("again", NoArg) \in Instructions
      /\ Instr("done", NoArg) \in Instructions
  BY InstrTyped, Zenon DEF WaitOps, Args
<1> QED
  BY <1>1 DEF WaitAll

\* One program spawned behind the instructions s.
LEMMA SpawnBehind ==
    ASSUME NEW s \in Seq(Instructions), NEW a \in Programs,
           NEW prio \in {Low, Medium, High}
    PROVE  LET t == s \o SpawnAt(a, prio)
           IN  /\ t \in Seq(Instructions)
               /\ Len(t) = Len(s) + 4
               /\ \A i \in 1 .. Len(s) : t[i] = s[i]
               /\ t[Len(s) + 1] = Instr("fork", NoArg)
               /\ t[Len(s) + 2] = Instr("forkpid", NoArg)
               /\ t[Len(s) + 3] = Instr("exec", a)
               /\ t[Len(s) + 4] = Instr("priority", prio)
<1> DEFINE b == SpawnAt(a, prio)
<1>1. /\ b \in Seq(Instructions) /\ Len(b) = 4
      /\ b[1] = Instr("fork", NoArg) /\ b[2] = Instr("forkpid", NoArg)
      /\ b[3] = Instr("exec", a) /\ b[4] = Instr("priority", prio)
  BY SpawnAtPlaces
<1> HIDE DEF b
<1>2. /\ s \o b \in Seq(Instructions)
      /\ Len(s \o b) = Len(s) + Len(b)
      /\ \A i \in 1 .. Len(s) : (s \o b)[i] = s[i]
      /\ \A i \in 1 .. Len(b) : (s \o b)[Len(s) + i] = b[i]
  BY <1>1, ConcatAt, Zenon
<1>3. /\ (s \o b)[Len(s) + 1] = b[1] /\ (s \o b)[Len(s) + 2] = b[2]
      /\ (s \o b)[Len(s) + 3] = b[3] /\ (s \o b)[Len(s) + 4] = b[4]
  BY <1>1, <1>2
<1> QED
  BY <1>1, <1>2, <1>3, Zenon DEF b

\* Init's last instructions, behind the instructions s.
LEMMA WaitBehind ==
    ASSUME NEW s \in Seq(Instructions)
    PROVE  LET t == s \o WaitAll
           IN  /\ t \in Seq(Instructions)
               /\ Len(t) = Len(s) + 3
               /\ \A i \in 1 .. Len(s) : t[i] = s[i]
               /\ t[Len(s) + 1] = Instr("wait", NoArg)
               /\ t[Len(s) + 2] = Instr("again", NoArg)
               /\ t[Len(s) + 3] = Instr("done", NoArg)
<1> DEFINE b == WaitAll
<1>1. /\ b \in Seq(Instructions) /\ Len(b) = 3
      /\ b[1] = Instr("wait", NoArg) /\ b[2] = Instr("again", NoArg)
      /\ b[3] = Instr("done", NoArg)
  BY WaitAllPlaces
<1> HIDE DEF b
<1>2. /\ s \o b \in Seq(Instructions)
      /\ Len(s \o b) = Len(s) + Len(b)
      /\ \A i \in 1 .. Len(s) : (s \o b)[i] = s[i]
      /\ \A i \in 1 .. Len(b) : (s \o b)[Len(s) + i] = b[i]
  BY <1>1, ConcatAt, Zenon
<1>3. /\ (s \o b)[Len(s) + 1] = b[1] /\ (s \o b)[Len(s) + 2] = b[2]
      /\ (s \o b)[Len(s) + 3] = b[3]
  BY <1>1, <1>2
<1> QED
  BY <1>1, <1>2, <1>3, Zenon DEF b

\* Where the instructions of each program are in a spawned sequence.
LEMMA SpawnAllPlaces ==
    ASSUME NEW ps \in Seq(Programs)
    PROVE  /\ SpawnAll(ps) \in Seq(Instructions)
           /\ Len(SpawnAll(ps)) = 3 * Len(ps)
           /\ \A p \in 1 .. Len(ps) :
                /\ SpawnAll(ps)[3 * p - 2] = [op |-> "fork", arg |-> ""]
                /\ SpawnAll(ps)[3 * p - 1] = [op |-> "forkpid", arg |-> ""]
                /\ SpawnAll(ps)[3 * p] = [op |-> "exec", arg |-> ps[p]]
           /\ \A i \in 1 .. 3 * Len(ps) : \E p \in 1 .. Len(ps) :
                i \in {3 * p - 2, 3 * p - 1, 3 * p}
<1> DEFINE n == Len(ps)
           s == SpawnAll(ps)
<1>1. n \in Nat /\ \A p \in 1 .. n : ps[p] \in Programs
  BY LenProperties, ElementOfSeq
<1>2. \A i \in 1 .. 3 * n :
         s[i] = Spawn(ps[1 + ((i - 1) \div 3)])[1 + ((i - 1) % 3)]
  BY DEF SpawnAll, s
<1>3. \A i \in 1 .. 3 * n : \E p \in 1 .. n :
         \/ i = 3 * p - 2 /\ (i - 1) \div 3 = p - 1 /\ (i - 1) % 3 = 0
         \/ i = 3 * p - 1 /\ (i - 1) \div 3 = p - 1 /\ (i - 1) % 3 = 1
         \/ i = 3 * p /\ (i - 1) \div 3 = p - 1 /\ (i - 1) % 3 = 2
  <2> SUFFICES ASSUME NEW i \in 1 .. 3 * n
               PROVE  \E p \in 1 .. n :
         \/ i = 3 * p - 2 /\ (i - 1) \div 3 = p - 1 /\ (i - 1) % 3 = 0
         \/ i = 3 * p - 1 /\ (i - 1) \div 3 = p - 1 /\ (i - 1) % 3 = 1
         \/ i = 3 * p /\ (i - 1) \div 3 = p - 1 /\ (i - 1) % 3 = 2
    OBVIOUS
  <2> DEFINE d == (i - 1) \div 3
             m == (i - 1) % 3
  <2>1. /\ d \in Int /\ m \in Int /\ n \in Nat /\ i \in Int
        /\ 0 <= m /\ m < 3
        /\ i - 1 = 3 * d + m
        /\ 1 <= i /\ i <= 3 * n
    BY <1>1
  <2> HIDE DEF d, m
  <2>2. d + 1 \in 1 .. n /\ m \in {0, 1, 2}
    BY <2>1
  <2>3. \/ i = 3 * (d + 1) - 2 /\ d = (d + 1) - 1 /\ m = 0
        \/ i = 3 * (d + 1) - 1 /\ d = (d + 1) - 1 /\ m = 1
        \/ i = 3 * (d + 1) /\ d = (d + 1) - 1 /\ m = 2
    BY <2>1, <2>2
  <2> QED
    BY <2>2, <2>3 DEF d, m
<1>4. \A p \in 1 .. n :
         /\ 3 * p - 2 \in 1 .. 3 * n
         /\ (3 * p - 2 - 1) \div 3 = p - 1 /\ (3 * p - 2 - 1) % 3 = 0
         /\ 3 * p - 1 \in 1 .. 3 * n
         /\ (3 * p - 1 - 1) \div 3 = p - 1 /\ (3 * p - 1 - 1) % 3 = 1
         /\ 3 * p \in 1 .. 3 * n
         /\ (3 * p - 1) \div 3 = p - 1 /\ (3 * p - 1) % 3 = 2
  BY <1>1
<1>5. \A p \in 1 .. n : 1 + (p - 1) = p
  BY <1>1
<1> HIDE DEF s
<1>6. \A p \in 1 .. n :
        /\ s[3 * p - 2] = Spawn(ps[p])[1]
        /\ s[3 * p - 1] = Spawn(ps[p])[2]
        /\ s[3 * p] = Spawn(ps[p])[3]
  <2> SUFFICES ASSUME NEW p \in 1 .. n
               PROVE  /\ s[3 * p - 2] = Spawn(ps[p])[1]
                      /\ s[3 * p - 1] = Spawn(ps[p])[2]
                      /\ s[3 * p] = Spawn(ps[p])[3]
    OBVIOUS
  <2>1. s[3 * p - 2] = Spawn(ps[1 + (p - 1)])[1 + 0]
    BY <1>2, <1>4
  <2>2. s[3 * p - 1] = Spawn(ps[1 + (p - 1)])[1 + 1]
    BY <1>2, <1>4
  <2>3. s[3 * p] = Spawn(ps[1 + (p - 1)])[1 + 2]
    BY <1>2, <1>4
  <2> QED
    BY <1>5, <2>1, <2>2, <2>3
<1>7. \A p \in 1 .. n :
        /\ s[3 * p - 2] = [op |-> "fork", arg |-> ""]
        /\ s[3 * p - 1] = [op |-> "forkpid", arg |-> ""]
        /\ s[3 * p] = [op |-> "exec", arg |-> ps[p]]
  BY <1>1, <1>6, SpawnInstructions
<1>8. \A i \in 1 .. 3 * n : \E p \in 1 .. n : i \in {3 * p - 2, 3 * p - 1, 3 * p}
  BY <1>3
<1>9. \A i \in 1 .. 3 * n : s[i] \in Instructions
  <2>1. \A p \in 1 .. n :
           /\ s[3 * p - 2] \in Instructions
           /\ s[3 * p - 1] \in Instructions
           /\ s[3 * p] \in Instructions
    <3>1. \A a \in Programs :
             /\ [op |-> "fork", arg |-> ""] \in Instructions
             /\ [op |-> "forkpid", arg |-> ""] \in Instructions
             /\ [op |-> "exec", arg |-> a] \in Instructions
      BY DEF Instructions, Args, SpawnOps, NoArg
    <3> QED
      BY <1>1, <1>7, <3>1
  <2> QED
    BY <1>8, <2>1
<1>10. s = [i \in 1 .. 3 * n |-> s[i]] /\ 3 * n \in Nat
  BY <1>1 DEF s, SpawnAll
<1>11. s \in Seq(Instructions)
  BY <1>9, <1>10, SeqDef
<1>12. Len(s) = 3 * n
  BY <1>10, <1>11, LenProperties
<1> QED
  BY <1>7, <1>8, <1>11, <1>12 DEF s

\* The init programs that set no priority: A, B1 and B2.
LEMMA WellLaidPlain ==
    ASSUME LifeCycleType \notin {"B3", "B4"}, NEW ps \in Seq(Programs)
    PROVE  /\ WellLaid(SpawnAll(ps) \o WaitAll)
           /\ NumForks(SpawnAll(ps) \o WaitAll) = Len(ps)
           /\ \A p \in 1 .. Len(ps) :
                 (SpawnAll(ps) \o WaitAll)[ForkAt(p) + 2].arg = ps[p]
<1> DEFINE n == Len(ps)
           b == SpawnAll(ps)
           s == b \o WaitAll
<1>1. n \in Nat /\ \A p \in 1 .. n : ps[p] \in Programs
  BY LenProperties, ElementOfSeq
<1>2. /\ b \in Seq(Instructions)
      /\ Len(b) = 3 * n
      /\ \A p \in 1 .. n :
           /\ b[3 * p - 2] = [op |-> "fork", arg |-> ""]
           /\ b[3 * p - 1] = [op |-> "forkpid", arg |-> ""]
           /\ b[3 * p] = [op |-> "exec", arg |-> ps[p]]
      /\ \A i \in 1 .. 3 * n : \E p \in 1 .. n :
           i \in {3 * p - 2, 3 * p - 1, 3 * p}
  BY SpawnAllPlaces
<1> HIDE DEF b
<1>3. /\ Len(s) = Len(b) + 3
      /\ \A i \in 1 .. Len(b) : s[i] = b[i]
      /\ s[Len(b) + 1] = Instr("wait", NoArg)
      /\ s[Len(b) + 2] = Instr("again", NoArg)
      /\ s[Len(b) + 3] = Instr("done", NoArg)
  BY <1>2, WaitBehind
<1> HIDE DEF s, n
<1>4. /\ Len(s) = 3 * n + 3 /\ Len(s) \in Nat /\ Len(s) >= 3
      /\ Len(s) - 2 = 3 * n + 1 /\ Len(s) - 1 = 3 * n + 2
      /\ (Len(s) - 3) \div 3 = n
  <2>1. Len(b) = 3 * n /\ Len(s) = Len(b) + 3
    BY <1>2, <1>3
  <2> QED
    BY <1>1, <2>1
<1>5. s[3 * n + 1].op = "wait" /\ s[3 * n + 2].op = "again" /\ s[3 * n + 3].op = "done"
  <2>1. Len(b) = 3 * n
    BY <1>2
  <2>2. /\ s[3 * n + 1] = Instr("wait", NoArg)
        /\ s[3 * n + 2] = Instr("again", NoArg)
        /\ s[3 * n + 3] = Instr("done", NoArg)
    BY <1>3, <2>1, Zenon
  <2> QED
    BY <2>2 DEF Instr
<1>6. NumForks(s) = n
  BY <1>4 DEF NumForks
<1>7. \A p \in 1 .. n : /\ ForkAt(p) = 3 * p - 2 /\ ForkAt(p) + 1 = 3 * p - 1
                       /\ ForkAt(p) + 2 = 3 * p
                       /\ 3 * p - 2 \in 1 .. 3 * n /\ 3 * p - 1 \in 1 .. 3 * n
                       /\ 3 * p \in 1 .. 3 * n
  BY <1>1 DEF ForkAt
<1>8. \A i \in 1 .. 3 * n : s[i] = b[i]
  BY <1>2, <1>3
<1>9. \A p \in 1 .. n :
         /\ s[ForkAt(p)].op = "fork"
         /\ s[ForkAt(p) + 1].op = "forkpid"
         /\ s[ForkAt(p) + 2].op = "exec"
         /\ s[ForkAt(p) + 2].arg = ps[p]
  <2>1. \A p \in 1 .. n : /\ s[ForkAt(p)] = b[3 * p - 2]
                          /\ s[ForkAt(p) + 1] = b[3 * p - 1]
                          /\ s[ForkAt(p) + 2] = b[3 * p]
    BY <1>7, <1>8, Zenon
  <2>2. \A p \in 1 .. n :
           /\ b[3 * p - 2] = [op |-> "fork", arg |-> ""]
           /\ b[3 * p - 1] = [op |-> "forkpid", arg |-> ""]
           /\ b[3 * p] = [op |-> "exec", arg |-> ps[p]]
    BY <1>2
  <2>3. \A p \in 1 .. n :
           /\ s[ForkAt(p)] = [op |-> "fork", arg |-> ""]
           /\ s[ForkAt(p) + 1] = [op |-> "forkpid", arg |-> ""]
           /\ s[ForkAt(p) + 2] = [op |-> "exec", arg |-> ps[p]]
    BY <2>1, <2>2, Zenon
  <2>4. ASSUME NEW p \in 1 .. n
        PROVE  /\ s[ForkAt(p)].op = "fork"
               /\ s[ForkAt(p) + 1].op = "forkpid"
               /\ s[ForkAt(p) + 2].op = "exec"
               /\ s[ForkAt(p) + 2].arg = ps[p]
    <3> DEFINE x == s[ForkAt(p)]
               y == s[ForkAt(p) + 1]
               z == s[ForkAt(p) + 2]
    <3>1. /\ x = [op |-> "fork", arg |-> ""]
          /\ y = [op |-> "forkpid", arg |-> ""]
          /\ z = [op |-> "exec", arg |-> ps[p]]
      BY <2>3
    <3> HIDE DEF x, y, z
    <3>2. x.op = "fork" /\ y.op = "forkpid" /\ z.op = "exec" /\ z.arg = ps[p]
      BY <3>1
    <3> QED
      BY <3>2 DEF x, y, z
  <2> QED
    BY <2>4
<1>10. \A i \in 1 .. Len(s) :
          \/ i \in 1 .. 3 * n
          \/ i = 3 * n + 1 /\ s[i].op = "wait"
          \/ i = 3 * n + 2 /\ s[i].op = "again"
          \/ i = 3 * n + 3 /\ s[i].op = "done"
  BY <1>1, <1>4, <1>5
<1>11. \A i \in 1 .. 3 * n : \E p \in 1 .. n :
          \/ s[i].op = "fork" /\ i = ForkAt(p)
          \/ s[i].op = "forkpid" /\ i = ForkAt(p) + 1
          \/ s[i].op = "exec" /\ i = ForkAt(p) + 2
  <2> SUFFICES ASSUME NEW i \in 1 .. 3 * n
               PROVE  \E p \in 1 .. n :
                         \/ s[i].op = "fork" /\ i = ForkAt(p)
                         \/ s[i].op = "forkpid" /\ i = ForkAt(p) + 1
                         \/ s[i].op = "exec" /\ i = ForkAt(p) + 2
    OBVIOUS
  <2>1. PICK p \in 1 .. n : i \in {3 * p - 2, 3 * p - 1, 3 * p}
    BY <1>2
  <2>2. i = ForkAt(p) \/ i = ForkAt(p) + 1 \/ i = ForkAt(p) + 2
    BY <2>1, <1>7
  <2>3. /\ s[ForkAt(p)].op = "fork"
        /\ s[ForkAt(p) + 1].op = "forkpid"
        /\ s[ForkAt(p) + 2].op = "exec"
    BY <1>9
  <2>4. \/ s[i].op = "fork" /\ i = ForkAt(p)
        \/ s[i].op = "forkpid" /\ i = ForkAt(p) + 1
        \/ s[i].op = "exec" /\ i = ForkAt(p) + 2
    <3> HIDE DEF s
    <3> QED
      BY <2>2, <2>3, Zenon
  <2> QED
    BY <2>4
<1>12. \A i \in 1 .. 3 * n : s[i].op \in {"fork", "forkpid", "exec"}
  BY <1>11
<1>13. \A i \in 1 .. Len(s) : s[i].op \in SpawnOps \cup SetUpOps \cup WaitOps
  BY <1>10, <1>12 DEF SpawnOps, WaitOps
<1>14. \A i \in 1 .. Len(s) : s[i].op \in WaitOps => i >= Len(s) - 2
  <2>1. \A i \in 1 .. Len(s) : s[i].op \in WaitOps => i \in {3 * n + 1, 3 * n + 2, 3 * n + 3}
    BY <1>10, <1>12 DEF WaitOps
  <2> QED
    BY <1>1, <1>4, <2>1
<1>15. \A p \in 1 .. n : ForkAt(p) + 2 < Len(s) - 2
  BY <1>1, <1>4, <1>7
<1>16. \A i \in 1 .. Len(s) : s[i].op \in SpawnOps => i \in 1 .. 3 * n
  BY <1>10 DEF SpawnOps
<1>17. \A i \in 1 .. Len(s) : s[i].op \notin SetUpOps
  BY <1>10, <1>12 DEF SetUpOps
<1>18. WellLaid(s)
  BY <1>1, <1>4, <1>5, <1>6, <1>9, <1>11, <1>13, <1>14, <1>15, <1>16, <1>17 DEF WellLaid
<1> QED
  BY <1>6, <1>9, <1>18 DEF s, n, b

LayoutB3 ==
    /\ Len(initB3) = 21
    /\ \A p \in 1 .. 4 :
         /\ initB3[ForkAt(p)] = Instr("fork", NoArg)
         /\ initB3[ForkAt(p) + 1] = Instr("forkpid", NoArg)
         /\ initB3[ForkAt(p) + 2].op = "exec"
         /\ initB3[ForkAt(p) + 2].arg \in Programs
         /\ initB3[ForkAt(p) + 3] = Instr("priority", Low)
    /\ initB3[3].arg = "collatz" /\ initB3[9].arg = "longRunning"
    /\ initB3[13].arg = "binarySearch" /\ initB3[17].arg = "linearSearch"
    /\ initB3[5] = Instr("collatzadded", NoArg)
    /\ initB3[6] = Instr("block", NoArg)
    /\ initB3[19] = Instr("wait", NoArg)
    /\ initB3[20] = Instr("again", NoArg)
    /\ initB3[21] = Instr("done", NoArg)

\* The 21 instructions of initB3.
LEMMA initB3Places == LifeCycleType = "B3" => LayoutB3
<1> SUFFICES ASSUME LifeCycleType = "B3" PROVE LayoutB3
  OBVIOUS
<1> DEFINE a == SpawnAt("collatz", Low)
           b == <<Instr("collatzadded", NoArg), Instr("block", NoArg)>>
           s == a \o b
           t == s \o SpawnAt("longRunning", Low)
           u == t \o SpawnAt("binarySearch", Low)
           v == u \o SpawnAt("linearSearch", Low)
<1>1. initB3 = v \o WaitAll
  BY DEF initB3
<1>2. "collatz" \in Programs /\ "longRunning" \in Programs
      /\ "binarySearch" \in Programs /\ "linearSearch" \in Programs
  BY DEF Programs
<1>3. /\ a \in Seq(Instructions) /\ Len(a) = 4
      /\ a[1] = Instr("fork", NoArg) /\ a[2] = Instr("forkpid", NoArg)
      /\ a[3] = Instr("exec", "collatz") /\ a[4] = Instr("priority", Low)
  BY <1>2, SpawnAtPlaces
<1>4. /\ b \in Seq(Instructions) /\ Len(b) = 2
      /\ b[1] = Instr("collatzadded", NoArg) /\ b[2] = Instr("block", NoArg)
  <2>1. /\ Instr("collatzadded", NoArg) \in Instructions
        /\ Instr("block", NoArg) \in Instructions
    BY InstrTyped, Zenon DEF SetUpOps, Args
  <2> QED
    BY <2>1
<1> HIDE DEF a, b
<1>5. /\ s \in Seq(Instructions)
      /\ Len(s) = Len(a) + Len(b)
      /\ \A i \in 1 .. Len(a) : s[i] = a[i]
      /\ \A i \in 1 .. Len(b) : s[Len(a) + i] = b[i]
  BY <1>3, <1>4, ConcatAt, Zenon
<1>6. /\ Len(s) = 6
      /\ s[1] = a[1] /\ s[2] = a[2] /\ s[3] = a[3] /\ s[4] = a[4]
      /\ s[5] = b[1] /\ s[6] = b[2]
  BY <1>3, <1>4, <1>5
<1> HIDE DEF s
<1>7. /\ t \in Seq(Instructions) /\ Len(t) = Len(s) + 4
      /\ \A i \in 1 .. Len(s) : t[i] = s[i]
      /\ t[Len(s) + 1] = Instr("fork", NoArg)
      /\ t[Len(s) + 2] = Instr("forkpid", NoArg)
      /\ t[Len(s) + 3] = Instr("exec", "longRunning")
      /\ t[Len(s) + 4] = Instr("priority", Low)
  BY <1>2, <1>5, SpawnBehind
<1> HIDE DEF t
<1>8. /\ u \in Seq(Instructions) /\ Len(u) = Len(t) + 4
      /\ \A i \in 1 .. Len(t) : u[i] = t[i]
      /\ u[Len(t) + 1] = Instr("fork", NoArg)
      /\ u[Len(t) + 2] = Instr("forkpid", NoArg)
      /\ u[Len(t) + 3] = Instr("exec", "binarySearch")
      /\ u[Len(t) + 4] = Instr("priority", Low)
  BY <1>2, <1>7, SpawnBehind
<1> HIDE DEF u
<1>9. /\ v \in Seq(Instructions) /\ Len(v) = Len(u) + 4
      /\ \A i \in 1 .. Len(u) : v[i] = u[i]
      /\ v[Len(u) + 1] = Instr("fork", NoArg)
      /\ v[Len(u) + 2] = Instr("forkpid", NoArg)
      /\ v[Len(u) + 3] = Instr("exec", "linearSearch")
      /\ v[Len(u) + 4] = Instr("priority", Low)
  BY <1>2, <1>8, SpawnBehind
<1> HIDE DEF v
<1>10. /\ Len(initB3) = Len(v) + 3
       /\ \A i \in 1 .. Len(v) : initB3[i] = v[i]
       /\ initB3[Len(v) + 1] = Instr("wait", NoArg)
       /\ initB3[Len(v) + 2] = Instr("again", NoArg)
       /\ initB3[Len(v) + 3] = Instr("done", NoArg)
  BY <1>1, <1>9, WaitBehind
<1>11. Len(s) = 6 /\ Len(t) = 10 /\ Len(u) = 14 /\ Len(v) = 18 /\ Len(initB3) = 21
  BY <1>6, <1>7, <1>8, <1>9, <1>10
<1>12. /\ initB3[19] = Instr("wait", NoArg)
       /\ initB3[20] = Instr("again", NoArg)
       /\ initB3[21] = Instr("done", NoArg)
  BY <1>10, <1>11
<1>13. \A i \in 1 .. 18 : initB3[i] = v[i]
  BY <1>10, <1>11
<1>14. \A i \in 1 .. 14 : initB3[i] = u[i]
  BY <1>9, <1>11, <1>13
<1>15. \A i \in 1 .. 10 : initB3[i] = t[i]
  BY <1>8, <1>11, <1>14
<1>16. \A i \in 1 .. 6 : initB3[i] = s[i]
  BY <1>7, <1>11, <1>15
<1>17. /\ initB3[5] = Instr("collatzadded", NoArg)
       /\ initB3[6] = Instr("block", NoArg)
  BY <1>16, <1>6, <1>4
<1>18. /\ initB3[1] = Instr("fork", NoArg) /\ initB3[2] = Instr("forkpid", NoArg)
       /\ initB3[3] = Instr("exec", "collatz") /\ initB3[4] = Instr("priority", Low)
  BY <1>16, <1>6, <1>3
<1>19. /\ initB3[7] = Instr("fork", NoArg) /\ initB3[8] = Instr("forkpid", NoArg)
       /\ initB3[9] = Instr("exec", "longRunning") /\ initB3[10] = Instr("priority", Low)
  BY <1>15, <1>11, <1>7
<1>20. /\ initB3[11] = Instr("fork", NoArg) /\ initB3[12] = Instr("forkpid", NoArg)
       /\ initB3[13] = Instr("exec", "binarySearch") /\ initB3[14] = Instr("priority", Low)
  BY <1>14, <1>11, <1>8
<1>21. /\ initB3[15] = Instr("fork", NoArg) /\ initB3[16] = Instr("forkpid", NoArg)
       /\ initB3[17] = Instr("exec", "linearSearch") /\ initB3[18] = Instr("priority", Low)
  BY <1>13, <1>11, <1>9
<1>22. /\ initB3[3].op = "exec" /\ initB3[3].arg \in Programs
       /\ initB3[9].op = "exec" /\ initB3[9].arg \in Programs
       /\ initB3[13].op = "exec" /\ initB3[13].arg \in Programs
       /\ initB3[17].op = "exec" /\ initB3[17].arg \in Programs
       /\ initB3[3].arg = "collatz" /\ initB3[9].arg = "longRunning"
       /\ initB3[13].arg = "binarySearch" /\ initB3[17].arg = "linearSearch"
  BY <1>2, <1>18, <1>19, <1>20, <1>21 DEF Instr
<1> QED
  BY <1>11, <1>12, <1>17, <1>18, <1>19, <1>20, <1>21, <1>22 DEF LayoutB3, ForkAt

LayoutB4 ==
    /\ Len(initB4) = 22
    /\ initB4[1] = Instr("ignore", TRUE)
    /\ \A p \in 1 .. 4 :
         /\ initB4[ForkAt(p)] = Instr("fork", NoArg)
         /\ initB4[ForkAt(p) + 1] = Instr("forkpid", NoArg)
         /\ initB4[ForkAt(p) + 2].op = "exec"
         /\ initB4[ForkAt(p) + 2].arg \in Programs
         /\ initB4[ForkAt(p) + 3] = Instr("priority", IF p = 1 THEN Low ELSE Medium)
    /\ initB4[4].arg = "collatz" /\ initB4[9].arg = "longRunning"
    /\ initB4[13].arg = "binarySearch" /\ initB4[17].arg = "linearSearch"
    /\ initB4[6] = Instr("collatzadded", NoArg)
    /\ initB4[19] = Instr("ignore", FALSE)
    /\ initB4[20] = Instr("wait", NoArg)
    /\ initB4[21] = Instr("again", NoArg)
    /\ initB4[22] = Instr("done", NoArg)

\* The 22 instructions of initB4.
LEMMA initB4Places == LifeCycleType = "B4" => LayoutB4
<1> SUFFICES ASSUME LifeCycleType = "B4" PROVE LayoutB4
  OBVIOUS
<1> DEFINE a == <<Instr("ignore", TRUE)>>
           b == <<Instr("collatzadded", NoArg)>>
           c == <<Instr("ignore", FALSE)>>
           r == a \o SpawnAt("collatz", Low)
           s == r \o b
           t == s \o SpawnAt("longRunning", Medium)
           u == t \o SpawnAt("binarySearch", Medium)
           v == u \o SpawnAt("linearSearch", Medium)
           x == v \o c
<1>1. initB4 = x \o WaitAll
  BY DEF initB4
<1>2. "collatz" \in Programs /\ "longRunning" \in Programs
      /\ "binarySearch" \in Programs /\ "linearSearch" \in Programs
  BY DEF Programs
<1>3. /\ Instr("ignore", TRUE) \in Instructions
      /\ Instr("ignore", FALSE) \in Instructions
      /\ Instr("collatzadded", NoArg) \in Instructions
  BY InstrTyped, Zenon DEF SetUpOps, Args
<1>4. /\ a \in Seq(Instructions) /\ Len(a) = 1 /\ a[1] = Instr("ignore", TRUE)
      /\ b \in Seq(Instructions) /\ Len(b) = 1 /\ b[1] = Instr("collatzadded", NoArg)
      /\ c \in Seq(Instructions) /\ Len(c) = 1 /\ c[1] = Instr("ignore", FALSE)
  BY <1>3, OneInstruction, Zenon
<1> HIDE DEF a, b, c
<1>5. /\ r \in Seq(Instructions) /\ Len(r) = Len(a) + 4
      /\ \A i \in 1 .. Len(a) : r[i] = a[i]
      /\ r[Len(a) + 1] = Instr("fork", NoArg)
      /\ r[Len(a) + 2] = Instr("forkpid", NoArg)
      /\ r[Len(a) + 3] = Instr("exec", "collatz")
      /\ r[Len(a) + 4] = Instr("priority", Low)
  BY <1>2, <1>4, SpawnBehind
<1> HIDE DEF r
<1>6. /\ s \in Seq(Instructions)
      /\ Len(s) = Len(r) + Len(b)
      /\ \A i \in 1 .. Len(r) : s[i] = r[i]
      /\ \A i \in 1 .. Len(b) : s[Len(r) + i] = b[i]
  BY <1>4, <1>5, ConcatAt, Zenon
<1> HIDE DEF s
<1>7. /\ t \in Seq(Instructions) /\ Len(t) = Len(s) + 4
      /\ \A i \in 1 .. Len(s) : t[i] = s[i]
      /\ t[Len(s) + 1] = Instr("fork", NoArg)
      /\ t[Len(s) + 2] = Instr("forkpid", NoArg)
      /\ t[Len(s) + 3] = Instr("exec", "longRunning")
      /\ t[Len(s) + 4] = Instr("priority", Medium)
  BY <1>2, <1>6, SpawnBehind
<1> HIDE DEF t
<1>8. /\ u \in Seq(Instructions) /\ Len(u) = Len(t) + 4
      /\ \A i \in 1 .. Len(t) : u[i] = t[i]
      /\ u[Len(t) + 1] = Instr("fork", NoArg)
      /\ u[Len(t) + 2] = Instr("forkpid", NoArg)
      /\ u[Len(t) + 3] = Instr("exec", "binarySearch")
      /\ u[Len(t) + 4] = Instr("priority", Medium)
  BY <1>2, <1>7, SpawnBehind
<1> HIDE DEF u
<1>9. /\ v \in Seq(Instructions) /\ Len(v) = Len(u) + 4
      /\ \A i \in 1 .. Len(u) : v[i] = u[i]
      /\ v[Len(u) + 1] = Instr("fork", NoArg)
      /\ v[Len(u) + 2] = Instr("forkpid", NoArg)
      /\ v[Len(u) + 3] = Instr("exec", "linearSearch")
      /\ v[Len(u) + 4] = Instr("priority", Medium)
  BY <1>2, <1>8, SpawnBehind
<1> HIDE DEF v
<1>10. /\ x \in Seq(Instructions)
       /\ Len(x) = Len(v) + Len(c)
       /\ \A i \in 1 .. Len(v) : x[i] = v[i]
       /\ \A i \in 1 .. Len(c) : x[Len(v) + i] = c[i]
  BY <1>4, <1>9, ConcatAt, Zenon
<1> HIDE DEF x
<1>11. /\ Len(initB4) = Len(x) + 3
       /\ \A i \in 1 .. Len(x) : initB4[i] = x[i]
       /\ initB4[Len(x) + 1] = Instr("wait", NoArg)
       /\ initB4[Len(x) + 2] = Instr("again", NoArg)
       /\ initB4[Len(x) + 3] = Instr("done", NoArg)
  BY <1>1, <1>10, WaitBehind
<1>12. /\ Len(a) = 1 /\ Len(r) = 5 /\ Len(s) = 6 /\ Len(t) = 10 /\ Len(u) = 14
       /\ Len(v) = 18 /\ Len(x) = 19 /\ Len(initB4) = 22
  BY <1>4, <1>5, <1>6, <1>7, <1>8, <1>9, <1>10, <1>11
<1>13. /\ initB4[20] = Instr("wait", NoArg)
       /\ initB4[21] = Instr("again", NoArg)
       /\ initB4[22] = Instr("done", NoArg)
  BY <1>11, <1>12
<1>14. \A i \in 1 .. 19 : initB4[i] = x[i]
  BY <1>11, <1>12
<1>15. \A i \in 1 .. 18 : initB4[i] = v[i]
  <2>1. \A i \in 1 .. 18 : x[i] = v[i]
    BY <1>10, <1>12
  <2>2. \A i \in 1 .. 18 : initB4[i] = x[i]
    BY <1>14
  <2> QED
    BY <2>1, <2>2
<1>27. x[19] = c[1]
  <2>1. 1 \in 1 .. Len(c) /\ Len(v) + 1 = 19
    BY <1>4, <1>12
  <2> QED
    BY <1>10, <2>1
<1>16. \A i \in 1 .. 14 : initB4[i] = u[i]
  BY <1>9, <1>12, <1>15
<1>17. \A i \in 1 .. 10 : initB4[i] = t[i]
  BY <1>8, <1>12, <1>16
<1>18. \A i \in 1 .. 6 : initB4[i] = s[i]
  BY <1>7, <1>12, <1>17
<1>19. (\A i \in 1 .. 5 : initB4[i] = r[i]) /\ s[6] = b[1]
  <2>1. 1 \in 1 .. Len(b) /\ Len(r) + 1 = 6
    BY <1>4, <1>12
  <2> QED
    BY <1>6, <1>12, <1>18, <2>1
<1>20. /\ initB4[1] = Instr("ignore", TRUE)
       /\ initB4[6] = Instr("collatzadded", NoArg)
       /\ initB4[19] = Instr("ignore", FALSE)
  <2>1. initB4[1] = r[1] /\ initB4[6] = s[6] /\ initB4[19] = x[19] /\ r[1] = a[1]
    BY <1>5, <1>12, <1>14, <1>18, <1>19
  <2> QED
    BY <2>1, <1>4, <1>19, <1>27, Zenon
<1>21. /\ initB4[2] = Instr("fork", NoArg) /\ initB4[3] = Instr("forkpid", NoArg)
       /\ initB4[4] = Instr("exec", "collatz") /\ initB4[5] = Instr("priority", Low)
  BY <1>5, <1>12, <1>19
<1>22. /\ initB4[7] = Instr("fork", NoArg) /\ initB4[8] = Instr("forkpid", NoArg)
       /\ initB4[9] = Instr("exec", "longRunning") /\ initB4[10] = Instr("priority", Medium)
  BY <1>7, <1>12, <1>17
<1>23. /\ initB4[11] = Instr("fork", NoArg) /\ initB4[12] = Instr("forkpid", NoArg)
       /\ initB4[13] = Instr("exec", "binarySearch") /\ initB4[14] = Instr("priority", Medium)
  BY <1>8, <1>12, <1>16
<1>24. /\ initB4[15] = Instr("fork", NoArg) /\ initB4[16] = Instr("forkpid", NoArg)
       /\ initB4[17] = Instr("exec", "linearSearch") /\ initB4[18] = Instr("priority", Medium)
  BY <1>9, <1>12, <1>15
<1>25. /\ initB4[4].op = "exec" /\ initB4[4].arg \in Programs
       /\ initB4[9].op = "exec" /\ initB4[9].arg \in Programs
       /\ initB4[13].op = "exec" /\ initB4[13].arg \in Programs
       /\ initB4[17].op = "exec" /\ initB4[17].arg \in Programs
       /\ initB4[4].arg = "collatz" /\ initB4[9].arg = "longRunning"
       /\ initB4[13].arg = "binarySearch" /\ initB4[17].arg = "linearSearch"
  BY <1>2, <1>21, <1>22, <1>23, <1>24 DEF Instr
<1>26. /\ ForkAt(1) = 2 /\ ForkAt(2) = 7 /\ ForkAt(3) = 11 /\ ForkAt(4) = 15
  BY DEF ForkAt
<1> QED
  <2>1. \A p \in 1 .. 4 :
         /\ initB4[ForkAt(p)] = Instr("fork", NoArg)
         /\ initB4[ForkAt(p) + 1] = Instr("forkpid", NoArg)
         /\ initB4[ForkAt(p) + 2].op = "exec"
         /\ initB4[ForkAt(p) + 2].arg \in Programs
         /\ initB4[ForkAt(p) + 3] = Instr("priority", IF p = 1 THEN Low ELSE Medium)
    BY <1>21, <1>22, <1>23, <1>24, <1>25, <1>26
  <2> QED
    BY <1>12, <1>13, <1>20, <1>25, <2>1 DEF LayoutB4

\* initB3 is laid out as the others are.
LEMMA WellLaidB3 == LifeCycleType = "B3" => WellLaid(initB3)
<1> SUFFICES ASSUME LifeCycleType = "B3" PROVE WellLaid(initB3)
  OBVIOUS
<1> DEFINE s == initB3
<1>1. NumForks(s) = 4
  BY DEF NumForks
<1>2. ForkAt(1) = 1 /\ ForkAt(2) = 7 /\ ForkAt(3) = 11 /\ ForkAt(4) = 15
  BY DEF ForkAt
<1>3. LayoutB3
  BY initB3Places
<1> HIDE DEF s
<1>4. /\ Len(s) = 21
      /\ s[1].op = "fork" /\ s[2].op = "forkpid" /\ s[3].op = "exec" /\ s[4].op = "priority"
      /\ s[5].op = "collatzadded" /\ s[6].op = "block"
      /\ s[7].op = "fork" /\ s[8].op = "forkpid" /\ s[9].op = "exec" /\ s[10].op = "priority"
      /\ s[11].op = "fork" /\ s[12].op = "forkpid" /\ s[13].op = "exec" /\ s[14].op = "priority"
      /\ s[15].op = "fork" /\ s[16].op = "forkpid" /\ s[17].op = "exec" /\ s[18].op = "priority"
      /\ s[19].op = "wait" /\ s[20].op = "again" /\ s[21].op = "done"
      /\ \A p \in 1 .. 4 : s[ForkAt(p) + 2].arg \in Programs
  BY <1>2, <1>3 DEF LayoutB3, Instr, s
<1>5. \A i \in 1 .. 21 :
         \/ i = 1 \/ i = 2 \/ i = 3 \/ i = 4 \/ i = 5 \/ i = 6 \/ i = 7
         \/ i = 8 \/ i = 9 \/ i = 10 \/ i = 11 \/ i = 12 \/ i = 13 \/ i = 14
         \/ i = 15 \/ i = 16 \/ i = 17 \/ i = 18 \/ i = 19 \/ i = 20 \/ i = 21
  OBVIOUS
<1>6. \A i \in 1 .. Len(s) : s[i].op \in SpawnOps \cup SetUpOps \cup WaitOps
  BY <1>4, <1>5 DEF SpawnOps, SetUpOps, WaitOps
<1>7. \A i \in 1 .. Len(s) : s[i].op \in WaitOps => i >= Len(s) - 2
  BY <1>4, <1>5 DEF WaitOps
<1>8. \A p \in 1 .. 4 :
         /\ ForkAt(p) + 2 < Len(s) - 2
         /\ s[ForkAt(p)].op = "fork"
         /\ s[ForkAt(p) + 1].op = "forkpid"
         /\ s[ForkAt(p) + 2].op = "exec"
         /\ s[ForkAt(p) + 2].arg \in Programs
  BY <1>2, <1>4
<1>9. \A i \in 1 .. Len(s) : s[i].op \in SpawnOps =>
         \E p \in 1 .. 4 :
            \/ s[i].op = "fork" /\ i = ForkAt(p)
            \/ s[i].op = "forkpid" /\ i = ForkAt(p) + 1
            \/ s[i].op = "exec" /\ i = ForkAt(p) + 2
  <2>1. \A i \in 1 .. Len(s) : s[i].op \in SpawnOps =>
           \/ s[i].op = "fork" /\ i \in {1, 7, 11, 15}
           \/ s[i].op = "forkpid" /\ i \in {2, 8, 12, 16}
           \/ s[i].op = "exec" /\ i \in {3, 9, 13, 17}
    BY <1>4, <1>5 DEF SpawnOps
  <2> QED
    BY <1>2, <2>1
<1> QED
  BY <1>1, <1>4, <1>6, <1>7, <1>8, <1>9 DEF WellLaid, s

\* initB4 is laid out as the others are.
LEMMA WellLaidB4 == LifeCycleType = "B4" => WellLaid(initB4)
<1> SUFFICES ASSUME LifeCycleType = "B4" PROVE WellLaid(initB4)
  OBVIOUS
<1> DEFINE s == initB4
<1>1. NumForks(s) = 4
  BY DEF NumForks
<1>2. ForkAt(1) = 2 /\ ForkAt(2) = 7 /\ ForkAt(3) = 11 /\ ForkAt(4) = 15
  BY DEF ForkAt
<1>3. LayoutB4
  BY initB4Places
<1> HIDE DEF s
<1>4. /\ Len(s) = 22
      /\ s[1].op = "ignore"
      /\ s[2].op = "fork" /\ s[3].op = "forkpid" /\ s[4].op = "exec" /\ s[5].op = "priority"
      /\ s[6].op = "collatzadded"
      /\ s[7].op = "fork" /\ s[8].op = "forkpid" /\ s[9].op = "exec" /\ s[10].op = "priority"
      /\ s[11].op = "fork" /\ s[12].op = "forkpid" /\ s[13].op = "exec" /\ s[14].op = "priority"
      /\ s[15].op = "fork" /\ s[16].op = "forkpid" /\ s[17].op = "exec" /\ s[18].op = "priority"
      /\ s[19].op = "ignore"
      /\ s[20].op = "wait" /\ s[21].op = "again" /\ s[22].op = "done"
      /\ \A p \in 1 .. 4 : s[ForkAt(p) + 2].arg \in Programs
  BY <1>2, <1>3 DEF LayoutB4, Instr, s
<1>5. \A i \in 1 .. 22 :
         \/ i = 1 \/ i = 2 \/ i = 3 \/ i = 4 \/ i = 5 \/ i = 6 \/ i = 7
         \/ i = 8 \/ i = 9 \/ i = 10 \/ i = 11 \/ i = 12 \/ i = 13 \/ i = 14
         \/ i = 15 \/ i = 16 \/ i = 17 \/ i = 18 \/ i = 19 \/ i = 20 \/ i = 21
         \/ i = 22
  OBVIOUS
<1>6. \A i \in 1 .. Len(s) : s[i].op \in SpawnOps \cup SetUpOps \cup WaitOps
  BY <1>4, <1>5 DEF SpawnOps, SetUpOps, WaitOps
<1>7. \A i \in 1 .. Len(s) : s[i].op \in WaitOps => i >= Len(s) - 2
  BY <1>4, <1>5 DEF WaitOps
<1>8. \A p \in 1 .. 4 :
         /\ ForkAt(p) + 2 < Len(s) - 2
         /\ s[ForkAt(p)].op = "fork"
         /\ s[ForkAt(p) + 1].op = "forkpid"
         /\ s[ForkAt(p) + 2].op = "exec"
         /\ s[ForkAt(p) + 2].arg \in Programs
  BY <1>2, <1>4
<1>9. \A i \in 1 .. Len(s) : s[i].op \in SpawnOps =>
         \E p \in 1 .. 4 :
            \/ s[i].op = "fork" /\ i = ForkAt(p)
            \/ s[i].op = "forkpid" /\ i = ForkAt(p) + 1
            \/ s[i].op = "exec" /\ i = ForkAt(p) + 2
  <2>1. \A i \in 1 .. Len(s) : s[i].op \in SpawnOps =>
           \/ s[i].op = "fork" /\ i \in {2, 7, 11, 15}
           \/ s[i].op = "forkpid" /\ i \in {3, 8, 12, 16}
           \/ s[i].op = "exec" /\ i \in {4, 9, 13, 17}
    BY <1>4, <1>5 DEF SpawnOps
  <2> QED
    BY <1>2, <2>1
<1> QED
  BY <1>1, <1>4, <1>6, <1>7, <1>8, <1>9 DEF WellLaid, s

\* The numbers of tasks the lifecycles start.
Configured == Copies \in [Programs -> Nat]

\* So every init program is.
LEMMA ScriptsWellLaid ==
    ASSUME Configured, NEW s \in Scripts
    PROVE  WellLaid(s)
<1>1. \A a \in Programs : CopiesOf(a) \in Seq(Programs)
  BY SeqDef DEF Configured, CopiesOf
<1>2. \A a, b \in Programs : CopiesOf(a) \o CopiesOf(b) \in Seq(Programs)
  BY <1>1, ConcatProperties
<1>3. "collatz" \in Programs /\ "longRunning" \in Programs
  BY DEF Programs
<1>4. CASE LifeCycleType = "A"
  BY <1>2, <1>3, <1>4, WellLaidPlain DEF Scripts, initA
<1>5. CASE LifeCycleType = "B1"
  <2>1. PICK a \in Programs : s = initB1(a)
    BY <1>5 DEF Scripts
  <2> QED
    BY <1>1, <1>5, <2>1, WellLaidPlain DEF initB1
<1>6. CASE LifeCycleType = "B2"
  <2>1. PICK d \in {e \in Programs \X Programs : e[1] # e[2]} : s = initB2(d[1], d[2])
    BY <1>6 DEF Scripts
  <2> QED
    BY <1>2, <1>6, <2>1, WellLaidPlain DEF initB2
<1>7. CASE LifeCycleType = "B3"
  BY <1>7, WellLaidB3 DEF Scripts
<1>8. CASE LifeCycleType = "B4"
  BY <1>8, WellLaidB4 DEF Scripts
<1> QED
  BY <1>4, <1>5, <1>6, <1>7, <1>8, LifeCycleAssumption

-----------------------------------------------------------------------------
(* Where each task is in its program *)

InitOp == script[pc[InitPid]].op
AllTaken == \A p \in 1 .. numTasks - 1 : parentTookInWait[p]

UserTyped ==
    /\ script \in Scripts
    /\ prog \in [Pids -> Programs \cup {"init"}]
    /\ pc \in [Pids -> Nat]
    /\ ran \in [Pids -> Nat]

\* The program counter of init tells which tasks it has forked; when it can
\* stop waiting, it has been given the pid of every one.
InitCtl ==
    /\ prog[InitPid] = "init"
    /\ pc[InitPid] \in 1 .. Len(script)
    /\ numTasks - 1 <= NumForks(script)
    /\ \A p \in 1 .. NumForks(script) : p < numTasks <=> ForkAt(p) < pc[InitPid]
    /\ InitOp = "forkpid" => forkPid[InitPid] # 0
    /\ InitOp = "exec" => eax[InitPid] # 0
    /\ waitingChild[InitPid] => InitOp = "again"
    /\ InitOp = "done" \/ (InitOp = "again" /\ eax[InitPid] = NoTask) => AllTaken

\* The pth task goes from its fork to its execve, and from its program's
\* first instruction to its exit.
ChildCtl(p) ==
    /\ ppid[p] = InitPid
    /\ waitingChild[p] = FALSE
    /\ prog[p] = "init" =>
         /\ ran[p] = 0
         /\ state[p] # "Terminated"
         /\ \/ pc[p] = ForkAt(p) + 1 /\ forkPid[p] = 0
            \/ pc[p] = ForkAt(p) + 2 /\ eax[p] = 0
    /\ prog[p] # "init" =>
         /\ prog[p] = script[ForkAt(p) + 2].arg
         /\ pc[p] \in 1 .. 4
         /\ pc[p] = 4 => ran[p] >= MinTicks[prog[p]]
         /\ state[p] = "Terminated" => pc[p] = 4

UnusedCtl(p) == prog[p] = "init" /\ ran[p] = 0 /\ waitingChild[p] = FALSE

Ctl ==
    /\ UserTyped
    /\ InitCtl
    /\ \A p \in 1 .. numTasks - 1 : ChildCtl(p)
    /\ \A p \in Pids : p >= numTasks => UnusedCtl(p)

\* What the control of the programs needs of the kernel.
Base ==
    /\ TypeOK
    /\ numTasks >= 1
    /\ \A p \in Pids : state[p] = "Running" <=> p = currentTask
    /\ currentTask < numTasks
    /\ \A p \in Pids : waitingChild[p] => state[p] = "Blocked"

\* What comes before and after each instruction of an init program.
LEMMA Neighbours ==
    ASSUME NEW s, WellLaid(s), NEW i \in 1 .. Len(s)
    PROVE  /\ s[i].op # "done" => i < Len(s)
           /\ i < Len(s) =>
                /\ s[i + 1].op = "forkpid" => s[i].op = "fork"
                /\ s[i + 1].op = "exec" => s[i].op = "forkpid"
                /\ s[i + 1].op = "again" => s[i].op = "wait"
                /\ s[i + 1].op = "done" => s[i].op = "again"
           /\ s[i].op = "again" => i - 1 \in 1 .. Len(s) /\ s[i - 1].op = "wait"
<1>1. Len(s) \in Nat /\ Len(s) >= 3 /\ NumForks(s) \in Nat /\ i \in Nat
  BY DEF WellLaid
<1>2. /\ \A j \in 1 .. Len(s) : s[j].op \in WaitOps => j >= Len(s) - 2
      /\ s[Len(s) - 2].op = "wait"
      /\ s[Len(s) - 1].op = "again"
      /\ s[Len(s)].op = "done"
  BY DEF WellLaid
<1>3. s[i].op # "done" => i < Len(s)
  BY <1>1, <1>2
<1>4. s[i].op = "again" => i = Len(s) - 1
  <2> SUFFICES ASSUME s[i].op = "again" PROVE i = Len(s) - 1
    OBVIOUS
  <2>1. i >= Len(s) - 2
    BY <1>2 DEF WaitOps
  <2> QED
    BY <1>1, <1>2, <2>1
<1>5. s[i].op = "again" => i - 1 \in 1 .. Len(s) /\ s[i - 1].op = "wait"
  BY <1>1, <1>2, <1>4
<1>6. ASSUME i < Len(s), s[i + 1].op = "again" PROVE s[i].op = "wait"
  <2>1. i + 1 \in 1 .. Len(s)
    BY <1>1, <1>6
  <2>2. i + 1 >= Len(s) - 2
    BY <1>2, <1>6, <2>1 DEF WaitOps
  <2> QED
    BY <1>1, <1>2, <1>6, <2>1, <2>2
<1>7. ASSUME i < Len(s), s[i + 1].op = "done" PROVE s[i].op = "again"
  <2>1. i + 1 \in 1 .. Len(s)
    BY <1>1, <1>7
  <2>2. i + 1 >= Len(s) - 2
    BY <1>2, <1>7, <2>1 DEF WaitOps
  <2> QED
    BY <1>1, <1>2, <1>7, <2>1, <2>2
<1>8. ASSUME i < Len(s), s[i + 1].op \in {"forkpid", "exec"}
      PROVE  \E p \in 1 .. NumForks(s) :
                \/ s[i + 1].op = "forkpid" /\ s[i].op = "fork"
                \/ s[i + 1].op = "exec" /\ s[i].op = "forkpid"
  <2>1. i + 1 \in 1 .. Len(s)
    BY <1>1, <1>8
  <2>2. PICK p \in 1 .. NumForks(s) :
            \/ s[i + 1].op = "forkpid" /\ i + 1 = ForkAt(p) + 1
            \/ s[i + 1].op = "exec" /\ i + 1 = ForkAt(p) + 2
    BY <1>8, <2>1 DEF WellLaid, SpawnOps
  <2>3. ForkAt(p) \in Nat
    BY <1>1, ForkPlace
  <2>4. \/ s[i + 1].op = "forkpid" /\ i = ForkAt(p)
        \/ s[i + 1].op = "exec" /\ i = ForkAt(p) + 1
    BY <1>1, <2>2, <2>3
  <2>5. s[ForkAt(p)].op = "fork" /\ s[ForkAt(p) + 1].op = "forkpid"
    BY DEF WellLaid
  <2> QED
    BY <2>4, <2>5
<1> QED
  BY <1>3, <1>5, <1>6, <1>7, <1>8

\* Behind the call of waitpid is the test of what it returned.
LEMMA NextToWait ==
    ASSUME NEW s, WellLaid(s), NEW i \in 1 .. Len(s), s[i].op = "wait"
    PROVE  s[i + 1].op = "again"
<1>1. Len(s) \in Nat /\ Len(s) >= 3
  BY DEF WellLaid
<1>2. i >= Len(s) - 2
  BY DEF WellLaid, WaitOps
<1>3. i # Len(s) /\ i # Len(s) - 1
  BY DEF WellLaid
<1>4. i + 1 = Len(s) - 1
  BY <1>1, <1>2, <1>3
<1> QED
  BY <1>4 DEF WellLaid

\* Forks lie in the order of the tasks.
LEMMA NotAtFork ==
    ASSUME NEW s, WellLaid(s), NEW i \in 1 .. Len(s), s[i].op # "fork",
           NEW p \in 1 .. NumForks(s)
    PROVE  /\ ForkAt(p) < i <=> ForkAt(p) < i + 1
           /\ s[i].op = "again" => ForkAt(p) < i - 1
<1>1. ForkAt(p) \in Nat /\ Len(s) \in Nat /\ i \in Nat
  BY ForkPlace DEF WellLaid
<1>2. s[ForkAt(p)].op = "fork" /\ ForkAt(p) + 2 < Len(s) - 2
  BY DEF WellLaid
<1>3. s[i].op = "again" => i >= Len(s) - 2
  BY DEF WellLaid, WaitOps
<1>4. ForkAt(p) # i
  BY <1>2
<1> QED
  BY <1>1, <1>2, <1>3, <1>4

\* The next fork is that of the next task.
LEMMA AtFork ==
    ASSUME NEW s, WellLaid(s), NEW i \in 1 .. Len(s), s[i].op = "fork",
           NEW n \in Nat, n >= 1, n - 1 <= NumForks(s),
           \A p \in 1 .. NumForks(s) : p < n <=> ForkAt(p) < i
    PROVE  /\ n <= NumForks(s) /\ i = ForkAt(n)
           /\ \A p \in 1 .. NumForks(s) : p < n + 1 <=> ForkAt(p) < i + 1
           /\ i + 1 \in 1 .. Len(s) /\ s[i + 1].op = "forkpid"
<1>1. PICK q \in 1 .. NumForks(s) : i = ForkAt(q)
  BY DEF WellLaid, SpawnOps
<1>2. NumForks(s) \in Nat /\ Len(s) \in Nat /\ i \in Nat /\ q \in Nat /\ q >= 1
  BY DEF WellLaid
<1>3. \A p \in 1 .. NumForks(s) : p \in Nat /\ ForkAt(p) \in Nat
  BY <1>2, ForkPlace
<1>4. \A p \in 1 .. NumForks(s) :
         /\ p < q => ForkAt(p) + 3 <= i
         /\ q < p => i + 3 <= ForkAt(p)
  BY <1>1, <1>2, ForksInOrder
<1>5. ~(q < n)
  BY <1>1, <1>2, <1>3
<1>6. q = n
  <2> SUFFICES ASSUME n < q PROVE FALSE
    BY <1>2, <1>5
  <2>1. n \in 1 .. NumForks(s)
    BY <1>2
  <2> QED
    BY <1>2, <1>3, <1>4, <2>1
<1>7. \A p \in 1 .. NumForks(s) : p < n + 1 <=> ForkAt(p) < i + 1
  BY <1>1, <1>2, <1>3, <1>4, <1>6
<1>8. i + 2 < Len(s) - 2 /\ s[i + 1].op = "forkpid"
  BY <1>1 DEF WellLaid
<1> QED
  BY <1>1, <1>2, <1>6, <1>7, <1>8

\* What the control invariant says of the init program.
LEMMA CtlScript ==
    ASSUME Configured, UserTyped
    PROVE  /\ WellLaid(script) /\ Len(script) \in Nat /\ NumForks(script) \in Nat
           /\ \A i \in 1 .. Len(script) : script[i].op \in SpawnOps \cup SetUpOps \cup WaitOps
BY ScriptsWellLaid DEF UserTyped, WellLaid

\* The pids in use are those below numTasks.
LEMMA PidRange ==
    ASSUME TypeOK, numTasks >= 1
    PROVE  /\ InitPid \in Pids /\ NoTask \notin Pids /\ InitPid < numTasks
           /\ numTasks \in Nat /\ numTasks <= MaxNumTasks
           /\ \A p \in 1 .. numTasks - 1 : p \in Pids /\ p \in Nat /\ p # InitPid
           /\ \A p \in Pids : p \in Nat
           /\ \A p \in Pids : p < numTasks /\ p # InitPid => p \in 1 .. numTasks - 1
BY MaxNumTasksAssumption DEF TypeOK, Pids, InitPid, NoTask

\* A step that ends no task.
NoneEnds == \A p \in Pids : state'[p] = "Terminated" => state[p] = "Terminated"

\* Init stays where it is.
LEMMA InitStays ==
    ASSUME Ctl, Base, script' = script, prog'[InitPid] = prog[InitPid],
           pc'[InitPid] = pc[InitPid], numTasks' = numTasks,
           forkPid'[InitPid] = forkPid[InitPid],
           eax'[InitPid] = eax[InitPid]
             \/ (waitingChild[InitPid] /\ eax'[InitPid] # NoTask),
           waitingChild'[InitPid] => waitingChild[InitPid],
           \A p \in Pids : parentTookInWait[p] => parentTookInWait'[p]
    PROVE  InitCtl'
<1>1. InitOp' = InitOp
  BY DEF InitOp
<1>2. AllTaken => AllTaken'
  BY PidRange DEF Base, AllTaken
<1>3. waitingChild[InitPid] => InitOp = "again"
  BY DEF Ctl, InitCtl
<1> QED
  BY <1>1, <1>2, <1>3 DEF Ctl, InitCtl

\* A task that stays where it is.
LEMMA ChildStays ==
    ASSUME Ctl, NEW p \in 1 .. numTasks - 1, script' = script,
           prog'[p] = prog[p], pc'[p] = pc[p], ran'[p] = ran[p],
           ppid'[p] = ppid[p], waitingChild'[p] = waitingChild[p],
           forkPid'[p] = forkPid[p], eax'[p] = eax[p],
           state'[p] = "Terminated" => state[p] = "Terminated"
    PROVE  ChildCtl(p)'
<1>1. ChildCtl(p)
  BY DEF Ctl
<1> QED
  BY <1>1 DEF ChildCtl

\* Init goes on to the next instruction.
LEMMA InitAdvances ==
    ASSUME Configured, Base, Ctl, InitOp \notin {"fork", "done"},
           script' = script, prog' = prog, ran' = ran,
           pc' = [pc EXCEPT ![InitPid] = pc[InitPid] + 1],
           numTasks' = numTasks, ppid' = ppid, forkPid' = forkPid, NoneEnds,
           \A p \in Pids : p # InitPid =>
              waitingChild'[p] = waitingChild[p] /\ eax'[p] = eax[p],
           \A p \in Pids : parentTookInWait[p] => parentTookInWait'[p],
           InitOp = "forkpid" => eax'[InitPid] = forkPid[InitPid],
           waitingChild'[InitPid] => InitOp = "wait",
           InitOp = "wait" /\ eax'[InitPid] = NoTask => AllTaken',
           InitOp = "again" => eax[InitPid] = NoTask
    PROVE  Ctl'
<1>1. /\ WellLaid(script) /\ Len(script) \in Nat /\ NumForks(script) \in Nat
  BY CtlScript DEF Ctl
<1>2. /\ InitPid \in Pids /\ pc[InitPid] \in 1 .. Len(script) /\ prog[InitPid] = "init"
      /\ numTasks - 1 <= NumForks(script)
      /\ \A p \in 1 .. NumForks(script) : p < numTasks <=> ForkAt(p) < pc[InitPid]
      /\ InitOp = "forkpid" => forkPid[InitPid] # 0
      /\ InitOp = "again" /\ eax[InitPid] = NoTask => AllTaken
  BY PidRange DEF Base, Ctl, InitCtl
<1>3. pc'[InitPid] = pc[InitPid] + 1 /\ \A p \in Pids : p # InitPid => pc'[p] = pc[p]
  BY <1>2 DEF Ctl, UserTyped
<1> DEFINE i == pc[InitPid]
<1>4. /\ i < Len(script) /\ i + 1 \in 1 .. Len(script)
      /\ script[i + 1].op = "forkpid" => script[i].op = "fork"
      /\ script[i + 1].op = "exec" => script[i].op = "forkpid"
      /\ script[i + 1].op = "again" => script[i].op = "wait"
      /\ script[i + 1].op = "done" => script[i].op = "again"
  BY <1>1, <1>2, Neighbours DEF InitOp
<1>5. \A p \in 1 .. NumForks(script) : ForkAt(p) < i <=> ForkAt(p) < i + 1
  BY <1>1, <1>2, NotAtFork DEF InitOp
<1>6. InitOp' = script[i + 1].op
  BY <1>3 DEF InitOp
<1>7. InitOp = script[i].op
  BY DEF InitOp
<1>8. UserTyped'
  <2>1. pc' \in [Pids -> Nat]
    BY <1>2, <1>4 DEF Ctl, UserTyped
  <2> QED
    BY <2>1 DEF Ctl, UserTyped
<1>9. AllTaken => AllTaken'
  BY PidRange DEF Base, AllTaken
<1> HIDE DEF i
<1>10. InitCtl'
  <2>1. \A p \in 1 .. NumForks(script) : p < numTasks <=> ForkAt(p) < i + 1
    BY <1>2, <1>5 DEF i
  <2>2. pc'[InitPid] = i + 1
    BY <1>3 DEF i
  <2>3. InitOp' # "forkpid"
    BY <1>4, <1>6, <1>7
  <2>4. InitOp' = "exec" => eax'[InitPid] # 0
    BY <1>2, <1>4, <1>6, <1>7
  <2>5. waitingChild'[InitPid] => InitOp' = "again"
    <3>1. i \in 1 .. Len(script)
      BY <1>2 DEF i
    <3>2. script[i].op = "wait" => script[i + 1].op = "again"
      BY <1>1, <3>1, NextToWait
    <3> QED
      BY <1>6, <1>7, <3>2, Zenon
  <2>6. InitOp' = "done" \/ (InitOp' = "again" /\ eax'[InitPid] = NoTask) => AllTaken'
    BY <1>2, <1>4, <1>6, <1>7, <1>9
  <2> QED
    BY <1>2, <1>4, <2>1, <2>2, <2>3, <2>4, <2>5, <2>6 DEF InitCtl
<1>11. \A p \in 1 .. numTasks - 1 : ChildCtl(p)'
  BY <1>3, ChildStays, PidRange DEF Base, NoneEnds
<1>12. \A p \in Pids : p >= numTasks => UnusedCtl(p)'
  BY <1>3, PidRange DEF Base, Ctl, UnusedCtl
<1> QED
  BY <1>8, <1>10, <1>11, <1>12 DEF Ctl

\* Init goes back to its waitpid, having been given the pid of a child.
LEMMA InitWaitsAgain ==
    ASSUME Configured, Base, Ctl, InitOp = "again", ~waitingChild[InitPid],
           script' = script, prog' = prog, ran' = ran,
           pc' = [pc EXCEPT ![InitPid] = pc[InitPid] - 1],
           UNCHANGED vars
    PROVE  Ctl'
<1>1. /\ WellLaid(script) /\ Len(script) \in Nat /\ NumForks(script) \in Nat
  BY CtlScript DEF Ctl
<1>2. /\ InitPid \in Pids /\ pc[InitPid] \in 1 .. Len(script) /\ prog[InitPid] = "init"
      /\ numTasks - 1 <= NumForks(script)
      /\ \A p \in 1 .. NumForks(script) : p < numTasks <=> ForkAt(p) < pc[InitPid]
  BY PidRange DEF Base, Ctl, InitCtl
<1>3. pc'[InitPid] = pc[InitPid] - 1 /\ \A p \in Pids : p # InitPid => pc'[p] = pc[p]
  BY <1>2 DEF Ctl, UserTyped
<1> DEFINE i == pc[InitPid]
<1>4. i - 1 \in 1 .. Len(script) /\ script[i - 1].op = "wait"
  BY <1>1, <1>2, Neighbours DEF InitOp
<1>5. \A p \in 1 .. NumForks(script) : /\ ForkAt(p) < i <=> ForkAt(p) < i + 1
                                       /\ ForkAt(p) < i - 1
  BY <1>1, <1>2, NotAtFork DEF InitOp
<1>6. \A p \in 1 .. NumForks(script) : ForkAt(p) \in Nat /\ i \in Nat
  BY <1>1, <1>2, ForkPlace
<1>7. \A p \in 1 .. NumForks(script) : p < numTasks <=> ForkAt(p) < i - 1
  BY <1>2, <1>5, <1>6
<1>8. InitOp' = "wait"
  BY <1>3, <1>4 DEF InitOp
<1>9. UserTyped'
  <2>1. pc' \in [Pids -> Nat]
    BY <1>2, <1>4 DEF Ctl, UserTyped
  <2> QED
    BY <2>1 DEF Ctl, UserTyped
<1>10. numTasks' = numTasks /\ waitingChild' = waitingChild /\ forkPid' = forkPid
       /\ eax' = eax /\ ppid' = ppid /\ state' = state
  BY DEF vars
<1>11. InitCtl'
  BY <1>2, <1>3, <1>4, <1>7, <1>8, <1>10 DEF InitCtl
<1>12. \A p \in 1 .. numTasks - 1 : ChildCtl(p)'
  BY <1>3, <1>10, ChildStays, PidRange DEF Base
<1>13. \A p \in Pids : p >= numTasks => UnusedCtl(p)'
  BY <1>3, <1>10, PidRange DEF Base, Ctl, UnusedCtl
<1> QED
  BY <1>9, <1>10, <1>11, <1>12, <1>13 DEF Ctl

\* One of the forked tasks makes a step.
LEMMA ChildMoves ==
    ASSUME Configured, Base, Ctl, NEW p \in 1 .. numTasks - 1,
           script' = script, UserTyped', ChildCtl(p)',
           numTasks' = numTasks, ppid' = ppid, forkPid' = forkPid,
           \A r \in Pids : r # p =>
              /\ prog'[r] = prog[r] /\ pc'[r] = pc[r] /\ ran'[r] = ran[r]
              /\ state'[r] = "Terminated" => state[r] = "Terminated"
              /\ r # InitPid => eax'[r] = eax[r]
              /\ r # InitPid => waitingChild'[r] = waitingChild[r],
           eax'[InitPid] = eax[InitPid]
             \/ (waitingChild[InitPid] /\ eax'[InitPid] # NoTask),
           waitingChild'[InitPid] => waitingChild[InitPid],
           \A r \in Pids : parentTookInWait[r] => parentTookInWait'[r]
    PROVE  Ctl'
<1>1. /\ InitPid \in Pids /\ InitPid # p
      /\ \A r \in 1 .. numTasks - 1 : r \in Pids /\ r # InitPid
      /\ \A r \in Pids : r >= numTasks => r # InitPid /\ r # p
  BY PidRange DEF Base
<1>2. InitCtl'
  BY <1>1, InitStays
<1>3. \A r \in 1 .. numTasks - 1 : r # p => ChildCtl(r)'
  BY <1>1, ChildStays
<1>4. \A r \in Pids : r >= numTasks => UnusedCtl(r)'
  BY <1>1 DEF Ctl, UnusedCtl
<1> QED
  BY <1>2, <1>3, <1>4 DEF Ctl

\* The instruction the running task p is at.
LEMMA RoleOfInit ==
    ASSUME Base, Ctl, NEW op, At(InitPid, op)
    PROVE  InitOp = op /\ Arg(InitPid) = script[pc[InitPid]].arg
BY DEF At, Arg, CodeOf, InitOp, Ctl, InitCtl

\* What a child does next, from the instruction it is at.
LEMMA RoleOfChild ==
    ASSUME Configured, Base, Ctl, NEW p \in 1 .. numTasks - 1, NEW op, At(p, op)
    PROVE  /\ prog[p] = "init" =>
                \/ op = "forkpid" /\ pc[p] = ForkAt(p) + 1 /\ forkPid[p] = 0
                \/ op = "exec" /\ pc[p] = ForkAt(p) + 2 /\ eax[p] = 0
                     /\ Arg(p) = script[ForkAt(p) + 2].arg
           /\ prog[p] # "init" =>
                \/ op = "load" /\ pc[p] = 1
                \/ op = "store" /\ pc[p] = 2
                \/ op = "work" /\ pc[p] = 3
                \/ op = "exit" /\ pc[p] = 4
           /\ prog[p] # "init" => prog[p] \in Programs
           /\ script[ForkAt(p) + 2].arg \in Programs
           /\ op \in {"forkpid", "exec"} => prog[p] = "init"
<1>1. /\ WellLaid(script) /\ NumForks(script) \in Nat
  BY CtlScript DEF Ctl
<1>2. p \in 1 .. NumForks(script)
  BY <1>1, PidRange DEF Base, Ctl, InitCtl
<1>3. /\ script[ForkAt(p) + 1].op = "forkpid"
      /\ script[ForkAt(p) + 2].op = "exec"
      /\ script[ForkAt(p) + 2].arg \in Programs
  BY <1>1, <1>2 DEF WellLaid
<1>4. ChildCtl(p)
  BY DEF Ctl
<1>5. prog[p] # "init" => prog[p] \in Programs
  BY PidRange DEF Base, Ctl, UserTyped
<1>6. /\ Worker[1].op = "load" /\ Worker[2].op = "store"
      /\ Worker[3].op = "work" /\ Worker[4].op = "exit"
  BY DEF Worker, Instr
<1>7. CASE prog[p] = "init"
  BY <1>3, <1>4, <1>7 DEF At, Arg, CodeOf, ChildCtl
<1>8. CASE prog[p] # "init"
  <2>1. pc[p] \in 1 .. 4 /\ Worker[pc[p]].op = op
    BY <1>4, <1>8 DEF At, CodeOf, ChildCtl
  <2> QED
    BY <1>3, <1>5, <1>6, <1>8, <2>1
<1> QED
  BY <1>7, <1>8

\* The scheduler ends no task.
LEMMA ScheduleEnds ==
    ASSUME NEW st \in [Pids -> States], NEW q, Schedule(st, q)
    PROVE  \A p \in Pids : state'[p] = "Terminated" => st[p] = "Terminated"
BY DEF Schedule

\* Waking a task ends none.
LEMMA MakeReadyEnds ==
    ASSUME NEW st \in [Pids -> States], NEW r
    PROVE  /\ MakeReady(st, r) \in [Pids -> States]
           /\ \A p \in Pids : MakeReady(st, r)[p] = "Terminated" => st[p] = "Terminated"
BY DEF MakeReady, States

\* Preempting the running task ends none.
LEMMA PreemptEnds ==
    ASSUME NEW st \in [Pids -> States], NEW q, NEW prio, Preempt(st, q, prio)
    PROVE  \A p \in Pids : state'[p] = "Terminated" => st[p] = "Terminated"
<1>1. CASE currentTask = NoTask
  BY <1>1, ScheduleEnds DEF Preempt
<1>2. CASE currentTask # NoTask
  <2> DEFINE s == MakeReady(st, currentTask)
             r == AddToReadyQueue(q, currentTask, prio)
  <2>1. Schedule(s, r)
    BY <1>2 DEF Preempt
  <2>2. s \in [Pids -> States]
    BY MakeReadyEnds
  <2> HIDE DEF s, r
  <2>3. \A p \in Pids : state'[p] = "Terminated" => s[p] = "Terminated"
    BY <2>1, <2>2, ScheduleEnds
  <2> QED
    BY <2>3, MakeReadyEnds DEF s
<1> QED
  BY <1>1, <1>2

\* A timer interrupt ends no task.
LEMMA TickEnds == TypeOK /\ TimerInterrupt => NoneEnds
<1> SUFFICES ASSUME TypeOK, TimerInterrupt PROVE NoneEnds
  OBVIOUS
<1>1. state \in [Pids -> States]
  BY DEF TypeOK, States
<1>2. CASE RaiseCollatz
  BY <1>1, <1>2, PreemptEnds, MakeReadyEnds DEF RaiseCollatz, NoneEnds
<1>3. CASE ResumeBlocked
  BY <1>1, <1>3, PreemptEnds, MakeReadyEnds DEF ResumeBlocked, NoneEnds
<1>4. CASE PlainTick
  BY <1>1, <1>4, PreemptEnds DEF PlainTick, NoneEnds
<1> QED
  BY <1>2, <1>3, <1>4 DEF TimerInterrupt

\* The timer interrupt leaves every program where it is.
LEMMA TickCtl == Configured /\ Base /\ Ctl /\ Tick => Ctl'
<1> SUFFICES ASSUME Configured, Base, Ctl, Tick PROVE Ctl'
  OBVIOUS
<1>1. /\ script' = script /\ prog' = prog /\ pc' = pc
      /\ UNCHANGED <<numTasks, ppid, waitVars, forkPid, eax>>
      /\ NoneEnds
  BY TickEnds DEF Tick, TimerInterrupt, Base
<1>2. UNCHANGED <<waitingChild, parentTookInWait>>
  BY <1>1 DEF waitVars
<1>3. \A p \in Pids :
         /\ ran[p] \in Nat /\ ran'[p] \in Nat /\ ran'[p] >= ran[p]
         /\ ~AtWork(p) => ran'[p] = ran[p]
  BY DEF Tick, Ctl, UserTyped
<1>4. UserTyped'
  <2>1. ran' \in [Pids -> Nat]
    BY <1>3 DEF Tick
  <2> QED
    BY <1>1, <2>1 DEF Ctl, UserTyped
<1>5. InitCtl'
  BY <1>1, <1>2, InitStays, PidRange DEF Base
<1>6. ASSUME NEW p \in 1 .. numTasks - 1 PROVE ChildCtl(p)'
  <2>1. p \in Pids /\ ChildCtl(p)
    BY PidRange DEF Base, Ctl
  <2>2. CASE ~AtWork(p)
    BY <1>1, <1>2, <1>3, <2>1, <2>2, ChildStays DEF NoneEnds
  <2>3. CASE AtWork(p)
    <3>1. prog[p] # "init"
      BY <2>3 DEF AtWork
    <3>2. pc[p] # 4
      <4>1. Worker[4].op = "exit"
        BY DEF Worker, Instr
      <4> QED
        BY <2>3, <3>1, <4>1 DEF AtWork, CodeOf
    <3> QED
      BY <1>1, <1>2, <2>1, <3>1, <3>2 DEF ChildCtl, NoneEnds
  <2> QED
    BY <2>2, <2>3
<1>7. \A p \in Pids : p >= numTasks => UnusedCtl(p)'
  BY <1>1, <1>2, <1>3, PidRange DEF Base, Ctl, UnusedCtl, AtWork
<1> QED
  BY <1>1, <1>4, <1>5, <1>6, <1>7 DEF Ctl

\* The caller of a system call is the running task.
LEMMA CallerIs ==
    ASSUME Base, NEW p \in Pids, NEW op, At(p, op)
    PROVE  /\ p = currentTask /\ state[p] = "Running" /\ ~waitingChild[p]
           /\ p = InitPid \/ p \in 1 .. numTasks - 1
BY PidRange DEF Base, At

\* fork: the child starts behind the call, as its parent goes on.
LEMMA ForkCtl ==
    ASSUME Configured, Base, Ctl, NEW p \in Pids, ForkStep(p)
    PROVE  Ctl'
<1>1. At(p, "fork") /\ Fork /\ UNCHANGED <<script, prog, input, ran, inputNo>>
  BY DEF ForkStep
<1>2. p = InitPid /\ p = currentTask
  BY <1>1, CallerIs, RoleOfChild
<1>3. InitOp = "fork"
  BY <1>1, <1>2, RoleOfInit
<1>4. /\ InitPid \in Pids /\ InitPid < numTasks
      /\ numTasks \in Nat
      /\ \A r \in 1 .. numTasks - 1 : r \in Pids /\ r \in Nat /\ r # InitPid
      /\ \A r \in Pids : r \in Nat
  BY PidRange DEF Base
<1>5. CASE ~HasFreeSlot
  <2>1. /\ pc' = pc
        /\ UNCHANGED <<numTasks, ppid, state, forkPid, eax, waitingChild, parentTookInWait>>
    BY <1>1, <1>5 DEF ForkStep, Fork, waitVars
  <2>2. UserTyped'
    BY <1>1, <2>1 DEF Ctl, UserTyped
  <2>3. InitCtl'
    BY <1>1, <2>1, InitStays
  <2>4. \A r \in 1 .. numTasks - 1 : ChildCtl(r)'
    BY <1>1, <2>1, ChildStays
  <2>5. \A r \in Pids : r >= numTasks => UnusedCtl(r)'
    BY <1>1, <2>1 DEF Ctl, UnusedCtl
  <2> QED
    BY <2>1, <2>2, <2>3, <2>4, <2>5 DEF Ctl
<1>6. CASE HasFreeSlot
  <2>0. numTasks \in Pids
    BY <1>4, <1>6, MaxNumTasksAssumption DEF HasFreeSlot, Pids, InitPid
  <2>13. PICK c \in Pids : c = numTasks
    BY <2>0
  <2> DEFINE i == pc[InitPid]
  <2>1. /\ numTasks' = c + 1
        /\ pc' = [pc EXCEPT ![InitPid] = @ + 1, ![c] = i + 1]
        /\ ppid' = [ppid EXCEPT ![c] = InitPid]
        /\ state' = MakeReady(state, c)
        /\ forkPid' = [forkPid EXCEPT ![InitPid] = c, ![c] = 0]
        /\ eax' = [eax EXCEPT ![InitPid] = Pending, ![c] = Pending]
        /\ UNCHANGED <<waitingChild, parentTookInWait>>
    BY <1>1, <1>2, <1>6, <2>13 DEF ForkStep, Fork, waitVars, ForkPids
  <2>2. c \in Pids /\ c \in Nat /\ c >= 1 /\ c # InitPid
    BY <1>4, <2>13 DEF Base, InitPid
  <2>3. /\ WellLaid(script) /\ Len(script) \in Nat /\ NumForks(script) \in Nat
        /\ i \in 1 .. Len(script) /\ script[i].op = "fork"
        /\ c - 1 <= NumForks(script)
        /\ \A r \in 1 .. NumForks(script) : r < c <=> ForkAt(r) < i
    BY <1>3, <2>13, CtlScript DEF Ctl, InitCtl, InitOp
  <2> HIDE DEF i
  <2>4. /\ c <= NumForks(script) /\ i = ForkAt(c)
        /\ \A r \in 1 .. NumForks(script) : r < c + 1 <=> ForkAt(r) < i + 1
        /\ i + 1 \in 1 .. Len(script) /\ script[i + 1].op = "forkpid"
    BY <2>2, <2>3, AtFork
  <2>5. /\ pc'[InitPid] = i + 1 /\ pc'[c] = i + 1
        /\ \A r \in Pids : r \notin {InitPid, c} => pc'[r] = pc[r]
        /\ ppid'[c] = InitPid /\ \A r \in Pids : r # c => ppid'[r] = ppid[r]
        /\ forkPid'[InitPid] = c /\ forkPid'[c] = 0
        /\ \A r \in Pids : r \notin {InitPid, c} => forkPid'[r] = forkPid[r]
        /\ \A r \in Pids : r \notin {InitPid, c} => eax'[r] = eax[r]
        /\ state'[c] = "Ready" /\ \A r \in Pids : r # c => state'[r] = state[r]
    BY <1>4, <2>1, <2>2 DEF i, Ctl, UserTyped, Base, TypeOK, MakeReady
  <2>6. UserTyped'
    <3>1. pc' \in [Pids -> Nat]
      <4>1. pc \in [Pids -> Nat] /\ i + 1 \in Nat /\ pc[InitPid] + 1 \in Nat
        BY <1>4, <2>3 DEF Ctl, UserTyped, i
      <4>2. pc' = [pc EXCEPT ![InitPid] = pc[InitPid] + 1, ![c] = i + 1]
        BY <2>1
      <4> QED
        BY <4>1, <4>2
    <3> QED
      BY <1>1, <3>1 DEF Ctl, UserTyped
  <2>7. InitOp' = "forkpid"
    BY <1>1, <2>4, <2>5 DEF InitOp
  <2>8. InitCtl'
    <3>1. ~waitingChild[InitPid]
      BY <1>1, <1>2, <1>4, CallerIs
    <3>2. prog[InitPid] = "init"
      BY DEF Ctl, InitCtl
    <3>3. (c + 1) - 1 <= NumForks(script)
      BY <2>2, <2>4
    <3>4. prog'[InitPid] = "init" /\ ~waitingChild'[InitPid] /\ script' = script
      BY <1>1, <2>1, <3>1, <3>2
    <3>5. pc'[InitPid] \in 1 .. Len(script) /\ forkPid'[InitPid] # 0
      BY <2>2, <2>4, <2>5 DEF InitPid
    <3>6. \A r \in 1 .. NumForks(script) : r < numTasks' <=> ForkAt(r) < pc'[InitPid]
      BY <2>1, <2>4, <2>5
    <3>7. numTasks' - 1 <= NumForks(script)
      BY <2>1, <3>3
    <3> QED
      BY <2>7, <3>4, <3>5, <3>6, <3>7 DEF InitCtl
  <2>9. \A r \in 1 .. numTasks - 1 : ChildCtl(r)'
    <3>1. \A r \in 1 .. numTasks - 1 : r \notin {InitPid, c}
      BY <1>4, <2>2, <2>13
    <3> QED
      BY <1>1, <1>4, <2>1, <2>5, <3>1, ChildStays
  <2>10. ChildCtl(c)'
    <3>1. prog[c] = "init" /\ ran[c] = 0 /\ waitingChild[c] = FALSE
      BY <2>2, <2>13 DEF Ctl, UnusedCtl
    <3> QED
      BY <1>1, <2>1, <2>4, <2>5, <3>1 DEF ChildCtl
  <2>11. \A r \in Pids : r >= c + 1 => UnusedCtl(r)'
    BY <1>1, <1>4, <2>1, <2>2, <2>5, <2>13 DEF Ctl, UnusedCtl
  <2>12. \A r \in 1 .. (c + 1) - 1 : r = c \/ r \in 1 .. numTasks - 1
    BY <2>2, <2>13
  <2> QED
    BY <2>1, <2>6, <2>8, <2>9, <2>10, <2>11, <2>12 DEF Ctl
<1> QED
  BY <1>5, <1>6

\* forkpid: the parent sees the child's pid, the child sees 0.
LEMMA ForkPidCtl ==
    ASSUME Configured, Base, Ctl, NEW p \in Pids, ForkPidStep(p)
    PROVE  Ctl'
<1>1. At(p, "forkpid") /\ ForkPid /\ Continue(p)
  BY DEF ForkPidStep
<1>2. p = currentTask /\ (p = InitPid \/ p \in 1 .. numTasks - 1)
  BY <1>1, CallerIs
<1>3. /\ pc' = [pc EXCEPT ![p] = pc[p] + 1]
      /\ script' = script /\ prog' = prog /\ ran' = ran
      /\ eax' = [eax EXCEPT ![p] = forkPid[p]]
      /\ UNCHANGED <<numTasks, state, ppid, waitingChild, parentTookInWait, forkPid>>
  BY <1>1, <1>2 DEF Continue, GoTo, ForkPid, waitVars
<1>4. eax'[p] = forkPid[p] /\ \A r \in Pids : r # p => eax'[r] = eax[r]
  BY <1>3 DEF Base, TypeOK
<1>5. ~waitingChild[p]
  BY <1>1, CallerIs
<1>6. CASE p = InitPid
  <2>1. InitOp = "forkpid"
    BY <1>1, <1>6, RoleOfInit
  <2>2. NoneEnds
    BY <1>3 DEF NoneEnds
  <2> QED
    BY <1>3, <1>4, <1>5, <1>6, <2>1, <2>2, InitAdvances
<1>7. CASE p \in 1 .. numTasks - 1
  <2>1. prog[p] = "init" /\ pc[p] = ForkAt(p) + 1 /\ forkPid[p] = 0
    BY <1>1, <1>7, RoleOfChild
  <2>2. ChildCtl(p) /\ p \in Nat /\ 1 <= p /\ ForkAt(p) \in Nat
    BY <1>7, ForkPlace, PidRange DEF Base, Ctl
  <2>3. /\ pc'[p] = ForkAt(p) + 2 /\ \A r \in Pids : r # p => pc'[r] = pc[r]
        /\ pc' \in [Pids -> Nat]
    BY <1>3, <2>1, <2>2 DEF Ctl, UserTyped
  <2>4. UserTyped'
    BY <1>3, <2>3 DEF Ctl, UserTyped
  <2>5. ChildCtl(p)'
    BY <1>3, <1>4, <2>1, <2>2, <2>3 DEF ChildCtl
  <2>6. InitPid \in Pids /\ InitPid # p
    BY <1>7, PidRange DEF Base
  <2> QED
    BY <1>3, <1>4, <1>7, <2>3, <2>4, <2>5, <2>6, ChildMoves
<1> QED
  BY <1>2, <1>6, <1>7

\* execve: the child becomes its program, the parent goes on.
LEMMA ExecCtl ==
    ASSUME Configured, Base, Ctl, NEW p \in Pids, ExecStep(p)
    PROVE  Ctl'
<1>1. At(p, "exec")
  BY DEF ExecStep
<1>2. p = currentTask /\ (p = InitPid \/ p \in 1 .. numTasks - 1) /\ ~waitingChild[p]
  BY <1>1, CallerIs
<1>6. CASE p = InitPid
  <2>1. InitOp = "exec"
    BY <1>1, <1>6, RoleOfInit
  <2>2. eax[p] # 0
    BY <1>6, <2>1 DEF Ctl, InitCtl
  <2>3. Continue(p) /\ UNCHANGED vars
    BY <2>2 DEF ExecStep
  <2>4. /\ pc' = [pc EXCEPT ![p] = pc[p] + 1]
        /\ script' = script /\ prog' = prog /\ ran' = ran
        /\ UNCHANGED <<numTasks, state, ppid, waitingChild, parentTookInWait, forkPid, eax>>
    BY <2>3 DEF Continue, GoTo, vars
  <2>5. NoneEnds
    BY <2>4 DEF NoneEnds
  <2> QED
    BY <1>2, <1>6, <2>1, <2>4, <2>5, InitAdvances
<1>7. CASE p \in 1 .. numTasks - 1
  <2>1. /\ prog[p] = "init" /\ pc[p] = ForkAt(p) + 2 /\ eax[p] = 0
        /\ Arg(p) = script[ForkAt(p) + 2].arg /\ script[ForkAt(p) + 2].arg \in Programs
    BY <1>1, <1>7, RoleOfChild
  <2>2. /\ prog' = [prog EXCEPT ![p] = Arg(p)]
        /\ pc' = [pc EXCEPT ![p] = 1]
        /\ eax' = [eax EXCEPT ![p] = 0]
        /\ script' = script /\ ran' = ran
        /\ UNCHANGED <<numTasks, state, ppid, waitingChild, parentTookInWait, forkPid>>
    BY <1>2, <2>1 DEF ExecStep, Execve, waitVars
  <2>3. ChildCtl(p)
    BY <1>7 DEF Ctl
  <2>4. /\ pc'[p] = 1 /\ pc' \in [Pids -> Nat]
        /\ prog'[p] = Arg(p) /\ prog' \in [Pids -> Programs \cup {"init"}]
        /\ \A r \in Pids : r # p => /\ pc'[r] = pc[r] /\ prog'[r] = prog[r]
                                   /\ eax'[r] = eax[r]
    BY <2>1, <2>2 DEF Ctl, UserTyped, Base, TypeOK
  <2>5. UserTyped'
    BY <2>2, <2>4 DEF Ctl, UserTyped
  <2>6. Arg(p) # "init"
    BY <2>1 DEF Programs
  <2>7. ChildCtl(p)'
    BY <2>1, <2>2, <2>3, <2>4, <2>6 DEF ChildCtl
  <2>8. InitPid \in Pids /\ InitPid # p
    BY <1>7, PidRange DEF Base
  <2> QED
    BY <1>7, <2>2, <2>4, <2>5, <2>7, <2>8, ChildMoves
<1> QED
  BY <1>2, <1>6, <1>7

\* The calls that only init makes: setting priorities and the three for collatz.
LEMMA SetUpCtl ==
    ASSUME Configured, Base, Ctl, NEW p \in Pids,
           PriorityStep(p) \/ CollatzAddedStep(p) \/ BlockStep(p) \/ IgnoreStep(p)
    PROVE  Ctl' /\ p = InitPid /\ p = currentTask
<1>1. PICK op \in SetUpOps : At(p, op)
  BY DEF PriorityStep, CollatzAddedStep, BlockStep, IgnoreStep, SetUpOps
<1>2. p = currentTask /\ p = InitPid /\ ~waitingChild[p] /\ state[p] = "Running"
  <2>1. op \notin {"forkpid", "exec", "load", "store", "work", "exit"}
    BY <1>1 DEF SetUpOps
  <2> QED
    BY <1>1, <2>1, CallerIs, RoleOfChild
<1>3. InitOp = op
  BY <1>1, <1>2, RoleOfInit
<1>4. InitOp \notin {"fork", "forkpid", "wait", "again", "done"}
  BY <1>1, <1>3 DEF SetUpOps
<1>5. Continue(p)
  BY DEF PriorityStep, CollatzAddedStep, BlockStep, IgnoreStep
<1>6. /\ pc' = [pc EXCEPT ![p] = pc[p] + 1]
      /\ script' = script /\ prog' = prog /\ ran' = ran
  BY <1>5 DEF Continue, GoTo
<1>7. /\ UNCHANGED <<numTasks, ppid, waitingChild, parentTookInWait, forkPid>>
      /\ eax' = [eax EXCEPT ![p] = Pending] \/ eax' = eax
  BY <1>2 DEF PriorityStep, CollatzAddedStep, BlockStep, IgnoreStep, waitVars,
     SetLastTaskPriority, CollatzAdded, BlockForCollatz, SetIgnoreSchedule
<1>8. state \in [Pids -> States]
  BY DEF Base, TypeOK, States
<1>9. NoneEnds
  <2>1. CASE PriorityStep(p)
    BY <1>8, <2>1, MakeReadyEnds DEF PriorityStep, SetLastTaskPriority, NoneEnds
  <2>2. CASE BlockStep(p)
    <3> DEFINE st == [state EXCEPT ![currentTask] = "Blocked"]
    <3>1. Schedule(st, readyQueue)
      BY <2>2 DEF BlockStep, BlockForCollatz
    <3>2. /\ st \in [Pids -> States]
          /\ \A r \in Pids : st[r] = "Terminated" => state[r] = "Terminated"
      BY <1>8 DEF States
    <3> HIDE DEF st
    <3> QED
      BY <3>1, <3>2, ScheduleEnds DEF NoneEnds
  <2>3. CASE CollatzAddedStep(p)
    BY <2>3 DEF CollatzAddedStep, CollatzAdded, NoneEnds
  <2>4. CASE IgnoreStep(p)
    BY <2>4 DEF IgnoreStep, SetIgnoreSchedule, NoneEnds
  <2> QED
    BY <2>1, <2>2, <2>3, <2>4
<1>10. \A r \in Pids : r # InitPid => eax'[r] = eax[r]
  BY <1>2, <1>7 DEF Base, TypeOK
<1>11. Ctl'
  BY <1>2, <1>4, <1>6, <1>7, <1>9, <1>10, InitAdvances
<1> QED
  BY <1>2, <1>11

\* waitpid: init takes a child that has ended, waits, or is done.
LEMMA WaitCtl ==
    ASSUME Configured, Base, Ctl, NEW p \in Pids, WaitStep(p)
    PROVE  Ctl'
<1>1. At(p, "wait") /\ Waitpid(AnyChild) /\ Continue(p)
  BY DEF WaitStep
<1>2. p = currentTask /\ p = InitPid /\ ~waitingChild[p] /\ InitPid \in Pids
  BY <1>1, CallerIs, RoleOfChild
<1>3. InitOp = "wait"
  BY <1>1, <1>2, RoleOfInit
<1>4. /\ pc' = [pc EXCEPT ![InitPid] = pc[InitPid] + 1]
      /\ script' = script /\ prog' = prog /\ ran' = ran
      /\ UNCHANGED <<numTasks, ppid, forkPid>>
  BY <1>1, <1>2 DEF Continue, GoTo, Waitpid
<1>5. state \in [Pids -> States]
  BY DEF Base, TypeOK, States
<1>6. CASE WaitpidReaps(AnyChild)
  <2>1. PICK c \in TerminatedChildren(currentTask, AnyChild) :
           /\ parentTookInWait' = [parentTookInWait EXCEPT ![c] = TRUE]
           /\ eax' = [eax EXCEPT ![currentTask] = c]
           /\ UNCHANGED <<state, waitingChild>>
    BY <1>6 DEF WaitpidReaps
  <2>2. c \in Pids /\ c # NoTask
    BY PidRange, ChildrenArePids DEF Base, TypeOK, TerminatedChildren
  <2>3. /\ \A r \in Pids : r # InitPid => eax'[r] = eax[r]
        /\ eax'[InitPid] # NoTask
    BY <1>2, <2>1, <2>2 DEF Base, TypeOK
  <2>4. \A r \in Pids : parentTookInWait[r] => parentTookInWait'[r]
    BY <2>1 DEF Base, TypeOK
  <2>5. NoneEnds
    BY <2>1 DEF NoneEnds
  <2> QED
    BY <1>2, <1>3, <1>4, <2>1, <2>3, <2>4, <2>5, InitAdvances
<1>7. CASE WaitpidFails(AnyChild)
  <2>1. /\ Children(InitPid, AnyChild) = {}
        /\ eax' = [eax EXCEPT ![InitPid] = NoTask]
        /\ waitingChild' = [waitingChild EXCEPT ![InitPid] = FALSE]
        /\ UNCHANGED <<state, parentTookInWait>>
    BY <1>2, <1>7 DEF WaitpidFails
  <2>2. AllTaken'
    <3>1. \A c \in 1 .. numTasks - 1 : c \in 0 .. numTasks - 1 /\ ppid[c] = InitPid
      BY DEF Ctl, ChildCtl
    <3>2. \A c \in 1 .. numTasks - 1 : parentTookInWait[c]
      BY <2>1, <3>1 DEF Children
    <3> QED
      BY <1>4, <2>1, <3>2 DEF AllTaken
  <2>3. \A r \in Pids : r # InitPid => /\ eax'[r] = eax[r]
                                      /\ waitingChild'[r] = waitingChild[r]
    BY <2>1 DEF Base, TypeOK
  <2>4. NoneEnds
    BY <2>1 DEF NoneEnds
  <2> QED
    BY <1>2, <1>3, <1>4, <2>1, <2>2, <2>3, <2>4, InitAdvances
<1>8. CASE WaitpidBlocks(AnyChild)
  <2> DEFINE st == [state EXCEPT ![currentTask] = "Blocked"]
  <2>1. /\ waitingChild' = [waitingChild EXCEPT ![InitPid] = TRUE]
        /\ eax' = [eax EXCEPT ![InitPid] = Pending]
        /\ Schedule(st, readyQueue)
        /\ UNCHANGED parentTookInWait
    BY <1>2, <1>8 DEF WaitpidBlocks
  <2>2. /\ st \in [Pids -> States]
        /\ \A r \in Pids : st[r] = "Terminated" => state[r] = "Terminated"
    BY <1>5 DEF States
  <2> HIDE DEF st
  <2>3. NoneEnds
    BY <2>1, <2>2, ScheduleEnds DEF NoneEnds
  <2>4. /\ \A r \in Pids : r # InitPid => /\ eax'[r] = eax[r]
                                          /\ waitingChild'[r] = waitingChild[r]
        /\ eax'[InitPid] = Pending
    BY <1>2, <2>1 DEF Base, TypeOK
  <2>5. eax'[InitPid] # NoTask
    BY <2>4 DEF Pending, NoTask
  <2> QED
    BY <1>2, <1>3, <1>4, <2>1, <2>3, <2>4, <2>5, InitAdvances
<1> QED
  BY <1>1, <1>6, <1>7, <1>8 DEF Waitpid

\* Init waits again while there was a child.
LEMMA AgainCtl ==
    ASSUME Configured, Base, Ctl, NEW p \in Pids, AgainStep(p)
    PROVE  Ctl'
<1>1. At(p, "again") /\ UNCHANGED vars
  BY DEF AgainStep
<1>2. p = currentTask /\ p = InitPid /\ ~waitingChild[p]
  BY <1>1, CallerIs, RoleOfChild
<1>3. InitOp = "again"
  BY <1>1, <1>2, RoleOfInit
<1>4. script' = script /\ prog' = prog /\ ran' = ran
  BY DEF AgainStep, GoTo
<1>5. CASE eax[InitPid] # NoTask
  <2>1. pc' = [pc EXCEPT ![InitPid] = pc[InitPid] - 1]
    BY <1>2, <1>5 DEF AgainStep, GoTo
  <2> QED
    BY <1>1, <1>2, <1>3, <1>4, <2>1, InitWaitsAgain
<1>6. CASE eax[InitPid] = NoTask
  <2>1. pc' = [pc EXCEPT ![InitPid] = pc[InitPid] + 1]
    BY <1>2, <1>6 DEF AgainStep, GoTo
  <2>2. /\ UNCHANGED <<numTasks, state, ppid, waitingChild, parentTookInWait, forkPid, eax>>
        /\ NoneEnds
    BY <1>1 DEF vars, NoneEnds
  <2> QED
    BY <1>2, <1>3, <1>4, <1>6, <2>1, <2>2, InitAdvances
<1> QED
  BY <1>5, <1>6

\* The steps of a worker before its exit.
LEMMA WorkerCtl ==
    ASSUME Configured, Base, Ctl, NEW p \in Pids,
           LoadStep(p) \/ StoreStep(p) \/ WorkStep(p)
    PROVE  /\ Ctl' /\ p = currentTask /\ p \in 1 .. numTasks - 1
           /\ prog[p] \in Programs /\ UNCHANGED vars
<1>1. PICK op \in {"load", "store", "work"} : At(p, op)
  BY DEF LoadStep, StoreStep, WorkStep
<1>2. /\ script' = script /\ prog' = prog /\ ran' = ran
      /\ pc' = [pc EXCEPT ![p] = pc[p] + 1]
      /\ UNCHANGED vars
  BY DEF LoadStep, StoreStep, WorkStep, Continue, GoTo
<1>3. p = currentTask /\ p \in 1 .. numTasks - 1
  <2>1. p # InitPid
    <3> SUFFICES ASSUME p = InitPid PROVE FALSE
      OBVIOUS
    <3>1. InitOp \in {"load", "store", "work"}
      BY <1>1, RoleOfInit
    <3>2. InitOp \in SpawnOps \cup SetUpOps \cup WaitOps
      BY CtlScript DEF Ctl, InitCtl, InitOp
    <3> QED
      BY <3>1, <3>2 DEF SpawnOps, SetUpOps, WaitOps
  <2> QED
    BY <1>1, <2>1, CallerIs
<1>4. /\ prog[p] # "init" /\ prog[p] \in Programs
      /\ \/ op = "load" /\ pc[p] = 1
         \/ op = "store" /\ pc[p] = 2
         \/ op = "work" /\ pc[p] = 3
  BY <1>1, <1>3, RoleOfChild
<1>5. pc[p] = 3 => ran[p] >= MinTicks[prog[p]]
  <2> SUFFICES ASSUME pc[p] = 3 PROVE ran[p] >= MinTicks[prog[p]]
    OBVIOUS
  <2>1. CodeOf(p)[3].op = "work"
    BY <1>4 DEF CodeOf, Worker, Instr
  <2>2. \/ CodeOf(p)[3].op = "load" \/ CodeOf(p)[3].op = "store" \/ WorkStep(p)
    BY DEF LoadStep, StoreStep, At
  <2> QED
    BY <2>1, <2>2 DEF WorkStep
<1>6. /\ pc' \in [Pids -> Nat] /\ pc'[p] = pc[p] + 1
      /\ \A r \in Pids : r # p => pc'[r] = pc[r]
  BY <1>2, <1>4 DEF Ctl, UserTyped
<1>7. UserTyped'
  BY <1>2, <1>6 DEF Ctl, UserTyped
<1>8. /\ UNCHANGED <<numTasks, state, ppid, waitingChild, parentTookInWait, forkPid, eax>>
      /\ state[p] = "Running"
  BY <1>1, <1>2, CallerIs DEF vars
<1>9. ChildCtl(p)'
  <2>1. ChildCtl(p)
    BY <1>3 DEF Ctl
  <2>2. pc'[p] \in 1 .. 4 /\ (pc'[p] = 4 => pc[p] = 3)
    BY <1>4, <1>6
  <2> QED
    BY <1>2, <1>4, <1>5, <1>8, <2>1, <2>2 DEF ChildCtl
<1>10. InitPid \in Pids /\ InitPid # p
  BY <1>3, PidRange DEF Base
<1>11. Ctl'
  BY <1>2, <1>3, <1>6, <1>7, <1>8, <1>9, <1>10, ChildMoves
<1> QED
  BY <1>2, <1>3, <1>4, <1>11

\* exit: the child ends, and may wake init.
LEMMA ExitCtl ==
    ASSUME Configured, Base, Ctl, NEW p \in Pids, ExitStep(p)
    PROVE  /\ Ctl' /\ p = currentTask /\ p \in 1 .. numTasks - 1
           /\ prog[p] \in Programs /\ pc[p] = 4
           /\ \A r \in Pids : r # p =>
                 (state'[r] = "Terminated" => state[r] = "Terminated")
<1>1. At(p, "exit") /\ Exit /\ UNCHANGED userVars
  BY DEF ExitStep
<1>2. p = currentTask /\ p \in 1 .. numTasks - 1
  <2>1. p # InitPid
    <3> SUFFICES ASSUME p = InitPid PROVE FALSE
      OBVIOUS
    <3>1. InitOp = "exit"
      BY <1>1, RoleOfInit
    <3>2. InitOp \in SpawnOps \cup SetUpOps \cup WaitOps
      BY CtlScript DEF Ctl, InitCtl, InitOp
    <3> QED
      BY <3>1, <3>2 DEF SpawnOps, SetUpOps, WaitOps
  <2> QED
    BY <1>1, <2>1, CallerIs
<1>3. prog[p] # "init" /\ prog[p] \in Programs /\ pc[p] = 4
  BY <1>1, <1>2, RoleOfChild
<1>4. script' = script /\ prog' = prog /\ pc' = pc /\ ran' = ran
  BY <1>1 DEF userVars
<1>5. UNCHANGED <<numTasks, ppid, forkPid>>
  BY <1>1 DEF Exit
<1>6. /\ InitPid \in Pids /\ InitPid # p /\ p # NoTask
  BY <1>2, PidRange DEF Base
<1>7. ppid[p] = InitPid /\ ChildCtl(p)
  BY <1>2 DEF Ctl, ChildCtl
<1>8. state \in [Pids -> States]
  BY DEF Base, TypeOK, States
<1> DEFINE ended == [state EXCEPT ![p] = "Terminated"]
           woken == IF WakesParent(p) THEN MakeReady(ended, ppid[p]) ELSE ended
           queued == IF WakesParent(p)
                     THEN AddToReadyQueue(readyQueue, ppid[p], priority)
                     ELSE readyQueue
<1>9. /\ woken \in [Pids -> States]
      /\ \A r \in Pids : r # p => (woken[r] = "Terminated" => state[r] = "Terminated")
  <2>1. /\ ended \in [Pids -> States]
        /\ \A r \in Pids : r # p => (ended[r] = "Terminated" => state[r] = "Terminated")
    BY <1>8 DEF States
  <2> HIDE DEF ended
  <2> QED
    BY <2>1, MakeReadyEnds
<1>10. \A r \in Pids : r # p => (state'[r] = "Terminated" => state[r] = "Terminated")
  <2>1. CASE ResumesBlocked(p)
    <3> DEFINE st == MakeReady(woken, blockedTaskForCollatz)
    <3>1. \E q : Schedule(st, q)
      BY <1>1, <1>2, <2>1 DEF Exit
    <3>2. /\ st \in [Pids -> States]
          /\ \A r \in Pids : st[r] = "Terminated" => woken[r] = "Terminated"
      BY <1>9, MakeReadyEnds
    <3> HIDE DEF st, woken
    <3>3. \A r \in Pids : state'[r] = "Terminated" => st[r] = "Terminated"
      BY <3>1, <3>2, ScheduleEnds
    <3> QED
      BY <1>9, <3>2, <3>3
  <2>2. CASE ~ResumesBlocked(p)
    <3>1. Schedule(woken, queued)
      BY <1>1, <1>2, <2>2 DEF Exit
    <3> HIDE DEF woken, queued
    <3>2. \A r \in Pids : state'[r] = "Terminated" => woken[r] = "Terminated"
      BY <1>9, <3>1, ScheduleEnds
    <3> QED
      BY <1>9, <3>2
  <2> QED
    BY <2>1, <2>2
<1>11. UserTyped'
  BY <1>4 DEF Ctl, UserTyped
<1>12. IF WakesParent(p)
       THEN /\ waitingChild[InitPid]
            /\ parentTookInWait' = [parentTookInWait EXCEPT ![p] = TRUE]
            /\ waitingChild' = [waitingChild EXCEPT ![InitPid] = FALSE]
            /\ eax' = [eax EXCEPT ![InitPid] = p]
       ELSE UNCHANGED <<parentTookInWait, waitingChild, eax>>
  BY <1>1, <1>2, <1>7 DEF Exit, WakesParent
<1>13. /\ \A r \in Pids : r # InitPid => /\ eax'[r] = eax[r]
                                        /\ waitingChild'[r] = waitingChild[r]
       /\ \A r \in Pids : parentTookInWait[r] => parentTookInWait'[r]
       /\ waitingChild'[InitPid] => waitingChild[InitPid]
       /\ eax'[InitPid] = eax[InitPid] \/ (waitingChild[InitPid] /\ eax'[InitPid] # NoTask)
  <2>1. CASE WakesParent(p)
    BY <1>6, <1>12, <2>1 DEF Base, TypeOK
  <2>2. CASE ~WakesParent(p)
    BY <1>12, <2>2
  <2> QED
    BY <2>1, <2>2
<1>14. ChildCtl(p)'
  BY <1>3, <1>4, <1>5, <1>6, <1>7, <1>13 DEF ChildCtl
<1>15. Ctl'
  BY <1>2, <1>4, <1>5, <1>10, <1>11, <1>13, <1>14, ChildMoves
<1> QED
  BY <1>2, <1>3, <1>10, <1>15

\* Every step keeps the control invariant.
LEMMA CtlStep == Configured /\ Base /\ Ctl /\ [NextKernel]_allVars => Ctl'
<1> SUFFICES ASSUME Configured, Base, Ctl, [NextKernel]_allVars PROVE Ctl'
  OBVIOUS
<1>1. CASE UNCHANGED allVars
  BY <1>1 DEF allVars, vars, userVars, Ctl, UserTyped, InitCtl, ChildCtl, UnusedCtl,
     InitOp, AllTaken
<1>2. CASE Tick
  BY <1>2, TickCtl
<1>3. ASSUME NEW p \in Pids, Step(p) PROVE Ctl'
  BY <1>3, ForkCtl, ForkPidCtl, ExecCtl, SetUpCtl, WaitCtl, AgainCtl, WorkerCtl, ExitCtl
  DEF Step
<1> QED
  BY <1>1, <1>2, <1>3 DEF NextKernel

\* The control invariant holds when init starts.
LEMMA InitKernelCtl == Configured /\ InitKernel => Ctl
<1> SUFFICES ASSUME Configured, InitKernel PROVE Ctl
  OBVIOUS
<1>1. /\ numTasks = 1 /\ script \in Scripts
      /\ prog = [p \in Pids |-> "init"]
      /\ pc = [p \in Pids |-> 1]
      /\ ran = [p \in Pids |-> 0]
      /\ waitingChild = [p \in Pids |-> FALSE]
  BY DEF InitKernel, Init, InitPrograms
<1>2. InitPid \in Pids
  BY MaxNumTasksAssumption DEF Pids, InitPid
<1>3. UserTyped
  BY <1>1 DEF UserTyped
<1>4. /\ WellLaid(script) /\ Len(script) \in Nat /\ NumForks(script) \in Nat
      /\ Len(script) >= 3 /\ 1 \in 1 .. Len(script)
  BY <1>3, CtlScript DEF WellLaid
<1>5. \A p \in 1 .. NumForks(script) : p \in Nat /\ ForkAt(p) \in Nat /\ 1 <= ForkAt(p)
  BY <1>4, ForkPlace
<1>6. InitOp \notin {"forkpid", "exec", "again", "done"}
  <2>1. script[1].op \notin {"forkpid", "exec"}
    <3> SUFFICES ASSUME script[1].op \in {"forkpid", "exec"} PROVE FALSE
      OBVIOUS
    <3>1. PICK p \in 1 .. NumForks(script) : 1 = ForkAt(p) + 1 \/ 1 = ForkAt(p) + 2
      BY <1>4 DEF WellLaid, SpawnOps
    <3> QED
      BY <1>5, <3>1
  <2>2. script[1].op \notin {"again", "done"}
    <3>1. 1 < Len(script)
      BY <1>4
    <3>2. script[1].op = "again" => FALSE
      BY <1>4, Neighbours
    <3>3. script[1].op \in WaitOps => 1 >= Len(script) - 2
      BY <1>4 DEF WellLaid
    <3>4. script[1].op \in WaitOps => script[1].op = "wait"
      BY <1>4, <3>3 DEF WellLaid
    <3> QED
      BY <3>4 DEF WaitOps
  <2> QED
    BY <1>1, <1>2, <2>1, <2>2 DEF InitOp
<1>7. InitCtl
  BY <1>1, <1>2, <1>4, <1>5, <1>6 DEF InitCtl
<1>8. \A p \in 1 .. numTasks - 1 : FALSE
  BY <1>1
<1> QED
  BY <1>1, <1>3, <1>7, <1>8 DEF Ctl, UnusedCtl

-----------------------------------------------------------------------------
(* Under the preemptive scheduler, init comes first *)

Preemptive == SchedulerType = "PreemptivePriority"

\* Init has the highest priority and the oldest slot: it runs when it can.
InitFirst ==
    /\ priority[InitPid] = High
    /\ currentTask # NoTask => state[InitPid] # "Ready"

\* Every dispatch puts a Ready task on the CPU, another one than an exiting
\* or a waiting caller.
LEMMA DispatchesReady ==
    ASSUME NEW st \in [Pids -> States], NEW q, Holds(q, ReadyIn(st)),
           Schedule(st, q), PopFindsTask'
    PROVE  /\ currentTask' \in Pids /\ st[currentTask'] = "Ready"
           /\ state' = [st EXCEPT ![currentTask'] = "Running"]
<1>1. /\ q # << >> /\ currentTask' = Head(q)
      /\ state' = [st EXCEPT ![Head(q)] = "Running"]
      /\ Head(q) \in ReadyIn(st)
  BY ScheduleTakesHead, TailHolds
<1> QED
  BY <1>1 DEF ReadyIn

\* A tick dispatches a task that was Ready.
LEMMA TickTakesReady ==
    ASSUME IInv, IInv', TimerInterrupt, RaisesQueued
    PROVE  /\ currentTask' \in Pids /\ TickStates[currentTask'] = "Ready"
           /\ state' = [TickStates EXCEPT ![currentTask'] = "Running"]
           /\ TickStates \in [Pids -> States]
<1>1. /\ TickStates \in [Pids -> States]
      /\ Holds(TickQueue, ReadyIn(TickStates))
      /\ Schedule(TickStates, TickQueue)
  BY TickSchedules
<1>2. PopFindsTask'
  BY DEF IInv
<1> QED
  BY <1>1, <1>2, DispatchesReady

\* A task that waits gives the CPU to one that was Ready.
LEMMA WaitTakesReady ==
    ASSUME IInv, IInv', NEW pid, Calling, WaitpidBlocks(pid)
    PROVE  /\ currentTask' \in Pids /\ currentTask' # currentTask
           /\ currentTask \in Pids /\ state[currentTask'] = "Ready"
           /\ \A p \in Pids : p \notin {currentTask, currentTask'} => state'[p] = state[p]
           /\ state'[currentTask] = "Blocked"
<1> DEFINE st == [state EXCEPT ![currentTask] = "Blocked"]
<1>1. st \in [Pids -> States] /\ Holds(readyQueue, ReadyIn(st)) /\ Schedule(st, readyQueue)
  BY WaitSchedules
<1>2. /\ currentTask \in Pids /\ st[currentTask] = "Blocked"
      /\ \A p \in Pids : p # currentTask => st[p] = state[p]
  BY CallerRuns
<1>3. PopFindsTask'
  BY DEF IInv
<1> HIDE DEF st
<1>4. /\ currentTask' \in Pids /\ st[currentTask'] = "Ready"
      /\ state' = [st EXCEPT ![currentTask'] = "Running"]
  BY <1>1, <1>3, DispatchesReady
<1> QED
  BY <1>1, <1>2, <1>4

\* A task that exits gives the CPU to one that was Ready.
LEMMA ExitTakesReady ==
    ASSUME IInv, IInv', ExitNotInit
    PROVE  /\ currentTask' \in Pids /\ currentTask' # currentTask
           /\ currentTask \in Pids
           /\ state'[currentTask] = "Terminated"
           /\ \A p \in Pids :
                 p # currentTask /\ p # currentTask' /\ state[p] # "Blocked" =>
                    state'[p] = state[p]
<1> DEFINE me == currentTask
           parent == ppid[me]
           ended == [state EXCEPT ![me] = "Terminated"]
           woken == IF WakesParent(me) THEN MakeReady(ended, parent) ELSE ended
           queued == IF WakesParent(me)
                     THEN AddToReadyQueue(readyQueue, parent, priority)
                     ELSE readyQueue
<1>1. /\ me \in Pids /\ state[me] = "Running"
      /\ woken \in [Pids -> States] /\ Holds(queued, ReadyIn(woken))
      /\ Schedule(woken, queued)
      /\ woken[me] = "Terminated"
      /\ \A p \in Pids :
            p # me /\ ~(WakesParent(me) /\ p = parent) => woken[p] = state[p]
      /\ WakesParent(me) => state[parent] = "Blocked"
  BY ExitSchedules
<1>2. PopFindsTask'
  BY DEF IInv
<1> HIDE DEF woken, queued, parent
<1>3. /\ currentTask' \in Pids /\ woken[currentTask'] = "Ready"
      /\ state' = [woken EXCEPT ![currentTask'] = "Running"]
  BY <1>1, <1>2, DispatchesReady
<1> QED
  BY <1>1, <1>3

\* Once init has been dispatched the CPU is never idle.
LEMMA InitFirstStep ==
    ASSUME IInv, IInv', [Next]_vars, RaisesQueued, DispatchesBest, InitFirst
    PROVE  /\ InitFirst'
           /\ currentTask' = NoTask => currentTask = NoTask /\ ~TimerInterrupt
<1>1. /\ InitPid \in Pids /\ NoTask \notin Pids /\ InitPid < numTasks
      /\ numTasks \in Nat
      /\ \A p \in Pids : p \in Nat
  BY PidRange DEF IInv, SlotsInOrder
<1>2. /\ priority \in [Pids -> Priorities] /\ priority' \in [Pids -> Priorities]
      /\ state \in [Pids -> States] /\ state' \in [Pids -> States]
      /\ currentTask' \in Pids \cup {NoTask}
      /\ \A p \in Pids : state'[p] = "Running" <=> p = currentTask'
      /\ \A p \in Pids : state[p] = "Running" <=> p = currentTask
  BY DEF IInv, TypeOK, Priorities, States, RunningExact
<1>3. ASSUME PrioritiseNewTask PROVE numTasks - 1 \in Pids /\ numTasks - 1 # InitPid
  <2>1. /\ state[numTasks - 1] = "Ready" /\ currentTask # NoTask
        /\ numTasks \in 1 .. MaxNumTasks /\ MaxNumTasks \in Nat
    BY <1>3, CallerRuns DEF PrioritiseNewTask, SetLastTaskPriority, Calling
  <2>2. state[InitPid] # "Ready"
    BY <2>1 DEF InitFirst
  <2> QED
    BY <2>1, <2>2 DEF Pids
<1>4. ASSUME Fork, HasFreeSlot PROVE numTasks # InitPid
  BY <1>1 DEF InitPid
<1>5. priority'[InitPid] = High
  <2>1. CASE TimerInterrupt
    <3>1. priority' = TickPriority
      BY <2>1, TickSchedules
    <3> QED
      BY <1>1, <1>2, <3>1 DEF TickPriority, InitFirst
  <2>2. CASE Fork
    BY <1>1, <1>2, <1>4, <2>2 DEF Fork, InitFirst
  <2>3. CASE PrioritiseNewTask
    BY <1>1, <1>2, <1>3, <2>3 DEF PrioritiseNewTask, SetLastTaskPriority, InitFirst
  <2>4. CASE UNCHANGED priority
    BY <2>4 DEF InitFirst
  <2> QED
    BY <2>1, <2>2, <2>3, <2>4 DEF Next, ForkPid, Execve, Waitpid, ExitNotInit, Exit, vars
<1>6. ASSUME currentTask' \in Pids, TimerInterrupt \/ currentTask' # currentTask
      PROVE  state'[InitPid] # "Ready"
  <2> SUFFICES ASSUME state'[InitPid] = "Ready" PROVE FALSE
    OBVIOUS
  <2>1. \/ priority'[currentTask'] < priority'[InitPid]
        \/ priority'[currentTask'] = priority'[InitPid] /\ currentTask' < InitPid
    BY <1>1, <1>6 DEF DispatchesBest
  <2>2. priority'[currentTask'] \in {0, 1, 2} /\ currentTask' \in Nat
    BY <1>1, <1>2, <1>6 DEF Priorities, High, Medium, Low
  <2> QED
    BY <1>5, <2>1, <2>2 DEF High, InitPid
<1>7. CASE TimerInterrupt
  <2>1. currentTask' \in Pids
    BY <1>7, TickTakesReady
  <2> QED
    BY <1>1, <1>5, <1>6, <1>7, <2>1 DEF InitFirst
<1>8. CASE ~TimerInterrupt /\ UNCHANGED <<currentTask, state>>
  BY <1>5, <1>8 DEF InitFirst
<1>9. CASE ~TimerInterrupt /\ Fork
  <2>1. UNCHANGED currentTask /\ currentTask # NoTask
    BY <1>9 DEF Fork, Calling
  <2>2. state'[InitPid] = state[InitPid]
    BY <1>1, <1>2, <1>4, <1>9 DEF Fork, MakeReady
  <2> QED
    BY <1>5, <1>9, <2>1, <2>2 DEF InitFirst
<1>10. CASE ~TimerInterrupt /\ PrioritiseNewTask
  <2>1. UNCHANGED currentTask /\ currentTask # NoTask
    BY <1>10 DEF PrioritiseNewTask, SetLastTaskPriority, Calling
  <2>2. state'[InitPid] = state[InitPid]
    BY <1>1, <1>2, <1>3, <1>10 DEF PrioritiseNewTask, SetLastTaskPriority, MakeReady
  <2> QED
    BY <1>5, <1>10, <2>1, <2>2 DEF InitFirst
<1>11. CASE ~TimerInterrupt /\ ExitNotInit
  BY <1>1, <1>5, <1>6, <1>11, ExitTakesReady DEF InitFirst
<1>12. ASSUME ~TimerInterrupt, NEW pid \in Pids \cup {AnyChild}, Waitpid(pid)
       PROVE  InitFirst' /\ (currentTask' = NoTask => currentTask = NoTask)
  <2>1. CASE UNCHANGED <<currentTask, state>>
    BY <1>5, <2>1 DEF InitFirst
  <2>2. CASE WaitpidBlocks(pid)
    <3>1. currentTask' \in Pids /\ currentTask' # currentTask
      BY <1>12, <2>2, WaitTakesReady DEF Waitpid
    <3> QED
      BY <1>1, <1>5, <1>6, <3>1 DEF InitFirst
  <2> QED
    BY <1>12, <2>1, <2>2 DEF Waitpid, WaitpidReaps, WaitpidFails
<1> QED
  BY <1>7, <1>8, <1>9, <1>10, <1>11, <1>12 DEF Next, ForkPid, Execve, vars

-----------------------------------------------------------------------------
(* The scheduler under the programs *)

\* What the scheduler keeps, whatever program calls it.
Kept == IInv /\ TakenEnded /\ (Preemptive => InOrder /\ InitFirst)

\* What the control invariant needs of the scheduler.
LEMMA KeptBase == Kept => Base
<1> SUFFICES ASSUME IInv PROVE Base
  BY DEF Kept
<1>1. /\ TypeOK /\ numTasks >= 1 /\ numTasks \in Nat
      /\ \A p \in Pids : state[p] = "Running" <=> p = currentTask
      /\ \A p \in Pids : waitingChild[p] => state[p] = "Blocked"
      /\ \A p \in Pids : state[p] = "Free" <=> p >= numTasks
      /\ currentTask \in Pids \cup {NoTask}
      /\ \A p \in Pids : p \in Nat
  BY PidRange DEF IInv, SlotsInOrder, RunningExact, WaitersExact, TypeOK
<1>2. currentTask < numTasks
  BY <1>1 DEF NoTask
<1> QED
  BY <1>1, <1>2 DEF Base

\* Each scheduler step that wakes no waiter by priority keeps the invariant.
LEMMA KeptNext ==
    ASSUME Kept, [Next]_vars, RaisesQueued
    PROVE  Kept' /\ EndedKept /\ (Preemptive => DispatchesBest)
<1>1. IInv'
  BY StepIInv DEF Kept
<1>2. EndedKept /\ TakenEnded'
  BY <1>1, StepDelivers DEF Kept
<1>3. Preemptive => InOrder' /\ DispatchesBest
  BY <1>1, StepInOrder DEF Kept, Preemptive
<1>4. Preemptive => InitFirst'
  BY <1>1, <1>3, InitFirstStep DEF Kept
<1> QED
  BY <1>1, <1>2, <1>3, <1>4 DEF Kept

\* The calls that init makes for collatz leave the scheduler alone.
LEMMA CollatzCallKept ==
    ASSUME Kept,
           \/ CollatzAdded /\ blockedTaskForCollatz = NoTask
           \/ \E ignore \in BOOLEAN : SetIgnoreSchedule(ignore)
    PROVE  /\ Kept' /\ EndedKept
           /\ UNCHANGED <<currentTask, state, numTasks>>
           /\ TimerInterrupt => UNCHANGED vars \/ [Next]_vars
<1>1. /\ UNCHANGED <<numTasks, currentTask, state, ppid, priority, waitVars,
                     forkPid, readyQueue, blockedTaskForCollatz, fault>>
      /\ Calling
  BY DEF CollatzAdded, SetIgnoreSchedule
<1>2. UNCHANGED <<waitingChild, waitingChildId, parentTookInWait>>
  BY <1>1 DEF waitVars
<1>3. TypeOK /\ IInv
  BY DEF Kept, IInv
<1>4. /\ currentTask \in Pids /\ numTasks - 1 \in Pids
  BY <1>1, <1>3, CallerRuns DEF Pids
<1>5. TypeOK'
  <2>1. CASE CollatzAdded
    <3>1. /\ collatzTask' = numTasks - 1 /\ interruptNumAfterCollatz' = 0
          /\ eax' = [eax EXCEPT ![currentTask] = Pending]
          /\ UNCHANGED ignoreSchedule
      BY <2>1 DEF CollatzAdded
    <3>2. eax' \in [Pids -> Pids \cup {NoTask, Pending}]
      BY <1>3, <3>1 DEF TypeOK
    <3>3. 0 \in -1 .. CounterBound
      BY DEF CounterBound, FifthInterrupt
    <3> QED
      BY <1>1, <1>2, <1>3, <1>4, <3>1, <3>2, <3>3 DEF TypeOK
  <2>2. ASSUME NEW ignore \in BOOLEAN, SetIgnoreSchedule(ignore) PROVE TypeOK'
    <3>1. /\ ignoreSchedule' = ignore
          /\ UNCHANGED <<eax, collatzTask, interruptNumAfterCollatz>>
      BY <2>2 DEF SetIgnoreSchedule
    <3>2. ignoreSchedule' \in BOOLEAN
      BY <3>1, Zenon
    <3> QED
      BY <1>1, <1>2, <1>3, <3>1, <3>2 DEF TypeOK
  <2> QED
    BY <2>1, <2>2
<1>6. NobodyBlocked'
  <2>1. CASE blockedTaskForCollatz = NoTask
    BY <1>1, <2>1 DEF NobodyBlocked
  <2>2. CASE \E ignore \in BOOLEAN : SetIgnoreSchedule(ignore)
    BY <1>1, <1>3, <2>2 DEF SetIgnoreSchedule, NobodyBlocked, IInv
  <2> QED
    BY <2>1, <2>2
<1>7. IInv'
  <2>1. PopFindsTask' /\ QueueExact' /\ RunningExact' /\ SlotsInOrder' /\ InitLives'
    BY <1>1, <1>3 DEF IInv, PopFindsTask, QueueExact, RunningExact, SlotsInOrder,
       InitLives, ReadyIn
  <2>2. WaitersExact'
    BY <1>1, <1>2, <1>3 DEF IInv, WaitersExact, Children, TerminatedChildren
  <2> QED
    BY <1>5, <1>6, <2>1, <2>2 DEF IInv
<1>8. TakenEnded' /\ EndedKept
  BY <1>1, <1>2 DEF Kept, TakenEnded, EndedKept
<1>9. Preemptive => InOrder' /\ InitFirst'
  BY <1>1 DEF Kept, InOrder, Sorted, Before, InitFirst
<1> QED
  BY <1>1, <1>7, <1>8, <1>9 DEF Kept, Next

\* The steps of the programs are calls of the scheduler, but for the calls
\* that only the init programs of B3 and B4 make.
LEMMA KernelKept ==
    ASSUME Configured, Kept, Ctl, [NextKernel]_allVars, RaisesQueued,
           \A p \in Pids : PriorityStep(p) =>
              Preemptive /\ state[numTasks - 1] = "Ready" /\ Arg(p) \in Priorities,
           \A p \in Pids : CollatzAddedStep(p) => blockedTaskForCollatz = NoTask,
           \A p \in Pids : IgnoreStep(p) => Arg(p) \in BOOLEAN,
           \A p \in Pids : ~BlockStep(p)
    PROVE  Kept' /\ EndedKept /\ (Preemptive => DispatchesBest)
<1>1. Base
  BY KeptBase
<1>2. [Next]_vars => Kept' /\ EndedKept /\ (Preemptive => DispatchesBest)
  BY KeptNext
<1>3. CASE UNCHANGED allVars
  <2>1. UNCHANGED vars
    BY <1>3 DEF allVars
  <2> QED
    BY <1>2, <2>1
<1>4. CASE Tick
  BY <1>2, <1>4 DEF Tick, Next
<1>5. ASSUME NEW p \in Pids, Step(p)
      PROVE  Kept' /\ EndedKept /\ (Preemptive => DispatchesBest)
  <2>1. CASE ForkStep(p)
    BY <1>2, <2>1 DEF ForkStep, Next
  <2>2. CASE ForkPidStep(p)
    BY <1>2, <2>2 DEF ForkPidStep, Next
  <2>3. CASE ExecStep(p)
    BY <1>2, <2>3 DEF ExecStep, Next
  <2>4. CASE WaitStep(p)
    BY <1>2, <2>4 DEF WaitStep, Next
  <2>5. CASE AgainStep(p)
    BY <1>2, <2>5 DEF AgainStep
  <2>6. CASE LoadStep(p) \/ StoreStep(p) \/ WorkStep(p)
    BY <1>1, <1>2, <2>6, WorkerCtl
  <2>7. CASE ExitStep(p)
    <3>1. currentTask # InitPid
      BY <1>1, <2>7, ExitCtl, PidRange DEF Base
    <3> QED
      BY <1>2, <2>7, <3>1 DEF ExitStep, Next, ExitNotInit
  <2>8. CASE PriorityStep(p)
    <3>1. PrioritiseNewTask
      BY <2>8 DEF PriorityStep, PrioritiseNewTask, Priorities, Preemptive
    <3> QED
      BY <1>2, <3>1 DEF Next
  <2>9. CASE CollatzAddedStep(p) \/ IgnoreStep(p)
    <3>1. \/ CollatzAdded /\ blockedTaskForCollatz = NoTask
          \/ \E ignore \in BOOLEAN : SetIgnoreSchedule(ignore)
      <4>1. CASE CollatzAddedStep(p)
        BY <4>1 DEF CollatzAddedStep
      <4>2. CASE IgnoreStep(p)
        <5>1. Arg(p) \in BOOLEAN /\ SetIgnoreSchedule(Arg(p))
          BY <4>2 DEF IgnoreStep
        <5> QED
          BY <5>1, Zenon
      <4> QED
        BY <2>9, <4>1, <4>2
    <3>2. /\ Kept' /\ EndedKept /\ UNCHANGED currentTask
          /\ TimerInterrupt => UNCHANGED vars \/ [Next]_vars
      BY <3>1, CollatzCallKept
    <3>3. CASE ~TimerInterrupt
      BY <3>2, <3>3 DEF DispatchesBest
    <3>4. CASE TimerInterrupt
      BY <1>2, <3>2, <3>4
    <3> QED
      BY <3>3, <3>4
  <2> QED
    BY <1>5, <2>1, <2>2, <2>3, <2>4, <2>5, <2>6, <2>7, <2>8, <2>9 DEF Step
<1> QED
  BY <1>3, <1>4, <1>5 DEF NextKernel

\* The scheduler's invariant holds when init starts.
LEMMA InitKernelKept == InitKernel => Kept
<1> SUFFICES ASSUME InitKernel PROVE Kept
  OBVIOUS
<1>1. IInv
  BY InitIInv DEF InitKernel
<1>2. TakenEnded
  BY DEF InitKernel, Init, TakenEnded
<1>3. InOrder
  BY DEF InitKernel, Init, InOrder, Sorted
<1>4. InitFirst
  BY MaxNumTasksAssumption DEF InitKernel, Init, InitFirst, Pids, InitPid, NoTask
<1> QED
  BY <1>1, <1>2, <1>3, <1>4 DEF Kept

-----------------------------------------------------------------------------
(* The init programs that also set priorities: B3 and B4 *)

SetsUp == LifeCycleType \in {"B3", "B4"}
FirstWait == IF LifeCycleType = "B3" THEN 19 ELSE 20

\* Where B3 and B4 make the calls that the other lifecycles do not make.
SetUpLaid(s) ==
    /\ NumForks(s) = 4 /\ Len(s) = FirstWait + 2
    /\ \A i \in 1 .. Len(s) :
         /\ s[i].op = "priority" =>
              \E p \in 1 .. 4 :
                 /\ i = ForkAt(p) + 3
                 /\ s[i].arg = IF LifeCycleType = "B4" /\ p > 1 THEN Medium ELSE Low
         /\ s[i].op = "collatzadded" <=> i = (IF LifeCycleType = "B3" THEN 5 ELSE 6)
         /\ s[i].op = "block" <=> LifeCycleType = "B3" /\ i = 6
         /\ s[i].op = "ignore" <=> LifeCycleType = "B4" /\ i \in {1, 19}
         /\ s[i].op = "ignore" => s[i].arg = (i = 1)
         /\ s[i].op \in WaitOps <=> i >= FirstWait
    /\ \A p \in 1 .. 4 : s[ForkAt(p) + 3].op = "priority"

\* The four forks of B3 and B4.
LEMMA ForkPlaces ==
    SetsUp => /\ ForkAt(1) = IF LifeCycleType = "B3" THEN 1 ELSE 2
              /\ ForkAt(2) = 7 /\ ForkAt(3) = 11 /\ ForkAt(4) = 15
BY LifeCycleAssumption DEF SetsUp, ForkAt

\* What initB3 does between its forks.
LEMMA SetUpPlacesB3 == LifeCycleType = "B3" => SetUpLaid(initB3)
<1> SUFFICES ASSUME LifeCycleType = "B3" PROVE SetUpLaid(initB3)
  OBVIOUS
<1> DEFINE s == initB3
<1>1. NumForks(s) = 4 /\ FirstWait = 19
  BY DEF NumForks, FirstWait
<1>2. ForkAt(1) = 1 /\ ForkAt(2) = 7 /\ ForkAt(3) = 11 /\ ForkAt(4) = 15
  BY DEF ForkAt
<1>3. LayoutB3
  BY initB3Places
<1> HIDE DEF s
<1>4. /\ Len(s) = 21
      /\ s[1].op = "fork" /\ s[2].op = "forkpid" /\ s[3].op = "exec" /\ s[4].op = "priority"
      /\ s[5].op = "collatzadded" /\ s[6].op = "block"
      /\ s[7].op = "fork" /\ s[8].op = "forkpid" /\ s[9].op = "exec" /\ s[10].op = "priority"
      /\ s[11].op = "fork" /\ s[12].op = "forkpid" /\ s[13].op = "exec" /\ s[14].op = "priority"
      /\ s[15].op = "fork" /\ s[16].op = "forkpid" /\ s[17].op = "exec" /\ s[18].op = "priority"
      /\ s[19].op = "wait" /\ s[20].op = "again" /\ s[21].op = "done"
      /\ s[4].arg = Low /\ s[10].arg = Low /\ s[14].arg = Low /\ s[18].arg = Low
  BY <1>2, <1>3 DEF LayoutB3, Instr, s
<1>5. \A i \in 1 .. 21 :
         \/ i = 1 \/ i = 2 \/ i = 3 \/ i = 4 \/ i = 5 \/ i = 6 \/ i = 7
         \/ i = 8 \/ i = 9 \/ i = 10 \/ i = 11 \/ i = 12 \/ i = 13 \/ i = 14
         \/ i = 15 \/ i = 16 \/ i = 17 \/ i = 18 \/ i = 19 \/ i = 20 \/ i = 21
  OBVIOUS
<1>6. \A i \in 1 .. Len(s) :
         /\ s[i].op = "priority" => i \in {4, 10, 14, 18} /\ s[i].arg = Low
         /\ s[i].op = "collatzadded" <=> i = 5
         /\ s[i].op = "block" <=> i = 6
         /\ s[i].op # "ignore"
         /\ s[i].op \in WaitOps <=> i >= 19
  BY <1>4, <1>5 DEF WaitOps
<1>7. \A i \in {4, 10, 14, 18} : \E p \in 1 .. 4 : i = ForkAt(p) + 3
  BY <1>2
<1>8. "B3" # "B4"
  OBVIOUS
<1>9. \A p \in 1 .. 4 : s[ForkAt(p) + 3].op = "priority"
  BY <1>2, <1>4
<1> QED
  BY <1>1, <1>4, <1>6, <1>7, <1>8, <1>9 DEF SetUpLaid, s

\* What initB4 does between its forks.
LEMMA SetUpPlacesB4 == LifeCycleType = "B4" => SetUpLaid(initB4)
<1> SUFFICES ASSUME LifeCycleType = "B4" PROVE SetUpLaid(initB4)
  OBVIOUS
<1> DEFINE s == initB4
<1>1. NumForks(s) = 4 /\ FirstWait = 20
  BY DEF NumForks, FirstWait
<1>2. ForkAt(1) = 2 /\ ForkAt(2) = 7 /\ ForkAt(3) = 11 /\ ForkAt(4) = 15
  BY DEF ForkAt
<1>3. LayoutB4
  BY initB4Places
<1> HIDE DEF s
<1>4. /\ Len(s) = 22
      /\ s[1].op = "ignore" /\ s[1].arg = TRUE
      /\ s[2].op = "fork" /\ s[3].op = "forkpid" /\ s[4].op = "exec" /\ s[5].op = "priority"
      /\ s[6].op = "collatzadded"
      /\ s[7].op = "fork" /\ s[8].op = "forkpid" /\ s[9].op = "exec" /\ s[10].op = "priority"
      /\ s[11].op = "fork" /\ s[12].op = "forkpid" /\ s[13].op = "exec" /\ s[14].op = "priority"
      /\ s[15].op = "fork" /\ s[16].op = "forkpid" /\ s[17].op = "exec" /\ s[18].op = "priority"
      /\ s[19].op = "ignore" /\ s[19].arg = FALSE
      /\ s[20].op = "wait" /\ s[21].op = "again" /\ s[22].op = "done"
      /\ s[5].arg = Low /\ s[10].arg = Medium /\ s[14].arg = Medium /\ s[18].arg = Medium
  BY <1>2, <1>3 DEF LayoutB4, Instr, s
<1>5. \A i \in 1 .. 22 :
         \/ i = 1 \/ i = 2 \/ i = 3 \/ i = 4 \/ i = 5 \/ i = 6 \/ i = 7
         \/ i = 8 \/ i = 9 \/ i = 10 \/ i = 11 \/ i = 12 \/ i = 13 \/ i = 14
         \/ i = 15 \/ i = 16 \/ i = 17 \/ i = 18 \/ i = 19 \/ i = 20 \/ i = 21
         \/ i = 22
  OBVIOUS
<1>6. \A i \in 1 .. Len(s) :
         /\ s[i].op = "priority" =>
              \/ i = 5 /\ s[i].arg = Low
              \/ i \in {10, 14, 18} /\ s[i].arg = Medium
         /\ s[i].op = "collatzadded" <=> i = 6
         /\ s[i].op # "block"
         /\ s[i].op = "ignore" <=> i \in {1, 19}
         /\ s[i].op \in WaitOps <=> i >= 20
  BY <1>4, <1>5 DEF WaitOps
<1>7. \A i \in 1 .. Len(s) : s[i].op = "ignore" => s[i].arg = (i = 1)
  <2> SUFFICES ASSUME NEW i \in 1 .. Len(s), s[i].op = "ignore"
               PROVE  s[i].arg = (i = 1)
    OBVIOUS
  <2>1. i = 1 \/ i = 19
    BY <1>6
  <2> QED
    BY <1>4, <2>1
<1>8. \A i \in 1 .. Len(s) : s[i].op = "priority" =>
         \E p \in 1 .. 4 : i = ForkAt(p) + 3
                           /\ s[i].arg = IF p > 1 THEN Medium ELSE Low
  <2> SUFFICES ASSUME NEW i \in 1 .. Len(s), s[i].op = "priority"
               PROVE  \E p \in 1 .. 4 : i = ForkAt(p) + 3
                           /\ s[i].arg = IF p > 1 THEN Medium ELSE Low
    OBVIOUS
  <2>1. CASE i = 5 /\ s[i].arg = Low
    BY <1>2, <2>1
  <2>2. CASE i \in {10, 14, 18} /\ s[i].arg = Medium
    BY <1>2, <2>2
  <2> QED
    BY <1>6, <2>1, <2>2
<1>9. "B3" # "B4"
  OBVIOUS
<1>10. \A p \in 1 .. 4 : s[ForkAt(p) + 3].op = "priority"
  BY <1>2, <1>4
<1> QED
  BY <1>1, <1>4, <1>6, <1>7, <1>8, <1>9, <1>10 DEF SetUpLaid, s

\* What either does.
LEMMA SetUpScript ==
    ASSUME SetsUp, NEW s \in Scripts
    PROVE  SetUpLaid(s)
<1>1. CASE LifeCycleType = "B3"
  BY <1>1, SetUpPlacesB3 DEF Scripts
<1>2. CASE LifeCycleType = "B4"
  BY <1>2, SetUpPlacesB4 DEF Scripts
<1> QED
  BY <1>1, <1>2 DEF SetsUp

-----------------------------------------------------------------------------
(* What the steps leave alone *)

\* Where the program counter of init is after its instruction.
InitMoves ==
    \/ pc'[InitPid] = pc[InitPid] + 1
    \/ InitOp = "fork" /\ pc'[InitPid] = pc[InitPid] /\ UNCHANGED <<numTasks, priority>>
    \/ InitOp = "again" /\ pc'[InitPid] = pc[InitPid] - 1

\* One instruction of the init program: what it sets up for the scheduler.
LEMMA InitStepSets ==
    ASSUME Configured, Base, Ctl, Step(InitPid)
    PROVE  /\ ran' = ran /\ prog' = prog /\ InitMoves /\ InitPid = currentTask
           /\ InitOp # "fork" => numTasks' = numTasks
           /\ InitOp = "fork" => numTasks' \in {numTasks, numTasks + 1}
           /\ InitOp \notin {"fork", "priority"} => priority' = priority
           /\ InitOp = "fork" =>
                \A p \in Pids : p < numTasks => priority'[p] = priority[p]
           /\ InitOp = "priority" =>
                priority' = [priority EXCEPT ![numTasks - 1] = script[pc[InitPid]].arg]
           /\ InitOp # "collatzadded" =>
                UNCHANGED <<interruptNumAfterCollatz, collatzTask>>
           /\ InitOp = "collatzadded" =>
                interruptNumAfterCollatz' = 0 /\ collatzTask' = numTasks - 1
           /\ InitOp # "block" => UNCHANGED blockedTaskForCollatz
           /\ InitOp # "ignore" => UNCHANGED ignoreSchedule
           /\ InitOp = "ignore" => ignoreSchedule' = script[pc[InitPid]].arg
           /\ InitOp \notin {"load", "store", "work", "exit"}
<1>1. /\ InitPid \in Pids /\ pc \in [Pids -> Nat] /\ numTasks \in Nat
      /\ prog[InitPid] = "init" /\ priority \in [Pids -> {High, Medium, Low}]
      /\ numTasks \in 1 .. MaxNumTasks
      /\ InitOp \in SpawnOps \cup SetUpOps \cup WaitOps
  <2>1. /\ InitPid \in Pids /\ numTasks \in Nat /\ numTasks <= MaxNumTasks /\ numTasks >= 1
        /\ MaxNumTasks \in Nat
    BY PidRange, MaxNumTasksAssumption DEF Base
  <2>2. priority \in [Pids -> {High, Medium, Low}]
    BY DEF Base, TypeOK
  <2>3. /\ pc \in [Pids -> Nat] /\ prog[InitPid] = "init" /\ UserTyped
        /\ pc[InitPid] \in 1 .. Len(script)
    BY DEF Ctl, InitCtl, UserTyped
  <2>4. InitOp \in SpawnOps \cup SetUpOps \cup WaitOps
    BY <2>3, CtlScript DEF InitOp
  <2> QED
    BY <2>1, <2>2, <2>3, <2>4
<1>2. \A op : At(InitPid, op) =>
         InitOp = op /\ Arg(InitPid) = script[pc[InitPid]].arg /\ InitPid = currentTask
  BY RoleOfInit DEF At
<1>3. CASE ForkStep(InitPid)
  <2>1. InitOp = "fork" /\ InitPid = currentTask
    BY <1>2, <1>3 DEF ForkStep
  <2>2. CASE HasFreeSlot
    <3>1. pc' = [pc EXCEPT ![InitPid] = pc[InitPid] + 1, ![numTasks] = pc[InitPid] + 1]
      BY <1>3, <2>2 DEF ForkStep
    <3>2. numTasks \in Pids
      BY <1>1, <2>2, MaxNumTasksAssumption DEF HasFreeSlot, Pids
    <3>3. pc'[InitPid] = pc[InitPid] + 1
      BY <1>1, <3>1, <3>2
    <3>4. /\ numTasks' = numTasks + 1
          /\ priority' = [priority EXCEPT ![numTasks] = priority[currentTask]]
          /\ UNCHANGED collatzVars
      BY <1>3, <2>2 DEF ForkStep, Fork
    <3>5. \A p \in Pids : p < numTasks => priority'[p] = priority[p]
      BY <1>1, <3>4
    <3> QED
      BY <1>3, <2>1, <3>3, <3>4, <3>5 DEF ForkStep, InitMoves, collatzVars
  <2>3. CASE ~HasFreeSlot
    BY <1>3, <2>1, <2>3 DEF ForkStep, Fork, InitMoves, collatzVars
  <2> QED
    BY <2>2, <2>3
<1>4. CASE ForkPidStep(InitPid)
  <2>1. InitOp = "forkpid" /\ InitPid = currentTask
    BY <1>2, <1>4 DEF ForkPidStep
  <2>2. pc'[InitPid] = pc[InitPid] + 1
    BY <1>1, <1>4 DEF ForkPidStep, Continue, GoTo
  <2> QED
    BY <1>4, <2>1, <2>2 DEF ForkPidStep, ForkPid, InitMoves, collatzVars, Continue, GoTo
<1>5. CASE ExecStep(InitPid)
  <2>1. InitOp = "exec" /\ InitPid = currentTask
    BY <1>2, <1>5 DEF ExecStep
  <2>2. eax[InitPid] # 0
    BY <2>1 DEF Ctl, InitCtl
  <2>3. Continue(InitPid) /\ UNCHANGED vars
    BY <1>5, <2>2 DEF ExecStep
  <2>4. pc'[InitPid] = pc[InitPid] + 1
    BY <1>1, <2>3 DEF Continue, GoTo
  <2> QED
    BY <2>1, <2>3, <2>4 DEF vars, InitMoves, Continue, GoTo
<1>6. CASE PriorityStep(InitPid)
  <2>1. InitOp = "priority" /\ InitPid = currentTask /\ Arg(InitPid) = script[pc[InitPid]].arg
    BY <1>2, <1>6 DEF PriorityStep
  <2>2. pc'[InitPid] = pc[InitPid] + 1
    BY <1>1, <1>6 DEF PriorityStep, Continue, GoTo
  <2> QED
    BY <1>6, <2>1, <2>2 DEF PriorityStep, SetLastTaskPriority, InitMoves, collatzVars,
       Continue, GoTo
<1>7. CASE CollatzAddedStep(InitPid)
  <2>1. InitOp = "collatzadded" /\ InitPid = currentTask
    BY <1>2, <1>7 DEF CollatzAddedStep
  <2>2. pc'[InitPid] = pc[InitPid] + 1
    BY <1>1, <1>7 DEF CollatzAddedStep, Continue, GoTo
  <2> QED
    BY <1>7, <2>1, <2>2 DEF CollatzAddedStep, CollatzAdded, InitMoves, Continue, GoTo
<1>8. CASE BlockStep(InitPid)
  <2>1. InitOp = "block" /\ InitPid = currentTask
    BY <1>2, <1>8 DEF BlockStep
  <2>2. pc'[InitPid] = pc[InitPid] + 1
    BY <1>1, <1>8 DEF BlockStep, Continue, GoTo
  <2> QED
    BY <1>8, <2>1, <2>2 DEF BlockStep, BlockForCollatz, InitMoves, Continue, GoTo
<1>9. CASE IgnoreStep(InitPid)
  <2>1. InitOp = "ignore" /\ InitPid = currentTask /\ Arg(InitPid) = script[pc[InitPid]].arg
    BY <1>2, <1>9 DEF IgnoreStep
  <2>2. pc'[InitPid] = pc[InitPid] + 1
    BY <1>1, <1>9 DEF IgnoreStep, Continue, GoTo
  <2> QED
    BY <1>9, <2>1, <2>2 DEF IgnoreStep, SetIgnoreSchedule, InitMoves, Continue, GoTo
<1>10. CASE WaitStep(InitPid)
  <2>1. InitOp = "wait" /\ InitPid = currentTask
    BY <1>2, <1>10 DEF WaitStep
  <2>2. pc'[InitPid] = pc[InitPid] + 1
    BY <1>1, <1>10 DEF WaitStep, Continue, GoTo
  <2> QED
    BY <1>10, <2>1, <2>2 DEF WaitStep, Waitpid, InitMoves, collatzVars, Continue, GoTo
<1>11. CASE AgainStep(InitPid)
  <2>1. InitOp = "again" /\ InitPid = currentTask
    BY <1>2, <1>11 DEF AgainStep
  <2>2. pc'[InitPid] = pc[InitPid] + 1 \/ pc'[InitPid] = pc[InitPid] - 1
    BY <1>1, <1>11 DEF AgainStep, GoTo
  <2> QED
    BY <1>11, <2>1, <2>2 DEF AgainStep, vars, InitMoves, GoTo
<1>12. CASE LoadStep(InitPid) \/ StoreStep(InitPid) \/ WorkStep(InitPid) \/ ExitStep(InitPid)
  <2>1. InitOp \in {"load", "store", "work", "exit"}
    BY <1>2, <1>12 DEF LoadStep, StoreStep, WorkStep, ExitStep
  <2> QED
    BY <1>1, <2>1 DEF SpawnOps, SetUpOps, WaitOps
<1> QED
  BY <1>3, <1>4, <1>5, <1>6, <1>7, <1>8, <1>9, <1>10, <1>11, <1>12 DEF Step

\* A step of a forked task leaves init and the preparations alone.
LEMMA ChildStepSets ==
    ASSUME Configured, Base, Ctl, NEW p \in 1 .. numTasks - 1, Step(p)
    PROVE  /\ ran' = ran /\ pc'[InitPid] = pc[InitPid] /\ p = currentTask
           /\ UNCHANGED <<numTasks, priority, interruptNumAfterCollatz,
                          blockedTaskForCollatz, ignoreSchedule>>
           /\ blockedTaskForCollatz = NoTask => UNCHANGED collatzTask
           /\ \A r \in Pids : r # p => prog'[r] = prog[r]
<1>1. /\ p \in Pids /\ InitPid \in Pids /\ p # InitPid /\ pc \in [Pids -> Nat]
      /\ prog \in [Pids -> Programs \cup {"init"}]
  BY PidRange DEF Base, Ctl, UserTyped
<1>2. \A op : At(p, op) => p = currentTask /\ op \in {"forkpid", "exec", "load", "store", "work", "exit"}
  BY RoleOfChild DEF At
<1>3. CASE ForkPidStep(p)
  BY <1>1, <1>2, <1>3 DEF ForkPidStep, ForkPid, collatzVars, Continue, GoTo
<1>4. CASE ExecStep(p)
  <2>1. p = currentTask /\ ran' = ran
    BY <1>2, <1>4 DEF ExecStep, Continue, GoTo
  <2>2. UNCHANGED <<numTasks, priority, collatzVars>>
    BY <1>4 DEF ExecStep, Execve, vars, collatzVars
  <2>3. pc'[InitPid] = pc[InitPid]
    BY <1>1, <1>4 DEF ExecStep, Continue, GoTo
  <2>4. \A r \in Pids : r # p => prog'[r] = prog[r]
    BY <1>1, <1>4 DEF ExecStep, Continue, GoTo
  <2> QED
    BY <2>1, <2>2, <2>3, <2>4 DEF collatzVars
<1>5. CASE LoadStep(p) \/ StoreStep(p) \/ WorkStep(p)
  <2>1. p = currentTask /\ ran' = ran /\ UNCHANGED vars /\ prog' = prog
    BY <1>2, <1>5 DEF LoadStep, StoreStep, WorkStep, Continue, GoTo
  <2>2. pc'[InitPid] = pc[InitPid]
    BY <1>1, <1>5 DEF LoadStep, StoreStep, WorkStep, Continue, GoTo
  <2> QED
    BY <2>1, <2>2 DEF vars
<1>6. CASE ExitStep(p)
  <2>1. p = currentTask /\ UNCHANGED userVars /\ Exit
    BY <1>2, <1>6 DEF ExitStep
  <2>2. /\ UNCHANGED <<numTasks, priority, interruptNumAfterCollatz,
                       blockedTaskForCollatz, ignoreSchedule>>
        /\ blockedTaskForCollatz = NoTask => UNCHANGED collatzTask
    BY <2>1 DEF Exit, ResumesBlocked
  <2> QED
    BY <2>1, <2>2 DEF userVars
<1>7. CASE \/ ForkStep(p) \/ PriorityStep(p) \/ CollatzAddedStep(p) \/ BlockStep(p)
           \/ IgnoreStep(p) \/ WaitStep(p) \/ AgainStep(p)
  <2>1. \E op \in {"fork", "priority", "collatzadded", "block", "ignore", "wait", "again"} :
           At(p, op)
    BY <1>7 DEF ForkStep, PriorityStep, CollatzAddedStep, BlockStep, IgnoreStep, WaitStep,
       AgainStep
  <2> QED
    BY <1>2, <2>1
<1> QED
  BY <1>3, <1>4, <1>5, <1>6, <1>7 DEF Step

\* Only init and the tasks it has forked make steps.
LEMMA StepsAre ==
    ASSUME Base, NEW p \in Pids, Step(p)
    PROVE  p = currentTask /\ (p = InitPid \/ p \in 1 .. numTasks - 1)
<1>1. PICK op : At(p, op)
  BY DEF Step, ForkStep, ForkPidStep, ExecStep, PriorityStep, CollatzAddedStep, BlockStep,
     IgnoreStep, WaitStep, AgainStep, LoadStep, StoreStep, WorkStep, ExitStep
<1> QED
  BY <1>1, CallerIs

\* A tick leaves the programs alone, but for the time counted at work.
LEMMA TickSets ==
    ASSUME Base, Ctl, Tick
    PROVE  /\ pc' = pc /\ prog' = prog /\ numTasks' = numTasks
           /\ UNCHANGED <<collatzTask, ignoreSchedule>>
           /\ interruptNumAfterCollatz' = TicksCounted
           /\ ~(LifeCycleType = "B4" /\ ignoreSchedule)
           /\ ~AtFifthInterrupt("B4") => priority' = priority
           /\ ~AtFifthInterrupt("B3") => UNCHANGED blockedTaskForCollatz
           /\ blockedTaskForCollatz' \in {blockedTaskForCollatz, NoTask}
           /\ \A p \in Pids : p = InitPid \/ p # currentTask => ran'[p] = ran[p]
           /\ \A p \in Pids : ran'[p] \in {ran[p], ran[p] + 1}
<1>1. TimerInterrupt /\ UNCHANGED <<script, prog, pc>>
  BY DEF Tick
<1>2. /\ numTasks' = numTasks
      /\ UNCHANGED <<collatzTask, ignoreSchedule>>
      /\ interruptNumAfterCollatz' = TicksCounted
      /\ ~(LifeCycleType = "B4" /\ ignoreSchedule)
      /\ RaiseCollatz \/ ResumeBlocked \/ PlainTick
  BY <1>1 DEF TimerInterrupt
<1>3. /\ ~AtFifthInterrupt("B4") => priority' = priority
      /\ ~AtFifthInterrupt("B3") => UNCHANGED blockedTaskForCollatz
      /\ blockedTaskForCollatz' \in {blockedTaskForCollatz, NoTask}
  BY <1>2 DEF RaiseCollatz, ResumeBlocked, PlainTick
<1>4. prog[InitPid] = "init"
  BY DEF Ctl, InitCtl
<1>5. \A p \in Pids : p = InitPid \/ p # currentTask => ran'[p] = ran[p]
  BY <1>4 DEF Tick, AtWork
<1>6. \A p \in Pids : ran'[p] \in {ran[p], ran[p] + 1}
  BY DEF Tick
<1> QED
  BY <1>1, <1>2, <1>3, <1>5, <1>6

-----------------------------------------------------------------------------
(* Init prepares the lifecycle before any other task runs *)

\* In B3 and B4 a program is at work for more than five interrupts.
LongDelays ==
    SetsUp => /\ MinTicks \in [Programs -> Nat]
              /\ \A a \in Programs : MinTicks[a] >= FifthInterrupt

\* Until it waits, init is the task that runs.
LEMMA InitRuns ==
    ASSUME Kept, Ctl, Preemptive, currentTask # NoTask, InitOp # "again"
    PROVE  currentTask = InitPid
<1>1. InitPid \in Pids /\ InitPid < numTasks
  BY KeptBase, PidRange DEF Base
<1>2. state[InitPid] # "Ready" /\ state[InitPid] # "Terminated"
  BY DEF Kept, InitFirst, IInv, InitLives
<1>3. state[InitPid] # "Free"
  <2>1. state[InitPid] = "Free" <=> InitPid >= numTasks
    BY <1>1 DEF Kept, IInv, SlotsInOrder
  <2>2. numTasks \in Nat
    BY KeptBase, PidRange DEF Base
  <2> QED
    BY <1>1, <2>1, <2>2 DEF InitPid
<1>4. state[InitPid] # "Blocked"
  BY <1>1 DEF Ctl, InitCtl, Kept, IInv, WaitersExact
<1>5. state[InitPid] \in States
  BY <1>1 DEF Kept, IInv, TypeOK, States
<1>6. state[InitPid] = "Running" <=> InitPid = currentTask
  BY <1>1 DEF Kept, IInv, RunningExact
<1> QED
  BY <1>2, <1>3, <1>4, <1>5, <1>6 DEF States

\* A task that has not done its work is in the queue or on the CPU.
LEMMA ChildAlive ==
    ASSUME Kept, Ctl, NEW p \in 1 .. numTasks - 1,
           prog[p] = "init" \/ ran[p] < MinTicks[prog[p]],
           MinTicks \in [Programs -> Nat]
    PROVE  p # currentTask => state[p] = "Ready"
<1>1. p \in Pids /\ p < numTasks /\ numTasks \in Nat /\ p \in Nat
  BY KeptBase, PidRange DEF Base
<1>2. state[p] # "Free"
  <2>1. state[p] = "Free" <=> p >= numTasks
    BY <1>1 DEF Kept, IInv, SlotsInOrder
  <2> QED
    BY <1>1, <2>1
<1>3. ChildCtl(p) /\ ran[p] \in Nat /\ prog[p] \in Programs \cup {"init"}
  BY <1>1 DEF Ctl, UserTyped
<1>4. state[p] # "Blocked"
  BY <1>1, <1>3 DEF ChildCtl, Kept, IInv, WaitersExact
<1>5. state[p] # "Terminated"
  <2>1. CASE prog[p] = "init"
    BY <1>3, <2>1 DEF ChildCtl
  <2>2. CASE prog[p] # "init"
    <3>1. MinTicks[prog[p]] \in Nat /\ ran[p] < MinTicks[prog[p]]
      BY <1>3, <2>2
    <3>2. state[p] = "Terminated" => ran[p] >= MinTicks[prog[p]]
      BY <1>3, <2>2 DEF ChildCtl
    <3> QED
      BY <1>3, <3>1, <3>2
  <2> QED
    BY <2>1, <2>2
<1>6. state[p] \in States
  BY <1>1 DEF Kept, IInv, TypeOK, States
<1>7. state[p] = "Running" <=> p = currentTask
  BY <1>1 DEF Kept, IInv, RunningExact
<1> QED
  BY <1>2, <1>4, <1>5, <1>6, <1>7 DEF States

\* What the program counter of init says in B3 and B4.
SetUpAt ==
    /\ SetUpLaid(script) /\ WellLaid(script) /\ NumForks(script) = 4
    /\ pc[InitPid] \in 1 .. FirstWait + 2 /\ pc[InitPid] \in Nat
    /\ FirstWait \in {19, 20} /\ numTasks \in 1 .. 5
    /\ InitOp \in WaitOps <=> pc[InitPid] >= FirstWait
    /\ pc[InitPid] = FirstWait <=> InitOp = "wait"
    /\ InitOp = "again" => pc[InitPid] = FirstWait + 1
    /\ InitOp = "done" => pc[InitPid] = FirstWait + 2
    /\ \A p \in 1 .. 4 : p < numTasks <=> ForkAt(p) < pc[InitPid]
    /\ Preemptive

\* Where the program counter of init is while it prepares B3 or B4.
LEMMA SettingUp ==
    ASSUME Configured, SetsUp, Ctl, Base
    PROVE  SetUpAt
<1>1. SetUpLaid(script) /\ script \in Scripts
  BY SetUpScript DEF Ctl, UserTyped
<1>2. WellLaid(script)
  BY CtlScript DEF Ctl
<1>3. NumForks(script) = 4 /\ Len(script) = FirstWait + 2
  BY <1>1 DEF SetUpLaid
<1>4. FirstWait \in {19, 20}
  BY DEF FirstWait
<1>5. pc[InitPid] \in 1 .. Len(script)
  BY DEF Ctl, InitCtl
<1>6. InitOp \in WaitOps <=> pc[InitPid] >= FirstWait
  BY <1>1, <1>5 DEF SetUpLaid, InitOp
<1>7. /\ script[FirstWait].op = "wait" /\ script[FirstWait + 1].op = "again"
      /\ script[FirstWait + 2].op = "done"
  <2>1. /\ script[Len(script) - 2].op = "wait"
        /\ script[Len(script) - 1].op = "again"
        /\ script[Len(script)].op = "done"
    BY <1>2 DEF WellLaid
  <2>2. Len(script) - 2 = FirstWait /\ Len(script) - 1 = FirstWait + 1
    BY <1>3, <1>4
  <2> QED
    BY <1>3, <2>1, <2>2
<1>8. numTasks \in 1 .. 5
  <2>1. numTasks \in Nat /\ numTasks >= 1
    BY PidRange DEF Base
  <2>2. numTasks - 1 <= 4
    BY <1>3 DEF Ctl, InitCtl
  <2> QED
    BY <2>1, <2>2
<1>9. \A p \in 1 .. 4 : p < numTasks <=> ForkAt(p) < pc[InitPid]
  BY <1>3 DEF Ctl, InitCtl
<1>10. /\ pc[InitPid] = FirstWait <=> InitOp = "wait"
       /\ InitOp = "again" => pc[InitPid] = FirstWait + 1
       /\ InitOp = "done" => pc[InitPid] = FirstWait + 2
  <2>1. pc[InitPid] < FirstWait => InitOp \notin {"wait", "again", "done"}
    BY <1>3, <1>4, <1>5, <1>6 DEF WaitOps
  <2>2. pc[InitPid] >= FirstWait =>
          pc[InitPid] = FirstWait \/ pc[InitPid] = FirstWait + 1 \/ pc[InitPid] = FirstWait + 2
    BY <1>3, <1>4, <1>5
  <2> QED
    BY <1>4, <1>5, <1>7, <2>1, <2>2 DEF InitOp
<1>11. Preemptive
  BY LifeCycleAssumption DEF SetsUp, Preemptive
<1> QED
  BY <1>1, <1>2, <1>3, <1>4, <1>5, <1>6, <1>8, <1>9, <1>10, <1>11 DEF SetUpAt

\* SettingUp for a state and, in the next lemma, for the next one.
LEMMA SettingUpAlways == Configured /\ SetsUp /\ Ctl /\ Base => SetUpAt
BY SettingUp

\* SettingUp in the next state.
LEMMA SettingUpNext == (Configured /\ SetsUp /\ Ctl /\ Base)' => SetUpAt'
BY SettingUpAlways, PTL

\* No task that init has just forked runs before init has prepared it.
Fresh ==
    \A p \in 1 .. numTasks - 1 :
        pc[InitPid] <= ForkAt(p) + 3 \/ pc[InitPid] <= 6 => prog[p] = "init"

\* It keeps being so: init runs alone until it has prepared them.
LEMMA FreshStep ==
    ASSUME Configured, SetsUp, Kept, Ctl, Ctl', Base', Fresh, [NextKernel]_allVars
    PROVE  Fresh'
<1>1. Base
  BY KeptBase
<1>2. /\ pc[InitPid] \in 1 .. FirstWait + 2 /\ FirstWait \in {19, 20}
      /\ numTasks \in 1 .. 5 /\ Preemptive
      /\ InitOp = "again" => pc[InitPid] = FirstWait + 1
  BY <1>1, SettingUp DEF SetUpAt
<1>3. \A p \in 1 .. 4 : ForkAt(p) \in 1 .. 15
  BY ForkPlaces
<1>4. CASE UNCHANGED allVars
  BY <1>4 DEF allVars, vars, userVars, Fresh
<1>5. CASE Tick
  BY <1>1, <1>5, TickSets DEF Fresh
<1>6. ASSUME NEW p \in Pids, Step(p) PROVE Fresh'
  <2>1. p = currentTask /\ (p = InitPid \/ p \in 1 .. numTasks - 1)
    BY <1>1, <1>6, StepsAre
  <2>2. CASE p \in 1 .. numTasks - 1
    <3>1. /\ pc'[InitPid] = pc[InitPid] /\ numTasks' = numTasks
      BY <1>1, <1>6, <2>2, ChildStepSets
    <3>2. InitOp = "again"
      <4>1. p # InitPid /\ p # NoTask
        BY <2>2 DEF InitPid, NoTask
      <4> QED
        BY <1>2, <2>1, <4>1, InitRuns
    <3>3. pc'[InitPid] > 19
      BY <1>2, <3>1, <3>2
    <3> QED
      BY <1>2, <1>3, <3>1, <3>3 DEF Fresh
  <2>3. CASE p = InitPid
    <3>1. /\ prog' = prog /\ InitMoves
          /\ InitOp # "fork" => numTasks' = numTasks
          /\ InitOp = "fork" => numTasks' \in {numTasks, numTasks + 1}
      BY <1>1, <1>6, <2>3, InitStepSets
    <3>2. pc[InitPid] <= pc'[InitPid] \/ pc'[InitPid] >= 19
      BY <1>2, <3>1 DEF InitMoves
    <3>4. numTasks' \in 1 .. 5
      <4>1. SetUpAt'
        BY SettingUpNext DEF Configured, SetsUp
      <4> QED
        BY <4>1 DEF SetUpAt
    <3>5. pc'[InitPid] \in Nat
      BY <1>1, PidRange DEF Ctl, UserTyped, Base
    <3>6. numTasks' <= MaxNumTasks
      BY DEF Base, TypeOK
    <3>3. ASSUME NEW r \in 1 .. numTasks' - 1,
                 pc'[InitPid] <= ForkAt(r) + 3 \/ pc'[InitPid] <= 6
          PROVE  prog'[r] = "init"
      <4>1. numTasks' \in 1 .. 5 /\ pc'[InitPid] \in Nat
        BY <3>4, <3>5
      <4>6a. r \in 1 .. 4 /\ r <= MaxNumTasks - 1
        <5>1. PICK n \in 1 .. 5 : n = numTasks'
          BY <3>4
        <5>2. r \in 1 .. n - 1 /\ n <= MaxNumTasks
          BY <3>6, <5>1
        <5> QED
          BY <5>2, MaxNumTasksAssumption
      <4>2. ForkAt(r) \in 1 .. 15
        BY <1>3, <4>6a
      <4>3. pc[InitPid] <= pc'[InitPid]
        BY <3>2, <3>3, <4>1, <4>2
      <4>4. pc[InitPid] <= ForkAt(r) + 3 \/ pc[InitPid] <= 6
        BY <1>2, <3>3, <4>1, <4>2, <4>3
      <4>5. CASE r < numTasks
        BY <1>2, <3>1, <4>4, <4>5 DEF Fresh
      <4>6. CASE r >= numTasks
        <5>1. r \in Pids
          BY <4>6a, MaxNumTasksAssumption DEF Pids
        <5>2. prog[r] = "init"
          BY <4>6, <5>1 DEF Ctl, UnusedCtl
        <5> QED
          BY <3>1, <5>2
      <4> QED
        BY <1>2, <4>5, <4>6
    <3> QED
      BY <3>3 DEF Fresh
  <2> QED
    BY <2>1, <2>2, <2>3
<1> QED
  BY <1>4, <1>5, <1>6 DEF NextKernel

-----------------------------------------------------------------------------
(* The count to the fifth interrupt *)

\* B3: init blocks itself once it has told the scheduler which task is collatz.
CountB3 ==
    LifeCycleType = "B3" =>
        /\ pc[InitPid] <= 6 => blockedTaskForCollatz = NoTask
        /\ pc[InitPid] = 6 => collatzTask = 1 /\ interruptNumAfterCollatz >= 0

\* B4 has made each task that it has forked less urgent than itself, and
\* collatz less urgent than the others.
OthersFirst ==
    \A p \in 1 .. 4 : pc[InitPid] > ForkAt(p) + 3 =>
        priority[p] = IF p > 1 THEN Medium ELSE Low

\* No task has been at work for longer than the count.
WorkCounted == \A p \in Pids : ran[p] = 0 \/ ran[p] <= interruptNumAfterCollatz

\* B4: the count begins behind the critical region, with collatz less urgent
\* than the others, and no work ends before the fifth interrupt.
CountB4 ==
    LifeCycleType = "B4" =>
        /\ blockedTaskForCollatz = NoTask
        /\ pc[InitPid] <= 6 <=> interruptNumAfterCollatz = -1
        /\ pc[InitPid] > 6 => collatzTask = 1
        /\ pc[InitPid] \in 7 .. 19 => interruptNumAfterCollatz = 0
        /\ ignoreSchedule <=> pc[InitPid] \in 2 .. 19
        /\ interruptNumAfterCollatz < FifthInterrupt =>
             currentTask # 1 /\ OthersFirst /\ WorkCounted

\* What holds of the lifecycles except while B3 is blocked for collatz.
Normal ==
    /\ Kept /\ Ctl
    /\ ~SetsUp => Uncounted
    /\ SetsUp => Fresh
    /\ CountB3
    /\ CountB4

\* The count of interrupts, and what a tick makes of it.
LEMMA CounterTyped ==
    ASSUME TypeOK
    PROVE  /\ interruptNumAfterCollatz \in -1 .. 6
           /\ TicksCounted = IF interruptNumAfterCollatz \in {-1, 6}
                             THEN interruptNumAfterCollatz
                             ELSE interruptNumAfterCollatz + 1
BY DEF TypeOK, CounterBound, FifthInterrupt, TicksCounted

\* The task init has just forked, whose priority it sets.
LEMMA LastForked ==
    ASSUME SetsUp, SetUpAt, NEW q \in 1 .. 4, pc[InitPid] = ForkAt(q) + 3
    PROVE  numTasks = q + 1
<1>1. /\ pc[InitPid] \in Nat /\ numTasks \in 1 .. 5
      /\ \A p \in 1 .. 4 : p < numTasks <=> ForkAt(p) < pc[InitPid]
  BY DEF SetUpAt
<1>2. /\ ForkAt(1) \in {1, 2} /\ ForkAt(2) = 7 /\ ForkAt(3) = 11 /\ ForkAt(4) = 15
  BY ForkPlaces
<1>3. /\ 1 < numTasks <=> ForkAt(1) < pc[InitPid]
      /\ 2 < numTasks <=> 7 < pc[InitPid]
      /\ 3 < numTasks <=> 11 < pc[InitPid]
      /\ 4 < numTasks <=> 15 < pc[InitPid]
  BY <1>1, <1>2
<1>4. q = 1 \/ q = 2 \/ q = 3 \/ q = 4
  OBVIOUS
<1> QED
  BY <1>1, <1>2, <1>3, <1>4

\* Collatz is in the queue when the scheduler raises it.
LEMMA CollatzQueued ==
    ASSUME Configured, LongDelays, Normal
    PROVE  RaisesQueued
<1>1. CASE ~SetsUp
  BY <1>1, NoFifthInterrupt DEF Normal
<1>2. CASE LifeCycleType = "B3"
  BY <1>2 DEF RaisesQueued, AtFifthInterrupt
<1>3. CASE LifeCycleType = "B4"
  <2>1. SetsUp /\ Base /\ TypeOK
    BY <1>3, KeptBase DEF SetsUp, Normal, Base
  <2>2. SetUpAt
    BY <2>1, SettingUp DEF Normal
  <2> SUFFICES ASSUME TicksCounted = FifthInterrupt
               PROVE  collatzTask \in Pids /\ state[collatzTask] = "Ready"
    BY <1>3 DEF RaisesQueued, AtFifthInterrupt
  <2>3. interruptNumAfterCollatz = 4
    BY <2>1, CounterTyped DEF FifthInterrupt
  <2>4. /\ collatzTask = 1 /\ pc[InitPid] > 19 /\ currentTask # 1
        /\ \A p \in Pids : ran[p] = 0 \/ ran[p] <= 4
    BY <1>3, <2>2, <2>3 DEF Normal, CountB4, FifthInterrupt, SetUpAt, WorkCounted
  <2>5. 1 < numTasks
    <3>1. ForkAt(1) = 2
      BY <1>3 DEF ForkAt
    <3> QED
      BY <2>2, <2>4, <3>1 DEF SetUpAt
  <2>6. 1 \in 1 .. numTasks - 1 /\ 1 \in Pids
    <3>1. numTasks \in Nat
      BY <2>2 DEF SetUpAt
    <3>2. 1 \in 1 .. numTasks - 1
      BY <2>5, <3>1
    <3> QED
      BY <2>1, <3>2, PidRange DEF Base
  <2>7. prog[1] = "init" \/ ran[1] < MinTicks[prog[1]]
    <3>1. prog[1] # "init" => prog[1] \in Programs
      BY <2>6 DEF Normal, Ctl, UserTyped
    <3>2. prog[1] # "init" => MinTicks[prog[1]] \in Nat /\ MinTicks[prog[1]] >= 5
      BY <2>1, <3>1 DEF LongDelays, FifthInterrupt
    <3>3. ran[1] \in Nat
      BY <2>6 DEF Normal, Ctl, UserTyped
    <3> QED
      BY <2>4, <2>6, <3>2, <3>3
  <2>8. state[1] = "Ready"
    BY <2>1, <2>4, <2>6, <2>7, ChildAlive DEF Normal, LongDelays
  <2> QED
    BY <2>4, <2>6, <2>8
<1> QED
  BY <1>1, <1>2, <1>3 DEF SetsUp

\* What init is at when it makes the calls of B3 and B4.
SetUpCall(p) ==
    /\ PriorityStep(p) =>
         Preemptive /\ state[numTasks - 1] = "Ready" /\ Arg(p) \in Priorities
    /\ CollatzAddedStep(p) => blockedTaskForCollatz = NoTask
    /\ IgnoreStep(p) => Arg(p) \in BOOLEAN
    /\ BlockStep(p) => LifeCycleType = "B3" /\ pc[InitPid] = 6

\* The calls that init makes in B3 and B4 come when the scheduler expects them.
LEMMA SetUpCalls ==
    ASSUME Configured, LongDelays, Normal, NEW p \in Pids
    PROVE  SetUpCall(p)
<1>1. Base /\ Ctl /\ Kept
  BY KeptBase DEF Normal
<1> SUFFICES ASSUME PriorityStep(p) \/ CollatzAddedStep(p) \/ BlockStep(p) \/ IgnoreStep(p)
             PROVE  SetUpCall(p)
  BY DEF SetUpCall
<1>2. p = InitPid /\ p = currentTask
  BY <1>1, SetUpCtl
<1>3. \A op : At(p, op) => InitOp = op /\ Arg(p) = script[pc[InitPid]].arg
  BY <1>1, <1>2, RoleOfInit
<1>4. InitOp \in SetUpOps /\ Arg(p) = script[pc[InitPid]].arg
  BY <1>3 DEF PriorityStep, CollatzAddedStep, BlockStep, IgnoreStep, SetUpOps
<1>5. pc[InitPid] \in 1 .. Len(script) /\ UserTyped
  BY <1>1 DEF Ctl, InitCtl
<1>6. SetsUp
  <2>1. WellLaid(script)
    BY <1>5, CtlScript
  <2> QED
    BY <1>4, <1>5, <2>1 DEF WellLaid, InitOp, SetsUp
<1>7. SetUpAt
  BY <1>1, <1>6, SettingUp
<1>8. /\ SetUpLaid(script) /\ Preemptive /\ pc[InitPid] \in Nat
  BY <1>7 DEF SetUpAt
<1>9. ASSUME PriorityStep(p)
      PROVE  state[numTasks - 1] = "Ready" /\ Arg(p) \in Priorities
  <2>1. InitOp = "priority"
    BY <1>3, <1>9 DEF PriorityStep
  <2>2. PICK q \in 1 .. 4 : /\ pc[InitPid] = ForkAt(q) + 3
                            /\ Arg(p) = IF LifeCycleType = "B4" /\ q > 1 THEN Medium ELSE Low
    BY <1>4, <1>5, <1>8, <2>1 DEF SetUpLaid, InitOp
  <2>3. numTasks = q + 1
    BY <1>6, <1>7, <2>2, LastForked
  <2>4. q \in 1 .. numTasks - 1 /\ numTasks - 1 = q /\ q # 0
    BY <2>3
  <2>5. ForkAt(q) \in Nat
    BY ForkPlace
  <2>6. prog[q] = "init"
    BY <1>6, <2>2, <2>4, <2>5 DEF Normal, Fresh
  <2>7. q # currentTask
    BY <1>2, <2>4 DEF InitPid
  <2>8. state[q] = "Ready"
    BY <1>1, <1>6, <2>4, <2>6, <2>7, ChildAlive DEF LongDelays
  <2> QED
    BY <2>2, <2>4, <2>8 DEF Priorities
<1>10. CollatzAddedStep(p) => blockedTaskForCollatz = NoTask
  <2> SUFFICES ASSUME CollatzAddedStep(p) PROVE blockedTaskForCollatz = NoTask
    OBVIOUS
  <2>1. InitOp = "collatzadded"
    BY <1>3 DEF CollatzAddedStep
  <2>2. pc[InitPid] = IF LifeCycleType = "B3" THEN 5 ELSE 6
    BY <1>5, <1>8, <2>1 DEF SetUpLaid, InitOp
  <2> QED
    BY <1>6, <2>2 DEF SetsUp, Normal, CountB3, CountB4
<1>11. IgnoreStep(p) => Arg(p) \in BOOLEAN
  <2> SUFFICES ASSUME IgnoreStep(p) PROVE Arg(p) \in BOOLEAN
    OBVIOUS
  <2>1. InitOp = "ignore"
    BY <1>3 DEF IgnoreStep
  <2>2. Arg(p) = (pc[InitPid] = 1)
    BY <1>4, <1>5, <1>8, <2>1 DEF SetUpLaid, InitOp
  <2> QED
    BY <2>2, Zenon
<1>12. BlockStep(p) => LifeCycleType = "B3" /\ pc[InitPid] = 6
  <2> SUFFICES ASSUME BlockStep(p) PROVE LifeCycleType = "B3" /\ pc[InitPid] = 6
    OBVIOUS
  <2>1. InitOp = "block"
    BY <1>3 DEF BlockStep
  <2> QED
    BY <1>5, <1>8, <2>1 DEF SetUpLaid, InitOp
<1> QED
  BY <1>8, <1>9, <1>10, <1>11, <1>12 DEF SetUpCall

\* Without the calls for collatz the count does not begin.
LEMMA UncountedStep ==
    ASSUME Configured, ~SetsUp, Base, Ctl, Uncounted, [NextKernel]_allVars
    PROVE  Uncounted'
<1>1. CASE UNCHANGED allVars
  BY <1>1 DEF allVars, vars, Uncounted
<1>2. CASE Tick
  BY <1>2, TickSets DEF TicksCounted, Uncounted
<1>3. ASSUME NEW p \in Pids, Step(p) PROVE Uncounted'
  <2>1. p = currentTask /\ (p = InitPid \/ p \in 1 .. numTasks - 1)
    BY <1>3, StepsAre
  <2>2. CASE p \in 1 .. numTasks - 1
    BY <1>3, <2>2, ChildStepSets DEF Uncounted
  <2>3. CASE p = InitPid
    <3>1. InitOp # "collatzadded"
      <4>1. WellLaid(script) /\ pc[InitPid] \in 1 .. Len(script)
        BY CtlScript DEF Ctl, InitCtl
      <4> QED
        BY <4>1 DEF WellLaid, InitOp, SetUpOps, SetsUp
    <3> QED
      BY <1>3, <2>3, <3>1, InitStepSets DEF Uncounted
  <2> QED
    BY <2>1, <2>2, <2>3
<1> QED
  BY <1>1, <1>2, <1>3 DEF NextKernel

\* The count of B3 is kept.
LEMMA CountB3Step ==
    ASSUME Configured, LongDelays, Normal, [NextKernel]_allVars
    PROVE  CountB3'
<1> SUFFICES ASSUME LifeCycleType = "B3"
             PROVE  /\ pc'[InitPid] <= 6 => blockedTaskForCollatz' = NoTask
                    /\ pc'[InitPid] = 6 => collatzTask' = 1 /\ interruptNumAfterCollatz' >= 0
  BY DEF CountB3
<1>1. /\ SetsUp /\ Base /\ TypeOK /\ Ctl
      /\ pc[InitPid] <= 6 => blockedTaskForCollatz = NoTask
      /\ pc[InitPid] = 6 => collatzTask = 1 /\ interruptNumAfterCollatz >= 0
  BY KeptBase DEF SetsUp, Normal, Base, CountB3
<1>2. SetUpAt
  BY <1>1, SettingUp
<1>3. /\ pc[InitPid] \in 1 .. 21 /\ pc[InitPid] \in Nat /\ SetUpLaid(script)
      /\ InitOp = "again" => pc[InitPid] = 20
      /\ numTasks \in 1 .. 5
      /\ pc[InitPid] \in 1 .. Len(script)
  BY <1>1, <1>2 DEF SetUpAt, FirstWait, Ctl, InitCtl
<1>4. CASE UNCHANGED allVars
  BY <1>1, <1>4 DEF allVars, vars, userVars
<1>5. CASE Tick
  <2>1. /\ pc' = pc /\ collatzTask' = collatzTask
        /\ blockedTaskForCollatz' \in {blockedTaskForCollatz, NoTask}
        /\ interruptNumAfterCollatz' = TicksCounted
    BY <1>1, <1>5, TickSets
  <2>2. interruptNumAfterCollatz >= 0 => TicksCounted >= 0
    BY <1>1, CounterTyped
  <2> QED
    BY <1>1, <2>1, <2>2
<1>6. ASSUME NEW p \in Pids, Step(p)
      PROVE  /\ pc'[InitPid] <= 6 => blockedTaskForCollatz' = NoTask
             /\ pc'[InitPid] = 6 => collatzTask' = 1 /\ interruptNumAfterCollatz' >= 0
  <2>1. p = InitPid \/ p \in 1 .. numTasks - 1
    BY <1>1, <1>6, StepsAre
  <2>2. CASE p \in 1 .. numTasks - 1
    <3>1. /\ pc'[InitPid] = pc[InitPid]
          /\ UNCHANGED <<interruptNumAfterCollatz, blockedTaskForCollatz>>
          /\ blockedTaskForCollatz = NoTask => UNCHANGED collatzTask
      BY <1>1, <1>6, <2>2, ChildStepSets
    <3> QED
      BY <1>1, <3>1
  <2>3. CASE p = InitPid
    <3>1. /\ InitMoves
          /\ InitOp # "collatzadded" => UNCHANGED <<interruptNumAfterCollatz, collatzTask>>
          /\ InitOp = "collatzadded" =>
               interruptNumAfterCollatz' = 0 /\ collatzTask' = numTasks - 1
          /\ InitOp # "block" => UNCHANGED blockedTaskForCollatz
      BY <1>1, <1>6, <2>3, InitStepSets
    <3>2. /\ InitOp = "collatzadded" <=> pc[InitPid] = 5
          /\ InitOp = "block" <=> pc[InitPid] = 6
      BY <1>3 DEF SetUpLaid, InitOp
    <3>3. CASE pc'[InitPid] > 6
      <4>1. pc'[InitPid] \in Int
        BY <1>3, <3>1 DEF InitMoves
      <4> QED
        BY <3>3, <4>1
    <3>4. CASE pc'[InitPid] = pc[InitPid] + 1 /\ pc[InitPid] < 6
      <4>1. pc[InitPid] <= 6 /\ pc[InitPid] # 6 /\ (pc'[InitPid] = 6 => pc[InitPid] = 5)
        BY <1>3, <3>4
      <4>2. pc[InitPid] = 5 => numTasks = 2
        <5>1. /\ 1 < numTasks <=> 1 < pc[InitPid]
              /\ 2 < numTasks <=> 7 < pc[InitPid]
          BY <1>1, <1>2, ForkPlaces DEF SetUpAt
        <5> QED
          BY <1>3, <5>1
      <4> QED
        BY <1>1, <3>1, <3>2, <4>1, <4>2
    <3>5. CASE InitOp = "fork" /\ pc'[InitPid] = pc[InitPid]
      <4>1. pc[InitPid] # 6 /\ pc[InitPid] # 5
        BY <3>2, <3>5
      <4> QED
        BY <1>1, <3>1, <3>5, <4>1
    <3> QED
      BY <1>3, <3>1, <3>3, <3>4, <3>5 DEF InitMoves
  <2> QED
    BY <2>1, <2>2, <2>3
<1> QED
  BY <1>4, <1>5, <1>6 DEF NextKernel

\* The first task is the best one to run.
PicksOne ==
    \A p \in Pids : state[p] = "Ready" =>
        \/ priority[1] < priority[p]
        \/ priority[1] = priority[p] /\ 1 < p

\* Collatz is not dispatched before the fifth interrupt.
LEMMA CollatzWaits ==
    ASSUME Configured, LongDelays, LifeCycleType = "B4", Kept, Ctl, SetUpAt,
           interruptNumAfterCollatz < FifthInterrupt, OthersFirst, WorkCounted,
           currentTask = 1 => PicksOne
    PROVE  currentTask # 1
<1> SUFFICES ASSUME currentTask = 1 PROVE FALSE
  OBVIOUS
<1>1. Base /\ TypeOK /\ Preemptive /\ SetsUp
  BY KeptBase, LifeCycleAssumption DEF Base, Preemptive, SetsUp
<1>2. InitOp = "again"
  BY <1>1, InitRuns DEF NoTask, InitPid
<1>3. pc[InitPid] = 21 /\ numTasks \in 1 .. 5
  BY <1>2 DEF SetUpAt, FirstWait
<1>4. ForkAt(1) = 2 /\ ForkAt(2) = 7
  BY DEF ForkAt
<1>5. priority[1] = Low /\ priority[2] = Medium
  BY <1>3, <1>4 DEF OthersFirst
<1>6. 2 < numTasks
  BY <1>3, <1>4 DEF SetUpAt
<1>7. 2 \in 1 .. numTasks - 1 /\ 2 \in Pids
  <2>1. 2 \in 1 .. numTasks - 1
    BY <1>3, <1>6
  <2> QED
    BY <1>1, <2>1, PidRange DEF Base
<1>8. prog[2] = "init" \/ ran[2] < MinTicks[prog[2]]
  <2>1. prog[2] # "init" => prog[2] \in Programs
    BY <1>7 DEF Ctl, UserTyped
  <2>2. prog[2] # "init" => MinTicks[prog[2]] \in Nat /\ MinTicks[prog[2]] >= 5
    BY <1>1, <2>1 DEF LongDelays, FifthInterrupt
  <2>3. ran[2] \in Nat /\ (ran[2] = 0 \/ ran[2] <= interruptNumAfterCollatz)
    BY <1>7 DEF Ctl, UserTyped, WorkCounted
  <2>4. interruptNumAfterCollatz \in -1 .. 6 /\ interruptNumAfterCollatz < 5
    BY <1>1, CounterTyped DEF FifthInterrupt
  <2>5. ran[2] < 5
    BY <2>3, <2>4
  <2> QED
    BY <2>2, <2>3, <2>5
<1>9. state[2] = "Ready"
  BY <1>1, <1>7, <1>8, ChildAlive DEF LongDelays
<1> QED
  BY <1>5, <1>7, <1>9 DEF Low, Medium, PicksOne

BeforeFifth ==
    /\ Configured /\ LongDelays /\ LifeCycleType = "B4" /\ Kept /\ Ctl /\ SetUpAt
    /\ interruptNumAfterCollatz < FifthInterrupt /\ OthersFirst /\ WorkCounted
    /\ currentTask = 1 => PicksOne
CollatzIsLast == currentTask # 1

\* CollatzWaits for a state and, in the next lemma, for the next one.
LEMMA CollatzWaitsAlways == BeforeFifth => CollatzIsLast
BY CollatzWaits DEF BeforeFifth, CollatzIsLast

\* CollatzWaits in the next state.
LEMMA CollatzWaitsNext == BeforeFifth' => CollatzIsLast'
BY CollatzWaitsAlways, PTL

\* The count of B4 is kept.
LEMMA CountB4Step ==
    ASSUME Configured, LongDelays, Normal, [NextKernel]_allVars,
           Kept', Ctl', Base', DispatchesBest
    PROVE  CountB4'
<1> SUFFICES ASSUME LifeCycleType = "B4" PROVE CountB4'
  BY DEF CountB4
<1>1. /\ SetsUp /\ Base /\ TypeOK /\ Ctl /\ Kept
      /\ blockedTaskForCollatz = NoTask
      /\ pc[InitPid] <= 6 <=> interruptNumAfterCollatz = -1
      /\ pc[InitPid] > 6 => collatzTask = 1
      /\ pc[InitPid] \in 7 .. 19 => interruptNumAfterCollatz = 0
      /\ ignoreSchedule <=> pc[InitPid] \in 2 .. 19
      /\ interruptNumAfterCollatz < 5 => currentTask # 1 /\ OthersFirst /\ WorkCounted
  BY KeptBase DEF SetsUp, Normal, Base, CountB4, FifthInterrupt
<1>2. SetUpAt
  BY <1>1, SettingUp
<1>3. /\ pc[InitPid] \in 1 .. 22 /\ pc[InitPid] \in Nat
      /\ SetUpLaid(script) /\ WellLaid(script) /\ Preemptive
      /\ InitOp = "again" => pc[InitPid] = 21
      /\ numTasks \in 1 .. 5
      /\ pc[InitPid] \in 1 .. Len(script)
      /\ \A p \in 1 .. 4 : p < numTasks <=> ForkAt(p) < pc[InitPid]
  BY <1>1, <1>2 DEF SetUpAt, FirstWait, Ctl, InitCtl
<1>4. /\ interruptNumAfterCollatz \in -1 .. 6
      /\ TicksCounted = IF interruptNumAfterCollatz \in {-1, 6}
                        THEN interruptNumAfterCollatz
                        ELSE interruptNumAfterCollatz + 1
  BY <1>1, CounterTyped
<1>5. /\ ForkAt(1) = 2 /\ ForkAt(2) = 7 /\ ForkAt(3) = 11 /\ ForkAt(4) = 15
      /\ \A p \in 1 .. 4 : ForkAt(p) \in 2 .. 15
  <2>1. ForkAt(1) = 2 /\ ForkAt(2) = 7 /\ ForkAt(3) = 11 /\ ForkAt(4) = 15
    BY DEF ForkAt
  <2> QED
    BY <2>1
<1>6. /\ InitOp = "collatzadded" <=> pc[InitPid] = 6
      /\ InitOp # "block"
      /\ InitOp = "ignore" <=> pc[InitPid] \in {1, 19}
      /\ InitOp = "ignore" => script[pc[InitPid]].arg = (pc[InitPid] = 1)
      /\ InitOp = "fork" => pc[InitPid] \in {2, 7, 11, 15}
  <2>1. InitOp = "fork" => pc[InitPid] \in {2, 7, 11, 15}
    <3> SUFFICES ASSUME InitOp = "fork" PROVE pc[InitPid] \in {2, 7, 11, 15}
      OBVIOUS
    <3>1. PICK p \in 1 .. 4 : pc[InitPid] = ForkAt(p)
      BY <1>2, <1>3 DEF WellLaid, InitOp, SpawnOps, SetUpAt
    <3> QED
      BY <1>5, <3>1
  <2>2. LifeCycleType # "B3"
    OBVIOUS
  <2> QED
    BY <1>3, <2>1, <2>2 DEF SetUpLaid, InitOp
<1>7. \A p \in 1 .. 4 : pc[InitPid] = ForkAt(p) + 3 => InitOp = "priority"
  BY <1>3 DEF SetUpLaid, InitOp
<1>9. interruptNumAfterCollatz' \in -1 .. 6
  BY DEF Base, TypeOK, CounterBound, FifthInterrupt
<1> DEFINE Counts(m, n, k, ig) ==
             /\ m <= 6 <=> n = -1
             /\ m > 6 => k = 1
             /\ m \in 7 .. 19 => n = 0
             /\ ig <=> m \in 2 .. 19
<1>8. /\ Counts(pc'[InitPid], interruptNumAfterCollatz', collatzTask', ignoreSchedule')
      /\ blockedTaskForCollatz' = NoTask
      /\ interruptNumAfterCollatz' >= interruptNumAfterCollatz
      /\ interruptNumAfterCollatz' < 5 => OthersFirst' /\ WorkCounted'
  <2>1. CASE UNCHANGED allVars
    BY <1>1, <1>4, <2>1 DEF allVars, vars, userVars, OthersFirst, WorkCounted
  <2>2. CASE Tick
    <3>1. /\ pc' = pc /\ UNCHANGED <<collatzTask, ignoreSchedule>>
          /\ interruptNumAfterCollatz' = TicksCounted
          /\ ~ignoreSchedule
          /\ TicksCounted # 5 => priority' = priority
          /\ UNCHANGED blockedTaskForCollatz
          /\ \A p \in Pids : p = InitPid \/ p # currentTask => ran'[p] = ran[p]
          /\ \A p \in Pids : ran'[p] \in {ran[p], ran[p] + 1}
      BY <1>1, <2>2, TickSets DEF AtFifthInterrupt, FifthInterrupt
    <3>2. /\ Counts(pc[InitPid], TicksCounted, collatzTask, ignoreSchedule)
          /\ TicksCounted >= interruptNumAfterCollatz
          /\ TicksCounted < 5 => interruptNumAfterCollatz < 5 /\ TicksCounted # 5
      <4>1. ~(pc[InitPid] \in 2 .. 19)
        BY <1>1, <3>1
      <4> QED
        BY <1>1, <1>3, <1>4, <4>1
    <3>3. TicksCounted < 5 => OthersFirst'
      BY <1>1, <3>1, <3>2 DEF OthersFirst
    <3>4. ASSUME TicksCounted < 5, NEW p \in Pids
          PROVE  ran'[p] = 0 \/ ran'[p] <= TicksCounted
      <4>1. ran[p] \in Nat /\ (ran[p] = 0 \/ ran[p] <= interruptNumAfterCollatz)
        BY <1>1, <3>2, <3>4 DEF Ctl, UserTyped, WorkCounted
      <4>2. CASE ran'[p] = ran[p]
        BY <1>4, <3>2, <4>1, <4>2
      <4>3. CASE ran'[p] # ran[p]
        <5>1. p = currentTask /\ p # InitPid /\ ran'[p] = ran[p] + 1
          BY <3>1, <4>3
        <5>2. currentTask # NoTask
          BY <5>1, <1>1, PidRange DEF Base
        <5>3. InitOp = "again"
          BY <1>1, <1>3, <5>1, <5>2, InitRuns
        <5>4. interruptNumAfterCollatz >= 0
          BY <1>1, <1>3, <1>4, <5>3
        <5>5. TicksCounted = interruptNumAfterCollatz + 1
          BY <1>4, <3>2, <3>4, <5>4
        <5> QED
          BY <1>4, <4>1, <5>1, <5>4, <5>5
      <4> QED
        BY <4>2, <4>3
    <3> QED
      BY <1>1, <3>1, <3>2, <3>3, <3>4 DEF WorkCounted
  <2>3. ASSUME NEW p \in Pids, Step(p)
        PROVE  /\ Counts(pc'[InitPid], interruptNumAfterCollatz', collatzTask', ignoreSchedule')
               /\ blockedTaskForCollatz' = NoTask
               /\ interruptNumAfterCollatz' >= interruptNumAfterCollatz
               /\ interruptNumAfterCollatz' < 5 => OthersFirst' /\ WorkCounted'
    <3>1. p = InitPid \/ p \in 1 .. numTasks - 1
      BY <1>1, <2>3, StepsAre
    <3>2. CASE p \in 1 .. numTasks - 1
      <4>1. /\ ran' = ran /\ pc'[InitPid] = pc[InitPid]
            /\ UNCHANGED <<numTasks, priority, interruptNumAfterCollatz,
                           blockedTaskForCollatz, ignoreSchedule, collatzTask>>
        BY <1>1, <2>3, <3>2, ChildStepSets
      <4> QED
        BY <1>1, <1>4, <4>1 DEF OthersFirst, WorkCounted
    <3>3. CASE p = InitPid
      <4>1. /\ ran' = ran /\ InitMoves
            /\ InitOp \notin {"fork", "priority"} => priority' = priority
            /\ InitOp = "fork" =>
                 \A r \in Pids : r < numTasks => priority'[r] = priority[r]
            /\ InitOp = "priority" =>
                 priority' = [priority EXCEPT ![numTasks - 1] = script[pc[InitPid]].arg]
            /\ InitOp # "collatzadded" =>
                 UNCHANGED <<interruptNumAfterCollatz, collatzTask>>
            /\ InitOp = "collatzadded" =>
                 interruptNumAfterCollatz' = 0 /\ collatzTask' = numTasks - 1
            /\ InitOp # "block" => UNCHANGED blockedTaskForCollatz
            /\ InitOp # "ignore" => UNCHANGED ignoreSchedule
            /\ InitOp = "ignore" => ignoreSchedule' = script[pc[InitPid]].arg
        BY <1>1, <2>3, <3>3, InitStepSets
      <4>2. PICK m \in Nat : /\ m = pc'[InitPid]
                             /\ \/ m = pc[InitPid] + 1
                                \/ InitOp = "fork" /\ m = pc[InitPid] /\ UNCHANGED priority
                                \/ InitOp = "again" /\ m = 20
        <5>1. CASE pc'[InitPid] = pc[InitPid] + 1
          BY <1>3, <5>1
        <5>2. CASE InitOp = "fork" /\ pc'[InitPid] = pc[InitPid] /\ UNCHANGED priority
          BY <1>3, <5>2
        <5>3. CASE InitOp = "again" /\ pc'[InitPid] = pc[InitPid] - 1
          <6>1. pc'[InitPid] = 20
            BY <1>3, <5>3
          <6> QED
            BY <5>3, <6>1
        <5> QED
          BY <4>1, <5>1, <5>2, <5>3 DEF InitMoves
      <4>3. blockedTaskForCollatz' = NoTask
        BY <1>1, <1>6, <4>1
      <4>4. /\ Counts(m, interruptNumAfterCollatz', collatzTask', ignoreSchedule')
            /\ interruptNumAfterCollatz' >= interruptNumAfterCollatz
            /\ interruptNumAfterCollatz' < 5 => interruptNumAfterCollatz < 5
        <5>1. CASE pc[InitPid] = 6
          <6>1. numTasks = 2
            <7>1. (1 < numTasks <=> 2 < 6) /\ (2 < numTasks <=> 7 < 6)
              BY <1>3, <1>5, <5>1
            <7> QED
              BY <1>3, <7>1
          <6>2. m = 7 /\ interruptNumAfterCollatz = -1
            BY <1>1, <1>6, <4>2, <5>1
          <6>3. interruptNumAfterCollatz' = 0 /\ collatzTask' = 1 /\ ignoreSchedule' = ignoreSchedule
            BY <1>6, <4>1, <5>1, <6>1
          <6> QED
            BY <1>1, <5>1, <6>2, <6>3
        <5>2. CASE pc[InitPid] \in {1, 19}
          <6>1. m = pc[InitPid] + 1
            BY <1>3, <1>6, <4>2, <5>2
          <6>2. ignoreSchedule' = (pc[InitPid] = 1)
            BY <1>6, <4>1, <5>2
          <6>3. UNCHANGED <<interruptNumAfterCollatz, collatzTask>>
            BY <1>6, <4>1, <5>2
          <6>4. pc[InitPid] = 19 => ~ignoreSchedule'
            <7> SUFFICES ASSUME pc[InitPid] = 19 PROVE ~ignoreSchedule'
              OBVIOUS
            <7>1. ~(pc[InitPid] = 1)
              OBVIOUS
            <7> QED
              BY <6>2, <7>1, Zenon
          <6>5. pc[InitPid] = 1 => ignoreSchedule'
            BY <6>2
          <6>6. ignoreSchedule' <=> m \in 2 .. 19
            BY <5>2, <6>1, <6>4, <6>5
          <6> QED
            BY <1>1, <1>4, <5>2, <6>1, <6>3, <6>6
        <5>3. CASE pc[InitPid] \notin {1, 6, 19}
          <6>1. UNCHANGED <<interruptNumAfterCollatz, collatzTask, ignoreSchedule>>
            BY <1>6, <4>1, <5>3
          <6>2. CASE m = pc[InitPid] + 1 \/ m = pc[InitPid]
            <7>1. /\ m <= 6 <=> pc[InitPid] <= 6
                  /\ m > 6 <=> pc[InitPid] > 6
                  /\ m \in 7 .. 19 <=> pc[InitPid] \in 7 .. 19
                  /\ m \in 2 .. 19 <=> pc[InitPid] \in 2 .. 19
              <8>1. PICK c \in 1 .. 22 : c = pc[InitPid]
                BY <1>3
              <8>2. c # 1 /\ c # 6 /\ c # 19 /\ (m = c + 1 \/ m = c)
                BY <5>3, <6>2, <8>1
              <8>3. /\ m <= 6 <=> c <= 6
                    /\ m > 6 <=> c > 6
                    /\ m \in 7 .. 19 <=> c \in 7 .. 19
                    /\ m \in 2 .. 19 <=> c \in 2 .. 19
                BY <8>2
              <8> QED
                BY <8>1, <8>3
            <7>2. Counts(m, interruptNumAfterCollatz, collatzTask, ignoreSchedule)
              BY <1>1, <7>1
            <7> QED
              BY <1>4, <6>1, <7>2
          <6>3. CASE pc[InitPid] = 21 /\ m = 20
            BY <1>1, <1>4, <6>1, <6>3
          <6> QED
            BY <1>3, <4>2, <6>2, <6>3
        <5> QED
          BY <5>1, <5>2, <5>3
      <4>5. ASSUME interruptNumAfterCollatz' < 5 PROVE WorkCounted'
        <5>1. ASSUME NEW r \in Pids PROVE ran'[r] = 0 \/ ran'[r] <= interruptNumAfterCollatz'
          <6>1. ran'[r] = ran[r] /\ ran[r] \in Nat
            BY <1>1, <4>1 DEF Ctl, UserTyped
          <6>2. ran[r] = 0 \/ ran[r] <= interruptNumAfterCollatz
            BY <1>1, <4>4, <4>5 DEF WorkCounted
          <6>3. PICK n \in -1 .. 6 : n = interruptNumAfterCollatz'
            BY <1>9
          <6>4. n >= interruptNumAfterCollatz
            BY <4>4, <6>3
          <6>5. ran[r] = 0 \/ ran[r] <= n
            BY <1>4, <6>1, <6>2, <6>4
          <6> QED
            BY <6>1, <6>3, <6>5
        <5> QED
          BY <5>1 DEF WorkCounted
      <4>6. ASSUME interruptNumAfterCollatz' < 5, NEW r \in 1 .. 4, m > ForkAt(r) + 3
            PROVE  priority'[r] = IF r > 1 THEN Medium ELSE Low
        <5>1. /\ pc[InitPid] >= ForkAt(r) + 3 /\ OthersFirst
              /\ InitOp = "again" => pc[InitPid] > ForkAt(r) + 3
          <6>1. ForkAt(r) \in 2 .. 15
            BY <1>5
          <6>2. OthersFirst
            BY <1>1, <4>4, <4>6
          <6>3. m <= pc[InitPid] + 1 /\ m > ForkAt(r) + 3
            BY <1>3, <4>2, <4>6
          <6>4. pc[InitPid] >= ForkAt(r) + 3
            BY <1>3, <6>1, <6>3
          <6>5. InitOp = "again" => pc[InitPid] > ForkAt(r) + 3
            BY <1>3, <6>1
          <6> QED
            BY <6>2, <6>4, <6>5
        <5>2. r < numTasks /\ r \in Pids
          <6>1. ForkAt(r) < pc[InitPid]
            BY <1>3, <1>5, <5>1
          <6>2. r < numTasks
            BY <1>3, <6>1
          <6>3. numTasks \in Nat /\ numTasks <= MaxNumTasks /\ MaxNumTasks \in Nat
            BY <1>1, PidRange, MaxNumTasksAssumption DEF Base
          <6> QED
            BY <6>2, <6>3 DEF Pids
        <5>3. CASE pc[InitPid] = ForkAt(r) + 3
          <6>1. InitOp = "priority"
            BY <1>7, <5>3
          <6>2. numTasks - 1 = r
            <7>1. numTasks = r + 1
              BY <1>1, <1>2, <5>3, LastForked
            <7> QED
              BY <7>1
          <6>3. script[pc[InitPid]].arg = IF r > 1 THEN Medium ELSE Low
            <7>1. PICK q \in 1 .. 4 :
                     /\ pc[InitPid] = ForkAt(q) + 3
                     /\ script[pc[InitPid]].arg =
                          IF LifeCycleType = "B4" /\ q > 1 THEN Medium ELSE Low
              BY <1>3, <6>1 DEF SetUpLaid, InitOp
            <7>2. numTasks = q + 1 /\ numTasks = r + 1
              BY <1>1, <1>2, <5>3, <7>1, LastForked
            <7>3. q = r
              BY <7>2
            <7> QED
              BY <7>1, <7>3
          <6>4. priority \in [Pids -> {High, Medium, Low}]
            BY <1>1 DEF TypeOK
          <6> QED
            BY <4>1, <5>2, <6>1, <6>2, <6>3, <6>4
        <5>4. CASE pc[InitPid] > ForkAt(r) + 3
          <6>1. priority[r] = IF r > 1 THEN Medium ELSE Low
            BY <5>1, <5>4 DEF OthersFirst
          <6>2. InitOp = "priority" => numTasks - 1 # r
            <7> SUFFICES ASSUME InitOp = "priority" PROVE numTasks - 1 # r
              OBVIOUS
            <7>1. PICK q \in 1 .. 4 : pc[InitPid] = ForkAt(q) + 3
              BY <1>3 DEF SetUpLaid, InitOp
            <7>2. numTasks = q + 1
              BY <1>1, <1>2, <7>1, LastForked
            <7>3. ForkAt(q) # ForkAt(r)
              BY <1>5, <5>4, <7>1
            <7> QED
              BY <7>2, <7>3
          <6>3. priority \in [Pids -> {High, Medium, Low}]
            BY <1>1 DEF TypeOK
          <6>4. priority'[r] = priority[r]
            BY <4>1, <5>2, <6>2, <6>3
          <6> QED
            BY <6>1, <6>4
        <5> QED
          BY <1>3, <1>5, <5>1, <5>3, <5>4
      <4>7. interruptNumAfterCollatz' < 5 => OthersFirst'
        BY <4>2, <4>6 DEF OthersFirst
      <4>8. Counts(pc'[InitPid], interruptNumAfterCollatz', collatzTask', ignoreSchedule')
        BY <4>2, <4>4
      <4> HIDE DEF Counts
      <4> QED
        BY <4>3, <4>4, <4>5, <4>7, <4>8
    <3> QED
      BY <3>1, <3>2, <3>3
  <2> QED
    BY <2>1, <2>2, <2>3 DEF NextKernel
<1>10. ASSUME interruptNumAfterCollatz' < 5 PROVE currentTask' # 1
  <2>1. interruptNumAfterCollatz < 5
    BY <1>4, <1>8, <1>9, <1>10
  <2>2. currentTask # 1
    BY <1>1, <2>1
  <2>3. currentTask' = 1 => PicksOne'
    BY <2>2 DEF DispatchesBest, PicksOne
  <2>4. SetUpAt'
    BY <1>1, SettingUpNext DEF SetsUp, Configured
  <2>5. BeforeFifth'
    BY <1>8, <1>10, <2>3, <2>4 DEF BeforeFifth, FifthInterrupt, Configured, LongDelays, SetsUp
  <2> QED
    BY <2>5, CollatzWaitsNext DEF CollatzIsLast
<1> QED
  BY <1>8, <1>10 DEF CountB4, FifthInterrupt

\* KeptBase in the next state.
LEMMA KeptBaseNext == Kept' => Base'
BY KeptBase, PTL

\* Every other step keeps what holds outside B3's wait for collatz.
LEMMA NormalStep ==
    ASSUME Configured, LongDelays, Normal, [NextKernel]_allVars,
           \A p \in Pids : ~BlockStep(p)
    PROVE  Normal' /\ EndedKept /\ (Preemptive => DispatchesBest)
<1>1. Kept /\ Ctl /\ Base
  BY KeptBase DEF Normal
<1>2. RaisesQueued
  BY CollatzQueued
<1>3. Kept' /\ EndedKept /\ (Preemptive => DispatchesBest)
  BY <1>1, <1>2, SetUpCalls, KernelKept DEF SetUpCall
<1>4. Ctl'
  BY <1>1, CtlStep
<1>5. Base'
  BY <1>3, KeptBaseNext
<1>6. SetsUp => Fresh'
  BY <1>1, <1>4, <1>5, FreshStep DEF Normal
<1>7. ~SetsUp => Uncounted'
  BY <1>1, UncountedStep DEF Normal
<1>8. CountB3'
  BY CountB3Step
<1>9. CountB4'
  <2>1. CASE LifeCycleType = "B4"
    <3>1. Preemptive
      BY <2>1, LifeCycleAssumption DEF Preemptive
    <3> QED
      BY <1>3, <1>4, <1>5, <3>1, CountB4Step
  <2>2. CASE LifeCycleType # "B4"
    BY <2>2 DEF CountB4
  <2> QED
    BY <2>1, <2>2
<1> QED
  BY <1>3, <1>4, <1>6, <1>7, <1>8, <1>9 DEF Normal, SetsUp

-----------------------------------------------------------------------------
(* B3: init is blocked while collatz runs alone *)

Waiting ==
    /\ LifeCycleType = "B3" /\ Ctl /\ TypeOK /\ fault = "None"
    /\ numTasks = 2 /\ currentTask = 1 /\ readyQueue = << >>
    /\ state[InitPid] = "Blocked" /\ state[1] = "Running"
    /\ \A p \in Pids : p >= 2 => state[p] = "Free"
    /\ \A p \in Pids : ~waitingChild[p] /\ ~parentTookInWait[p]
    /\ \A p \in Pids : ppid[p] # NoTask => ppid[p] < p
    /\ blockedTaskForCollatz = InitPid /\ collatzTask = 1
    /\ pc[InitPid] = 7
    /\ interruptNumAfterCollatz >= 0
    /\ interruptNumAfterCollatz < FifthInterrupt => ran[1] <= interruptNumAfterCollatz
    /\ priority[InitPid] = High

\* While init is blocked for collatz the calls find what they need.
LEMMA WaitingBase == Waiting => Base
<1> SUFFICES ASSUME Waiting PROVE Base
  OBVIOUS
<1>1. TypeOK /\ numTasks = 2 /\ currentTask = 1
  BY DEF Waiting
<1>2. \A p \in Pids : p = InitPid \/ p = 1 \/ p >= 2
  BY MaxNumTasksAssumption DEF Pids, InitPid
<1>3. \A p \in Pids : state[p] = "Running" <=> p = currentTask
  BY <1>2 DEF Waiting, InitPid
<1> QED
  BY <1>1, <1>3 DEF Waiting, Base

\* A queue of no task is empty.
LEMMA HoldsNothing ==
    ASSUME NEW q, Holds(q, {})
    PROVE  q = << >>
<1>1. q \in Seq(Pids) /\ \A i \in 1 .. Len(q) : FALSE
  BY DEF Holds
<1>2. Len(q) = 0
  BY <1>1
<1> QED
  BY <1>1, <1>2

\* Init blocks itself: collatz is the only task that can run.
LEMMA WaitingStarts ==
    ASSUME Configured, LongDelays, Normal, NEW p \in Pids, BlockStep(p)
    PROVE  Waiting' /\ EndedKept
<1>1. Base /\ Ctl /\ Kept /\ IInv /\ TypeOK
  BY KeptBase DEF Normal, Base, Kept
<1>2. /\ LifeCycleType = "B3" /\ pc[InitPid] = 6 /\ SetsUp
  BY SetUpCalls DEF SetUpCall, SetsUp
<1>3. Ctl' /\ p = InitPid /\ currentTask = InitPid
  BY <1>1, SetUpCtl
<1>4. SetUpAt
  BY <1>1, <1>2, SettingUp
<1>5. numTasks = 2
  <2>1. /\ 1 < numTasks <=> 1 < pc[InitPid]
        /\ 2 < numTasks <=> 7 < pc[InitPid]
        /\ numTasks \in 1 .. 5
    BY <1>2, <1>4, ForkPlaces DEF SetUpAt
  <2> QED
    BY <1>2, <2>1
<1>6. /\ 1 \in Pids /\ InitPid \in Pids /\ \A r \in Pids : r = InitPid \/ r = 1 \/ r >= 2
      /\ NoTask \notin Pids /\ InitPid # 1
  <2>1. MaxNumTasks >= 2 /\ MaxNumTasks \in Nat
    BY <1>1, <1>5, MaxNumTasksAssumption DEF TypeOK
  <2> QED
    BY <2>1 DEF Pids, InitPid, NoTask
<1>7. /\ collatzTask = 1 /\ interruptNumAfterCollatz >= 0 /\ blockedTaskForCollatz = NoTask
  BY <1>2 DEF Normal, CountB3
<1>8. prog[1] = "init" /\ ran[1] = 0 /\ 1 \in 1 .. numTasks - 1
  <2>1. 1 \in 1 .. numTasks - 1
    BY <1>5
  <2>2. prog[1] = "init"
    BY <1>2, <2>1 DEF Normal, Fresh
  <2> QED
    BY <1>1, <2>1, <2>2 DEF Ctl, ChildCtl
<1>9. state[1] = "Ready"
  BY <1>1, <1>2, <1>3, <1>6, <1>8, ChildAlive DEF LongDelays
<1>10. \A r \in Pids : r >= 2 => state[r] = "Free"
  BY <1>1, <1>5 DEF IInv, SlotsInOrder
<1>11. state[InitPid] = "Running" /\ state \in [Pids -> States]
  BY <1>1, <1>3, <1>6 DEF IInv, RunningExact, TypeOK, States
<1>12. /\ BlockForCollatz /\ Continue(p)
  BY DEF BlockStep
<1> DEFINE st == [state EXCEPT ![currentTask] = "Blocked"]
<1>13. /\ st \in [Pids -> States] /\ st[InitPid] = "Blocked" /\ st[1] = "Ready"
       /\ \A r \in Pids : r >= 2 => st[r] = "Free"
       /\ Schedule(st, readyQueue)
  BY <1>3, <1>6, <1>9, <1>10, <1>11, <1>12 DEF BlockForCollatz, States, InitPid
<1>14. Holds(readyQueue, ReadyIn(st))
  <2>1. ReadyIn(st) = ReadyIn(state)
    BY <1>3, <1>6, <1>11 DEF ReadyIn
  <2> QED
    BY <1>1, <2>1 DEF IInv, QueueExact
<1>15. /\ fault' = fault /\ currentTask' \in Pids /\ state' \in [Pids -> States]
       /\ QueueExact' /\ RunningExact'
       /\ \A r \in Pids : \A s \in {"Free", "Blocked", "Terminated"} :
             state'[r] = s <=> st[r] = s
  <2>1. \A r \in Pids : st[r] # "Running"
    BY <1>6, <1>13
  <2>2. \E r \in Pids : st[r] = "Ready"
    BY <1>6, <1>13
  <2> HIDE DEF st
  <2> QED
    BY <1>13, <1>14, <2>1, <2>2, Dispatches
<1>16. /\ state'[InitPid] = "Blocked" /\ \A r \in Pids : r >= 2 => state'[r] = "Free"
  BY <1>6, <1>13, <1>15
<1>17. currentTask' = 1 /\ state'[1] = "Running"
  BY <1>6, <1>15, <1>16 DEF RunningExact
<1>18. readyQueue' = << >>
  <2>1. ReadyIn(state') = {}
    BY <1>6, <1>16, <1>17 DEF ReadyIn
  <2>2. Holds(readyQueue', ReadyIn(state'))
    BY <1>15 DEF QueueExact, ReadyIn
  <2> QED
    BY <2>1, <2>2, HoldsNothing
<1>19. /\ UNCHANGED <<numTasks, ppid, priority, waitVars, forkPid, collatzTask,
                      interruptNumAfterCollatz, ignoreSchedule>>
       /\ blockedTaskForCollatz' = InitPid
       /\ eax' = [eax EXCEPT ![currentTask] = Pending]
  BY <1>3, <1>12 DEF BlockForCollatz
<1>20. UNCHANGED <<waitingChild, waitingChildId, parentTookInWait>>
  BY <1>19 DEF waitVars
<1>21. ran' = ran /\ pc' = [pc EXCEPT ![InitPid] = pc[InitPid] + 1]
  BY <1>3, <1>12 DEF Continue, GoTo
<1>22. pc'[InitPid] = 7
  BY <1>1, <1>2, <1>6, <1>21 DEF Ctl, UserTyped
<1>23. \A r \in Pids : ~waitingChild[r] /\ ~parentTookInWait[r]
  <2>1. \A r \in Pids : state[r] # "Blocked" /\ state[r] # "Terminated"
    BY <1>6, <1>9, <1>10, <1>11
  <2> QED
    BY <1>1, <2>1 DEF IInv, WaitersExact, Normal, Kept, TakenEnded
<1>24. TypeOK'
  <2>1. eax' \in [Pids -> Pids \cup {NoTask, Pending}]
    BY <1>1, <1>19 DEF TypeOK
  <2>2. readyQueue' \in Seq(Pids)
    BY <1>18
  <2>3. fault' \in {"None", "EmptyPop", "NullChild"}
    BY <1>1, <1>15 DEF TypeOK
  <2>4. state' \in [Pids -> {"Free", "Ready", "Running", "Blocked", "Terminated"}]
    BY <1>15 DEF States
  <2> QED
    BY <1>1, <1>6, <1>15, <1>19, <1>20, <2>1, <2>2, <2>3, <2>4 DEF TypeOK
<1>25. fault = "None"
  BY <1>12 DEF BlockForCollatz, Calling
<1>26. \A r \in Pids : ppid[r] # NoTask => ppid[r] < r
  BY <1>1 DEF IInv, SlotsInOrder
<1>27. priority[InitPid] = High
  BY <1>1, <1>4 DEF Kept, InitFirst, SetUpAt
<1>28. EndedKept
  BY <1>6, <1>9, <1>10, <1>11 DEF EndedKept
<1>29. ran'[1] <= interruptNumAfterCollatz'
  BY <1>7, <1>8, <1>19, <1>21
<1> QED
  BY <1>2, <1>3, <1>5, <1>7, <1>15, <1>16, <1>17, <1>18, <1>19, <1>20, <1>22, <1>23,
     <1>24, <1>25, <1>26, <1>27, <1>28, <1>29 DEF Waiting

\* Init runs again, whether collatz has ended or waits in the queue.
Resumed ==
    /\ LifeCycleType = "B3" /\ Ctl /\ TypeOK /\ fault = "None"
    /\ numTasks = 2 /\ QueueExact /\ RunningExact
    /\ state[InitPid] = "Running" /\ state[1] \in {"Ready", "Terminated"}
    /\ \A p \in Pids : p >= 2 => state[p] = "Free"
    /\ \A p \in Pids : ~waitingChild[p] /\ ~parentTookInWait[p]
    /\ \A p \in Pids : ppid[p] # NoTask => ppid[p] < p
    /\ NobodyBlocked
    /\ pc[InitPid] = 7
    /\ priority[InitPid] = High

\* Init runs again: the scheduler's invariant is back.
LEMMA ResumedNormal == Resumed => Normal
<1> SUFFICES ASSUME Resumed PROVE Normal
  OBVIOUS
<1>1. /\ LifeCycleType = "B3" /\ Ctl /\ TypeOK /\ numTasks = 2 /\ QueueExact /\ RunningExact
      /\ NobodyBlocked /\ pc[InitPid] = 7 /\ fault = "None" /\ SetsUp
  BY DEF Resumed, SetsUp
<1>2. /\ 1 \in Pids /\ InitPid \in Pids /\ \A r \in Pids : r = InitPid \/ r = 1 \/ r >= 2
      /\ InitPid = 0 /\ \A r \in Pids : r \in Nat
  <2>1. MaxNumTasks >= 2 /\ MaxNumTasks \in Nat
    BY <1>1, MaxNumTasksAssumption DEF TypeOK
  <2> QED
    BY <2>1 DEF Pids, InitPid
<1>3. \A r \in Pids : state[r] = "Free" <=> r >= 2
  BY <1>2 DEF Resumed
<1>4. \A r \in Pids : state[r] # "Blocked"
  BY <1>2 DEF Resumed
<1>5. IInv
  <2>1. PopFindsTask /\ InitLives
    BY <1>1 DEF Resumed, PopFindsTask, InitLives
  <2>2. SlotsInOrder
    BY <1>1, <1>3 DEF Resumed, SlotsInOrder
  <2>3. WaitersExact
    BY <1>4 DEF Resumed, WaitersExact
  <2> QED
    BY <1>1, <2>1, <2>2, <2>3 DEF IInv
<1>6. TakenEnded
  BY DEF Resumed, TakenEnded
<1>7. InOrder
  <2>1. ReadyIn(state) \subseteq {1}
    BY <1>2 DEF Resumed, ReadyIn
  <2>2. /\ \A i, j \in 1 .. Len(readyQueue) : readyQueue[i] = readyQueue[j] => i = j
        /\ \A i \in 1 .. Len(readyQueue) : readyQueue[i] = 1
        /\ Len(readyQueue) \in Nat
    BY <1>1, <2>1 DEF QueueExact, Holds
  <2>3. ASSUME NEW i \in 1 .. Len(readyQueue), NEW j \in 1 .. Len(readyQueue), i < j
        PROVE  FALSE
    <3>1. i = j
      BY <2>2
    <3> QED
      BY <2>2, <2>3, <3>1
  <2> QED
    BY <2>3 DEF InOrder, Sorted
<1>8. InitFirst
  BY DEF Resumed, InitFirst
<1>9. Fresh
  <2>1. ForkAt(1) = 1
    BY <1>1, ForkPlaces
  <2>2. ASSUME NEW r \in 1 .. numTasks - 1 PROVE r = 1
    BY <1>1
  <2> QED
    BY <1>1, <2>1, <2>2 DEF Fresh
<1>10. CountB3
  BY <1>1 DEF CountB3
<1>11. CountB4
  BY <1>1 DEF CountB4
<1> QED
  BY <1>1, <1>5, <1>6, <1>7, <1>8, <1>9, <1>10, <1>11 DEF Normal, Kept

\* ResumedNormal in the next state.
LEMMA ResumedNormalNext == Resumed' => Normal'
BY ResumedNormal, PTL

\* With two tasks there are init, collatz and free slots.
LEMMA WaitingPids ==
    ASSUME TypeOK, numTasks = 2
    PROVE  /\ 1 \in Pids /\ InitPid \in Pids
           /\ \A r \in Pids : r = InitPid \/ r = 1 \/ r >= 2
           /\ InitPid = 0 /\ \A r \in Pids : r \in Nat /\ r # NoTask
<1>1. MaxNumTasks >= 2 /\ MaxNumTasks \in Nat
  BY MaxNumTasksAssumption DEF TypeOK
<1> QED
  BY <1>1 DEF Pids, InitPid, NoTask

\* One task in an empty queue.
LEMMA QueueOfOne ==
    ASSUME NEW p \in Pids, NEW prio
    PROVE  /\ Holds(AddToReadyQueue(<< >>, p, prio), {p})
           /\ Preemptive /\ prio \in [Pids -> Priorities] =>
                Sorted(AddToReadyQueue(<< >>, p, prio), prio)
<1>1. Holds(<< >>, {}) /\ p \in Pids \ {} /\ {} \cup {p} = {p}
  BY DEF Holds
<1>2. Sorted(<< >>, prio)
  BY DEF Sorted
<1>3. Holds(AddToReadyQueue(<< >>, p, prio), {} \cup {p})
  BY <1>1, AddHolds
<1>4. ASSUME Preemptive, prio \in [Pids -> Priorities]
      PROVE  Sorted(AddToReadyQueue(<< >>, p, prio), prio)
  BY <1>1, <1>2, <1>4, AddSorted DEF Preemptive
<1> QED
  BY <1>1, <1>3, <1>4

\* What a tick does while only collatz runs.
LEMMA WaitingTickSchedules ==
    ASSUME Waiting, Tick
    PROVE  /\ UNCHANGED <<numTasks, ppid, waitingChild, waitingChildId, parentTookInWait,
                          forkPid, eax, collatzTask, ignoreSchedule, priority, pc, prog>>
           /\ interruptNumAfterCollatz' = TicksCounted
           /\ interruptNumAfterCollatz' \in -1 .. CounterBound
           /\ \/ /\ TicksCounted = FifthInterrupt /\ blockedTaskForCollatz' = NoTask
                 /\ Preempt(MakeReady(state, InitPid),
                            AddToReadyQueue(readyQueue, InitPid, priority), priority)
              \/ /\ TicksCounted # FifthInterrupt
                 /\ UNCHANGED blockedTaskForCollatz
                 /\ Preempt(state, readyQueue, priority)
<1>1. TimerInterrupt /\ Base /\ Ctl /\ TypeOK /\ LifeCycleType = "B3"
      /\ blockedTaskForCollatz = InitPid
  BY WaitingBase DEF Tick, Waiting
<1>2. InitPid # NoTask
  BY DEF InitPid, NoTask
<1>3. /\ UNCHANGED <<numTasks, ppid, waitVars, forkPid, eax, collatzTask, ignoreSchedule>>
      /\ interruptNumAfterCollatz' = TicksCounted
      /\ RaiseCollatz \/ ResumeBlocked \/ PlainTick
  BY <1>1 DEF TimerInterrupt
<1>4. TicksCounted \in -1 .. CounterBound
  BY <1>1, CounterTyped DEF CounterBound, FifthInterrupt
<1>5. AtFifthInterrupt("B3") <=> TicksCounted = FifthInterrupt
  BY <1>1 DEF AtFifthInterrupt
<1>6. ~AtFifthInterrupt("B4")
  BY <1>1 DEF AtFifthInterrupt
<1>7. ResumeBlocked \/ PlainTick
  BY <1>3, <1>6 DEF RaiseCollatz
<1>8. pc' = pc /\ prog' = prog
  BY DEF Tick
<1>9. CASE ResumeBlocked
  BY <1>1, <1>3, <1>4, <1>5, <1>8, <1>9 DEF ResumeBlocked, waitVars
<1>10. CASE PlainTick
  BY <1>1, <1>2, <1>3, <1>4, <1>5, <1>8, <1>10 DEF PlainTick, waitVars
<1> QED
  BY <1>7, <1>9, <1>10

\* A tick while init is blocked for collatz.
LEMMA WaitingTick ==
    ASSUME Configured, Waiting, Tick
    PROVE  (Waiting' \/ Normal') /\ EndedKept
<1>1. /\ Base /\ Ctl /\ TypeOK /\ LifeCycleType = "B3" /\ numTasks = 2 /\ currentTask = 1
      /\ readyQueue = << >> /\ state[InitPid] = "Blocked" /\ state[1] = "Running"
      /\ fault = "None" /\ priority[InitPid] = High
      /\ \A p \in Pids : p >= 2 => state[p] = "Free"
  BY WaitingBase DEF Waiting
<1>2. /\ 1 \in Pids /\ InitPid \in Pids
      /\ \A r \in Pids : r = InitPid \/ r = 1 \/ r >= 2
      /\ InitPid = 0 /\ \A r \in Pids : r \in Nat /\ r # NoTask
  BY <1>1, WaitingPids
<1>3. Ctl'
  BY <1>1, TickCtl
<1>4. /\ state \in [Pids -> States] /\ priority \in [Pids -> Priorities] /\ Preemptive
  BY <1>1, LifeCycleAssumption DEF TypeOK, States, Priorities, Preemptive
<1>5. EndedKept
  BY <1>1, <1>2 DEF EndedKept
<1>6. /\ UNCHANGED <<numTasks, ppid, waitingChild, waitingChildId, parentTookInWait,
                     forkPid, eax, collatzTask, ignoreSchedule, priority, pc, prog>>
      /\ interruptNumAfterCollatz' = TicksCounted
      /\ interruptNumAfterCollatz' \in -1 .. CounterBound
  BY WaitingTickSchedules
<1>7. ASSUME state' \in [Pids -> States], currentTask' \in Pids, fault' = fault,
             QueueExact', blockedTaskForCollatz' \in Pids \cup {NoTask}
      PROVE  TypeOK'
  <2>1. readyQueue' \in Seq(Pids)
    BY <1>7 DEF QueueExact, Holds
  <2> QED
    BY <1>1, <1>6, <1>7, <2>1 DEF TypeOK, States
<1>8. CASE /\ TicksCounted = FifthInterrupt /\ blockedTaskForCollatz' = NoTask
           /\ Preempt(MakeReady(state, InitPid),
                      AddToReadyQueue(readyQueue, InitPid, priority), priority)
  <2> DEFINE q1 == AddToReadyQueue(<< >>, InitPid, priority)
             q2 == AddToReadyQueue(q1, 1, priority)
             st == MakeReady(MakeReady(state, InitPid), 1)
  <2>1. Schedule(st, q2)
    BY <1>1, <1>2, <1>8 DEF Preempt
  <2>2. /\ st \in [Pids -> States] /\ st[InitPid] = "Ready" /\ st[1] = "Ready"
        /\ \A r \in Pids : r >= 2 => st[r] = "Free"
    BY <1>1, <1>2, <1>4 DEF MakeReady, States
  <2>3. ReadyIn(st) = {InitPid} \cup {1}
    BY <1>2, <2>2 DEF ReadyIn
  <2>4. Holds(q1, {InitPid}) /\ Sorted(q1, priority)
    BY <1>2, <1>4, QueueOfOne
  <2>5. 1 \in Pids \ {InitPid}
    BY <1>2
  <2> HIDE DEF q1
  <2>6. Holds(q2, {InitPid} \cup {1}) /\ Sorted(q2, priority)
    <3>1. Holds(q2, {InitPid} \cup {1})
      BY <2>4, <2>5, AddHolds
    <3>2. Sorted(q2, priority)
      BY <1>4, <2>4, <2>5, AddSorted DEF Preemptive
    <3> QED
      BY <3>1, <3>2
  <2>7. \A r \in Pids : st[r] # "Running"
    BY <1>2, <2>2
  <2> HIDE DEF st, q2
  <2>8. /\ fault' = fault /\ currentTask' \in Pids /\ state' \in [Pids -> States]
        /\ QueueExact' /\ RunningExact'
        /\ \A p \in Pids : \A s \in {"Free", "Blocked", "Terminated"} :
              state'[p] = s <=> st[p] = s
    BY <1>2, <2>1, <2>2, <2>3, <2>6, <2>7, Dispatches
  <2>9. BestRuns
    <3>1. PopFindsTask'
      BY <1>1, <2>8 DEF PopFindsTask
    <3>2. Holds(q2, ReadyIn(st))
      BY <2>3, <2>6
    <3>3. priority' = priority
      BY <1>6
    <3> QED
      BY <2>1, <2>2, <2>6, <2>8, <3>1, <3>2, <3>3, DispatchesHead
  <2>10. \A r \in Pids : r >= 2 => state'[r] = "Free"
    BY <2>2, <2>8
  <2>11. state'[InitPid] \in {"Ready", "Running"} /\ state'[1] \in {"Ready", "Running"}
    <3>1. /\ state'[InitPid] \in States /\ state'[1] \in States
      BY <1>2, <2>8
    <3> QED
      BY <1>2, <2>2, <2>8, <3>1 DEF States
  <2>12. currentTask' = InitPid
    <3>1. state'[currentTask'] = "Running"
      BY <2>8 DEF RunningExact
    <3>2. currentTask' = InitPid \/ currentTask' = 1
      BY <1>2, <2>8, <2>10, <3>1
    <3>3. ASSUME currentTask' = 1 PROVE FALSE
      <4>1. state'[InitPid] = "Ready"
        BY <1>2, <2>8, <2>11, <3>3 DEF RunningExact
      <4>2. \/ priority[1] < priority[InitPid]
            \/ priority[1] = priority[InitPid] /\ 1 < InitPid
        BY <1>2, <1>6, <2>9, <3>3, <4>1 DEF BestRuns
      <4>3. priority[1] \in {0, 1, 2} /\ priority[InitPid] = 0
        BY <1>1, <1>2, <1>4 DEF Priorities, High, Medium, Low
      <4> QED
        BY <1>2, <4>2, <4>3
    <3> QED
      BY <3>2, <3>3
  <2>13. state'[InitPid] = "Running" /\ state'[1] = "Ready"
    BY <1>2, <2>8, <2>11, <2>12 DEF RunningExact
  <2>14. NobodyBlocked'
    BY <1>8 DEF NobodyBlocked
  <2>15. TypeOK'
    BY <1>7, <1>8, <2>8
  <2>16. Resumed'
    BY <1>1, <1>3, <1>6, <2>8, <2>10, <2>13, <2>14, <2>15 DEF Resumed, Waiting
  <2> QED
    BY <1>5, <2>16, ResumedNormalNext
<1>9. CASE /\ TicksCounted # FifthInterrupt
           /\ UNCHANGED blockedTaskForCollatz
           /\ Preempt(state, readyQueue, priority)
  <2> DEFINE q == AddToReadyQueue(<< >>, 1, priority)
             st == MakeReady(state, 1)
  <2>1. Schedule(st, q)
    BY <1>1, <1>2, <1>9 DEF Preempt
  <2>2. /\ st \in [Pids -> States] /\ st[InitPid] = "Blocked" /\ st[1] = "Ready"
        /\ \A r \in Pids : r >= 2 => st[r] = "Free"
    BY <1>1, <1>2, <1>4 DEF MakeReady, States
  <2>3. ReadyIn(st) = {1}
    BY <1>2, <2>2 DEF ReadyIn
  <2>4. Holds(q, {1})
    BY <1>2, QueueOfOne
  <2>5. \A r \in Pids : st[r] # "Running"
    BY <1>2, <2>2
  <2> HIDE DEF st, q
  <2>6. /\ fault' = fault /\ currentTask' \in Pids /\ state' \in [Pids -> States]
        /\ QueueExact' /\ RunningExact'
        /\ \A p \in Pids : \A s \in {"Free", "Blocked", "Terminated"} :
              state'[p] = s <=> st[p] = s
    BY <1>2, <2>1, <2>2, <2>3, <2>4, <2>5, Dispatches
  <2>7. state'[InitPid] = "Blocked" /\ \A r \in Pids : r >= 2 => state'[r] = "Free"
    BY <1>2, <2>2, <2>6
  <2>8. currentTask' = 1 /\ state'[1] = "Running"
    BY <1>2, <2>6, <2>7 DEF RunningExact
  <2>9. readyQueue' = << >>
    <3>1. ReadyIn(state') = {}
      BY <1>2, <2>7, <2>8 DEF ReadyIn
    <3>2. Holds(readyQueue', ReadyIn(state'))
      BY <2>6 DEF QueueExact, ReadyIn
    <3> QED
      BY <3>1, <3>2, HoldsNothing
  <2>10. TypeOK'
    BY <1>1, <1>2, <1>7, <1>9, <2>6 DEF Waiting
  <2>11. /\ interruptNumAfterCollatz' >= 0
         /\ interruptNumAfterCollatz' < FifthInterrupt => ran'[1] <= interruptNumAfterCollatz'
    <3>1. /\ interruptNumAfterCollatz \in -1 .. 6
          /\ TicksCounted = IF interruptNumAfterCollatz \in {-1, 6}
                            THEN interruptNumAfterCollatz
                            ELSE interruptNumAfterCollatz + 1
          /\ interruptNumAfterCollatz >= 0
          /\ interruptNumAfterCollatz < 5 => ran[1] <= interruptNumAfterCollatz
      BY <1>1, CounterTyped DEF Waiting, FifthInterrupt
    <3>3. ran'[1] \in {ran[1], ran[1] + 1} /\ ran[1] \in Nat
      BY <1>1, <1>2, TickSets DEF Ctl, UserTyped
    <3>4. /\ TicksCounted >= 0
          /\ TicksCounted < 5 => ran[1] + 1 <= TicksCounted
      BY <3>1, <3>3
    <3>5. TicksCounted < 5 => ran'[1] <= TicksCounted
      BY <3>1, <3>3, <3>4
    <3> QED
      BY <1>6, <3>4, <3>5 DEF FifthInterrupt
  <2>12. Waiting'
    BY <1>1, <1>3, <1>6, <1>9, <2>6, <2>7, <2>8, <2>9, <2>10, <2>11 DEF Waiting
  <2> QED
    BY <1>5, <2>12
<1> QED
  BY <1>8, <1>9, WaitingTickSchedules

\* Collatz's steps before its exit.
LEMMA WaitingCall ==
    ASSUME Configured, Waiting, ForkPidStep(1) \/ ExecStep(1) \/ UNCHANGED vars,
           Ctl', pc'[InitPid] = pc[InitPid], ran' = ran
    PROVE  Waiting' /\ EndedKept
<1>1. TypeOK /\ numTasks = 2
  BY DEF Waiting
<1>2. 1 \in Pids
  BY <1>1, WaitingPids
<1>3. UNCHANGED <<numTasks, currentTask, state, ppid, priority, waitVars, forkPid,
                  readyQueue, collatzVars, fault>>
  BY DEF ForkPidStep, ForkPid, ExecStep, Execve, vars, waitVars, collatzVars
<1>4. UNCHANGED <<waitingChild, waitingChildId, parentTookInWait,
                  interruptNumAfterCollatz, collatzTask, blockedTaskForCollatz,
                  ignoreSchedule>>
  BY <1>3 DEF waitVars, collatzVars
<1>5. eax' \in [Pids -> Pids \cup {NoTask, Pending}]
  <2>1. CASE UNCHANGED vars
    BY <1>1, <2>1 DEF vars, TypeOK
  <2>2. CASE ForkPidStep(1)
    BY <1>1, <1>2, <2>2 DEF ForkPidStep, ForkPid, TypeOK, Calling
  <2>3. CASE ExecStep(1)
    <3>1. CASE eax[1] = 0
      <4>1. eax' = [eax EXCEPT ![currentTask] = 0] /\ 0 \in Pids
        BY <1>1, <2>3, <3>1, WaitingPids DEF ExecStep, Execve, InitPid
      <4> QED
        BY <1>1, <4>1 DEF TypeOK
    <3>2. CASE eax[1] # 0
      BY <1>1, <2>3, <3>2 DEF ExecStep, vars, TypeOK
    <3> QED
      BY <3>1, <3>2
  <2> QED
    BY <2>1, <2>2, <2>3
<1>6. TypeOK'
  BY <1>1, <1>3, <1>4, <1>5 DEF TypeOK
<1>7. Waiting'
  BY <1>3, <1>4, <1>6 DEF Waiting
<1> QED
  BY <1>3, <1>7 DEF EndedKept

\* Collatz ends after the fifth interrupt and resumes init.
LEMMA WaitingExit ==
    ASSUME Configured, LongDelays, Waiting, ExitStep(1)
    PROVE  Normal' /\ EndedKept
<1>1. /\ Base /\ Ctl /\ TypeOK /\ LifeCycleType = "B3" /\ numTasks = 2 /\ currentTask = 1
      /\ readyQueue = << >> /\ state[InitPid] = "Blocked" /\ state[1] = "Running"
      /\ fault = "None" /\ priority[InitPid] = High /\ SetsUp
      /\ \A p \in Pids : p >= 2 => state[p] = "Free"
      /\ \A p \in Pids : ~waitingChild[p] /\ ~parentTookInWait[p]
      /\ blockedTaskForCollatz = InitPid /\ collatzTask = 1
  BY WaitingBase DEF Waiting, SetsUp
<1>2. /\ 1 \in Pids /\ InitPid \in Pids
      /\ \A r \in Pids : r = InitPid \/ r = 1 \/ r >= 2
      /\ InitPid = 0 /\ \A r \in Pids : r \in Nat /\ r # NoTask
  BY <1>1, WaitingPids
<1>3. /\ Ctl' /\ prog[1] \in Programs /\ pc[1] = 4
  BY <1>1, <1>2, ExitCtl
<1>4. interruptNumAfterCollatz >= FifthInterrupt
  <2>1. 1 \in 1 .. numTasks - 1
    BY <1>1
  <2>2. prog[1] # "init"
    BY <1>3 DEF Programs
  <2>3. ran[1] >= MinTicks[prog[1]] /\ ran[1] \in Nat
    BY <1>1, <1>2, <1>3, <2>1, <2>2 DEF Ctl, ChildCtl, UserTyped
  <2>4. MinTicks[prog[1]] \in Nat /\ MinTicks[prog[1]] >= 5
    BY <1>1, <1>3 DEF LongDelays, FifthInterrupt
  <2>5. interruptNumAfterCollatz \in -1 .. 6
    BY <1>1, CounterTyped
  <2>6. interruptNumAfterCollatz < 5 => ran[1] <= interruptNumAfterCollatz
    BY DEF Waiting, FifthInterrupt
  <2> QED
    BY <2>3, <2>4, <2>5, <2>6 DEF FifthInterrupt
<1>5. state \in [Pids -> States]
  BY <1>1 DEF TypeOK, States
<1> DEFINE ended == [state EXCEPT ![1] = "Terminated"]
           st == MakeReady(ended, InitPid)
           q == AddToReadyQueue(<< >>, InitPid, priority)
<1>6. ppid[1] \in Pids \cup {NoTask}
  BY <1>1, <1>2 DEF TypeOK
<1>7. ~WakesParent(1)
  BY <1>1, <1>2, <1>6 DEF WakesParent
<1>8. ResumesBlocked(1)
  BY <1>1, <1>2 DEF ResumesBlocked
<1>9. /\ UNCHANGED <<parentTookInWait, waitingChild, eax>>
      /\ collatzTask' = NoTask /\ Schedule(st, q)
      /\ UNCHANGED <<numTasks, ppid, priority, waitingChildId, forkPid,
                     interruptNumAfterCollatz, blockedTaskForCollatz, ignoreSchedule>>
  BY <1>1, <1>7, <1>8 DEF ExitStep, Exit
<1>10. /\ st \in [Pids -> States] /\ st[InitPid] = "Ready" /\ st[1] = "Terminated"
       /\ \A r \in Pids : r >= 2 => st[r] = "Free"
  BY <1>1, <1>2, <1>5 DEF MakeReady, States
<1>11. ReadyIn(st) = {InitPid}
  BY <1>2, <1>10 DEF ReadyIn
<1>12. Holds(q, {InitPid})
  BY <1>2, QueueOfOne
<1>13. \A r \in Pids : st[r] # "Running"
  BY <1>2, <1>10
<1> HIDE DEF st, q
<1>14. /\ fault' = fault /\ currentTask' \in Pids /\ state' \in [Pids -> States]
       /\ QueueExact' /\ RunningExact'
       /\ \A p \in Pids : \A s \in {"Free", "Blocked", "Terminated"} :
             state'[p] = s <=> st[p] = s
  BY <1>2, <1>9, <1>10, <1>11, <1>12, <1>13, Dispatches
<1>15. /\ state'[1] = "Terminated" /\ \A r \in Pids : r >= 2 => state'[r] = "Free"
  BY <1>2, <1>10, <1>14
<1>16. currentTask' = InitPid /\ state'[InitPid] = "Running"
  BY <1>2, <1>14, <1>15 DEF RunningExact
<1>17. TypeOK'
  <2>1. readyQueue' \in Seq(Pids)
    BY <1>14 DEF QueueExact, Holds
  <2> QED
    BY <1>1, <1>9, <1>14, <2>1 DEF TypeOK, States
<1>18. NobodyBlocked'
  BY <1>4, <1>9 DEF NobodyBlocked
<1>19. pc'[InitPid] = 7
  BY DEF ExitStep, userVars, Waiting
<1>20. \A p \in Pids : ppid'[p] # NoTask => ppid'[p] < p
  BY <1>9 DEF Waiting
<1>21. Resumed'
  BY <1>1, <1>3, <1>9, <1>14, <1>15, <1>16, <1>17, <1>18, <1>19, <1>20 DEF Resumed
<1>22. EndedKept
  BY <1>1, <1>2 DEF EndedKept
<1> QED
  BY <1>21, <1>22, ResumedNormalNext

\* Every step while init is blocked for collatz.
LEMMA WaitingStep ==
    ASSUME Configured, LongDelays, Waiting, [NextKernel]_allVars
    PROVE  (Waiting' \/ Normal') /\ EndedKept
<1>1. Base /\ Ctl /\ TypeOK /\ numTasks = 2 /\ currentTask = 1
  BY WaitingBase DEF Waiting
<1>2. Ctl'
  BY <1>1, CtlStep
<1>3. CASE UNCHANGED allVars
  <2>1. UNCHANGED vars /\ pc' = pc /\ ran' = ran
    BY <1>3 DEF allVars, userVars
  <2> QED
    BY <1>2, <2>1, WaitingCall
<1>4. CASE Tick
  BY <1>4, WaitingTick
<1>5. ASSUME NEW p \in Pids, Step(p) PROVE (Waiting' \/ Normal') /\ EndedKept
  <2>1. p = 1 /\ p \in 1 .. numTasks - 1
    BY <1>1, <1>5, StepsAre
  <2>2. ran' = ran /\ pc'[InitPid] = pc[InitPid]
    BY <1>1, <1>5, <2>1, ChildStepSets
  <2>3. CASE ExitStep(p)
    BY <2>1, <2>3, WaitingExit
  <2>4. CASE ForkPidStep(p) \/ ExecStep(p)
    BY <1>2, <2>1, <2>2, <2>4, WaitingCall
  <2>5. CASE LoadStep(p) \/ StoreStep(p) \/ WorkStep(p)
    <3>1. UNCHANGED vars
      BY <1>1, <2>5, WorkerCtl
    <3> QED
      BY <1>2, <2>2, <3>1, WaitingCall
  <2>6. CASE \/ ForkStep(p) \/ PriorityStep(p) \/ CollatzAddedStep(p) \/ BlockStep(p)
             \/ IgnoreStep(p) \/ WaitStep(p) \/ AgainStep(p)
    <3>1. PICK op \in {"fork", "priority", "collatzadded", "block", "ignore", "wait", "again"} :
             At(p, op)
      BY <2>6 DEF ForkStep, PriorityStep, CollatzAddedStep, BlockStep, IgnoreStep, WaitStep,
         AgainStep
    <3>2. op \in {"forkpid", "exec", "load", "store", "work", "exit"}
      BY <1>1, <2>1, <3>1, RoleOfChild
    <3> QED
      BY <3>1, <3>2
  <2> QED
    BY <1>5, <2>3, <2>4, <2>5, <2>6 DEF Step
<1> QED
  BY <1>3, <1>4, <1>5 DEF NextKernel

-----------------------------------------------------------------------------
(* The invariant of the lifecycles *)

KernelInv == Normal \/ Waiting

\* Every step keeps the invariant and lets no ended task return.
LEMMA KernelStep ==
    ASSUME Configured, LongDelays, KernelInv, [NextKernel]_allVars
    PROVE  KernelInv' /\ EndedKept
<1>1. CASE Waiting
  BY <1>1, WaitingStep DEF KernelInv
<1>2. CASE Normal
  <2>1. CASE \A p \in Pids : ~BlockStep(p)
    BY <1>2, <2>1, NormalStep DEF KernelInv
  <2>2. ASSUME NEW p \in Pids, BlockStep(p) PROVE KernelInv' /\ EndedKept
    BY <1>2, <2>2, WaitingStarts DEF KernelInv
  <2> QED
    BY <2>1, <2>2
<1> QED
  BY <1>1, <1>2 DEF KernelInv

\* The invariant holds when init starts.
LEMMA InitNormal ==
    ASSUME Configured, InitKernel
    PROVE  Normal
<1>1. Kept /\ Ctl
  BY InitKernelKept, InitKernelCtl
<1>2. /\ numTasks = 1 /\ interruptNumAfterCollatz = -1 /\ blockedTaskForCollatz = NoTask
      /\ ignoreSchedule = FALSE /\ currentTask = NoTask
      /\ pc = [p \in Pids |-> 1] /\ ran = [p \in Pids |-> 0]
  BY DEF InitKernel, Init, InitPrograms
<1>3. Base
  BY <1>1, KeptBase
<1>4. pc[InitPid] = 1
  BY <1>2, <1>3, PidRange DEF Base
<1>5. Uncounted
  BY <1>2 DEF Uncounted
<1>6. Fresh
  <2>1. 1 .. numTasks - 1 = {}
    BY <1>2
  <2> QED
    BY <2>1 DEF Fresh
<1>7. CountB3
  BY <1>2, <1>4 DEF CountB3
<1>8. CountB4
  <2>1. OthersFirst
    <3>1. \A p \in 1 .. 4 : ForkAt(p) \in Nat
      BY ForkPlace
    <3> QED
      BY <1>4, <3>1 DEF OthersFirst
  <2>2. WorkCounted
    BY <1>2 DEF WorkCounted
  <2>3. /\ ~(pc[InitPid] \in 2 .. 19) /\ pc[InitPid] <= 6 /\ ~(pc[InitPid] > 6)
        /\ ~(pc[InitPid] \in 7 .. 19)
    BY <1>4
  <2> QED
    BY <1>2, <2>1, <2>2, <2>3 DEF CountB4, NoTask
<1> QED
  BY <1>1, <1>5, <1>6, <1>7, <1>8 DEF Normal

\* The invariant of the lifecycles.
THEOREM KernelInvariant ==
    Configured /\ LongDelays /\ SpecKernel =>
        [](KernelInv) /\ [][EndedKept]_vars
<1> SUFFICES ASSUME Configured, LongDelays
             PROVE  SpecKernel => []KernelInv /\ [][EndedKept]_vars
  OBVIOUS
<1>1. InitKernel => KernelInv
  BY InitNormal DEF KernelInv
<1>2. KernelInv /\ [NextKernel]_allVars => KernelInv'
  BY KernelStep
<1>3. KernelInv /\ [NextKernel]_allVars => [EndedKept]_vars
  BY KernelStep
<1> QED
  BY <1>1, <1>2, <1>3, PTL DEF SpecKernel

-----------------------------------------------------------------------------
(* What the invariant says of the lifecycles *)

\* The queue is exact, also while init is blocked for collatz.
LEMMA KernelQueueExact ==
    ASSUME KernelInv
    PROVE  ReadyQueueExact
<1>1. CASE Normal
  BY <1>1, ExactQueue DEF Normal, Kept
<1>2. CASE Waiting
  <2>1. readyQueue = << >> /\ currentTask = 1 /\ TypeOK /\ numTasks = 2
    BY <1>2 DEF Waiting
  <2>2. /\ 1 \in Pids /\ \A r \in Pids : r = InitPid \/ r = 1 \/ r >= 2
    BY <2>1, WaitingPids
  <2>3. DOMAIN state = Pids /\ {p \in Pids : state[p] = "Ready"} = {}
    BY <1>2, <2>1, <2>2 DEF Waiting, TypeOK
  <2>4. {p \in Pids : state[p] = "Running"} = {1}
    BY <1>2, <2>2 DEF Waiting
  <2>5. IsInjective(<< >>) /\ Range(<< >>) = {}
    BY DEF IsInjective, Range
  <2>6. {1} = {currentTask} \ {NoTask}
    BY <2>1 DEF NoTask
  <2> QED
    BY <2>1, <2>3, <2>4, <2>5, <2>6 DEF ReadyQueueExact
<1> QED
  BY <1>1, <1>2 DEF KernelInv

\* The control invariant is a part of it.
LEMMA KernelCtl == KernelInv => Ctl /\ Base
BY KeptBase, WaitingBase DEF KernelInv, Normal, Waiting

\* A child is at its forkpid or its execve until it has become its program.
LEMMA ChildrenDoBecome ==
    ASSUME Configured, KernelInv
    PROVE  ChildrenBecomePrograms
<1>1. Ctl /\ Base /\ UserTyped
  BY KernelCtl DEF Ctl
<1>2. WellLaid(script) /\ NumForks(script) \in Nat
  BY <1>1, CtlScript
<1>3. ASSUME NEW p \in 1 .. numTasks - 1, prog[p] = "init"
      PROVE  script[pc[p]].op \in {"forkpid", "exec"}
  <2>1. p \in 1 .. NumForks(script)
    BY <1>1, <1>2, PidRange DEF Base, Ctl, InitCtl
  <2>2. pc[p] = ForkAt(p) + 1 \/ pc[p] = ForkAt(p) + 2
    BY <1>1, <1>3 DEF Ctl, ChildCtl
  <2> QED
    BY <1>2, <2>1, <2>2 DEF WellLaid
<1> QED
  BY <1>3 DEF ChildrenBecomePrograms

\* The init programs are sequences of instructions.
LEMMA ScriptsAreSequences ==
    ASSUME Configured, NEW s \in Scripts
    PROVE  s \in Seq(Instructions)
<1>1. \A a \in Programs : CopiesOf(a) \in Seq(Programs)
  BY SeqDef DEF Configured, CopiesOf
<1>2. \A a, b \in Programs : CopiesOf(a) \o CopiesOf(b) \in Seq(Programs)
  BY <1>1, ConcatProperties
<1>3. /\ "collatz" \in Programs /\ "longRunning" \in Programs
      /\ "binarySearch" \in Programs /\ "linearSearch" \in Programs
  BY DEF Programs
<1>4. ASSUME NEW ps \in Seq(Programs) PROVE SpawnAll(ps) \o WaitAll \in Seq(Instructions)
  BY SpawnAllPlaces, WaitAllPlaces, ConcatAt
<1>5. CASE LifeCycleType = "A"
  BY <1>2, <1>3, <1>4, <1>5 DEF Scripts, initA
<1>6. CASE LifeCycleType = "B1"
  <2>1. PICK a \in Programs : s = initB1(a)
    BY <1>6 DEF Scripts
  <2> QED
    BY <1>1, <1>4, <2>1 DEF initB1
<1>7. CASE LifeCycleType = "B2"
  <2>1. PICK d \in {e \in Programs \X Programs : e[1] # e[2]} : s = initB2(d[1], d[2])
    BY <1>7 DEF Scripts
  <2> QED
    BY <1>2, <1>4, <2>1 DEF initB2
<1>8. /\ SpawnAt("collatz", Low) \in Seq(Instructions)
      /\ \A a \in Programs : \A prio \in {Low, Medium, High} :
            SpawnAt(a, prio) \in Seq(Instructions)
  BY <1>3, SpawnAtPlaces
<1>9. /\ Instr("collatzadded", NoArg) \in Instructions /\ Instr("block", NoArg) \in Instructions
      /\ Instr("ignore", TRUE) \in Instructions /\ Instr("ignore", FALSE) \in Instructions
  <2>1. /\ NoArg \in Args /\ TRUE \in Args /\ FALSE \in Args
    BY Zenon DEF Args
  <2>2. /\ "collatzadded" \in SpawnOps \cup SetUpOps \cup WaitOps
        /\ "block" \in SpawnOps \cup SetUpOps \cup WaitOps
        /\ "ignore" \in SpawnOps \cup SetUpOps \cup WaitOps
    BY DEF SetUpOps
  <2> QED
    BY <2>1, <2>2, InstrTyped
<1>10. /\ <<Instr("collatzadded", NoArg), Instr("block", NoArg)>> \in Seq(Instructions)
       /\ <<Instr("collatzadded", NoArg)>> \in Seq(Instructions)
       /\ <<Instr("ignore", TRUE)>> \in Seq(Instructions)
       /\ <<Instr("ignore", FALSE)>> \in Seq(Instructions)
  <2>1. \A e \in Instructions : <<e>> \in Seq(Instructions)
    BY OneInstruction
  <2>2. \A e, d \in Instructions : <<e, d>> \in Seq(Instructions)
    <3> SUFFICES ASSUME NEW e \in Instructions, NEW d \in Instructions
                 PROVE  <<e, d>> \in Seq(Instructions)
      OBVIOUS
    <3>1. <<e>> \in Seq(Instructions)
      BY <2>1
    <3>2. <<e, d>> = Append(<<e>>, d)
      OBVIOUS
    <3> QED
      BY <3>1, <3>2, AppendProperties
  <2> QED
    BY <1>9, <2>1, <2>2, Zenon
<1>11. \A u, v \in Seq(Instructions) : u \o v \in Seq(Instructions)
  BY ConcatProperties
<1>12. WaitAll \in Seq(Instructions)
  BY WaitAllPlaces
<1>13. CASE LifeCycleType = "B3"
  <2>1. initB3 \in Seq(Instructions)
    BY <1>3, <1>8, <1>10, <1>11, <1>12 DEF initB3
  <2> QED
    BY <1>13, <2>1 DEF Scripts
<1>14. CASE LifeCycleType = "B4"
  <2>1. initB4 \in Seq(Instructions)
    BY <1>3, <1>8, <1>10, <1>11, <1>12 DEF initB4
  <2> QED
    BY <1>14, <2>1 DEF Scripts
<1> QED
  BY <1>5, <1>6, <1>7, <1>13, <1>14, LifeCycleAssumption

\* Each program an init program spawns has one fork.
LEMMA SpawnedAreForks ==
    ASSUME Configured, script \in Scripts
    PROVE  NumSpawned = NumForks(script)
<1>1. WellLaid(script) /\ script \in Seq(Instructions)
  BY ScriptsWellLaid, ScriptsAreSequences
<1>2. NumForks(script) \in Nat /\ DOMAIN script = 1 .. Len(script) /\ Len(script) \in Nat
  BY <1>1 DEF WellLaid
<1> DEFINE n == NumForks(script)
           S == {i \in DOMAIN script : script[i].op = "fork"}
           f == [p \in 1 .. n |-> ForkAt(p)]
<1>3. \A p \in 1 .. n : ForkAt(p) \in S
  <2> SUFFICES ASSUME NEW p \in 1 .. n PROVE ForkAt(p) \in S
    OBVIOUS
  <2>1. p \in Nat /\ 1 <= p
    BY <1>2
  <2>2. ForkAt(p) \in Nat /\ 1 <= ForkAt(p)
    BY <2>1, ForkPlace
  <2>3. ForkAt(p) + 2 < Len(script) - 2 /\ script[ForkAt(p)].op = "fork"
    BY <1>1 DEF WellLaid
  <2>4. ForkAt(p) \in 1 .. Len(script)
    BY <1>2, <2>2, <2>3
  <2> QED
    BY <1>2, <2>3, <2>4
<1>4. \A p, r \in 1 .. n : p # r => ForkAt(p) # ForkAt(r)
  <2> SUFFICES ASSUME NEW p \in 1 .. n, NEW r \in 1 .. n, p < r PROVE ForkAt(p) # ForkAt(r)
    BY <1>2
  <2>1. p \in Nat /\ r \in Nat /\ 1 <= p /\ 1 <= r
    BY <1>2
  <2>2. ForkAt(p) \in Nat /\ ForkAt(p) + 3 <= ForkAt(r) /\ ForkAt(r) \in Nat
    BY <2>1, ForksInOrder, ForkPlace
  <2> QED
    BY <2>2
<1>5. \A i \in S : \E p \in 1 .. n : i = ForkAt(p)
  <2> SUFFICES ASSUME NEW i \in S PROVE \E p \in 1 .. n : i = ForkAt(p)
    OBVIOUS
  <2>1. i \in 1 .. Len(script) /\ script[i].op = "fork"
    BY <1>2
  <2> QED
    BY <1>1, <2>1 DEF WellLaid, SpawnOps
<1> HIDE DEF S, n
<1>6. f \in Bijection(1 .. n, S)
  <2>1. f \in [1 .. n -> S]
    BY <1>3
  <2>2. \A p, r \in 1 .. n : f[p] = f[r] => p = r
    BY <1>4
  <2>3. \A i \in S : \E p \in 1 .. n : f[p] = i
    BY <1>5
  <2>4. DOMAIN f = 1 .. n
    OBVIOUS
  <2> HIDE DEF f
  <2>5. f \in Injection(1 .. n, S)
    BY <2>1, <2>2, <2>4, Zenon DEF Injection, IsInjective
  <2>6. f \in Surjection(1 .. n, S)
    BY <2>1, <2>3, Zenon DEF Surjection
  <2> QED
    BY <2>5, <2>6, Zenon DEF Bijection
<1>7. IsFiniteSet(1 .. n) /\ Cardinality(1 .. n) = n
  BY <1>2, FS_Interval DEF n
<1>8. Cardinality(S) = n
  BY <1>6, <1>7, FS_Bijection DEF ExistsBijection
<1> QED
  BY <1>8 DEF NumSpawned, S, n

\* Init is done when it has taken all the programs it spawned.
LEMMA AllDoTerminate ==
    ASSUME Configured, KernelInv
    PROVE  AllProgramsTerminated
<1>1. Ctl /\ Base /\ UserTyped /\ TypeOK
  BY KernelCtl DEF Ctl, Base
<1>2. /\ WellLaid(script) /\ NumForks(script) \in Nat /\ Len(script) \in Nat
      /\ NumSpawned = NumForks(script)
  BY <1>1, CtlScript, SpawnedAreForks DEF UserTyped
<1> SUFFICES ASSUME InitOp = "done"
             PROVE  /\ numTasks = NumSpawned + 1
                    /\ \A p \in 1 .. NumSpawned :
                         state[p] = "Terminated" /\ parentTookInWait[p]
  BY DEF AllProgramsTerminated, InitDone, InitOp
<1>3. AllTaken
  BY <1>1 DEF Ctl, InitCtl
<1>4. pc[InitPid] >= Len(script) - 2 /\ pc[InitPid] \in 1 .. Len(script)
  BY <1>1, <1>2 DEF Ctl, InitCtl, WellLaid, InitOp, WaitOps
<1>5. \A p \in 1 .. NumForks(script) : p < numTasks
  <2> SUFFICES ASSUME NEW p \in 1 .. NumForks(script) PROVE p < numTasks
    OBVIOUS
  <2>1. ForkAt(p) + 2 < Len(script) - 2
    BY <1>2 DEF WellLaid
  <2>2. ForkAt(p) \in Nat
    BY <1>2, ForkPlace
  <2>3. ForkAt(p) < pc[InitPid]
    BY <1>2, <1>4, <2>1, <2>2
  <2> QED
    BY <1>1, <2>3 DEF Ctl, InitCtl
<1>6. numTasks \in Nat /\ numTasks >= 1 /\ numTasks - 1 <= NumForks(script)
  BY <1>1, PidRange DEF Base, Ctl, InitCtl
<1>7. numTasks = NumForks(script) + 1
  <2>1. CASE NumForks(script) = 0
    BY <1>6, <2>1
  <2>2. CASE NumForks(script) > 0
    <3>1. NumForks(script) < numTasks
      BY <1>2, <1>5, <2>2
    <3> QED
      BY <1>2, <1>6, <3>1
  <2> QED
    BY <1>2, <2>1, <2>2
<1>8. Normal
  <2>1. ASSUME Waiting PROVE FALSE
    <3>1. SetsUp /\ LifeCycleType = "B3" /\ pc[InitPid] = 7
      BY <2>1 DEF Waiting, SetsUp
    <3>2. pc[InitPid] = FirstWait + 2 /\ FirstWait = 19
      BY <1>1, <3>1, SettingUp DEF SetUpAt, FirstWait
    <3> QED
      BY <3>1, <3>2
  <2> QED
    BY <2>1 DEF KernelInv
<1>9. ASSUME NEW p \in 1 .. NumSpawned PROVE state[p] = "Terminated" /\ parentTookInWait[p]
  <2>1. p \in 1 .. numTasks - 1
    BY <1>2, <1>6, <1>7
  <2>2. p \in Pids
    BY <1>1, <2>1, PidRange DEF Base
  <2> QED
    BY <1>3, <1>8, <2>1, <2>2 DEF AllTaken, Normal, Kept, TakenEnded
<1> QED
  BY <1>2, <1>7, <1>9

\* Only initB4 has a critical region.
LEMMA RegionIsB4 ==
    ASSUME Configured, script \in Scripts, HasCriticalRegion
    PROVE  LifeCycleType = "B4"
<1>1. PICK i \in DOMAIN script : script[i].op = "ignore"
  BY DEF HasCriticalRegion
<1>2. WellLaid(script) /\ i \in 1 .. Len(script)
  <2>1. script \in Seq(Instructions)
    BY ScriptsAreSequences
  <2> QED
    BY <1>1, <2>1, ScriptsWellLaid
<1>3. CASE LifeCycleType = "B3"
  BY <1>1, <1>2, <1>3, SetUpScript DEF SetUpLaid, SetsUp
<1>4. CASE LifeCycleType \notin {"B3", "B4"}
  BY <1>1, <1>2, <1>4 DEF WellLaid, SetUpOps
<1> QED
  BY <1>3, <1>4, LifeCycleAssumption

\* B4: interrupts are counted from collatz's place in the queue on.
LEMMA RaisedBehindRegion ==
    ASSUME Configured, KernelInv
    PROVE  RaisedAfterCriticalRegion
<1> SUFFICES ASSUME HasCriticalRegion, interruptNumAfterCollatz > 0
             PROVE  ~ignoreSchedule /\ numTasks = NumSpawned + 1
  BY DEF RaisedAfterCriticalRegion
<1>0. LifeCycleType = "B4"
  BY KernelCtl, RegionIsB4 DEF Ctl, UserTyped
<1>1. Normal /\ Ctl /\ Base /\ TypeOK /\ SetsUp /\ UserTyped
  BY <1>0, KernelCtl DEF KernelInv, Waiting, SetsUp, Ctl, Base
<1>2. /\ pc[InitPid] <= 6 <=> interruptNumAfterCollatz = -1
      /\ pc[InitPid] \in 7 .. 19 => interruptNumAfterCollatz = 0
      /\ ignoreSchedule <=> pc[InitPid] \in 2 .. 19
  BY <1>0, <1>1 DEF Normal, CountB4
<1>3. SetUpAt
  BY <1>1, SettingUp
<1>4. /\ pc[InitPid] \in Nat /\ interruptNumAfterCollatz \in -1 .. 6
      /\ numTasks \in 1 .. 5 /\ NumForks(script) = 4
      /\ \A p \in 1 .. 4 : p < numTasks <=> ForkAt(p) < pc[InitPid]
  BY <1>1, <1>3, CounterTyped DEF SetUpAt
<1>5. pc[InitPid] > 19
  BY <1>2, <1>4
<1>6. 4 < numTasks
  BY <1>1, <1>4, <1>5, ForkPlaces
<1>7. NumSpawned = 4
  BY <1>1, <1>4, SpawnedAreForks DEF UserTyped
<1>8. ~(pc[InitPid] \in 2 .. 19)
  BY <1>4, <1>5
<1> QED
  BY <1>2, <1>4, <1>6, <1>7, <1>8

\* In every lifecycle the ready queue holds each Ready task once and nothing
\* else, whatever init and the programs call and whenever a tick falls.
THEOREM LifeCycleQueueExact ==
    Configured /\ LongDelays => (SpecKernel => []ReadyQueueExact)
<1> SUFFICES ASSUME Configured, LongDelays PROVE SpecKernel => []ReadyQueueExact
  OBVIOUS
<1>1. SpecKernel => []KernelInv
  BY KernelInvariant, PTL
<1>2. KernelInv => ReadyQueueExact
  BY KernelQueueExact
<1> QED
  BY <1>1, <1>2, PTL

\* A forked child runs nothing of the init program but the way from its fork
\* to its execve: the pid that each side of the fork sees is its own.
THEOREM ChildrenNeverStray ==
    Configured /\ LongDelays => (SpecKernel => []ChildrenBecomePrograms)
<1> SUFFICES ASSUME Configured, LongDelays PROVE SpecKernel => []ChildrenBecomePrograms
  OBVIOUS
<1>1. SpecKernel => []KernelInv
  BY KernelInvariant, PTL
<1>2. KernelInv => ChildrenBecomePrograms
  BY ChildrenDoBecome
<1> QED
  BY <1>1, <1>2, PTL

\* When init stops waiting, each task it forked has exited, and init has been
\* given the pid of each: "All programs terminated" is true when printed.
THEOREM AllProgramsAreDone ==
    Configured /\ LongDelays => (SpecKernel => []AllProgramsTerminated)
<1> SUFFICES ASSUME Configured, LongDelays PROVE SpecKernel => []AllProgramsTerminated
  OBVIOUS
<1>1. SpecKernel => []KernelInv
  BY KernelInvariant, PTL
<1>2. KernelInv => AllProgramsTerminated
  BY AllDoTerminate
<1> QED
  BY <1>1, <1>2, PTL

\* B4: the interrupts are counted only once the ready queue is prepared.
THEOREM CountedAfterRegion ==
    Configured /\ LongDelays => (SpecKernel => []RaisedAfterCriticalRegion)
<1> SUFFICES ASSUME Configured, LongDelays PROVE SpecKernel => []RaisedAfterCriticalRegion
  OBVIOUS
<1>1. SpecKernel => []KernelInv
  BY KernelInvariant, PTL
<1>2. KernelInv => RaisedAfterCriticalRegion
  BY RaisedBehindRegion
<1> QED
  BY <1>1, <1>2, PTL

\* No tick, wake-up, priority call or raise of collatz brings back a task
\* that has exited.
THEOREM ExitedTasksStay ==
    Configured /\ LongDelays => (SpecKernel => TerminatedStays)
<1> SUFFICES ASSUME Configured, LongDelays PROVE SpecKernel => TerminatedStays
  OBVIOUS
<1>1. SpecKernel => []KernelInv /\ [][EndedKept]_vars
  BY KernelInvariant, PTL
<1>2. KernelInv /\ [EndedKept]_vars => [TerminatedKept]_vars
  <2>1. KernelInv => DOMAIN state = Pids
    BY KernelCtl DEF Base, TypeOK
  <2> QED
    BY <2>1 DEF EndedKept, TerminatedKept
<1> QED
  BY <1>1, <1>2, PTL DEF TerminatedStays

-----------------------------------------------------------------------------
(* Which programs the tasks run *)

\* The program that the pth task of an init program becomes, and the tasks
\* that become a.
ProgramOf(s, p) == s[ForkAt(p) + 2].arg
RunsOf(s, a) == {p \in 1 .. NumForks(s) : ProgramOf(s, p) = a}

\* "Each process can run at max 10 times in a lifecycle" (ReadMe).
EnoughInputs ==
    /\ NumInputs \in Nat /\ NumInputs >= 1
    /\ \A a \in Programs : Copies[a] <= NumInputs

\* In B3 and B4 the four tasks run four different programs.
LEMMA SetUpsDiffer ==
    ASSUME SetsUp, NEW s \in Scripts
    PROVE  /\ NumForks(s) = 4
           /\ \A p, r \in 1 .. 4 : p # r => ProgramOf(s, p) # ProgramOf(s, r)
<1>1. NumForks(s) = 4
  BY DEF SetsUp, NumForks
<1>2. \A p \in 1 .. 4 : p = 1 \/ p = 2 \/ p = 3 \/ p = 4
  OBVIOUS
<1>3. /\ ForkAt(1) + 2 = (IF LifeCycleType = "B3" THEN 3 ELSE 4)
      /\ ForkAt(2) + 2 = 9 /\ ForkAt(3) + 2 = 13 /\ ForkAt(4) + 2 = 17
  BY ForkPlaces
<1>4. /\ ProgramOf(s, 1) = "collatz" /\ ProgramOf(s, 2) = "longRunning"
      /\ ProgramOf(s, 3) = "binarySearch" /\ ProgramOf(s, 4) = "linearSearch"
  <2>1. CASE LifeCycleType = "B3"
    BY <1>3, <2>1, initB3Places DEF Scripts, LayoutB3, ProgramOf
  <2>2. CASE LifeCycleType = "B4"
    BY <1>3, <2>2, initB4Places DEF Scripts, LayoutB4, ProgramOf
  <2> QED
    BY <2>1, <2>2 DEF SetsUp
<1>5. \A p, r \in 1 .. 4 : p # r => ProgramOf(s, p) # ProgramOf(s, r)
  BY <1>2, <1>4
<1> QED
  BY <1>1, <1>5

\* A program spawned n times runs in n tasks; another, behind it, in the next.
LEMMA CopiesRun ==
    ASSUME Configured, NEW a \in Programs, NEW b \in Programs, a # b,
           NEW c \in Programs
    PROVE  LET ps == CopiesOf(a) \o CopiesOf(b)
           IN  /\ ps \in Seq(Programs)
               /\ Len(ps) = Copies[a] + Copies[b]
               /\ IsFiniteSet({p \in 1 .. Len(ps) : ps[p] = c})
               /\ Cardinality({p \in 1 .. Len(ps) : ps[p] = c}) <= Copies[c]
<1> DEFINE ps == CopiesOf(a) \o CopiesOf(b)
           n == Copies[a]
           m == Copies[b]
           S == {p \in 1 .. Len(ps) : ps[p] = c}
<1>1. n \in Nat /\ m \in Nat /\ Copies[c] \in Nat
  BY DEF Configured
<1>2. /\ CopiesOf(a) \in Seq(Programs) /\ Len(CopiesOf(a)) = n
      /\ CopiesOf(b) \in Seq(Programs) /\ Len(CopiesOf(b)) = m
      /\ \A i \in 1 .. n : CopiesOf(a)[i] = a
      /\ \A i \in 1 .. m : CopiesOf(b)[i] = b
  BY <1>1 DEF CopiesOf
<1>3. ps \in Seq(Programs) /\ Len(ps) = n + m
  BY <1>1, <1>2, ConcatProperties
<1>4. \A p \in 1 .. n : ps[p] = a
  BY <1>1, <1>2, ConcatProperties
<1>5. \A p \in n + 1 .. n + m : ps[p] = b
  <2> SUFFICES ASSUME NEW p \in n + 1 .. n + m PROVE ps[p] = b
    OBVIOUS
  <2>1. p \in 1 .. n + m /\ p > n /\ p - n \in 1 .. m
    BY <1>1
  <2>2. ps[p] = CopiesOf(b)[p - n]
    BY <1>1, <1>2, <2>1, ConcatProperties
  <2> QED
    BY <1>2, <2>1, <2>2
<1> HIDE DEF ps, n, m
<1>6. \A p \in 1 .. n + m : p \in 1 .. n \/ p \in n + 1 .. n + m
  BY <1>1
<1>7. /\ IsFiniteSet(1 .. n) /\ Cardinality(1 .. n) = n
      /\ IsFiniteSet(n + 1 .. n + m)
      /\ Cardinality(n + 1 .. n + m) = m
  <2>1. IsFiniteSet(1 .. n) /\ Cardinality(1 .. n) = n
    BY <1>1, FS_Interval
  <2>2. IsFiniteSet(n + 1 .. n + m)
        /\ Cardinality(n + 1 .. n + m) = IF n + 1 > n + m THEN 0 ELSE (n + m) - (n + 1) + 1
    BY <1>1, FS_Interval
  <2> QED
    BY <1>1, <2>1, <2>2
<1>8. IsFiniteSet(S) /\ Cardinality(S) <= Copies[c]
  <2>1. CASE c = a
    <3>1. S \subseteq 1 .. n
      BY <1>3, <1>5, <1>6, <2>1
    <3>2. IsFiniteSet(S) /\ Cardinality(S) <= n
      BY <1>7, <3>1, FS_Subset
    <3> QED
      BY <2>1, <3>2 DEF n
  <2>2. CASE c = b
    <3>1. S \subseteq n + 1 .. n + m
      BY <1>3, <1>4, <1>6, <2>2
    <3>2. IsFiniteSet(S) /\ Cardinality(S) <= m
      BY <1>7, <3>1, FS_Subset
    <3> QED
      BY <2>2, <3>2 DEF m
  <2>3. CASE c # a /\ c # b
    <3>1. S = {}
      BY <1>3, <1>4, <1>5, <1>6, <2>3
    <3>2. IsFiniteSet(S) /\ Cardinality(S) = 0
      BY <3>1, FS_EmptySet
    <3> QED
      BY <1>1, <3>2
  <2> QED
    BY <2>1, <2>2, <2>3
<1> QED
  BY <1>3, <1>8 DEF n, m, ps

\* The same when a single program is spawned.
LEMMA CopiesRunAlone ==
    ASSUME Configured, NEW a \in Programs, NEW c \in Programs
    PROVE  LET ps == CopiesOf(a)
           IN  /\ ps \in Seq(Programs)
               /\ Len(ps) = Copies[a]
               /\ IsFiniteSet({p \in 1 .. Len(ps) : ps[p] = c})
               /\ Cardinality({p \in 1 .. Len(ps) : ps[p] = c}) <= Copies[c]
<1> DEFINE ps == CopiesOf(a)
           n == Copies[a]
           S == {p \in 1 .. Len(ps) : ps[p] = c}
<1>1. n \in Nat /\ Copies[c] \in Nat
  BY DEF Configured
<1>2. ps \in Seq(Programs) /\ Len(ps) = n /\ \A i \in 1 .. n : ps[i] = a
  BY <1>1 DEF CopiesOf
<1> HIDE DEF ps, n
<1>3. IsFiniteSet(1 .. n) /\ Cardinality(1 .. n) = n
  BY <1>1, FS_Interval
<1>4. IsFiniteSet(S) /\ Cardinality(S) <= Copies[c]
  <2>1. CASE c = a
    <3>1. S \subseteq 1 .. n
      BY <1>2
    <3>2. IsFiniteSet(S) /\ Cardinality(S) <= n
      BY <1>3, <3>1, FS_Subset
    <3> QED
      BY <2>1, <3>2 DEF n
  <2>2. CASE c # a
    <3>1. S = {}
      BY <1>2, <2>2
    <3>2. IsFiniteSet(S) /\ Cardinality(S) = 0
      BY <3>1, FS_EmptySet
    <3> QED
      BY <1>1, <3>2
  <2> QED
    BY <2>1, <2>2
<1> QED
  BY <1>2, <1>4 DEF n, ps

\* No program has more runs than inputs.
LEMMA RunsBounded ==
    ASSUME Configured, EnoughInputs, NEW s \in Scripts, NEW c \in Programs
    PROVE  IsFiniteSet(RunsOf(s, c)) /\ Cardinality(RunsOf(s, c)) <= NumInputs
<1>1. Copies[c] \in Nat /\ NumInputs \in Nat /\ NumInputs >= 1 /\ Copies[c] <= NumInputs
  BY DEF Configured, EnoughInputs
<1>2. ASSUME ~SetsUp, NEW ps \in Seq(Programs), s = SpawnAll(ps) \o WaitAll,
             IsFiniteSet({p \in 1 .. Len(ps) : ps[p] = c}),
             Cardinality({p \in 1 .. Len(ps) : ps[p] = c}) <= Copies[c]
      PROVE  IsFiniteSet(RunsOf(s, c)) /\ Cardinality(RunsOf(s, c)) <= NumInputs
  <2>1. NumForks(s) = Len(ps) /\ \A p \in 1 .. Len(ps) : ProgramOf(s, p) = ps[p]
    BY <1>2, WellLaidPlain DEF ProgramOf, SetsUp
  <2>2. RunsOf(s, c) = {p \in 1 .. Len(ps) : ps[p] = c}
    BY <2>1 DEF RunsOf
  <2>3. Cardinality(RunsOf(s, c)) \in Nat
    BY <1>2, <2>2, FS_CardinalityType
  <2> QED
    BY <1>1, <1>2, <2>2, <2>3
<1>3. /\ "collatz" \in Programs /\ "longRunning" \in Programs
      /\ "collatz" # "longRunning"
  BY DEF Programs
<1>4. CASE LifeCycleType = "A"
  <2>1. s = initA /\ ~SetsUp
    BY <1>4 DEF Scripts, SetsUp
  <2> QED
    BY <1>2, <1>3, <2>1, CopiesRun DEF initA
<1>5. CASE LifeCycleType = "B1"
  <2>1. PICK a \in Programs : s = initB1(a)
    BY <1>5 DEF Scripts
  <2> QED
    BY <1>2, <1>5, <2>1, CopiesRunAlone DEF initB1, SetsUp
<1>6. CASE LifeCycleType = "B2"
  <2>1. PICK d \in {e \in Programs \X Programs : e[1] # e[2]} : s = initB2(d[1], d[2])
    BY <1>6 DEF Scripts
  <2>2. d[1] \in Programs /\ d[2] \in Programs /\ d[1] # d[2]
    OBVIOUS
  <2> QED
    BY <1>2, <1>6, <2>1, <2>2, CopiesRun DEF initB2, SetsUp
<1>7. CASE SetsUp
  <2>1. \A p, r \in RunsOf(s, c) : p = r
    BY <1>7, SetUpsDiffer DEF RunsOf
  <2>2. CASE RunsOf(s, c) = {}
    BY <1>1, <2>2, FS_EmptySet
  <2>3. ASSUME NEW p \in RunsOf(s, c)
        PROVE  IsFiniteSet(RunsOf(s, c)) /\ Cardinality(RunsOf(s, c)) <= NumInputs
    <3>1. RunsOf(s, c) = {p}
      BY <2>1
    <3> QED
      BY <1>1, <3>1, FS_Singleton
  <2> QED
    BY <2>2, <2>3
<1> QED
  BY <1>4, <1>5, <1>6, <1>7, LifeCycleAssumption DEF SetsUp

-----------------------------------------------------------------------------
(* How far each run of a program has come *)

\* It has loaded the number of its input; it has stored the next number.
Started(p) == prog[p] # "init" /\ pc[p] > 1
Stored(p) == prog[p] # "init" /\ pc[p] > 2

\* It is between the two.
Numbering(p) == prog[p] # "init" /\ pc[p] = 2

\* What any step but a load and a store does to a task's place in its program.
ElsewhereMoves(p) ==
    \/ prog'[p] = prog[p] /\ prog[p] = "init"
    \/ prog'[p] = prog[p] /\ pc'[p] = pc[p]
    \/ prog'[p] = prog[p] /\ pc[p] = 3 /\ pc'[p] = 4
    \/ prog[p] = "init" /\ prog'[p] \in Programs /\ pc'[p] = 1

\* What a step leaves of the programs' numbering.
LEMMA NumbersKept ==
    ASSUME Configured, Base, Ctl, [NextKernel]_allVars,
           \A p \in Pids : ~LoadStep(p) /\ ~StoreStep(p)
    PROVE  /\ UNCHANGED <<script, input, inputNo>>
           /\ \A p \in Pids : ElsewhereMoves(p)
<1>1. /\ pc \in [Pids -> Nat] /\ prog \in [Pids -> Programs \cup {"init"}]
      /\ prog[InitPid] = "init" /\ InitPid \in Pids
  BY PidRange DEF Base, Ctl, UserTyped, InitCtl
<1>2. CASE UNCHANGED allVars
  BY <1>2 DEF allVars, userVars, ElsewhereMoves
<1>3. CASE Tick
  BY <1>3 DEF Tick, ElsewhereMoves
<1>4. ASSUME NEW p \in Pids, Step(p)
      PROVE  /\ UNCHANGED <<script, input, inputNo>>
             /\ \A r \in Pids : ElsewhereMoves(r)
  <2>1. p = currentTask /\ (p = InitPid \/ p \in 1 .. numTasks - 1)
    BY <1>4, StepsAre
  <2>2. ASSUME prog' = prog, prog[p] = "init", \A r \in Pids : r # p => pc'[r] = pc[r]
        PROVE  \A r \in Pids : ElsewhereMoves(r)
    BY <2>2 DEF ElsewhereMoves
  <2>3. CASE ForkStep(p)
    <3>1. p = InitPid
      <4>1. At(p, "fork")
        BY <2>3 DEF ForkStep
      <4> QED
        BY <2>1, <4>1, RoleOfChild
    <3>2. CASE HasFreeSlot
      <4>1. /\ UNCHANGED <<script, prog, input, inputNo>>
            /\ pc' = [pc EXCEPT ![p] = @ + 1, ![numTasks] = pc[p] + 1]
        BY <2>3, <3>2 DEF ForkStep
      <4>2. \A r \in Pids : r # p /\ r # numTasks => pc'[r] = pc[r]
        BY <1>1, <4>1
      <4>3. numTasks \in Pids => prog[numTasks] = "init"
        BY PidRange DEF Base, Ctl, UnusedCtl
      <4> QED
        BY <1>1, <3>1, <4>1, <4>2, <4>3 DEF ElsewhereMoves
    <3>3. CASE ~HasFreeSlot
      BY <2>3, <3>3 DEF ForkStep, ElsewhereMoves
    <3> QED
      BY <3>2, <3>3
  <2>4. CASE /\ UNCHANGED <<script, prog, input, inputNo>>
             /\ \A r \in Pids : r # p => pc'[r] = pc[r]
             /\ prog[p] = "init"
    BY <2>2, <2>4
  <2>5. CASE \/ ForkPidStep(p) \/ PriorityStep(p) \/ CollatzAddedStep(p) \/ BlockStep(p)
             \/ IgnoreStep(p) \/ WaitStep(p) \/ AgainStep(p)
    <3>1. \E op \in {"forkpid", "priority", "collatzadded", "block", "ignore", "wait", "again"} :
             At(p, op)
      BY <2>5 DEF ForkPidStep, PriorityStep, CollatzAddedStep, BlockStep, IgnoreStep, WaitStep,
         AgainStep
    <3>2. prog[p] = "init"
      BY <1>1, <2>1, <3>1, RoleOfChild
    <3>3. PICK n : GoTo(p, n)
      BY <2>5 DEF ForkPidStep, PriorityStep, CollatzAddedStep, BlockStep, IgnoreStep, WaitStep,
         AgainStep, Continue
    <3>4. /\ UNCHANGED <<script, prog, input, inputNo>>
          /\ \A r \in Pids : r # p => pc'[r] = pc[r]
      BY <1>1, <3>3 DEF GoTo
    <3> QED
      BY <2>4, <3>2, <3>4
  <2>6. CASE ExecStep(p)
    <3>1. prog[p] = "init" /\ (p # InitPid => Arg(p) \in Programs)
      <4>1. At(p, "exec")
        BY <2>6 DEF ExecStep
      <4>2. CASE p = InitPid
        BY <1>1, <4>2
      <4>3. CASE p \in 1 .. numTasks - 1
        BY <4>1, <4>3, RoleOfChild
      <4> QED
        BY <2>1, <4>2, <4>3
    <3>2. CASE eax[p] = 0
      <4>1. p # InitPid
        <5>1. At(p, "exec")
          BY <2>6 DEF ExecStep
        <5>2. p = InitPid => InitOp = "exec"
          BY <5>1, RoleOfInit
        <5> QED
          BY <3>2, <5>2 DEF Ctl, InitCtl
      <4>2. /\ prog' = [prog EXCEPT ![p] = Arg(p)] /\ pc' = [pc EXCEPT ![p] = 1]
            /\ UNCHANGED <<script, input, inputNo>>
        BY <2>6, <3>2 DEF ExecStep
      <4>3. prog'[p] \in Programs /\ pc'[p] = 1
        BY <1>1, <3>1, <4>1, <4>2
      <4>4. \A r \in Pids : r # p => prog'[r] = prog[r] /\ pc'[r] = pc[r]
        BY <1>1, <4>2
      <4> QED
        BY <3>1, <4>2, <4>3, <4>4 DEF ElsewhereMoves
    <3>3. CASE eax[p] # 0
      <4>1. GoTo(p, pc[p] + 1)
        BY <2>6, <3>3 DEF ExecStep, Continue
      <4> QED
        BY <1>1, <2>4, <3>1, <4>1 DEF GoTo
    <3> QED
      BY <3>2, <3>3
  <2>7. CASE WorkStep(p)
    <3>1. At(p, "work") /\ GoTo(p, pc[p] + 1)
      BY <2>7 DEF WorkStep, Continue
    <3>2. prog[p] # "init" => pc[p] = 3
      BY <1>1, <2>1, <3>1, RoleOfChild
    <3>3. /\ UNCHANGED <<script, prog, input, inputNo>>
          /\ pc' = [pc EXCEPT ![p] = pc[p] + 1]
      BY <3>1 DEF GoTo
    <3>4. /\ pc'[p] = pc[p] + 1
          /\ \A r \in Pids : r # p => pc'[r] = pc[r]
      BY <1>1, <3>3
    <3> QED
      BY <3>2, <3>3, <3>4 DEF ElsewhereMoves
  <2>8. CASE ExitStep(p)
    BY <2>8 DEF ExitStep, userVars, ElsewhereMoves
  <2> QED
    BY <1>4, <2>3, <2>5, <2>6, <2>7, <2>8 DEF Step
<1> QED
  BY <1>2, <1>3, <1>4 DEF NextKernel

\* A step moves no forked task but the running one.
LEMMA OthersWait ==
    ASSUME Configured, Base, Ctl, [NextKernel]_allVars
    PROVE  /\ \A p \in 1 .. numTasks - 1 : p # currentTask =>
                prog'[p] = prog[p] /\ pc'[p] = pc[p]
           /\ \A p \in Pids : p >= numTasks => prog'[p] = "init"
           /\ numTasks' \in {numTasks, numTasks + 1}
<1>1. /\ pc \in [Pids -> Nat] /\ prog \in [Pids -> Programs \cup {"init"}]
      /\ InitPid \in Pids /\ numTasks \in Nat
      /\ \A p \in 1 .. numTasks - 1 : p \in Pids /\ p # InitPid /\ p # numTasks
      /\ \A p \in Pids : p >= numTasks => prog[p] = "init" /\ p # InitPid
                                          /\ p \notin 1 .. numTasks - 1
  BY PidRange DEF Base, Ctl, UserTyped, UnusedCtl
<1>2. CASE UNCHANGED allVars
  BY <1>1, <1>2 DEF allVars, vars, userVars
<1>3. CASE Tick
  BY <1>1, <1>3, TickSets
<1>4. ASSUME NEW p \in Pids, Step(p)
      PROVE  /\ \A r \in 1 .. numTasks - 1 : r # currentTask =>
                   prog'[r] = prog[r] /\ pc'[r] = pc[r]
             /\ \A r \in Pids : r >= numTasks => prog'[r] = "init"
             /\ numTasks' \in {numTasks, numTasks + 1}
  <2>1. p = currentTask /\ (p = InitPid \/ p \in 1 .. numTasks - 1)
    BY <1>4, StepsAre
  <2>2. \A r \in Pids : r # p => prog'[r] = prog[r]
    <3>1. CASE p = InitPid
      BY <1>4, <3>1, InitStepSets
    <3>2. CASE p \in 1 .. numTasks - 1
      BY <1>4, <3>2, ChildStepSets
    <3> QED
      BY <2>1, <3>1, <3>2
  <2>3. numTasks' \in {numTasks, numTasks + 1}
    <3>1. CASE p = InitPid
      BY <1>4, <3>1, InitStepSets
    <3>2. CASE p \in 1 .. numTasks - 1
      BY <1>4, <3>2, ChildStepSets
    <3> QED
      BY <2>1, <3>1, <3>2
  <2>4. \A r \in 1 .. numTasks - 1 : r # p => pc'[r] = pc[r]
    <3>1. CASE ForkStep(p)
      <4>1. pc' = [pc EXCEPT ![p] = @ + 1, ![numTasks] = pc[p] + 1] \/ pc' = pc
        BY <3>1 DEF ForkStep
      <4> QED
        BY <1>1, <4>1
    <3>2. CASE ExecStep(p)
      <4>1. pc' = [pc EXCEPT ![p] = 1] \/ pc' = [pc EXCEPT ![p] = pc[p] + 1]
        BY <3>2 DEF ExecStep, Continue, GoTo
      <4> QED
        BY <1>1, <4>1
    <3>3. CASE LoadStep(p) \/ StoreStep(p)
      <4>1. pc' = [pc EXCEPT ![p] = @ + 1]
        BY <3>3 DEF LoadStep, StoreStep
      <4> QED
        BY <1>1, <4>1
    <3>4. CASE ExitStep(p)
      BY <3>4 DEF ExitStep, userVars
    <3>5. CASE \/ ForkPidStep(p) \/ PriorityStep(p) \/ CollatzAddedStep(p) \/ BlockStep(p)
               \/ IgnoreStep(p) \/ WaitStep(p) \/ AgainStep(p) \/ WorkStep(p)
      <4>1. PICK n : GoTo(p, n)
        BY <3>5 DEF ForkPidStep, PriorityStep, CollatzAddedStep, BlockStep, IgnoreStep,
           WaitStep, AgainStep, WorkStep, Continue
      <4> QED
        BY <1>1, <4>1 DEF GoTo
    <3> QED
      BY <1>4, <3>1, <3>2, <3>3, <3>4, <3>5 DEF Step
  <2> QED
    BY <1>1, <2>1, <2>2, <2>3, <2>4
<1> QED
  BY <1>2, <1>3, <1>4 DEF NextKernel

-----------------------------------------------------------------------------
(* Where all tasks have one priority, the programs run one after the other *)

\* When a forked task runs, or has begun its program, every older one is done.
InTurn ==
    /\ \A p \in Pids : p < numTasks => priority[p] = High
    /\ \A p, r \in 1 .. numTasks - 1 :
          p < r /\ (r = currentTask \/ Started(r)) => state[p] = "Terminated"

\* A forked task that neither runs nor is ready to run has exited.
ChildrenRunnable ==
    \A p \in 1 .. numTasks - 1 :
        p # currentTask => state[p] \in {"Ready", "Terminated"}

\* None of them blocks: the programs call no waitpid.
LEMMA ChildrenAreRunnable == Kept /\ Ctl => ChildrenRunnable
<1> SUFFICES ASSUME Kept, Ctl, NEW p \in 1 .. numTasks - 1, p # currentTask
             PROVE  state[p] \in {"Ready", "Terminated"}
  BY DEF ChildrenRunnable
<1>1. p \in Pids /\ p < numTasks /\ numTasks \in Nat /\ p \in Nat
  BY KeptBase, PidRange DEF Base
<1>2. state[p] # "Free"
  <2>1. state[p] = "Free" <=> p >= numTasks
    BY <1>1 DEF Kept, IInv, SlotsInOrder
  <2> QED
    BY <1>1, <2>1
<1>3. state[p] # "Blocked"
  BY <1>1 DEF Ctl, ChildCtl, Kept, IInv, WaitersExact
<1>4. state[p] \in States /\ (state[p] = "Running" <=> p = currentTask)
  BY <1>1 DEF Kept, IInv, TypeOK, States, RunningExact
<1> QED
  BY <1>2, <1>3, <1>4 DEF States

\* The same in the next state.
LEMMA ChildrenAreRunnableNext == (Kept /\ Ctl)' => ChildrenRunnable'
BY ChildrenAreRunnable, PTL

\* Init gives its own priority to the tasks it forks, and changes none.
LEMMA PrioritiesAlike ==
    ASSUME Configured, ~SetsUp, Normal, [NextKernel]_allVars,
           \A p \in Pids : p < numTasks => priority[p] = High
    PROVE  \A p \in Pids : p < numTasks' => priority'[p] = High
<1>1. Kept /\ Ctl /\ Base /\ UserTyped /\ TypeOK
  BY KeptBase DEF Normal, Ctl, Base
<1>2. /\ InitPid \in Pids /\ InitPid < numTasks /\ numTasks \in Nat
      /\ \A p \in Pids : p \in Nat
      /\ priority \in [Pids -> {High, Medium, Low}]
  BY <1>1, PidRange DEF Base, TypeOK
<1>3. InitOp \notin SetUpOps
  BY <1>1, CtlScript DEF WellLaid, SetsUp, InitOp, Ctl, InitCtl
<1>4. CASE UNCHANGED allVars
  BY <1>4 DEF allVars, vars
<1>5. CASE Tick
  <2>1. ~AtFifthInterrupt("B4")
    BY DEF SetsUp, AtFifthInterrupt
  <2> QED
    BY <1>1, <1>5, <2>1, TickSets
<1>6. ASSUME NEW q \in Pids, Step(q)
      PROVE  \A p \in Pids : p < numTasks' => priority'[p] = High
  <2>1. q = currentTask /\ (q = InitPid \/ q \in 1 .. numTasks - 1)
    BY <1>1, <1>6, StepsAre
  <2>2. CASE q \in 1 .. numTasks - 1
    BY <1>1, <1>6, <2>2, ChildStepSets
  <2>3. CASE q = InitPid /\ InitOp # "fork"
    <3>1. InitOp # "priority"
      BY <1>3 DEF SetUpOps
    <3> QED
      BY <1>1, <1>6, <2>3, <3>1, InitStepSets
  <2>4. CASE q = InitPid /\ InitOp = "fork"
    <3>1. ForkStep(q)
      <4>1. \A op : At(q, op) => op = "fork"
        BY <1>1, <2>4, RoleOfInit
      <4> QED
        BY <1>6, <4>1 DEF Step, ForkPidStep, ExecStep, PriorityStep, CollatzAddedStep,
           BlockStep, IgnoreStep, WaitStep, AgainStep, LoadStep, StoreStep, WorkStep, ExitStep
    <3>2. CASE HasFreeSlot
      <4>1. /\ numTasks' = numTasks + 1
            /\ priority' = [priority EXCEPT ![numTasks] = priority[currentTask]]
        BY <3>1, <3>2 DEF ForkStep, Fork
      <4>2. priority[currentTask] = High
        BY <1>2, <2>1, <2>4
      <4>3. \A p \in Pids : p < numTasks + 1 => p < numTasks \/ p = numTasks
        BY <1>2
      <4> QED
        BY <1>2, <4>1, <4>2, <4>3
    <3>3. CASE ~HasFreeSlot
      BY <3>1, <3>3 DEF ForkStep, Fork
    <3> QED
      BY <3>2, <3>3
  <2> QED
    BY <2>1, <2>2, <2>3, <2>4
<1> QED
  BY <1>4, <1>5, <1>6 DEF NextKernel

\* The scheduler picks the oldest, and goes on with it until it has exited.
LEMMA InTurnStep ==
    ASSUME Configured, LongDelays, Preemptive, ~SetsUp, Normal, InTurn,
           [NextKernel]_allVars
    PROVE  Normal' /\ InTurn'
<1>1. Kept /\ Ctl /\ Base /\ TypeOK
  BY KeptBase DEF Normal, Base
<1>2. \A p \in Pids : ~BlockStep(p)
  BY SetUpCalls DEF SetUpCall, SetsUp
<1>3. Normal' /\ EndedKept /\ DispatchesBest
  BY <1>2, NormalStep
<1>4. ChildrenRunnable' /\ Base'
  <2>1. Kept' /\ Ctl'
    BY <1>3 DEF Normal
  <2> QED
    BY <2>1, ChildrenAreRunnableNext, KeptBaseNext
<1>5. \A p \in Pids : p < numTasks' => priority'[p] = High
  BY PrioritiesAlike DEF InTurn
<1>6. /\ numTasks \in Nat /\ numTasks <= MaxNumTasks /\ MaxNumTasks \in Nat
      /\ \A p \in 1 .. numTasks - 1 : p \in Pids
      /\ numTasks' \in {numTasks, numTasks + 1}
      /\ \A p \in 1 .. numTasks - 1 : p # currentTask =>
            prog'[p] = prog[p] /\ pc'[p] = pc[p]
      /\ \A p \in Pids : p >= numTasks => prog'[p] = "init"
  BY <1>1, OthersWait, PidRange, MaxNumTasksAssumption DEF Base, TypeOK
<1>7. numTasks' <= MaxNumTasks /\ currentTask' < numTasks'
  BY <1>4 DEF Base, TypeOK
<1>8. ASSUME NEW p \in 1 .. numTasks' - 1, NEW r \in 1 .. numTasks' - 1, p < r,
             r = currentTask' \/ Started(r)'
      PROVE  state'[p] = "Terminated"
  <2>1. PICK n \in Nat : n = numTasks'
    BY <1>6
  <2>2. /\ p \in Pids /\ r \in Pids /\ p \in Nat /\ r \in Nat /\ p < n /\ r < n /\ n <= MaxNumTasks
        /\ p >= 1 /\ r >= 1
    <3>1. p \in 1 .. n - 1 /\ r \in 1 .. n - 1 /\ n <= MaxNumTasks
      BY <1>7, <2>1
    <3> QED
      BY <1>6, <3>1 DEF Pids
  <2>3. ASSUME r \in 1 .. numTasks - 1, r = currentTask \/ Started(r)
        PROVE  state'[p] = "Terminated"
    <3>1. p \in 1 .. numTasks - 1
      BY <1>6, <1>8, <2>2, <2>3
    <3>2. state[p] = "Terminated"
      BY <1>8, <2>3, <3>1 DEF InTurn
    <3> QED
      BY <1>3, <2>2, <3>2 DEF EndedKept
  <2>4. CASE Started(r)'
    <3>1. r < numTasks
      BY <1>6, <2>2, <2>4 DEF Started
    <3>2. r \in 1 .. numTasks - 1
      BY <1>6, <2>2, <3>1
    <3>3. r = currentTask \/ Started(r)
      BY <1>6, <2>4, <3>2 DEF Started
    <3> QED
      BY <2>3, <3>2, <3>3
  <2>5. CASE r = currentTask' /\ (TimerInterrupt \/ currentTask' # currentTask)
    <3>1. state'[p] # "Ready"
      <4> SUFFICES ASSUME state'[p] = "Ready" PROVE FALSE
        OBVIOUS
      <4>1. priority'[r] < priority'[p] \/ r < p
        BY <1>3, <2>2, <2>5 DEF DispatchesBest
      <4>2. priority'[r] = High /\ priority'[p] = High
        BY <1>5, <2>1, <2>2
      <4> QED
        BY <1>8, <2>2, <4>1, <4>2 DEF High
    <3>2. p # currentTask'
      BY <1>8, <2>2, <2>5
    <3> QED
      BY <1>4, <3>1, <3>2 DEF ChildrenRunnable
  <2>6. CASE r = currentTask' /\ currentTask' = currentTask
    <3>1. r < numTasks
      BY <1>1, <2>6 DEF Base
    <3>2. r \in 1 .. numTasks - 1
      BY <1>6, <2>2, <3>1
    <3> QED
      BY <2>3, <2>6, <3>2
  <2> QED
    BY <1>8, <2>4, <2>5, <2>6
<1> QED
  BY <1>3, <1>5, <1>8 DEF InTurn

\* It holds when init starts.
LEMMA InitInTurn ==
    ASSUME Configured, InitKernel
    PROVE  InTurn
<1>1. numTasks = 1 /\ priority = [p \in Pids |-> High]
  BY DEF InitKernel, Init
<1>2. 1 .. numTasks - 1 = {}
  BY <1>1
<1> QED
  BY <1>1, <1>2 DEF InTurn

\* No two runs of a program number their inputs at the same time: when one has
\* begun, the older one has stored its number.
OneAtATime ==
    \A p, r \in 1 .. numTasks - 1 :
        p < r /\ prog[p] = prog[r] /\ Started(r) => Stored(p)

\* In B3 and B4 there is only one run of each.
LEMMA RunsInTurn ==
    ASSUME Configured, KernelInv, ~SetsUp => InTurn
    PROVE  OneAtATime
<1>1. Ctl /\ Base /\ UserTyped
  BY KernelCtl DEF Ctl
<1>2. WellLaid(script) /\ NumForks(script) \in Nat /\ script \in Scripts
  BY <1>1, CtlScript DEF UserTyped
<1> SUFFICES ASSUME NEW p \in 1 .. numTasks - 1, NEW r \in 1 .. numTasks - 1,
                    p < r, prog[p] = prog[r], Started(r)
             PROVE  Stored(p)
  BY DEF OneAtATime
<1>3. p \in 1 .. NumForks(script) /\ r \in 1 .. NumForks(script) /\ p # r
  BY <1>1, <1>2, PidRange DEF Base, Ctl, InitCtl
<1>4. prog[p] # "init" /\ prog[r] # "init"
  BY DEF Started
<1>5. /\ prog[p] = ProgramOf(script, p) /\ prog[r] = ProgramOf(script, r)
      /\ state[p] = "Terminated" => pc[p] = 4
  BY <1>1, <1>4 DEF Ctl, ChildCtl, ProgramOf
<1>6. CASE SetsUp
  BY <1>2, <1>3, <1>5, <1>6, SetUpsDiffer
<1>7. CASE ~SetsUp
  <2>1. state[p] = "Terminated"
    BY <1>7 DEF InTurn
  <2> QED
    BY <1>4, <1>5, <2>1 DEF Stored
<1> QED
  BY <1>6, <1>7

-----------------------------------------------------------------------------
(* Each run has an input of its own *)

\* The runs of program a that have taken their input.
Taken(a) == {p \in Pids : Stored(p) /\ prog[p] = a}

\* The global numbers the inputs taken so far: a run that has loaded it has
\* the next one, the runs that have stored it have earlier ones.
Numbered ==
    /\ input \in [Pids -> Nat] /\ inputNo \in [Programs -> Nat]
    /\ \A p \in Pids : Numbering(p) => input[p] = inputNo[prog[p]]
    /\ \A p \in Pids : Stored(p) => input[p] < inputNo[prog[p]]
    /\ \A p, r \in Pids :
          p # r /\ Stored(p) /\ Stored(r) /\ prog[p] = prog[r] => input[p] # input[r]
    /\ \A a \in Programs : inputNo[a] <= Cardinality(Taken(a))

\* There are finitely many of them.
LEMMA TakenCounts ==
    ASSUME Base, NEW a
    PROVE  IsFiniteSet(Taken(a)) /\ Cardinality(Taken(a)) \in Nat
<1>1. IsFiniteSet(Pids)
  BY FS_Interval, MaxNumTasksAssumption DEF Pids
<1>2. Taken(a) \subseteq Pids
  BY DEF Taken
<1> QED
  BY <1>1, <1>2, FS_Subset, FS_CardinalityType

\* Only tasks that init has forked run programs.
LEMMA WorkersOnly ==
    ASSUME Configured, Base, Ctl, NEW p \in Pids, prog[p] # "init"
    PROVE  p \in 1 .. numTasks - 1 /\ prog[p] \in Programs /\ pc[p] \in 1 .. 4
<1>1. prog[InitPid] = "init" /\ (p >= numTasks => prog[p] = "init") /\ prog[p] \in Programs \cup {"init"}
  BY DEF Ctl, InitCtl, UnusedCtl, UserTyped
<1>2. p \in 1 .. numTasks - 1
  BY <1>1, PidRange DEF Base
<1> QED
  BY <1>1, <1>2 DEF Ctl, ChildCtl

\* KernelCtl in the next state.
LEMMA KernelCtlNext == KernelInv' => Ctl' /\ Base'
BY KernelCtl, PTL

\* The other steps leave the numbering alone.
LEMMA QuietNumbers ==
    ASSUME Configured, Base, Ctl, [NextKernel]_allVars, Numbered,
           \A p \in Pids : ~LoadStep(p) /\ ~StoreStep(p)
    PROVE  Numbered'
<1>1. UNCHANGED <<input, inputNo>> /\ \A p \in Pids : ElsewhereMoves(p)
  BY NumbersKept
<1>2. "init" \notin Programs
  BY DEF Programs
<1>3. ASSUME NEW p \in Pids
      PROVE  /\ Numbering(p)' => Numbering(p) /\ prog'[p] = prog[p]
             /\ Stored(p)' <=> Stored(p)
             /\ Stored(p) => prog'[p] = prog[p]
  BY <1>1, <1>2 DEF ElsewhereMoves, Numbering, Stored
<1>4. \A a \in Programs : Taken(a)' = Taken(a)
  BY <1>3 DEF Taken
<1> QED
  BY <1>1, <1>3, <1>4 DEF Numbered

\* A run loads the number.
LEMMA LoadNumbers ==
    ASSUME Configured, Base, Ctl, Numbered, NEW p \in Pids, LoadStep(p)
    PROVE  Numbered'
<1>1. /\ p \in 1 .. numTasks - 1 /\ prog[p] \in Programs /\ "init" \notin Programs
  BY WorkerCtl DEF Programs
<1>2. pc[p] = 1
  <2>1. At(p, "load")
    BY DEF LoadStep
  <2> QED
    BY <1>1, <2>1, RoleOfChild
<1>3. /\ pc \in [Pids -> Nat] /\ input \in [Pids -> Nat] /\ inputNo \in [Programs -> Nat]
  BY DEF Ctl, UserTyped, Numbered
<1>4. /\ input' = [input EXCEPT ![p] = inputNo[prog[p]]]
      /\ pc' = [pc EXCEPT ![p] = @ + 1]
      /\ prog' = prog /\ inputNo' = inputNo
  BY DEF LoadStep
<1>5. /\ input' \in [Pids -> Nat]
      /\ input'[p] = inputNo[prog[p]] /\ pc'[p] = 2
      /\ \A r \in Pids : r # p => input'[r] = input[r] /\ pc'[r] = pc[r]
  BY <1>1, <1>2, <1>3, <1>4
<1>6. \A r \in Pids : Stored(r)' <=> Stored(r)
  BY <1>2, <1>4, <1>5 DEF Stored
<1>7. ~Stored(p)
  BY <1>2 DEF Stored
<1>8. \A r \in Pids : r # p => (Numbering(r)' <=> Numbering(r))
  BY <1>4, <1>5 DEF Numbering
<1>9. \A a \in Programs : Taken(a)' = Taken(a)
  BY <1>4, <1>6 DEF Taken
<1> QED
  BY <1>4, <1>5, <1>6, <1>7, <1>8, <1>9 DEF Numbered

\* A run stores the next number: no other run of its program has loaded this
\* one, since the older have stored theirs and the younger have not begun.
LEMMA StoreNumbers ==
    ASSUME Configured, Base, Ctl, Base', OneAtATime, Numbered, NEW p \in Pids, StoreStep(p)
    PROVE  Numbered'
<1>0. /\ p \in 1 .. numTasks - 1 /\ prog[p] \in Programs /\ "init" \notin Programs
  BY WorkerCtl DEF Programs
<1>20. PICK a \in Programs : a = prog[p]
  BY <1>0
<1>1. /\ p \in 1 .. numTasks - 1 /\ a \in Programs /\ "init" \notin Programs
  BY <1>0
<1>2. pc[p] = 2
  <2>1. At(p, "store")
    BY DEF StoreStep
  <2> QED
    BY <1>0, <2>1, RoleOfChild
<1>3. /\ pc \in [Pids -> Nat] /\ input \in [Pids -> Nat] /\ inputNo \in [Programs -> Nat]
  BY DEF Ctl, UserTyped, Numbered
<1>4. input[p] = inputNo[a]
  BY <1>1, <1>2, <1>20 DEF Numbered, Numbering
<1>5. /\ inputNo' = [inputNo EXCEPT ![a] = input[p] + 1]
      /\ pc' = [pc EXCEPT ![p] = @ + 1]
      /\ prog' = prog /\ input' = input
  BY <1>20 DEF StoreStep
<1>6. /\ inputNo' \in [Programs -> Nat] /\ inputNo'[a] = inputNo[a] + 1
      /\ \A b \in Programs : b # a => inputNo'[b] = inputNo[b]
      /\ pc'[p] = 3
      /\ \A r \in Pids : r # p => pc'[r] = pc[r]
  BY <1>1, <1>2, <1>3, <1>4, <1>5
<1>7. /\ ~Stored(p) /\ Stored(p)' /\ ~Numbering(p)'
      /\ \A r \in Pids : r # p => (Stored(r)' <=> Stored(r)) /\ (Numbering(r)' <=> Numbering(r))
  BY <1>1, <1>2, <1>5, <1>6, <1>20 DEF Stored, Numbering
<1>8. \A r \in Pids : r # p /\ prog[r] = a => ~Numbering(r)
  <2> SUFFICES ASSUME NEW r \in Pids, r # p, prog[r] = a, Numbering(r) PROVE FALSE
    OBVIOUS
  <2>1. r \in 1 .. numTasks - 1 /\ pc[r] = 2 /\ prog[r] # "init" /\ prog[p] # "init"
    BY <1>1, <1>20, WorkersOnly DEF Numbering
  <2>2. p \in Nat /\ r \in Nat
    BY PidRange DEF Base
  <2>3. Started(p) /\ Started(r) /\ ~Stored(r) /\ ~Stored(p)
    BY <1>2, <2>1 DEF Started, Stored
  <2>4. CASE p < r
    BY <1>1, <2>1, <2>3, <2>4, <1>20 DEF OneAtATime
  <2>5. CASE r < p
    BY <1>1, <2>1, <2>3, <2>5, <1>20 DEF OneAtATime
  <2> QED
    BY <2>2, <2>4, <2>5
<1>9. \A r \in Pids : Stored(r) => prog[r] \in Programs /\ input[r] \in Nat
  BY <1>3, WorkersOnly DEF Stored
<1>10. \A r \in Pids : Numbering(r) => prog[r] \in Programs
  BY WorkersOnly DEF Numbering
<1>11. \A r \in Pids : Numbering(r)' => input'[r] = inputNo'[prog'[r]]
  BY <1>5, <1>6, <1>7, <1>8, <1>10 DEF Numbered
<1>12. \A r \in Pids : Stored(r)' => input'[r] < inputNo'[prog'[r]]
  <2> SUFFICES ASSUME NEW r \in Pids, Stored(r)' PROVE input[r] < inputNo'[prog[r]]
    BY <1>5
  <2>1. PICK n \in Nat : n = inputNo'[a]
    BY <1>1, <1>6
  <2>2. n = inputNo[a] + 1 /\ inputNo[a] \in Nat
    BY <1>1, <1>3, <1>6, <2>1
  <2>3. CASE r = p
    <3>1. input[r] < n
      BY <1>4, <2>2, <2>3
    <3>2. inputNo'[prog[r]] = n
      BY <1>20, <2>1, <2>3
    <3> QED
      BY <3>1, <3>2
  <2>4. CASE r # p
    <3>1. Stored(r) /\ input[r] < inputNo[prog[r]] /\ input[r] \in Nat
      BY <1>7, <1>9, <2>4 DEF Numbered
    <3>2. CASE prog[r] = a
      <4>1. input[r] < n
        BY <2>2, <3>1, <3>2
      <4>2. inputNo'[prog[r]] = n
        BY <2>1, <3>2
      <4> QED
        BY <4>1, <4>2
    <3>3. CASE prog[r] # a
      BY <1>6, <1>9, <3>1, <3>3
    <3> QED
      BY <3>2, <3>3
  <2> QED
    BY <2>3, <2>4
<1>13. ASSUME NEW r \in Pids, r # p, Stored(r), prog[r] = a PROVE input[r] # input[p]
  <2>1. input[r] < inputNo[a]
    BY <1>13 DEF Numbered
  <2> QED
    BY <1>1, <1>3, <1>4, <1>9, <1>13, <2>1
<1>14. \A q, r \in Pids :
          q # r /\ Stored(q)' /\ Stored(r)' /\ prog'[q] = prog'[r] => input'[q] # input'[r]
  <2> SUFFICES ASSUME NEW q \in Pids, NEW r \in Pids, q # r, Stored(q)', Stored(r)',
                      prog[q] = prog[r]
               PROVE  input[q] # input[r]
    BY <1>5
  <2>1. CASE q = p
    BY <1>7, <1>13, <1>20, <2>1
  <2>2. CASE r = p
    BY <1>7, <1>13, <1>20, <2>2
  <2>3. CASE q # p /\ r # p
    BY <1>7, <2>3 DEF Numbered
  <2> QED
    BY <2>1, <2>2, <2>3
<1>15. Taken(a)' = Taken(a) \cup {p} /\ p \notin Taken(a)
  BY <1>5, <1>7, <1>20 DEF Taken
<1>16. \A b \in Programs : b # a => Taken(b)' = Taken(b)
  BY <1>5, <1>7, <1>20 DEF Taken
<1>17. inputNo'[a] <= Cardinality(Taken(a)')
  <2>1. IsFiniteSet(Taken(a)) /\ Cardinality(Taken(a)) \in Nat
    BY TakenCounts
  <2>2. Cardinality(Taken(a)') = Cardinality(Taken(a)) + 1
    BY <1>15, <2>1, FS_AddElement
  <2>3. inputNo[a] <= Cardinality(Taken(a)) /\ inputNo[a] \in Nat
    BY <1>1, <1>3 DEF Numbered
  <2>4. PICK c \in Nat : c = Cardinality(Taken(a)) /\ Cardinality(Taken(a)') = c + 1
    BY <2>1, <2>2
  <2> QED
    BY <1>6, <2>3, <2>4
<1>18. \A b \in Programs : inputNo'[b] <= Cardinality(Taken(b)')
  <2> SUFFICES ASSUME NEW b \in Programs PROVE inputNo'[b] <= Cardinality(Taken(b)')
    OBVIOUS
  <2>1. CASE b = a
    BY <1>17, <2>1
  <2>2. CASE b # a
    BY <1>6, <1>16, <2>2 DEF Numbered
  <2> QED
    BY <2>1, <2>2
<1>19. \A b \in Programs : inputNo'[b] <= Cardinality(Taken(b))'
  BY <1>18
<1> QED
  BY <1>3, <1>5, <1>6, <1>11, <1>12, <1>14, <1>19 DEF Numbered

\* Each step keeps the numbering.
LEMMA NumberedStep ==
    ASSUME Configured, Base, Ctl, OneAtATime, Numbered, [NextKernel]_allVars, Base'
    PROVE  Numbered'
BY QuietNumbers, LoadNumbers, StoreNumbers

\* No input has been taken when init starts.
LEMMA InitNumbered ==
    ASSUME Configured, InitKernel
    PROVE  Numbered
<1>1. /\ prog = [p \in Pids |-> "init"] /\ input = [p \in Pids |-> 0]
      /\ inputNo = [program \in Programs |-> 0]
  BY DEF InitKernel, InitPrograms
<1>2. \A p \in Pids : ~Stored(p) /\ ~Numbering(p)
  BY <1>1 DEF Stored, Numbering
<1>3. \A a : Taken(a) = {}
  BY <1>2 DEF Taken
<1> QED
  BY <1>1, <1>2, <1>3, FS_EmptySet DEF Numbered

\* The runs have different inputs, and no program has more runs than inputs.
LEMMA NumberedDiffer ==
    ASSUME Configured, EnoughInputs, KernelInv, Numbered
    PROVE  InputsDistinct
<1>1. Ctl /\ Base /\ UserTyped
  BY KernelCtl DEF Ctl
<1>2. WellLaid(script) /\ NumForks(script) \in Nat /\ script \in Scripts
  BY <1>1, CtlScript DEF UserTyped
<1>3. ASSUME NEW p \in Pids, HasInput(p) PROVE Stored(p)
  <2>1. prog[p] # "init" /\ Worker[pc[p]].op \in {"work", "exit"}
    BY <1>3 DEF HasInput
  <2>2. pc[p] \in 1 .. 4
    BY <1>1, <2>1, WorkersOnly
  <2>3. Worker[1].op = "load" /\ Worker[2].op = "store"
    BY DEF Worker, Instr
  <2> QED
    BY <2>1, <2>2, <2>3 DEF Stored
<1>4. ASSUME NEW p \in Pids, Stored(p) PROVE input[p] < NumInputs
  <2> DEFINE a == prog[p]
  <2>1. a \in Programs /\ a # "init"
    BY <1>1, <1>4, WorkersOnly DEF Stored
  <2>2. Taken(a) \subseteq RunsOf(script, a)
    <3> SUFFICES ASSUME NEW r \in Taken(a) PROVE r \in RunsOf(script, a)
      OBVIOUS
    <3>1. r \in Pids /\ prog[r] = a
      BY DEF Taken
    <3>2. r \in 1 .. numTasks - 1
      BY <1>1, <2>1, <3>1, WorkersOnly
    <3>3. r \in 1 .. NumForks(script)
      BY <1>1, <1>2, <3>2, PidRange DEF Base, Ctl, InitCtl
    <3>4. prog[r] = ProgramOf(script, r)
      BY <1>1, <2>1, <3>1, <3>2 DEF Ctl, ChildCtl, ProgramOf
    <3> QED
      BY <3>1, <3>3, <3>4 DEF RunsOf
  <2>3. IsFiniteSet(RunsOf(script, a)) /\ Cardinality(RunsOf(script, a)) <= NumInputs
    BY <1>2, <2>1, RunsBounded
  <2>4. Cardinality(Taken(a)) <= Cardinality(RunsOf(script, a))
    BY <2>2, <2>3, FS_Subset
  <2>5. /\ Cardinality(Taken(a)) \in Nat /\ Cardinality(RunsOf(script, a)) \in Nat
        /\ NumInputs \in Nat
    BY <1>1, <2>3, TakenCounts, FS_CardinalityType DEF EnoughInputs
  <2>6. /\ input[p] < inputNo[a] /\ inputNo[a] <= Cardinality(Taken(a))
        /\ input[p] \in Nat /\ inputNo[a] \in Nat
    BY <1>4, <2>1 DEF Numbered
  <2> HIDE DEF a
  <2> QED
    BY <2>3, <2>4, <2>5, <2>6
<1> QED
  BY <1>3, <1>4 DEF InputsDistinct, Numbered

\* Under the preemptive scheduler the tasks of a lifecycle take different
\* inputs, and no more than there are, although the load and the store of the
\* global that numbers them can be interrupted.
THEOREM EachRunHasItsInput ==
    Configured /\ LongDelays /\ EnoughInputs /\ Preemptive =>
        (SpecKernel => []InputsDistinct)
<1> SUFFICES ASSUME Configured, LongDelays, EnoughInputs, Preemptive
             PROVE  SpecKernel => []InputsDistinct
  OBVIOUS
<1> DEFINE Inv == KernelInv /\ (~SetsUp => InTurn) /\ Numbered
<1>1. InitKernel => Inv
  BY InitNormal, InitInTurn, InitNumbered DEF KernelInv
<1>2. ASSUME Inv, [NextKernel]_allVars PROVE Inv'
  <2>1. KernelInv'
    BY <1>2, KernelStep
  <2>2. ~SetsUp => InTurn'
    <3>1. ~SetsUp => Normal
      BY <1>2 DEF KernelInv, Waiting, SetsUp
    <3> QED
      BY <1>2, <3>1, InTurnStep
  <2>3. OneAtATime
    BY <1>2, RunsInTurn
  <2>4. Ctl /\ Base /\ Base'
    BY <1>2, <2>1, KernelCtl, KernelCtlNext
  <2>5. Numbered'
    BY <1>2, <2>3, <2>4, NumberedStep
  <2> QED
    BY <2>1, <2>2, <2>5 DEF SetsUp
<1>3. Inv => InputsDistinct
  BY NumberedDiffer
<1> QED
  BY <1>1, <1>2, <1>3, PTL DEF SpecKernel
=============================================================================
