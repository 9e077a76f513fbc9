-------------------------- MODULE TaskManager_proofs --------------------------
(***************************************************************************)
(* Proofs about TaskManager, for every size of the process table, both     *)
(* schedulers and every lifecycle: the ready queue is exact and, under the *)
(* preemptive scheduler, sorted, so the best task is dispatched; no wakeup *)
(* is lost; each child is delivered once; the queue is never popped empty. *)
(***************************************************************************)
EXTENDS TaskManager, SequenceTheorems, FiniteSetTheorems,
        WellFoundedInduction, TLAPS

-----------------------------------------------------------------------------
(* The operations on the ready queue *)

\* The sequence q holds each member of S once and nothing else.
Holds(q, S) ==
    /\ q \in Seq(Pids)
    /\ \A i, j \in 1 .. Len(q) : q[i] = q[j] => i = j
    /\ \A i \in 1 .. Len(q) : q[i] \in S
    /\ \A p \in S : \E i \in 1 .. Len(q) : q[i] = p

\* The place that the insertion sort finds is in the queue or right after it.
LEMMA InFrontInQueue ==
    ASSUME NEW q \in Seq(Pids), NEW p, NEW prio
    PROVE  Cardinality(InFront(q, p, prio)) \in 0 .. Len(q)
<1>1. Len(q) \in Nat
  BY LenProperties
<1>2. IsFiniteSet(1 .. Len(q)) /\ Cardinality(1 .. Len(q)) = Len(q)
  BY <1>1, FS_Interval
<1>3. InFront(q, p, prio) \in SUBSET (1 .. Len(q))
  BY DEF InFront
<1>4. /\ IsFiniteSet(InFront(q, p, prio))
      /\ Cardinality(InFront(q, p, prio)) <= Len(q)
  BY <1>2, <1>3, FS_Subset
<1>5. Cardinality(InFront(q, p, prio)) \in Nat
  BY <1>4, FS_CardinalityType
<1> QED
  BY <1>1, <1>4, <1>5

\* Inserting p shifts the entries behind it and moves nothing else.
LEMMA SubSeqOfQueue ==
    ASSUME NEW q \in Seq(Pids), NEW m \in 1 .. Len(q) + 1,
           NEW n \in 0 .. Len(q), m <= n + 1
    PROVE  /\ SubSeq(q, m, n) \in Seq(Pids)
           /\ Len(SubSeq(q, m, n)) = n - m + 1
           /\ \A j \in 1 .. n - m + 1 : SubSeq(q, m, n)[j] = q[m + j - 1]
<1>1. Len(q) \in Nat /\ \A j \in 1 .. Len(q) : q[j] \in Pids
  BY LenProperties, ElementOfSeq
<1>2. m \in Int /\ n \in Int /\ \A j \in m .. n : q[j] \in Pids
  BY <1>1
<1>3. /\ SubSeq(q, m, n) \in Seq(Pids)
      /\ Len(SubSeq(q, m, n)) = IF m <= n THEN n - m + 1 ELSE 0
      /\ \A j \in 1 .. n - m + 1 : SubSeq(q, m, n)[j] = q[m + j - 1]
  BY <1>2, SubSeqProperties
<1> QED
  BY <1>1, <1>3

LEMMA InsertAtShifts ==
    ASSUME NEW q \in Seq(Pids), NEW p \in Pids, NEW i \in 1 .. Len(q) + 1
    PROVE  /\ InsertAt(q, i, p) \in Seq(Pids)
           /\ Len(InsertAt(q, i, p)) = Len(q) + 1
           /\ \A j \in 1 .. Len(q) + 1 : InsertAt(q, i, p)[j] =
                 IF j < i THEN q[j] ELSE IF j = i THEN p ELSE q[j - 1]
<1> DEFINE front == SubSeq(q, 1, i - 1)
           back == SubSeq(q, i, Len(q))
           mid == front \o <<p>>
<1>1. Len(q) \in Nat
  BY LenProperties
<1>2. /\ front \in Seq(Pids)
      /\ Len(front) = i - 1
      /\ \A j \in 1 .. i - 1 : front[j] = q[j]
  <2>1. 1 \in 1 .. Len(q) + 1 /\ i - 1 \in 0 .. Len(q) /\ 1 <= i - 1 + 1
    BY <1>1
  <2>2. /\ front \in Seq(Pids)
        /\ Len(front) = i - 1 - 1 + 1
        /\ \A j \in 1 .. i - 1 - 1 + 1 : front[j] = q[1 + j - 1]
    BY <2>1, SubSeqOfQueue
  <2> QED
    BY <2>2, <1>1
<1>3. /\ back \in Seq(Pids)
      /\ Len(back) = Len(q) - i + 1
      /\ \A j \in 1 .. Len(q) - i + 1 : back[j] = q[i + j - 1]
  BY <1>1, SubSeqOfQueue
<1> HIDE DEF front, back
<1>4. /\ <<p>> \in Seq(Pids)
      /\ Len(<<p>>) = 1
      /\ <<p>>[1] = p
  OBVIOUS
<1>5. /\ mid \in Seq(Pids)
      /\ Len(mid) = i
      /\ \A j \in 1 .. i : mid[j] = IF j <= i - 1 THEN front[j] ELSE p
  <2>1. /\ mid \in Seq(Pids)
        /\ Len(mid) = i - 1 + 1
        /\ \A j \in 1 .. i - 1 + 1 : mid[j] =
              IF j <= i - 1 THEN front[j] ELSE <<p>>[j - (i - 1)]
    BY <1>2, <1>4, ConcatProperties
  <2> QED
    BY <2>1, <1>1, <1>4
<1> HIDE DEF mid
<1>6. /\ mid \o back \in Seq(Pids)
      /\ Len(mid \o back) = i + (Len(q) - i + 1)
      /\ \A j \in 1 .. i + (Len(q) - i + 1) : (mid \o back)[j] =
            IF j <= i THEN mid[j] ELSE back[j - i]
  BY <1>3, <1>5, ConcatProperties
<1>7. InsertAt(q, i, p) = mid \o back
  BY DEF InsertAt, mid, front, back
<1>8. \A j \in 1 .. Len(q) + 1 : (mid \o back)[j] =
         IF j < i THEN q[j] ELSE IF j = i THEN p ELSE q[j - 1]
  <2> SUFFICES ASSUME NEW j \in 1 .. Len(q) + 1
               PROVE  (mid \o back)[j] =
                         IF j < i THEN q[j] ELSE IF j = i THEN p ELSE q[j - 1]
    OBVIOUS
  <2>1. CASE j <= i
    BY <2>1, <1>1, <1>2, <1>5, <1>6
  <2>2. CASE j > i
    <3>1. j - i \in 1 .. Len(q) - i + 1
      BY <2>2, <1>1
    <3>2. back[j - i] = q[i + (j - i) - 1]
      BY <3>1, <1>3
    <3>3. i + (j - i) - 1 = j - 1
      BY <1>1
    <3> QED
      BY <3>2, <3>3, <2>2, <1>1, <1>6
  <2>3. j <= i \/ j > i
    BY <1>1
  <2> QED
    BY <2>1, <2>2, <2>3
<1> QED
  BY <1>1, <1>6, <1>7, <1>8

\* Removing the entry at i closes the gap and moves nothing else.
LEMMA RemoveAtShifts ==
    ASSUME NEW q \in Seq(Pids), NEW i \in 1 .. Len(q)
    PROVE  /\ RemoveAt(q, i) \in Seq(Pids)
           /\ Len(RemoveAt(q, i)) = Len(q) - 1
           /\ \A j \in 1 .. Len(q) - 1 : RemoveAt(q, i)[j] =
                 IF j < i THEN q[j] ELSE q[j + 1]
<1> DEFINE front == SubSeq(q, 1, i - 1)
           back == SubSeq(q, i + 1, Len(q))
<1>1. Len(q) \in Nat
  BY LenProperties
<1>2. /\ front \in Seq(Pids)
      /\ Len(front) = i - 1
      /\ \A j \in 1 .. i - 1 : front[j] = q[j]
  <2>1. 1 \in 1 .. Len(q) + 1 /\ i - 1 \in 0 .. Len(q) /\ 1 <= i - 1 + 1
    BY <1>1
  <2>2. /\ front \in Seq(Pids)
        /\ Len(front) = i - 1 - 1 + 1
        /\ \A j \in 1 .. i - 1 - 1 + 1 : front[j] = q[1 + j - 1]
    BY <2>1, SubSeqOfQueue
  <2> QED
    BY <2>2, <1>1
<1>3. /\ back \in Seq(Pids)
      /\ Len(back) = Len(q) - i
      /\ \A j \in 1 .. Len(q) - i : back[j] = q[i + j]
  <2>1. /\ i + 1 \in 1 .. Len(q) + 1
        /\ Len(q) \in 0 .. Len(q)
        /\ i + 1 <= Len(q) + 1
    BY <1>1
  <2>2. /\ back \in Seq(Pids)
        /\ Len(back) = Len(q) - (i + 1) + 1
        /\ \A j \in 1 .. Len(q) - (i + 1) + 1 : back[j] = q[i + 1 + j - 1]
    BY <2>1, SubSeqOfQueue
  <2> QED
    BY <2>2, <1>1
<1> HIDE DEF front, back
<1>4. /\ front \o back \in Seq(Pids)
      /\ Len(front \o back) = Len(q) - 1
      /\ \A j \in 1 .. Len(q) - 1 : (front \o back)[j] =
            IF j <= i - 1 THEN front[j] ELSE back[j - (i - 1)]
  <2>1. /\ front \o back \in Seq(Pids)
        /\ Len(front \o back) = Len(front) + Len(back)
        /\ \A j \in 1 .. Len(front) + Len(back) : (front \o back)[j] =
              IF j <= Len(front) THEN front[j] ELSE back[j - Len(front)]
    BY <1>2, <1>3, ConcatProperties
  <2>2. Len(front) + Len(back) = Len(q) - 1
    BY <1>1, <1>2, <1>3
  <2> QED
    BY <2>1, <2>2, <1>2
<1>5. RemoveAt(q, i) = front \o back
  BY DEF RemoveAt, front, back
<1>6. \A j \in 1 .. Len(q) - 1 : (front \o back)[j] =
         IF j < i THEN q[j] ELSE q[j + 1]
  <2> SUFFICES ASSUME NEW j \in 1 .. Len(q) - 1
               PROVE  (front \o back)[j] = IF j < i THEN q[j] ELSE q[j + 1]
    OBVIOUS
  <2>1. CASE j < i
    BY <2>1, <1>1, <1>2, <1>4
  <2>2. CASE j >= i
    <3>1. j - (i - 1) \in 1 .. Len(q) - i
      BY <2>2, <1>1
    <3>2. back[j - (i - 1)] = q[i + (j - (i - 1))]
      BY <3>1, <1>3
    <3>3. i + (j - (i - 1)) = j + 1
      BY <1>1
    <3> QED
      BY <3>2, <3>3, <2>2, <1>1, <1>4
  <2>3. j < i \/ j >= i
    BY <1>1
  <2> QED
    BY <2>1, <2>2, <2>3
<1> QED
  BY <1>1, <1>4, <1>5, <1>6

\* AddToReadyQueue adds a task that is not queued, under either scheduler.
LEMMA AddHolds ==
    ASSUME NEW q, NEW S, Holds(q, S), NEW p \in Pids \ S, NEW prio
    PROVE  Holds(AddToReadyQueue(q, p, prio), S \cup {p})
<1> DEFINE r == AddToReadyQueue(q, p, prio)
           n == Len(q)
<1>1. q \in Seq(Pids) /\ n \in Nat
  BY LenProperties DEF Holds
<1>2. PICK k \in 1 .. n + 1 :
        /\ r \in Seq(Pids)
        /\ Len(r) = n + 1
        /\ \A j \in 1 .. n + 1 :
             r[j] = IF j < k THEN q[j] ELSE IF j = k THEN p ELSE q[j - 1]
  <2>1. CASE SchedulerType = "RoundRobin"
    <3>1. r = Append(q, p)
      BY <2>1 DEF AddToReadyQueue
    <3>2. /\ Append(q, p) \in Seq(Pids)
          /\ Len(Append(q, p)) = n + 1
          /\ \A j \in 1 .. n : Append(q, p)[j] = q[j]
          /\ Append(q, p)[n + 1] = p
      BY <1>1, AppendProperties
    <3>3. \A j \in 1 .. n + 1 :
            r[j] = IF j < n + 1 THEN q[j] ELSE IF j = n + 1 THEN p ELSE q[j - 1]
      BY <3>1, <3>2, <1>1
    <3>4. n + 1 \in 1 .. n + 1
      BY <1>1
    <3> QED
      BY <3>1, <3>2, <3>3, <3>4
  <2>2. CASE SchedulerType # "RoundRobin"
    <3> DEFINE k == Cardinality(InFront(q, p, prio)) + 1
    <3>1. k \in 1 .. n + 1
      BY <1>1, InFrontInQueue
    <3>2. r = InsertAt(q, k, p)
      BY <2>2 DEF AddToReadyQueue
    <3> HIDE DEF k, r
    <3>3. /\ InsertAt(q, k, p) \in Seq(Pids)
          /\ Len(InsertAt(q, k, p)) = n + 1
          /\ \A j \in 1 .. n + 1 : InsertAt(q, k, p)[j] =
                IF j < k THEN q[j] ELSE IF j = k THEN p ELSE q[j - 1]
      BY <1>1, <3>1, InsertAtShifts
    <3> QED
      BY <3>1, <3>2, <3>3
  <2> QED
    BY <2>1, <2>2
<1> HIDE DEF r
<1>3. \A i, j \in 1 .. n : q[i] = q[j] => i = j
  BY DEF Holds
<1>4. \A i \in 1 .. n : q[i] \in S /\ q[i] # p
  BY DEF Holds
<1>5. \A i, j \in 1 .. n + 1 : r[i] = r[j] => i = j
  <2> SUFFICES ASSUME NEW i \in 1 .. n + 1, NEW j \in 1 .. n + 1, r[i] = r[j]
               PROVE  i = j
    OBVIOUS
  <2> DEFINE from(x) == IF x < k THEN x ELSE x - 1
  <2>1. \A x \in 1 .. n + 1 : x # k => from(x) \in 1 .. n /\ r[x] = q[from(x)]
    BY <1>1, <1>2
  <2>2. r[k] = p
    BY <1>1, <1>2
  <2>3. CASE i = k /\ j = k
    BY <2>3
  <2>4. CASE i = k /\ j # k
    BY <2>1, <2>2, <2>4, <1>4
  <2>5. CASE i # k /\ j = k
    BY <2>1, <2>2, <2>5, <1>4
  <2>6. CASE i # k /\ j # k
    <3>1. from(i) = from(j)
      BY <2>1, <2>6, <1>3
    <3> QED
      BY <3>1, <2>6, <1>1
  <2> QED
    BY <2>3, <2>4, <2>5, <2>6
<1>6. \A i \in 1 .. n + 1 : r[i] \in S \cup {p}
  <2> SUFFICES ASSUME NEW i \in 1 .. n + 1
               PROVE  r[i] \in S \cup {p}
    OBVIOUS
  <2>1. CASE i < k
    BY <2>1, <1>1, <1>2, <1>4
  <2>2. CASE i = k
    BY <2>2, <1>2
  <2>3. CASE i > k
    <3>1. i - 1 \in 1 .. n /\ r[i] = q[i - 1]
      BY <2>3, <1>1, <1>2
    <3> QED
      BY <3>1, <1>4
  <2>4. i < k \/ i = k \/ i > k
    BY <1>1
  <2> QED
    BY <2>1, <2>2, <2>3, <2>4
<1>7. \A x \in S \cup {p} : \E i \in 1 .. n + 1 : r[i] = x
  <2> SUFFICES ASSUME NEW x \in S \cup {p}
               PROVE  \E i \in 1 .. n + 1 : r[i] = x
    OBVIOUS
  <2>1. CASE x = p
    BY <2>1, <1>1, <1>2
  <2>2. CASE x \in S
    <3>1. PICK i \in 1 .. n : q[i] = x
      BY <2>2 DEF Holds
    <3>2. CASE i < k
      BY <3>1, <3>2, <1>1, <1>2
    <3>3. CASE i >= k
      <4>1. i + 1 \in 1 .. n + 1 /\ ~(i + 1 < k) /\ i + 1 # k /\ i + 1 - 1 = i
        BY <3>3, <1>1
      <4>2. r[i + 1] = q[i]
        BY <4>1, <1>2
      <4> QED
        BY <4>1, <4>2, <3>1
    <3>4. i < k \/ i >= k
      BY <1>1
    <3> QED
      BY <3>2, <3>3, <3>4
  <2> QED
    BY <2>1, <2>2
<1> QED
  BY <1>2, <1>5, <1>6, <1>7 DEF Holds, r

\* RemoveFromReadyQueue takes out the task, if it is queued.
LEMMA RemoveHolds ==
    ASSUME NEW q, NEW S, Holds(q, S), NEW p
    PROVE  Holds(RemoveFromReadyQueue(q, p), S \ {p})
<1> DEFINE n == Len(q)
           r == RemoveFromReadyQueue(q, p)
<1>1. q \in Seq(Pids) /\ n \in Nat /\ DOMAIN q = 1 .. n
  BY LenProperties DEF Holds
<1>2. Range(q) = S
  BY <1>1 DEF Range, Holds
<1>3. CASE p \notin S
  BY <1>2, <1>3 DEF RemoveFromReadyQueue, Holds
<1>4. CASE p \in S
  <2> DEFINE First(i) == q[i] = p /\ \A j \in 1 .. i - 1 : q[j] # p
             k == CHOOSE i \in 1 .. n : First(i)
  <2>1. PICK i \in 1 .. n : q[i] = p
    BY <1>4 DEF Holds
  <2>2. \A j \in 1 .. i - 1 : q[j] # p
    BY <2>1, <1>1 DEF Holds
  <2>3. k \in 1 .. n /\ q[k] = p
    BY <2>1, <2>2
  <2>4. r = RemoveAt(q, k)
    BY <1>2, <1>4 DEF RemoveFromReadyQueue
  <2> HIDE DEF k, r
  <2>5. /\ r \in Seq(Pids)
        /\ Len(r) = n - 1
        /\ \A j \in 1 .. n - 1 : r[j] = IF j < k THEN q[j] ELSE q[j + 1]
    BY <1>1, <2>3, <2>4, RemoveAtShifts
  <2> DEFINE from(x) == IF x < k THEN x ELSE x + 1
  <2>6. \A x \in 1 .. n - 1 : from(x) \in 1 .. n /\ from(x) # k /\ r[x] = q[from(x)]
    BY <1>1, <2>3, <2>5
  <2>7. \A x, y \in 1 .. n - 1 : r[x] = r[y] => x = y
    <3> SUFFICES ASSUME NEW x \in 1 .. n - 1, NEW y \in 1 .. n - 1, r[x] = r[y]
                 PROVE  x = y
      OBVIOUS
    <3>1. from(x) = from(y)
      BY <2>6 DEF Holds
    <3> QED
      BY <3>1, <1>1, <2>3
  <2>8. \A x \in 1 .. n - 1 : r[x] \in S \ {p}
    <3> SUFFICES ASSUME NEW x \in 1 .. n - 1
                 PROVE  r[x] \in S \ {p}
      OBVIOUS
    <3> HIDE DEF from
    <3> QED
      BY <2>3, <2>6 DEF Holds
  <2>9. \A x \in S \ {p} : \E j \in 1 .. n - 1 : r[j] = x
    <3> SUFFICES ASSUME NEW x \in S \ {p}
                 PROVE  \E j \in 1 .. n - 1 : r[j] = x
      OBVIOUS
    <3>1. PICK j \in 1 .. n : q[j] = x
      BY DEF Holds
    <3>2. j # k
      BY <3>1, <2>3
    <3>3. CASE j < k
      BY <3>1, <3>3, <1>1, <2>3, <2>5
    <3>4. CASE j > k
      <4>1. j - 1 \in 1 .. n - 1 /\ ~(j - 1 < k) /\ j - 1 + 1 = j
        BY <3>4, <1>1, <2>3
      <4> QED
        BY <4>1, <3>1, <2>5
    <3>5. j < k \/ j > k
      BY <3>2, <1>1, <2>3
    <3> QED
      BY <3>3, <3>4, <3>5
  <2> QED
    BY <2>5, <2>7, <2>8, <2>9 DEF Holds, r
<1> QED
  BY <1>3, <1>4

\* The head is one of the tasks, and the tail holds the others.
LEMMA TailHolds ==
    ASSUME NEW q, NEW S, Holds(q, S), q # << >>
    PROVE  Head(q) \in S /\ Holds(Tail(q), S \ {Head(q)})
<1>1. /\ q \in Seq(Pids) /\ Len(q) \in Nat /\ Len(q) >= 1
      /\ Head(q) = q[1]
      /\ Tail(q) \in Seq(Pids) /\ Len(Tail(q)) = Len(q) - 1
      /\ \A i \in 1 .. Len(q) - 1 : Tail(q)[i] = q[i + 1]
  BY LenProperties, HeadTailProperties, EmptySeq DEF Holds
<1>2. \A i, j \in 1 .. Len(q) : q[i] = q[j] => i = j
  BY DEF Holds
<1>3. \A i \in 1 .. Len(q) - 1 : i + 1 \in 1 .. Len(q) /\ i + 1 # 1
  BY <1>1
<1>4. \A i \in 1 .. Len(q) - 1 : Tail(q)[i] \in S \ {Head(q)}
  BY <1>1, <1>2, <1>3 DEF Holds
<1>5. \A i, j \in 1 .. Len(q) - 1 : Tail(q)[i] = Tail(q)[j] => i = j
  BY <1>1, <1>2, <1>3
<1>6. \A p \in S \ {Head(q)} : \E i \in 1 .. Len(q) - 1 : Tail(q)[i] = p
  <2> SUFFICES ASSUME NEW p \in S \ {Head(q)}
               PROVE  \E i \in 1 .. Len(q) - 1 : Tail(q)[i] = p
    OBVIOUS
  <2>1. PICK j \in 1 .. Len(q) : q[j] = p
    BY DEF Holds
  <2>2. j - 1 \in 1 .. Len(q) - 1 /\ j - 1 + 1 = j
    BY <2>1, <1>1
  <2> QED
    BY <2>1, <2>2, <1>1
<1> QED
  BY <1>1, <1>4, <1>5, <1>6 DEF Holds

LEMMA EmptyHolds ==
    ASSUME NEW S, Holds(<< >>, S)
    PROVE  S = {}
BY DEF Holds

\* A nonempty set of slot numbers has a largest member.
LEMMA LargestPid ==
    ASSUME NEW A \in SUBSET Pids, A # {}
    PROVE  \E m \in A : \A p \in A : p <= m
<1> DEFINE room(p) == MaxNumTasks - 1 - p
           T == {room(p) : p \in A}
<1>1. MaxNumTasks \in Nat \ {0}
  BY MaxNumTasksAssumption
<1>2. T \subseteq Nat /\ T # {}
  <2>1. \A p \in A : room(p) \in Nat
    BY <1>1 DEF Pids
  <2> HIDE DEF room
  <2> QED
    BY <2>1
<1>3. PICK x \in T : \A y \in T : ~(<<y, x>> \in OpToRel(<, Nat))
  BY <1>2, WFMin, NatLessThanWellFounded
<1>4. \A y \in T : ~(y < x)
  BY <1>2, <1>3 DEF OpToRel
<1>5. PICK m \in A : x = room(m)
  BY <1>3
<1>6. \A p \in A : p <= m
  <2> SUFFICES ASSUME NEW p \in A
               PROVE  p <= m
    OBVIOUS
  <2>1. ~(room(p) < x)
    BY <1>4
  <2> QED
    BY <2>1, <1>1, <1>5 DEF Pids
<1> QED
  BY <1>6

-----------------------------------------------------------------------------
(* Dispatching *)

States == {"Free", "Ready", "Running", "Blocked", "Terminated"}
ReadyIn(st) == {p \in Pids : st[p] = "Ready"}

QueueExact == Holds(readyQueue, ReadyIn(state))
RunningExact == \A p \in Pids : state[p] = "Running" <=> p = currentTask

LEMMA ReadyInMakeReady ==
    ASSUME NEW st \in [Pids -> States], NEW p \in Pids
    PROVE  /\ MakeReady(st, p) \in [Pids -> States]
           /\ ReadyIn(MakeReady(st, p)) = ReadyIn(st) \cup {p}
BY DEF MakeReady, ReadyIn, States

\* AddToReadyQueue with its change of state: p was not Ready and now is.
LEMMA QueuedAndReady ==
    ASSUME NEW st \in [Pids -> States], NEW q, Holds(q, ReadyIn(st)),
           NEW p \in Pids, st[p] # "Ready", NEW prio
    PROVE  Holds(AddToReadyQueue(q, p, prio), ReadyIn(MakeReady(st, p)))
<1>1. p \in Pids \ ReadyIn(st)
  BY DEF ReadyIn
<1>2. Holds(AddToReadyQueue(q, p, prio), ReadyIn(st) \cup {p})
  BY <1>1, AddHolds
<1> QED
  BY <1>2, ReadyInMakeReady

\* With a Ready task and none Running the pop succeeds; only the state of
\* the task it dispatches changes.
LEMMA Dispatches ==
    ASSUME NEW st \in [Pids -> States], NEW q, Holds(q, ReadyIn(st)),
           \A p \in Pids : st[p] # "Running",
           \E p \in Pids : st[p] = "Ready",
           Schedule(st, q)
    PROVE  /\ fault' = fault
           /\ currentTask' \in Pids
           /\ state' \in [Pids -> States]
           /\ QueueExact'
           /\ RunningExact'
           /\ \A p \in Pids : \A s \in {"Free", "Blocked", "Terminated"} :
                 state'[p] = s <=> st[p] = s
<1>1. q # << >>
  BY EmptyHolds DEF ReadyIn
<1>2. /\ fault' = fault
      /\ currentTask' = Head(q)
      /\ state' = [st EXCEPT ![Head(q)] = "Running"]
      /\ readyQueue' = Tail(q)
  BY <1>1 DEF Schedule
<1>3. Head(q) \in ReadyIn(st) /\ Holds(Tail(q), ReadyIn(st) \ {Head(q)})
  BY <1>1, TailHolds
<1>4. Head(q) \in Pids /\ st[Head(q)] = "Ready"
  BY <1>3 DEF ReadyIn
<1>5. ReadyIn(state') = ReadyIn(st) \ {Head(q)}
  BY <1>2, <1>4 DEF ReadyIn
<1>6. QueueExact'
  BY <1>2, <1>3, <1>5 DEF QueueExact
<1>7. RunningExact'
  BY <1>2, <1>4 DEF RunningExact
<1> QED
  BY <1>2, <1>4, <1>6, <1>7 DEF States

\* Were every live task blocked, the youngest one would have a live child
\* that is younger still.
LEMMA SomeoneReady ==
    ASSUME NEW st \in [Pids -> States], NEW n \in 1 .. MaxNumTasks,
           st[InitPid] # "Terminated",
           \A p \in Pids : p < n => st[p] \notin {"Free", "Running"},
           \A p \in Pids : st[p] = "Blocked" =>
             \E c \in Pids : p < c /\ c < n /\ st[c] # "Terminated"
    PROVE  \E p \in Pids : st[p] = "Ready"
<1> DEFINE A == {p \in Pids : p < n /\ st[p] # "Terminated"}
<1>1. InitPid \in A
  BY MaxNumTasksAssumption DEF InitPid, Pids
<1>2. PICK m \in A : \A p \in A : p <= m
  BY <1>1, LargestPid
<1>3. st[m] # "Blocked"
  <2> SUFFICES ASSUME st[m] = "Blocked" PROVE FALSE
    OBVIOUS
  <2>1. PICK c \in Pids : m < c /\ c < n /\ st[c] # "Terminated"
    BY <1>2
  <2>2. c <= m
    BY <1>2, <2>1
  <2> QED
    BY <2>1, <2>2, <1>2, MaxNumTasksAssumption DEF Pids
<1> QED
  BY <1>2, <1>3 DEF States

-----------------------------------------------------------------------------
(* The inductive invariant *)

\* Slots are handed out in order, so a child's slot is behind its parent's.
SlotsInOrder ==
    /\ numTasks >= 1
    /\ \A p \in Pids : state[p] = "Free" <=> p >= numTasks
    /\ \A p \in Pids : ppid[p] # NoTask => ppid[p] < p

InitLives == state[InitPid] # "Terminated"

\* Only waitpid blocks a task, and what it waits for can still happen.
WaitersExact ==
    \A p \in Pids :
        /\ waitingChild[p] <=> state[p] = "Blocked"
        /\ waitingChild[p] =>
             \E c \in Children(p, waitingChildId[p]) : state[c] # "Terminated"
        /\ waitingChild[p] => TerminatedChildren(p, waitingChildId[p]) = {}

\* No task is blocked for collatz, and none that was will be resumed again.
NobodyBlocked ==
    blockedTaskForCollatz # NoTask =>
        interruptNumAfterCollatz >= FifthInterrupt /\ collatzTask = NoTask

IInv ==
    /\ TypeOK
    /\ PopFindsTask
    /\ QueueExact
    /\ RunningExact
    /\ SlotsInOrder
    /\ InitLives
    /\ WaitersExact
    /\ NobodyBlocked

\* What waitpid's scan looks at: slots handed out, whose parent is the caller.
LEMMA ChildrenArePids ==
    ASSUME numTasks \in 0 .. MaxNumTasks, NEW p, NEW pid,
           NEW c \in Children(p, pid)
    PROVE  /\ c \in Pids /\ c < numTasks
           /\ ppid[c] = p /\ ~parentTookInWait[c] /\ pid \in {AnyChild, c}
<1>1. c \in 0 .. numTasks - 1
  BY DEF Children
<1>2. c \in Pids /\ c < numTasks
  BY <1>1, MaxNumTasksAssumption DEF Pids
<1> QED
  BY <1>2 DEF Children

\* A waiter has a live child in a later slot.
LEMMA WaiterHasChild ==
    ASSUME IInv, NEW p \in Pids, state[p] = "Blocked"
    PROVE  \E c \in Pids : /\ p < c /\ c < numTasks /\ ppid[c] = p
                           /\ waitingChildId[p] \in {AnyChild, c}
                           /\ state[c] # "Terminated"
<1>1. numTasks \in 0 .. MaxNumTasks /\ NoTask # p
  BY MaxNumTasksAssumption DEF IInv, TypeOK, NoTask, Pids
<1>2. /\ waitingChild[p]
      /\ \E c \in Children(p, waitingChildId[p]) : state[c] # "Terminated"
  BY DEF IInv, WaitersExact
<1>3. PICK c \in Children(p, waitingChildId[p]) : state[c] # "Terminated"
  BY <1>2
<1>4. c \in Pids /\ c < numTasks /\ ppid[c] = p /\ waitingChildId[p] \in {AnyChild, c}
  BY <1>1, <1>3, ChildrenArePids
<1>5. p < c
  BY <1>1, <1>4 DEF IInv, SlotsInOrder
<1> QED
  BY <1>3, <1>4, <1>5

LEMMA InitIInv == Init => IInv
<1> SUFFICES ASSUME Init PROVE IInv
  OBVIOUS
<1>1. MaxNumTasks \in Nat \ {0} /\ InitPid \in Pids
  BY MaxNumTasksAssumption DEF InitPid, Pids
<1>2. readyQueue \in Seq(Pids) /\ Len(readyQueue) = 1 /\ readyQueue[1] = InitPid
  BY <1>1 DEF Init
<1>3. TypeOK
  <2>1. /\ numTasks \in 0 .. MaxNumTasks
        /\ 0 \in Pids
        /\ MaxNumTasks - 1 \in Pids
        /\ -1 \in -1 .. CounterBound
    BY <1>1 DEF Init, Pids, CounterBound, FifthInterrupt
  <2> QED
    BY <1>1, <1>2, <2>1 DEF Init, TypeOK
<1>4. ReadyIn(state) = {InitPid}
  BY <1>1 DEF Init, ReadyIn
<1>5. QueueExact
  BY <1>2, <1>4 DEF QueueExact, Holds
<1>6. RunningExact
  BY DEF Init, RunningExact, NoTask, Pids
<1>7. SlotsInOrder
  BY <1>1 DEF Init, SlotsInOrder, InitPid, Pids, NoTask
<1>8. InitLives /\ WaitersExact /\ NobodyBlocked /\ PopFindsTask
  BY <1>1 DEF Init, InitLives, WaitersExact, NobodyBlocked, PopFindsTask
<1> QED
  BY <1>3, <1>5, <1>6, <1>7, <1>8 DEF IInv

Priorities == {High, Medium, Low}

\* When the fifth interrupt comes in B4, collatz waits in the queue.
RaisesQueued ==
    AtFifthInterrupt("B4") => /\ collatzTask \in Pids
                              /\ state[collatzTask] = "Ready"

\* The priorities and the queue from which a timer interrupt dispatches.
TickPriority ==
    IF AtFifthInterrupt("B4") THEN [priority EXCEPT ![collatzTask] = High]
    ELSE priority
RaisedQueue ==
    IF AtFifthInterrupt("B4")
    THEN AddToReadyQueue(RemoveFromReadyQueue(readyQueue, collatzTask),
                         collatzTask, TickPriority)
    ELSE readyQueue
TickStates ==
    IF currentTask = NoTask THEN state ELSE MakeReady(state, currentTask)
TickQueue ==
    IF currentTask = NoTask THEN RaisedQueue
    ELSE AddToReadyQueue(RaisedQueue, currentTask, TickPriority)

\* What a timer interrupt has built when it calls the scheduler: no task is
\* lost, queued twice or revived.
LEMMA TickSchedules ==
    ASSUME IInv, TimerInterrupt, RaisesQueued
    PROVE  /\ TickStates \in [Pids -> States]
           /\ Holds(TickQueue, ReadyIn(TickStates))
           /\ Schedule(TickStates, TickQueue)
           /\ TickPriority \in [Pids -> Priorities]
           /\ \A p \in Pids : TickStates[p] # "Running"
           /\ \A p \in Pids : \A s \in {"Free", "Blocked", "Terminated"} :
                 TickStates[p] = s <=> state[p] = s
           /\ interruptNumAfterCollatz' = TicksCounted
           /\ priority' = TickPriority
           /\ UNCHANGED <<numTasks, ppid, waitVars, forkPid, eax, collatzTask,
                          blockedTaskForCollatz, ignoreSchedule>>
<1>1. /\ state \in [Pids -> States] /\ priority \in [Pids -> Priorities]
      /\ NoTask \notin Pids
      /\ currentTask \in Pids \cup {NoTask}
      /\ Holds(readyQueue, ReadyIn(state))
  BY MaxNumTasksAssumption
     DEF IInv, TypeOK, QueueExact, States, Priorities, Pids, NoTask
<1>2. /\ TickPriority \in [Pids -> Priorities]
      /\ Holds(RaisedQueue, ReadyIn(state))
  <2>1. CASE AtFifthInterrupt("B4")
    <3> DEFINE q == RemoveFromReadyQueue(readyQueue, collatzTask)
    <3>1. collatzTask \in Pids /\ state[collatzTask] = "Ready"
      BY <2>1 DEF RaisesQueued
    <3>2. TickPriority \in [Pids -> Priorities]
      BY <1>1, <2>1, <3>1 DEF TickPriority, Priorities
    <3>3. Holds(q, ReadyIn(state) \ {collatzTask})
      BY <1>1, RemoveHolds
    <3>4. collatzTask \in Pids \ (ReadyIn(state) \ {collatzTask})
      BY <3>1
    <3> HIDE DEF q
    <3>5. Holds(AddToReadyQueue(q, collatzTask, TickPriority),
                (ReadyIn(state) \ {collatzTask}) \cup {collatzTask})
      BY <3>3, <3>4, AddHolds
    <3>6. (ReadyIn(state) \ {collatzTask}) \cup {collatzTask} = ReadyIn(state)
      BY <3>1 DEF ReadyIn
    <3> QED
      BY <2>1, <3>2, <3>5, <3>6 DEF RaisedQueue, q
  <2>2. CASE ~AtFifthInterrupt("B4")
    BY <1>1, <2>2 DEF TickPriority, RaisedQueue
  <2> QED
    BY <2>1, <2>2
<1>3. /\ TickStates \in [Pids -> States]
      /\ \A p \in Pids : TickStates[p] # "Running"
      /\ \A p \in Pids : \A s \in {"Free", "Blocked", "Terminated"} :
            TickStates[p] = s <=> state[p] = s
  BY <1>1 DEF IInv, TypeOK, RunningExact, MakeReady, States, TickStates
<1>4. Holds(TickQueue, ReadyIn(TickStates))
  <2>1. CASE currentTask = NoTask
    BY <1>2, <2>1 DEF TickQueue, TickStates
  <2>2. CASE currentTask # NoTask
    <3>1. currentTask \in Pids /\ state[currentTask] # "Ready"
      BY <1>1, <2>2 DEF IInv, RunningExact
    <3>2. Holds(AddToReadyQueue(RaisedQueue, currentTask, TickPriority),
                ReadyIn(MakeReady(state, currentTask)))
      BY <1>1, <1>2, <3>1, QueuedAndReady
    <3> QED
      BY <2>2, <3>2 DEF TickQueue, TickStates
  <2> QED
    BY <2>1, <2>2
<1>5. /\ Schedule(TickStates, TickQueue)
      /\ priority' = TickPriority
      /\ UNCHANGED blockedTaskForCollatz
  <2>1. CASE AtFifthInterrupt("B4")
    <3>1. MakeReady(state, collatzTask) = state
      BY <1>1, <2>1 DEF RaisesQueued, MakeReady
    <3>2. RaiseCollatz
      BY <2>1 DEF TimerInterrupt, ResumeBlocked, PlainTick, AtFifthInterrupt
    <3> QED
      BY <2>1, <3>1, <3>2 DEF RaiseCollatz, Preempt, TickStates, TickQueue,
         RaisedQueue, TickPriority
  <2>2. CASE ~AtFifthInterrupt("B4")
    <3>1. blockedTaskForCollatz # NoTask => TicksCounted # FifthInterrupt
      BY DEF IInv, TypeOK, NobodyBlocked, TicksCounted, FifthInterrupt,
         CounterBound
    <3>2. PlainTick
      BY <2>2, <3>1 DEF TimerInterrupt, RaiseCollatz, ResumeBlocked,
         AtFifthInterrupt
    <3> QED
      BY <2>2, <3>2 DEF PlainTick, Preempt, TickStates, TickQueue,
         RaisedQueue, TickPriority
  <2> QED
    BY <2>1, <2>2
<1> QED
  BY <1>2, <1>3, <1>4, <1>5 DEF TimerInterrupt

LEMMA TickIInv == IInv /\ TimerInterrupt /\ RaisesQueued => IInv'
<1> SUFFICES ASSUME IInv, TimerInterrupt, RaisesQueued PROVE IInv'
  OBVIOUS
<1> DEFINE st == TickStates
           q == TickQueue
<1>1. /\ TypeOK
      /\ state \in [Pids -> States]
      /\ numTasks \in 1 .. MaxNumTasks
      /\ NoTask \notin Pids
  BY MaxNumTasksAssumption DEF IInv, TypeOK, SlotsInOrder, States, Pids, NoTask
<1>2. interruptNumAfterCollatz' \in -1 .. CounterBound
  BY <1>1, TickSchedules DEF TypeOK, TicksCounted, CounterBound, FifthInterrupt
<1>3. /\ Schedule(st, q)
      /\ priority' \in [Pids -> Priorities]
      /\ UNCHANGED <<numTasks, ppid, waitVars, forkPid, eax,
                     collatzTask, blockedTaskForCollatz, ignoreSchedule>>
  BY TickSchedules
<1>4. /\ st \in [Pids -> States]
      /\ \A p \in Pids : st[p] # "Running"
      /\ \A p \in Pids : \A s \in {"Free", "Blocked", "Terminated"} :
            st[p] = s <=> state[p] = s
  BY TickSchedules
<1>5. Holds(q, ReadyIn(st))
  BY TickSchedules
<1>6. \E p \in Pids : st[p] = "Ready"
  <2>1. \A p \in Pids : p < numTasks => st[p] # "Free"
    BY <1>1, <1>4 DEF IInv, SlotsInOrder, Pids
  <2>2. ASSUME NEW p \in Pids, st[p] = "Blocked"
        PROVE  \E c \in Pids : p < c /\ c < numTasks /\ st[c] # "Terminated"
    <3>1. state[p] = "Blocked"
      BY <1>4, <2>2
    <3> QED
      BY <1>4, <3>1, WaiterHasChild
  <2>3. st[InitPid] # "Terminated"
    BY <1>4, MaxNumTasksAssumption DEF IInv, InitLives, InitPid, Pids
  <2> HIDE DEF st
  <2> QED
    BY <1>1, <1>4, <2>1, <2>2, <2>3, SomeoneReady
<1> HIDE DEF st, q
<1>7. /\ fault' = fault
      /\ currentTask' \in Pids
      /\ state' \in [Pids -> States]
      /\ QueueExact'
      /\ RunningExact'
      /\ \A p \in Pids : \A s \in {"Free", "Blocked", "Terminated"} :
            state'[p] = s <=> st[p] = s
  BY <1>3, <1>4, <1>5, <1>6, Dispatches
<1>8. \A p \in Pids : \A s \in {"Free", "Blocked", "Terminated"} :
         state'[p] = s <=> state[p] = s
  BY <1>4, <1>7
<1>9. TypeOK'
  BY <1>1, <1>2, <1>3, <1>7 DEF TypeOK, QueueExact, Holds, States, waitVars,
     CounterBound, FifthInterrupt, Priorities
<1>10. SlotsInOrder'
  BY <1>3, <1>8 DEF IInv, SlotsInOrder
<1>11. InitLives'
  BY <1>8, MaxNumTasksAssumption DEF IInv, InitLives, InitPid, Pids
<1>12. WaitersExact'
  <2>1. \A p, pid : Children(p, pid)' = Children(p, pid)
    BY <1>3 DEF Children, waitVars
  <2>2. numTasks \in 0 .. MaxNumTasks
    BY DEF IInv, TypeOK
  <2>3. \A p, pid : \A c \in Children(p, pid) : c \in Pids
    BY <2>2, ChildrenArePids
  <2> QED
    BY <1>3, <1>8, <2>1, <2>3 DEF IInv, WaitersExact, TerminatedChildren,
       waitVars
<1>13. NobodyBlocked'
  BY TickSchedules DEF IInv, TypeOK, NobodyBlocked, TicksCounted,
     FifthInterrupt, CounterBound
<1> QED
  BY <1>7, <1>9, <1>10, <1>11, <1>12, <1>13 DEF IInv, PopFindsTask

\* The caller of a system call is the one Running task, in a used slot.
LEMMA CallerRuns ==
    ASSUME IInv, Calling
    PROVE  /\ currentTask \in Pids
           /\ state[currentTask] = "Running"
           /\ currentTask < numTasks
           /\ ~waitingChild[currentTask]
           /\ state \in [Pids -> States]
           /\ numTasks \in 1 .. MaxNumTasks
           /\ MaxNumTasks \in Nat
           /\ NoTask \notin Pids
           /\ fault = "None"
<1>1. /\ currentTask \in Pids
      /\ state \in [Pids -> States]
      /\ numTasks \in 1 .. MaxNumTasks
      /\ MaxNumTasks \in Nat
      /\ NoTask \notin Pids
  BY MaxNumTasksAssumption
     DEF IInv, Calling, TypeOK, SlotsInOrder, States, Pids, NoTask
<1>2. state[currentTask] = "Running"
  BY <1>1 DEF IInv, RunningExact
<1>3. currentTask < numTasks
  BY <1>1, <1>2 DEF IInv, SlotsInOrder, Pids
<1>4. ~waitingChild[currentTask]
  BY <1>1, <1>2 DEF IInv, WaitersExact
<1> QED
  BY <1>1, <1>2, <1>3, <1>4 DEF Calling

LEMMA ForkIInv == IInv /\ Fork => IInv'
<1> SUFFICES ASSUME IInv, Fork PROVE IInv'
  OBVIOUS
<1> DEFINE child == numTasks
           prio == [priority EXCEPT ![child] = priority[currentTask]]
<1>1. /\ currentTask \in Pids
      /\ state[currentTask] = "Running"
      /\ currentTask < numTasks
      /\ state \in [Pids -> States]
      /\ numTasks \in 1 .. MaxNumTasks
      /\ MaxNumTasks \in Nat
      /\ NoTask \notin Pids
  BY CallerRuns DEF Fork
<1>2. UNCHANGED <<currentTask, waitVars, collatzVars>>
  BY DEF Fork
<1>3. CASE ~HasFreeSlot
  <2>1. /\ fault' = "NullChild"
        /\ UNCHANGED <<numTasks, priority, ppid, state, readyQueue, forkPid, eax>>
    BY <1>3 DEF Fork
  <2>2. \A p, pid : Children(p, pid)' = Children(p, pid)
    BY <1>2, <2>1 DEF Children, waitVars
  <2> QED
    BY <1>2, <2>1, <2>2 DEF IInv, TypeOK, PopFindsTask, QueueExact, ReadyIn,
       RunningExact, SlotsInOrder, InitLives, WaitersExact, NobodyBlocked,
       TerminatedChildren, waitVars, collatzVars
<1>4. CASE HasFreeSlot
  <2>1. /\ numTasks' = numTasks + 1
        /\ priority' = prio
        /\ ppid' = [ppid EXCEPT ![child] = currentTask]
        /\ state' = MakeReady(state, child)
        /\ readyQueue' = AddToReadyQueue(readyQueue, child, prio)
        /\ forkPid' = [forkPid EXCEPT ![currentTask] = child, ![child] = 0]
        /\ eax' = [eax EXCEPT ![currentTask] = Pending, ![child] = Pending]
        /\ fault' = fault
    BY <1>4 DEF Fork, ForkPids
  <2>2. child \in Pids /\ child # InitPid /\ child # currentTask
    BY <1>1, <1>4 DEF HasFreeSlot, Pids, InitPid
  <2>3. state[child] = "Free"
    BY <1>1, <2>2 DEF IInv, SlotsInOrder
  <2> HIDE DEF prio, child
  <2>4. /\ state' \in [Pids -> States]
        /\ state'[child] = "Ready"
        /\ \A p \in Pids : p # child => state'[p] = state[p]
    BY <1>1, <2>1, <2>2 DEF MakeReady, States
  <2>5. QueueExact'
    BY <1>1, <2>1, <2>2, <2>3, QueuedAndReady DEF IInv, QueueExact
  <2>6. RunningExact'
    BY <1>2, <2>2, <2>4 DEF IInv, RunningExact
  <2>7. SlotsInOrder'
    <3>1. numTasks' >= 1
      BY <1>1, <2>1
    <3>2. \A p \in Pids : state'[p] = "Free" <=> p >= numTasks'
      BY <1>1, <2>1, <2>2, <2>4 DEF IInv, SlotsInOrder, Pids, child
    <3>3. \A p \in Pids : ppid'[p] # NoTask => ppid'[p] < p
      BY <1>1, <2>1, <2>2 DEF IInv, TypeOK, SlotsInOrder, child
    <3> QED
      BY <3>1, <3>2, <3>3 DEF SlotsInOrder
  <2>8. InitLives'
    BY <1>1, <2>2, <2>4 DEF IInv, InitLives, InitPid, Pids
  <2>9. WaitersExact'
    <3> SUFFICES ASSUME NEW p \in Pids
                 PROVE  /\ waitingChild'[p] <=> state'[p] = "Blocked"
                        /\ waitingChild'[p] =>
                             \E c \in Children(p, waitingChildId[p])' :
                                state'[c] # "Terminated"
                        /\ waitingChild'[p] =>
                             TerminatedChildren(p, waitingChildId[p])' = {}
      BY DEF WaitersExact
    <3>1. waitingChild' = waitingChild /\ waitingChildId' = waitingChildId
      BY <1>2 DEF waitVars
    <3>2. waitingChild'[p] <=> state'[p] = "Blocked"
      BY <2>3, <2>4, <3>1 DEF IInv, WaitersExact
    <3>3. ASSUME waitingChild[p]
          PROVE  /\ Children(p, waitingChildId[p])' = Children(p, waitingChildId[p])
                 /\ \A c \in Children(p, waitingChildId[p]) : state'[c] = state[c]
      <4>1. p # currentTask
        BY <1>1, <3>3 DEF IInv, WaitersExact
      <4>2. ppid'[child] # p /\ \A c \in Pids : c # child => ppid'[c] = ppid[c]
        BY <2>1, <2>2, <4>1 DEF IInv, TypeOK
      <4>3. /\ \A c \in 0 .. numTasks' - 1 : c \in Pids /\ (c # child => c \in 0 .. numTasks - 1)
            /\ \A c \in 0 .. numTasks - 1 : c \in 0 .. numTasks' - 1 /\ c # child
        BY <1>1, <1>4, <2>1 DEF child, Pids, HasFreeSlot
      <4>4. Children(p, waitingChildId[p])' = Children(p, waitingChildId[p])
        BY <1>2, <4>2, <4>3 DEF Children, waitVars
      <4>5. \A c \in Children(p, waitingChildId[p]) : c \in Pids /\ c # child
        BY <4>3 DEF Children
      <4> QED
        BY <2>4, <4>4, <4>5
    <3>4. ASSUME waitingChild[p]
          PROVE  /\ \E c \in Children(p, waitingChildId[p]) : state[c] # "Terminated"
                 /\ TerminatedChildren(p, waitingChildId[p]) = {}
      BY <3>4 DEF IInv, WaitersExact
    <3> QED
      BY <3>1, <3>2, <3>3, <3>4 DEF TerminatedChildren
  <2>10. TypeOK'
    <3>1. numTasks' \in 0 .. MaxNumTasks
      BY <1>1, <1>4, <2>1 DEF HasFreeSlot
    <3>2. prio \in [Pids -> {High, Medium, Low}]
      BY <1>1, <2>2 DEF IInv, TypeOK, prio
    <3>3. /\ ppid' \in [Pids -> Pids \cup {NoTask}]
          /\ forkPid' \in [Pids -> Pids \cup {NoTask}]
          /\ eax' \in [Pids -> Pids \cup {NoTask, Pending}]
      <4>1. 0 \in Pids
        BY <1>1 DEF Pids
      <4> QED
        BY <1>1, <2>1, <2>2, <4>1 DEF IInv, TypeOK
    <3> QED
      BY <1>2, <2>1, <2>4, <2>5, <3>1, <3>2, <3>3 DEF IInv, TypeOK, States,
         QueueExact, Holds, waitVars, collatzVars
  <2> QED
    BY <1>2, <2>1, <2>5, <2>6, <2>7, <2>8, <2>9, <2>10
       DEF IInv, PopFindsTask, NobodyBlocked, collatzVars
<1> QED
  BY <1>3, <1>4

\* sysforkpid and execve answer the caller and change nothing else.
LEMMA AnswerIInv == IInv /\ (ForkPid \/ Execve) => IInv'
<1> SUFFICES ASSUME IInv, ForkPid \/ Execve PROVE IInv'
  OBVIOUS
<1>1. currentTask \in Pids /\ 0 \in Pids
  BY CallerRuns DEF ForkPid, Execve, Pids
<1>2. /\ eax' \in [Pids -> Pids \cup {NoTask, Pending}]
      /\ UNCHANGED <<numTasks, currentTask, state, ppid, priority, waitVars,
                     forkPid, readyQueue, collatzVars, fault>>
  BY <1>1 DEF IInv, TypeOK, ForkPid, Execve
<1>3. \A p, pid : Children(p, pid)' = Children(p, pid)
  BY <1>2 DEF Children, waitVars
<1> QED
  BY <1>2, <1>3 DEF IInv, TypeOK, PopFindsTask, QueueExact, ReadyIn,
     RunningExact, SlotsInOrder, InitLives, WaitersExact, NobodyBlocked,
     TerminatedChildren, waitVars, collatzVars

LEMMA WaitpidIInv ==
    ASSUME IInv, NEW pid \in Pids \cup {AnyChild}, Waitpid(pid)
    PROVE  IInv'
<1> DEFINE me == currentTask
<1>1. /\ me \in Pids
      /\ state[me] = "Running"
      /\ me < numTasks
      /\ ~waitingChild[me]
      /\ state \in [Pids -> States]
      /\ numTasks \in 1 .. MaxNumTasks
      /\ MaxNumTasks \in Nat
  BY CallerRuns DEF Waitpid
<1>2. UNCHANGED <<numTasks, ppid, priority, forkPid, collatzVars>>
  BY DEF Waitpid
<1>3. \A p, q : \A c \in Children(p, q) : c \in Pids /\ ppid[c] = p
  BY <1>1, ChildrenArePids
<1>4. CASE WaitpidReaps(pid)
  <2>1. PICK c \in TerminatedChildren(me, pid) :
          /\ parentTookInWait' = [parentTookInWait EXCEPT ![c] = TRUE]
          /\ eax' = [eax EXCEPT ![me] = c]
          /\ UNCHANGED <<currentTask, state, waitingChild, waitingChildId,
                         readyQueue, fault>>
    BY <1>4 DEF WaitpidReaps
  <2>2. c \in Pids /\ ppid[c] = me
    BY <1>3 DEF TerminatedChildren
  <2>3. TypeOK'
    BY <1>1, <1>2, <2>1, <2>2 DEF IInv, TypeOK, collatzVars
  <2>4. ASSUME NEW p \in Pids, waitingChild[p]
        PROVE  Children(p, waitingChildId[p])' = Children(p, waitingChildId[p])
    <3>1. p # me
      BY <1>1, <2>4
    <3>2. \A d \in 0 .. numTasks - 1 : ppid[d] = p =>
            parentTookInWait'[d] = parentTookInWait[d]
      <4>1. \A d \in 0 .. numTasks - 1 : d \in Pids
        BY <1>1 DEF Pids
      <4> QED
        BY <2>1, <2>2, <3>1, <4>1 DEF IInv, TypeOK
    <3> QED
      BY <1>2, <2>1, <3>2 DEF Children
  <2>5. WaitersExact'
    BY <2>1, <2>4 DEF IInv, WaitersExact, TerminatedChildren
  <2> QED
    BY <1>2, <2>1, <2>3, <2>5 DEF IInv, PopFindsTask, QueueExact, ReadyIn,
       RunningExact, SlotsInOrder, InitLives, NobodyBlocked, collatzVars
<1>5. CASE WaitpidFails(pid)
  <2>1. /\ eax' = [eax EXCEPT ![me] = NoTask]
        /\ waitingChild' = [waitingChild EXCEPT ![me] = FALSE]
        /\ UNCHANGED <<currentTask, state, waitingChildId, parentTookInWait,
                       readyQueue, fault>>
    BY <1>5 DEF WaitpidFails
  <2>2. waitingChild' = waitingChild
    BY <1>1, <2>1 DEF IInv, TypeOK
  <2>3. TypeOK'
    BY <1>1, <1>2, <2>1, <2>2 DEF IInv, TypeOK, collatzVars
  <2>4. \A p, q : Children(p, q)' = Children(p, q)
    BY <1>2, <2>1 DEF Children
  <2> QED
    BY <1>2, <2>1, <2>2, <2>3, <2>4 DEF IInv, PopFindsTask, QueueExact,
       ReadyIn, RunningExact, SlotsInOrder, InitLives, WaitersExact,
       TerminatedChildren, NobodyBlocked, collatzVars
<1>6. CASE WaitpidBlocks(pid)
  <2> DEFINE st == [state EXCEPT ![me] = "Blocked"]
  <2>1. /\ Children(me, pid) # {}
        /\ TerminatedChildren(me, pid) = {}
        /\ waitingChild' = [waitingChild EXCEPT ![me] = TRUE]
        /\ waitingChildId' = [waitingChildId EXCEPT ![me] = pid]
        /\ eax' = [eax EXCEPT ![me] = Pending]
        /\ Schedule(st, readyQueue)
        /\ UNCHANGED parentTookInWait
    BY <1>6 DEF WaitpidBlocks
  <2>2. /\ st \in [Pids -> States]
        /\ st[me] = "Blocked"
        /\ \A p \in Pids : p # me => st[p] = state[p]
    BY <1>1 DEF States
  <2>3. \A c \in Children(me, pid) : state[c] # "Terminated"
    BY <2>1 DEF TerminatedChildren
  <2>4. PICK child \in Children(me, pid) : state[child] # "Terminated"
    BY <2>1, <2>3
  <2>5. child \in Pids /\ child < numTasks /\ me < child
    <3>1. child \in Pids /\ child < numTasks /\ ppid[child] = me /\ me # NoTask
      BY <1>1, ChildrenArePids DEF Waitpid, Calling
    <3> QED
      BY <3>1 DEF IInv, SlotsInOrder
  <2> HIDE DEF st
  <2>6. /\ \A p \in Pids : st[p] # "Running"
        /\ Holds(readyQueue, ReadyIn(st))
    <3>1. ReadyIn(st) = ReadyIn(state)
      BY <1>1, <2>2 DEF ReadyIn
    <3> QED
      BY <1>1, <2>2, <3>1 DEF IInv, RunningExact, QueueExact
  <2>7. \E p \in Pids : st[p] = "Ready"
    <3>1. \A p \in Pids : p < numTasks => st[p] # "Free"
      BY <1>1, <2>2 DEF IInv, SlotsInOrder, Pids
    <3>2. st[InitPid] # "Terminated"
      BY <1>1, <2>2 DEF IInv, InitLives, InitPid, Pids
    <3>3. ASSUME NEW p \in Pids, st[p] = "Blocked"
          PROVE  \E c \in Pids : p < c /\ c < numTasks /\ st[c] # "Terminated"
      <4>1. CASE p = me
        BY <2>2, <2>4, <2>5, <4>1
      <4>2. CASE p # me
        <5>1. PICK c \in Pids : p < c /\ c < numTasks /\ state[c] # "Terminated"
          BY <2>2, <3>3, <4>2, WaiterHasChild
        <5> QED
          BY <2>2, <5>1
      <4> QED
        BY <4>1, <4>2
    <3> QED
      BY <1>1, <2>2, <2>6, <3>1, <3>2, <3>3, SomeoneReady
  <2>8. /\ fault' = fault
        /\ currentTask' \in Pids
        /\ state' \in [Pids -> States]
        /\ QueueExact'
        /\ RunningExact'
        /\ \A p \in Pids : \A s \in {"Free", "Blocked", "Terminated"} :
              state'[p] = s <=> st[p] = s
    BY <2>1, <2>2, <2>6, <2>7, Dispatches
  <2>9. TypeOK'
    BY <1>1, <1>2, <2>1, <2>8 DEF IInv, TypeOK, QueueExact, Holds, States,
       collatzVars
  <2>10. SlotsInOrder'
    BY <1>1, <1>2, <2>2, <2>8 DEF IInv, SlotsInOrder
  <2>11. InitLives'
    BY <1>1, <2>2, <2>8 DEF IInv, InitLives, InitPid, Pids
  <2>12. WaitersExact'
    <3>1. \A p, q : Children(p, q)' = Children(p, q)
      BY <1>2, <2>1 DEF Children
    <3>2. \A p \in Pids : waitingChild'[p] <=> state'[p] = "Blocked"
      BY <1>1, <2>1, <2>2, <2>8 DEF IInv, TypeOK, WaitersExact
    <3>3. \A c \in Pids : state'[c] = "Terminated" <=> state[c] = "Terminated"
      BY <1>1, <2>2, <2>8
    <3>4. ASSUME NEW p \in Pids, waitingChild'[p]
          PROVE  /\ \E c \in Children(p, waitingChildId'[p]) :
                       state[c] # "Terminated"
                 /\ \A c \in Children(p, waitingChildId'[p]) :
                       state[c] # "Terminated"
      <4>1. CASE p = me
        <5>1. waitingChildId'[p] = pid
          BY <1>1, <2>1, <4>1 DEF IInv, TypeOK
        <5> QED
          BY <2>3, <2>4, <4>1, <5>1
      <4>2. CASE p # me
        <5>1. waitingChild[p] /\ waitingChildId'[p] = waitingChildId[p]
          BY <2>1, <3>4, <4>2 DEF IInv, TypeOK
        <5> QED
          BY <5>1 DEF IInv, WaitersExact, TerminatedChildren
      <4> QED
        BY <4>1, <4>2
    <3>5. \A p \in Pids : waitingChild'[p] =>
            /\ \E c \in Children(p, waitingChildId[p])' : state'[c] # "Terminated"
            /\ \A c \in Children(p, waitingChildId[p])' : state'[c] # "Terminated"
      BY <1>3, <3>1, <3>3, <3>4
    <3> QED
      BY <3>2, <3>5 DEF WaitersExact, TerminatedChildren
  <2> QED
    BY <1>2, <2>8, <2>9, <2>10, <2>11, <2>12
       DEF IInv, PopFindsTask, NobodyBlocked, collatzVars
<1> QED
  BY <1>4, <1>5, <1>6 DEF Waitpid

LEMMA ExitIInv == IInv /\ ExitNotInit => IInv'
<1> SUFFICES ASSUME IInv, ExitNotInit PROVE IInv'
  OBVIOUS
<1> DEFINE me == currentTask
           parent == ppid[me]
           ended == [state EXCEPT ![me] = "Terminated"]
           woken == IF WakesParent(me) THEN MakeReady(ended, parent) ELSE ended
           queued == IF WakesParent(me)
                     THEN AddToReadyQueue(readyQueue, parent, priority)
                     ELSE readyQueue
<1>1. /\ me \in Pids /\ me # InitPid
      /\ state[me] = "Running"
      /\ me < numTasks
      /\ ~waitingChild[me]
      /\ state \in [Pids -> States]
      /\ numTasks \in 1 .. MaxNumTasks
      /\ MaxNumTasks \in Nat
      /\ NoTask \notin Pids
  BY CallerRuns DEF ExitNotInit, Exit
<1>2. ~ResumesBlocked(me)
  BY CallerRuns DEF ExitNotInit, Exit, IInv, NobodyBlocked, ResumesBlocked
<1>3. /\ Schedule(woken, queued)
      /\ UNCHANGED <<numTasks, ppid, priority, waitingChildId, forkPid,
                     collatzVars>>
  BY <1>2 DEF ExitNotInit, Exit, collatzVars
<1>4. IF WakesParent(me)
      THEN /\ parentTookInWait' = [parentTookInWait EXCEPT ![me] = TRUE]
           /\ waitingChild' = [waitingChild EXCEPT ![parent] = FALSE]
           /\ eax' = [eax EXCEPT ![parent] = me]
      ELSE UNCHANGED <<parentTookInWait, waitingChild, eax>>
  BY DEF ExitNotInit, Exit
<1>5. WakesParent(me) => /\ parent \in Pids /\ parent # me
                         /\ waitingChild[parent]
                         /\ state[parent] = "Blocked"
  <2> SUFFICES ASSUME WakesParent(me)
               PROVE  /\ parent \in Pids /\ parent # me
                      /\ waitingChild[parent]
                      /\ state[parent] = "Blocked"
    OBVIOUS
  <2>1. parent \in Pids /\ waitingChild[parent]
    BY <1>1 DEF WakesParent, IInv, TypeOK
  <2> QED
    BY <1>1, <2>1 DEF IInv, WaitersExact
<1>6. /\ ended \in [Pids -> States]
      /\ ended[me] = "Terminated"
      /\ \A p \in Pids : p # me => ended[p] = state[p]
  BY <1>1 DEF States
<1>7. Holds(readyQueue, ReadyIn(ended))
  <2>1. ReadyIn(ended) = ReadyIn(state)
    BY <1>1, <1>6 DEF ReadyIn
  <2> QED
    BY <2>1 DEF IInv, QueueExact
<1> HIDE DEF ended
<1>8. /\ woken \in [Pids -> States]
      /\ woken[me] = "Terminated"
      /\ \A p \in Pids : p # me /\ ~(WakesParent(me) /\ p = parent)
            => woken[p] = state[p]
      /\ WakesParent(me) => woken[parent] = "Ready"
  BY <1>5, <1>6 DEF MakeReady, States
<1>9. \A p \in Pids : woken[p] # "Running"
  BY <1>1, <1>8 DEF IInv, RunningExact
<1>10. Holds(queued, ReadyIn(woken))
  <2>1. CASE WakesParent(me)
    <3>1. parent \in Pids /\ ended[parent] # "Ready"
      BY <1>5, <1>6, <2>1
    <3> QED
      BY <1>6, <1>7, <2>1, <3>1, QueuedAndReady
  <2>2. CASE ~WakesParent(me)
    BY <1>7, <2>2
  <2> QED
    BY <2>1, <2>2
<1> HIDE DEF woken, queued
\* Only the parent that this exit wakes waited for the caller.
<1>11. ASSUME NEW p \in Pids, waitingChild[p],
              ~(WakesParent(me) /\ p = parent)
       PROVE  \A c \in Children(p, waitingChildId[p]) : c \in Pids /\ c # me
  <2>1. TAKE c \in Children(p, waitingChildId[p])
  <2>2. c \in Pids /\ ppid[c] = p /\ waitingChildId[p] \in {AnyChild, c}
    BY <1>1, ChildrenArePids
  <2>3. p # NoTask
    BY <1>1
  <2> QED
    BY <1>11, <2>2, <2>3 DEF WakesParent
<1>12. \E p \in Pids : woken[p] = "Ready"
  <2>1. CASE WakesParent(me)
    BY <1>5, <1>8, <2>1
  <2>2. CASE ~WakesParent(me)
    <3>1. \A p \in Pids : p < numTasks => woken[p] # "Free"
      BY <1>1, <1>8, <2>2 DEF IInv, SlotsInOrder, Pids
    <3>2. woken[InitPid] # "Terminated"
      BY <1>1, <1>8, <2>2 DEF IInv, InitLives, InitPid, Pids
    <3>3. ASSUME NEW p \in Pids, woken[p] = "Blocked"
          PROVE  \E c \in Pids : p < c /\ c < numTasks /\ woken[c] # "Terminated"
      <4>1. state[p] = "Blocked" /\ waitingChild[p]
        BY <1>8, <2>2, <3>3 DEF IInv, WaitersExact
      <4>2. PICK c \in Pids : /\ p < c /\ c < numTasks /\ ppid[c] = p
                             /\ waitingChildId[p] \in {AnyChild, c}
                             /\ state[c] # "Terminated"
        BY <4>1, WaiterHasChild
      <4>3. c # me
        BY <1>1, <2>2, <4>1, <4>2 DEF WakesParent
      <4> QED
        BY <1>8, <2>2, <4>2, <4>3
    <3> QED
      BY <1>1, <1>8, <1>9, <3>1, <3>2, <3>3, SomeoneReady
  <2> QED
    BY <2>1, <2>2
<1>13. /\ fault' = fault
       /\ currentTask' \in Pids
       /\ state' \in [Pids -> States]
       /\ QueueExact'
       /\ RunningExact'
       /\ \A p \in Pids : \A s \in {"Free", "Blocked", "Terminated"} :
             state'[p] = s <=> woken[p] = s
  BY <1>3, <1>8, <1>9, <1>10, <1>12, Dispatches
<1>14. TypeOK'
  <2>1. /\ parentTookInWait' \in [Pids -> BOOLEAN]
        /\ waitingChild' \in [Pids -> BOOLEAN]
        /\ eax' \in [Pids -> Pids \cup {NoTask, Pending}]
    <3>1. CASE WakesParent(me)
      <4>1. /\ parentTookInWait' = [parentTookInWait EXCEPT ![me] = TRUE]
            /\ waitingChild' = [waitingChild EXCEPT ![parent] = FALSE]
            /\ eax' = [eax EXCEPT ![parent] = me]
        BY <1>4, <3>1
      <4> QED
        BY <1>1, <4>1 DEF IInv, TypeOK
    <3>2. CASE ~WakesParent(me)
      BY <1>4, <3>2 DEF IInv, TypeOK
    <3> QED
      BY <3>1, <3>2
  <2> QED
    BY <1>3, <1>13, <2>1 DEF IInv, TypeOK, QueueExact, Holds, States,
       collatzVars
<1>15. SlotsInOrder'
  <2>1. \A p \in Pids : state'[p] = "Free" <=> state[p] = "Free"
    BY <1>1, <1>5, <1>8, <1>13
  <2> QED
    BY <1>3, <2>1 DEF IInv, SlotsInOrder
<1>16. InitLives'
  BY <1>1, <1>8, <1>13 DEF IInv, InitLives, InitPid, Pids
<1>17. WaitersExact'
  <2>1. \A p \in Pids : waitingChild'[p] <=> state'[p] = "Blocked"
    BY <1>1, <1>4, <1>5, <1>8, <1>13 DEF IInv, TypeOK, WaitersExact
  <2>2. ASSUME NEW p \in Pids, waitingChild'[p]
        PROVE  waitingChild[p] /\ ~(WakesParent(me) /\ p = parent)
    BY <1>4, <1>5, <2>2 DEF IInv, TypeOK
  <2>3. ASSUME NEW p \in Pids, waitingChild'[p]
        PROVE  Children(p, waitingChildId[p])' = Children(p, waitingChildId[p])
    <3>1. \A c \in 0 .. numTasks - 1 : ppid[c] = p =>
            parentTookInWait'[c] = parentTookInWait[c]
      <4>1. \A c \in 0 .. numTasks - 1 : c \in Pids
        BY <1>1 DEF Pids
      <4> QED
        BY <1>1, <1>4, <2>2, <2>3, <4>1 DEF IInv, TypeOK
    <3> QED
      BY <1>3, <3>1 DEF Children
  <2>4. ASSUME NEW p \in Pids, waitingChild'[p]
        PROVE  \A c \in Children(p, waitingChildId[p]) :
                  state'[c] = "Terminated" <=> state[c] = "Terminated"
    <3>1. \A c \in Children(p, waitingChildId[p]) : c \in Pids /\ c # me
      BY <1>11, <2>2, <2>4
    <3> QED
      BY <1>5, <1>8, <1>13, <3>1
  <2>5. ASSUME NEW p \in Pids, waitingChild'[p]
        PROVE  /\ \E c \in Children(p, waitingChildId[p]) : state[c] # "Terminated"
               /\ \A c \in Children(p, waitingChildId[p]) : state[c] # "Terminated"
    BY <2>2, <2>5 DEF IInv, WaitersExact, TerminatedChildren
  <2>6. \A p \in Pids : waitingChild'[p] =>
          /\ \E c \in Children(p, waitingChildId[p])' : state'[c] # "Terminated"
          /\ \A c \in Children(p, waitingChildId[p])' : state'[c] # "Terminated"
    BY <2>3, <2>4, <2>5
  <2> QED
    BY <2>1, <2>6 DEF WaitersExact, TerminatedChildren
<1> QED
  BY <1>3, <1>13, <1>14, <1>15, <1>16, <1>17
     DEF IInv, PopFindsTask, NobodyBlocked, collatzVars

LEMMA PriorityIInv == IInv /\ PrioritiseNewTask => IInv'
<1> SUFFICES ASSUME IInv, PrioritiseNewTask PROVE IInv'
  OBVIOUS
<1> DEFINE last == numTasks - 1
<1>1. PICK new \in {High, Medium, Low} : SetLastTaskPriority(new)
  BY DEF PrioritiseNewTask
<1> DEFINE prio == [priority EXCEPT ![last] = new]
           q == RemoveFromReadyQueue(readyQueue, last)
<1>2. /\ currentTask \in Pids
      /\ state \in [Pids -> States]
      /\ numTasks \in 1 .. MaxNumTasks
      /\ MaxNumTasks \in Nat
  BY <1>1, CallerRuns DEF SetLastTaskPriority
<1>3. last \in Pids /\ state[last] = "Ready"
  BY <1>2 DEF PrioritiseNewTask, Pids
<1>4. /\ priority' = prio
      /\ state' = MakeReady(state, last)
      /\ readyQueue' = AddToReadyQueue(q, last, prio)
      /\ eax' = [eax EXCEPT ![currentTask] = Pending]
      /\ UNCHANGED <<numTasks, currentTask, ppid, waitVars, forkPid,
                     collatzVars, fault>>
  BY <1>1 DEF SetLastTaskPriority
<1> HIDE DEF last, prio, q
<1>5. state' = state
  BY <1>2, <1>3, <1>4 DEF MakeReady
<1>6. QueueExact'
  <2>1. Holds(q, ReadyIn(state) \ {last})
    BY RemoveHolds DEF IInv, QueueExact, q
  <2>2. last \in Pids \ (ReadyIn(state) \ {last})
    BY <1>3
  <2>3. Holds(AddToReadyQueue(q, last, prio), (ReadyIn(state) \ {last}) \cup {last})
    BY <2>1, <2>2, AddHolds
  <2>4. (ReadyIn(state) \ {last}) \cup {last} = ReadyIn(state)
    BY <1>3 DEF ReadyIn
  <2> QED
    BY <1>4, <1>5, <2>3, <2>4 DEF QueueExact
<1>7. TypeOK'
  BY <1>1, <1>2, <1>3, <1>4, <1>5, <1>6 DEF IInv, TypeOK, QueueExact, Holds,
     waitVars, collatzVars, prio
<1>8. \A p, pid : Children(p, pid)' = Children(p, pid)
  BY <1>4 DEF Children, waitVars
<1> QED
  BY <1>4, <1>5, <1>6, <1>7, <1>8 DEF IInv, PopFindsTask, RunningExact,
     SlotsInOrder, InitLives, WaitersExact, TerminatedChildren,
     NobodyBlocked, waitVars, collatzVars

LEMMA StepIInv == IInv /\ [Next]_vars /\ RaisesQueued => IInv'
<1> SUFFICES ASSUME IInv, [Next]_vars, RaisesQueued PROVE IInv'
  OBVIOUS
<1>1. CASE TimerInterrupt
  BY <1>1, TickIInv
<1>2. CASE Fork
  BY <1>2, ForkIInv
<1>3. CASE ForkPid \/ Execve
  BY <1>3, AnswerIInv
<1>4. CASE \E pid \in Pids \cup {AnyChild} : Waitpid(pid)
  BY <1>4, WaitpidIInv
<1>5. CASE ExitNotInit
  BY <1>5, ExitIInv
<1>6. CASE PrioritiseNewTask
  BY <1>6, PriorityIInv
<1>7. CASE UNCHANGED vars
  <2>1. \A p, pid : Children(p, pid)' = Children(p, pid)
    BY <1>7 DEF Children, vars
  <2> QED
    BY <1>7, <2>1 DEF vars, IInv, TypeOK, PopFindsTask, QueueExact, ReadyIn,
       RunningExact, SlotsInOrder, InitLives, WaitersExact,
       TerminatedChildren, NobodyBlocked
<1> QED
  BY <1>1, <1>2, <1>3, <1>4, <1>5, <1>6, <1>7 DEF Next

\* The calls for collatz are not among the steps of Next: the count to the
\* fifth interrupt never begins.
Uncounted == interruptNumAfterCollatz = -1

LEMMA NoFifthInterrupt == Uncounted => RaisesQueued
BY DEF Uncounted, RaisesQueued, AtFifthInterrupt, TicksCounted, FifthInterrupt

LEMMA NothingCounted == Spec => []Uncounted
<1>1. Init => Uncounted
  BY DEF Init, Uncounted
<1>2. Uncounted /\ [Next]_vars => Uncounted'
  BY DEF Uncounted, Next, vars, TimerInterrupt, TicksCounted, Fork, ForkPid,
     Execve, Waitpid, ExitNotInit, Exit, PrioritiseNewTask,
     SetLastTaskPriority, collatzVars
<1> QED
  BY <1>1, <1>2, PTL DEF Spec

\* The scheduler's invariant holds of every execution, whatever the size of
\* the process table, the scheduler and the order of the system calls.
THEOREM SchedulerInvariant == Spec => []IInv
<1>1. Uncounted => RaisesQueued
  BY NoFifthInterrupt
<1> QED
  BY <1>1, NothingCounted, InitIInv, StepIInv, PTL DEF Spec

-----------------------------------------------------------------------------
(* What the invariant says of the kernel *)

\* No handler of multitasking.cpp takes a variable out of its type.
THEOREM TypeCorrect == Spec => []TypeOK
<1>1. IInv => TypeOK
  BY DEF IInv
<1> QED
  BY <1>1, SchedulerInvariant, PTL

\* PopFromReadyQueue never pops an empty queue: init does not exit, and the
\* youngest task that lives has no younger child to wait for.
THEOREM NeverPopsEmpty == Spec => []PopFindsTask
<1>1. IInv => PopFindsTask
  BY DEF IInv
<1> QED
  BY <1>1, SchedulerInvariant, PTL

LEMMA ExactQueue == IInv => ReadyQueueExact
<1> SUFFICES ASSUME IInv PROVE ReadyQueueExact
  OBVIOUS
<1>1. /\ readyQueue \in Seq(Pids)
      /\ DOMAIN readyQueue = 1 .. Len(readyQueue)
      /\ Holds(readyQueue, ReadyIn(state))
  BY LenProperties DEF IInv, QueueExact, Holds
<1>2. IsInjective(readyQueue)
  BY <1>1 DEF IsInjective, Holds
<1>3. Range(readyQueue) = {p \in Pids : state[p] = "Ready"}
  BY <1>1 DEF Range, Holds, ReadyIn
<1>4. {p \in Pids : state[p] = "Running"} = {currentTask} \ {NoTask}
  BY MaxNumTasksAssumption DEF IInv, RunningExact, TypeOK, NoTask, Pids
<1>5. DOMAIN state = Pids
  BY DEF IInv, TypeOK
<1> QED
  BY <1>2, <1>3, <1>4, <1>5 DEF ReadyQueueExact

\* The ready queue holds each Ready task once and nothing else, and one task
\* at most is Running, the current one.
THEOREM QueueIsExact == Spec => []ReadyQueueExact
BY ExactQueue, SchedulerInvariant, PTL

\* A task blocked in waitpid can still be woken: no exit of a child it waits
\* for, and no race between its wait and that exit, is missed.
THEOREM NoWakeupLost == Spec => []NoLostWakeup
<1>1. IInv => NoLostWakeup
  BY DEF IInv, WaitersExact, NoLostWakeup
<1> QED
  BY <1>1, SchedulerInvariant, PTL

-----------------------------------------------------------------------------
(* A terminated child is delivered once *)

\* Only a child that has ended is marked as taken.
TakenEnded == \A c \in Pids : parentTookInWait[c] => state[c] = "Terminated"

\* What a step keeps: tasks that have ended, and tasks that are blocked.
EndedKept == \A p \in Pids : state[p] = "Terminated" => state'[p] = "Terminated"
BlockedKept == \A p \in Pids : state[p] = "Blocked" => state'[p] = "Blocked"

\* Schedule puts the head of the queue on the CPU and touches no other state.
LEMMA ScheduleTakesHead ==
    ASSUME NEW st \in [Pids -> States], NEW q, Holds(q, ReadyIn(st)),
           Schedule(st, q), PopFindsTask'
    PROVE  /\ q # << >> /\ currentTask' = Head(q) /\ readyQueue' = Tail(q)
           /\ st[Head(q)] = "Ready"
           /\ state' = [st EXCEPT ![Head(q)] = "Running"]
           /\ \A p \in Pids : \A s \in {"Free", "Blocked", "Terminated"} :
                 st[p] = s => state'[p] = s
<1>1. /\ q # << >> /\ currentTask' = Head(q) /\ readyQueue' = Tail(q)
      /\ state' = [st EXCEPT ![Head(q)] = "Running"]
  BY DEF Schedule, PopFindsTask
<1>2. Head(q) \in ReadyIn(st)
  BY <1>1, TailHolds
<1>3. Head(q) \in Pids /\ st[Head(q)] = "Ready"
  BY <1>2 DEF ReadyIn
<1> QED
  BY <1>1, <1>3

\* A waitpid that blocks dispatches from the queue as it is.
LEMMA WaitSchedules ==
    ASSUME IInv, NEW pid, Calling, WaitpidBlocks(pid)
    PROVE  LET st == [state EXCEPT ![currentTask] = "Blocked"]
           IN  /\ st \in [Pids -> States] /\ Holds(readyQueue, ReadyIn(st))
               /\ Schedule(st, readyQueue)
<1>1. /\ currentTask \in Pids /\ state \in [Pids -> States]
      /\ state[currentTask] = "Running"
  BY CallerRuns
<1>2. ReadyIn([state EXCEPT ![currentTask] = "Blocked"]) = ReadyIn(state)
  BY <1>1 DEF ReadyIn
<1> QED
  BY <1>1, <1>2 DEF WaitpidBlocks, IInv, QueueExact, States

\* An exit dispatches from the queue with the parent it wakes.
LEMMA ExitSchedules ==
    ASSUME IInv, ExitNotInit
    PROVE  LET me == currentTask
               parent == ppid[me]
               ended == [state EXCEPT ![me] = "Terminated"]
               woken == IF WakesParent(me) THEN MakeReady(ended, parent) ELSE ended
               queued == IF WakesParent(me)
                         THEN AddToReadyQueue(readyQueue, parent, priority)
                         ELSE readyQueue
           IN  /\ me \in Pids /\ state[me] = "Running"
               /\ woken \in [Pids -> States] /\ Holds(queued, ReadyIn(woken))
               /\ Schedule(woken, queued)
               /\ woken[me] = "Terminated"
               /\ \A p \in Pids :
                     p # me /\ ~(WakesParent(me) /\ p = parent) => woken[p] = state[p]
               /\ IF WakesParent(me)
                  THEN /\ parent \in Pids /\ parent # me
                       /\ waitingChild[parent] /\ state[parent] = "Blocked"
                       /\ parentTookInWait' = [parentTookInWait EXCEPT ![me] = TRUE]
                       /\ eax' = [eax EXCEPT ![parent] = me]
                  ELSE UNCHANGED parentTookInWait
               /\ UNCHANGED <<priority, ppid>>
<1> DEFINE me == currentTask
           parent == ppid[me]
           ended == [state EXCEPT ![me] = "Terminated"]
           woken == IF WakesParent(me) THEN MakeReady(ended, parent) ELSE ended
           queued == IF WakesParent(me)
                     THEN AddToReadyQueue(readyQueue, parent, priority)
                     ELSE readyQueue
<1>1. /\ me \in Pids /\ state[me] = "Running" /\ ~waitingChild[me]
      /\ state \in [Pids -> States]
  BY CallerRuns DEF ExitNotInit, Exit
<1>2. ~ResumesBlocked(me)
  BY CallerRuns DEF ExitNotInit, Exit, IInv, NobodyBlocked, ResumesBlocked
<1>3. Schedule(woken, queued) /\ UNCHANGED <<priority, ppid>>
  BY <1>2 DEF ExitNotInit, Exit
<1>4. ASSUME WakesParent(me)
      PROVE  /\ parent \in Pids /\ parent # me
             /\ waitingChild[parent] /\ state[parent] = "Blocked"
             /\ parentTookInWait' = [parentTookInWait EXCEPT ![me] = TRUE]
             /\ eax' = [eax EXCEPT ![parent] = me]
  <2>1. parent \in Pids /\ waitingChild[parent]
    BY <1>1, <1>4 DEF WakesParent, IInv, TypeOK
  <2>2. /\ parentTookInWait' = [parentTookInWait EXCEPT ![me] = TRUE]
        /\ eax' = [eax EXCEPT ![parent] = me]
    BY <1>4 DEF ExitNotInit, Exit
  <2> QED
    BY <1>1, <2>1, <2>2 DEF IInv, WaitersExact
<1>5. ~WakesParent(me) => UNCHANGED parentTookInWait
  BY DEF ExitNotInit, Exit
<1>6. /\ ended \in [Pids -> States] /\ ended[me] = "Terminated"
      /\ \A p \in Pids : p # me => ended[p] = state[p]
      /\ ReadyIn(ended) = ReadyIn(state)
  BY <1>1 DEF States, ReadyIn
<1> HIDE DEF ended
<1>7. Holds(queued, ReadyIn(woken))
  <2>1. CASE WakesParent(me)
    <3>1. ended[parent] # "Ready"
      BY <1>4, <1>6, <2>1
    <3> QED
      BY <1>4, <1>6, <2>1, <3>1, QueuedAndReady DEF IInv, QueueExact
  <2>2. CASE ~WakesParent(me)
    BY <1>6, <2>2 DEF IInv, QueueExact
  <2> QED
    BY <2>1, <2>2
<1>8. /\ woken \in [Pids -> States]
      /\ woken[me] = "Terminated"
      /\ \A p \in Pids : p # me /\ ~(WakesParent(me) /\ p = parent)
            => woken[p] = state[p]
  BY <1>4, <1>6 DEF MakeReady, States
<1> QED
  BY <1>1, <1>3, <1>4, <1>5, <1>7, <1>8 DEF ended

\* Steps that deliver nothing: no child is marked and no waiter resumes.
LEMMA QuietSteps ==
    ASSUME IInv, IInv', RaisesQueued,
           TimerInterrupt \/ Fork \/ ForkPid \/ Execve \/ PrioritiseNewTask
             \/ UNCHANGED vars
    PROVE  EndedKept /\ BlockedKept /\ UNCHANGED parentTookInWait
<1>1. CASE TimerInterrupt
  <2>1. /\ TickStates \in [Pids -> States] /\ Holds(TickQueue, ReadyIn(TickStates))
        /\ Schedule(TickStates, TickQueue)
        /\ \A p \in Pids : \A s \in {"Free", "Blocked", "Terminated"} :
              state[p] = s => TickStates[p] = s
        /\ UNCHANGED waitVars
    BY <1>1, TickSchedules
  <2>2. \A p \in Pids : \A s \in {"Free", "Blocked", "Terminated"} :
           TickStates[p] = s => state'[p] = s
    BY <2>1, ScheduleTakesHead DEF IInv
  <2> QED
    BY <2>1, <2>2 DEF EndedKept, BlockedKept, waitVars
<1>2. CASE Fork
  <2>1. /\ state \in [Pids -> States]
        /\ numTasks \in 1 .. MaxNumTasks /\ MaxNumTasks \in Nat
    BY <1>2, CallerRuns DEF Fork
  <2>2. state' = state \/ (HasFreeSlot /\ state' = MakeReady(state, numTasks))
    BY <1>2 DEF Fork
  <2>3. HasFreeSlot => numTasks \in Pids /\ state[numTasks] = "Free"
    BY <2>1 DEF HasFreeSlot, Pids, IInv, SlotsInOrder
  <2>4. EndedKept /\ BlockedKept
    BY <2>1, <2>2, <2>3 DEF EndedKept, BlockedKept, MakeReady
  <2> QED
    BY <1>2, <2>4 DEF Fork, waitVars
<1>3. CASE ForkPid \/ Execve \/ UNCHANGED vars
  BY <1>3 DEF ForkPid, Execve, vars, waitVars, EndedKept, BlockedKept
<1>4. CASE PrioritiseNewTask
  <2>1. /\ state \in [Pids -> States]
        /\ numTasks - 1 \in Pids /\ state[numTasks - 1] = "Ready"
    BY <1>4, CallerRuns DEF PrioritiseNewTask, SetLastTaskPriority, Pids
  <2>2. state' = MakeReady(state, numTasks - 1) /\ UNCHANGED waitVars
    BY <1>4 DEF PrioritiseNewTask, SetLastTaskPriority
  <2> QED
    BY <2>1, <2>2 DEF EndedKept, BlockedKept, MakeReady, waitVars
<1> QED
  BY <1>1, <1>2, <1>3, <1>4

\* A waitpid marks a child exactly when it answers its pid.
LEMMA WaitDelivers ==
    ASSUME IInv, IInv', NEW pid \in Pids \cup {AnyChild}, Waitpid(pid)
    PROVE  /\ EndedKept /\ BlockedKept
           /\ \A c \in Pids : parentTookInWait'[c] # parentTookInWait[c] =>
                 Delivers(ppid[c], c)
           /\ state'[currentTask] = "Running" /\ eax'[currentTask] # NoTask
                 => Delivers(currentTask, eax'[currentTask])
<1> DEFINE me == currentTask
<1>1. /\ me \in Pids /\ state[me] = "Running"
      /\ state \in [Pids -> States]
      /\ numTasks \in 0 .. MaxNumTasks
      /\ eax \in [Pids -> Pids \cup {NoTask, Pending}]
      /\ parentTookInWait \in [Pids -> BOOLEAN]
  BY CallerRuns DEF Waitpid, IInv, TypeOK
<1>2. CASE WaitpidReaps(pid)
  <2>1. PICK c \in TerminatedChildren(me, pid) :
          /\ parentTookInWait' = [parentTookInWait EXCEPT ![c] = TRUE]
          /\ eax' = [eax EXCEPT ![me] = c]
          /\ UNCHANGED state
    BY <1>2 DEF WaitpidReaps
  <2>2. /\ c \in Pids /\ ppid[c] = me /\ ~parentTookInWait[c]
        /\ state[c] = "Terminated"
    BY <1>1, ChildrenArePids DEF TerminatedChildren
  <2>3. Delivers(me, c) /\ eax'[me] = c
    BY <1>1, <2>1, <2>2 DEF Delivers
  <2>4. \A d \in Pids : parentTookInWait'[d] # parentTookInWait[d] => d = c
    BY <1>1, <2>1
  <2> QED
    BY <2>1, <2>2, <2>3, <2>4 DEF EndedKept, BlockedKept
<1>3. CASE WaitpidFails(pid)
  <2>1. eax'[me] = NoTask /\ UNCHANGED <<state, parentTookInWait>>
    BY <1>1, <1>3 DEF WaitpidFails
  <2> QED
    BY <2>1 DEF EndedKept, BlockedKept
<1>4. CASE WaitpidBlocks(pid)
  <2> DEFINE st == [state EXCEPT ![me] = "Blocked"]
  <2>1. /\ st \in [Pids -> States] /\ Holds(readyQueue, ReadyIn(st))
        /\ Schedule(st, readyQueue)
    BY <1>4, WaitSchedules DEF Waitpid
  <2>2. /\ \A p \in Pids : p # me => st[p] = state[p]
        /\ st[me] = "Blocked"
    BY <1>1
  <2> HIDE DEF st
  <2>3. \A p \in Pids : \A s \in {"Free", "Blocked", "Terminated"} :
           st[p] = s => state'[p] = s
    BY <2>1, ScheduleTakesHead DEF IInv
  <2>4. EndedKept /\ BlockedKept /\ state'[me] = "Blocked"
    BY <1>1, <2>2, <2>3 DEF EndedKept, BlockedKept
  <2> QED
    BY <1>4, <2>4 DEF WaitpidBlocks
<1> QED
  BY <1>2, <1>3, <1>4 DEF Waitpid

\* An exit marks its task exactly when it wakes the parent with its pid.
LEMMA ExitDelivers ==
    ASSUME IInv, IInv', TakenEnded, ExitNotInit
    PROVE  /\ EndedKept
           /\ \A c \in Pids : parentTookInWait'[c] # parentTookInWait[c] =>
                 Delivers(ppid[c], c) /\ state'[c] = "Terminated"
           /\ \A p \in Pids : waitingChild[p] /\ state'[p] # "Blocked" =>
                 Delivers(p, eax'[p])
<1> DEFINE me == currentTask
           parent == ppid[me]
           ended == [state EXCEPT ![me] = "Terminated"]
           woken == IF WakesParent(me) THEN MakeReady(ended, parent) ELSE ended
           queued == IF WakesParent(me)
                     THEN AddToReadyQueue(readyQueue, parent, priority)
                     ELSE readyQueue
<1>1. /\ me \in Pids /\ state[me] = "Running"
      /\ woken \in [Pids -> States] /\ Holds(queued, ReadyIn(woken))
      /\ Schedule(woken, queued)
      /\ woken[me] = "Terminated"
      /\ \A p \in Pids :
            p # me /\ ~(WakesParent(me) /\ p = parent) => woken[p] = state[p]
      /\ IF WakesParent(me)
         THEN /\ parent \in Pids /\ parent # me
              /\ waitingChild[parent] /\ state[parent] = "Blocked"
              /\ parentTookInWait' = [parentTookInWait EXCEPT ![me] = TRUE]
              /\ eax' = [eax EXCEPT ![parent] = me]
         ELSE UNCHANGED parentTookInWait
  BY ExitSchedules
<1>2. /\ eax \in [Pids -> Pids \cup {NoTask, Pending}]
      /\ parentTookInWait \in [Pids -> BOOLEAN]
      /\ \A p \in Pids : waitingChild[p] => state[p] = "Blocked"
      /\ PopFindsTask'
  BY DEF IInv, TypeOK, WaitersExact
<1>3. ~parentTookInWait[me]
  BY <1>1 DEF TakenEnded
<1> HIDE DEF woken, queued
<1>4. \A p \in Pids : \A s \in {"Free", "Blocked", "Terminated"} :
         woken[p] = s => state'[p] = s
  BY <1>1, <1>2, ScheduleTakesHead
<1>5. EndedKept
  BY <1>1, <1>4 DEF EndedKept
<1>6. state'[me] = "Terminated"
  BY <1>1, <1>4
<1>7. CASE WakesParent(me)
  <2>1. /\ parent \in Pids /\ parentTookInWait'[me]
        /\ eax'[parent] = me
        /\ \A c \in Pids : parentTookInWait'[c] # parentTookInWait[c] => c = me
    BY <1>1, <1>2, <1>7
  <2>2. Delivers(parent, me)
    BY <1>1, <1>3, <1>6, <2>1 DEF Delivers
  <2>3. ASSUME NEW p \in Pids, waitingChild[p], state'[p] # "Blocked"
        PROVE  p = parent
    BY <1>1, <1>2, <1>4, <2>3
  <2> QED
    BY <1>5, <1>6, <2>1, <2>2, <2>3
<1>8. CASE ~WakesParent(me)
  <2>1. ASSUME NEW p \in Pids, waitingChild[p], state'[p] # "Blocked"
        PROVE  FALSE
    BY <1>1, <1>2, <1>4, <1>8, <2>1
  <2> QED
    BY <1>1, <1>5, <1>8, <2>1
<1> QED
  BY <1>7, <1>8

LEMMA StepDelivers ==
    ASSUME IInv, IInv', TakenEnded, [Next]_vars, RaisesQueued
    PROVE  EndedKept /\ TakenEnded' /\ DeliversOnce
<1>1. /\ \A p \in Pids : waitingChild[p] => state[p] = "Blocked"
      /\ parentTookInWait' \in [Pids -> BOOLEAN]
      /\ parentTookInWait \in [Pids -> BOOLEAN]
  BY DEF IInv, WaitersExact, TypeOK
<1>2. /\ EndedKept
      /\ \A c \in Pids : parentTookInWait'[c] # parentTookInWait[c] =>
            Delivers(ppid[c], c)
      /\ \A p \in Pids : waitingChild[p] /\ state'[p] # "Blocked" =>
            Delivers(p, eax'[p])
  <2>1. CASE TimerInterrupt \/ Fork \/ ForkPid \/ Execve \/ PrioritiseNewTask
                \/ UNCHANGED vars
    BY <1>1, <2>1, QuietSteps DEF BlockedKept
  <2>2. CASE \E pid \in Pids \cup {AnyChild} : Waitpid(pid)
    BY <1>1, <2>2, WaitDelivers DEF BlockedKept
  <2>3. CASE ExitNotInit
    BY <2>3, ExitDelivers
  <2> QED
    BY <2>1, <2>2, <2>3 DEF Next
<1>3. TakenEnded'
  BY <1>1, <1>2 DEF TakenEnded, EndedKept, Delivers
<1>4. \A pid \in Pids \cup {AnyChild} :
        /\ Waitpid(pid)
        /\ state'[currentTask] = "Running"
        /\ eax'[currentTask] # NoTask
        => Delivers(currentTask, eax'[currentTask])
  BY WaitDelivers
<1> QED
  BY <1>2, <1>3, <1>4 DEF DeliversOnce

LEMMA TakenEndedAlways == Spec => [](IInv /\ TakenEnded)
<1>1. Init => TakenEnded
  BY DEF Init, TakenEnded
<1>2. IInv /\ IInv' /\ TakenEnded /\ [Next]_vars /\ Uncounted => TakenEnded'
  BY StepDelivers, NoFifthInterrupt
<1> QED
  BY <1>1, <1>2, NothingCounted, SchedulerInvariant, PTL DEF Spec

\* A parent gets each of its children's pids once, after the child's exit:
\* from waitpid's scan or from that exit, never from both.
THEOREM ChildrenDeliveredOnce == Spec => DeliveredOnce
<1>1. IInv /\ IInv' /\ TakenEnded /\ [Next]_vars /\ Uncounted => DeliversOnce
  BY StepDelivers, NoFifthInterrupt
<1> QED
  BY <1>1, NothingCounted, TakenEndedAlways, SchedulerInvariant, PTL DEF Spec, DeliveredOnce

\* An exit is final: no interrupt, wake-up or change of priority puts a
\* terminated task back into the queue or on the CPU.
THEOREM ExitIsFinal == Spec => [][EndedKept]_vars
<1>1. IInv /\ IInv' /\ TakenEnded /\ [Next]_vars /\ Uncounted => EndedKept
  BY StepDelivers, NoFifthInterrupt
<1> QED
  BY <1>1, NothingCounted, TakenEndedAlways, SchedulerInvariant, PTL DEF Spec

-----------------------------------------------------------------------------
(* The preemptive-priority queue is sorted *)

\* Earlier entries are more urgent, or as urgent and older.
Sorted(q, prio) ==
    \A i, j \in 1 .. Len(q) : i < j => Before(q[i], q[j], prio)

InOrder == Sorted(readyQueue, priority)

\* Before is a strict total order of the tasks.
LEMMA BeforeOrders ==
    ASSUME NEW prio \in [Pids -> Priorities]
    PROVE  /\ \A p, r \in Pids : ~Before(p, r, prio) => p = r \/ Before(r, p, prio)
           /\ \A p, r, s \in Pids :
                 Before(p, r, prio) /\ Before(r, s, prio) => Before(p, s, prio)
<1>1. \A p \in Pids : p \in Int
  BY MaxNumTasksAssumption DEF Pids
<1>2. \A p \in Pids : prio[p] \in {0, 1, 2}
  BY DEF Priorities, High, Medium, Low
<1> QED
  BY <1>1, <1>2 DEF Before, arrivalOrder

\* A set of places that holds every place before each of its own is an
\* initial stretch of the queue.
LEMMA InitialStretch ==
    ASSUME NEW n \in Nat, NEW A \in SUBSET (1 .. n),
           \A i \in A : \A j \in 1 .. i : j \in A
    PROVE  Cardinality(A) \in 0 .. n /\ A = 1 .. Cardinality(A)
<1> DEFINE T == {i \in Nat : i >= 1 /\ i \notin A}
<1>1. n + 1 \in T
  OBVIOUS
<1>2. PICK x \in T : \A y \in T : ~(<<y, x>> \in OpToRel(<, Nat))
  BY <1>1, WFMin, NatLessThanWellFounded
<1>3. \A y \in T : ~(y < x)
  BY <1>2 DEF OpToRel
<1>4. x \in Nat /\ x >= 1 /\ x \notin A
  BY <1>2
<1>5. A = 1 .. x - 1
  <2>1. ASSUME NEW i \in A PROVE i \in 1 .. x - 1
    <3>1. ~(x <= i)
      BY <1>4, <2>1
    <3> QED
      BY <1>4, <2>1, <3>1
  <2>2. ASSUME NEW i \in 1 .. x - 1 PROVE i \in A
    BY <1>3, <1>4, <2>2
  <2> QED
    BY <2>1, <2>2
<1>6. x - 1 \in Nat /\ x - 1 <= n
  BY <1>3, <1>1, <1>4
<1>7. Cardinality(1 .. x - 1) = x - 1
  BY <1>6, FS_Interval
<1> QED
  BY <1>5, <1>6, <1>7

\* The insertion sort stops at the only place that keeps the queue sorted.
LEMMA InsertionPlace ==
    ASSUME NEW q, NEW S, Holds(q, S), NEW p \in Pids \ S,
           NEW prio \in [Pids -> Priorities], Sorted(q, prio)
    PROVE  LET k == Cardinality(InFront(q, p, prio))
           IN  /\ k \in 0 .. Len(q)
               /\ \A i \in 1 .. Len(q) : i <= k => Before(q[i], p, prio)
               /\ \A i \in 1 .. Len(q) : i > k => Before(p, q[i], prio)
<1> DEFINE A == InFront(q, p, prio)
<1>1. /\ q \in Seq(Pids) /\ Len(q) \in Nat
      /\ \A i \in 1 .. Len(q) : q[i] \in Pids /\ q[i] # p
  BY LenProperties, ElementOfSeq DEF Holds
<1>2. A \in SUBSET (1 .. Len(q)) /\ \A i \in A : \A j \in 1 .. i : j \in A
  BY <1>1 DEF InFront
<1>3. Cardinality(A) \in 0 .. Len(q) /\ A = 1 .. Cardinality(A)
  BY <1>1, <1>2, InitialStretch
<1>4. ASSUME NEW i \in A PROVE Before(q[i], p, prio)
  <2>1. PICK j \in i .. Len(q) : ~Before(p, q[j], prio)
    BY DEF InFront
  <2>2. i \in 1 .. Len(q) /\ j \in 1 .. Len(q)
    BY <1>1, <1>2
  <2>3. Before(q[j], p, prio)
    BY <1>1, <2>1, <2>2, BeforeOrders
  <2>4. CASE i = j
    BY <2>3, <2>4
  <2>5. CASE i < j
    <3>1. Before(q[i], q[j], prio)
      BY <2>2, <2>5 DEF Sorted
    <3> QED
      BY <1>1, <2>2, <2>3, <3>1, BeforeOrders
  <2> QED
    BY <2>2, <2>4, <2>5
<1>5. ASSUME NEW i \in 1 .. Len(q), i \notin A PROVE Before(p, q[i], prio)
  BY <1>1, <1>5 DEF InFront
<1> HIDE DEF A
<1>6. \A i \in 1 .. Len(q) : (i <= Cardinality(A)) <=> i \in A
  BY <1>1, <1>3
<1>7. \A i \in 1 .. Len(q) : i > Cardinality(A) => ~(i <= Cardinality(A))
  BY <1>1, <1>3
<1> QED
  BY <1>3, <1>4, <1>5, <1>6, <1>7 DEF A

LEMMA AddSorted ==
    ASSUME SchedulerType = "PreemptivePriority",
           NEW q, NEW S, Holds(q, S), NEW p \in Pids \ S,
           NEW prio \in [Pids -> Priorities], Sorted(q, prio)
    PROVE  Sorted(AddToReadyQueue(q, p, prio), prio)
<1> DEFINE k == Cardinality(InFront(q, p, prio))
           r == AddToReadyQueue(q, p, prio)
           n == Len(q)
<1>1. /\ k \in 0 .. n
      /\ \A i \in 1 .. n : i <= k => Before(q[i], p, prio)
      /\ \A i \in 1 .. n : i > k => Before(p, q[i], prio)
  BY InsertionPlace
<1>2. q \in Seq(Pids) /\ n \in Nat
  BY LenProperties DEF Holds
<1>3. r = InsertAt(q, k + 1, p)
  BY DEF AddToReadyQueue
<1>4. \A i, j \in 1 .. n : i < j => Before(q[i], q[j], prio)
  BY DEF Sorted
<1> HIDE DEF k, r
<1>5. k + 1 \in 1 .. n + 1
  BY <1>1, <1>2
<1>6. /\ Len(r) = n + 1
      /\ \A j \in 1 .. n + 1 :
           r[j] = IF j < k + 1 THEN q[j] ELSE IF j = k + 1 THEN p ELSE q[j - 1]
  BY <1>2, <1>3, <1>5, InsertAtShifts
<1> HIDE DEF n
<1>7. ASSUME NEW i \in 1 .. n + 1, NEW j \in 1 .. n + 1, i < j
      PROVE  Before(r[i], r[j], prio)
  <2>1. CASE j <= k
    <3>1. r[i] = q[i] /\ r[j] = q[j] /\ i \in 1 .. n /\ j \in 1 .. n
      BY <1>1, <1>2, <1>6, <1>7, <2>1
    <3> QED
      BY <1>4, <1>7, <3>1
  <2>2. CASE j = k + 1
    <3>1. r[i] = q[i] /\ r[j] = p /\ i \in 1 .. n /\ i <= k
      BY <1>1, <1>2, <1>6, <1>7, <2>2
    <3> QED
      BY <1>1, <3>1
  <2>3. CASE j > k + 1
    <3>1. r[j] = q[j - 1] /\ j - 1 \in 1 .. n /\ j - 1 > k
      BY <1>1, <1>2, <1>6, <2>3
    <3>2. CASE i <= k
      <4>1. r[i] = q[i] /\ i \in 1 .. n /\ i < j - 1
        BY <1>1, <1>2, <1>6, <2>3, <3>2
      <4> QED
        BY <1>4, <3>1, <4>1
    <3>3. CASE i = k + 1
      BY <1>1, <1>6, <3>1, <3>3
    <3>4. CASE i > k + 1
      <4>1. r[i] = q[i - 1] /\ i - 1 \in 1 .. n /\ i - 1 < j - 1
        BY <1>1, <1>2, <1>6, <1>7, <3>4
      <4> QED
        BY <1>4, <3>1, <4>1
    <3> QED
      BY <1>1, <1>2, <3>2, <3>3, <3>4
  <2> QED
    BY <1>1, <1>2, <2>1, <2>2, <2>3
<1> QED
  BY <1>6, <1>7 DEF Sorted, r

LEMMA RemoveSorted ==
    ASSUME NEW q, NEW S, Holds(q, S), NEW p, NEW prio, Sorted(q, prio)
    PROVE  Sorted(RemoveFromReadyQueue(q, p), prio)
<1> DEFINE n == Len(q)
           r == RemoveFromReadyQueue(q, p)
           k == CHOOSE i \in 1 .. n : q[i] = p /\ \A j \in 1 .. i - 1 : q[j] # p
<1>1. q \in Seq(Pids) /\ n \in Nat /\ DOMAIN q = 1 .. n
  BY LenProperties DEF Holds
<1>2. \A i, j \in 1 .. n : i < j => Before(q[i], q[j], prio)
  BY DEF Sorted
<1>3. CASE p \notin Range(q)
  BY <1>3 DEF RemoveFromReadyQueue
<1>4. CASE p \in Range(q)
  <2>1. PICK i \in 1 .. n : q[i] = p
    BY <1>1, <1>4 DEF Range
  <2>2. \A j \in 1 .. i - 1 : q[j] # p
    BY <1>1, <2>1 DEF Holds
  <2>3. k \in 1 .. n
    BY <2>1, <2>2
  <2>4. r = RemoveAt(q, k)
    BY <1>4 DEF RemoveFromReadyQueue
  <2> HIDE DEF k, r
  <2>5. /\ Len(r) = n - 1
        /\ \A j \in 1 .. n - 1 : r[j] = IF j < k THEN q[j] ELSE q[j + 1]
    BY <1>1, <2>3, <2>4, RemoveAtShifts
  <2> HIDE DEF n
  <2>6. ASSUME NEW x \in 1 .. n - 1, NEW y \in 1 .. n - 1, x < y
        PROVE  Before(r[x], r[y], prio)
    <3>1. CASE y < k
      <4>1. r[x] = q[x] /\ r[y] = q[y] /\ x \in 1 .. n /\ y \in 1 .. n
        BY <1>1, <2>3, <2>5, <2>6, <3>1
      <4> QED
        BY <1>2, <2>6, <4>1
    <3>2. CASE x < k /\ ~(y < k)
      <4>1. /\ r[x] = q[x] /\ r[y] = q[y + 1]
            /\ x \in 1 .. n /\ y + 1 \in 1 .. n /\ x < y + 1
        BY <1>1, <2>3, <2>5, <2>6, <3>2
      <4> QED
        BY <1>2, <4>1
    <3>3. CASE ~(x < k)
      <4>1. /\ r[x] = q[x + 1] /\ r[y] = q[y + 1]
            /\ x + 1 \in 1 .. n /\ y + 1 \in 1 .. n /\ x + 1 < y + 1
        BY <1>1, <2>3, <2>5, <2>6, <3>3
      <4> QED
        BY <1>2, <4>1
    <3> QED
      BY <3>1, <3>2, <3>3
  <2> QED
    BY <2>5, <2>6 DEF Sorted, r
<1> QED
  BY <1>3, <1>4

\* The order looks only at the priorities of the tasks in the queue.
LEMMA SortedByEntries ==
    ASSUME NEW q, NEW S, Holds(q, S), NEW prio, Sorted(q, prio),
           NEW other, \A p \in S : other[p] = prio[p]
    PROVE  Sorted(q, other)
BY DEF Holds, Sorted, Before

\* p is dispatched before every task that stays Ready.
BestRuns ==
    \A p \in Pids : state'[p] = "Ready" =>
        \/ priority'[currentTask'] < priority'[p]
        \/ /\ priority'[currentTask'] = priority'[p]
           /\ currentTask' < p

\* The head of a sorted queue is the best of the Ready tasks.
LEMMA DispatchesHead ==
    ASSUME NEW st \in [Pids -> States], NEW q, Holds(q, ReadyIn(st)),
           NEW prio, Sorted(q, prio), priority' = prio,
           Schedule(st, q), PopFindsTask', QueueExact'
    PROVE  InOrder' /\ BestRuns
<1>1. q # << >> /\ currentTask' = Head(q) /\ readyQueue' = Tail(q)
  BY ScheduleTakesHead
<1>2. /\ q \in Seq(Pids) /\ Len(q) \in Nat /\ Len(q) >= 1
      /\ Head(q) = q[1]
      /\ Len(Tail(q)) = Len(q) - 1
      /\ \A i \in 1 .. Len(q) - 1 : Tail(q)[i] = q[i + 1]
  BY <1>1, LenProperties, HeadTailProperties, EmptySeq DEF Holds
<1>3. \A i, j \in 1 .. Len(q) : i < j => Before(q[i], q[j], prio)
  BY DEF Sorted
<1>4. InOrder'
  <2>1. \A i, j \in 1 .. Len(Tail(q)) :
          i < j => Before(Tail(q)[i], Tail(q)[j], prio)
    <3> SUFFICES ASSUME NEW i \in 1 .. Len(Tail(q)),
                        NEW j \in 1 .. Len(Tail(q)), i < j
                 PROVE  Before(Tail(q)[i], Tail(q)[j], prio)
      OBVIOUS
    <3>1. i + 1 \in 1 .. Len(q) /\ j + 1 \in 1 .. Len(q) /\ i + 1 < j + 1
      BY <1>2
    <3>2. Tail(q)[i] = q[i + 1] /\ Tail(q)[j] = q[j + 1]
      BY <1>2
    <3> QED
      BY <1>3, <3>1, <3>2
  <2> QED
    BY <1>1, <2>1 DEF InOrder, Sorted, Before
<1>5. ASSUME NEW p \in Pids, state'[p] = "Ready"
      PROVE  Before(Head(q), p, prio)
  <2>1. p \in ReadyIn(state)'
    BY <1>5 DEF ReadyIn
  <2>2. PICK i \in 1 .. Len(Tail(q)) : Tail(q)[i] = p
    BY <1>1, <2>1 DEF QueueExact, Holds
  <2>3. i + 1 \in 1 .. Len(q) /\ 1 \in 1 .. Len(q) /\ 1 < i + 1
    BY <1>2
  <2>4. p = q[i + 1]
    BY <1>2, <2>2
  <2> QED
    BY <1>2, <1>3, <2>3, <2>4
<1>6. Head(q) \in Int /\ \A p \in Pids : p \in Int
  <2>1. Head(q) \in ReadyIn(st)
    BY <1>1, TailHolds
  <2>2. Head(q) \in Pids
    BY <2>1 DEF ReadyIn
  <2> QED
    BY <2>2, MaxNumTasksAssumption DEF Pids
<1> QED
  BY <1>1, <1>4, <1>5, <1>6 DEF BestRuns, Before, arrivalOrder

\* The insertion sort, the removals and the changes of priority keep the
\* queue sorted, and what is dispatched is its head.
LEMMA StepInOrder ==
    ASSUME SchedulerType = "PreemptivePriority",
           IInv, IInv', InOrder, [Next]_vars, RaisesQueued
    PROVE  InOrder' /\ DispatchesBest
<1>1. /\ priority \in [Pids -> Priorities] /\ priority' \in [Pids -> Priorities]
      /\ Holds(readyQueue, ReadyIn(state)) /\ Sorted(readyQueue, priority)
      /\ PopFindsTask' /\ QueueExact'
      /\ state \in [Pids -> States]
  BY DEF IInv, TypeOK, QueueExact, InOrder, Priorities, States
<1>2. UNCHANGED <<readyQueue, priority>> => InOrder'
  BY <1>1 DEF InOrder, Sorted, Before
<1>3. TimerInterrupt => InOrder' /\ BestRuns
  <2> SUFFICES ASSUME TimerInterrupt PROVE InOrder' /\ BestRuns
    OBVIOUS
  <2>1. /\ TickStates \in [Pids -> States]
        /\ Holds(TickQueue, ReadyIn(TickStates))
        /\ Schedule(TickStates, TickQueue)
        /\ priority' = TickPriority
        /\ TickPriority \in [Pids -> Priorities]
    BY TickSchedules
  <2>2. Sorted(RaisedQueue, TickPriority) /\ Holds(RaisedQueue, ReadyIn(state))
    <3>1. CASE AtFifthInterrupt("B4")
      <4> DEFINE q == RemoveFromReadyQueue(readyQueue, collatzTask)
                 S == ReadyIn(state) \ {collatzTask}
      <4>1. collatzTask \in Pids /\ collatzTask \in ReadyIn(state)
        BY <3>1 DEF RaisesQueued, ReadyIn
      <4>2. Holds(q, S) /\ Sorted(q, priority)
        BY <1>1, RemoveHolds, RemoveSorted
      <4>3. \A p \in S : TickPriority[p] = priority[p]
        BY <1>1, <3>1 DEF TickPriority, ReadyIn
      <4>4. collatzTask \in Pids \ S /\ S \cup {collatzTask} = ReadyIn(state)
        BY <4>1
      <4> HIDE DEF q, S
      <4>5. Sorted(q, TickPriority)
        BY <4>2, <4>3, SortedByEntries
      <4>6. /\ Sorted(AddToReadyQueue(q, collatzTask, TickPriority), TickPriority)
            /\ Holds(AddToReadyQueue(q, collatzTask, TickPriority),
                     S \cup {collatzTask})
        BY <2>1, <4>2, <4>4, <4>5, AddSorted, AddHolds
      <4> QED
        BY <3>1, <4>4, <4>6 DEF RaisedQueue, q
    <3>2. CASE ~AtFifthInterrupt("B4")
      BY <1>1, <3>2 DEF RaisedQueue, TickPriority
    <3> QED
      BY <3>1, <3>2
  <2>3. Sorted(TickQueue, TickPriority)
    <3>1. CASE currentTask = NoTask
      BY <2>2, <3>1 DEF TickQueue
    <3>2. CASE currentTask # NoTask
      <4>1. currentTask \in Pids \ ReadyIn(state)
        BY <3>2 DEF IInv, TypeOK, RunningExact, ReadyIn
      <4>2. Sorted(AddToReadyQueue(RaisedQueue, currentTask, TickPriority),
                   TickPriority)
        BY <2>1, <2>2, <4>1, AddSorted
      <4> QED
        BY <3>2, <4>2 DEF TickQueue
    <3> QED
      BY <3>1, <3>2
  <2> QED
    BY <1>1, <2>1, <2>3, DispatchesHead
<1>4. CASE TimerInterrupt
  BY <1>3, <1>4 DEF DispatchesBest, BestRuns
<1>5. CASE Fork
  <2>1. UNCHANGED currentTask
    BY <1>5 DEF Fork
  <2>2. ASSUME ~HasFreeSlot PROVE InOrder'
    BY <1>5, <1>2, <2>2 DEF Fork
  <2>3. ASSUME HasFreeSlot PROVE InOrder'
    <3> DEFINE prio == [priority EXCEPT ![numTasks] = priority[currentTask]]
    <3>1. /\ priority' = prio
          /\ readyQueue' = AddToReadyQueue(readyQueue, numTasks, prio)
      BY <1>5, <2>3 DEF Fork
    <3>2. numTasks \in Pids /\ state[numTasks] = "Free"
      <4>1. numTasks \in 1 .. MaxNumTasks /\ MaxNumTasks \in Nat
        BY <1>5, CallerRuns DEF Fork
      <4> QED
        BY <2>3, <4>1 DEF HasFreeSlot, Pids, IInv, SlotsInOrder
    <3>3. \A p \in ReadyIn(state) : prio[p] = priority[p]
      BY <1>1, <3>2 DEF ReadyIn
    <3>4. prio \in [Pids -> Priorities]
      BY <1>1, <3>1
    <3>5. numTasks \in Pids \ ReadyIn(state)
      BY <3>2 DEF ReadyIn
    <3> HIDE DEF prio
    <3>6. Sorted(readyQueue, prio)
      BY <1>1, <3>3, SortedByEntries
    <3>7. Sorted(AddToReadyQueue(readyQueue, numTasks, prio), prio)
      BY <1>1, <3>4, <3>5, <3>6, AddSorted
    <3> QED
      BY <3>1, <3>7 DEF InOrder, Sorted, Before
  <2>4. InOrder'
    BY <2>2, <2>3
  <2> QED
    BY <1>3, <2>1, <2>4 DEF DispatchesBest, BestRuns
<1>6. CASE ForkPid \/ Execve \/ UNCHANGED vars
  <2>1. UNCHANGED <<readyQueue, priority, currentTask>>
    BY <1>6 DEF ForkPid, Execve, vars
  <2> QED
    BY <1>2, <1>3, <2>1 DEF DispatchesBest, BestRuns
<1>7. ASSUME NEW pid \in Pids \cup {AnyChild}, Waitpid(pid)
      PROVE  InOrder' /\ DispatchesBest
  <2>1. UNCHANGED priority
    BY <1>7 DEF Waitpid
  <2>2. CASE WaitpidReaps(pid) \/ WaitpidFails(pid)
    <3>1. UNCHANGED <<readyQueue, currentTask>>
      BY <2>2 DEF WaitpidReaps, WaitpidFails
    <3> QED
      BY <1>2, <1>3, <2>1, <3>1 DEF DispatchesBest, BestRuns
  <2>3. CASE WaitpidBlocks(pid)
    <3>1. InOrder' /\ BestRuns
      BY <1>1, <1>7, <2>1, <2>3, WaitSchedules, DispatchesHead DEF Waitpid
    <3> QED
      BY <3>1 DEF DispatchesBest, BestRuns
  <2> QED
    BY <1>7, <2>2, <2>3 DEF Waitpid
<1>8. CASE ExitNotInit
  <2> DEFINE me == currentTask
             parent == ppid[me]
             ended == [state EXCEPT ![me] = "Terminated"]
             woken == IF WakesParent(me) THEN MakeReady(ended, parent) ELSE ended
             queued == IF WakesParent(me)
                       THEN AddToReadyQueue(readyQueue, parent, priority)
                       ELSE readyQueue
  <2>1. /\ woken \in [Pids -> States] /\ Holds(queued, ReadyIn(woken))
        /\ Schedule(woken, queued)
        /\ WakesParent(me) => parent \in Pids /\ state[parent] = "Blocked"
        /\ UNCHANGED priority
    BY <1>8, ExitSchedules
  <2>2. Sorted(queued, priority)
    <3>1. CASE WakesParent(me)
      <4>1. parent \in Pids \ ReadyIn(state)
        BY <2>1, <3>1 DEF ReadyIn
      <4> QED
        BY <1>1, <3>1, <4>1, AddSorted
    <3>2. CASE ~WakesParent(me)
      BY <1>1, <3>2
    <3> QED
      BY <3>1, <3>2
  <2> HIDE DEF woken, queued
  <2>3. InOrder' /\ BestRuns
    BY <1>1, <2>1, <2>2, DispatchesHead
  <2> QED
    BY <2>3 DEF DispatchesBest, BestRuns
<1>9. CASE PrioritiseNewTask
  <2> DEFINE last == numTasks - 1
             q == RemoveFromReadyQueue(readyQueue, last)
  <2>1. PICK new \in {High, Medium, Low} : SetLastTaskPriority(new)
    BY <1>9 DEF PrioritiseNewTask
  <2> DEFINE prio == [priority EXCEPT ![last] = new]
  <2>2. /\ priority' = prio
        /\ readyQueue' = AddToReadyQueue(q, last, prio)
        /\ UNCHANGED currentTask
    BY <2>1 DEF SetLastTaskPriority
  <2>3. last \in Pids
    BY <2>1, CallerRuns DEF SetLastTaskPriority, Pids
  <2>4. Holds(q, ReadyIn(state) \ {last}) /\ Sorted(q, priority)
    BY <1>1, RemoveHolds, RemoveSorted
  <2>5. /\ \A p \in ReadyIn(state) \ {last} : prio[p] = priority[p]
        /\ prio \in [Pids -> Priorities]
    BY <1>1, <2>2 DEF ReadyIn
  <2> HIDE DEF q, prio
  <2>6. Sorted(q, prio)
    BY <2>4, <2>5, SortedByEntries
  <2>7. last \in Pids \ (ReadyIn(state) \ {last})
    BY <2>3
  <2>8. Sorted(AddToReadyQueue(q, last, prio), prio)
    BY <2>4, <2>5, <2>6, <2>7, AddSorted
  <2>9. InOrder'
    BY <2>2, <2>8 DEF InOrder, Sorted, Before
  <2> QED
    BY <1>3, <2>2, <2>9 DEF DispatchesBest, BestRuns
<1> QED
  BY <1>4, <1>5, <1>6, <1>7, <1>8, <1>9 DEF Next

\* Under PreemptivePriority the insertion sort keeps the ready queue ordered
\* by priority and age through forks, wake-ups and changes of priority.
THEOREM QueueSorted ==
    SchedulerType = "PreemptivePriority" => (Spec => []InOrder)
<1> SUFFICES ASSUME SchedulerType = "PreemptivePriority"
             PROVE  Spec => []InOrder
  OBVIOUS
<1>1. Init => InOrder
  <2>1. Init => Len(readyQueue) = 1
    BY DEF Init
  <2> QED
    BY <2>1 DEF InOrder, Sorted
<1>2. IInv /\ IInv' /\ InOrder /\ [Next]_vars /\ Uncounted => InOrder'
  BY StepInOrder, NoFifthInterrupt
<1> QED
  BY <1>1, <1>2, NothingCounted, SchedulerInvariant, PTL DEF Spec

\* Under PreemptivePriority every dispatch, by a tick, a blocking waitpid or
\* an exit, takes the most urgent Ready task and the oldest of those.
THEOREM BestIsPicked ==
    SchedulerType = "PreemptivePriority" => (Spec => PicksBest)
<1> SUFFICES ASSUME SchedulerType = "PreemptivePriority"
             PROVE  Spec => PicksBest
  OBVIOUS
<1>1. IInv /\ IInv' /\ InOrder /\ [Next]_vars /\ Uncounted => DispatchesBest
  BY StepInOrder, NoFifthInterrupt
<1>2. Spec => []InOrder
  BY QueueSorted
<1> QED
  BY <1>1, <1>2, NothingCounted, SchedulerInvariant, PTL DEF Spec, PicksBest
=============================================================================
