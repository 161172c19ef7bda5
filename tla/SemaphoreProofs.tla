--------------------------- MODULE SemaphoreProofs ---------------------------
(***************************************************************************)
(* For every number of tasks and of units: the ring of a semaphore holds   *)
(* exactly the blocked tasks, each once, and is a first-in first-out       *)
(* queue.                                                                  *)
(***************************************************************************)
EXTENDS Semaphore, SchedulerProofs

\* How many places slot i lies behind pos: 1 for the slot written last, MAX_TASKS for
\* the one that is written next.
Back(i) == IF i < pos THEN pos - i ELSE pos - i + MAX_TASKS

Occupied == {i \in Slots : queue[i] # Empty}

\* The waiters occupy the slots behind pos: sem_wait adds one in front, sem_post
\* removes one at the other end.
Window == Count \in 0..MAX_TASKS /\ \A i \in Slots : queue[i] # Empty <=> Back(i) <= Count

\* The types of the semaphore's own variables.
OwnTypeOK ==
  /\ use \in Uses
  /\ value \in 0..use.bound
  /\ queue \in [Slots -> Tasks \cup {Empty}]
  /\ pos \in Slots
  /\ waiting \in SUBSET Tasks
  /\ held \in [Tasks -> Nat]

\* The inductive invariant, next to the scheduler's own.
RingInv == OwnTypeOK /\ Window /\ WaitersBlocked

\* The types of the constants.
LEMMA SemConstants ==
  /\ MAX_TASKS \in Nat \ {0} /\ Slots = Tasks /\ Empty \notin Tasks
  /\ Tasks = 0..(MAX_TASKS - 1)
  /\ IsFiniteSet(Tasks) /\ Cardinality(Tasks) = MAX_TASKS
<1>1. IsFiniteSet(Tasks) /\ Cardinality(Tasks) = MAX_TASKS
  BY FS_Interval, SchedulerAssumption DEF Tasks
<1>2. QED
  BY <1>1, SchedulerAssumption DEF Slots, Tasks, Empty

\* The scan of sem_post visits every slot, the furthest from pos first.
LEMMA SlotIsBack ==
  ASSUME pos \in Slots, NEW k \in Slots
  PROVE  Slot(k) \in Slots /\ Back(Slot(k)) = MAX_TASKS - k
<1> DEFINE M == MAX_TASKS
<1>1. M \in Nat \ {0} /\ pos \in 0..(M - 1) /\ k \in 0..(M - 1) /\ Slots = 0..(M - 1)
  BY SemConstants
<1>2. Slot(k) = IF pos + k < M THEN pos + k ELSE pos + k - M
  <2>1. CASE pos + k < M
    BY <1>1, <2>1, SMT DEF Slot
  <2>2. CASE ~(pos + k < M)
    BY <1>1, <2>2, SMT DEF Slot
  <2>3. QED
    BY <2>1, <2>2
<1>3. QED
  BY <1>1, <1>2 DEF Back

\* Slots at the same distance from pos are the same.
LEMMA BackIsOnce ==
  ASSUME pos \in Slots
  PROVE  /\ \A i \in Slots : Back(i) \in 1..MAX_TASKS
         /\ \A i, j \in Slots : Back(i) = Back(j) => i = j
         /\ Back(pos) = MAX_TASKS
BY SemConstants DEF Back

\* Filling an empty slot and clearing an occupied one.
LEMMA CountAdd ==
  ASSUME queue \in [Slots -> Tasks \cup {Empty}], NEW s \in Slots, queue[s] = Empty,
         NEW t \in Tasks, queue' = [queue EXCEPT ![s] = t]
  PROVE  Count' = Count + 1
<1>1. IsFiniteSet(Occupied) /\ s \notin Occupied
  BY SemConstants, FS_Subset DEF Occupied
<1>2. Occupied' = Occupied \cup {s}
  BY SemConstants DEF Occupied
<1>3. QED
  BY <1>1, <1>2, FS_AddElement DEF Count, Occupied

\* Emptying an occupied slot.
LEMMA CountRemove ==
  ASSUME queue \in [Slots -> Tasks \cup {Empty}], NEW s \in Slots, queue[s] # Empty,
         queue' = [queue EXCEPT ![s] = Empty]
  PROVE  Count' = Count - 1
<1>1. IsFiniteSet(Occupied) /\ s \in Occupied
  BY SemConstants, FS_Subset DEF Occupied
<1>2. Occupied' = Occupied \ {s}
  BY SemConstants DEF Occupied
<1>3. QED
  BY <1>1, <1>2, FS_RemoveElement DEF Count, Occupied

-----------------------------------------------------------------------------
\* Not all tasks can wait: the running one does not.  So the slot that sem_wait
\* writes is empty.
LEMMA RoomInRing ==
  ASSUME RingInv, NEW t \in Tasks, status[t] # "BLOCKED"
  PROVE  queue[pos] = Empty
<1> SUFFICES ASSUME queue[pos] # Empty PROVE FALSE
  OBVIOUS
<1>1. pos \in Slots /\ queue \in [Slots -> Tasks \cup {Empty}]
  BY DEF RingInv, OwnTypeOK
<1>2. \A i \in Slots : queue[i] # Empty
  <2>1. Count \in 0..MAX_TASKS /\ \A i \in Slots : queue[i] # Empty <=> Back(i) <= Count
    BY DEF RingInv, Window
  <2>2. Back(pos) = MAX_TASKS /\ \A i \in Slots : Back(i) \in 1..MAX_TASKS
    BY <1>1, BackIsOnce
  <2>3. MAX_TASKS <= Count
    BY <1>1, <2>1, <2>2
  <2>4. QED
    BY <2>1, <2>2, <2>3, SemConstants
<1>3. queue \in Injection(Slots, Tasks)
  BY <1>1, <1>2 DEF RingInv, WaitersBlocked, Injection, IsInjective
<1>4. queue \in Surjection(Slots, Tasks)
  BY <1>3, SemConstants, FS_Injection
<1>5. \E i \in Slots : queue[i] = t
  BY <1>4 DEF Surjection
<1>6. QED
  BY <1>5 DEF RingInv, WaitersBlocked

\* A task that executes its own code is TASK_RUNNING, or idle.
LEMMA RunningStatus ==
  ASSUME IInv, Running, current_task # Idle
  PROVE  current_task \in Tasks /\ status[current_task] = "RUNNING"
BY DEF IInv, TypeOK, TaskStates, Running

-----------------------------------------------------------------------------
\* sem_wait that blocks: one more slot is occupied, in front.
LEMMA WaitInv ==
  ASSUME RingInv, IInv, sem_wait, value = 0
  PROVE  RingInv'
<1> DEFINE c == current_task
<1> USE SemConstants
<1>1. c \in Tasks /\ status[c] = "RUNNING"
  BY RunningStatus DEF sem_wait
<1>2. /\ queue' = [queue EXCEPT ![pos] = c] /\ pos' = (pos + 1) % MAX_TASKS
      /\ waiting' = waiting \cup {c} /\ UNCHANGED <<use, value, held>>
      /\ block_current_task
  BY DEF sem_wait, NextPos, RingInv, OwnTypeOK
<1>3. status' = [status EXCEPT ![c] = "BLOCKED"]
  BY <1>1, <1>2 DEF block_current_task
<1>4. pos \in Slots /\ queue \in [Slots -> Tasks \cup {Empty}] /\ queue[pos] = Empty
  BY <1>1, RoomInRing DEF RingInv, OwnTypeOK
<1>5. pos' = IF pos + 1 = MAX_TASKS THEN 0 ELSE pos + 1
  <2>1. CASE pos + 1 = MAX_TASKS
    BY <1>2, <1>4, <2>1, SMT
  <2>2. CASE pos + 1 # MAX_TASKS
    BY <1>2, <1>4, <2>2, SMT
  <2>3. QED
    BY <2>1, <2>2
<1>6. OwnTypeOK'
  <2>1. pos' \in Slots
    BY <1>4, <1>5
  <2>2. QED
    BY <1>1, <1>2, <1>4, <2>1 DEF RingInv, OwnTypeOK
<1>7. Window'
  <2> DEFINE w == Count
  <2>1. w \in 0..MAX_TASKS /\ \A i \in Slots : queue[i] # Empty <=> Back(i) <= w
    BY DEF RingInv, Window
  <2> HIDE DEF w
  <2>2. w + 1 \in 0..MAX_TASKS
    BY <1>4, <2>1, BackIsOnce
  <2>3. \A i \in Slots : Back(i)' = IF i = pos THEN 1 ELSE Back(i) + 1
    BY <1>4, <1>5 DEF Back
  <2>4. \A i \in Slots : queue'[i] # Empty <=> Back(i)' <= w + 1
    BY <1>1, <1>2, <1>4, <2>1, <2>3, BackIsOnce
  <2>5. Count' = w + 1
    BY <1>1, <1>2, <1>4, CountAdd DEF w
  <2>6. QED
    BY <2>2, <2>4, <2>5 DEF Window
<1>8. WaitersBlocked'
  <2>1. \A i \in Slots : queue[i] # c
    BY <1>1 DEF RingInv, WaitersBlocked
  <2>2. \A t \in Tasks : status'[t] = "BLOCKED" <=> status[t] = "BLOCKED" \/ t = c
    BY <1>1, <1>3 DEF IInv, TypeOK
  <2>3. \A i \in Slots : queue'[i] = IF i = pos THEN c ELSE queue[i]
    BY <1>2, <1>4
  <2>4. \A t \in Tasks : (\E i \in Slots : queue'[i] = t) <=> (\E i \in Slots : queue[i] = t) \/ t = c
    BY <1>4, <2>3
  <2>5. \A i, j \in Slots : queue'[i] = queue'[j] /\ queue'[i] # Empty => i = j
    BY <1>1, <2>1, <2>3 DEF RingInv, WaitersBlocked
  <2>6. QED
    BY <2>2, <2>4, <2>5 DEF RingInv, WaitersBlocked
<1>9. QED
  BY <1>6, <1>7, <1>8 DEF RingInv

\* The scan of sem_post stops at the far end of the window.
LEMMA FirstIsOldest ==
  ASSUME RingInv, NEW k \in Slots, FirstWaiter(k)
  PROVE  k = MAX_TASKS - Count
<1> DEFINE w == Count
<1>1. /\ pos \in Slots /\ w \in 0..MAX_TASKS
      /\ \A i \in Slots : queue[i] # Empty <=> Back(i) <= w
  BY DEF RingInv, OwnTypeOK, Window
<1> HIDE DEF w
<1>2. \A j \in Slots : Slot(j) \in Slots /\ Back(Slot(j)) = MAX_TASKS - j
  BY <1>1, SlotIsBack
<1>3. MAX_TASKS - k <= w
  BY <1>1, <1>2 DEF FirstWaiter
<1>4. k - 1 >= MAX_TASKS - w => FALSE
  <2> SUFFICES ASSUME k - 1 >= MAX_TASKS - w PROVE FALSE
    OBVIOUS
  <2>1. k - 1 \in Slots /\ k - 1 \in 0..(k - 1) /\ MAX_TASKS - (k - 1) <= w
    BY <1>1, SemConstants
  <2>2. queue[Slot(k - 1)] # Empty
    BY <1>1, <1>2, <2>1
  <2>3. QED
    BY <2>1, <2>2 DEF FirstWaiter
<1>5. k = MAX_TASKS - w
  BY <1>1, <1>3, <1>4, SemConstants
<1>6. QED
  BY <1>5 DEF w

\* sem_post that wakes a task: the slot that it clears is the last of the window.
LEMMA PostInv ==
  ASSUME RingInv, IInv, NEW k \in Slots, FirstWaiter(k),
         queue' = [queue EXCEPT ![Slot(k)] = Empty], Wake(queue[Slot(k)]),
         UNCHANGED <<use, pos, waiting>>, value' \in 0..use.bound, held' \in [Tasks -> Nat]
  PROVE  RingInv'
<1> DEFINE s == Slot(k)
           t == queue[s]
<1> USE SemConstants
<1>1. /\ pos \in Slots /\ queue \in [Slots -> Tasks \cup {Empty}]
      /\ s \in Slots /\ Back(s) = MAX_TASKS - k
  BY SlotIsBack DEF RingInv, OwnTypeOK
<1>2. t \in Tasks /\ status[t] = "BLOCKED"
  BY <1>1 DEF FirstWaiter, RingInv, WaitersBlocked
<1>3. status' = [status EXCEPT ![t] = "READY"]
  BY <1>2 DEF Wake, wakeup_task
<1>4. OwnTypeOK'
  BY <1>1 DEF RingInv, OwnTypeOK
<1> HIDE DEF s
<1>5. Window'
  <2> DEFINE w == Count
  <2>1. w \in 0..MAX_TASKS /\ \A i \in Slots : queue[i] # Empty <=> Back(i) <= w
    BY DEF RingInv, Window
  <2> HIDE DEF w
  <2>2. k = MAX_TASKS - w
    BY FirstIsOldest DEF w
  <2>3. Back(s) = w
    BY <1>1, <2>1, <2>2
  <2>4. w - 1 \in 0..MAX_TASKS
    BY <1>1, <2>3
  <2>5. \A i \in Slots : Back(i)' = Back(i)
    BY DEF Back
  <2>6. \A i \in Slots : queue'[i] # Empty <=> Back(i)' <= w - 1
    <3>1. \A i \in Slots : queue'[i] = IF i = s THEN Empty ELSE queue[i]
      BY <1>1 DEF s
    <3>2. \A i \in Slots : Back(i) \in Nat /\ (Back(i) = w => i = s)
      BY <1>1, <2>3, BackIsOnce, SMTT(60)
    <3>3. QED
      BY <2>1, <2>3, <2>5, <3>1, <3>2
  <2>7. Count' = w - 1
    BY <1>1, <1>2, CountRemove DEF w, s
  <2>8. QED
    BY <2>4, <2>6, <2>7 DEF Window
<1>6. WaitersBlocked'
  <2>1. \A u \in Tasks : status'[u] = "BLOCKED" <=> status[u] = "BLOCKED" /\ u # t
    BY <1>2, <1>3 DEF IInv, TypeOK
  <2>2. \A i \in Slots : queue'[i] = IF i = s THEN Empty ELSE queue[i]
    BY <1>1 DEF s
  <2>3. \A i, j \in Slots : queue[i] = queue[j] /\ queue[i] # Empty => i = j
    BY DEF RingInv, WaitersBlocked
  <2>4. ASSUME NEW u \in Tasks
        PROVE  (\E i \in Slots : queue'[i] = u) <=> (\E i \in Slots : queue[i] = u) /\ u # t
    <3>1. ASSUME NEW i \in Slots, queue'[i] = u PROVE queue[i] = u /\ u # t
      <4>1. i # s /\ queue[i] = u /\ u # Empty
        BY <2>2, <2>4, <3>1
      <4>2. QED
        BY <1>1, <2>3, <4>1
    <3>2. ASSUME NEW i \in Slots, queue[i] = u, u # t PROVE queue'[i] = u
      BY <2>2, <3>2
    <3>3. QED
      BY <3>1, <3>2
  <2>5. \A i, j \in Slots : queue'[i] = queue'[j] /\ queue'[i] # Empty => i = j
    BY <2>2, <2>3
  <2>6. QED
    BY <2>1, <2>4, <2>5 DEF RingInv, WaitersBlocked
<1>7. QED
  BY <1>4, <1>5, <1>6 DEF RingInv

\* A step that blocks and wakes nobody and leaves the ring alone.
LEMMA SameRing ==
  ASSUME RingInv, OwnTypeOK', UNCHANGED <<queue, pos>>,
         \A t \in Tasks : status'[t] = "BLOCKED" <=> status[t] = "BLOCKED"
  PROVE  RingInv'
<1>1. Window'
  BY DEF RingInv, Window, Back, Count
<1>2. WaitersBlocked'
  BY DEF RingInv, WaitersBlocked
<1>3. QED
  BY <1>1, <1>2 DEF RingInv

-----------------------------------------------------------------------------
\* scheduler and its callers, task creation and exit neither block nor wake.
LEMMA SchedulerBlocksNobody ==
  ASSUME IInv, scheduler
  PROVE  \A t \in Tasks : status'[t] = "BLOCKED" <=> status[t] = "BLOCKED"
<1>1. current_task \in Tasks /\ status \in [Tasks -> Statuses]
  BY DEF IInv, TypeOK
<1>2. CASE Keep
  BY <1>2 DEF Keep
<1>3. CASE SwitchToIdle
  BY <1>1, <1>3 DEF SwitchToIdle, Reaped
<1>4. ASSUME NEW p \in Prios, SwitchToFirst(p)
      PROVE  \A t \in Tasks : status'[t] = "BLOCKED" <=> status[t] = "BLOCKED"
  <2> DEFINE new == first[p]
  <2>1. first[p] # NULL
    BY <1>4 DEF SwitchToFirst, Highest, IInv, BitmapExact
  <2>2. new \in Tasks /\ status[new] = "READY"
    BY <2>1, QueueEnds DEF IInv, Queued
  <2>3. QED
    BY <1>1, <1>4, <2>2 DEF SwitchToFirst, Reaped
<1>5. QED
  BY <1>2, <1>3, <1>4 DEF scheduler

\* Other steps of the kernel block nobody and wake nobody who waits.
LEMMA KernelBlocksNobody ==
  ASSUME IInv, Kernel
  PROVE  \A t \in Tasks : status'[t] = "BLOCKED" <=> status[t] = "BLOCKED"
<1>1. current_task \in Tasks /\ status \in [Tasks -> Statuses]
  BY DEF IInv, TypeOK
<1>2. ASSUME NEW p \in Prios, create_kernel_task(p, TRUE)
      PROVE  \A t \in Tasks : status'[t] = "BLOCKED" <=> status[t] = "BLOCKED"
  <2>1. PICK i \in Tasks : status[i] = "INVALID" /\ status' = [status EXCEPT ![i] = "READY"]
    BY <1>2 DEF create_kernel_task, create_task, FirstInvalid
  <2>2. QED
    BY <1>1, <2>1
<1>3. CASE do_exit_finish
  BY <1>1, <1>3 DEF do_exit_finish, IInv, TaskStates
<1>4. CASE reschedule
  BY <1>4, SchedulerBlocksNobody DEF reschedule
<1>5. CASE irq_leave
  BY <1>5, SchedulerBlocksNobody DEF irq_leave, tableVars
<1>6. CASE do_exit_count \/ finish_task_switch \/ \E kind \in {"timer", "device"} : irq_enter(kind)
  BY <1>6 DEF do_exit_count, finish_task_switch, irq_enter, tableVars
<1>7. QED
  BY <1>2, <1>3, <1>4, <1>5, <1>6 DEF Kernel

\* The invariant holds at first.
LEMMA RingInit == SemInit => RingInv
<1> SUFFICES ASSUME SemInit PROVE RingInv
  OBVIOUS
<1>1. queue = [i \in Slots |-> Empty] /\ pos = 0 /\ value = use.units
  BY DEF SemInit, sem_init
<1>2. OwnTypeOK
  BY <1>1, SemConstants, SemaphoreAssumption DEF SemInit, OwnTypeOK
<1>3. Window
  <2>1. \A i \in Slots : queue[i] # Empty <=> Back(i) <= 0
    BY <1>1, SemConstants DEF Back
  <2>2. Count = 0 /\ 0 \in 0..MAX_TASKS
    <3>1. {i \in Slots : queue[i] # Empty} = {}
      BY <1>1
    <3>2. QED
      BY <3>1, SemConstants, FS_EmptySet DEF Count
  <2>3. QED
    BY <2>1, <2>2 DEF Window
<1>4. WaitersBlocked
  BY <1>1, SemConstants DEF WaitersBlocked, SemInit, Init
<1>5. QED
  BY <1>2, <1>3, <1>4 DEF RingInv

\* Every step preserves the invariant.
LEMMA RingNext == RingInv /\ IInv /\ [SemNext]_svars => RingInv'
<1> SUFFICES ASSUME RingInv, IInv, [SemNext]_svars PROVE RingInv'
  OBVIOUS
<1>1. /\ use \in Uses /\ use.bound \in Nat /\ value \in 0..use.bound
      /\ current_task \in Tasks /\ held \in [Tasks -> Nat] /\ waiting \subseteq Tasks
  BY SemaphoreAssumption DEF RingInv, OwnTypeOK, IInv, TypeOK
<1>2. CASE sem_wait
  <2>1. CASE value = 0
    BY <1>2, <2>1, WaitInv
  <2>2. CASE value # 0
    <3>1. /\ value' = value - 1 /\ waiting' = waiting \ {current_task}
          /\ held' = [held EXCEPT ![current_task] = IF use.pool THEN @ + 1 ELSE 0]
          /\ UNCHANGED <<use, queue, pos, vars>>
      BY <1>2, <2>2 DEF sem_wait
    <3>2. held' \in [Tasks -> Nat]
      BY <1>1, <3>1
    <3>3. OwnTypeOK'
      BY <1>1, <2>2, <3>1, <3>2 DEF RingInv, OwnTypeOK
    <3>4. QED
      BY <3>1, <3>3, SameRing DEF vars, tableVars
  <2>3. QED
    BY <2>1, <2>2
<1>3. CASE sem_trywait
  <2>1. held' \in [Tasks -> Nat]
    BY <1>1, <1>3 DEF sem_trywait
  <2>2. OwnTypeOK'
    BY <1>1, <1>3, <2>1 DEF sem_trywait, RingInv, OwnTypeOK
  <2>3. QED
    BY <1>3, <2>2, SameRing DEF sem_trywait, vars, tableVars
<1>4. CASE sem_post
  <2>1. /\ value' = value + 1 /\ value < use.bound /\ UNCHANGED <<use, pos, waiting>>
        /\ held' = [held EXCEPT ![current_task] = IF use.pool THEN @ - 1 ELSE 0]
        /\ use.pool => held[current_task] > 0
    BY <1>4 DEF sem_post
  <2>2. value' \in 0..use.bound /\ held' \in [Tasks -> Nat]
    BY <1>1, <2>1
  <2>3. ASSUME NEW k \in Slots, FirstWaiter(k), queue' = [queue EXCEPT ![Slot(k)] = Empty],
               Wake(queue[Slot(k)])
        PROVE  RingInv'
    BY <2>1, <2>2, <2>3, PostInv
  <2>4. CASE UNCHANGED <<queue, vars>>
    <3>1. OwnTypeOK'
      BY <2>1, <2>2, <2>4 DEF RingInv, OwnTypeOK
    <3>2. QED
      BY <2>1, <2>4, <3>1, SameRing DEF vars, tableVars
  <2>5. QED
    BY <1>4, <2>3, <2>4 DEF sem_post
<1>5. CASE Kernel
  <2>1. OwnTypeOK'
    BY <1>5 DEF Kernel, semVars, RingInv, OwnTypeOK
  <2>2. QED
    BY <1>5, <2>1, SameRing, KernelBlocksNobody DEF Kernel, semVars
<1>6. CASE UNCHANGED svars
  <2>1. OwnTypeOK' /\ UNCHANGED <<queue, pos, status>>
    BY <1>6 DEF svars, semVars, vars, tableVars, RingInv, OwnTypeOK
  <2>2. QED
    BY <2>1, SameRing
<1>7. QED
  BY <1>2, <1>3, <1>4, <1>5, <1>6 DEF SemNext

-----------------------------------------------------------------------------
\* The semaphore uses the scheduler by its operations only.
LEMMA SemSchedulerStep == RingInv /\ [SemNext]_svars => [Next]_vars
<1> SUFFICES ASSUME RingInv, [SemNext]_svars PROVE [Next]_vars
  OBVIOUS
<1>1. CASE Kernel
  <2>1. Prios \subseteq 0..(MAX_PRIO + 1)
    BY SchedulerAssumption DEF Prios
  <2>2. QED
    BY <1>1, <2>1 DEF Kernel, Next
<1>2. CASE sem_wait
  BY <1>2 DEF sem_wait, Next
<1>3. ASSUME NEW k \in Slots, FirstWaiter(k), Wake(queue[Slot(k)]) PROVE [Next]_vars
  <2>1. queue[Slot(k)] \in Tasks
    BY <1>3, SlotIsBack DEF FirstWaiter, RingInv, OwnTypeOK
  <2>2. QED
    BY <1>3, <2>1 DEF Wake, Next
<1>4. CASE UNCHANGED vars
  BY <1>4
<1>5. QED
  BY <1>1, <1>2, <1>3, <1>4 DEF SemNext, sem_trywait, sem_post, svars

\* Both invariants together.
LEMMA SemInvariance == SemSpec => [](IInv /\ RingInv)
<1>1. SemInit => IInv /\ RingInv
  BY InitIInv, RingInit DEF SemInit
<1>2. IInv /\ RingInv /\ [SemNext]_svars => (IInv /\ RingInv)'
  BY SemSchedulerStep, NextIInv, RingNext
<1>3. QED
  BY <1>1, <1>2, PTL DEF SemSpec

\* The ring holds exactly the blocked tasks, each once, whatever the number of tasks,
\* the units, the interrupts that post and the points where tasks are preempted.
THEOREM SemaphoreCorrect == SemSpec => [](SemTypeOK /\ WaitersBlocked)
<1>1. IInv /\ RingInv => SemTypeOK /\ WaitersBlocked
  BY DEF IInv, RingInv, OwnTypeOK, SemTypeOK
<1>2. QED
  BY <1>1, SemInvariance, PTL

\* A system of tasks that use a semaphore is one of the scheduler's: all that is
\* proved of the scheduler holds of it.
THEOREM SemaphoreSchedules == SemSpec => Spec
<1>1. SemInit => Init
  BY DEF SemInit
<1>2. QED
  BY <1>1, SemSchedulerStep, SemInvariance, PTL DEF SemSpec, Spec

-----------------------------------------------------------------------------
(***************************************************************************)
(* The refinement of FifoSemaphore.                                        *)
(***************************************************************************)
\* Slot(k) for a given pos, without the remainder.
Spot(q, k) == (q + k) % MAX_TASKS

\* The two values that the index of a slot can have.
LEMMA SpotValue ==
  ASSUME NEW q \in Slots, NEW k \in Slots
  PROVE  Spot(q, k) = IF q + k < MAX_TASKS THEN q + k ELSE q + k - MAX_TASKS
<1> DEFINE M == MAX_TASKS
<1>1. M \in Nat \ {0} /\ q \in 0..(M - 1) /\ k \in 0..(M - 1)
  BY SemConstants
<1>2. CASE q + k < M
  BY <1>1, <1>2, SMT DEF Spot
<1>3. CASE ~(q + k < M)
  BY <1>1, <1>3, SMT DEF Spot
<1>4. QED
  BY <1>2, <1>3

\* The waiters are a sequence of tasks.
WaitersRight ==
  /\ Waiters \in Seq(Tasks) /\ Len(Waiters) = Count
  /\ \A k \in 1..Count : Waiters[k] = queue[Spot(pos, MAX_TASKS - Count + k - 1)]

\* The sequence of waiters as the refinement reads it.
LEMMA WaitersAre == RingInv => WaitersRight
<1> SUFFICES ASSUME RingInv PROVE WaitersRight
  OBVIOUS
<1>1. /\ pos \in Slots /\ queue \in [Slots -> Tasks \cup {Empty}] /\ Count \in 0..MAX_TASKS
      /\ \A i \in Slots : queue[i] # Empty <=> Back(i) <= Count
  BY DEF RingInv, OwnTypeOK, Window
<1>2. \A k \in 1..Count : Waiters[k] = queue[Spot(pos, MAX_TASKS - Count + k - 1)]
  BY DEF Waiters, Slot, Spot
<1>3. \A k \in 1..Count : Waiters[k] \in Tasks
  <2> SUFFICES ASSUME NEW k \in 1..Count PROVE Waiters[k] \in Tasks
    OBVIOUS
  <2> DEFINE o == MAX_TASKS - Count + k - 1
  <2>1. o \in Slots /\ o >= MAX_TASKS - Count
    BY <1>1, SemConstants
  <2>2. Waiters[k] = queue[Slot(o)]
    BY <1>2 DEF Slot, Spot
  <2> HIDE DEF o
  <2>3. Slot(o) \in Slots /\ Back(Slot(o)) = MAX_TASKS - o
    BY <1>1, <2>1, SlotIsBack
  <2>4. MAX_TASKS - o <= Count
    BY <1>1, <2>1, SemConstants
  <2>5. QED
    BY <1>1, <2>2, <2>3, <2>4
<1>4. Waiters = [k \in 1..Count |-> Waiters[k]]
  BY DEF Waiters
<1>5. QED
  BY <1>1, <1>2, <1>3, <1>4 DEF WaitersRight

\* sem_wait that blocks adds the task at the end.
LEMMA WaitersAppend ==
  ASSUME RingInv, IInv, sem_wait, value = 0
  PROVE  /\ current_task \in Tasks
         /\ \A i \in 1..Len(Waiters) : Waiters[i] # current_task
         /\ Waiters' = Append(Waiters, current_task)
<1> DEFINE c == current_task
<1>1. c \in Tasks /\ status[c] = "RUNNING"
  BY RunningStatus DEF sem_wait
<1>2. queue' = [queue EXCEPT ![pos] = c] /\ pos' = (pos + 1) % MAX_TASKS
  BY DEF sem_wait, NextPos
<1>3. pos \in Slots /\ queue \in [Slots -> Tasks \cup {Empty}] /\ queue[pos] = Empty /\ Count \in 0..MAX_TASKS
  BY <1>1, RoomInRing DEF RingInv, OwnTypeOK, Window
<1>4. RingInv' /\ Count' = Count + 1
  BY <1>1, <1>2, <1>3, WaitInv, CountAdd
<1>5. WaitersRight /\ WaitersRight'
  BY <1>4, WaitersAre, PTL
<1>6. pos' = IF pos + 1 = MAX_TASKS THEN 0 ELSE pos + 1
  <2>1. CASE pos + 1 = MAX_TASKS
    BY <1>2, <1>3, <2>1, SemConstants, SMT
  <2>2. CASE pos + 1 # MAX_TASKS
    BY <1>2, <1>3, <2>2, SemConstants, SMT
  <2>3. QED
    BY <2>1, <2>2
<1>7. \A i \in 1..Count : Waiters[i] # c
  <2> SUFFICES ASSUME NEW i \in 1..Count PROVE Waiters[i] # c
    OBVIOUS
  <2> DEFINE o == MAX_TASKS - Count + i - 1
  <2>1. o \in Slots
    BY <1>3, SemConstants
  <2>2. Waiters[i] = queue[Slot(o)]
    BY <1>5 DEF WaitersRight, Slot, Spot
  <2> HIDE DEF o
  <2>3. Slot(o) \in Slots
    BY <1>3, <2>1, SlotIsBack
  <2>4. QED
    BY <1>1, <2>2, <2>3 DEF RingInv, WaitersBlocked
<1>8. \A k \in 1..(Count + 1) : Waiters'[k] = Append(Waiters, c)[k]
  <2> SUFFICES ASSUME NEW k \in 1..(Count + 1) PROVE Waiters'[k] = Append(Waiters, c)[k]
    OBVIOUS
  <2> DEFINE o == MAX_TASKS - (Count + 1) + k - 1
  <2>1. o \in Slots /\ o = MAX_TASKS - Count + k - 2
    <3>1. Count + 1 <= MAX_TASKS
      BY <1>3, <1>4, SemConstants DEF RingInv, Window
    <3>2. QED
      BY <1>3, <3>1, SemConstants
  <2>2. Waiters'[k] = queue'[Spot(pos', o)]
    BY <1>4, <1>5 DEF WaitersRight
  <2>3. pos' \in Slots
    BY <1>4 DEF RingInv, OwnTypeOK
  <2> HIDE DEF o
  <2>4. Spot(pos', o) = IF pos' + o < MAX_TASKS THEN pos' + o ELSE pos' + o - MAX_TASKS
    BY <2>1, <2>3, SpotValue
  <2>5. CASE k = Count + 1
    <3>1. Spot(pos', o) = pos
      BY <2>1, <2>4, <2>5, <1>3, <1>6, SemConstants
    <3>2. QED
      BY <2>2, <2>5, <3>1, <1>1, <1>2, <1>3, <1>5 DEF WaitersRight
  <2>6. CASE k \in 1..Count
    <3> DEFINE b == MAX_TASKS - Count + k - 1
    <3>1. b \in Slots /\ b = o + 1
      BY <2>1, <2>6, <1>3, SemConstants
    <3>2. Waiters[k] = queue[Spot(pos, b)]
      BY <2>6, <1>5 DEF WaitersRight
    <3> HIDE DEF b
    <3>3. Spot(pos, b) = IF pos + b < MAX_TASKS THEN pos + b ELSE pos + b - MAX_TASKS
      BY <1>3, <3>1, SpotValue
    <3>4. Spot(pos', o) = Spot(pos, b) /\ Spot(pos, b) \in Slots /\ Spot(pos, b) # pos
      BY <1>3, <1>6, <2>1, <2>4, <3>1, <3>3, SemConstants
    <3>5. queue'[Spot(pos', o)] = queue[Spot(pos, b)]
      BY <1>2, <1>3, <3>4
    <3>6. Append(Waiters, c)[k] = Waiters[k]
      BY <1>1, <1>5, <2>6 DEF WaitersRight
    <3>7. QED
      BY <2>2, <3>2, <3>5, <3>6
  <2>7. k = Count + 1 \/ k \in 1..Count
    BY <1>3
  <2>8. QED
    BY <2>5, <2>6, <2>7
<1>9. /\ Waiters' \in Seq(Tasks) /\ Append(Waiters, c) \in Seq(Tasks)
      /\ Len(Waiters') = Count + 1 /\ Len(Append(Waiters, c)) = Count + 1
  BY <1>1, <1>4, <1>5 DEF WaitersRight
<1>10. Waiters' = Append(Waiters, c)
  BY <1>8, <1>9
<1>11. QED
  BY <1>1, <1>5, <1>7, <1>10 DEF WaitersRight

\* sem_post that wakes a task removes the one that has waited longest.
LEMMA WaitersTail ==
  ASSUME RingInv, RingInv', NEW k \in Slots, FirstWaiter(k),
         queue' = [queue EXCEPT ![Slot(k)] = Empty], pos' = pos
  PROVE  Waiters # << >> /\ Waiters' = Tail(Waiters)
<1>1. pos \in Slots /\ queue \in [Slots -> Tasks \cup {Empty}] /\ Count \in 0..MAX_TASKS
  BY DEF RingInv, OwnTypeOK, Window
<1>2. k = MAX_TASKS - Count /\ Count > 0
  <2>1. k = MAX_TASKS - Count
    BY FirstIsOldest
  <2>2. QED
    BY <1>1, <2>1, SemConstants
<1>3. Spot(pos, k) \in Slots /\ queue[Spot(pos, k)] # Empty /\ queue' = [queue EXCEPT ![Spot(pos, k)] = Empty]
  BY <1>1, SlotIsBack DEF FirstWaiter, Slot, Spot
<1>4. Count' = Count - 1
  BY <1>1, <1>3, CountRemove
<1>5. WaitersRight /\ WaitersRight'
  BY WaitersAre, PTL
<1>6. /\ Waiters \in Seq(Tasks) /\ Len(Waiters) = Count
      /\ Waiters' \in Seq(Tasks) /\ Len(Waiters') = Count - 1
  BY <1>4, <1>5 DEF WaitersRight
<1>7. Waiters # << >> /\ Tail(Waiters) \in Seq(Tasks) /\ Len(Tail(Waiters)) = Count - 1
  BY <1>1, <1>2, <1>6
<1>8. \A i \in 1..(Count - 1) : Waiters'[i] = Tail(Waiters)[i]
  <2> SUFFICES ASSUME NEW i \in 1..(Count - 1) PROVE Waiters'[i] = Tail(Waiters)[i]
    OBVIOUS
  <2> DEFINE o == MAX_TASKS - (Count - 1) + i - 1
             b == MAX_TASKS - Count + (i + 1) - 1
  <2>1. o \in Slots /\ b = o /\ o > k /\ i + 1 \in 1..Count
    BY <1>1, <1>2, SemConstants
  <2>2. Waiters'[i] = queue'[Spot(pos, o)]
    BY <1>4, <1>5 DEF WaitersRight
  <2>3. Waiters[i + 1] = queue[Spot(pos, b)]
    BY <1>5, <2>1 DEF WaitersRight
  <2> HIDE DEF o, b
  <2>4. /\ Spot(pos, o) = IF pos + o < MAX_TASKS THEN pos + o ELSE pos + o - MAX_TASKS
        /\ Spot(pos, k) = IF pos + k < MAX_TASKS THEN pos + k ELSE pos + k - MAX_TASKS
    BY <1>1, <2>1, SpotValue
  <2>5. Spot(pos, o) # Spot(pos, k) /\ Spot(pos, o) \in Slots
    BY <1>1, <2>1, <2>4, SemConstants
  <2>6. queue'[Spot(pos, o)] = queue[Spot(pos, o)]
    BY <1>1, <1>3, <2>5
  <2>7. Tail(Waiters)[i] = Waiters[i + 1]
    BY <1>1, <1>6, <1>7
  <2>8. QED
    BY <2>1, <2>2, <2>3, <2>6, <2>7
<1>9. QED
  BY <1>6, <1>7, <1>8

\* What the steps of the system look like to a first-in first-out semaphore.
LEMMA SemImplements ==
  ASSUME RingInv, IInv, [SemNext]_svars
  PROVE  [Abstract!Next]_<<value, Waiters>>
<1>1. UNCHANGED <<queue, pos>> => Waiters' = Waiters
  BY DEF Waiters, Count, Slot
<1>2. value \in Nat
  BY SemaphoreAssumption DEF RingInv, OwnTypeOK
<1>3. CASE sem_wait \/ sem_trywait
  <2>1. CASE sem_wait /\ value = 0
    <3>1. value' = value
      BY <2>1 DEF sem_wait
    <3>2. Abstract!Wait(current_task) /\ current_task \in Tasks
      BY <2>1, <3>1, WaitersAppend DEF Abstract!Wait
    <3>3. QED
      BY <3>2 DEF Abstract!Next
  <2>2. CASE value > 0
    <3>1. value' = value - 1 /\ UNCHANGED <<queue, pos>>
      BY <1>3, <2>2 DEF sem_wait, sem_trywait
    <3>2. QED
      BY <1>1, <2>2, <3>1 DEF Abstract!Take, Abstract!Next
  <2>3. QED
    BY <1>2, <1>3, <2>1, <2>2 DEF sem_trywait
<1>4. CASE sem_post
  <2>1. value' = value + 1 /\ pos' = pos
    BY <1>4 DEF sem_post
  <2>2. RingInv'
    BY RingNext
  <2>3. ASSUME value = 0, NEW k \in Slots, FirstWaiter(k), queue' = [queue EXCEPT ![Slot(k)] = Empty]
        PROVE  Abstract!Post
    BY <2>1, <2>2, <2>3, WaitersTail DEF Abstract!Post
  <2>4. CASE value > 0 /\ UNCHANGED queue
    BY <1>1, <1>2, <2>1, <2>4 DEF Abstract!Post, Abstract!Next
  <2>5. CASE (\A i \in Slots : queue[i] = Empty) /\ UNCHANGED queue
    <3>1. Count = 0
      <4>1. {i \in Slots : queue[i] # Empty} = {}
        BY <2>5
      <4>2. QED
        BY <4>1, FS_EmptySet DEF Count
    <3>2. Waiters = << >>
      BY <3>1, WaitersAre DEF WaitersRight
    <3>3. QED
      BY <1>1, <2>1, <2>5, <3>2 DEF Abstract!Post, Abstract!Next
  <2>6. QED
    BY <1>4, <2>3, <2>4, <2>5 DEF sem_post, Abstract!Next
<1>5. CASE Kernel \/ UNCHANGED svars
  BY <1>1, <1>5 DEF Kernel, svars, semVars
<1>6. QED
  BY <1>3, <1>4, <1>5 DEF SemNext

\* The ring, pos and the scan from pos implement a first-in first-out queue of waiting
\* tasks, whatever the number of tasks.
THEOREM SemaphoreIsFifo == SemSpec => FifoOrder
<1>1. SemInit => Abstract!Init
  <2> SUFFICES ASSUME SemInit PROVE Abstract!Init
    OBVIOUS
  <2>1. {i \in Slots : queue[i] # Empty} = {}
    BY DEF SemInit, sem_init
  <2>2. Count = 0
    BY <2>1, FS_EmptySet DEF Count
  <2>3. Waiters = << >>
    BY <2>2, RingInit, WaitersAre DEF WaitersRight
  <2>4. QED
    BY <2>3 DEF SemInit, sem_init, Abstract!Init
<1>2. RingInv /\ IInv /\ [SemNext]_svars => [Abstract!Next]_<<value, Waiters>>
  BY SemImplements
<1>3. QED
  BY <1>1, <1>2, SemInvariance, PTL DEF SemSpec, FifoOrder, Abstract!Spec

-----------------------------------------------------------------------------
\* A blocked task is in the loop of sem_wait, and a task in the loop neither exits
\* nor is reaped.
InLoop ==
  /\ \A t \in Tasks : status[t] = "BLOCKED" => t \in waiting
  /\ \A t \in waiting : /\ pc[t] \in {"run", "resched"}
                        /\ status[t] \in {"READY", "RUNNING", "BLOCKED"}

\* scheduler reaps only a task that has finished.
LEMMA SchedulerKeepsLoop ==
  ASSUME IInv, scheduler, NEW t \in Tasks, status[t] \in {"READY", "RUNNING", "BLOCKED"}
  PROVE  status'[t] \in {"READY", "RUNNING", "BLOCKED"}
<1>1. current_task \in Tasks /\ status \in [Tasks -> Statuses]
  BY DEF IInv, TypeOK
<1>2. CASE Keep
  BY <1>2 DEF Keep
<1>3. CASE SwitchToIdle
  BY <1>1, <1>3 DEF SwitchToIdle, Reaped
<1>4. ASSUME NEW p \in Prios, SwitchToFirst(p)
      PROVE  status'[t] \in {"READY", "RUNNING", "BLOCKED"}
  BY <1>1, <1>4 DEF SwitchToFirst, Reaped
<1>5. QED
  BY <1>2, <1>3, <1>4 DEF scheduler

\* The rest of the kernel leaves the tasks in the loop alone.
LEMMA KernelKeepsLoop ==
  ASSUME IInv, waiting \subseteq Tasks, InLoop, Kernel
  PROVE  InLoop'
<1>1. /\ current_task \in Tasks /\ status \in [Tasks -> Statuses] /\ pc \in [Tasks -> PCs]
      /\ waiting' = waiting
  BY DEF IInv, TypeOK, Kernel, semVars
<1>2. \A t \in Tasks : status'[t] = "BLOCKED" => t \in waiting
  BY KernelBlocksNobody DEF InLoop
<1>3. SUFFICES ASSUME NEW t \in waiting
               PROVE  pc'[t] \in {"run", "resched"} /\ status'[t] \in {"READY", "RUNNING", "BLOCKED"}
  BY <1>1, <1>2 DEF InLoop
<1>4. t \in Tasks /\ pc[t] \in {"run", "resched"} /\ status[t] \in {"READY", "RUNNING", "BLOCKED"}
  BY DEF InLoop
<1>5. ASSUME NEW p \in Prios, create_kernel_task(p, TRUE)
      PROVE  pc'[t] \in {"run", "resched"} /\ status'[t] \in {"READY", "RUNNING", "BLOCKED"}
  <2>1. PICK i \in Tasks : /\ status[i] = "INVALID" /\ status' = [status EXCEPT ![i] = "READY"]
                           /\ pc' = [pc EXCEPT ![i] = "run"]
    BY <1>5 DEF create_kernel_task, create_task, FirstInvalid
  <2>2. QED
    BY <1>1, <1>4, <2>1
<1>6. CASE current_task \notin waiting /\ do_exit_count
  BY <1>1, <1>4, <1>6 DEF do_exit_count, tableVars
<1>7. CASE do_exit_finish
  BY <1>1, <1>4, <1>7 DEF do_exit_finish
<1>8. CASE reschedule
  <2>1. status'[t] \in {"READY", "RUNNING", "BLOCKED"}
    BY <1>4, <1>8, SchedulerKeepsLoop DEF reschedule
  <2>2. pc'[t] \in {"run", "resched"}
    BY <1>1, <1>4, <1>8 DEF reschedule
  <2>3. QED
    BY <2>1, <2>2
<1>9. CASE irq_leave
  <2>1. status'[t] \in {"READY", "RUNNING", "BLOCKED"}
    BY <1>4, <1>9, SchedulerKeepsLoop DEF irq_leave, tableVars
  <2>2. QED
    BY <1>4, <1>9, <2>1 DEF irq_leave
<1>10. CASE finish_task_switch \/ \E kind \in {"timer", "device"} : irq_enter(kind)
  BY <1>4, <1>10 DEF finish_task_switch, irq_enter, tableVars
<1>11. QED
  BY <1>5, <1>6, <1>7, <1>8, <1>9, <1>10 DEF Kernel

\* Every step preserves InLoop.
LEMMA LoopNext == RingInv /\ IInv /\ InLoop /\ [SemNext]_svars => InLoop'
<1> SUFFICES ASSUME RingInv, IInv, InLoop, [SemNext]_svars PROVE InLoop'
  OBVIOUS
<1>1. /\ current_task \in Tasks /\ status \in [Tasks -> Statuses] /\ pc \in [Tasks -> PCs]
      /\ waiting \subseteq Tasks
  BY DEF IInv, TypeOK, RingInv, OwnTypeOK
<1>2. CASE sem_wait
  <2>1. status[current_task] = "RUNNING"
    BY <1>2, RunningStatus DEF sem_wait
  <2>2. CASE value > 0
    BY <1>1, <1>2, <2>1, <2>2 DEF sem_wait, vars, tableVars, InLoop
  <2>3. CASE ~(value > 0)
    <3>1. /\ waiting' = waiting \cup {current_task} /\ pc' = [pc EXCEPT ![current_task] = "resched"]
          /\ status' = [status EXCEPT ![current_task] = "BLOCKED"]
      BY <1>2, <2>1, <2>3 DEF sem_wait, block_current_task
    <3>2. QED
      BY <1>1, <3>1 DEF InLoop
  <2>4. QED
    BY <2>2, <2>3
<1>3. CASE sem_trywait
  BY <1>3 DEF sem_trywait, vars, tableVars, InLoop
<1>4. CASE sem_post
  <2>1. waiting' = waiting
    BY <1>4 DEF sem_post
  <2>2. ASSUME NEW k \in Slots, FirstWaiter(k), Wake(queue[Slot(k)]) PROVE InLoop'
    BY <1>1, <2>1, <2>2 DEF Wake, wakeup_task, vars, tableVars, InLoop
  <2>3. CASE UNCHANGED <<queue, vars>>
    BY <2>1, <2>3 DEF vars, tableVars, InLoop
  <2>4. QED
    BY <1>4, <2>2, <2>3 DEF sem_post
<1>5. CASE Kernel
  BY <1>1, <1>5, KernelKeepsLoop
<1>6. CASE UNCHANGED svars
  BY <1>6 DEF svars, semVars, vars, tableVars, InLoop
<1>7. QED
  BY <1>2, <1>3, <1>4, <1>5, <1>6 DEF SemNext

\* The woken task is still on its way when the kernel does something else.
LEMMA StillWoken ==
  ASSUME NoLostWakeup, InLoop', value' = value, waiting' = waiting, waiting \subseteq Tasks,
         \A t \in Tasks : status'[t] = "BLOCKED" <=> status[t] = "BLOCKED"
  PROVE  NoLostWakeup'
<1> SUFFICES ASSUME value' > 0, NEW u \in Tasks, status'[u] = "BLOCKED"
             PROVE  \E t \in waiting : status'[t] \in {"READY", "RUNNING"}
  BY DEF NoLostWakeup
<1>1. PICK t \in waiting : status[t] \in {"READY", "RUNNING"}
  BY DEF NoLostWakeup
<1>2. status'[t] # "BLOCKED" /\ status'[t] \in {"READY", "RUNNING", "BLOCKED"}
  BY <1>1 DEF InLoop
<1>3. QED
  BY <1>2

\* Every step preserves OneUnitNotLost.
LEMMA OneUnitNext ==
  ASSUME RingInv, IInv, InLoop, InLoop', OneUnitNotLost, [SemNext]_svars
  PROVE  OneUnitNotLost'
<1>1. /\ value \in 0..use.bound /\ waiting \subseteq Tasks /\ use' = use
      /\ status \in [Tasks -> Statuses] /\ use.bound \in Nat
  <2>1. use' = use
    BY DEF SemNext, sem_wait, sem_trywait, sem_post, Kernel, semVars, svars
  <2>2. QED
    BY <2>1, SemaphoreAssumption DEF RingInv, OwnTypeOK, IInv, TypeOK
<1>2. SUFFICES ASSUME use.bound = 1 PROVE NoLostWakeup'
  BY <1>1 DEF OneUnitNotLost
<1>3. NoLostWakeup /\ value \in 0..1
  BY <1>1, <1>2 DEF OneUnitNotLost
<1>4. CASE sem_wait \/ sem_trywait
  <2>1. ~(value' > 0)
    BY <1>3, <1>4 DEF sem_wait, sem_trywait
  <2>2. QED
    BY <2>1 DEF NoLostWakeup
<1>5. CASE sem_post
  <2>1. waiting' = waiting /\ value = 0
    BY <1>2, <1>3, <1>5 DEF sem_post
  <2>2. ASSUME NEW k \in Slots, FirstWaiter(k), Wake(queue[Slot(k)]) PROVE NoLostWakeup'
    <3> DEFINE t == queue[Slot(k)]
    <3>1. Slot(k) \in Slots /\ t \in Tasks
      BY <2>2, SlotIsBack, SemConstants DEF RingInv, OwnTypeOK, FirstWaiter
    <3>2. status[t] = "BLOCKED"
      BY <3>1 DEF RingInv, WaitersBlocked
    <3>3. t \in waiting /\ status'[t] = "READY"
      BY <1>1, <2>2, <3>1, <3>2 DEF Wake, wakeup_task, InLoop
    <3>4. QED
      BY <2>1, <3>3 DEF NoLostWakeup
  <2>3. CASE (\A i \in Slots : queue[i] = Empty) /\ UNCHANGED vars
    <3>1. \A t \in Tasks : status'[t] # "BLOCKED"
      BY <2>3, SemConstants DEF RingInv, WaitersBlocked, vars, tableVars
    <3>2. QED
      BY <3>1 DEF NoLostWakeup
  <2>4. QED
    BY <1>5, <2>1, <2>2, <2>3 DEF sem_post
<1>6. CASE Kernel
  BY <1>1, <1>3, <1>6, KernelBlocksNobody, StillWoken DEF Kernel, semVars
<1>7. CASE UNCHANGED svars
  BY <1>3, <1>7 DEF svars, semVars, vars, tableVars, NoLostWakeup
<1>8. QED
  BY <1>4, <1>5, <1>6, <1>7 DEF SemNext

\* With one unit, as in a mutex, no task stays blocked while the unit is free unless
\* a task that was woken for it is on its way: whatever the number of tasks, their
\* priorities, and whoever takes the unit before the woken task gets the processor.
THEOREM OneUnitSuffices == SemSpec => []OneUnitNotLost
<1>1. SemInit => InLoop /\ OneUnitNotLost
  BY DEF SemInit, Init, InLoop, OneUnitNotLost, NoLostWakeup
<1>2. IInv /\ RingInv /\ InLoop /\ [SemNext]_svars => InLoop'
  BY LoopNext
<1>3. IInv /\ RingInv /\ InLoop /\ InLoop' /\ OneUnitNotLost /\ [SemNext]_svars => OneUnitNotLost'
  BY OneUnitNext
<1>4. QED
  BY <1>1, <1>2, <1>3, SemInvariance, PTL DEF SemSpec
=============================================================================
