------------------------------ MODULE Semaphore ------------------------------
(***************************************************************************)
(* One semaphore of include/eduos/semaphore.h, used by tasks that the      *)
(* scheduler of kernel/tasks.c runs.                                       *)
(*                                                                         *)
(* The body of each operation runs under an irqsave spinlock, that is with *)
(* interrupts disabled on the only processor: it is one action.  sem_wait  *)
(* releases the lock before reschedule, so an interrupt may fall between   *)
(* the two, and it tries again whenever reschedule returns.                *)
(***************************************************************************)
EXTENDS Scheduler

CONSTANTS
  Uses   \* the ways in which a semaphore is used.  units: the argument v of
         \* sem_init.  bound: a bound on value, no post is modelled beyond it.
         \* pool: only a task that took a unit gives one back; otherwise anyone
         \* posts, interrupt handlers included

ASSUME SemaphoreAssumption ==
  \A u \in Uses : /\ u.units \in Nat /\ u.bound \in Nat /\ u.units <= u.bound
                  /\ u.pool \in BOOLEAN

VARIABLES
  use,      \* how this semaphore is used
  value,    \* sem_t.value
  queue,    \* sem_t.queue
  pos,      \* sem_t.pos
  waiting,  \* the tasks inside the loop of sem_wait
  held      \* how many units each task has taken and not given back

semVars == <<use, value, queue, pos, waiting, held>>
svars == <<vars, semVars>>

Slots == 0..(MAX_TASKS - 1)
Empty == MAX_TASKS   \* the identifier that no task has

SemTypeOK ==
  /\ TypeOK
  /\ use \in Uses
  /\ value \in 0..use.bound
  /\ queue \in [Slots -> Tasks \cup {Empty}]
  /\ pos \in Slots
  /\ waiting \in SUBSET Tasks
  /\ held \in [Tasks -> Nat]

sem_init ==
  /\ value = use.units
  /\ queue = [i \in Slots |-> Empty]
  /\ pos = 0

SemInit ==
  /\ Init
  /\ use \in Uses
  /\ sem_init
  /\ waiting = {}
  /\ held = [t \in Tasks |-> 0]

-----------------------------------------------------------------------------
\* The current task executes its own code, outside the semaphore's operations.
Running == ctx = "task" /\ pc[current_task] = "run"

\* Faulty variant: pos is not advanced.
PosStuck == pos

\* Where the next waiter's slot is.
NextPos == (pos + 1) % MAX_TASKS

\* One pass of the loop of sem_wait.  main, which the idle task executes, does
\* not use semaphores.
sem_wait ==
  /\ Running
  /\ current_task # Idle
  /\ \/ /\ value > 0
        /\ value' = value - 1
        /\ waiting' = waiting \ {current_task}
        /\ held' = [held EXCEPT ![current_task] = IF use.pool THEN @ + 1 ELSE 0]
        /\ UNCHANGED <<use, queue, pos, vars>>
     \/ /\ value = 0
        /\ queue' = [queue EXCEPT ![pos] = current_task]
        /\ pos' = NextPos
        /\ waiting' = waiting \cup {current_task}
        /\ block_current_task
        /\ UNCHANGED <<use, value, held>>

sem_trywait ==
  /\ Running
  /\ current_task # Idle
  /\ current_task \notin waiting
  /\ value > 0
  /\ value' = value - 1
  /\ held' = [held EXCEPT ![current_task] = IF use.pool THEN @ + 1 ELSE 0]
  /\ UNCHANGED <<use, queue, pos, waiting, vars>>

\* The slot at distance k from pos, and the first occupied one: the loop of
\* sem_post.
Slot(k) == (pos + k) % MAX_TASKS

\* Faulty variant: the scan finds the youngest waiter.
LastWaiter(k) ==
  /\ queue[Slot(k)] # Empty
  /\ \A j \in (k + 1)..(MAX_TASKS - 1) : queue[Slot(j)] = Empty

FirstWaiter(k) ==
  /\ queue[Slot(k)] # Empty
  /\ \A j \in 0..(k - 1) : queue[Slot(j)] = Empty

\* Faulty variant: the waiter's slot is cleared and the task is not woken.
WakeNobody(t) == UNCHANGED vars

\* wakeup_task does nothing for a task that is not TASK_BLOCKED.
Wake(t) == IF status[t] = "BLOCKED" THEN wakeup_task(t) ELSE UNCHANGED vars

sem_post ==
  /\ \/ Running /\ current_task # Idle /\ current_task \notin waiting
     \/ ctx = "device" /\ ~use.pool
  /\ value < use.bound
  /\ use.pool => held[current_task] > 0
  /\ held' = [held EXCEPT ![current_task] = IF use.pool THEN @ - 1 ELSE 0]
  /\ value' = value + 1
  /\ \/ /\ value = 0
        /\ \E k \in Slots :
             /\ FirstWaiter(k)
             /\ queue' = [queue EXCEPT ![Slot(k)] = Empty]
             /\ Wake(queue[Slot(k)])
     \/ /\ value > 0 \/ \A i \in Slots : queue[i] = Empty
        /\ UNCHANGED <<queue, vars>>
  /\ UNCHANGED <<use, pos, waiting>>

-----------------------------------------------------------------------------
\* The rest of the kernel: tasks are created and exit outside the semaphore's
\* operations and without units of it; interrupts arrive at any time.
Kernel ==
  /\ \/ \E p \in Prios : current_task \notin waiting /\ create_kernel_task(p, TRUE)
     \/ current_task \notin waiting /\ held[current_task] = 0 /\ do_exit_count
     \/ do_exit_finish
     \/ reschedule
     \/ finish_task_switch
     \/ \E kind \in {"timer", "device"} : irq_enter(kind)
     \/ irq_leave
  /\ UNCHANGED semVars

SemNext == sem_wait \/ sem_trywait \/ sem_post \/ Kernel

SemSpec == SemInit /\ [][SemNext]_svars

\* A task inside sem_wait executes it whenever it has the processor; see
\* Scheduler for the rest.
SemFairness ==
  /\ WF_svars(irq_leave /\ UNCHANGED semVars)
  /\ WF_svars(finish_task_switch /\ UNCHANGED semVars)
  /\ SF_svars(irq_enter("timer") /\ UNCHANGED semVars)
  /\ \A t \in Tasks :
       SF_svars(current_task = t /\
                  \/ (reschedule \/ do_exit_finish) /\ UNCHANGED semVars
                  \/ t \in waiting /\ sem_wait)

FairSemSpec == SemSpec /\ SemFairness

-----------------------------------------------------------------------------
(***************************************************************************)
(* Properties.                                                             *)
(***************************************************************************)

\* The ring holds exactly the tasks that block_current_task has blocked, each
\* once: no waiter's slot is overwritten by a later one, although slots are
\* written at pos and cleared where the scan of sem_post finds them, and no
\* wakeup is spent on a task that is not blocked.
WaitersBlocked ==
  /\ \A t \in Tasks : status[t] = "BLOCKED" <=> \E i \in Slots : queue[i] = t
  /\ \A i, j \in Slots : queue[i] = queue[j] /\ queue[i] # Empty => i = j

\* The waiting tasks in the order of the scan of sem_post, which meets them last:
\* they occupy the slots just behind pos.
Count == Cardinality({i \in Slots : queue[i] # Empty})
Waiters == [k \in 1..Count |-> queue[Slot(MAX_TASKS - Count + k - 1)]]

Abstract == INSTANCE FifoSemaphore WITH
  Waiter <- Tasks, Resources <- {u.units : u \in Uses}, waiters <- Waiters

\* The ring, pos and the scan from pos implement a first-in first-out queue of
\* waiting tasks.
FifoOrder == Abstract!Spec

\* A task is left blocked in sem_wait only while no unit is available, or while
\* a woken task is on its way to take the available one.
NoLostWakeup ==
  value > 0 /\ (\E t \in Tasks : status[t] = "BLOCKED") =>
    \E t \in waiting : status[t] \in {"READY", "RUNNING"}

\* With one unit, as in a mutex, no wakeup is lost.
OneUnitNotLost == use.bound = 1 => NoLostWakeup

SamePrio == \A t, u \in Tasks \ {Idle} :
  status[t] # "INVALID" /\ status[u] # "INVALID" => prio[t] = prio[u]

\* A unit that is given back while tasks wait for it is taken again: the woken
\* task reaches the semaphore, or another task takes the unit before it.  This is
\* for one unit, and as long as all tasks have the same priority.
Handover ==
  use.bound = 1 /\ use.pool /\ []SamePrio => ((value > 0 /\ waiting # {}) ~> (value = 0))
=============================================================================
