------------------------------ MODULE Scheduler ------------------------------
(***************************************************************************)
(* The task table and the ready queues of kernel/tasks.c, together with    *)
(* the interrupt path that drives them (arch/x86/kernel/irq.c) and the     *)
(* context switch of arch/x86/kernel/entry.asm, on the one processor that  *)
(* eduOS runs on.                                                          *)
(*                                                                         *)
(* Every C function that runs with interrupts disabled is one action.  An  *)
(* interrupt may arrive wherever interrupts are enabled: that is, in       *)
(* context "task", between any two actions.  The clients are left open:    *)
(* the running task may call any function of the interface at any time,    *)
(* in the order in which sem_wait and do_exit call them.                   *)
(***************************************************************************)
EXTENDS Integers, Sequences, FiniteSets

CONSTANTS
  MAX_TASKS,    \* slots of task_table
  MAX_PRIO,     \* highest priority
  NORMAL_PRIO,  \* what create_kernel_task replaces an invalid priority by
  TIMER_VECTOR  \* interrupt number of the periodic timer: 32 (PIC), 123 (APIC)

ASSUME SchedulerAssumption ==
  /\ MAX_TASKS \in Nat \ {0}
  /\ MAX_PRIO \in Nat \ {0}
  /\ NORMAL_PRIO \in 1..MAX_PRIO
  /\ TIMER_VECTOR \in {32, 123}

Tasks == 0..(MAX_TASKS - 1)
Idle == 0                    \* readyqueues.idle is task_table+0
IDLE_PRIO == 0
Prios == 1..MAX_PRIO         \* readyqueues.queue[prio-1]
NULL == -1
Pointers == Tasks \cup {NULL}

VARIABLES
  status,        \* task_table[t].status
  prio,          \* task_table[t].prio
  next,          \* task_table[t].next
  prev,          \* task_table[t].prev
  first,         \* readyqueues.queue[p-1].first
  last,          \* readyqueues.queue[p-1].last
  prio_bitmap,   \* readyqueues.prio_bitmap, as the set of its one bits
  nr_tasks,      \* readyqueues.nr_tasks
  old_task,      \* readyqueues.old_task
  current_task,
  pc,            \* where task t stands in sem_wait or do_exit
  ctx            \* what the processor is doing

tableVars == <<status, prio, next, prev>>
queueVars == <<first, last, prio_bitmap, nr_tasks, old_task>>
vars == <<tableVars, queueVars, current_task, pc, ctx>>

Statuses == {"INVALID", "READY", "RUNNING", "BLOCKED", "FINISHED", "IDLE"}

\* "run": in none of the multi-step operations.  "resched": block_current_task
\* has returned, reschedule is next.  "dying": do_exit has left nr_tasks.
\* "dead": do_exit has set TASK_FINISHED.  "nomem": a slot that create_task
\* claimed before get_pages failed.
PCs == {"run", "resched", "dying", "dead", "nomem"}

\* "task": the code of current_task, interrupts enabled.  "timer", "device":
\* inside irq_handler.  "switch": scheduler has returned a stack, and the
\* context switch has not reached finish_task_switch.
Contexts == {"task", "timer", "device", "switch"}

TypeOK ==
  /\ status \in [Tasks -> Statuses]
  /\ prio \in [Tasks -> 0..MAX_PRIO]
  /\ next \in [Tasks -> Pointers]
  /\ prev \in [Tasks -> Pointers]
  /\ first \in [Prios -> Pointers]
  /\ last \in [Prios -> Pointers]
  /\ prio_bitmap \in SUBSET Prios
  /\ nr_tasks \in Int
  /\ old_task \in Pointers
  /\ current_task \in Tasks
  /\ pc \in [Tasks -> PCs]
  /\ ctx \in Contexts

(***************************************************************************)
(* The state after multitasking_init: only the idle task, which executes   *)
(* main.                                                                   *)
(***************************************************************************)
Init ==
  /\ status = [t \in Tasks |-> IF t = Idle THEN "IDLE" ELSE "INVALID"]
  /\ prio = [t \in Tasks |-> IDLE_PRIO]
  /\ next = [t \in Tasks |-> NULL]
  /\ prev = [t \in Tasks |-> NULL]
  /\ first = [p \in Prios |-> NULL]
  /\ last = [p \in Prios |-> NULL]
  /\ prio_bitmap = {}
  /\ nr_tasks = 0
  /\ old_task = NULL
  /\ current_task = Idle
  /\ pc = [t \in Tasks |-> "run"]
  /\ ctx = "task"

-----------------------------------------------------------------------------
\* Faulty variants of the insertion: last is not advanced past the new task;
\* the new task is inserted at the head.
EnqueueKeepsLast(t, p, empty) ==
  /\ first' = [first EXCEPT ![p] = IF empty THEN t ELSE @]
  /\ last' = [last EXCEPT ![p] = IF empty THEN t ELSE @]
  /\ next' = IF empty THEN [next EXCEPT ![t] = NULL]
             ELSE [next EXCEPT ![t] = NULL, ![last[p]] = t]
  /\ prev' = [prev EXCEPT ![t] = IF empty THEN NULL ELSE last[p]]

EnqueueAtHead(t, p, empty) ==
  /\ first' = [first EXCEPT ![p] = t]
  /\ last' = [last EXCEPT ![p] = IF empty THEN t ELSE @]
  /\ next' = [next EXCEPT ![t] = first[p]]
  /\ prev' = IF empty THEN [prev EXCEPT ![t] = NULL]
             ELSE [prev EXCEPT ![t] = NULL, ![first[p]] = t]

(***************************************************************************)
(* The tail insertion that create_task, wakeup_task and finish_task_switch *)
(* each spell out; they differ in how they tell that the queue is empty.   *)
(***************************************************************************)
Enqueue(t, p, empty) ==
  /\ first' = [first EXCEPT ![p] = IF empty THEN t ELSE @]
  /\ last' = [last EXCEPT ![p] = t]
  /\ next' = IF empty THEN [next EXCEPT ![t] = NULL]
             ELSE [next EXCEPT ![t] = NULL, ![last[p]] = t]
  /\ prev' = [prev EXCEPT ![t] = IF empty THEN NULL ELSE last[p]]

(***************************************************************************)
(* create_task claims the first free slot.  When get_pages finds no frame  *)
(* for the page table the slot stays TASK_READY and is never queued.       *)
(***************************************************************************)
FirstInvalid(i) ==
  status[i] = "INVALID" /\ \A j \in Tasks : status[j] = "INVALID" => i <= j

create_task(p, got_pages) ==
  /\ p # IDLE_PRIO
  /\ p <= MAX_PRIO
  /\ \E i \in Tasks :
       /\ FirstInvalid(i)
       /\ status' = [status EXCEPT ![i] = "READY"]
       /\ prio' = [prio EXCEPT ![i] = p]
       /\ \/ /\ got_pages
             /\ prio_bitmap' = prio_bitmap \cup {p}
             /\ nr_tasks' = nr_tasks + 1
             /\ Enqueue(i, p, first[p] = NULL)
             /\ pc' = [pc EXCEPT ![i] = "run"]
          \/ /\ ~got_pages
             /\ pc' = [pc EXCEPT ![i] = "nomem"]
             /\ UNCHANGED <<next, prev, first, last, prio_bitmap, nr_tasks>>
  /\ UNCHANGED <<old_task, current_task, ctx>>

create_kernel_task(p, got_pages) ==
  /\ ctx = "task"
  /\ pc[current_task] = "run"
  /\ create_task(IF p > MAX_PRIO THEN NORMAL_PRIO ELSE p, got_pages)

(***************************************************************************)
(* wakeup_task is called by sem_post, from a task or from the handler of a *)
(* device interrupt.                                                       *)
(***************************************************************************)
\* Faulty variant: a priority whose queue was empty does not get its bit.
WakeupWithoutBit(t) ==
  /\ ctx = "device" \/ (ctx = "task" /\ pc[current_task] = "run")
  /\ status[t] = "BLOCKED"
  /\ status' = [status EXCEPT ![t] = "READY"]
  /\ nr_tasks' = nr_tasks + 1
  /\ Enqueue(t, prio[t], last[prio[t]] = NULL)
  /\ UNCHANGED <<prio, prio_bitmap, old_task, current_task, pc, ctx>>

wakeup_task(t) ==
  /\ ctx = "device" \/ (ctx = "task" /\ pc[current_task] = "run")
  /\ status[t] = "BLOCKED"
  /\ status' = [status EXCEPT ![t] = "READY"]
  /\ nr_tasks' = nr_tasks + 1
  /\ Enqueue(t, prio[t], last[prio[t]] = NULL)
  /\ prio_bitmap' = IF last[prio[t]] = NULL
                    THEN prio_bitmap \cup {prio[t]} ELSE prio_bitmap
  /\ UNCHANGED <<prio, old_task, current_task, pc, ctx>>

(***************************************************************************)
(* block_current_task unlinks the task from its queue, although a running  *)
(* task is in none.  Its only caller, sem_wait, calls reschedule next,     *)
(* also when the task was not TASK_RUNNING and nothing has changed.        *)
(***************************************************************************)
Unlink(t, p) ==
  LET n == next[t]
      v == prev[t]
      f == IF first[p] = t THEN n ELSE first[p]
  IN /\ next' = IF v = NULL THEN next ELSE [next EXCEPT ![v] = n]
     /\ prev' = IF n = NULL THEN prev ELSE [prev EXCEPT ![n] = v]
     /\ first' = [first EXCEPT ![p] = f]
     /\ last' = [last EXCEPT ![p] =
                   IF @ # t THEN @ ELSE IF v = NULL THEN f ELSE v]
     /\ prio_bitmap' = IF f = NULL THEN prio_bitmap \ {p} ELSE prio_bitmap

block_current_task ==
  /\ ctx = "task"
  /\ pc[current_task] = "run"
  /\ pc' = [pc EXCEPT ![current_task] = "resched"]
  /\ \/ /\ status[current_task] = "RUNNING"
        /\ status' = [status EXCEPT ![current_task] = "BLOCKED"]
        /\ nr_tasks' = nr_tasks - 1
        /\ Unlink(current_task, prio[current_task])
     \/ /\ status[current_task] # "RUNNING"
        /\ UNCHANGED <<status, nr_tasks, next, prev, first, last, prio_bitmap>>
  /\ UNCHANGED <<prio, old_task, current_task, ctx>>

-----------------------------------------------------------------------------
(***************************************************************************)
(* scheduler.  The priority it serves is the most significant bit of       *)
(* prio_bitmap; of an empty bitmap msb returns the width of a word, which  *)
(* is above MAX_PRIO.  It returns a stack, and the context switch follows, *)
(* exactly when current_task changes.                                      *)
(***************************************************************************)
Highest(p) == p \in prio_bitmap /\ \A q \in prio_bitmap : q <= p

\* Faulty variant: TASK_FINISHED is never turned into TASK_INVALID.
NeverReaped == status[current_task]

\* The status of the current task once TASK_FINISHED is made TASK_INVALID.
Reaped == IF status[current_task] = "FINISHED" THEN "INVALID"
          ELSE status[current_task]

Keep ==
  /\ \/ prio_bitmap = {} /\ status[current_task] \in {"RUNNING", "IDLE"}
     \/ /\ status[current_task] = "RUNNING"
        /\ \E p \in Prios : Highest(p) /\ prio[current_task] > p
  /\ old_task' = NULL
  /\ ctx' = "task"
  /\ UNCHANGED <<status, next, prev, first, last, prio_bitmap, current_task>>

\* Faulty variant: readyqueues.idle has not been set.
SwitchToNoIdle ==
  /\ prio_bitmap = {}
  /\ status[current_task] \notin {"RUNNING", "IDLE"}
  /\ status' = [status EXCEPT ![current_task] = Reaped]
  /\ old_task' = IF Reaped = "INVALID" THEN current_task ELSE NULL
  /\ current_task' = NULL
  /\ ctx' = "switch"
  /\ UNCHANGED <<next, prev, first, last, prio_bitmap>>

SwitchToIdle ==
  /\ prio_bitmap = {}
  /\ status[current_task] \notin {"RUNNING", "IDLE"}
  /\ status' = [status EXCEPT ![current_task] = Reaped]
  /\ old_task' = IF Reaped = "INVALID" THEN current_task ELSE NULL
  /\ current_task' = Idle
  /\ ctx' = "switch"
  /\ UNCHANGED <<next, prev, first, last, prio_bitmap>>

SwitchToFirst(p) ==
  LET new == first[p]
      preempted == status[current_task] = "RUNNING"
  IN /\ Highest(p)
     /\ ~(preempted /\ prio[current_task] > p)
     /\ status' = [status EXCEPT
                     ![current_task] = IF preempted THEN "READY" ELSE Reaped,
                     ![new] = "RUNNING"]
     /\ old_task' = IF preempted \/ Reaped = "INVALID"
                    THEN current_task ELSE NULL
     /\ current_task' = new
     /\ first' = [first EXCEPT ![p] = next[new]]
     /\ last' = [last EXCEPT ![p] = IF next[new] = NULL THEN NULL ELSE @]
     /\ prio_bitmap' = IF next[new] = NULL
                       THEN prio_bitmap \ {p} ELSE prio_bitmap
     /\ next' = [next EXCEPT ![new] = NULL]
     /\ prev' = [prev EXCEPT ![new] = NULL]
     /\ ctx' = IF new = current_task THEN "task" ELSE "switch"

scheduler ==
  /\ Keep \/ SwitchToIdle \/ \E p \in Prios : SwitchToFirst(p)
  /\ UNCHANGED <<prio, nr_tasks>>

(***************************************************************************)
(* The new task, on its own stack, puts a preempted predecessor at the end *)
(* of its queue.  Interrupts stay disabled until it returns.               *)
(***************************************************************************)
\* Faulty variant: old_task is not reset.
FinishKeepsOldTask ==
  /\ ctx = "switch"
  /\ ctx' = "task"
  /\ IF old_task # NULL /\ status[old_task] # "INVALID"
     THEN /\ Enqueue(old_task, prio[old_task], first[prio[old_task]] = NULL)
          /\ prio_bitmap' = prio_bitmap \cup {prio[old_task]}
     ELSE UNCHANGED <<next, prev, first, last, prio_bitmap>>
  /\ UNCHANGED <<status, prio, nr_tasks, old_task, current_task, pc>>

finish_task_switch ==
  /\ ctx = "switch"
  /\ ctx' = "task"
  /\ old_task' = NULL
  /\ IF old_task # NULL /\ status[old_task] # "INVALID"
     THEN /\ Enqueue(old_task, prio[old_task], first[prio[old_task]] = NULL)
          /\ prio_bitmap' = prio_bitmap \cup {prio[old_task]}
     ELSE UNCHANGED <<next, prev, first, last, prio_bitmap>>
  /\ UNCHANGED <<status, prio, nr_tasks, current_task, pc>>

(***************************************************************************)
(* reschedule, called by sem_wait after block_current_task and by do_exit. *)
(***************************************************************************)
reschedule ==
  /\ ctx = "task"
  /\ pc[current_task] \in {"resched", "dead"}
  /\ scheduler
  /\ pc' = [pc EXCEPT ![current_task] = IF @ = "dead" THEN "dead" ELSE "run"]

(***************************************************************************)
(* do_exit: the two steps before reschedule, each of which an interrupt    *)
(* may precede.  The idle task never leaves main.                          *)
(***************************************************************************)
\* Faulty variant: an exiting task is not subtracted from nr_tasks.
ExitUncounted ==
  /\ ctx = "task"
  /\ current_task # Idle
  /\ pc[current_task] = "run"
  /\ pc' = [pc EXCEPT ![current_task] = "dying"]
  /\ UNCHANGED <<tableVars, queueVars, current_task, ctx>>

do_exit_count ==
  /\ ctx = "task"
  /\ current_task # Idle
  /\ pc[current_task] = "run"
  /\ nr_tasks' = nr_tasks - 1
  /\ pc' = [pc EXCEPT ![current_task] = "dying"]
  /\ UNCHANGED <<tableVars, first, last, prio_bitmap, old_task, current_task,
                 ctx>>

do_exit_finish ==
  /\ ctx = "task"
  /\ pc[current_task] = "dying"
  /\ status' = [status EXCEPT ![current_task] = "FINISHED"]
  /\ pc' = [pc EXCEPT ![current_task] = "dead"]
  /\ UNCHANGED <<prio, next, prev, queueVars, current_task, ctx>>

-----------------------------------------------------------------------------
(***************************************************************************)
(* irq_handler.  The handler of a device may wake tasks before the         *)
(* interrupt is left.  Leaving interrupt 32 always calls scheduler; leaving*)
(* any other one does only for a higher priority than the current task's,  *)
(* which an empty bitmap counts as.                                        *)
(***************************************************************************)
irq_enter(kind) ==
  /\ ctx = "task"
  /\ ctx' = kind
  /\ UNCHANGED <<tableVars, queueVars, current_task, pc>>

int_no_is_32 == ctx = "timer" /\ TIMER_VECTOR = 32

\* Faulty variant: a ready task must lead by more than one priority.
MuchHigherPriority ==
  prio_bitmap = {} \/ \E p \in prio_bitmap : p > prio[current_task] + 1

higher_priority ==
  prio_bitmap = {} \/ \E p \in prio_bitmap : p > prio[current_task]

irq_leave ==
  /\ ctx \in {"timer", "device"}
  /\ \/ /\ int_no_is_32 \/ higher_priority
        /\ scheduler
        /\ UNCHANGED pc
     \/ /\ ~(int_no_is_32 \/ higher_priority)
        /\ ctx' = "task"
        /\ UNCHANGED <<tableVars, queueVars, current_task, pc>>

-----------------------------------------------------------------------------
Next ==
  \/ \E p \in 0..(MAX_PRIO + 1), ok \in BOOLEAN : create_kernel_task(p, ok)
  \/ \E t \in Tasks : wakeup_task(t)
  \/ block_current_task
  \/ reschedule
  \/ do_exit_count
  \/ do_exit_finish
  \/ finish_task_switch
  \/ \E kind \in {"timer", "device"} : irq_enter(kind)
  \/ irq_leave

Spec == Init /\ [][Next]_vars

\* The processor leaves every interrupt and every context switch, and each task
\* that keeps getting the processor executes the straight-line code of sem_wait
\* and do_exit.  The periodic timer keeps interrupting: its interrupt stays pending until
\* interrupts are enabled.  Nothing else is assumed of the tasks: one that is
\* running may run for ever.
Fairness ==
  /\ WF_vars(irq_leave)
  /\ WF_vars(finish_task_switch)
  /\ SF_vars(irq_enter("timer"))
  /\ \A t \in Tasks : SF_vars(current_task = t /\ (reschedule \/ do_exit_finish))

FairSpec == Spec /\ Fairness

-----------------------------------------------------------------------------
(***************************************************************************)
(* Properties.                                                             *)
(***************************************************************************)

\* Task t belongs in ready queue p: it is ready, create_task completed it,
\* and it is not the preempted task that finish_task_switch is to insert.
Queued(t, p) ==
  /\ status[t] = "READY"
  /\ prio[t] = p
  /\ pc[t] # "nomem"
  /\ t # old_task

\* The list s, without repetition, as first, last and next pointers hold it.
List(s, f, l, nx) ==
  /\ \A i, j \in 1..Len(s) : s[i] = s[j] => i = j
  /\ f = IF Len(s) = 0 THEN NULL ELSE s[1]
  /\ l = IF Len(s) = 0 THEN NULL ELSE s[Len(s)]
  /\ \A i \in 1..Len(s) : nx[s[i]] = IF i = Len(s) THEN NULL ELSE s[i + 1]

\* Queue p is the list s of exactly the tasks that belong in it.
IsList(p, s) ==
  /\ List(s, first[p], last[p], next)
  /\ \A t \in Tasks : Queued(t, p) <=> \E i \in 1..Len(s) : s[i] = t

TaskSeqs == UNION {[1..n -> Tasks \ {Idle}] : n \in 0..(MAX_TASKS - 1)}

\* Every ready queue is a NULL-terminated list without repetition, from first
\* to last, of exactly the ready tasks of its priority: no interleaving of
\* wakeups, blocking, exits and preemptions loses a task, queues it twice or
\* leaves a task that is not ready in a queue.
QueuesAreLists == \A p \in Prios : \E s \in TaskSeqs : IsList(p, s)

\* The bit of a priority is set exactly while its queue has a task, so the
\* scheduler neither follows a NULL first pointer nor overlooks a ready task.
BitmapExact == prio_bitmap = {p \in Prios : first[p] # NULL}

\* Only current_task is TASK_RUNNING, and it is linked into no queue.  It has
\* another status only on its way into reschedule, never once the processor has
\* switched to it.  Only the current task is TASK_FINISHED, and a task that has
\* been reaped does not come back.  old_task is a task that has just lost the
\* processor, until finish_task_switch deals with it.
TaskStates ==
  /\ \A t \in Tasks :
       /\ status[t] = "IDLE" <=> t = Idle
       /\ status[t] = "RUNNING" => t = current_task
       /\ status[t] = "FINISHED" => t = current_task
       /\ status[t] \notin {"IDLE", "INVALID"} => prio[t] \in Prios
       /\ pc[t] = "nomem" => status[t] = "READY" /\ t # current_task
       /\ pc[t] = "dying" => status[t] \in {"READY", "RUNNING"}
       /\ pc[t] = "dead" => status[t] \in {"FINISHED", "INVALID"}
       /\ status[t] = "FINISHED" => pc[t] = "dead"
       /\ status[t] = "BLOCKED" => pc[t] \in {"run", "resched"}
  /\ prio[Idle] = IDLE_PRIO /\ pc[Idle] \in {"run", "resched"}
  /\ status[current_task] = "RUNNING" =>
       next[current_task] = NULL /\ prev[current_task] = NULL
  /\ \/ status[current_task] \in {"RUNNING", "IDLE"}
     \/ /\ ctx # "switch"
        /\ pc[current_task] = "resched" /\ status[current_task] # "INVALID"
     \/ /\ ctx # "switch"
        /\ pc[current_task] = "dead" /\ status[current_task] = "FINISHED"
  /\ old_task # NULL =>
       /\ ctx = "switch" /\ old_task # current_task
       /\ status[old_task] \in {"READY", "INVALID"} /\ pc[old_task] # "nomem"

\* The tasks that are queued, running or about to be queued, except one that
\* do_exit has already subtracted.
ActiveTasks ==
  {t \in Tasks : status[t] \in {"READY", "RUNNING"} /\ pc[t] \in {"run", "resched"}}

\* nr_tasks is the number of active tasks, although it is incremented and
\* decremented in four functions that interrupts separate.
NrTasksExact == nr_tasks = Cardinality(ActiveTasks)

\* Whenever an interrupt or a context switch returns to a running task, no task
\* of a higher priority is ready: irq_handler and scheduler together make the
\* priorities strict.
StrictPriorityStep ==
  ctx # "task" /\ ctx' = "task" /\ status'[current_task'] = "RUNNING" =>
    \A t \in Tasks, p \in Prios : Queued(t, p)' => p <= prio'[current_task']

StrictPriority == [][StrictPriorityStep]_vars

\* create_task reuses a slot only when its task has left the processor for
\* good: an exiting task is still on its stack until the switch away from it
\* has ended.
NoEarlyReuseStep ==
  \A t \in Tasks : status[t] = "INVALID" /\ status'[t] # "INVALID" =>
     ctx = "task" /\ t # current_task /\ t # old_task

NoEarlyReuse == [][NoEarlyReuseStep]_vars

\* Round robin: a ready task that no task of higher priority keeps from the
\* processor gets it, because leaving a timer interrupt preempts also for an
\* equal priority.
RoundRobin ==
  \A t \in Tasks, p \in Prios :
    (Queued(t, p) /\ [](prio[t] = p /\ \A u \in Tasks :
        prio[u] > p => status[u] \in {"INVALID", "BLOCKED"}))
      ~> (current_task = t)
=============================================================================
