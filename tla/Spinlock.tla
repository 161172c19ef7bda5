------------------------------- MODULE Spinlock -------------------------------
(***************************************************************************)
(* One ticket lock spinlock_t of include/eduos/spinlock.h, used by tasks   *)
(* that the scheduler of kernel/tasks.c preempts.  Every access to the     *)
(* lock's shared fields is one action, so that a timer interrupt may take  *)
(* the processor away between any two of them.                             *)
(*                                                                         *)
(* The kernel takes such locks with interrupts enabled ("task": the file   *)
(* nodes of fs/fs.c, the VMA lists of mm/vma.c) and, bitmap_lock of        *)
(* mm/memory.c, also inside page_fault_handler ("fault"), which runs       *)
(* behind an interrupt gate, that is with interrupts disabled.             *)
(***************************************************************************)
EXTENDS Scheduler

CONSTANTS
  TICKETS,    \* number of values of the counters: 2^32 in the code
  MaxNest,    \* bound on nested acquisitions by one task
  LockModes   \* the contexts in which this lock is taken

ASSUME SpinlockAssumption ==
  /\ TICKETS \in Nat \ {0}
  /\ MAX_TASKS <= TICKETS
  /\ MaxNest \in Nat \ {0}
  /\ LockModes \subseteq {"task", "fault"}

VARIABLES
  queue,    \* spinlock_t.queue
  dequeue,  \* spinlock_t.dequeue
  owner,    \* spinlock_t.owner
  counter,  \* spinlock_t.counter
  ticket,   \* the local variable ticket of each task
  lpc,      \* where each task stands in spinlock_lock or spinlock_unlock
  irqoff    \* the current task is inside page_fault_handler

lockVars == <<queue, dequeue, owner, counter, ticket, lpc, irqoff>>
lvars == <<vars, lockVars>>

NoOwner == MAX_TASKS

\* "spin": has a ticket.  "won", "own": has left the loop, is to write owner,
\* counter.  "in": in the critical section.  "dec", "free": unlock is to clear
\* owner, to advance dequeue.
LockPCs == {"out", "spin", "won", "own", "in", "dec", "free"}

SpinTypeOK ==
  /\ TypeOK
  /\ queue \in 0..(TICKETS - 1)
  /\ dequeue \in 0..(TICKETS - 1)
  /\ owner \in Tasks \cup {NoOwner}
  /\ counter \in 0..MaxNest
  /\ ticket \in [Tasks -> 0..(TICKETS - 1)]
  /\ lpc \in [Tasks -> LockPCs]
  /\ irqoff \in BOOLEAN

spinlock_init ==
  /\ queue = 0
  /\ dequeue = 1 % TICKETS
  /\ owner = NoOwner
  /\ counter = 0

SpinInit ==
  /\ Init
  /\ spinlock_init
  /\ ticket = [t \in Tasks |-> 0]
  /\ lpc = [t \in Tasks |-> "out"]
  /\ irqoff = FALSE

-----------------------------------------------------------------------------
\* The current task executes its own code and stands at label l of the lock.
\* main, which the idle task executes, is left out: it takes these locks only
\* before it creates the tasks that do.
At(l) ==
  /\ ctx = "task"
  /\ pc[current_task] = "run"
  /\ current_task # Idle
  /\ lpc[current_task] = l

Goto(l) == lpc' = [lpc EXCEPT ![current_task] = l]

\* The owner enters again.  No other task ever writes this task's identifier
\* into owner, so testing owner and taking the ticket may be one step.
spinlock_lock_nested ==
  /\ At("in")
  /\ owner = current_task
  /\ counter < MaxNest
  /\ counter' = counter + 1
  /\ UNCHANGED <<vars, queue, dequeue, owner, ticket, lpc, irqoff>>

\* atomic_int32_add returns the sum.
spinlock_lock(mode) ==
  /\ At("out")
  /\ owner # current_task
  /\ queue' = (queue + 1) % TICKETS
  /\ ticket' = [ticket EXCEPT ![current_task] = queue']
  /\ irqoff' = (mode = "fault")
  /\ Goto("spin")
  /\ UNCHANGED <<vars, dequeue, owner, counter>>

\* Faulty variant: the loop is left one ticket early.
EarlyTurn(t) == dequeue = ticket[t] \/ (dequeue + 1) % TICKETS = ticket[t]

\* The condition that ends the loop.
Turn(t) == dequeue = ticket[t]

spin ==
  /\ At("spin")
  /\ Turn(current_task)
  /\ Goto("won")
  /\ UNCHANGED <<vars, queue, dequeue, owner, counter, ticket, irqoff>>

set_owner ==
  /\ At("won")
  /\ owner' = current_task
  /\ Goto("own")
  /\ UNCHANGED <<vars, queue, dequeue, counter, ticket, irqoff>>

set_counter ==
  /\ At("own")
  /\ counter' = 1
  /\ Goto("in")
  /\ UNCHANGED <<vars, queue, dequeue, owner, ticket, irqoff>>

spinlock_unlock ==
  /\ At("in")
  /\ counter' = counter - 1
  /\ Goto(IF counter = 1 THEN "dec" ELSE "in")
  /\ UNCHANGED <<vars, queue, dequeue, owner, ticket, irqoff>>

clear_owner ==
  /\ At("dec")
  /\ owner' = NoOwner
  /\ Goto("free")
  /\ UNCHANGED <<vars, queue, dequeue, counter, ticket, irqoff>>

\* Faulty variants: the youngest ticket is served next; one is skipped; none is
\* called up.
YoungestTicket == queue
SkippedTicket == (dequeue + 2) % TICKETS
SameTicket == dequeue

\* The ticket that unlock calls up.
NextTicket == (dequeue + 1) % TICKETS

\* The end of unlock, where the local variable ticket is out of use.
advance ==
  /\ At("free")
  /\ dequeue' = NextTicket
  /\ ticket' = [ticket EXCEPT ![current_task] = 0]
  /\ irqoff' = FALSE
  /\ Goto("out")
  /\ UNCHANGED <<vars, queue, owner, counter>>

LockStep ==
  \/ spin \/ set_owner \/ set_counter
  \/ clear_owner \/ advance

-----------------------------------------------------------------------------
\* The rest of the kernel.  A task blocks, exits and creates tasks only while
\* it does not use the lock; an interrupt needs interrupts to be enabled.
Kernel ==
  /\ \/ /\ lpc[current_task] = "out"
        /\ \/ \E p \in Prios : create_kernel_task(p, TRUE)
           \/ block_current_task
           \/ do_exit_count
     \/ \E t \in Tasks : ctx = "device" /\ wakeup_task(t)
     \/ do_exit_finish
     \/ reschedule
     \/ finish_task_switch
     \/ ~irqoff /\ \E kind \in {"timer", "device"} : irq_enter(kind)
     \/ irq_leave
  /\ UNCHANGED lockVars

SpinNext ==
  \/ spinlock_lock_nested
  \/ \E mode \in LockModes : spinlock_lock(mode)
  \/ spinlock_unlock
  \/ LockStep
  \/ Kernel

SpinSpec == SpinInit /\ [][SpinNext]_lvars

\* What a task does next where its code leaves it no choice.  That a task
\* leaves the critical section is the assumption every lock needs.
Straight ==
  \/ LockStep
  \/ spinlock_unlock
  \/ (reschedule \/ do_exit_finish) /\ UNCHANGED lockVars

\* A task that keeps getting the processor makes progress; see Scheduler for
\* the rest.
SpinFairness ==
  /\ WF_lvars(irq_leave /\ UNCHANGED lockVars)
  /\ WF_lvars(finish_task_switch /\ UNCHANGED lockVars)
  /\ SF_lvars(~irqoff /\ irq_enter("timer") /\ UNCHANGED lockVars)
  /\ \A t \in Tasks : SF_lvars(current_task = t /\ Straight)

FairSpinSpec == SpinSpec /\ SpinFairness

-----------------------------------------------------------------------------
(***************************************************************************)
(* Properties.                                                             *)
(***************************************************************************)

Holding(t) == lpc[t] \in {"won", "own", "in", "dec", "free"}

\* At most one task is between leaving the loop of spinlock_lock and advancing
\* dequeue, wherever the timer preempts it, and also after the counters have
\* wrapped around.
MutualExclusion ==
  \A t, u \in Tasks : Holding(t) /\ Holding(u) => t = u

Contenders == {t \in Tasks : lpc[t] # "out"}

\* How many tickets are served before the one of t.
Distance(t) == (ticket[t] - dequeue) % TICKETS

\* The tickets of the tasks that hold or wait for the lock are consecutive,
\* from the one being served to the last one given out: no ticket is given out
\* twice and none is skipped, which would stop the lock for ever.
TicketsConsecutive ==
  /\ {Distance(t) : t \in Contenders} = 0..(Cardinality(Contenders) - 1)
  /\ (queue + 1 - dequeue) % TICKETS = Cardinality(Contenders) % TICKETS

NoOvertakingStep ==
  \A t \in Tasks : lpc[t] = "spin" /\ lpc'[t] = "spin" => Distance(t)' <= Distance(t)

\* First come, first served: nothing that another task does moves a waiting
\* task further from its turn.
NoOvertaking == [][NoOvertakingStep]_lvars

\* Whoever asks for the lock gets it, when all tasks have the same priority:
\* the timer takes the processor from a spinning task and, in turn, gives it
\* back to the owner.
LockGranted == \A t \in Tasks : lpc[t] = "spin" ~> lpc[t] = "in"

\* It is true as long as the lock is taken with interrupts enabled only, and no
\* owner enters again, which it could do for ever.
GrantedToTasks == [](~irqoff /\ counter <= 1) => LockGranted
=============================================================================
