----------------------------- MODULE IrqSpinlock -----------------------------
(***************************************************************************)
(* The irqsave spinlocks of include/eduos/spinlock.h on the one processor. *)
(* They keep interrupts away from a critical section, and an exception     *)
(* inside the section may take the same lock a second time.  One run of    *)
(* the processor is modelled as a stack: what it interrupted and which     *)
(* locks it took on the way, last first.                                   *)
(***************************************************************************)
EXTENDS Integers, Sequences, FiniteSets

CONSTANTS
  Locks,
  MaxStack,  \* bound on the depth of the stack
  MaxNest,   \* how often one lock is taken in a nested way
  TICKETS    \* number of values of the counters: 2^32 in the code

ASSUME IrqSpinlockAssumption ==
  /\ MaxStack \in Nat /\ MaxNest \in Nat
  /\ TICKETS \in Nat \ {0, 1}

VARIABLES
  queue, dequeue, flags, counter, \* the fields of each lock
  IF_,      \* the processor's interrupt flag
  stack,    \* sequence of <<kind, lock or saved interrupt flag>>
  waiting   \* << >>, or the lock, ticket and flags of a call inside the loop

lockVars == <<queue, dequeue, flags, counter>>
irqSpinVars == <<lockVars, IF_, stack, waiting>>

IrqSpinTypeOK ==
  /\ queue \in [Locks -> 0..(TICKETS - 1)] /\ dequeue \in [Locks -> 0..(TICKETS - 1)]
  /\ flags \in [Locks -> BOOLEAN]
  /\ counter \in [Locks -> 0..MaxNest]
  /\ IF_ \in BOOLEAN
  /\ Len(stack) <= MaxStack

\* spinlock_irqsave_init
IrqSpinInit ==
  /\ queue = [l \in Locks |-> 0]
  /\ dequeue = [l \in Locks |-> 1]
  /\ flags = [l \in Locks |-> FALSE]
  /\ counter = [l \in Locks |-> 0]
  /\ IF_ = TRUE
  /\ stack = << >>
  /\ waiting = << >>

Top == stack[1]
Push(kind, x) == stack' = <<<<kind, x>>>> \o stack
Running == waiting = << >>

-----------------------------------------------------------------------------
Enabled == IF_

interrupt ==
  /\ Running
  /\ Enabled
  /\ Len(stack) < MaxStack
  /\ Push("handler", IF_)
  /\ IF_' = FALSE
  /\ UNCHANGED <<lockVars, waiting>>

\* An exception does not depend on the interrupt flag; its gate clears it.
exception ==
  /\ Running
  /\ Len(stack) < MaxStack
  /\ Push("handler", IF_)
  /\ IF_' = FALSE
  /\ UNCHANGED <<lockVars, waiting>>

iret ==
  /\ Running
  /\ stack # << >> /\ Top[1] = "handler"
  /\ IF_' = Top[2]
  /\ stack' = Tail(stack)
  /\ UNCHANGED <<lockVars, waiting>>

NextTicket(i) == (i + 1) % TICKETS

\* Faulty variant: a nested acquisition is not recognised.
NestedNever(l) == FALSE

\* The test for a nested acquisition.
Nested(l) == counter[l] = 1

spinlock_irqsave_lock(l) ==
  /\ Running
  /\ Len(stack) < MaxStack /\ counter[l] < MaxNest
  /\ IF_' = FALSE
  /\ IF Nested(l)
     THEN /\ counter' = [counter EXCEPT ![l] = @ + 1]
          /\ Push("lock", l)
          /\ UNCHANGED <<queue, waiting>>
     ELSE /\ queue' = [queue EXCEPT ![l] = NextTicket(@)]
          /\ waiting' = <<l, queue'[l], IF_>>
          /\ UNCHANGED <<counter, stack>>
  /\ UNCHANGED <<dequeue, flags>>

\* The loop ends.
acquired ==
  /\ ~Running
  /\ LET l == waiting[1] IN
       /\ dequeue[l] = waiting[2]
       /\ flags' = [flags EXCEPT ![l] = waiting[3]]
       /\ counter' = [counter EXCEPT ![l] = 1]
       /\ Push("lock", l)
  /\ waiting' = << >>
  /\ UNCHANGED <<queue, dequeue, IF_>>

Last(l) == counter[l] = 1
Reduced(l) == counter[l] - 1

spinlock_irqsave_unlock(l) ==
  /\ Running
  /\ stack # << >> /\ Top = <<"lock", l>>
  /\ counter' = [counter EXCEPT ![l] = Reduced(l)]
  /\ IF Last(l)
     THEN /\ flags' = [flags EXCEPT ![l] = FALSE]
          /\ dequeue' = [dequeue EXCEPT ![l] = NextTicket(@)]
          /\ IF_' = (IF_ \/ flags[l])
     ELSE UNCHANGED <<flags, dequeue, IF_>>
  /\ stack' = Tail(stack)
  /\ UNCHANGED <<queue, waiting>>

IrqSpinNext ==
  \/ interrupt \/ exception \/ iret \/ acquired
  \/ \E l \in Locks : spinlock_irqsave_lock(l) \/ spinlock_irqsave_unlock(l)

IrqSpinSpec == IrqSpinInit /\ [][IrqSpinNext]_irqSpinVars

-----------------------------------------------------------------------------
(***************************************************************************)
(* Properties.                                                             *)
(***************************************************************************)

\* Interrupts are enabled exactly when no lock is held and no handler runs,
\* whatever the nesting of locks, of other locks and of exceptions: each unlock
\* restores what its own lock found.
InterruptsExact == IF_ = (stack = << >> /\ Running)

\* The counter says how often the lock is held.
CounterExact ==
  \A l \in Locks : counter[l] = Cardinality({i \in 1..Len(stack) : stack[i] = <<"lock", l>>})

\* On one processor nobody could release a lock that is waited for here: the
\* loop ends at once.  It is the counter's test that ensures it for the second
\* acquisition; a third one is not recognised, hence the bound MaxNest.
NeverSpins == ~Running => dequeue[waiting[1]] = waiting[2]

\* Interrupts and counters are right at any depth, and nobody spins.
IrqLocksRight == IrqSpinTypeOK /\ InterruptsExact /\ CounterExact /\ NeverSpins
=============================================================================
