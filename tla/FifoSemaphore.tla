---------------------------- MODULE FifoSemaphore ----------------------------
(***************************************************************************)
(* What the semaphore of include/eduos/semaphore.h promises about whom it  *)
(* makes wait and whom it wakes: a counter, and the waiting tasks in the   *)
(* order in which they began to wait.  A post that finds the counter at    *)
(* zero removes the task that has waited longest.                          *)
(***************************************************************************)
EXTENDS Naturals, Sequences

CONSTANTS
  Waiter,     \* the tasks
  Resources   \* the counter's possible initial values

VARIABLES value, waiters

Init == value \in Resources /\ waiters = <<>>

Take ==
  /\ value > 0
  /\ value' = value - 1
  /\ UNCHANGED waiters

Wait(t) ==
  /\ value = 0
  /\ \A i \in 1..Len(waiters) : waiters[i] # t
  /\ waiters' = Append(waiters, t)
  /\ UNCHANGED value

Post ==
  /\ value' = value + 1
  /\ waiters' = IF value = 0 /\ waiters # <<>> THEN Tail(waiters) ELSE waiters

Next == Take \/ Post \/ \E t \in Waiter : Wait(t)

Spec == Init /\ [][Next]_<<value, waiters>>
=============================================================================
