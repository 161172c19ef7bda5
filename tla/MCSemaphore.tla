----------------------------- MODULE MCSemaphore -----------------------------
(* Small instances of Semaphore for TLC. *)
EXTENDS Semaphore

Mutex == [units |-> 1, bound |-> 1, pool |-> TRUE]
Signal == [units |-> 0, bound |-> 2, pool |-> FALSE]
TwoUnits == [units |-> 2, bound |-> 2, pool |-> TRUE]

MCUses == {Mutex, Signal}
MCPool == {TwoUnits}
=============================================================================
