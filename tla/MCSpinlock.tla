------------------------------ MODULE MCSpinlock ------------------------------
(* Small instances of Spinlock for TLC. *)
EXTENDS Spinlock
=============================================================================
