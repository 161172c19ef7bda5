----------------------------- MODULE MCUserTasks -----------------------------
(***************************************************************************)
(* Small instances of what the kernel keeps for tasks across context       *)
(* switches and exits, their FPU registers, heap and page tables, and of   *)
(* the kernel heap with its nested calls.  Each behaviour runs one of them *)
(* and leaves the others as they began.                                    *)
(***************************************************************************)
EXTENDS Fpu, UserHeap, AddressSpace, KernelHeap

VARIABLE part

allVars == <<part, vars, fpuVars, heapVars, asVars, khVars>>

MCInit ==
  /\ part \in {"fpu", "heap", "spaces", "kernel heap"}
  /\ FpuInit /\ HeapInit /\ ASInit /\ KHInit

MCNext ==
  /\ \/ part = "fpu" /\ FpuNext /\ UNCHANGED <<heapVars, asVars, khVars>>
     \/ part = "heap" /\ HeapNext /\ UNCHANGED <<fpuVars, asVars, khVars>>
     \/ part = "spaces" /\ ASNext /\ UNCHANGED <<vars, fpuVars, heapVars, khVars>>
     \/ part = "kernel heap" /\ KHNext /\ UNCHANGED <<vars, fpuVars, heapVars, asVars>>
  /\ UNCHANGED part

MCSpec == MCInit /\ [][MCNext]_allVars

\* The kernel above the heap's first area; video memory and the multiboot
\* structure below it.
MCBootRegions == << <<6, 7>>, <<0, 1>>, <<1, 2>> >>
=============================================================================
