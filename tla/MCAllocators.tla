----------------------------- MODULE MCAllocators -----------------------------
(***************************************************************************)
(* Small instances of the allocators: page frames, buddies and virtual     *)
(* memory areas.  Each behaviour runs one of them and leaves the others as *)
(* they began; KernelHeap has their calls to each other.                   *)
(***************************************************************************)
EXTENDS PageFrames, Buddy, Vma

VARIABLE part

allVars == <<part, pfVars, buddyVars, vmaVars>>

MCInit ==
  /\ part \in {"frames", "buddy", "vma"}
  /\ PFInit /\ BuddyInit /\ VmaInit

MCNext ==
  /\ \/ part = "frames" /\ PFNext /\ UNCHANGED <<buddyVars, vmaVars>>
     \/ part = "buddy" /\ BuddyNext /\ UNCHANGED <<pfVars, vmaVars>>
     \/ part = "vma" /\ VmaNext /\ UNCHANGED <<pfVars, buddyVars>>
  /\ UNCHANGED part

MCSpec == MCInit /\ [][MCNext]_allVars /\ PFFairness

\* Video memory below the heap, and the kernel and a module above it.
MCRegions == {<<0, 1>>, <<5, 7>>, <<7, 8>>}
=============================================================================
