------------------------------- MODULE UserHeap -------------------------------
(***************************************************************************)
(* User tasks and their heap, on top of Scheduler: load_task allocates a   *)
(* descriptor for it, sys_sbrk moves its end, page_fault_handler maps its  *)
(* pages when they are first touched, and finish_task_switch frees the     *)
(* descriptor.  User programs have no system call that blocks.             *)
(*                                                                         *)
(* Addresses are counted in pages.  Every heap starts at the same address, *)
(* in an address space of its own.                                         *)
(***************************************************************************)
EXTENDS Scheduler, SequencesExt

CONSTANTS
  Blocks,     \* the blocks of kmalloc that fit a descriptor
  HeapStart,  \* where the program's data ends
  HeapMax,    \* bound on the end of the heap
  WORD,       \* number of addresses: 2^64 in the code
  MaxIncr,    \* bound on the size of the arguments of sbrk
  MaxUsers    \* bound on the number of user tasks at a time

ASSUME UserHeapAssumption ==
  /\ HeapStart \in Nat /\ HeapMax \in Nat /\ HeapStart <= HeapMax
  /\ WORD \in Nat /\ HeapMax < WORD
  /\ MaxIncr \in 0..HeapStart
  /\ MaxUsers \in Nat
  /\ IsFiniteSet(Blocks)

VARIABLES
  heap,     \* task_t.heap: a block, or None
  desc,     \* the start and the end that each block holds
  free,     \* the blocks that kmalloc may return, last freed first
  owner,    \* the task that allocated each block; not in the code
  user,     \* the tasks that execute a loaded program
  brk,      \* what sbrk told each program about its end; not in the code
  mapped,   \* the heap pages that are mapped, for each task
  halted    \* page_fault_handler has stopped the machine

heapVars == <<heap, desc, free, owner, user, brk, mapped, halted>>
uvars == <<vars, heapVars>>

None == NULL

HeapTypeOK ==
  /\ TypeOK
  /\ heap \in [Tasks -> Blocks \cup {None}]
  /\ desc \in [Blocks -> [start : 0..(WORD - 1), end : 0..(WORD - 1)]]
  /\ free \in Seq(Blocks)
  /\ owner \in [Blocks -> Tasks \cup {None}]
  /\ user \in SUBSET Tasks
  /\ brk \in [Tasks -> 0..(WORD - 1)]
  /\ mapped \in [Tasks -> SUBSET (0..(WORD - 1))]
  /\ halted \in BOOLEAN

HeapInit ==
  /\ Init
  /\ heap = [t \in Tasks |-> None]
  /\ desc = [b \in Blocks |-> [start |-> 0, end |-> 0]]
  /\ free = SetToSeq(Blocks)
  /\ owner = [b \in Blocks |-> None]
  /\ user = {}
  /\ brk = [t \in Tasks |-> 0]
  /\ mapped = [t \in Tasks |-> {}]
  /\ halted = FALSE

-----------------------------------------------------------------------------
HeapRunning == ~halted /\ ctx = "task" /\ pc[current_task] = "run" /\ current_task # Idle
InUser == HeapRunning /\ current_task \in user

\* The descriptor of an empty heap.
FirstEnd == [start |-> HeapStart, end |-> HeapStart]

\* load_task, to the jump into the program.  Without memory it returns and the
\* task exits.
load_task ==
  /\ HeapRunning
  /\ current_task \notin user
  /\ IF heap[current_task] = None
     THEN /\ free # << >>
          /\ heap' = [heap EXCEPT ![current_task] = Head(free)]
          /\ owner' = [owner EXCEPT ![Head(free)] = current_task]
          /\ free' = Tail(free)
     ELSE UNCHANGED <<heap, owner, free>>
  /\ desc' = [desc EXCEPT ![heap'[current_task]] = FirstEnd]
  /\ user' = user \cup {current_task}
  /\ brk' = [brk EXCEPT ![current_task] = HeapStart]
  /\ UNCHANGED <<vars, mapped, halted>>

\* The new end.
NewEnd(start, end, incr) ==
  LET sum == (end + incr) % WORD IN IF sum < start THEN start ELSE sum

sys_sbrk(incr) ==
  /\ InUser
  /\ LET b == heap[current_task]
         old == desc[b].end
         new == NewEnd(desc[b].start, old, incr)
     IN  /\ old + incr <= HeapMax
         /\ desc' = [desc EXCEPT ![b].end = new]
         /\ brk' = [brk EXCEPT ![current_task] = IF old + incr < HeapStart THEN HeapStart ELSE old + incr]
  /\ UNCHANGED <<vars, heap, free, owner, user, mapped, halted>>

\* Faulty variant: the test excludes the first page of the heap.
InHeapAbove(b, page) == desc[b].start < page /\ page < desc[b].end

InHeap(b, page) == desc[b].start <= page /\ page < desc[b].end

\* The program touches a page that is not mapped, of the memory sbrk gave it.
\* page_fault_handler maps the page, or halts with interrupts disabled.
page_fault(page) ==
  /\ InUser
  /\ HeapStart <= page /\ page < brk[current_task]
  /\ page \notin mapped[current_task]
  /\ IF InHeap(heap[current_task], page)
     THEN /\ mapped' = [mapped EXCEPT ![current_task] = @ \cup {page}]
          /\ UNCHANGED halted
     ELSE halted' = TRUE /\ UNCHANGED mapped
  /\ UNCHANGED <<vars, heap, desc, free, owner, user, brk>>

-----------------------------------------------------------------------------
\* kfree ignores a block that is free already.
Frees(b) ==
  IF b = None \/ Contains(free, b)
  THEN UNCHANGED <<free, owner>>
  ELSE free' = <<b>> \o free /\ owner' = [owner EXCEPT ![b] = None]

\* The end of finish_task_switch: the descriptor of the task that has just been
\* switched to is freed.
SwitchFrees == Frees(heap[current_task])

HeapSwitches ==
  /\ finish_task_switch
  /\ SwitchFrees
  /\ UNCHANGED <<heap, desc, user, brk, mapped, halted>>

SlotHeap(t) == None

\* main creates the tasks; create_task clears the pointer of the slot.
HeapCreates ==
  /\ current_task = Idle
  /\ Cardinality({t \in Tasks \ {Idle} : status[t] # "INVALID"}) < MaxUsers
  /\ create_kernel_task(NORMAL_PRIO, TRUE)
  /\ heap' = [t \in Tasks |-> IF status[t] = "INVALID" THEN SlotHeap(t) ELSE heap[t]]
  /\ UNCHANGED <<desc, free, owner, user, brk, mapped, halted>>

\* sys_exit, or leave_kernel_task when load_task failed.
HeapExits ==
  /\ do_exit_count
  /\ user' = user \ {current_task}
  /\ brk' = [brk EXCEPT ![current_task] = 0]
  /\ mapped' = [mapped EXCEPT ![current_task] = {}]
  /\ UNCHANGED <<heap, desc, free, owner, halted>>

HeapOthers ==
  /\ \/ do_exit_finish
     \/ reschedule
     \/ irq_enter("timer")
     \/ irq_leave
  /\ UNCHANGED heapVars

HeapNext ==
  \/ load_task
  \/ \E incr \in -MaxIncr..MaxIncr : sys_sbrk(incr)
  \/ \E page \in HeapStart..HeapMax : page_fault(page)
  \/ ~halted /\ (HeapSwitches \/ HeapCreates \/ HeapExits \/ HeapOthers)

HeapSpec == HeapInit /\ [][HeapNext]_uvars

-----------------------------------------------------------------------------
(***************************************************************************)
(* Properties.                                                             *)
(***************************************************************************)

\* While a program runs, the descriptor its task points to is the block that
\* load_task allocated for it: nobody has freed it or been given it.
DescriptorMine == \A t \in user : owner[heap[t]] = t

\* A program that touches only the memory sbrk gave it, at any time after, does
\* not stop the machine: page_fault_handler finds the page in the heap.
SbrkMemoryUsable == ~halted

\* The descriptor says what the program was told, after any sequence of growing
\* and shrinking.
EndIsBrk == \A t \in user : desc[heap[t]] = [start |-> HeapStart, end |-> brk[t]]

\* Every descriptor that is allocated belongs to a task that uses it: the
\* cleanup on termination, which the comment on finish_task_switch promises,
\* leaves nothing behind.
NoDescriptorLost ==
  ctx = "task" => \A b \in Blocks : owner[b] # None => status[owner[b]] # "INVALID" /\ heap[owner[b]] = b

\* The heap of a program is what sbrk said, in a descriptor of its own.
HeapUsable == HeapTypeOK /\ DescriptorMine /\ EndIsBrk /\ SbrkMemoryUsable
=============================================================================
