------------------------------ MODULE KernelHeap ------------------------------
(***************************************************************************)
(* How the kernel heap and the list of virtual memory areas use each       *)
(* other.  kmalloc calls palloc when the buddy lists are exhausted         *)
(* (mm/malloc.c); palloc calls vma_alloc, get_pages and page_map;          *)
(* vma_alloc and vma_add call kmalloc for a new node (mm/vma.c).  The      *)
(* locks are recursive and the caller holds them all the time, so the      *)
(* calls are those of one task, and what matters is their nesting: stack   *)
(* holds the calls that wait for kmalloc to return a node.  Only the       *)
(* number of blocks of each exponent is kept (Buddy has the addresses).    *)
(* Addresses of areas are counted in blocks of 2^BUDDY_ALLOC bytes.        *)
(***************************************************************************)
EXTENDS Integers, Sequences, FiniteSets, FiniteSetsExt, SequencesExt

CONSTANTS
  BUDDY_MIN, BUDDY_ALLOC, BUDDY_MAX,
  NODE_EXP,      \* exponent of the block that holds a vma_t
  Requests,      \* exponents of the blocks that callers ask for
  VMA_KERN_MIN, VMA_KERN_MAX,
  BootRegions,   \* the regions <<start, end>> that vma_init adds, in this order
  PAGE_FRAMES,        \* number of page frames, in units of 2^BUDDY_ALLOC bytes
  MaxDepth       \* bound on the length of stack; deeper calls go unrecorded

Exps == BUDDY_MIN..BUDDY_MAX

ASSUME KernelHeapAssumption ==
  /\ BUDDY_MIN \in Nat /\ BUDDY_ALLOC \in Exps /\ NODE_EXP \in Exps
  /\ NODE_EXP < BUDDY_ALLOC
  /\ Requests \subseteq BUDDY_MIN..(BUDDY_MAX - 1)
  /\ VMA_KERN_MIN \in Nat /\ VMA_KERN_MAX \in Nat /\ PAGE_FRAMES \in Nat /\ MaxDepth \in Nat

VARIABLES
  free_buddies,  \* number of free buddies of each exponent
  used_buddies,    \* number of blocks of each exponent that callers have
  nodes,   \* number of blocks in use for list nodes
  vmas,    \* the areas: start, end, and whether the flags are VMA_HEAP
  frames,  \* free page frames
  todo,    \* what vma_init still has to add
  stack,   \* the calls of vma_alloc and vma_add that wait for a node
  call     \* the innermost call of kmalloc: its exponent, and its progress

khVars == <<free_buddies, used_buddies, nodes, vmas, frames, todo, stack, call>>

NoCall == [exp |-> 0, st |-> "none"]
Enter(e) == [exp |-> e, st |-> "enter"]
Return(e, ok) == [exp |-> e, st |-> IF ok THEN "got" ELSE "null"]

KHTypeOK ==
  /\ free_buddies \in [Exps -> Nat] /\ used_buddies \in [Exps -> Nat] /\ nodes \in Nat
  /\ vmas \in Seq([start : Nat, end : Nat, heap : BOOLEAN])
  /\ frames \in 0..PAGE_FRAMES
  /\ stack \in Seq([what : {"alloc", "add"}, gap : Nat, exp : Exps])
  /\ call \in [exp : {0} \cup Exps, st : {"none", "enter", "got", "null"}]

KHInit ==
  /\ free_buddies = [e \in Exps |-> 0]
  /\ used_buddies = [e \in Exps |-> 0]
  /\ nodes = 0
  /\ vmas = <<[start |-> VMA_KERN_MIN, end |-> VMA_KERN_MIN, heap |-> TRUE]>>
  /\ frames = PAGE_FRAMES
  /\ todo = BootRegions
  /\ stack = << >>
  /\ call = NoCall

-----------------------------------------------------------------------------
\* The exponents whose lists buddy_get would take a buddy from.
Usable(exp) == {e \in {exp} \cup exp..(BUDDY_MAX - 1) : free_buddies[e] > 0}

\* The blocks that are free after one of exponent k was split down to exp.
Halves(lists, k, exp) ==
  [e \in Exps |-> IF e \in exp..(k - 1) THEN lists[e] + 1 ELSE lists[e]]

\* The exponent of the block that palloc is asked for, and its size.
Grown(exp) == Max({exp, BUDDY_ALLOC})
Size(exp) == 2 ^ (Grown(exp) - BUDDY_ALLOC)

GapStart(i) == IF i = 0 THEN VMA_KERN_MIN ELSE vmas[i].end
GapEnd(i) == IF i = Len(vmas) THEN VMA_KERN_MAX ELSE vmas[i + 1].start

\* The gaps that vma_alloc finds large enough; it takes the first.
Fitting(size) ==
  {i \in 0..Len(vmas) : /\ GapStart(i) + size < GapEnd(i)
                        /\ GapStart(i) >= VMA_KERN_MIN
                        /\ GapStart(i) + size < VMA_KERN_MAX}

\* The area before the gap is one of the heap and can be extended.
OnHeap(i) == i # 0 /\ vmas[i].heap

-----------------------------------------------------------------------------
\* Callers.  vma_init adds the boot regions before anybody else calls.
kmalloc(e) ==
  /\ call = NoCall /\ todo = << >>
  /\ call' = Enter(e)
  /\ UNCHANGED <<free_buddies, used_buddies, nodes, vmas, frames, todo, stack>>

kfree(e) ==
  /\ call = NoCall /\ used_buddies[e] > 0
  /\ used_buddies' = [used_buddies EXCEPT ![e] = @ - 1]
  /\ free_buddies' = [free_buddies EXCEPT ![e] = @ + 1]
  /\ UNCHANGED <<nodes, vmas, frames, todo, stack, call>>

\* The gaps that hold the region r.
RegionGaps(r) == {i \in 0..Len(vmas) : /\ i = 0 \/ vmas[i].end <= r[1]
                                       /\ i = Len(vmas) \/ vmas[i + 1].start >= r[2]}

\* vma_add finds the gap for its region, then calls kmalloc.
vma_add ==
  /\ call = NoCall /\ todo # << >>
  /\ RegionGaps(Head(todo)) # {}
  /\ stack' = <<[what |-> "add", gap |-> Min(RegionGaps(Head(todo))), exp |-> NODE_EXP]>>
  /\ call' = Enter(NODE_EXP)
  /\ UNCHANGED <<free_buddies, used_buddies, nodes, vmas, frames, todo>>

-----------------------------------------------------------------------------
kmalloc_reuse ==
  LET exp == call.exp
      k == Min(Usable(exp))
  IN /\ call.st = "enter"
     /\ Usable(exp) # {}
     /\ free_buddies' = Halves([free_buddies EXCEPT ![k] = @ - 1], k, exp)
     /\ call' = Return(exp, TRUE)
     /\ UNCHANGED <<used_buddies, nodes, vmas, frames, todo, stack>>

\* vma_alloc finds no gap.
kmalloc_no_gap ==
  /\ call.st = "enter"
  /\ Usable(call.exp) = {}
  /\ Fitting(Size(call.exp)) = {}
  /\ call' = Return(call.exp, FALSE)
  /\ UNCHANGED <<free_buddies, used_buddies, nodes, vmas, frames, todo, stack>>

\* Faulty variant: the area is not given back when palloc fails.
UndoneNot(grown) == vmas' = grown /\ UNCHANGED <<free_buddies, nodes>>

\* palloc has failed after vma_alloc and calls vma_free: an extended area
\* shrinks again, a new one is removed and its node freed.
Undone(grown) ==
  /\ free_buddies' = [free_buddies EXCEPT ![NODE_EXP] = @ + Len(grown) - Len(vmas)]
  /\ UNCHANGED <<vmas, nodes>>

\* The rest of palloc and buddy_get, once vma_alloc has changed the areas to
\* grown: frames are allocated and mapped, unless there are none or none is left
\* for a page table, and the new block is split.
Backed(grown, exp, ok) ==
  IF ok /\ frames >= Size(exp)
  THEN /\ frames' = frames - Size(exp)
       /\ vmas' = grown
       /\ free_buddies' = Halves(free_buddies, Grown(exp), exp)
       /\ nodes' = nodes + Len(grown) - Len(vmas)
       /\ call' = Return(exp, TRUE)
  ELSE /\ Undone(grown)
       /\ call' = Return(exp, FALSE)
       /\ UNCHANGED frames

\* The first gap is behind a heap area, which grows.
kmalloc_extend(ok) ==
  LET size == Size(call.exp)
      i == Min(Fitting(size))
  IN /\ call.st = "enter"
     /\ Usable(call.exp) = {}
     /\ Fitting(size) # {}
     /\ OnHeap(i)
     /\ Backed([vmas EXCEPT ![i].end = @ + size], call.exp, ok)
     /\ UNCHANGED <<used_buddies, todo, stack>>

\* The first gap is behind another area: vma_alloc calls kmalloc again.
kmalloc_nested ==
  LET i == Min(Fitting(Size(call.exp)))
  IN /\ call.st = "enter"
     /\ Usable(call.exp) = {}
     /\ Fitting(Size(call.exp)) # {}
     /\ ~OnHeap(i)
     /\ LET frame == [what |-> "alloc", gap |-> i, exp |-> call.exp]
        IN stack' = IF Len(stack) < MaxDepth THEN <<frame>> \o stack ELSE stack
     /\ call' = Enter(NODE_EXP)
     /\ UNCHANGED <<free_buddies, used_buddies, nodes, vmas, frames, todo>>

-----------------------------------------------------------------------------
\* kmalloc returns to its caller.
return_caller ==
  /\ stack = << >>
  /\ call.st \in {"got", "null"}
  /\ used_buddies' = IF call.st = "got" THEN [used_buddies EXCEPT ![call.exp] = @ + 1] ELSE used_buddies
  /\ call' = NoCall
  /\ UNCHANGED <<free_buddies, nodes, vmas, frames, todo, stack>>

\* kmalloc returns to vma_alloc, which inserts the area in the gap it has found.
return_vma_alloc(ok) ==
  LET f == Head(stack)
      s == GapStart(f.gap)
  IN /\ stack # << >> /\ f.what = "alloc"
     /\ call.st \in {"got", "null"}
     /\ stack' = Tail(stack)
     /\ IF call.st = "got"
        THEN Backed(InsertAt(vmas, f.gap + 1,
                      [start |-> s, end |-> s + Size(f.exp), heap |-> TRUE]), f.exp, ok)
        ELSE call' = Return(f.exp, FALSE) /\ UNCHANGED <<free_buddies, nodes, vmas, frames>>
     /\ UNCHANGED <<used_buddies, todo>>

\* kmalloc returns to vma_add.  An error ends vma_init.
return_vma_add ==
  LET f == Head(stack)
      r == Head(todo)
  IN /\ stack # << >> /\ f.what = "add"
     /\ call.st \in {"got", "null"}
     /\ stack' = << >>
     /\ todo' = IF call.st = "got" THEN Tail(todo) ELSE << >>
     /\ IF call.st = "got"
        THEN /\ vmas' = InsertAt(vmas, f.gap + 1, [start |-> r[1], end |-> r[2], heap |-> FALSE])
             /\ nodes' = nodes + 1
        ELSE UNCHANGED <<vmas, nodes>>
     /\ call' = NoCall
     /\ UNCHANGED <<free_buddies, used_buddies, frames>>

Calls == kmalloc_reuse \/ kmalloc_no_gap \/ kmalloc_nested \/ return_caller \/ return_vma_add
           \/ \E ok \in BOOLEAN : kmalloc_extend(ok) \/ return_vma_alloc(ok)

KHNext == (\E e \in Requests : kmalloc(e) \/ kfree(e)) \/ vma_add \/ Calls

\* A task that is inside a call goes on.
KHSpec == KHInit /\ [][KHNext]_khVars /\ WF_khVars(Calls)

-----------------------------------------------------------------------------
(***************************************************************************)
(* Properties.                                                             *)
(***************************************************************************)

\* The number of bytes in n[e] blocks of each exponent e.
Bytes(n) == MapThenSumSet(LAMBDA e : n[e] * 2 ^ e, Exps)
HeapAreas == {i \in 1..Len(vmas) : vmas[i].heap}
HeapSize == MapThenSumSet(LAMBDA i : vmas[i].end - vmas[i].start, HeapAreas)

\* Between calls, the heap areas, the blocks in them and the frames behind them
\* have the same size: a call that fails halfway, in get_pages or page_map or for
\* want of a list node, leaves nothing behind.
MemoryBalanced ==
  call = NoCall =>
    /\ Bytes(free_buddies) + Bytes(used_buddies) + nodes * 2 ^ NODE_EXP = HeapSize * 2 ^ BUDDY_ALLOC
    /\ frames + HeapSize = PAGE_FRAMES

\* The gap that was found before kmalloc was called is still free when the area is
\* inserted: areas do not overlap.
AreasDisjoint ==
  \A i \in 1..(Len(vmas) - 1) : vmas[i].end <= vmas[i + 1].start

\* Every call of kmalloc and vma_add returns.
KmallocReturns == call # NoCall ~> call = NoCall

\* Nested calls, also those that fail, keep areas, blocks and frames in step.
NestedCallsBalanced == KHTypeOK /\ MemoryBalanced /\ AreasDisjoint
=============================================================================
