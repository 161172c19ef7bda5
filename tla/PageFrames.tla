------------------------------ MODULE PageFrames ------------------------------
(***************************************************************************)
(* The page frame allocator of mm/memory.c: memory_init, get_pages and     *)
(* put_pages, called by tasks that may be preempted at any step.  The      *)
(* bitmap is the set of its marked frames.  bitmap_lock is held while the  *)
(* bitmap is searched and changed, so one pass of the search loop is one   *)
(* step; total_available_pages is tested before the lock is taken and      *)
(* updated after it is released.  total_pages and total_allocated_pages    *)
(* are only printed and are left out.                                      *)
(***************************************************************************)
EXTENDS Integers, FiniteSets

CONSTANTS
  FRAMES,        \* number of frames the bitmap describes, BITMAP_SIZE*8
  Clients,       \* the tasks that call the allocator
  Boot,          \* the client that executes memory_init
  MaxRequest,    \* bound on npages
  Available,     \* the frames that the memory map calls available
  MbInfo,        \* the frame of the multiboot information
  ModList,       \* the frames of the list of boot modules
  Modules,       \* the frames of the boot modules
  KERNEL_START,  \* first frame of the kernel
  KERNEL_END,    \* kernel_end >> PAGE_BITS
  None           \* nobody holds bitmap_lock

Frames == 0..(FRAMES - 1)
Kernel == KERNEL_START..(KERNEL_END - 1)

ASSUME PageFramesAssumption ==
  /\ FRAMES \in Nat /\ MaxRequest \in Nat /\ MaxRequest < FRAMES
  /\ IsFiniteSet(Clients) /\ Boot \in Clients /\ None \notin Clients
  /\ Available \subseteq Frames
  /\ MbInfo \in Frames /\ ModList \subseteq Frames /\ Modules \subseteq Frames
  /\ KERNEL_START \in Nat /\ KERNEL_END \in Nat /\ KERNEL_END <= FRAMES

VARIABLES
  marked,       \* the one bits of bitmap
  alloc_start,  \* where the last search ended; -1 before the first one
  total_available_pages,
  phase,        \* how far memory_init has come
  holder,       \* who holds bitmap_lock
  off,          \* the local variable of the search in progress
  pc,           \* where each client stands
  npages,       \* the argument of its call
  base,         \* the first frame of its result or argument
  held,         \* the frames each client has got and not given back
  lost          \* frames marked by a call that the caller takes for a failure

pfVars == <<marked, alloc_start, total_available_pages, phase, holder, off, pc,
          npages, base, held, lost>>

PFTypeOK ==
  /\ marked \in SUBSET Frames
  /\ alloc_start \in -1..FRAMES
  /\ total_available_pages \in Int
  /\ phase \in {"map", "vma", "run"}
  /\ holder \in Clients \cup {None}
  /\ off \in 1..(2 * FRAMES)
  /\ pc \in [Clients -> {"idle", "get", "search", "got", "put", "freed"}]
  /\ npages \in [Clients -> 0..MaxRequest]
  /\ base \in [Clients -> 0..FRAMES]
  /\ held \in [Clients -> SUBSET Frames]
  /\ lost \in SUBSET Frames

\* memory_init has marked all memory as used.
PFInit ==
  /\ marked = Frames
  /\ alloc_start = -1
  /\ total_available_pages = 0
  /\ phase = "map"
  /\ holder = None
  /\ off = 1
  /\ pc = [c \in Clients |-> "idle"]
  /\ npages = [c \in Clients |-> 0]
  /\ base = [c \in Clients |-> 0]
  /\ held = [c \in Clients |-> {}]
  /\ lost = {}

clientVars == <<holder, off, pc, npages, base, held, lost>>

Run(s, n) == s..(s + n - 1)

-----------------------------------------------------------------------------
\* The frames in use when the kernel starts.
BootFrames == {MbInfo} \cup ModList \cup Modules \cup Kernel

\* The loops over the memory map, the multiboot information, the modules and
\* the kernel.  Each marked frame is subtracted, whether it was free or not.
memory_init ==
  /\ phase = "map"
  /\ phase' = "vma"
  /\ marked' = (Frames \ Available) \cup BootFrames
  /\ total_available_pages' = Cardinality(Available)
       - (1 + Cardinality(ModList) + Cardinality(Modules) + Cardinality(Kernel))
  /\ UNCHANGED <<alloc_start, clientVars>>

\* After vma_init, which allocates, the modules are marked a second time.
memory_init_modules ==
  /\ phase = "vma"
  /\ pc[Boot] = "idle"
  /\ phase' = "run"
  /\ marked' = marked \cup Modules
  /\ total_available_pages' = total_available_pages - Cardinality(Modules)
  /\ UNCHANGED <<alloc_start, clientVars>>

-----------------------------------------------------------------------------
MayCall(c) == pc[c] = "idle" /\ (phase = "run" \/ (phase = "vma" /\ c = Boot))

\* npages is unsigned: compared with it, a negative counter is a large number.
get_pages(c, n) ==
  /\ MayCall(c)
  /\ n <= total_available_pages \/ total_available_pages < 0
  /\ pc' = [pc EXCEPT ![c] = "get"]
  /\ npages' = [npages EXCEPT ![c] = n]
  /\ UNCHANGED <<marked, alloc_start, total_available_pages, phase, holder, off,
                 base, held, lost>>

get_lock(c) ==
  /\ pc[c] = "get"
  /\ holder = None
  /\ holder' = c
  /\ pc' = [pc EXCEPT ![c] = "search"]
  /\ off' = 1
  /\ alloc_start' = IF alloc_start = -1 THEN KERNEL_END ELSE alloc_start
  /\ UNCHANGED <<marked, total_available_pages, phase, npages, base, held, lost>>

\* Faulty variant: the last frame of a run is not tested.
ConflictMissesLast(s, n, cnt) ==
  /\ cnt \in 0..(n - 2)
  /\ s + cnt \in marked
  /\ \A k \in 0..(cnt - 1) : s + k \notin marked

\* Frame s + cnt is the first marked one of the run of n frames from s.
Conflict(s, n, cnt) ==
  /\ cnt \in 0..(n - 1)
  /\ s + cnt \in marked
  /\ \A k \in 0..(cnt - 1) : s + k \notin marked

\* Faulty variants: the search skips a frame; it stays where it is.
SkipTooFar(cnt) == cnt + 2
SkipTooShort(cnt) == cnt

Skip(cnt) == cnt + 1

\* The number of positions at which the search tries to place n frames.
Starts(n) == FRAMES - n

probe(c) ==
  LET n == npages[c]
      s == (off + alloc_start) % Starts(n)
  IN /\ pc[c] = "search"
     /\ off <= Starts(n)
     /\ \/ \E cnt \in 0..(n - 1) :
             /\ Conflict(s, n, cnt)
             /\ off' = off + Skip(cnt)
             /\ UNCHANGED <<marked, alloc_start, holder, pc, base>>
        \/ /\ \A cnt \in 0..(n - 1) : ~Conflict(s, n, cnt)
           /\ marked' = marked \cup Run(s, n)
           /\ alloc_start' = s + n
           /\ base' = [base EXCEPT ![c] = s]
           /\ pc' = [pc EXCEPT ![c] = "got"]
           /\ holder' = None
           /\ off' = 1
     /\ UNCHANGED <<total_available_pages, phase, npages, held, lost>>

give_up(c) ==
  /\ pc[c] = "search"
  /\ off > Starts(npages[c])
  /\ holder' = None
  /\ off' = 1
  /\ pc' = [pc EXCEPT ![c] = "idle"]
  /\ npages' = [npages EXCEPT ![c] = 0]
  /\ UNCHANGED <<marked, alloc_start, total_available_pages, phase, base, held, lost>>

\* The callers take the address 0 for a failure.
Failed(b) == b = 0

\* Frames that the caller does not know of are marked and nobody's.
get_return(c) ==
  LET run == Run(base[c], npages[c])
  IN /\ pc[c] = "got"
     /\ total_available_pages' = total_available_pages - npages[c]
     /\ IF Failed(base[c])
        THEN lost' = lost \cup run /\ UNCHANGED held
        ELSE held' = [held EXCEPT ![c] = @ \cup run] /\ UNCHANGED lost
     /\ pc' = [pc EXCEPT ![c] = "idle"]
     /\ npages' = [npages EXCEPT ![c] = 0]
     /\ base' = [base EXCEPT ![c] = 0]
     /\ UNCHANGED <<marked, alloc_start, phase, holder, off>>

\* A client gives back frames it holds, not necessarily all of them at once.
put_pages(c, b, n) ==
  /\ MayCall(c)
  /\ b # 0
  /\ Run(b, n) \subseteq held[c]
  /\ held' = [held EXCEPT ![c] = @ \ Run(b, n)]
  /\ pc' = [pc EXCEPT ![c] = "put"]
  /\ npages' = [npages EXCEPT ![c] = n]
  /\ base' = [base EXCEPT ![c] = b]
  /\ UNCHANGED <<marked, alloc_start, total_available_pages, phase, holder, off, lost>>

\* The whole critical section of put_pages; npages becomes its ret.
put_clear(c) ==
  LET run == Run(base[c], npages[c])
  IN /\ pc[c] = "put"
     /\ holder = None
     /\ marked' = marked \ run
     /\ npages' = [npages EXCEPT ![c] = Cardinality(run \cap marked)]
     /\ pc' = [pc EXCEPT ![c] = "freed"]
     /\ UNCHANGED <<alloc_start, total_available_pages, phase, holder, off, base,
                    held, lost>>

\* Faulty variant: one page too few is added.
PutOneLess(c) ==
  /\ pc[c] = "freed"
  /\ total_available_pages' = total_available_pages + npages[c] - 1
  /\ pc' = [pc EXCEPT ![c] = "idle"]
  /\ npages' = [npages EXCEPT ![c] = 0]
  /\ base' = [base EXCEPT ![c] = 0]
  /\ UNCHANGED <<marked, alloc_start, phase, holder, off, held, lost>>

put_return(c) ==
  /\ pc[c] = "freed"
  /\ total_available_pages' = total_available_pages + npages[c]
  /\ pc' = [pc EXCEPT ![c] = "idle"]
  /\ npages' = [npages EXCEPT ![c] = 0]
  /\ base' = [base EXCEPT ![c] = 0]
  /\ UNCHANGED <<marked, alloc_start, phase, holder, off, held, lost>>

-----------------------------------------------------------------------------
\* What a client does once it has called.
Step(c) == get_lock(c) \/ probe(c) \/ give_up(c) \/ get_return(c) \/ put_clear(c)
             \/ put_return(c)

PFNext ==
  \/ memory_init
  \/ memory_init_modules
  \/ \E c \in Clients :
       \/ \E n \in 1..MaxRequest :
            get_pages(c, n) \/ \E b \in Frames : put_pages(c, b, n)
       \/ Step(c)

PFSpec == PFInit /\ [][PFNext]_pfVars

\* Nobody is kept from the processor for ever, and the lock is a ticket lock.
PFFairness ==
  \A c \in Clients : /\ WF_pfVars(probe(c) \/ give_up(c))
                     /\ SF_pfVars(get_lock(c) \/ put_clear(c))
                     /\ WF_pfVars(get_return(c) \/ put_return(c))

-----------------------------------------------------------------------------
(***************************************************************************)
(* Properties.                                                             *)
(***************************************************************************)

\* The frames a client holds, or is in the middle of getting or giving back.
Mine(c) == held[c] \cup IF pc[c] \in {"got", "put"} THEN Run(base[c], npages[c]) ELSE {}

\* Whose every marked frame is: of the boot, of exactly one client, or lost.
\* No interleaving of searches and releases hands a frame to two clients, or a
\* frame of the kernel or a module to anybody.  Frames are lost only together with
\* frame 0, whose address get_pages cannot tell its caller: one run at most,
\* because nobody can give frame 0 back.
FramesOwned ==
  phase # "map" =>
    /\ \A c, d \in Clients : c # d => Mine(c) \cap Mine(d) = {}
    /\ \A c \in Clients : Mine(c) \cap (BootFrames \cup lost \cup (Frames \ Available)) = {}
    /\ marked = (Frames \ Available) \cup BootFrames \cup lost \cup UNION {Mine(c) : c \in Clients}
    /\ lost = {} \/ \E n \in 1..MaxRequest : lost = Run(0, n)

\* What memory_init subtracts although no frame was taken from the free ones.
BootSkew ==
  (1 + Cardinality(ModList) + 2 * Cardinality(Modules) + Cardinality(Kernel))
    - Cardinality(BootFrames \cap Available)

\* The pages of the calls that stand at where, one pair for each page.
Pending(where) ==
  {p \in Clients \X (1..MaxRequest) : pc[p[1]] = where /\ p[2] <= npages[p[1]]}

\* Although total_available_pages is read and written outside the lock, it does
\* not drift: but for calls in progress and the error memory_init has made, it
\* is the number of free frames.
NoDrift ==
  phase = "run" =>
    total_available_pages + BootSkew + Cardinality(Pending("freed")) =
      Cardinality(Frames \ marked) + Cardinality(Pending("got"))

\* The number of available pages that main prints is right when memory_init is
\* done and nothing is in progress.
AvailableExact ==
  phase = "run" /\ (\A c \in Clients : pc[c] = "idle") =>
    total_available_pages = Cardinality(Frames \ marked)

\* The search gives up only if no free run exists, except runs that touch the
\* last frame or begin in the first npages - 1 frames: those the skip across the
\* wrap-around misses.
SearchComplete ==
  [][\A c \in Clients : give_up(c) =>
       \A s \in (npages[c] - 1)..(Starts(npages[c]) - 1) :
         Run(s, npages[c]) \cap marked # {}]_pfVars

\* Every call of get_pages and put_pages returns: the search loop, which jumps
\* around the seam of the bitmap, ends.
FrameCallsReturn == \A c \in Clients : pc[c] # "idle" ~> pc[c] = "idle"
=============================================================================
