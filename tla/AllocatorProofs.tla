---------------------------- MODULE AllocatorProofs ----------------------------
(***************************************************************************)
(* The allocators, for every amount of memory and every memory map.  Each  *)
(* page frame has one owner, the counters agree with the bitmap, and       *)
(* get_pages gives up only when it has found no room.  The buddies and the *)
(* blocks in use divide the kernel heap.                                   *)
(***************************************************************************)
EXTENDS PageFrames, Buddy, FiniteSetTheorems, WellFoundedInduction, TLAPS

\* Before memory_init is done nobody calls the allocator.
BootQuiet ==
  phase = "map" => /\ \A c \in Clients : pc[c] = "idle" /\ held[c] = {}
                   /\ lost = {}

\* Frames on their way to or from a client are not among those it holds, a call of
\* get_pages asks for one frame at least, and no search begins at -1.
InTransit ==
  \A c \in Clients :
    /\ pc[c] \in {"got", "put"} => /\ held[c] \cap Run(base[c], npages[c]) = {}
                                   /\ Run(base[c], npages[c]) \subseteq Frames
    /\ pc[c] \in {"get", "search", "got"} => npages[c] \in 1..MaxRequest
    /\ pc[c] = "search" => alloc_start # -1

\* The inductive invariant.
PFInv == PFTypeOK /\ BootQuiet /\ InTransit /\ FramesOwned

\* The frames that nobody ever gets.
Fixed == (Frames \ Available) \cup BootFrames

\* FramesOwned frame by frame: the marked frames mk are the fixed ones, the lost
\* ones lo, and those that the function M gives to one client each.
Shared(mk, lo, M) ==
  /\ \A c, d \in Clients : c # d => M[c] \cap M[d] = {}
  /\ \A c \in Clients : M[c] \cap (Fixed \cup lo) = {}
  /\ \A f : f \in mk <=> f \in Fixed \cup lo \/ \E c \in Clients : f \in M[c]
  /\ lo = {} \/ \E n \in 1..MaxRequest : lo = Run(0, n)

MineF == [c \in Clients |-> Mine(c)]

-----------------------------------------------------------------------------
\* The position that the search tries is one at which the run fits into the bitmap.
LEMMA ProbeInRange ==
  ASSUME NEW n \in 1..MaxRequest, NEW o \in 1..(2 * FRAMES), NEW a \in 0..FRAMES
  PROVE  /\ Starts(n) \in Nat \ {0}
         /\ (o + a) % Starts(n) \in 0..(Starts(n) - 1)
         /\ Run((o + a) % Starts(n), n) \subseteq Frames
         /\ ((o + a) % Starts(n)) + n \in 0..FRAMES
<1>1. Starts(n) \in Nat \ {0}
  BY PageFramesAssumption DEF Starts
<1>2. (o + a) % Starts(n) \in 0..(Starts(n) - 1)
  BY <1>1, PageFramesAssumption
<1>3. QED
  BY <1>1, <1>2, PageFramesAssumption DEF Starts, Run, Frames

\* A set of numbers has a smallest one.
LEMMA Smallest ==
  ASSUME NEW T, T \subseteq Nat, NEW k \in T
  PROVE  \E x \in T : \A y \in T : ~(y < x)
<1> DEFINE R == OpToRel(<, Nat)
<1>1. IsWellFoundedOn(R, Nat)
  BY NatLessThanWellFounded
<1>2. \A x, y \in Nat : y < x => <<y, x>> \in R
  BY DEF OpToRel
<1> HIDE DEF R
<1>3. PICK x \in T : \A y \in T : ~(<<y, x>> \in R)
  BY <1>1, WFMin
<1>4. QED
  BY <1>2, <1>3, Zenon

\* No conflict at any place means that the whole run is free.
LEMMA NoConflict ==
  ASSUME NEW s \in Nat, NEW n \in Nat, \A cnt \in 0..(n - 1) : ~Conflict(s, n, cnt)
  PROVE  Run(s, n) \cap marked = {}
<1>1. SUFFICES ASSUME NEW k \in 0..(n - 1), s + k \in marked PROVE FALSE
  BY DEF Run
<1> DEFINE T == {i \in 0..(n - 1) : s + i \in marked}
<1>2. T \subseteq Nat /\ k \in T
  BY <1>1
<1>3. PICK x \in T : \A y \in T : ~(y < x)
  <2> HIDE DEF T
  <2> QED BY <1>2, Smallest
<1>4. Conflict(s, n, x)
  BY <1>3 DEF Conflict
<1>5. QED
  BY <1>4

-----------------------------------------------------------------------------
\* What the steps do to the ownership of frames.

\* The invariant in the form the lemmas about owners use.
LEMMA OwnedIsShared == FramesOwned <=> (phase # "map" => Shared(marked, lost, MineF))
BY DEF FramesOwned, Shared, MineF, Fixed

\* A client gets a run of free frames.
LEMMA SharedTake ==
  ASSUME NEW mk, NEW lo, NEW M, DOMAIN M = Clients, Shared(mk, lo, M), NEW c \in Clients, NEW r,
         r \cap mk = {}, NEW N, DOMAIN N = Clients, N[c] = M[c] \cup r,
         \A d \in Clients \ {c} : N[d] = M[d]
  PROVE  Shared(mk \cup r, lo, N)
BY DEF Shared

\* A client has given frames back.
LEMMA SharedGive ==
  ASSUME NEW mk, NEW lo, NEW M, DOMAIN M = Clients, Shared(mk, lo, M), NEW c \in Clients, NEW r,
         r \subseteq M[c], NEW N, DOMAIN N = Clients, N[c] = M[c] \ r,
         \A d \in Clients \ {c} : N[d] = M[d]
  PROVE  Shared(mk \ r, lo, N)
BY DEF Shared

\* A client does not learn of the run at frame 0, which it takes for a failure.
LEMMA SharedLose ==
  ASSUME NEW mk, NEW lo, NEW M, DOMAIN M = Clients, Shared(mk, lo, M), NEW c \in Clients,
         NEW n \in 1..MaxRequest, Run(0, n) \subseteq M[c],
         NEW N, DOMAIN N = Clients, N[c] = M[c] \ Run(0, n),
         \A d \in Clients \ {c} : N[d] = M[d]
  PROVE  Shared(mk, lo \cup Run(0, n), N)
<1>1. 0 \in Run(0, n) /\ \A m \in 1..MaxRequest : 0 \in Run(0, m)
  BY PageFramesAssumption DEF Run
<1>2. lo = {}
  BY <1>1 DEF Shared
<1>3. QED
  BY <1>2 DEF Shared

\* No step of the others, and nothing but these, changes FramesOwned.
LEMMA SharedSame ==
  ASSUME FramesOwned, phase' = phase, marked' = marked, lost' = lost,
         \A c \in Clients : Mine(c)' = Mine(c)
  PROVE  FramesOwned'
BY DEF FramesOwned

-----------------------------------------------------------------------------
\* The sets whose elements memory_init counts are finite.
LEMMA Counted ==
  /\ \A S \in SUBSET Frames : Cardinality(S) \in Nat
  /\ Cardinality(Kernel) \in Nat
<1>1. IsFiniteSet(Frames) /\ IsFiniteSet(Kernel)
  BY FS_Interval, PageFramesAssumption DEF Frames, Kernel
<1>2. QED
  BY <1>1, FS_Subset, FS_CardinalityType

\* put_pages clears at most as many bits as it was asked to.
LEMMA ClearedBits ==
  ASSUME NEW b \in Nat, NEW n \in 0..MaxRequest, NEW S
  PROVE  Cardinality(Run(b, n) \cap S) \in 0..MaxRequest
<1>1. IsFiniteSet(Run(b, n)) /\ Cardinality(Run(b, n)) = n
  <2>1. n \in Nat /\ b + n - 1 \in Int /\ b \in Int
    BY PageFramesAssumption
  <2>2. IsFiniteSet(b..(b + n - 1))
        /\ Cardinality(b..(b + n - 1)) = IF b > b + n - 1 THEN 0 ELSE (b + n - 1) - b + 1
    BY <2>1, FS_Interval
  <2>3. QED
    BY <2>1, <2>2 DEF Run
<1>2. /\ IsFiniteSet(Run(b, n) \cap S)
      /\ Cardinality(Run(b, n) \cap S) <= Cardinality(Run(b, n))
  BY <1>1, FS_Subset
<1>3. Cardinality(Run(b, n) \cap S) \in Nat
  BY <1>2, FS_CardinalityType
<1>4. QED
  BY <1>1, <1>2, <1>3, PageFramesAssumption

\* Every step preserves the types.
LEMMA TypeStep ==
  ASSUME PFTypeOK, InTransit, [PFNext]_pfVars
  PROVE  PFTypeOK'
<1> USE PageFramesAssumption
<1>1. CASE memory_init
  <2>1. total_available_pages' \in Int
    BY <1>1, Counted DEF memory_init
  <2>2. marked' \in SUBSET Frames
    BY <1>1 DEF memory_init, BootFrames, Kernel, Frames
  <2>3. QED
    BY <1>1, <2>1, <2>2 DEF memory_init, clientVars, PFTypeOK
<1>2. CASE memory_init_modules
  BY <1>2, Counted DEF memory_init_modules, clientVars, PFTypeOK
<1>3. ASSUME NEW c \in Clients, NEW n \in 1..MaxRequest, get_pages(c, n) PROVE PFTypeOK'
  BY <1>3 DEF get_pages, PFTypeOK
<1>4. ASSUME NEW c \in Clients, NEW n \in 1..MaxRequest, NEW b \in Frames, put_pages(c, b, n)
      PROVE  PFTypeOK'
  BY <1>4 DEF put_pages, PFTypeOK, Frames
<1>5. ASSUME NEW c \in Clients, get_lock(c) PROVE PFTypeOK'
  BY <1>5 DEF get_lock, PFTypeOK
<1>6. ASSUME NEW c \in Clients, probe(c) PROVE PFTypeOK'
  <2> DEFINE n == npages[c]
             s == (off + alloc_start) % Starts(n)
  <2>1. n \in 1..MaxRequest /\ off \in 1..(2 * FRAMES)
    BY <1>6 DEF probe, InTransit, PFTypeOK
  <2>2. alloc_start \in 0..FRAMES
    BY <1>6 DEF probe, InTransit, PFTypeOK
  <2>3. QED
    <3>1. /\ Starts(n) \in Nat \ {0} /\ s \in 0..(Starts(n) - 1)
          /\ Run(s, n) \subseteq Frames /\ s + n \in 0..FRAMES
      BY <2>1, <2>2, ProbeInRange
    <3>2. CASE \E cnt \in 0..(n - 1) : off' = off + Skip(cnt)
                 /\ UNCHANGED <<marked, alloc_start, holder, pc, base>>
      BY <1>6, <2>1, <3>2 DEF probe, PFTypeOK, Starts, Skip
    <3>3. CASE /\ marked' = marked \cup Run(s, n) /\ alloc_start' = s + n
               /\ base' = [base EXCEPT ![c] = s] /\ pc' = [pc EXCEPT ![c] = "got"]
               /\ holder' = None /\ off' = 1
      <4>1. s \in 0..FRAMES
        BY <2>1, <3>1 DEF Starts
      <4> HIDE DEF s, n
      <4>2. QED
        BY <1>6, <3>1, <3>3, <4>1 DEF probe, PFTypeOK
    <3>4. QED
      BY <1>6, <3>2, <3>3 DEF probe
<1>7. ASSUME NEW c \in Clients, give_up(c) PROVE PFTypeOK'
  BY <1>7 DEF give_up, PFTypeOK
<1>8. ASSUME NEW c \in Clients, get_return(c) PROVE PFTypeOK'
  BY <1>8 DEF get_return, PFTypeOK, InTransit
<1>9. ASSUME NEW c \in Clients, put_clear(c) PROVE PFTypeOK'
  <2>1. npages' \in [Clients -> 0..MaxRequest]
    <3>1. base[c] \in Nat /\ npages[c] \in 0..MaxRequest
      BY DEF PFTypeOK
    <3>2. QED
      BY <1>9, <3>1, ClearedBits DEF put_clear, PFTypeOK
  <2>2. QED
    BY <1>9, <2>1 DEF put_clear, PFTypeOK
<1>10. ASSUME NEW c \in Clients, put_return(c) PROVE PFTypeOK'
  BY <1>10 DEF put_return, PFTypeOK
<1>11. CASE UNCHANGED pfVars
  BY <1>11 DEF pfVars, PFTypeOK
<1>12. QED
  BY <1>1, <1>2, <1>3, <1>4, <1>5, <1>6, <1>7, <1>8, <1>9, <1>10, <1>11 DEF PFNext, Step

\* What a successful probe knows of its run.
LEMMA ProbeRun ==
  ASSUME PFInv, NEW c \in Clients, probe(c),
         \A cnt \in 0..(npages[c] - 1) :
           ~Conflict((off + alloc_start) % Starts(npages[c]), npages[c], cnt)
  PROVE  LET run == Run((off + alloc_start) % Starts(npages[c]), npages[c])
         IN  run \subseteq Frames /\ run \cap marked = {}
<1> DEFINE n == npages[c]
           s == (off + alloc_start) % Starts(n)
<1>1. n \in 1..MaxRequest /\ off \in 1..(2 * FRAMES) /\ alloc_start \in 0..FRAMES
  BY DEF PFInv, probe, InTransit, PFTypeOK
<1>2. s \in 0..(Starts(n) - 1) /\ Starts(n) \in Nat /\ Run(s, n) \subseteq Frames
  BY <1>1, ProbeInRange
<1>3. s \in Nat /\ n \in Nat
  BY <1>1, <1>2, PageFramesAssumption
<1> HIDE DEF s, n
<1>4. (\A cnt \in 0..(n - 1) : ~Conflict(s, n, cnt)) => Run(s, n) \cap marked = {}
  BY <1>3, NoConflict
<1>5. QED
  BY <1>2, <1>4 DEF s, n

\* Every step preserves what is known of calls under way.
LEMMA TransitStep ==
  ASSUME PFInv, [PFNext]_pfVars
  PROVE  BootQuiet' /\ InTransit'
<1> USE PageFramesAssumption DEF PFInv
<1>1. CASE memory_init
  BY <1>1 DEF memory_init, clientVars, PFTypeOK, BootQuiet, InTransit
<1>2. CASE memory_init_modules
  BY <1>2 DEF memory_init_modules, clientVars, PFTypeOK, BootQuiet, InTransit
<1>3. ASSUME NEW c \in Clients, NEW n \in 1..MaxRequest, get_pages(c, n)
      PROVE  BootQuiet' /\ InTransit'
  BY <1>3 DEF get_pages, MayCall, PFTypeOK, BootQuiet, InTransit
<1>4. ASSUME NEW c \in Clients, NEW n \in 1..MaxRequest, NEW b \in Frames, put_pages(c, b, n)
      PROVE  BootQuiet' /\ InTransit'
  BY <1>4 DEF put_pages, MayCall, PFTypeOK, BootQuiet, InTransit
<1>5. ASSUME NEW c \in Clients, get_lock(c) PROVE BootQuiet' /\ InTransit'
  BY <1>5 DEF get_lock, PFTypeOK, BootQuiet, InTransit
<1>6. ASSUME NEW c \in Clients, probe(c) PROVE BootQuiet' /\ InTransit'
  <2> DEFINE n == npages[c]
             s == (off + alloc_start) % Starts(n)
  <2>1. BootQuiet'
    BY <1>6 DEF probe, BootQuiet
  <2>2. CASE UNCHANGED <<marked, alloc_start, holder, pc, base>>
    BY <1>6, <2>1, <2>2 DEF probe, InTransit
  <2>3. CASE /\ \A cnt \in 0..(n - 1) : ~Conflict(s, n, cnt)
             /\ alloc_start' = s + n
             /\ base' = [base EXCEPT ![c] = s] /\ pc' = [pc EXCEPT ![c] = "got"]
    <3>1. Run(s, n) \subseteq Frames /\ Run(s, n) \cap marked = {}
      BY <1>6, <2>3, ProbeRun
    <3>2. held[c] \subseteq marked
      BY <1>6 DEF probe, BootQuiet, FramesOwned, Mine
    <3>3. alloc_start' # -1
      <4>1. n \in 1..MaxRequest /\ off \in 1..(2 * FRAMES) /\ alloc_start \in 0..FRAMES
        BY <1>6 DEF probe, InTransit, PFTypeOK
      <4>2. s + n \in 0..FRAMES
        BY <4>1, ProbeInRange
      <4> HIDE DEF s, n
      <4>3. QED
        BY <2>3, <4>2
    <3> HIDE DEF s, n
    <3>4. base'[c] = s /\ npages'[c] = n /\ held' = held /\ pc'[c] = "got"
          /\ n \in 1..MaxRequest
      BY <1>6, <2>3 DEF probe, PFTypeOK, InTransit, n
    <3>5. \A d \in Clients \ {c} : pc'[d] = pc[d] /\ base'[d] = base[d] /\ npages'[d] = npages[d]
      BY <1>6, <2>3 DEF probe, PFTypeOK
    <3>6. QED
      BY <2>1, <3>1, <3>2, <3>3, <3>4, <3>5 DEF InTransit
  <2>4. QED
    BY <1>6, <2>2, <2>3 DEF probe
<1>7. ASSUME NEW c \in Clients, give_up(c) PROVE BootQuiet' /\ InTransit'
  BY <1>7 DEF give_up, PFTypeOK, BootQuiet, InTransit
<1>8. ASSUME NEW c \in Clients, get_return(c) PROVE BootQuiet' /\ InTransit'
  BY <1>8 DEF get_return, PFTypeOK, BootQuiet, InTransit
<1>9. ASSUME NEW c \in Clients, put_clear(c) PROVE BootQuiet' /\ InTransit'
  BY <1>9 DEF put_clear, PFTypeOK, BootQuiet, InTransit
<1>10. ASSUME NEW c \in Clients, put_return(c) PROVE BootQuiet' /\ InTransit'
  BY <1>10 DEF put_return, PFTypeOK, BootQuiet, InTransit
<1>11. CASE UNCHANGED pfVars
  BY <1>11 DEF pfVars, BootQuiet, InTransit
<1>12. QED
  BY <1>1, <1>2, <1>3, <1>4, <1>5, <1>6, <1>7, <1>8, <1>9, <1>10, <1>11 DEF PFNext, Step

\* Every step leaves each frame with one owner.
LEMMA OwnedStep ==
  ASSUME PFInv, [PFNext]_pfVars
  PROVE  FramesOwned'
<1> USE PageFramesAssumption DEF PFInv
<1>1. CASE memory_init
  <2>1. \A c \in Clients : Mine(c)' = {}
    BY <1>1 DEF memory_init, clientVars, BootQuiet, Mine
  <2>2. marked' = Fixed /\ lost' = {}
    BY <1>1 DEF memory_init, clientVars, BootQuiet, Fixed
  <2>3. QED
    BY <2>1, <2>2 DEF FramesOwned, Fixed
<1>2. CASE memory_init_modules
  <2>1. marked' = marked /\ phase # "map"
    BY <1>2 DEF memory_init_modules, FramesOwned, BootFrames
  <2>2. \A c \in Clients : Mine(c)' = Mine(c)
    BY <1>2 DEF memory_init_modules, clientVars, Mine
  <2>3. lost' = lost
    BY <1>2 DEF memory_init_modules, clientVars
  <2>4. QED
    BY <2>1, <2>2, <2>3 DEF FramesOwned
<1>3. ASSUME NEW c \in Clients, NEW n \in 1..MaxRequest, get_pages(c, n) PROVE FramesOwned'
  <2>1. \A d \in Clients : Mine(d)' = Mine(d)
    BY <1>3 DEF get_pages, MayCall, Mine, PFTypeOK
  <2>2. QED
    BY <1>3, <2>1, SharedSame DEF get_pages
<1>4. ASSUME NEW c \in Clients, NEW n \in 1..MaxRequest, NEW b \in Frames, put_pages(c, b, n)
      PROVE  FramesOwned'
  <2>1. \A d \in Clients : Mine(d)' = Mine(d)
    BY <1>4 DEF put_pages, MayCall, Mine, PFTypeOK
  <2>2. QED
    BY <1>4, <2>1, SharedSame DEF put_pages
<1>5. ASSUME NEW c \in Clients, get_lock(c) PROVE FramesOwned'
  <2>1. \A d \in Clients : Mine(d)' = Mine(d)
    BY <1>5 DEF get_lock, Mine, PFTypeOK
  <2>2. QED
    BY <1>5, <2>1, SharedSame DEF get_lock
<1>6. ASSUME NEW c \in Clients, probe(c) PROVE FramesOwned'
  <2> DEFINE n == npages[c]
             s == (off + alloc_start) % Starts(n)
  <2>1. CASE UNCHANGED <<marked, alloc_start, holder, pc, base>>
    <3>1. \A d \in Clients : Mine(d)' = Mine(d)
      BY <1>6, <2>1 DEF probe, Mine
    <3>2. QED
      BY <1>6, <2>1, <3>1, SharedSame DEF probe
  <2>2. CASE /\ \A cnt \in 0..(n - 1) : ~Conflict(s, n, cnt)
             /\ marked' = marked \cup Run(s, n)
             /\ base' = [base EXCEPT ![c] = s] /\ pc' = [pc EXCEPT ![c] = "got"]
    <3>1. Run(s, n) \cap marked = {}
      BY <1>6, <2>2, ProbeRun
    <3> HIDE DEF s
    <3>2. Mine(c)' = Mine(c) \cup Run(s, n)
      BY <1>6, <2>2 DEF probe, Mine, PFTypeOK
    <3>3. \A d \in Clients \ {c} : Mine(d)' = Mine(d)
      BY <1>6, <2>2 DEF probe, Mine, PFTypeOK
    <3>4. phase # "map" /\ phase' = phase /\ lost' = lost
      BY <1>6 DEF probe, BootQuiet
    <3>5. Shared(marked, lost, MineF)
      BY <3>4, OwnedIsShared
    <3>6. Shared(marked \cup Run(s, n), lost, MineF')
      BY <3>1, <3>2, <3>3, <3>5, SharedTake DEF MineF
    <3>7. Shared(marked, lost, MineF)'
      BY <2>2, <3>4, <3>6 DEF Shared
    <3>8. QED
      BY <3>7 DEF FramesOwned, Shared, MineF, Fixed
  <2>3. QED
    BY <1>6, <2>1, <2>2 DEF probe
<1>7. ASSUME NEW c \in Clients, give_up(c) PROVE FramesOwned'
  <2>1. \A d \in Clients : Mine(d)' = Mine(d)
    BY <1>7 DEF give_up, Mine, PFTypeOK
  <2>2. QED
    BY <1>7, <2>1, SharedSame DEF give_up
<1>8. ASSUME NEW c \in Clients, get_return(c) PROVE FramesOwned'
  <2> DEFINE run == Run(base[c], npages[c])
  <2>1. phase # "map" /\ phase' = phase /\ marked' = marked /\ pc[c] = "got"
    BY <1>8 DEF get_return, BootQuiet
  <2>2. \A d \in Clients \ {c} : Mine(d)' = Mine(d)
    BY <1>8 DEF get_return, Mine, PFTypeOK
  <2>3. CASE ~Failed(base[c])
    <3>1. Mine(c)' = Mine(c) /\ lost' = lost
      BY <1>8, <2>3 DEF get_return, Mine, PFTypeOK
    <3>2. QED
      BY <2>1, <2>2, <3>1, SharedSame
  <2>4. CASE Failed(base[c])
    <3>1. run = Run(0, npages[c]) /\ npages[c] \in 1..MaxRequest
      BY <2>1, <2>4 DEF Failed, InTransit
    <3>2. run \subseteq Mine(c) /\ Mine(c)' = Mine(c) \ run
      BY <1>8, <2>1, <2>4 DEF get_return, Mine, PFTypeOK, InTransit
    <3>3. lost' = lost \cup run
      BY <1>8, <2>4 DEF get_return
    <3>4. Shared(marked, lost, MineF)
      BY <2>1, OwnedIsShared
    <3>5. Shared(marked, lost \cup run, MineF')
      <4> HIDE DEF run
      <4>1. QED
        BY <2>2, <3>1, <3>2, <3>4, SharedLose DEF MineF
    <3>6. Shared(marked, lost, MineF)'
      BY <2>1, <3>3, <3>5 DEF Shared
    <3>7. QED
      BY <3>6 DEF FramesOwned, Shared, MineF, Fixed
  <2>5. QED
    BY <2>3, <2>4
<1>9. ASSUME NEW c \in Clients, put_clear(c) PROVE FramesOwned'
  <2> DEFINE run == Run(base[c], npages[c])
  <2>1. phase # "map" /\ phase' = phase /\ lost' = lost /\ marked' = marked \ run
    BY <1>9 DEF put_clear, BootQuiet
  <2>2. \A d \in Clients \ {c} : Mine(d)' = Mine(d)
    BY <1>9 DEF put_clear, Mine, PFTypeOK
  <2>3. run \subseteq Mine(c) /\ Mine(c)' = Mine(c) \ run
    BY <1>9 DEF put_clear, Mine, PFTypeOK, InTransit
  <2>4. Shared(marked, lost, MineF)
    BY <2>1, OwnedIsShared
  <2> HIDE DEF run
  <2>5. Shared(marked \ run, lost, MineF')
    BY <2>2, <2>3, <2>4, SharedGive, ZenonT(60) DEF MineF
  <2>6. Shared(marked, lost, MineF)'
    BY <2>1, <2>5 DEF Shared
  <2>7. QED
    BY <2>6 DEF FramesOwned, Shared, MineF, Fixed
<1>10. ASSUME NEW c \in Clients, put_return(c) PROVE FramesOwned'
  <2>1. \A d \in Clients : Mine(d)' = Mine(d)
    BY <1>10 DEF put_return, Mine, PFTypeOK
  <2>2. QED
    BY <1>10, <2>1, SharedSame DEF put_return
<1>11. CASE UNCHANGED pfVars
  BY <1>11 DEF pfVars, FramesOwned, Mine
<1>12. QED
  BY <1>1, <1>2, <1>3, <1>4, <1>5, <1>6, <1>7, <1>8, <1>9, <1>10, <1>11 DEF PFNext, Step

-----------------------------------------------------------------------------
\* Division with remainder.
LEMMA DivMod ==
  ASSUME NEW S \in Nat \ {0}, NEW x \in Nat
  PROVE  x = S * (x \div S) + (x % S) /\ x % S \in 0..(S - 1) /\ x \div S \in Nat
OBVIOUS

\* The remainder is the only one.
LEMMA ModUnique ==
  ASSUME NEW S \in Nat \ {0}, NEW q \in Nat, NEW r \in 0..(S - 1), NEW x, x = S * q + r
  PROVE  x % S = r
OBVIOUS

\* Moving on by j from position x of a circle of S positions, and past its seam.
LEMMA ModAdd ==
  ASSUME NEW S \in Nat \ {0}, NEW x \in Nat, NEW j \in Nat, (x % S) + j < 2 * S
  PROVE  (x + j) % S = IF (x % S) + j < S THEN (x % S) + j ELSE (x % S) + j - S
<1> DEFINE q == x \div S
           r == x % S
<1>1. x = S * q + r /\ r \in 0..(S - 1) /\ q \in Nat
  BY DivMod
<1>2. r + j < 2 * S
  OBVIOUS
<1> HIDE DEF q, r
<1>3. CASE r + j < S
  <2> DEFINE t == r + j
             y == x + j
  <2>1. t \in 0..(S - 1) /\ y = S * q + t /\ q \in Nat
    BY <1>1, <1>3
  <2>2. y % S = t
    <3> HIDE DEF t, y
    <3> QED BY <2>1, ModUnique
  <2>3. QED
    BY <1>3, <2>2 DEF r
<1>4. CASE ~(r + j < S)
  <2>1. S * (q + 1) = S * q + S
    BY <1>1
  <2>2. r + j - S \in 0..(S - 1) /\ x + j = S * (q + 1) + (r + j - S) /\ q + 1 \in Nat
    BY <1>1, <1>2, <1>4, <2>1
  <2> DEFINE p == q + 1
             t == r + j - S
             y == x + j
  <2>3. y % S = t
    <3>1. t \in 0..(S - 1) /\ y = S * p + t /\ p \in Nat
      BY <2>2
    <3> HIDE DEF p, t, y
    <3>2. QED
      BY <3>1, ModUnique
  <2>4. QED
    BY <1>4, <2>3 DEF r
<1>5. QED
  BY <1>3, <1>4

\* S steps visit every position of the circle.
LEMMA ModCovers ==
  ASSUME NEW S \in Nat \ {0}, NEW a \in Nat, NEW s \in 0..(S - 1)
  PROVE  \E o \in 1..S : (o + a) % S = s
<1> DEFINE r == a % S
           j == IF s > r THEN s - r ELSE s - r + S
<1>1. r \in 0..(S - 1)
  BY DivMod
<1>2. j \in 1..S /\ r + j < 2 * S /\ s = IF r + j < S THEN r + j ELSE r + j - S
  BY <1>1
<1> HIDE DEF j
<1>3. (a + j) % S = s
  <2>1. j \in Nat /\ (a % S) + j < 2 * S
    BY <1>2
  <2>2. (a + j) % S = IF (a % S) + j < S THEN (a % S) + j ELSE (a % S) + j - S
    BY <2>1, ModAdd, Zenon
  <2>3. QED
    BY <1>2, <2>2
<1>4. (j + a) % S = s
  <2>1. j + a = a + j
    BY <1>2
  <2>2. QED
    BY <1>3, <2>1
<1>5. QED
  BY <1>2, <1>4

\* Once past the seam, the position is at most the distance gone since.
LEMMA ModPast ==
  ASSUME NEW S \in Nat \ {0}, NEW x \in Nat, NEW j \in Nat, (x % S) + j >= S
  PROVE  (x + j) % S <= (x % S) + j - S
<1> DEFINE q == x \div S
           r == x % S
           t == r + j - S
           u == t \div S
           v == t % S
           p == q + 1 + u
<1>1. x = S * q + r /\ r \in 0..(S - 1) /\ q \in Nat /\ t \in Nat
  <2>1. x = S * q + r /\ r \in 0..(S - 1) /\ q \in Nat
    BY DivMod
  <2>2. QED
    BY <2>1
<1>2. t = S * u + v /\ v \in 0..(S - 1) /\ u \in Nat
  <2> HIDE DEF t
  <2> QED BY <1>1, DivMod
<1>3. v <= t
  <2>1. S * u \in Nat
    BY <1>2
  <2>2. QED
    BY <1>1, <1>2, <2>1
<1> HIDE DEF q, r, u, v
<1>4. x + j = S * p + v /\ p \in Nat
  <2>1. S * p = S * q + S + S * u
    BY <1>1, <1>2
  <2>2. QED
    BY <1>1, <1>2, <2>1
<1>5. (x + j) % S = v
  <2>1. v \in 0..(S - 1)
    BY <1>2
  <2> HIDE DEF p, t
  <2>2. QED
    BY <1>4, <2>1, ModUnique
<1>6. QED
  BY <1>3, <1>5 DEF r

-----------------------------------------------------------------------------
\* The offset o of the search, and whether a run of n frames from s is out of the
\* question: it has a marked frame, or is one that SearchComplete leaves out.
Position(o, a, n) == (o + a) % Starts(n)
NoRoom(mk, n, s) == s >= n - 1 => Run(s, n) \cap mk # {}

\* Who searches holds the lock, and all offsets behind the search have no room.
Searched ==
  \A c \in Clients :
    /\ pc[c] = "search" <=> holder = c
    /\ pc[c] = "search" =>
         \A o \in 1..(off - 1) : NoRoom(marked, npages[c], Position(o, alloc_start, npages[c]))

\* The offsets that the search skips because of a marked frame have no room.
LEMMA SkipsNoRoom ==
  ASSUME NEW n \in 1..MaxRequest, NEW o \in 1..(2 * FRAMES), NEW a \in 0..FRAMES, NEW mk,
         NEW cnt \in 0..(n - 1), Position(o, a, n) + cnt \in mk, NEW j \in 0..cnt
  PROVE  NoRoom(mk, n, Position(o + j, a, n))
<1> DEFINE S == Starts(n)
           x == o + a
           r == x % S
           y == (x + j) % S
<1>1. S \in Nat \ {0} /\ x \in Nat /\ j \in Nat /\ n \in Nat /\ r \in 0..(S - 1)
  <2>1. S \in Nat \ {0} /\ r \in 0..(S - 1)
    BY ProbeInRange, Zenon
  <2>2. QED
    BY <2>1, PageFramesAssumption
<1>2. Position(o + j, a, n) = y /\ Position(o, a, n) = r
  <2>1. (o + j) + a = x + j
    BY <1>1, PageFramesAssumption
  <2>2. QED
    BY <2>1 DEF Position
<1> HIDE DEF S, x
<1>3. CASE r + j < S
  <2>1. (x % S) + j < 2 * S
    BY <1>1, <1>3
  <2>2. y = r + j
    BY <1>1, <1>3, <2>1, ModAdd, Zenon
  <2> HIDE DEF y, r
  <2>3. r + cnt \in Run(y, n)
    BY <1>1, <2>2 DEF Run
  <2>4. QED
    BY <1>2, <2>3 DEF NoRoom
<1>4. CASE ~(r + j < S)
  <2>1. (x % S) + j >= S
    BY <1>1, <1>4
  <2>2. y <= r + j - S
    BY <1>1, <2>1, ModPast, Zenon
  <2>3. y \in Int
    BY <1>1
  <2> HIDE DEF y, r
  <2>4. ~(y >= n - 1)
    BY <1>1, <2>2, <2>3
  <2>5. QED
    BY <1>2, <2>4 DEF NoRoom
<1>5. QED
  BY <1>3, <1>4

\* A step that frees no frame and does not touch the search.
LEMMA SearchSame ==
  ASSUME Searched, off' = off, alloc_start' = alloc_start, holder' = holder, marked \subseteq marked',
         \A d \in Clients : /\ pc'[d] = "search" <=> pc[d] = "search"
                            /\ pc[d] = "search" => npages'[d] = npages[d]
  PROVE  Searched'
BY DEF Searched, NoRoom

\* A step after which nobody searches.
LEMMA NobodySearches ==
  ASSUME holder' = None, \A d \in Clients : pc'[d] # "search"
  PROVE  Searched'
BY PageFramesAssumption DEF Searched

\* Every step keeps the offsets behind the search without room.
LEMMA SearchStep ==
  ASSUME PFInv, Searched, [PFNext]_pfVars
  PROVE  Searched'
<1> USE DEF PFInv
<1>1. CASE memory_init
  <2>1. \A d \in Clients : pc[d] # "search"
    BY <1>1 DEF memory_init, BootQuiet
  <2>2. holder' = None /\ pc' = pc
    BY <1>1, <2>1 DEF memory_init, clientVars, Searched, PFTypeOK
  <2>3. QED
    BY <2>1, <2>2, NobodySearches
<1>2. CASE memory_init_modules
  BY <1>2, SearchSame DEF memory_init_modules, clientVars
<1>3. ASSUME NEW c \in Clients, NEW n \in 1..MaxRequest, get_pages(c, n) PROVE Searched'
  BY <1>3, SearchSame DEF get_pages, MayCall, PFTypeOK
<1>4. ASSUME NEW c \in Clients, NEW n \in 1..MaxRequest, NEW b \in Frames, put_pages(c, b, n)
      PROVE  Searched'
  BY <1>4, SearchSame DEF put_pages, MayCall, PFTypeOK
<1>5. ASSUME NEW c \in Clients, get_lock(c) PROVE Searched'
  <2>1. \A d \in Clients : pc'[d] = "search" <=> d = c
    BY <1>5, PageFramesAssumption DEF get_lock, Searched, PFTypeOK
  <2>2. holder' = c /\ off' = 1
    BY <1>5 DEF get_lock
  <2>3. QED
    BY <2>1, <2>2 DEF Searched
<1>6. ASSUME NEW c \in Clients, probe(c) PROVE Searched'
  <2> DEFINE n == npages[c]
             s == (off + alloc_start) % Starts(n)
  <2>1. pc[c] = "search" /\ holder = c /\ \A d \in Clients \ {c} : pc[d] # "search"
    BY <1>6 DEF probe, Searched
  <2>2. ASSUME NEW cnt \in 0..(n - 1), Conflict(s, n, cnt), off' = off + Skip(cnt),
               UNCHANGED <<marked, alloc_start, holder, pc, base>>
        PROVE  Searched'
    <3>1. n \in 1..MaxRequest /\ off \in 1..(2 * FRAMES) /\ alloc_start \in 0..FRAMES
      BY <1>6 DEF probe, InTransit, PFTypeOK
    <3>2. Position(off, alloc_start, n) + cnt \in marked
      BY <2>2 DEF Conflict, Position
    <3> HIDE DEF s, n
    <3>3. \A j \in 0..cnt : NoRoom(marked, n, Position(off + j, alloc_start, n))
      BY <3>1, <3>2, SkipsNoRoom
    <3>4. \A o \in 1..(off - 1) : NoRoom(marked, n, Position(o, alloc_start, n))
      BY <2>1 DEF Searched, n
    <3>5. ASSUME NEW o \in 1..(off' - 1) PROVE NoRoom(marked, n, Position(o, alloc_start, n))
      <4>1. CASE o < off
        BY <3>1, <3>4, <3>5, <4>1, PageFramesAssumption
      <4>2. CASE ~(o < off)
        <5>1. o - off \in 0..cnt /\ off + (o - off) = o
          BY <2>2, <3>1, <3>5, <4>2, PageFramesAssumption DEF Skip
        <5>2. NoRoom(marked, n, Position(off + (o - off), alloc_start, n))
          BY <3>3, <5>1
        <5>3. QED
          BY <5>1, <5>2
      <4>3. QED
        BY <4>1, <4>2
    <3>6. npages' = npages
      BY <1>6 DEF probe
    <3>7. QED
      BY <2>1, <2>2, <3>5, <3>6 DEF Searched, n
  <2>3. CASE pc' = [pc EXCEPT ![c] = "got"] /\ holder' = None
    BY <2>1, <2>3, NobodySearches DEF PFTypeOK
  <2>4. QED
    BY <1>6, <2>2, <2>3 DEF probe
<1>7. ASSUME NEW c \in Clients, give_up(c) PROVE Searched'
  <2>1. \A d \in Clients \ {c} : pc[d] # "search"
    BY <1>7 DEF give_up, Searched
  <2>2. QED
    BY <1>7, <2>1, NobodySearches DEF give_up, PFTypeOK
<1>8. ASSUME NEW c \in Clients, get_return(c) PROVE Searched'
  BY <1>8, SearchSame DEF get_return, PFTypeOK
<1>9. ASSUME NEW c \in Clients, put_clear(c) PROVE Searched'
  <2>1. \A d \in Clients : pc[d] # "search"
    BY <1>9, PageFramesAssumption DEF put_clear, Searched
  <2>2. QED
    BY <1>9, <2>1, NobodySearches DEF put_clear, PFTypeOK
<1>10. ASSUME NEW c \in Clients, put_return(c) PROVE Searched'
  BY <1>10, SearchSame DEF put_return, PFTypeOK
<1>11. CASE UNCHANGED pfVars
  BY <1>11, SearchSame DEF pfVars
<1>12. QED
  BY <1>1, <1>2, <1>3, <1>4, <1>5, <1>6, <1>7, <1>8, <1>9, <1>10, <1>11 DEF PFNext, Step

\* A search that gives up has seen all positions but those around the seam.
LEMMA GivesUp ==
  ASSUME PFInv, Searched, NEW c \in Clients, give_up(c),
         NEW s \in (npages[c] - 1)..(Starts(npages[c]) - 1)
  PROVE  Run(s, npages[c]) \cap marked # {}
<1> DEFINE n == npages[c]
           S == Starts(n)
<1>1. pc[c] = "search" /\ off > S /\ n \in 1..MaxRequest /\ off \in Nat /\ alloc_start \in 0..FRAMES
  BY PageFramesAssumption DEF PFInv, give_up, InTransit, PFTypeOK
<1>2. S \in Nat \ {0} /\ s \in 0..(S - 1) /\ s >= n - 1 /\ n \in Nat /\ alloc_start \in Nat
  BY <1>1, PageFramesAssumption DEF Starts
<1>3. \A o \in 1..(off - 1) : NoRoom(marked, n, Position(o, alloc_start, n))
  BY <1>1 DEF Searched
<1>4. PICK o \in 1..S : (o + alloc_start) % S = s
  <2> HIDE DEF S
  <2> QED BY <1>2, ModCovers
<1>5. o \in 1..(off - 1)
  BY <1>1, <1>2
<1>6. Position(o, alloc_start, n) = s
  BY <1>4 DEF Position
<1>7. NoRoom(marked, n, s)
  BY <1>3, <1>5, <1>6
<1>8. QED
  BY <1>2, <1>7 DEF NoRoom

-----------------------------------------------------------------------------
\* The pages of calls that stand at w, for given values of pc and npages.
PendingIn(p, np, w) == {x \in Clients \X (1..MaxRequest) : p[x[1]] = w /\ x[2] <= np[x[1]]}

\* The numbers from 1 to n are n.
LEMMA UpTo ==
  ASSUME NEW n \in Nat
  PROVE  IsFiniteSet(1..n) /\ Cardinality(1..n) = n
<1>1. /\ IsFiniteSet(1..n)
      /\ Cardinality(1..n) = IF 1 > n THEN 0 ELSE n - 1 + 1
  BY FS_Interval
<1>2. QED
  BY <1>1

\* The possible pairs of a client and a page are finitely many.
LEMMA PairsFinite == IsFiniteSet(Clients \X (1..MaxRequest))
<1>1. IsFiniteSet(Clients) /\ IsFiniteSet(1..MaxRequest)
  BY UpTo, PageFramesAssumption
<1>2. QED
  BY <1>1, FS_Product

\* When a call leaves the place w, its pages are no longer pending there.
LEMMA PendingLess ==
  ASSUME NEW p, NEW q, NEW np, NEW mp, NEW w, NEW c \in Clients, p[c] = w, q[c] # w,
         np[c] \in 0..MaxRequest, \A d \in Clients \ {c} : q[d] = p[d] /\ mp[d] = np[d]
  PROVE  /\ Cardinality(PendingIn(p, np, w)) = Cardinality(PendingIn(q, mp, w)) + np[c]
         /\ Cardinality(PendingIn(q, mp, w)) \in Nat
<1> DEFINE A == PendingIn(q, mp, w)
           B == {c} \X (1..np[c])
<1> USE PageFramesAssumption
<1>1. IsFiniteSet(A) /\ Cardinality(A) \in Nat
  <2>1. A \subseteq Clients \X (1..MaxRequest)
    BY DEF PendingIn
  <2>2. QED
    BY <2>1, PairsFinite, FS_Subset, FS_CardinalityType
<1>2. IsFiniteSet(B) /\ Cardinality(B) = np[c]
  <2>1. np[c] \in Nat /\ IsFiniteSet(1..np[c]) /\ Cardinality(1..np[c]) = np[c]
    BY UpTo
  <2>2. IsFiniteSet({c}) /\ Cardinality({c}) = 1
    BY FS_Singleton
  <2>3. IsFiniteSet(B) /\ Cardinality(B) = Cardinality({c}) * Cardinality(1..np[c])
    BY <2>1, <2>2, FS_Product, Zenon
  <2>4. QED
    BY <2>1, <2>2, <2>3
<1>3. PendingIn(p, np, w) = A \cup B
  <2>1. ASSUME NEW x \in PendingIn(p, np, w) PROVE x \in A \cup B
    BY <2>1 DEF PendingIn
  <2>2. ASSUME NEW x \in A PROVE x \in PendingIn(p, np, w)
    BY <2>2 DEF PendingIn
  <2>3. ASSUME NEW x \in B PROVE x \in PendingIn(p, np, w)
    BY <2>3 DEF PendingIn
  <2>4. QED
    BY <2>1, <2>2, <2>3
<1>4. A \cap B = {}
  BY DEF PendingIn
<1> HIDE DEF A, B
<1>5. Cardinality(A \cup B) = Cardinality(A) + Cardinality(B) - Cardinality({})
  BY <1>1, <1>2, <1>4, FS_Union
<1>6. QED
  BY <1>1, <1>2, <1>3, <1>5, FS_EmptySet DEF A

\* Taking free frames leaves so many fewer.
LEMMA FreeLess ==
  ASSUME NEW mk \in SUBSET Frames, NEW r \in SUBSET Frames, r \cap mk = {}
  PROVE  /\ Cardinality(Frames \ mk) = Cardinality(Frames \ (mk \cup r)) + Cardinality(r)
         /\ Cardinality(Frames \ mk) \in Nat /\ Cardinality(r) \in Nat
         /\ Cardinality(Frames \ (mk \cup r)) \in Nat
<1> DEFINE A == Frames \ (mk \cup r)
<1>1. IsFiniteSet(Frames)
  BY FS_Interval, PageFramesAssumption DEF Frames
<1>2. IsFiniteSet(A) /\ IsFiniteSet(r) /\ IsFiniteSet(Frames \ mk)
  BY <1>1, FS_Subset
<1>3. A \cup r = Frames \ mk /\ A \cap r = {}
  OBVIOUS
<1> HIDE DEF A
<1>4. Cardinality(A \cup r) = Cardinality(A) + Cardinality(r) - Cardinality({})
  BY <1>2, <1>3, FS_Union
<1>5. Cardinality(A) \in Nat /\ Cardinality(r) \in Nat /\ Cardinality(Frames \ mk) \in Nat
  BY <1>2, FS_CardinalityType
<1>6. Cardinality({}) = 0
  BY FS_EmptySet
<1>7. Cardinality(Frames \ mk) = Cardinality(A) + Cardinality(r)
  <2>1. Cardinality(Frames \ mk) = Cardinality(A \cup r)
    BY <1>3, Zenon
  <2>2. QED
    BY <1>4, <1>5, <1>6, <2>1
<1>8. QED
  BY <1>5, <1>7 DEF A

\* NoDrift from the end of memory_init on: the modules are subtracted a second time
\* when vma_init is done.
Balanced ==
  phase # "map" =>
    total_available_pages + (BootSkew - IF phase = "run" THEN 0 ELSE Cardinality(Modules))
        + Cardinality(Pending("freed")) =
      Cardinality(Frames \ marked) + Cardinality(Pending("got"))

\* Balanced is about integers.
LEMMA BalanceType ==
  /\ BootSkew \in Int /\ Cardinality(Modules) \in Nat /\ \A w : Cardinality(Pending(w)) \in Nat
  /\ \A mk : Cardinality(Frames \ mk) \in Nat
<1>1. ASSUME NEW w PROVE Cardinality(Pending(w)) \in Nat
  <2>1. Pending(w) \subseteq Clients \X (1..MaxRequest)
    BY DEF Pending
  <2>2. QED
    BY <2>1, PairsFinite, FS_Subset, FS_CardinalityType
<1>2. BootSkew \in Int /\ Cardinality(Modules) \in Nat
  BY Counted, PageFramesAssumption DEF BootSkew
<1>3. \A mk : Cardinality(Frames \ mk) \in Nat
  BY Counted
<1>4. QED
  BY <1>1, <1>2, <1>3

\* A step that moves no page.
LEMMA BalanceSame ==
  ASSUME Balanced, phase' = phase, total_available_pages' = total_available_pages, marked' = marked,
         Pending("got")' = Pending("got"), Pending("freed")' = Pending("freed")
  PROVE  Balanced'
BY DEF Balanced

\* The pages pending at a place do not change when no call comes there or goes.
LEMMA PendingSame ==
  ASSUME NEW w, \A d \in Clients : /\ pc'[d] = w <=> pc[d] = w
                                   /\ pc[d] = w => npages'[d] = npages[d]
  PROVE  Pending(w)' = Pending(w)
<1>1. ASSUME NEW x \in Clients \X (1..MaxRequest)
      PROVE  (pc'[x[1]] = w /\ x[2] <= npages'[x[1]]) <=> (pc[x[1]] = w /\ x[2] <= npages[x[1]])
  BY <1>1
<1>2. QED
  BY <1>1 DEF Pending

\* Every step keeps the counter and the bitmap in balance.
LEMMA BalanceStep ==
  ASSUME PFInv, PFTypeOK', Balanced, [PFNext]_pfVars
  PROVE  Balanced'
<1> USE DEF PFInv
<1> DEFINE Quiet(c) == /\ \A d \in Clients \ {c} : pc'[d] = pc[d] /\ npages'[d] = npages[d]
                       /\ pc[c] \notin {"got", "freed"} /\ pc'[c] \notin {"got", "freed"}
                       /\ UNCHANGED <<phase, total_available_pages, marked>>
<1>0. ASSUME NEW c \in Clients, Quiet(c) PROVE Balanced'
  <2>1. Pending("got")' = Pending("got") /\ Pending("freed")' = Pending("freed")
    BY <1>0, PendingSame
  <2>2. QED
    BY <1>0, <2>1, BalanceSame
<1>0a. /\ Cardinality(Pending("got")) \in Nat /\ Cardinality(Pending("freed")) \in Nat
       /\ Cardinality(Frames \ marked) \in Nat /\ BootSkew \in Int /\ Cardinality(Modules) \in Nat
  BY BalanceType
<1>1. CASE memory_init
  <2> DEFINE A == Cardinality(Available)
             B == Cardinality(BootFrames \cap Available)
  <2>1. Cardinality(Frames \ marked') = A - B /\ A \in Nat /\ B \in Nat
    <3> DEFINE mk == Frames \ Available
               r == BootFrames \cap Available
    <3>1. mk \in SUBSET Frames /\ r \in SUBSET Frames /\ r \cap mk = {}
      BY PageFramesAssumption
    <3>2. Frames \ mk = Available /\ Frames \ (mk \cup r) = Frames \ marked'
      BY <1>1, PageFramesAssumption DEF memory_init, BootFrames
    <3> HIDE DEF mk
    <3>3. A = Cardinality(Frames \ marked') + B /\ A \in Nat /\ B \in Nat
          /\ Cardinality(Frames \ marked') \in Nat
      BY <3>1, <3>2, FreeLess
    <3>4. QED
      BY <3>3
  <2>2. Cardinality(Pending("got")') = 0 /\ Cardinality(Pending("freed")') = 0
    <3>1. \A d \in Clients : pc'[d] = "idle"
      BY <1>1 DEF memory_init, clientVars, BootQuiet
    <3>2. Pending("got")' = {} /\ Pending("freed")' = {}
      BY <3>1 DEF Pending
    <3>3. QED
      BY <3>2, FS_EmptySet
  <2>3. phase' = "vma" /\ total_available_pages' =
          A - (1 + Cardinality(ModList) + Cardinality(Modules) + Cardinality(Kernel))
    BY <1>1 DEF memory_init
  <2>4. Cardinality(ModList) \in Nat /\ Cardinality(Modules) \in Nat /\ Cardinality(Kernel) \in Nat
    BY Counted, PageFramesAssumption
  <2>5. BootSkew =
          (1 + Cardinality(ModList) + 2 * Cardinality(Modules) + Cardinality(Kernel)) - B
    BY DEF BootSkew
  <2> HIDE DEF A, B
  <2>6. total_available_pages' + (BootSkew - Cardinality(Modules)) + 0 = A - B + 0
    BY <2>1, <2>3, <2>4, <2>5
  <2>7. QED
    BY <2>1, <2>2, <2>3, <2>6 DEF Balanced
<1>2. CASE memory_init_modules
  <2>1. marked' = marked /\ phase = "vma" /\ phase' = "run"
    BY <1>2 DEF memory_init_modules, FramesOwned, BootFrames
  <2>2. Pending("got")' = Pending("got") /\ Pending("freed")' = Pending("freed")
    BY <1>2 DEF memory_init_modules, clientVars, Pending
  <2>3. total_available_pages' = total_available_pages - Cardinality(Modules)
        /\ total_available_pages \in Int
    BY <1>2 DEF memory_init_modules, PFTypeOK
  <2>4. QED
    BY <2>1, <2>2, <2>3, <1>0a DEF Balanced
<1>3. ASSUME NEW c \in Clients, NEW n \in 1..MaxRequest, get_pages(c, n) PROVE Balanced'
  <2>1. Quiet(c)
    BY <1>3 DEF get_pages, MayCall, PFTypeOK
  <2>2. QED
    BY <1>0, <2>1
<1>4. ASSUME NEW c \in Clients, NEW n \in 1..MaxRequest, NEW b \in Frames, put_pages(c, b, n)
      PROVE  Balanced'
  <2>1. Quiet(c)
    BY <1>4 DEF put_pages, MayCall, PFTypeOK
  <2>2. QED
    BY <1>0, <2>1
<1>5. ASSUME NEW c \in Clients, get_lock(c) PROVE Balanced'
  <2>1. Quiet(c)
    BY <1>5 DEF get_lock, PFTypeOK
  <2>2. QED
    BY <1>0, <2>1
<1>6. ASSUME NEW c \in Clients, probe(c) PROVE Balanced'
  <2> DEFINE n == npages[c]
             s == (off + alloc_start) % Starts(n)
  <2>1. CASE UNCHANGED <<marked, alloc_start, holder, pc, base>>
    <3>1. Quiet(c)
      BY <1>6, <2>1 DEF probe
    <3>2. QED
      BY <1>0, <3>1
  <2>2. CASE /\ \A cnt \in 0..(n - 1) : ~Conflict(s, n, cnt)
             /\ marked' = marked \cup Run(s, n)
             /\ pc' = [pc EXCEPT ![c] = "got"]
    <3>1. Run(s, n) \subseteq Frames /\ Run(s, n) \cap marked = {} /\ marked \in SUBSET Frames
      BY <1>6, <2>2, ProbeRun DEF PFTypeOK
    <3>2. Cardinality(Run(s, n)) = n /\ n \in 0..MaxRequest
      <4>1. n \in 1..MaxRequest /\ off \in 1..(2 * FRAMES) /\ alloc_start \in 0..FRAMES
        BY <1>6 DEF probe, InTransit, PFTypeOK
      <4>2. s \in 0..(Starts(n) - 1) /\ Starts(n) \in Nat
        BY <4>1, ProbeInRange
      <4> HIDE DEF s, n
      <4>3. s \in Int /\ s + n - 1 \in Int /\ ~(s > s + n - 1) /\ (s + n - 1) - s + 1 = n
            /\ n \in 0..MaxRequest
        BY <4>1, <4>2, PageFramesAssumption
      <4>4. Cardinality(s..(s + n - 1)) =
              IF s > s + n - 1 THEN 0 ELSE (s + n - 1) - s + 1
        BY <4>3, FS_Interval
      <4>5. QED
        BY <4>3, <4>4 DEF Run
    <3> HIDE DEF s
    <3>3. Cardinality(Frames \ marked) = Cardinality(Frames \ marked') + n
          /\ Cardinality(Frames \ marked') \in Nat
      BY <2>2, <3>1, <3>2, FreeLess
    <3>4. /\ phase' = phase /\ total_available_pages' = total_available_pages /\ npages' = npages
          /\ total_available_pages \in Int
      BY <1>6 DEF probe, PFTypeOK
    <3>5. pc[c] # "got" /\ pc'[c] = "got" /\ \A d \in Clients \ {c} : pc'[d] = pc[d]
      BY <1>6, <2>2 DEF probe, PFTypeOK
    <3>6. Cardinality(Pending("got")') = Cardinality(Pending("got")) + n
      <4>1. Cardinality(PendingIn(pc', npages', "got")) = Cardinality(PendingIn(pc, npages, "got")) + n
        BY <3>2, <3>4, <3>5, PendingLess
      <4>2. QED
        BY <4>1 DEF Pending, PendingIn
    <3>7. Pending("freed")' = Pending("freed")
      BY <1>6, <3>4, <3>5, PendingSame DEF probe
    <3>8. QED
      BY <3>2, <3>3, <3>4, <3>6, <3>7, <1>0a DEF Balanced
  <2>3. QED
    BY <1>6, <2>1, <2>2 DEF probe
<1>7. ASSUME NEW c \in Clients, give_up(c) PROVE Balanced'
  <2>1. Quiet(c)
    BY <1>7 DEF give_up, PFTypeOK
  <2>2. QED
    BY <1>0, <2>1
<1>8. ASSUME NEW c \in Clients, get_return(c) PROVE Balanced'
  <2>1. /\ phase' = phase /\ total_available_pages' = total_available_pages - npages[c]
        /\ marked' = marked /\ total_available_pages \in Int /\ npages[c] \in 0..MaxRequest
    BY <1>8 DEF get_return, PFTypeOK
  <2>2. /\ pc[c] = "got" /\ pc'[c] = "idle" /\ pc'[c] # "got"
        /\ \A d \in Clients \ {c} : pc'[d] = pc[d] /\ npages'[d] = npages[d]
    BY <1>8 DEF get_return, PFTypeOK
  <2>3. Cardinality(Pending("got")) = Cardinality(Pending("got")') + npages[c]
        /\ Cardinality(Pending("got")') \in Nat
    <3>1. npages[c] \in 0..MaxRequest
      BY <2>1
    <3>2. /\ Cardinality(PendingIn(pc, npages, "got")) =
               Cardinality(PendingIn(pc', npages', "got")) + npages[c]
          /\ Cardinality(PendingIn(pc', npages', "got")) \in Nat
      BY <2>2, <3>1, PendingLess
    <3>3. QED
      BY <3>2 DEF Pending, PendingIn
  <2>4. Pending("freed")' = Pending("freed")
    BY <2>2, PendingSame
  <2>5. SUFFICES ASSUME phase # "map" PROVE Balanced'
    BY <2>1 DEF Balanced
  <2> DEFINE k == BootSkew - IF phase = "run" THEN 0 ELSE Cardinality(Modules)
  <2>6. k \in Int /\ total_available_pages + k + Cardinality(Pending("freed")) =
          Cardinality(Frames \ marked) + Cardinality(Pending("got"))
    BY <1>0a, <2>5 DEF Balanced
  <2>7. k' = k
    BY <2>1 DEF BootSkew
  <2> HIDE DEF k
  <2>8. total_available_pages' + k + Cardinality(Pending("freed")) =
          Cardinality(Frames \ marked) + Cardinality(Pending("got")')
    BY <1>0a, <2>1, <2>3, <2>6
  <2>9. QED
    BY <2>1, <2>4, <2>7, <2>8 DEF Balanced, k
<1>9. ASSUME NEW c \in Clients, put_clear(c) PROVE Balanced'
  <2> DEFINE run == Run(base[c], npages[c])
             k == Cardinality(run \cap marked)
  <2>1. /\ phase' = phase /\ total_available_pages' = total_available_pages
        /\ marked' = marked \ run /\ total_available_pages \in Int /\ marked \in SUBSET Frames
    BY <1>9 DEF put_clear, PFTypeOK
  <2>2. /\ pc[c] = "put" /\ pc'[c] = "freed" /\ npages'[c] = k
        /\ \A d \in Clients \ {c} : pc'[d] = pc[d] /\ npages'[d] = npages[d]
    BY <1>9 DEF put_clear, PFTypeOK
  <2>3. k \in 0..MaxRequest
    <3>1. npages'[c] \in 0..MaxRequest
      BY DEF PFTypeOK
    <3>2. QED
      BY <2>2, <3>1
  <2>4. /\ Cardinality(Frames \ marked') = Cardinality(Frames \ marked) + k
        /\ Cardinality(Frames \ marked) \in Nat
    <3> DEFINE r == run \cap marked
    <3>1. marked' \in SUBSET Frames /\ r \in SUBSET Frames /\ r \cap marked' = {}
          /\ marked' \cup r = marked
      BY <2>1
    <3> HIDE DEF r
    <3>2. /\ Cardinality(Frames \ marked') = Cardinality(Frames \ (marked' \cup r)) + Cardinality(r)
          /\ Cardinality(Frames \ (marked' \cup r)) \in Nat
      BY <3>1, FreeLess
    <3>3. QED
      BY <3>1, <3>2 DEF r
  <2> HIDE DEF k, run
  <2>5. Cardinality(Pending("freed")') = Cardinality(Pending("freed")) + k
    <3>1. Cardinality(PendingIn(pc', npages', "freed")) =
            Cardinality(PendingIn(pc, npages, "freed")) + npages'[c]
      BY <2>2, <2>3, PendingLess
    <3>2. QED
      BY <2>2, <3>1 DEF Pending, PendingIn
  <2>6. Pending("got")' = Pending("got")
    BY <2>2, PendingSame
  <2>7. QED
    BY <2>1, <2>3, <2>4, <2>5, <2>6, <1>0a DEF Balanced
<1>10. ASSUME NEW c \in Clients, put_return(c) PROVE Balanced'
  <2>1. /\ phase' = phase /\ total_available_pages' = total_available_pages + npages[c]
        /\ marked' = marked /\ total_available_pages \in Int /\ npages[c] \in 0..MaxRequest
    BY <1>10 DEF put_return, PFTypeOK
  <2>2. /\ pc[c] = "freed" /\ pc'[c] = "idle" /\ pc'[c] # "freed"
        /\ \A d \in Clients \ {c} : pc'[d] = pc[d] /\ npages'[d] = npages[d]
    BY <1>10 DEF put_return, PFTypeOK
  <2>3. Cardinality(Pending("freed")) = Cardinality(Pending("freed")') + npages[c]
        /\ Cardinality(Pending("freed")') \in Nat
    <3>1. npages[c] \in 0..MaxRequest
      BY <2>1
    <3>2. /\ Cardinality(PendingIn(pc, npages, "freed")) =
               Cardinality(PendingIn(pc', npages', "freed")) + npages[c]
          /\ Cardinality(PendingIn(pc', npages', "freed")) \in Nat
      BY <2>2, <3>1, PendingLess
    <3>3. QED
      BY <3>2 DEF Pending, PendingIn
  <2>4. Pending("got")' = Pending("got")
    BY <2>2, PendingSame
  <2>5. QED
    BY <2>1, <2>3, <2>4, <1>0a DEF Balanced
<1>11. CASE UNCHANGED pfVars
  BY <1>11 DEF pfVars, Balanced, Pending
<1>12. QED
  BY <1>1, <1>2, <1>3, <1>4, <1>5, <1>6, <1>7, <1>8, <1>9, <1>10, <1>11 DEF PFNext, Step

-----------------------------------------------------------------------------
\* The inductive invariant of all three properties.
LEMMA PFInvariance == PFSpec => [](PFInv /\ Searched /\ Balanced)
<1>1. PFInit => PFInv
  BY PageFramesAssumption
  DEF PFInit, PFInv, PFTypeOK, BootQuiet, InTransit, FramesOwned
<1>2. PFInit => Searched /\ Balanced
  BY PageFramesAssumption DEF PFInit, Searched, Balanced
<1>3. PFInv /\ [PFNext]_pfVars => PFInv'
  BY TypeStep, TransitStep, OwnedStep DEF PFInv
<1>4. PFInv /\ Searched /\ [PFNext]_pfVars => Searched'
  BY SearchStep
<1>5. PFInv /\ PFInv' /\ Balanced /\ [PFNext]_pfVars => Balanced'
  BY BalanceStep DEF PFInv
<1>6. QED
  BY <1>1, <1>2, <1>3, <1>4, <1>5, PTL DEF PFSpec

\* Whatever the memory map, the number of frames and the interleaving of calls of
\* get_pages and put_pages, no frame has two owners, no frame of the kernel or of a
\* module is given out, and only a run at frame 0 can be lost.
THEOREM PageFramesOwned == PFSpec => [](PFTypeOK /\ FramesOwned)
<1>1. PFInv => PFTypeOK /\ FramesOwned
  BY DEF PFInv
<1>2. QED
  BY <1>1, PFInvariance, PTL

\* However the unlocked updates of total_available_pages interleave with the
\* changes of the bitmap, the counter is the number of free frames but for the
\* calls in progress and the constant error of memory_init.
THEOREM PageFramesCounted == PFSpec => []NoDrift
<1>1. Balanced => NoDrift
  <2>1. CASE phase = "run"
    <3>1. BootSkew - 0 = BootSkew
      BY BalanceType
    <3>2. QED
      BY <2>1, <3>1 DEF Balanced, NoDrift
  <2>2. QED
    BY <2>1 DEF NoDrift
<1>2. QED
  BY <1>1, PFInvariance, PTL

\* The search loop of get_pages, which skips the frames up to a marked one and
\* wraps around, overlooks no free run but those around the seam of the bitmap.
THEOREM PageFramesSearched == PFSpec => SearchComplete
<1>1. PFInv /\ Searched /\ [PFNext]_pfVars =>
        [\A c \in Clients : give_up(c) =>
           \A s \in (npages[c] - 1)..(Starts(npages[c]) - 1) :
             Run(s, npages[c]) \cap marked # {}]_pfVars
  BY GivesUp
<1>2. QED
  BY <1>1, PFInvariance, PTL DEF PFSpec, SearchComplete

-----------------------------------------------------------------------------
(***************************************************************************)
(* The buddies: the free ones and the blocks in use tile the memory that   *)
(* palloc has provided.                                                    *)
(***************************************************************************)
\* A power of two is the number of subsets of a set.
LEMMA PowerOfTwo ==
  ASSUME NEW n \in Nat
  PROVE  2 ^ n \in Nat /\ 2 ^ (n + 1) = 2 * 2 ^ n
<1> DEFINE S == 1..n
           A == SUBSET S
           B == {s \cup {n + 1} : s \in A}
           C == SUBSET (1..(n + 1))
           f == [s \in A |-> s \cup {n + 1}]
<1>1. IsFiniteSet(A) /\ Cardinality(A) = 2 ^ n
  BY UpTo, FS_SUBSET
<1>2. IsFiniteSet(C) /\ Cardinality(C) = 2 ^ (n + 1)
  <2>1. IsFiniteSet(1..(n + 1)) /\ Cardinality(1..(n + 1)) = n + 1
    BY UpTo
  <2>2. QED
    BY <2>1, FS_SUBSET
<1>3. n + 1 \notin S /\ 1..(n + 1) = S \cup {n + 1}
  OBVIOUS
<1> HIDE DEF S
<1>4. f \in Bijection(A, B)
  <2>1. \A s \in A : s = (s \cup {n + 1}) \ {n + 1}
    BY <1>3
  <2>2. \A s, t \in A : s \cup {n + 1} = t \cup {n + 1} => s = t
    BY <2>1
  <2>3. f \in [A -> B] /\ \A b \in B : \E s \in A : f[s] = b
    OBVIOUS
  <2>4. \A s, t \in A : f[s] = f[t] => s = t
    BY <2>2
  <2> HIDE DEF f, A, B
  <2>5. QED
    BY <2>3, <2>4 DEF Bijection, Injection, Surjection, IsInjective
<1>5. IsFiniteSet(B) /\ Cardinality(B) = Cardinality(A)
  BY <1>1, <1>4, FS_Bijection DEF ExistsBijection
<1>6. C = A \cup B
  <2>1. ASSUME NEW c \in C PROVE c \in A \cup B
    <3>1. c \ {n + 1} \in A
      BY <1>3
    <3>2. n + 1 \in c => c = (c \ {n + 1}) \cup {n + 1}
      OBVIOUS
    <3>3. n + 1 \notin c => c = c \ {n + 1}
      OBVIOUS
    <3>4. QED
      BY <3>1, <3>2, <3>3
  <2>2. ASSUME NEW c \in A \cup B PROVE c \in C
    BY <1>3
  <2>3. QED
    BY <2>1, <2>2
<1>7. A \cap B = {}
  BY <1>3
<1> HIDE DEF A, B, C
<1>8. Cardinality(A \cup B) = Cardinality(A) + Cardinality(B) - Cardinality(A \cap B)
  BY <1>1, <1>5, FS_Union
<1>9. Cardinality(A \cap B) = 0 /\ Cardinality(A) \in Nat
  BY <1>1, <1>7, FS_EmptySet, FS_CardinalityType
<1>10. QED
  BY <1>1, <1>2, <1>5, <1>6, <1>8, <1>9

\* 2 ^ n, kept as a name: all that the proofs use of it is in the lemmas here.
Pow(n) == 2 ^ n

LEMMA PowerStep ==
  /\ Pow(0) = 1
  /\ \A n \in Nat : Pow(n) \in Nat /\ Pow(n + 1) = 2 * Pow(n)
<1>1. Pow(0) = 1
  BY DEF Pow
<1>2. ASSUME NEW n \in Nat PROVE Pow(n) \in Nat /\ Pow(n + 1) = 2 * Pow(n)
  BY PowerOfTwo DEF Pow
<1>3. QED
  BY <1>1, <1>2

\* They grow, and start at one.
LEMMA PowerGrows ==
  ASSUME NEW m \in Nat, NEW n \in Nat, m < n
  PROVE  2 * Pow(m) <= Pow(n)
<1> DEFINE T == {x \in Nat : m < x /\ ~(2 * Pow(m) <= Pow(x))}
<1> SUFFICES ASSUME n \in T PROVE FALSE
  OBVIOUS
<1>1. PICK x \in T : \A y \in T : ~(y < x)
  BY Smallest
<1>2. PICK y \in Nat : x = y + 1
  <2>1. x - 1 \in Nat /\ x = (x - 1) + 1
    OBVIOUS
  <2>2. QED
    BY <2>1
<1>3. Pow(x) = 2 * Pow(y) /\ Pow(y) \in Nat /\ Pow(m) \in Nat
  BY <1>2, PowerStep
<1>4. y = m \/ (m < y /\ 2 * Pow(m) <= Pow(y))
  BY <1>1, <1>2
<1>5. ~(2 * Pow(m) <= Pow(x))
  OBVIOUS
<1>6. QED
  BY <1>3, <1>4, <1>5

LEMMA PowerPositive ==
  ASSUME NEW n \in Nat
  PROVE  Pow(n) \in Nat /\ 1 <= Pow(n)
<1>1. Pow(n) \in Nat /\ Pow(0) = 1
  BY PowerStep
<1>2. 0 < n => 2 * Pow(0) <= Pow(n)
  BY PowerGrows
<1>3. QED
  BY <1>1, <1>2

\* Between two of them, every number lies between two successive ones.
LEMMA PowerBetween ==
  ASSUME NEW e \in Nat, NEW k \in Nat, NEW x \in Nat, Pow(e) <= x, x < Pow(k)
  PROVE  \E d \in e..(k - 1) : Pow(d) <= x /\ x < 2 * Pow(d)
<1> DEFINE T == {y \in Nat : e <= y /\ x < Pow(y)}
<1>1. k \in T
  <2>1. k < e => 2 * Pow(k) <= Pow(e)
    BY PowerGrows
  <2>2. Pow(k) \in Nat /\ Pow(e) \in Nat
    BY PowerStep
  <2>3. QED
    BY <2>1, <2>2
<1>2. PICK y \in T : \A z \in T : ~(z < y)
  BY <1>1, Smallest
<1>3. y # e /\ y \in Nat /\ e < y /\ y <= k
  <2>1. Pow(e) \in Nat
    BY PowerStep
  <2>2. y # e
    BY <2>1
  <2>3. ~(k < y)
    BY <1>1, <1>2
  <2>4. QED
    BY <2>2, <2>3
<1>4. PICK d \in Nat : y = d + 1
  <2>1. y - 1 \in Nat /\ y = (y - 1) + 1
    BY <1>3
  <2>2. QED
    BY <2>1
<1>5. Pow(y) = 2 * Pow(d) /\ Pow(d) \in Nat
  BY <1>4, PowerStep
<1>6. d \notin T
  BY <1>2, <1>4
<1>7. Pow(d) <= x /\ x < 2 * Pow(d) /\ d \in e..(k - 1)
  BY <1>3, <1>4, <1>5, <1>6
<1>8. QED
  BY <1>7

-----------------------------------------------------------------------------
Stretch(a, e) == a..(a + Pow(e) - 1)

\* The block z, an address and an exponent.
Bytes(z) == Stretch(z[1], z[2])

\* The blocks Z divide the addresses below n.
Tiles(Z, n) ==
  /\ \A z, w \in Z : z # w => Bytes(z) \cap Bytes(w) = {}
  /\ \A z \in Z : z[1] \in Nat /\ z[2] \in Exps /\ z[1] + Pow(z[2]) <= n
  /\ \A x \in 0..(n - 1) : \E z \in Z : x \in Bytes(z)

\* What buddy_get makes of block a of exponent k: one of exponent low, and second halves.
Pieces(a, k, low) == {<<a, low>>} \cup {<<a + Pow(e), e>> : e \in low..(k - 1)}

LEMMA BuddyConstants ==
  /\ BUDDY_MIN \in Nat /\ BUDDY_MAX \in Nat /\ BUDDY_ALLOC \in Exps /\ Limit \in Nat
  /\ \A e \in Exps : e \in Nat /\ Pow(e) \in Nat /\ 1 <= Pow(e)
  /\ NoMagic \notin Exps
BY BuddyAssumption, PowerPositive DEF Exps, NoMagic

\* The pieces divide the block.
LEMMA PiecesDivide ==
  ASSUME NEW a \in Nat, NEW k \in Exps, NEW low \in BUDDY_MIN..k
  PROVE  /\ \A z \in Pieces(a, k, low) : z[1] \in Nat /\ z[2] \in Exps /\ Bytes(z) \subseteq Stretch(a, k)
                                         /\ z[1] + Pow(z[2]) <= a + Pow(k)
         /\ \A z, w \in Pieces(a, k, low) : z # w => Bytes(z) \cap Bytes(w) = {}
         /\ \A x \in Stretch(a, k) : \E z \in Pieces(a, k, low) : x \in Bytes(z)
<1>1. /\ low \in Exps /\ low \in Nat /\ k \in Nat /\ low <= k /\ Pow(low) \in Nat /\ Pow(k) \in Nat
      /\ \A e \in low..(k - 1) : e \in Exps /\ e \in Nat /\ e < k /\ low <= e /\ Pow(e) \in Nat
  BY BuddyConstants DEF Exps
<1>2. Pow(low) <= Pow(k)
  <2>1. low < k => 2 * Pow(low) <= Pow(k)
    BY <1>1, PowerGrows
  <2>2. QED
    BY <1>1, <2>1
<1>3. \A e \in low..(k - 1) : 2 * Pow(e) <= Pow(k) /\ Pow(low) <= Pow(e)
  <2> TAKE e \in low..(k - 1)
  <2>1. 2 * Pow(e) <= Pow(k)
    BY <1>1, PowerGrows
  <2>2. low < e => 2 * Pow(low) <= Pow(e)
    BY <1>1, PowerGrows
  <2>3. QED
    BY <1>1, <2>1, <2>2
<1>4. \A e, d \in low..(k - 1) : e < d => 2 * Pow(e) <= Pow(d)
  BY <1>1, PowerGrows
<1>5. ASSUME NEW z \in Pieces(a, k, low)
      PROVE  z[1] \in Nat /\ z[2] \in Exps /\ Bytes(z) \subseteq Stretch(a, k) /\ z[1] + Pow(z[2]) <= a + Pow(k)
  <2>1. CASE z = <<a, low>>
    <3>1. z[1] = a /\ z[2] = low
      BY <2>1
    <3>2. QED
      BY <1>1, <1>2, <3>1 DEF Bytes, Stretch
  <2>2. ASSUME NEW e \in low..(k - 1), z = <<a + Pow(e), e>>
        PROVE  z[1] \in Nat /\ z[2] \in Exps /\ Bytes(z) \subseteq Stretch(a, k) /\ z[1] + Pow(z[2]) <= a + Pow(k)
    <3>1. z[1] = a + Pow(e) /\ z[2] = e
      BY <2>2
    <3>2. QED
      BY <1>1, <1>3, <3>1 DEF Bytes, Stretch
  <2>3. QED
    BY <2>1, <2>2 DEF Pieces
<1>6. ASSUME NEW z \in Pieces(a, k, low), NEW w \in Pieces(a, k, low), z # w
      PROVE  Bytes(z) \cap Bytes(w) = {}
  <2>1. ASSUME NEW e \in low..(k - 1) PROVE Bytes(<<a, low>>) \cap Bytes(<<a + Pow(e), e>>) = {}
    BY <1>1, <1>3 DEF Bytes, Stretch
  <2>2. ASSUME NEW e \in low..(k - 1), NEW d \in low..(k - 1), e < d
        PROVE  Bytes(<<a + Pow(e), e>>) \cap Bytes(<<a + Pow(d), d>>) = {}
    <3>1. 2 * Pow(e) <= Pow(d) /\ Pow(e) \in Nat /\ Pow(d) \in Nat
      BY <1>1, <1>4, <2>2
    <3>2. QED
      BY <3>1 DEF Bytes, Stretch
  <2>3. CASE z = <<a, low>> \/ w = <<a, low>>
    BY <1>6, <2>1, <2>3 DEF Pieces
  <2>4. ASSUME NEW e \in low..(k - 1), NEW d \in low..(k - 1), z = <<a + Pow(e), e>>, w = <<a + Pow(d), d>>
        PROVE  Bytes(z) \cap Bytes(w) = {}
    <3>1. e < d \/ d < e
      BY <1>1, <1>6, <2>4
    <3>2. QED
      BY <2>2, <2>4, <3>1
  <2>5. QED
    BY <2>3, <2>4 DEF Pieces
<1>7. ASSUME NEW x \in Stretch(a, k)
      PROVE  \E z \in Pieces(a, k, low) : x \in Bytes(z)
  <2>1. x \in Int /\ a <= x /\ x < a + Pow(k) /\ x - a \in Nat
    BY <1>1 DEF Stretch
  <2>2. CASE x - a < Pow(low)
    <3>1. x \in Bytes(<<a, low>>)
      BY <1>1, <2>1, <2>2 DEF Bytes, Stretch
    <3>2. QED
      BY <3>1 DEF Pieces
  <2>3. CASE Pow(low) <= x - a
    <3> DEFINE y == x - a
    <3>1. y \in Nat /\ Pow(low) <= y /\ y < Pow(k)
      BY <1>1, <2>1, <2>3
    <3> HIDE DEF y
    <3>2. PICK d \in low..(k - 1) : Pow(d) <= y /\ y < 2 * Pow(d)
      BY <1>1, <3>1, PowerBetween
    <3>3. x \in Bytes(<<a + Pow(d), d>>)
      BY <1>1, <2>1, <3>2 DEF Bytes, Stretch, y
    <3>4. QED
      BY <3>3 DEF Pieces
  <2>4. QED
    BY <1>1, <2>1, <2>2, <2>3
<1>8. QED
  BY <1>5, <1>6, <1>7

\* So a block of the memory can be replaced by its pieces.
LEMMA TilesSplit ==
  ASSUME NEW Z, NEW n \in Nat, NEW a \in Nat, NEW k \in Exps, NEW low \in BUDDY_MIN..k,
         <<a, k>> \notin Z, Tiles(Z \cup {<<a, k>>}, n)
  PROVE  Tiles(Z \cup Pieces(a, k, low), n)
<1> DEFINE P == Pieces(a, k, low)
<1>1. /\ \A z \in Z : Bytes(z) \cap Stretch(a, k) = {}
      /\ a + Pow(k) <= n
  BY DEF Tiles, Bytes
<1>2. \A z \in Z, w \in P : Bytes(z) \cap Bytes(w) = {}
  BY <1>1, PiecesDivide
<1>3. \A z, w \in Z \cup P : z # w => Bytes(z) \cap Bytes(w) = {}
  <2>1. \A z, w \in P : z # w => Bytes(z) \cap Bytes(w) = {}
    BY PiecesDivide
  <2>2. \A z, w \in Z : z # w => Bytes(z) \cap Bytes(w) = {}
    BY DEF Tiles
  <2> HIDE DEF P
  <2>3. QED
    BY <1>2, <2>1, <2>2
<1>4. \A z \in Z \cup P : z[1] \in Nat /\ z[2] \in Exps /\ z[1] + Pow(z[2]) <= n
  <2> TAKE z \in Z \cup P
  <2>1. CASE z \in Z
    BY <2>1 DEF Tiles
  <2>2. CASE z \in P
    <3>1. z[1] \in Nat /\ z[2] \in Exps /\ z[1] + Pow(z[2]) <= a + Pow(k)
      BY <2>2, PiecesDivide
    <3>2. Pow(z[2]) \in Nat /\ Pow(k) \in Nat
      BY <3>1, BuddyConstants
    <3>3. QED
      BY <1>1, <3>1, <3>2
  <2>3. QED
    BY <2>1, <2>2
<1>5. \A x \in 0..(n - 1) : \E z \in Z \cup P : x \in Bytes(z)
  <2> TAKE x \in 0..(n - 1)
  <2>1. (\E z \in Z : x \in Bytes(z)) \/ x \in Stretch(a, k)
    BY DEF Tiles, Bytes
  <2>2. QED
    BY <2>1, PiecesDivide
<1>6. QED
  BY <1>3, <1>4, <1>5 DEF Tiles

\* palloc adds a block.
LEMMA TilesGrow ==
  ASSUME NEW Z, NEW n \in Nat, NEW k \in Exps, Tiles(Z, n)
  PROVE  <<n, k>> \notin Z /\ Tiles(Z \cup {<<n, k>>}, n + Pow(k))
<1> DEFINE b == <<n, k>>
<1>1. Pow(k) \in Nat /\ 1 <= Pow(k) /\ b[1] = n /\ b[2] = k /\ Bytes(b) = n..(n + Pow(k) - 1)
  BY BuddyConstants DEF Bytes, Stretch
<1>2. \A z \in Z : z[1] \in Nat /\ z[2] \in Exps /\ Pow(z[2]) \in Nat /\ 1 <= Pow(z[2]) /\ z[1] + Pow(z[2]) <= n
  BY BuddyConstants DEF Tiles
<1> HIDE DEF b
<1>3. b \notin Z
  BY <1>1, <1>2
<1>4. \A z \in Z : Bytes(z) \cap Bytes(b) = {}
  BY <1>1, <1>2 DEF Bytes, Stretch
<1>5. \A z, w \in Z \cup {b} : z # w => Bytes(z) \cap Bytes(w) = {}
  BY <1>4 DEF Tiles
<1>6. \A z \in Z \cup {b} : z[1] \in Nat /\ z[2] \in Exps /\ z[1] + Pow(z[2]) <= n + Pow(k)
  BY <1>1, <1>2
<1>7. \A x \in 0..((n + Pow(k)) - 1) : \E z \in Z \cup {b} : x \in Bytes(z)
  <2> TAKE x \in 0..((n + Pow(k)) - 1)
  <2>1. x \in 0..(n - 1) \/ x \in Bytes(b)
    BY <1>1
  <2>2. QED
    BY <2>1 DEF Tiles
<1>8. Tiles(Z \cup {b}, n + Pow(k))
  BY <1>5, <1>6, <1>7 DEF Tiles
<1>9. QED
  BY <1>3, <1>8 DEF b

-----------------------------------------------------------------------------
\* Address a is in list e.
FreeIn(l, e, a) == \E i \in 1..Len(l[e]) : l[e][i] = a

\* No list has an address twice.
NoRepeats(l) == \A e \in Exps : \A i, j \in 1..Len(l[e]) : l[e][i] = l[e][j] => i = j

\* The free blocks and those whose prefix gives their size.
BlocksOf(l, p) == {z \in Addresses \X Exps : FreeIn(l, z[2], z[1]) \/ p[z[1]] = z[2]}

ListsRight(l, p) ==
  /\ l \in [Exps -> Seq(Addresses)]
  /\ p \in [Addresses -> Exps \cup {NoMagic}]
  /\ NoRepeats(l)
  /\ \A e \in Exps, a \in Addresses : FreeIn(l, e, a) => p[a] = NoMagic

\* The inductive invariant.
BuddyInv ==
  /\ ListsRight(buddy_lists, prefix)
  /\ area \in 0..Limit
  /\ Tiles(BlocksOf(buddy_lists, prefix), area)
  /\ given \in [Addresses -> Sizes \cup {0}]
  /\ \A a \in Addresses : prefix[a] = NoMagic <=> given[a] = 0
  /\ PrefixRight

\* A list in front of which an address is put, and one that loses its first.
LEMMA PutFront ==
  ASSUME NEW s \in Seq(Addresses), NEW b \in Addresses, NEW t, t = <<b>> \o s
  PROVE  /\ t \in Seq(Addresses)
         /\ \A a \in Addresses : (\E i \in 1..Len(t) : t[i] = a) <=> a = b \/ \E i \in 1..Len(s) : s[i] = a
         /\ (\A i, j \in 1..Len(s) : s[i] = s[j] => i = j) /\ ~(\E i \in 1..Len(s) : s[i] = b)
              => \A i, j \in 1..Len(t) : t[i] = t[j] => i = j
<1>1. /\ t \in Seq(Addresses) /\ Len(t) = Len(s) + 1 /\ t[1] = b /\ Len(s) \in Nat
      /\ \A i \in 1..Len(s) : t[i + 1] = s[i]
      /\ \A i \in 2..Len(t) : t[i] = s[i - 1] /\ i - 1 \in 1..Len(s)
  OBVIOUS
<1>2. \A a \in Addresses : (\E i \in 1..Len(t) : t[i] = a) <=> a = b \/ \E i \in 1..Len(s) : s[i] = a
  <2> TAKE a \in Addresses
  <2>1. ASSUME NEW i \in 1..Len(t), t[i] = a PROVE a = b \/ \E j \in 1..Len(s) : s[j] = a
    <3>1. CASE i = 1
      BY <1>1, <2>1, <3>1
    <3>2. CASE i # 1
      <4>1. i \in 2..Len(t)
        BY <1>1, <3>2
      <4>2. QED
        BY <1>1, <2>1, <4>1
    <3>3. QED
      BY <3>1, <3>2
  <2>2. a = b => \E i \in 1..Len(t) : t[i] = a
    <3>1. 1 \in 1..Len(t)
      BY <1>1
    <3>2. QED
      BY <1>1, <3>1
  <2>3. ASSUME NEW i \in 1..Len(s), s[i] = a PROVE \E j \in 1..Len(t) : t[j] = a
    <3>1. i + 1 \in 1..Len(t) /\ t[i + 1] = a
      BY <1>1, <2>3
    <3>2. QED
      BY <3>1
  <2>4. QED
    BY <2>1, <2>2, <2>3
<1>3. ASSUME \A i, j \in 1..Len(s) : s[i] = s[j] => i = j, ~(\E i \in 1..Len(s) : s[i] = b),
             NEW i \in 1..Len(t), NEW j \in 1..Len(t), t[i] = t[j]
      PROVE  i = j
  <2>1. CASE i = 1 \/ j = 1
    <3>1. \A x \in 2..Len(t) : t[x] # b
      BY <1>1, <1>3
    <3>2. QED
      BY <1>1, <1>3, <2>1, <3>1
  <2>2. CASE i # 1 /\ j # 1
    <3>1. i \in 2..Len(t) /\ j \in 2..Len(t)
      BY <1>1, <2>2
    <3>2. s[i - 1] = s[j - 1] /\ i - 1 \in 1..Len(s) /\ j - 1 \in 1..Len(s)
      BY <1>1, <1>3, <3>1
    <3>3. i - 1 = j - 1
      BY <1>3, <3>2
    <3>4. QED
      BY <3>3
  <2>3. QED
    BY <2>1, <2>2
<1>4. QED
  BY <1>1, <1>2, <1>3

LEMMA TakeFirst ==
  ASSUME NEW s \in Seq(Addresses), s # << >>, \A i, j \in 1..Len(s) : s[i] = s[j] => i = j
  PROVE  /\ Head(s) \in Addresses /\ Tail(s) \in Seq(Addresses)
         /\ \E i \in 1..Len(s) : s[i] = Head(s)
         /\ \A a \in Addresses : (\E i \in 1..Len(Tail(s)) : Tail(s)[i] = a)
                                   <=> a # Head(s) /\ \E i \in 1..Len(s) : s[i] = a
         /\ \A i, j \in 1..Len(Tail(s)) : Tail(s)[i] = Tail(s)[j] => i = j
<1> DEFINE t == Tail(s)
<1>1. /\ t \in Seq(Addresses) /\ Len(s) \in Nat /\ Len(s) >= 1 /\ Len(t) = Len(s) - 1 /\ Head(s) = s[1]
      /\ \A i \in 1..Len(t) : t[i] = s[i + 1] /\ i + 1 \in 2..Len(s)
      /\ \A i \in 2..Len(s) : s[i] = t[i - 1] /\ i - 1 \in 1..Len(t)
  OBVIOUS
<1> HIDE DEF t
<1>2. 1 \in 1..Len(s) /\ Head(s) \in Addresses
  BY <1>1
<1>3. ASSUME NEW i \in 1..Len(t) PROVE t[i] # Head(s) /\ \E j \in 1..Len(s) : s[j] = t[i]
  <2>1. i + 1 \in 1..Len(s) /\ i + 1 # 1 /\ t[i] = s[i + 1]
    BY <1>1
  <2>2. QED
    BY <1>1, <1>2, <2>1
<1>4. ASSUME NEW i \in 1..Len(s), s[i] # Head(s) PROVE \E j \in 1..Len(t) : t[j] = s[i]
  <2>1. i \in 2..Len(s)
    BY <1>1, <1>4
  <2>2. QED
    BY <1>1, <2>1
<1>5. ASSUME NEW i \in 1..Len(t), NEW j \in 1..Len(t), t[i] = t[j] PROVE i = j
  <2>1. i + 1 \in 1..Len(s) /\ j + 1 \in 1..Len(s) /\ s[i + 1] = s[j + 1]
    BY <1>1, <1>5
  <2>2. i + 1 = j + 1
    BY <2>1
  <2>3. QED
    BY <2>2
<1>6. QED
  BY <1>1, <1>2, <1>3, <1>4, <1>5 DEF t

\* The exponent of a request is the smallest that is enough.
LEMMA ExpRight ==
  ASSUME NEW sz \in Sizes
  PROVE  /\ buddy_exp(sz) \in Exps /\ sz + PREFIX <= 2 ^ buddy_exp(sz)
         /\ \A e \in Exps : sz + PREFIX <= 2 ^ e => buddy_exp(sz) <= e
<1> DEFINE T == {e \in Exps : sz + PREFIX <= 2 ^ e}
<1>1. BUDDY_MAX \in T /\ T \subseteq Nat
  BY BuddyAssumption DEF Exps
<1>2. PICK x \in T : \A y \in T : ~(y < x)
  BY <1>1, Smallest
<1>3. \A y \in T : x <= y
  BY <1>1, <1>2
<1>4. buddy_exp(sz) \in T /\ \A y \in T : buddy_exp(sz) <= y
  BY <1>3 DEF buddy_exp, Min
<1>5. QED
  BY <1>4

\* A block that is neither free nor in use is split and handed out.
LEMMA HandOutInv ==
  ASSUME BuddyInv, NEW lists, NEW a \in Addresses, NEW k \in Exps, NEW sz \in Sizes, NEW low, low = buddy_exp(sz),
         low <= k, area' \in 0..Limit, ListsRight(lists, prefix), <<a, k>> \notin BlocksOf(lists, prefix),
         Tiles(BlocksOf(lists, prefix) \cup {<<a, k>>}, area'),
         HandOut(a, k, low, lists, sz)
  PROVE  BuddyInv'
<1> DEFINE Z == BlocksOf(lists, prefix)
           l == buddy_lists'
<1>1. /\ a \in Nat /\ k \in Nat /\ low \in Exps /\ low \in BUDDY_MIN..k /\ low \in Nat
      /\ a + Pow(k) <= area' /\ area' \in Nat /\ Pow(k) \in Nat /\ 1 <= Pow(k)
  <2>1. low \in Exps
    BY ExpRight
  <2>2. <<a, k>> \in Z \cup {<<a, k>>}
    OBVIOUS
  <2>3. a + Pow(k) <= area'
    BY <2>2 DEF Tiles
  <2>4. a \in Nat /\ k \in Nat /\ low \in Nat /\ area' \in Nat /\ BUDDY_MIN <= low
    BY <2>1, BuddyConstants DEF Addresses, Exps
  <2>5. QED
    BY <2>1, <2>3, <2>4, BuddyConstants
<1>2. \A z \in Z : Bytes(z) \cap Stretch(a, k) = {}
  <2>1. \A z \in Z : z # <<a, k>>
    OBVIOUS
  <2>2. \A z \in Z : Bytes(z) \cap Bytes(<<a, k>>) = {}
    BY <2>1 DEF Tiles
  <2>3. QED
    BY <2>2 DEF Bytes
<1>3. ASSUME NEW b \in Addresses, b \in Stretch(a, k)
      PROVE  prefix[b] = NoMagic /\ \A e \in Exps : ~FreeIn(lists, e, b)
  <2>1. \A e \in Exps : <<b, e>> \notin Z
    <3> TAKE e \in Exps
    <3>1. b \in Bytes(<<b, e>>)
      BY BuddyConstants DEF Bytes, Stretch, Addresses
    <3>2. QED
      BY <1>2, <1>3, <3>1
  <2>2. \A e \in Exps : ~(FreeIn(lists, e, b) \/ prefix[b] = e)
    BY <2>1 DEF BlocksOf
  <2>3. QED
    BY <2>2 DEF ListsRight
<1>4. \A e \in low..(k - 1) :
        /\ e \in Exps /\ e # k /\ a + Pow(e) # a
        /\ a + Pow(e) \in Addresses /\ a + Pow(e) \in Stretch(a, k)
        /\ SecondHalf(a, e) = a + Pow(e)
  <2> TAKE e \in low..(k - 1)
  <2>1. e \in Nat /\ e \in Exps /\ e < k
    BY <1>1, BuddyConstants DEF Exps
  <2>2. 2 * Pow(e) <= Pow(k) /\ Pow(e) \in Nat /\ 1 <= Pow(e)
    BY <1>1, <2>1, PowerGrows, PowerPositive
  <2>3. a + Pow(e) # a /\ a + Pow(e) \in Addresses /\ a + Pow(e) \in Stretch(a, k)
    BY <1>1, <2>2, BuddyConstants DEF Addresses, Stretch
  <2>4. SecondHalf(a, e) = a + Pow(e)
    BY DEF SecondHalf, Pow
  <2>5. e # k
    BY <1>1, <2>1
  <2>6. QED
    BY <2>1, <2>3, <2>4, <2>5
<1>5. prefix' = [prefix EXCEPT ![a] = low]
  <2>1. prefix' = [b \in Addresses |-> IF b = a THEN low
                     ELSE IF \E e \in low..(k - 1) : b = SecondHalf(a, e) THEN NoMagic
                     ELSE prefix[b]]
    BY DEF HandOut
  <2>2. \A b \in Addresses : (\E e \in low..(k - 1) : b = SecondHalf(a, e)) => prefix[b] = NoMagic
    BY <1>3, <1>4
  <2>3. prefix \in [Addresses -> Exps \cup {NoMagic}]
    BY DEF ListsRight
  <2>4. QED
    BY <2>1, <2>2, <2>3
<1>6. l = [e \in Exps |-> IF e \in low..(k - 1) THEN <<a + Pow(e)>> \o lists[e] ELSE lists[e]]
  <2>1. l = [e \in Exps |-> IF e \in low..(k - 1) THEN <<SecondHalf(a, e)>> \o lists[e] ELSE lists[e]]
    BY DEF HandOut, Split
  <2>2. QED
    BY <1>4, <2>1
<1>7. ASSUME NEW e \in Exps
      PROVE  /\ l[e] \in Seq(Addresses)
             /\ \A i, j \in 1..Len(l[e]) : l[e][i] = l[e][j] => i = j
             /\ \A x \in Addresses : FreeIn(l, e, x) <=> (e \in low..(k - 1) /\ x = a + Pow(e)) \/ FreeIn(lists, e, x)
  <2> DEFINE s == lists[e]
             b == a + Pow(e)
  <2>1. s \in Seq(Addresses) /\ \A i, j \in 1..Len(s) : s[i] = s[j] => i = j
    BY DEF ListsRight, NoRepeats
  <2>2. CASE e \notin low..(k - 1)
    <3>1. l[e] = lists[e]
      BY <1>6, <2>2
    <3>2. QED
      BY <2>1, <2>2, <3>1 DEF FreeIn
  <2>3. CASE e \in low..(k - 1)
    <3> DEFINE t == l[e]
    <3>1. t = <<b>> \o s
      BY <1>6, <2>3
    <3>2. b \in Addresses /\ ~(\E i \in 1..Len(s) : s[i] = b)
      BY <1>3, <1>4, <2>3 DEF FreeIn
    <3> HIDE DEF b, s, t, l
    <3>3. /\ t \in Seq(Addresses)
          /\ \A x \in Addresses : (\E i \in 1..Len(t) : t[i] = x) <=> x = b \/ \E i \in 1..Len(s) : s[i] = x
          /\ \A i, j \in 1..Len(t) : t[i] = t[j] => i = j
      BY <2>1, <3>1, <3>2, PutFront
    <3>4. QED
      BY <2>3, <3>3 DEF FreeIn, b, s, t
  <2>4. QED
    BY <2>2, <2>3
<1> HIDE DEF l
<1>8. ListsRight(l, prefix')
  <2>1. l \in [Exps -> Seq(Addresses)]
    BY <1>6, <1>7
  <2>2. prefix' \in [Addresses -> Exps \cup {NoMagic}]
    BY <1>1, <1>5 DEF ListsRight
  <2>3. NoRepeats(l)
    BY <1>7 DEF NoRepeats
  <2>4. ASSUME NEW e \in Exps, NEW x \in Addresses, FreeIn(l, e, x) PROVE prefix'[x] = NoMagic
    <3>1. a \in Stretch(a, k)
      BY <1>1 DEF Stretch
    <3>2. x # a /\ prefix[x] = NoMagic
      BY <1>3, <1>4, <1>7, <2>4, <3>1 DEF ListsRight
    <3>3. QED
      BY <1>5, <3>2 DEF ListsRight
  <2>5. QED
    BY <2>1, <2>2, <2>3, <2>4 DEF ListsRight
<1>9. BlocksOf(l, prefix') = Z \cup Pieces(a, k, low)
  <2>1. prefix[a] = NoMagic /\ NoMagic \notin Exps
    <3>1. a \in Stretch(a, k)
      BY <1>1 DEF Stretch
    <3>2. QED
      BY <1>3, <3>1, BuddyConstants
  <2>2. \A x \in Addresses : prefix'[x] = IF x = a THEN low ELSE prefix[x]
    BY <1>5 DEF ListsRight
  <2>3. ASSUME NEW z \in BlocksOf(l, prefix') PROVE z \in Z \cup Pieces(a, k, low)
    <3>1. z \in Addresses \X Exps /\ (FreeIn(l, z[2], z[1]) \/ prefix'[z[1]] = z[2])
      BY DEF BlocksOf
    <3>2. PICK x \in Addresses, e \in Exps : z = <<x, e>>
      BY <3>1
    <3>3. CASE FreeIn(l, e, x)
      BY <1>7, <3>2, <3>3 DEF BlocksOf, Pieces
    <3>4. CASE prefix'[x] = e
      BY <2>2, <3>2, <3>4 DEF BlocksOf, Pieces
    <3>5. QED
      BY <3>1, <3>2, <3>3, <3>4
  <2>4. ASSUME NEW z \in Z PROVE z \in BlocksOf(l, prefix')
    <3>1. z \in Addresses \X Exps /\ (FreeIn(lists, z[2], z[1]) \/ prefix[z[1]] = z[2])
      BY DEF BlocksOf
    <3>2. PICK x \in Addresses, e \in Exps : z = <<x, e>>
      BY <3>1
    <3>3. FreeIn(l, e, x) \/ prefix'[x] = e
      BY <1>7, <2>1, <2>2, <3>1, <3>2
    <3>4. QED
      BY <3>2, <3>3 DEF BlocksOf
  <2>5. ASSUME NEW z \in Pieces(a, k, low) PROVE z \in BlocksOf(l, prefix')
    <3>1. CASE z = <<a, low>>
      BY <1>1, <2>2, <3>1 DEF BlocksOf
    <3>2. ASSUME NEW e \in low..(k - 1), z = <<a + Pow(e), e>> PROVE z \in BlocksOf(l, prefix')
      <4>1. e \in Exps /\ a + Pow(e) \in Addresses /\ FreeIn(l, e, a + Pow(e))
        BY <1>4, <1>7
      <4>2. QED
        BY <3>2, <4>1 DEF BlocksOf
    <3>3. QED
      BY <3>1, <3>2 DEF Pieces
  <2>6. QED
    BY <2>3, <2>4, <2>5
<1>10. Tiles(BlocksOf(l, prefix'), area')
  BY <1>1, <1>9, TilesSplit
<1>11. given' = [given EXCEPT ![a] = sz] /\ given \in [Addresses -> Sizes \cup {0}] /\ sz # 0
  BY BuddyAssumption DEF HandOut, BuddyInv
<1>12. \A x \in Addresses : prefix'[x] = NoMagic <=> given'[x] = 0
  <2>1. low # NoMagic
    BY <1>1, BuddyConstants
  <2>2. QED
    BY <1>5, <1>11, <2>1 DEF BuddyInv, ListsRight
<1>13. PrefixRight'
  <2> SUFFICES ASSUME NEW x \in Addresses, given'[x] # 0
               PROVE  prefix'[x] = buddy_exp(given'[x]) /\ given'[x] + PREFIX <= 2 ^ prefix'[x]
    BY DEF PrefixRight, InUse, buddy_exp
  <2>1. CASE x = a
    BY <1>5, <1>11, <2>1, ExpRight DEF ListsRight
  <2>2. CASE x # a
    <3>1. prefix'[x] = prefix[x] /\ given'[x] = given[x]
      BY <1>5, <1>11, <2>2 DEF ListsRight
    <3>2. QED
      BY <3>1 DEF BuddyInv, PrefixRight, InUse
  <2>3. QED
    BY <2>1, <2>2
<1>14. QED
  BY <1>8, <1>10, <1>11, <1>12, <1>13 DEF BuddyInv, l

\* kmalloc takes the first buddy of the smallest exponent that has one.
LEMMA ReuseInv ==
  ASSUME BuddyInv, NEW sz \in Sizes, kmalloc_reuse(sz)
  PROVE  BuddyInv'
<1> DEFINE low == buddy_exp(sz)
           k == Min(Usable(low))
           s == buddy_lists[k]
           a == Head(s)
           lists == [buddy_lists EXCEPT ![k] = Tail(s)]
<1>1. low \in Exps
  BY ExpRight
<1>2. k \in Exps /\ low <= k /\ s # << >>
  <2>1. Usable(low) \subseteq Exps /\ Usable(low) \subseteq Nat /\ Usable(low) # {}
    BY <1>1, BuddyConstants DEF Usable, Exps, kmalloc_reuse
  <2>2. PICK x \in Usable(low) : \A y \in Usable(low) : ~(y < x)
    BY <2>1, Smallest
  <2>3. \A y \in Usable(low) : x <= y
    BY <2>1, <2>2
  <2>4. k \in Usable(low)
    BY <2>3 DEF Min
  <2>5. \A x1 \in Usable(low) : low <= x1 /\ buddy_lists[x1] # << >>
    BY <1>1, BuddyConstants DEF Usable, Exps
  <2> HIDE DEF k
  <2>6. QED
    BY <2>1, <2>4, <2>5
<1>3. HandOut(a, k, low, lists, sz) /\ area' = area
  BY DEF kmalloc_reuse
<1> HIDE DEF k, low
<1>4. buddy_lists \in [Exps -> Seq(Addresses)] /\ s \in Seq(Addresses) /\ \A i, j \in 1..Len(s) : s[i] = s[j] => i = j
  BY <1>2 DEF BuddyInv, ListsRight, NoRepeats
<1> HIDE DEF s
<1>5. /\ a \in Addresses /\ Tail(s) \in Seq(Addresses) /\ \E i \in 1..Len(s) : s[i] = a
      /\ \A x \in Addresses : (\E i \in 1..Len(Tail(s)) : Tail(s)[i] = x) <=> x # a /\ \E i \in 1..Len(s) : s[i] = x
      /\ \A i, j \in 1..Len(Tail(s)) : Tail(s)[i] = Tail(s)[j] => i = j
  BY <1>2, <1>4, TakeFirst
<1> HIDE DEF a
<1>6. ASSUME NEW e \in Exps
      PROVE  /\ \A i, j \in 1..Len(lists[e]) : lists[e][i] = lists[e][j] => i = j
             /\ \A x \in Addresses : FreeIn(lists, e, x) <=> FreeIn(buddy_lists, e, x) /\ ~(e = k /\ x = a)
  <2>1. CASE e = k
    <3>1. lists[e] = Tail(s) /\ buddy_lists[e] = s
      BY <1>2, <1>4, <2>1 DEF s
    <3> HIDE DEF lists
    <3>2. /\ \A x \in Addresses : FreeIn(lists, e, x) <=> \E i \in 1..Len(Tail(s)) : Tail(s)[i] = x
          /\ \A x \in Addresses : FreeIn(buddy_lists, e, x) <=> \E i \in 1..Len(s) : s[i] = x
      BY <3>1 DEF FreeIn
    <3>3. \A i, j \in 1..Len(lists[e]) : lists[e][i] = lists[e][j] => i = j
      <4> DEFINE u == lists[e]
                 v == Tail(s)
      <4>1. u = v /\ \A i, j \in 1..Len(v) : v[i] = v[j] => i = j
        BY <1>5, <3>1
      <4> HIDE DEF u, v
      <4>2. \A i, j \in 1..Len(u) : u[i] = u[j] => i = j
        BY <4>1
      <4>3. QED
        BY <4>2 DEF u
    <3>4. QED
      BY <1>5, <2>1, <3>2, <3>3
  <2>2. CASE e # k
    <3>1. lists[e] = buddy_lists[e]
      BY <1>4, <2>2
    <3>2. QED
      BY <2>2, <3>1 DEF FreeIn, BuddyInv, ListsRight, NoRepeats
  <2>3. QED
    BY <2>1, <2>2
<1>7. lists \in [Exps -> Seq(Addresses)]
  BY <1>2, <1>4, <1>5
<1> HIDE DEF lists
<1>8. ListsRight(lists, prefix)
  BY <1>6, <1>7 DEF BuddyInv, ListsRight, NoRepeats
<1>9. FreeIn(buddy_lists, k, a) /\ prefix[a] = NoMagic
  <2>1. FreeIn(buddy_lists, k, a)
    BY <1>5 DEF FreeIn, s
  <2>2. QED
    BY <1>2, <1>5, <2>1 DEF BuddyInv, ListsRight
<1>10. <<a, k>> \notin BlocksOf(lists, prefix)
  <2>1. ~FreeIn(lists, k, a) /\ prefix[a] # k
    BY <1>2, <1>5, <1>6, <1>9, BuddyConstants
  <2>2. QED
    BY <2>1 DEF BlocksOf
<1>11. BlocksOf(lists, prefix) \cup {<<a, k>>} = BlocksOf(buddy_lists, prefix)
  <2>1. ASSUME NEW x \in Addresses, NEW e \in Exps
        PROVE  (FreeIn(buddy_lists, e, x) \/ prefix[x] = e)
                 <=> (FreeIn(lists, e, x) \/ prefix[x] = e) \/ <<x, e>> = <<a, k>>
    BY <1>6, <1>9
  <2> DEFINE A == BlocksOf(lists, prefix)
             B == BlocksOf(buddy_lists, prefix)
             b == <<a, k>>
  <2>2. ASSUME NEW z \in Addresses \X Exps PROVE z \in B <=> z \in A \/ z = b
    <3>1. PICK x \in Addresses, e \in Exps : z = <<x, e>>
      OBVIOUS
    <3>2. QED
      BY <2>1, <3>1 DEF BlocksOf
  <2>3. A \subseteq Addresses \X Exps /\ B \subseteq Addresses \X Exps /\ b \in Addresses \X Exps
    BY <1>2, <1>5 DEF BlocksOf
  <2> HIDE DEF A, B, b
  <2>4. A \cup {b} = B
    BY <2>2, <2>3
  <2>5. QED
    BY <2>4 DEF A, B, b
<1>12. Tiles(BlocksOf(lists, prefix) \cup {<<a, k>>}, area') /\ area' \in 0..Limit
  BY <1>3, <1>11 DEF BuddyInv
<1>13. low = buddy_exp(sz)
  BY DEF low
<1>14. QED
  BY <1>2, <1>3, <1>5, <1>8, <1>10, <1>12, <1>13, HandOutInv

\* palloc provides a block behind those that there are.
LEMMA GrowInv ==
  ASSUME BuddyInv, NEW sz \in Sizes, kmalloc_grow(sz)
  PROVE  BuddyInv' /\ given'[area] = sz /\ Usable(buddy_exp(sz)) = {}
<1> DEFINE low == buddy_exp(sz)
           k == Max({low, BUDDY_ALLOC})
<1>1. low \in Exps /\ BUDDY_ALLOC \in Exps /\ low \in Nat /\ BUDDY_ALLOC \in Nat
  BY ExpRight, BuddyConstants
<1>2. k \in {low, BUDDY_ALLOC} /\ low <= k
  <2> HIDE DEF low
  <2>1. \E x \in {low, BUDDY_ALLOC} : \A y \in {low, BUDDY_ALLOC} : x >= y
    BY <1>1
  <2>2. k \in {low, BUDDY_ALLOC} /\ \A y \in {low, BUDDY_ALLOC} : k >= y
    BY <2>1 DEF Max
  <2>3. QED
    BY <1>1, <2>2
<1>3. /\ HandOut(area, k, low, buddy_lists, sz) /\ Usable(low) = {}
      /\ area' = area + Pow(k) /\ area + Pow(k) <= Limit
  BY DEF kmalloc_grow, Pow
<1>4. k \in Exps /\ Pow(k) \in Nat /\ 1 <= Pow(k) /\ area \in Nat /\ Limit \in Nat
  BY <1>1, <1>2, BuddyConstants DEF BuddyInv
<1> HIDE DEF k, low
<1>5. area \in Addresses /\ area' \in 0..Limit
  BY <1>3, <1>4 DEF Addresses
<1>6. ListsRight(buddy_lists, prefix) /\ Tiles(BlocksOf(buddy_lists, prefix), area)
  BY DEF BuddyInv
<1>7. /\ <<area, k>> \notin BlocksOf(buddy_lists, prefix)
      /\ Tiles(BlocksOf(buddy_lists, prefix) \cup {<<area, k>>}, area')
  BY <1>3, <1>4, <1>6, TilesGrow
<1>8. low = buddy_exp(sz)
  BY DEF low
<1>9. BuddyInv'
  BY <1>2, <1>3, <1>4, <1>5, <1>6, <1>7, <1>8, HandOutInv
<1>10. given'[area] = sz
  BY <1>3, <1>5 DEF HandOut, BuddyInv
<1>11. QED
  BY <1>3, <1>9, <1>10 DEF low

\* kfree finds the list of the block, on which the block is not.
LEMMA FreeInv ==
  ASSUME BuddyInv, NEW a \in Addresses, kfree(a)
  PROVE  BuddyInv'
<1> DEFINE k == prefix[a]
           s == buddy_lists[k]
           l == buddy_lists'
<1>1. /\ k \in Exps /\ buddy_lists \in [Exps -> Seq(Addresses)] /\ prefix \in [Addresses -> Exps \cup {NoMagic}]
      /\ l = [buddy_lists EXCEPT ![k] = <<a>> \o s] /\ prefix' = [prefix EXCEPT ![a] = NoMagic]
      /\ given' = [given EXCEPT ![a] = 0] /\ area' = area /\ prefix[a] = k
      /\ given \in [Addresses -> Sizes \cup {0}]
  BY DEF kfree, Linked, BuddyInv, ListsRight
<1>2. \A e \in Exps : ~FreeIn(buddy_lists, e, a)
  BY DEF kfree, BuddyInv, ListsRight
<1>3. s \in Seq(Addresses) /\ (\A i, j \in 1..Len(s) : s[i] = s[j] => i = j) /\ ~(\E i \in 1..Len(s) : s[i] = a)
  BY <1>1, <1>2 DEF BuddyInv, ListsRight, NoRepeats, FreeIn
<1>4. l[k] = <<a>> \o s /\ \A e \in Exps : e # k => l[e] = buddy_lists[e]
  BY <1>1
<1> HIDE DEF k
<1>5. /\ l[k] \in Seq(Addresses)
      /\ \A x \in Addresses : (\E i \in 1..Len(l[k]) : l[k][i] = x) <=> x = a \/ \E i \in 1..Len(s) : s[i] = x
      /\ \A i, j \in 1..Len(l[k]) : l[k][i] = l[k][j] => i = j
  <2> HIDE DEF s, l
  <2> QED BY <1>3, <1>4, PutFront
<1>6. ASSUME NEW e \in Exps
      PROVE  /\ l[e] \in Seq(Addresses)
             /\ \A i, j \in 1..Len(l[e]) : l[e][i] = l[e][j] => i = j
             /\ \A x \in Addresses : FreeIn(l, e, x) <=> FreeIn(buddy_lists, e, x) \/ (e = k /\ x = a)
  <2>1. CASE e = k
    BY <1>5, <2>1 DEF FreeIn
  <2>2. CASE e # k
    BY <1>1, <1>4, <2>2 DEF FreeIn, BuddyInv, ListsRight, NoRepeats
  <2>3. QED
    BY <2>1, <2>2
<1>7. l \in [Exps -> Seq(Addresses)]
  BY <1>1, <1>6
<1> HIDE DEF l
<1>8. \A x \in Addresses : prefix'[x] = IF x = a THEN NoMagic ELSE prefix[x]
  BY <1>1
<1>9. ListsRight(l, prefix')
  <2>1. prefix' \in [Addresses -> Exps \cup {NoMagic}]
    BY <1>1
  <2>2. NoRepeats(l)
    BY <1>6 DEF NoRepeats
  <2>3. \A e \in Exps, x \in Addresses : FreeIn(l, e, x) => prefix'[x] = NoMagic
    BY <1>6, <1>8 DEF BuddyInv, ListsRight
  <2>4. QED
    BY <1>7, <2>1, <2>2, <2>3 DEF ListsRight
<1>10. BlocksOf(l, prefix') = BlocksOf(buddy_lists, prefix)
  <2>1. ASSUME NEW x \in Addresses, NEW e \in Exps
        PROVE  (FreeIn(l, e, x) \/ prefix'[x] = e) <=> (FreeIn(buddy_lists, e, x) \/ prefix[x] = e)
    <3>1. CASE x = a /\ e = k
      BY <1>1, <1>6, <3>1
    <3>2. CASE x = a /\ e # k
      BY <1>1, <1>2, <1>6, <1>8, <3>2, BuddyConstants
    <3>3. CASE x # a
      BY <1>6, <1>8, <3>3
    <3>4. QED
      BY <3>1, <3>2, <3>3
  <2>2. QED
    BY <2>1 DEF BlocksOf
<1>11. \A x \in Addresses : given'[x] = IF x = a THEN 0 ELSE given[x]
  BY <1>1
<1>12. \A x \in Addresses : prefix'[x] = NoMagic <=> given'[x] = 0
  BY <1>8, <1>11 DEF BuddyInv
<1>13. PrefixRight'
  <2> SUFFICES ASSUME NEW x \in Addresses, given'[x] # 0
               PROVE  prefix'[x] = buddy_exp(given'[x]) /\ given'[x] + PREFIX <= 2 ^ prefix'[x]
    BY DEF PrefixRight, InUse, buddy_exp
  <2>1. prefix'[x] = prefix[x] /\ given'[x] = given[x]
    BY <1>8, <1>11
  <2>2. QED
    BY <2>1 DEF BuddyInv, PrefixRight, InUse
<1>14. given' \in [Addresses -> Sizes \cup {0}]
  BY <1>1
<1>15. QED
  BY <1>1, <1>9, <1>10, <1>12, <1>13, <1>14 DEF BuddyInv, l

\* The heap begins without memory.
LEMMA BuddyInitInv == BuddyInit => BuddyInv
<1> SUFFICES ASSUME BuddyInit PROVE BuddyInv
  OBVIOUS
<1>1. ListsRight(buddy_lists, prefix)
  BY DEF BuddyInit, ListsRight, NoRepeats, FreeIn
<1>2. BlocksOf(buddy_lists, prefix) = {}
  <2>1. \A x \in Addresses, e \in Exps : ~FreeIn(buddy_lists, e, x) /\ prefix[x] # e
    BY BuddyConstants DEF BuddyInit, FreeIn
  <2>2. QED
    BY <2>1 DEF BlocksOf
<1>3. Tiles(BlocksOf(buddy_lists, prefix), area) /\ area \in 0..Limit
  BY <1>2, BuddyConstants DEF Tiles, BuddyInit
<1>4. QED
  BY <1>1, <1>3 DEF BuddyInit, BuddyInv, PrefixRight, InUse

\* Every step preserves the invariant.
LEMMA BuddyNextInv == BuddyInv /\ [BuddyNext]_buddyVars => BuddyInv'
<1> SUFFICES ASSUME BuddyInv, [BuddyNext]_buddyVars PROVE BuddyInv'
  OBVIOUS
<1>1. CASE UNCHANGED buddyVars
  <2>1. UNCHANGED <<buddy_lists, prefix, area, given>>
    BY <1>1 DEF buddyVars
  <2>2. PrefixRight'
    BY <2>1 DEF BuddyInv, PrefixRight, InUse, buddy_exp
  <2>3. QED
    BY <2>1, <2>2 DEF BuddyInv
<1>2. QED
  BY <1>1, ReuseInv, GrowInv, FreeInv DEF BuddyNext

\* The blocks of the invariant are those of the property.
LEMMA BuddyInvDivides == BuddyInv => HeapDivided
<1> SUFFICES ASSUME BuddyInv PROVE HeapDivided
  OBVIOUS
<1> DEFINE Z == BlocksOf(buddy_lists, prefix)
<1>1. BuddyTypeOK
  BY DEF BuddyInv, BuddyTypeOK, ListsRight
<1>2. \A x, e : Block(x, e) = Stretch(x, e)
  BY DEF Block, Stretch, Pow
<1>3. ASSUME NEW f \in FreeBuddies
      PROVE  /\ f[1] \in Exps /\ f[2] \in 1..Len(buddy_lists[f[1]]) /\ f = <<f[1], f[2]>>
             /\ <<buddy_lists[f[1]][f[2]], f[1]>> \in Z
             /\ FreeBlock(f) = Bytes(<<buddy_lists[f[1]][f[2]], f[1]>>)
             /\ prefix[buddy_lists[f[1]][f[2]]] = NoMagic
  <2>1. PICK e \in Exps : \E i \in DOMAIN buddy_lists[e] : f = <<e, i>>
    BY DEF FreeBuddies
  <2>2. PICK i \in DOMAIN buddy_lists[e] : f = <<e, i>>
    BY <2>1
  <2>3. buddy_lists[e] \in Seq(Addresses)
    BY DEF BuddyInv, ListsRight
  <2>4. i \in 1..Len(buddy_lists[e]) /\ buddy_lists[e][i] \in Addresses
    BY <2>2, <2>3
  <2>5. f[1] = e /\ f[2] = i
    BY <2>2
  <2>6. FreeIn(buddy_lists, e, buddy_lists[e][i])
    BY <2>4 DEF FreeIn
  <2>7. <<buddy_lists[e][i], e>> \in Z /\ prefix[buddy_lists[e][i]] = NoMagic
    BY <2>4, <2>6 DEF BlocksOf, BuddyInv, ListsRight
  <2>8. FreeBlock(f) = Bytes(<<buddy_lists[e][i], e>>)
    BY <1>2, <2>5 DEF FreeBlock, Bytes
  <2>9. QED
    BY <2>2, <2>4, <2>5, <2>7, <2>8
<1>4. ASSUME NEW a \in InUse
      PROVE  a \in Addresses /\ <<a, prefix[a]>> \in Z /\ Block(a, prefix[a]) = Bytes(<<a, prefix[a]>>) /\ prefix[a] # NoMagic
  <2>1. a \in Addresses /\ prefix[a] \in Exps /\ prefix[a] # NoMagic
    BY DEF InUse, BuddyInv, ListsRight
  <2>2. QED
    BY <1>2, <2>1 DEF BlocksOf, Bytes
<1>5. \A z, w \in Z : z # w => Bytes(z) \cap Bytes(w) = {}
  BY DEF BuddyInv, Tiles
<1>6. \A f, g \in FreeBuddies : f # g => FreeBlock(f) \cap FreeBlock(g) = {}
  <2> TAKE f, g \in FreeBuddies
  <2> HAVE f # g
  <2>1. f[1] # g[1] \/ f[2] # g[2]
    BY <1>3
  <2>2. f[1] = g[1] => buddy_lists[f[1]][f[2]] # buddy_lists[g[1]][g[2]]
    <3> DEFINE e == f[1]
               i == f[2]
               j == g[2]
    <3> SUFFICES ASSUME e = g[1] PROVE buddy_lists[e][i] # buddy_lists[e][j]
      OBVIOUS
    <3>1. e \in Exps /\ i \in 1..Len(buddy_lists[e]) /\ j \in 1..Len(buddy_lists[e]) /\ i # j
      BY <1>3, <2>1
    <3> HIDE DEF e, i, j
    <3>2. QED
      BY <3>1 DEF BuddyInv, ListsRight, NoRepeats
  <2> DEFINE z == <<buddy_lists[f[1]][f[2]], f[1]>>
             w == <<buddy_lists[g[1]][g[2]], g[1]>>
  <2>3. z # w
    BY <2>2
  <2>4. z \in Z /\ w \in Z /\ FreeBlock(f) = Bytes(z) /\ FreeBlock(g) = Bytes(w)
    BY <1>3
  <2> HIDE DEF z, w
  <2>5. QED
    BY <1>5, <2>3, <2>4
<1>7. \A a, b \in InUse : a # b => Block(a, prefix[a]) \cap Block(b, prefix[b]) = {}
  <2> TAKE a, b \in InUse
  <2> HAVE a # b
  <2>1. <<a, prefix[a]>> # <<b, prefix[b]>>
    OBVIOUS
  <2>2. QED
    BY <1>4, <1>5, <2>1
<1>8. \A f \in FreeBuddies, a \in InUse : FreeBlock(f) \cap Block(a, prefix[a]) = {}
  <2> TAKE f \in FreeBuddies, a \in InUse
  <2>1. buddy_lists[f[1]][f[2]] # a
    BY <1>3, <1>4
  <2> DEFINE z == <<buddy_lists[f[1]][f[2]], f[1]>>
             w == <<a, prefix[a]>>
  <2>2. z # w
    BY <2>1
  <2>3. z \in Z /\ w \in Z /\ FreeBlock(f) = Bytes(z) /\ Block(a, prefix[a]) = Bytes(w)
    BY <1>3, <1>4
  <2> HIDE DEF z, w
  <2>4. QED
    BY <1>5, <2>2, <2>3
<1>9. ASSUME NEW x \in 0..(area - 1)
      PROVE  (\E f \in FreeBuddies : x \in FreeBlock(f)) \/ \E a \in InUse : x \in Block(a, prefix[a])
  <2>1. PICK z \in Z : x \in Bytes(z)
    BY DEF BuddyInv, Tiles
  <2>2. PICK a \in Addresses, e \in Exps : z = <<a, e>>
    BY DEF BlocksOf
  <2>3. FreeIn(buddy_lists, e, a) \/ prefix[a] = e
    BY <2>2 DEF BlocksOf
  <2>4. CASE FreeIn(buddy_lists, e, a)
    <3>1. PICK i \in 1..Len(buddy_lists[e]) : buddy_lists[e][i] = a
      BY <2>4 DEF FreeIn
    <3>2. buddy_lists[e] \in Seq(Addresses)
      BY DEF BuddyInv, ListsRight
    <3>3. i \in DOMAIN buddy_lists[e]
      BY <3>1, <3>2
    <3>4. <<e, i>> \in FreeBuddies
      BY <3>3 DEF FreeBuddies
    <3>5. FreeBlock(<<e, i>>) = Bytes(z)
      BY <1>2, <2>2, <3>1 DEF FreeBlock, Bytes
    <3>6. QED
      BY <2>1, <3>4, <3>5
  <2>5. CASE prefix[a] = e
    <3>1. a \in InUse
      BY <2>5, BuddyConstants DEF InUse, BuddyInv
    <3>2. Block(a, prefix[a]) = Bytes(z)
      BY <1>2, <2>2, <2>5 DEF Bytes
    <3>3. QED
      BY <2>1, <3>1, <3>2
  <2>6. QED
    BY <2>3, <2>4, <2>5
<1>10. \A z \in Z : Bytes(z) \subseteq 0..(area - 1)
  <2> TAKE z \in Z
  <2>1. z[1] \in Nat /\ z[2] \in Exps /\ z[1] + Pow(z[2]) <= area
    BY DEF BuddyInv, Tiles
  <2>2. Pow(z[2]) \in Nat /\ area \in Nat
    BY <2>1, BuddyConstants DEF BuddyInv
  <2>3. QED
    BY <2>1, <2>2 DEF Bytes, Stretch
<1> HIDE DEF Z
<1>11. (UNION {FreeBlock(f) : f \in FreeBuddies}) \cup (UNION {Block(a, prefix[a]) : a \in InUse}) = 0..(area - 1)
  <2>1. \A f \in FreeBuddies : FreeBlock(f) \subseteq 0..(area - 1)
    BY <1>3, <1>10
  <2>2. \A a \in InUse : Block(a, prefix[a]) \subseteq 0..(area - 1)
    BY <1>4, <1>10
  <2> DEFINE A == UNION {FreeBlock(f) : f \in FreeBuddies}
             B == UNION {Block(a, prefix[a]) : a \in InUse}
  <2>3. A \subseteq 0..(area - 1) /\ B \subseteq 0..(area - 1)
    BY <2>1, <2>2
  <2>4. \A x \in 0..(area - 1) : x \in A \/ x \in B
    BY <1>9
  <2> HIDE DEF A, B
  <2>5. A \cup B = 0..(area - 1)
    BY <2>3, <2>4
  <2>6. QED
    BY <2>5 DEF A, B
<1>12. Partition
  BY <1>6, <1>7, <1>8, <1>11 DEF Partition
<1>13. QED
  BY <1>1, <1>12 DEF BuddyInv, HeapDivided

\* Whatever is allocated, split, freed and freed again, the free buddies and the blocks
\* in use divide the memory that palloc has provided, and the prefix of every block in
\* use is the exponent of its size: for all sizes of buddies and requests.
THEOREM BuddyCorrect == BuddySpec => []HeapDivided
<1>1. BuddyInit => BuddyInv
  BY BuddyInitInv
<1>2. BuddyInv /\ [BuddyNext]_buddyVars => BuddyInv'
  BY BuddyNextInv
<1>3. BuddyInv => HeapDivided
  BY BuddyInvDivides
<1>4. QED
  BY <1>1, <1>2, <1>3, PTL DEF BuddySpec

\* kmalloc calls palloc only when buddy_get finds no buddy for the request.
THEOREM BuddyGrowth == BuddySpec => NoNeedlessGrowth
<1> DEFINE Needed == area' # area => \A e \in Exps \ {BUDDY_MAX} :
                        given'[area] + PREFIX <= 2 ^ e => buddy_lists[e] = << >>
<1>1. BuddyInit => BuddyInv
  BY BuddyInitInv
<1>2. BuddyInv /\ [BuddyNext]_buddyVars => BuddyInv'
  BY BuddyNextInv
<1>3. BuddyInv /\ [BuddyNext]_buddyVars => [Needed]_buddyVars
  <2> SUFFICES ASSUME BuddyInv, [BuddyNext]_buddyVars, area' # area, NEW e \in Exps \ {BUDDY_MAX},
                      given'[area] + PREFIX <= 2 ^ e
               PROVE  buddy_lists[e] = << >>
    OBVIOUS
  <2>1. PICK sz \in Sizes : kmalloc_grow(sz)
    BY DEF BuddyNext, kmalloc_reuse, kfree, buddyVars
  <2>2. given'[area] = sz /\ Usable(buddy_exp(sz)) = {}
    BY <2>1, GrowInv
  <2>3. buddy_exp(sz) <= e /\ buddy_exp(sz) \in Exps
    BY <2>2, ExpRight
  <2>4. e \in buddy_exp(sz)..(BUDDY_MAX - 1)
    BY <2>3, BuddyConstants DEF Exps
  <2>5. QED
    BY <2>2, <2>4 DEF Usable
<1>4. QED
  BY <1>1, <1>2, <1>3, PTL DEF BuddySpec, NoNeedlessGrowth
================================================================================
