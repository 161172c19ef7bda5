--------------------------------- MODULE Vma ---------------------------------
(***************************************************************************)
(* The kernel's list of virtual memory areas (mm/vma.c): vma_init's list,  *)
(* vma_alloc, vma_add and vma_free on the linked nodes.  vma_lock is held  *)
(* around each operation, so an operation is one step.  kmalloc, which     *)
(* provides the nodes, may fail; that it may also call vma_alloc is the    *)
(* subject of KernelHeap.  Addresses are page numbers.                     *)
(***************************************************************************)
EXTENDS Integers, Sequences, FiniteSets, FiniteSetsExt, SequencesExt

CONSTANTS
  Nodes,         \* number of vma_t, vma_boot included
  VMA_KERN_MIN, VMA_KERN_MAX,
  AllocSizes,    \* sizes asked of vma_alloc
  Regions,       \* the regions <<start, end>> given to vma_add
  MiddleFreed    \* may a caller free a range inside an area, touching no end?

ASSUME VmaAssumption ==
  /\ Nodes \in Nat \ {0}
  /\ VMA_KERN_MIN \in Nat /\ VMA_KERN_MAX \in Nat /\ VMA_KERN_MIN < VMA_KERN_MAX
  /\ \A r \in Regions : r[1] \in Nat /\ r[2] \in Nat /\ r[1] < r[2] /\ r[2] < VMA_KERN_MAX
  /\ AllocSizes \subseteq Nat \ {0}
  /\ MiddleFreed \in BOOLEAN

NULL == -1
vma_boot == 0
VMA_HEAP == "heap"
Flags == {VMA_HEAP, "other"}
Pages == 0..VMA_KERN_MAX

VARIABLES
  vma_list,   \* the first node, or NULL
  node,       \* the nodes
  allocated,  \* the nodes that kmalloc has given out, and vma_boot
  owned       \* the ranges <<start, end>> that callers have got and not freed

vmaVars == <<vma_list, node, allocated, owned>>

NodeIds == 0..(Nodes - 1)
Links == NodeIds \cup {NULL}

VmaTypeOK ==
  /\ vma_list \in Links
  /\ node \in [NodeIds -> [start : Pages, end : Pages, flags : Flags,
                           next : Links, prev : Links]]
  /\ allocated \in SUBSET NodeIds
  /\ owned \in SUBSET (Pages \X Pages)

EmptyArea == [start |-> VMA_KERN_MIN, end |-> VMA_KERN_MIN, flags |-> VMA_HEAP,
              next |-> NULL, prev |-> NULL]

\* The list starts with one empty area.
VmaInit ==
  /\ vma_list = vma_boot
  /\ node = [n \in NodeIds |-> EmptyArea]
  /\ allocated = {vma_boot}
  /\ owned = {}

-----------------------------------------------------------------------------
\* At most k nodes in the order of their next pointers, from node n on.
RECURSIVE ChainFrom(_, _)
ChainFrom(n, k) ==
  IF n = NULL \/ k = 0 THEN << >> ELSE <<n>> \o ChainFrom(node[n].next, k - 1)

Chain == ChainFrom(vma_list, Nodes)

\* Gap i of the list c is behind its i-th node.
Pred(c, i) == IF i = 0 THEN NULL ELSE c[i]
Succ(c, i) == IF i = Len(c) THEN NULL ELSE c[i + 1]
GapStart(c, i) == IF i = 0 THEN VMA_KERN_MIN ELSE node[Pred(c, i)].end
GapEnd(c, i) == IF Succ(c, i) = NULL THEN VMA_KERN_MAX ELSE node[Succ(c, i)].start

\* One page at least stays free between the new area and the next one.
Fits(c, i, size) ==
  /\ GapStart(c, i) + size < GapEnd(c, i)
  /\ GapStart(c, i) >= VMA_KERN_MIN
  /\ GapStart(c, i) + size < VMA_KERN_MAX

\* Faulty variant: the successor keeps its prev pointer.
LinkInNoPrev(c, new, i, s, e, flags) ==
  [n \in NodeIds |->
     IF n = new THEN [start |-> s, end |-> e, flags |-> flags, next |-> Succ(c, i), prev |-> Pred(c, i)]
     ELSE IF n = Pred(c, i) THEN [node[n] EXCEPT !.next = new]
     ELSE node[n]]

\* The nodes after node new with this content was inserted in gap i.
LinkIn(c, new, i, s, e, flags) ==
  [n \in NodeIds |->
     IF n = new THEN [start |-> s, end |-> e, flags |-> flags, next |-> Succ(c, i), prev |-> Pred(c, i)]
     ELSE IF n = Succ(c, i) THEN [node[n] EXCEPT !.prev = new]
     ELSE IF n = Pred(c, i) THEN [node[n] EXCEPT !.next = new]
     ELSE node[n]]

Insert(c, i, s, e, flags) ==
  \E new \in {Min(NodeIds \ allocated)} :
    /\ node' = LinkIn(c, new, i, s, e, flags)
    /\ allocated' = allocated \cup {new}
    /\ vma_list' = IF i = 0 THEN new ELSE vma_list

\* vma_alloc finds a gap, and extends the area before it or inserts a new one.
\* Without a gap, or without memory for a node, it changes nothing.
vma_alloc(size) ==
  LET c == Chain
      fits == {g \in 0..Len(c) : Fits(c, g, size)}
      i == Min(fits)
  IN /\ fits # {}
     /\ \/ /\ i # 0 /\ node[Pred(c, i)].flags = VMA_HEAP
           /\ node' = [node EXCEPT ![Pred(c, i)].end = GapStart(c, i) + size]
           /\ UNCHANGED <<vma_list, allocated>>
        \/ /\ ~(i # 0 /\ node[Pred(c, i)].flags = VMA_HEAP)
           /\ NodeIds \ allocated # {}
           /\ Insert(c, i, GapStart(c, i), GapStart(c, i) + size, VMA_HEAP)
     /\ owned' = owned \cup {<<GapStart(c, i), GapStart(c, i) + size>>}

FreeGap(c, i, s, e) ==
  /\ i = 0 \/ node[Pred(c, i)].end <= s
  /\ Succ(c, i) = NULL \/ node[Succ(c, i)].start >= e

\* vma_add inserts a given region, if it overlaps no other.
vma_add(s, e) ==
  LET c == Chain
      gaps == {g \in 0..Len(c) : FreeGap(c, g, s, e)}
  IN /\ gaps # {}
     /\ NodeIds \ allocated # {}
     /\ Insert(c, Min(gaps), s, e, "other")
     /\ owned' = owned \cup {<<s, e>>}

\* Area v after a range at one of its ends was freed.
Shrink(v, s, e) == IF s = node[v].start THEN [node[v] EXCEPT !.start = e]
                                        ELSE [node[v] EXCEPT !.end = s]

Whole(v, s, e) == s = node[v].start /\ e = node[v].end
Middle(v, s, e) == s # node[v].start /\ e # node[v].end

\* The nodes after area v was taken out of the list.  Nobody reads its node any
\* more, so its content does not matter.
Unlinked(v) ==
  [n \in NodeIds |->
     IF n = v THEN EmptyArea
     ELSE [node[n] EXCEPT !.next = IF n = node[v].prev THEN node[v].next ELSE @,
                          !.prev = IF n = node[v].next THEN node[v].prev ELSE @]]

\* The nodes after area v was split.  The flags of the new node are not set, and
\* the node behind it still points to v.
SplitAt(v, s, e, new, junk) ==
  [node EXCEPT ![v].end = s, ![v].next = new,
     ![new] = [start |-> e, end |-> node[v].end, flags |-> junk,
               next |-> node[v].next, prev |-> v]]

\* vma_free of a range that a caller owns.  The first area that contains it is
\* removed, shrunk or split.
vma_free(s, e) ==
  LET c == Chain
      holds == {i \in 1..Len(c) : s >= node[c[i]].start /\ e <= node[c[i]].end}
      v == c[Min(holds)]
  IN /\ <<s, e>> \in owned
     /\ holds # {}
     /\ Middle(v, s, e) => MiddleFreed /\ NodeIds \ allocated # {}
     /\ owned' = owned \ {<<s, e>>}
     /\ vma_list' = IF Whole(v, s, e) /\ v = vma_list THEN node[v].next ELSE vma_list
     /\ \E new \in (IF Middle(v, s, e) THEN {Min(NodeIds \ allocated)} ELSE {NULL}), junk \in Flags :
          /\ allocated' = IF Whole(v, s, e) THEN allocated \ {v}
                          ELSE allocated \cup ({new} \ {NULL})
          /\ node' = IF Whole(v, s, e) THEN Unlinked(v)
                     ELSE IF Middle(v, s, e) THEN SplitAt(v, s, e, new, junk)
                     ELSE [node EXCEPT ![v] = Shrink(v, s, e)]

VmaNext ==
  \/ \E size \in AllocSizes : vma_alloc(size)
  \/ \E r \in Regions : vma_add(r[1], r[2])
  \/ \E r \in owned : vma_free(r[1], r[2])

VmaSpec == VmaInit /\ [][VmaNext]_vmaVars

-----------------------------------------------------------------------------
(***************************************************************************)
(* Properties.                                                             *)
(***************************************************************************)

Span(s, e) == s..(e - 1)

\* The list is in the order of the addresses and its areas do not overlap: what
\* the first-fit search and the insertion rely on.
VmaSorted ==
  LET c == Chain
  IN \A i \in 1..Len(c) :
       /\ node[c[i]].start <= node[c[i]].end
       /\ i < Len(c) => node[c[i]].end <= node[c[i + 1]].start

\* The prev pointers, which vma_free follows, are those of the same list.
PrevMatches ==
  LET c == Chain
  IN \A i \in 1..Len(c) : node[c[i]].prev = Pred(c, i - 1)

\* No two callers own the same page of the address space.
RangesDisjoint ==
  \A r, q \in owned : r # q => Span(r[1], r[2]) \cap Span(q[1], q[2]) = {}

\* The areas of the list are exactly what callers own: each item marks a used
\* part of the address space, and every used part is marked.
UsedIsMarked ==
  UNION {Span(node[n].start, node[n].end) : n \in ToSet(Chain)}
    = UNION {Span(r[1], r[2]) : r \in owned}

\* The list is a well-formed account of what callers own.
VmaListRight == VmaTypeOK /\ VmaSorted /\ PrevMatches /\ RangesDisjoint /\ UsedIsMarked
=============================================================================
