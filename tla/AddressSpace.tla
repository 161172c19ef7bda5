----------------------------- MODULE AddressSpace -----------------------------
(***************************************************************************)
(* The page tables of arch/x86/mm/page.c, over the life of the tasks that  *)
(* own them: page_map fills the tables of the current task, page_map_copy  *)
(* builds those of a new one and page_map_drop frees them at exit.         *)
(*                                                                         *)
(* Two levels: a root table and tables of pages, which all have the same   *)
(* number of entries.  mem is the physical memory; a frame keeps its       *)
(* content when it is freed.  The self-references in the last two entries  *)
(* of a root are left out: page_map_copy skips them.  Every operation runs *)
(* under irqsave locks or concerns the current task only, so it is one     *)
(* action.                                                                 *)
(***************************************************************************)
EXTENDS Integers, FiniteSets, FiniteSetsExt

CONSTANTS
  Users, Boot,     \* the tasks, and the one that exists at first
  FRAMES,          \* the number of page frames
  ENTRIES,         \* the entries of a table
  KernelTables,    \* the entries of a root that cover the kernel's addresses
  CopyMayFail      \* whether tasks are created when frames may run out

ASSUME AddressSpaceAssumption ==
  /\ Boot \in Users /\ FRAMES \in Nat /\ ENTRIES \in Nat
  /\ KernelTables \subseteq 1..ENTRIES /\ CopyMayFail \in BOOLEAN

Frames == 1..FRAMES
Index == 1..ENTRIES

VARIABLES
  mem,         \* the entries that each frame holds
  free_frames,        \* the frames that get_pages may return
  page_map,    \* task_t.page_map: the frame of the root; 0 for no task
  user_usage,  \* task_t.user_usage
  exiting,     \* the tasks between page_map_drop and their last reschedule
  kframes,     \* the frames of the kernel's pages; they are not given back
  lost         \* the roots of tasks that have exited; not in the code

asVars == <<mem, free_frames, page_map, user_usage, exiting, kframes, lost>>

\* An entry: the frame, and PG_USER.  Absent is an entry without PG_PRESENT.
Absent == [frame |-> 0, user |-> FALSE]
Entry(f, u) == [frame |-> f, user |-> u]
Present(e) == e.frame # 0

Live == {t \in Users : page_map[t] # 0} \ exiting

ASTypeOK ==
  /\ mem \in [Frames -> [Index -> [frame : 0..FRAMES, user : BOOLEAN]]]
  /\ free_frames \subseteq Frames /\ kframes \subseteq Frames /\ lost \subseteq Frames
  /\ page_map \in [Users -> 0..FRAMES]
  /\ user_usage \in [Users -> Int] /\ exiting \subseteq Users

ASInit ==
  /\ mem = [f \in Frames |-> [i \in Index |-> Absent]]
  /\ free_frames = Frames \ {1}
  /\ page_map = [t \in Users |-> IF t = Boot THEN 1 ELSE 0]
  /\ user_usage = [t \in Users |-> 0]
  /\ exiting = {} /\ kframes = {} /\ lost = {}

Root(t) == mem[page_map[t]]

\* The n-th frame that get_pages returns.
Frame(n) == CHOOSE f \in free_frames : Cardinality({g \in free_frames : g < f}) = n - 1

-----------------------------------------------------------------------------
\* What a new table holds.
TableCleared(f) == [i \in Index |-> Absent]

\* page_map of one new page at entry j of table i, by the current task t, for
\* the page fault handler or palloc.  The page is allocated first; if a table is
\* needed and there is no frame for it, the page is given back.
map_page(t, i, j) ==
  LET user == i \notin KernelTables
      page == Frame(1)
      new == ~Present(Root(t)[i])
      table == IF new THEN Frame(2) ELSE Root(t)[i].frame
      old == IF new THEN TableCleared(table) ELSE mem[table]
  IN  /\ free_frames # {} /\ (new => Cardinality(free_frames) > 1)
      /\ new \/ ~Present(mem[table][j])
      /\ free_frames' = free_frames \ {page, table}
      /\ mem' = [mem EXCEPT ![page_map[t]][i] = Entry(table, TRUE),
                            ![table] = [old EXCEPT ![j] = Entry(page, user)]]
      /\ user_usage' = [user_usage EXCEPT ![t] = IF new /\ user THEN @ + 1 ELSE @]
      /\ kframes' = IF user THEN kframes ELSE kframes \cup {page}
      /\ UNCHANGED <<page_map, exiting, lost>>

-----------------------------------------------------------------------------
\* page_map_copy visits the tables in order, each one before its pages, and
\* takes a frame for each table and each user page.  Here src is the root.
UserPages(src, i) == {j \in Index : Present(src[i]) /\ mem[src[i].frame][j].user}

\* How many frames it takes for table i and what is before it, and up to page j.
TableRank(src, i) ==
  MapThenSumSet(LAMBDA k : IF Present(src[k]) THEN 1 ELSE 0, 1..i)
    + MapThenSumSet(LAMBDA k : Cardinality(UserPages(src, k)), 1..(i - 1))
PageRank(src, i, j) == TableRank(src, i) + Cardinality({k \in UserPages(src, i) : k <= j})

\* The frames are used up before page j of table i, or before table i, is
\* reached: what follows keeps the content its frame had before.
NoFrameForPage(src, i, j, n) == \E k \in UserPages(src, i) : k <= j /\ PageRank(src, i, k) > n
NoFrameForTable(src, i, n) == \E k \in 1..i : Present(src[k]) /\ TableRank(src, k) > n

\* Faulty variant: user pages are shared with the new task.
CopiedShared(src, i, j, old, frame, n) ==
  IF NoFrameForPage(src, i, j, n) THEN old ELSE mem[src[i].frame][j]

\* Entry j of the copy of table i; frame[r] is the r-th frame, n their number.
Copied(src, i, j, old, frame, n) ==
  LET e == mem[src[i].frame][j]
  IN  IF NoFrameForPage(src, i, j, n) THEN old
      ELSE IF e.user THEN Entry(frame[PageRank(src, i, j)], TRUE) ELSE e

\* create_task, by task t: a frame for the root and page_map_copy, whose result
\* is ignored.
create_task_tables(t, d) ==
  LET src == Root(t)
      root == Frame(1)
      n == Cardinality(free_frames) - 1
      frame == [r \in 1..n |-> Frame(r + 1)]
      tables == {i \in Index : Present(src[i]) /\ ~NoFrameForTable(src, i, n)}
      pages == UNION {{PageRank(src, i, j) : j \in UserPages(src, i)} : i \in tables}
      taken == {frame[r] : r \in {TableRank(src, i) : i \in tables} \cup {r \in pages : r <= n}}
      table(f) == CHOOSE i \in tables : frame[TableRank(src, i)] = f
      copies == {frame[TableRank(src, i)] : i \in tables}
  IN  /\ page_map[d] = 0 /\ free_frames # {}
      /\ CopyMayFail \/ PageRank(src, ENTRIES, ENTRIES) <= n
      /\ page_map' = [page_map EXCEPT ![d] = root]
      /\ free_frames' = free_frames \ ({root} \cup taken)
      /\ user_usage' = [user_usage EXCEPT ![d] = Cardinality(taken)]
      /\ mem' = [f \in Frames |->
           CASE f = root ->
                  [i \in Index |-> IF NoFrameForTable(src, i, n) THEN mem[f][i]
                                   ELSE IF Present(src[i]) THEN Entry(frame[TableRank(src, i)], TRUE)
                                   ELSE Absent]
             [] f \in copies -> [j \in Index |-> Copied(src, table(f), j, mem[f][j], frame, n)]
             [] OTHER -> mem[f]]
      /\ UNCHANGED <<exiting, kframes, lost>>

-----------------------------------------------------------------------------
\* Faulty variant: the pages of the kernel are freed, too.
DroppedAll(e) == Present(e)

\* What page_map_drop frees.
Dropped(e) == Present(e) /\ e.user

\* page_map_drop in do_exit frees user pages and tables, not the root.  The task
\* still runs on these tables, and interrupts may preempt it.
page_map_drop(t) ==
  LET tables == {Root(t)[i].frame : i \in {k \in Index : Present(Root(t)[k])}}
      pages(f) == {k \in Index : Dropped(mem[f][k])}
  IN  /\ t # Boot
      /\ free_frames' = free_frames \cup tables \cup UNION {{mem[f][k].frame : k \in pages(f)} : f \in tables}
      /\ user_usage' = [user_usage EXCEPT ![t] =
           @ - Cardinality(tables) - MapThenSumSet(LAMBDA f : Cardinality(pages(f)), tables)]
      /\ exiting' = exiting \cup {t}
      /\ UNCHANGED <<mem, page_map, kframes, lost>>

\* The last reschedule: the slot is free again, and page_map is overwritten when
\* it is reused.
leave(t) ==
  /\ t \in exiting
  /\ exiting' = exiting \ {t}
  /\ page_map' = [page_map EXCEPT ![t] = 0]
  /\ user_usage' = [user_usage EXCEPT ![t] = 0]
  /\ lost' = lost \cup {page_map[t]}
  /\ UNCHANGED <<mem, free_frames, kframes>>

ASNext ==
  \/ \E t \in Live : \/ \E i, j \in Index : map_page(t, i, j)
                    \/ \E d \in Users : create_task_tables(t, d)
                    \/ page_map_drop(t)
  \/ \E t \in Users : leave(t)

ASSpec == ASInit /\ [][ASNext]_asVars

-----------------------------------------------------------------------------
(***************************************************************************)
(* Properties.                                                             *)
(***************************************************************************)

TablesOf(t) == {Root(t)[i].frame : i \in {k \in Index : Present(Root(t)[k])}}
Leaves(t) == {<<i, j>> \in Index \X Index : Present(Root(t)[i]) /\ Present(mem[Root(t)[i].frame][j])}
Leaf(t, p) == mem[Root(t)[p[1]].frame][p[2]]
UserLeaves(t) == {p \in Leaves(t) : Leaf(t, p).user}
Private(t) == {page_map[t]} \cup TablesOf(t) \cup {Leaf(t, p).frame : p \in UserLeaves(t)}

\* The root, the tables and the user pages of a task are its own: no sequence of
\* mappings, copies and exits lets two tasks share one, or uses one frame twice.
SpacesDisjoint ==
  /\ \A t, u \in Live : t # u => Private(t) \cap Private(u) = {}
  /\ \A t \in Live : Cardinality(Private(t)) = 1 + Cardinality(TablesOf(t)) + Cardinality(UserLeaves(t))

\* Every frame is free, a kernel page, part of the address space of a task, or
\* the root of a task that exits or has exited: nothing that a live task maps is
\* free, and nothing else is lost.
FramesAccounted ==
  LET private == UNION {Private(t) : t \in Live}
  IN  /\ free_frames \cap (private \cup kframes) = {}
      /\ Frames = free_frames \cup private \cup kframes \cup lost \cup {page_map[t] : t \in exiting}

\* A page of the kernel is mapped for the kernel only, and a page that the user
\* can access is none of the kernel's.
KernelProtected == \A t \in Live, p \in Index \X Index :
  p \in Leaves(t) => (Leaf(t, p).frame \in kframes) = (p[1] \in KernelTables)

\* The usage of a task is its number of user pages "including page map tables",
\* as the comment on the field says.
UsageExact == \A t \in Live :
  user_usage[t] = Cardinality(UserLeaves(t)) + Cardinality({p[1] : p \in UserLeaves(t)})

\* page_map_drop frees "a whole page map tree", as its comment says.
TreeFreed == lost \subseteq free_frames

\* The field page_map is the "physical address of root page table": until a task
\* leaves the processor for good, nobody else writes into its tables.
ExitingTablesIntact ==
  [][\A t \in exiting : t \in exiting' => \A f \in TablesOf(t) : mem'[f] = mem[f]]_asVars

\* A new task has all the mappings of the task that created it ("copy a whole
\* page map tree").
CopyComplete ==
  [][\A d \in Users : page_map[d] = 0 /\ page_map'[d] # 0
       => \E t \in Live : Leaves(d)' = Leaves(t)]_asVars

\* The kernel's pages are mapped in every address space: there is one list of
\* them and one lock "for kernel space page tables".
KernelShared ==
  \A t, u \in Live : {p \in Leaves(t) : p[1] \in KernelTables} = {p \in Leaves(u) : p[1] \in KernelTables}

\* What belongs to one task or to the kernel is nobody else's.
SpacesSeparate == ASTypeOK /\ SpacesDisjoint /\ KernelProtected
=============================================================================
