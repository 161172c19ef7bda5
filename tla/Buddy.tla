-------------------------------- MODULE Buddy --------------------------------
(***************************************************************************)
(* The kernel heap of mm/malloc.c: kmalloc, kfree and the lists of free    *)
(* buddies, one for each binary exponent of a size.  buddy_lock is held    *)
(* around each operation, so an operation is one step.  Memory comes from  *)
(* palloc, which this module takes as given: each call returns the next    *)
(* range of addresses, or fails.                                           *)
(***************************************************************************)
EXTENDS Integers, Sequences, FiniteSets, FiniteSetsExt

CONSTANTS
  BUDDY_MIN, BUDDY_ALLOC, BUDDY_MAX,
  PREFIX,   \* sizeof(buddy_t)
  Sizes,    \* the sizes that are asked for
  Limit     \* bound on the memory palloc can provide

Exps == BUDDY_MIN..BUDDY_MAX

ASSUME BuddyAssumption ==
  /\ BUDDY_MIN \in Nat /\ BUDDY_ALLOC \in Exps /\ BUDDY_MAX \in Nat
  /\ PREFIX \in 1..(2 ^ BUDDY_MIN)
  /\ Limit \in Nat
  /\ Sizes \subseteq Nat \ {0}
  /\ \A sz \in Sizes : sz + PREFIX <= 2 ^ BUDDY_MAX

NoMagic == -1   \* the prefix of a block does not carry BUDDY_MAGIC

VARIABLES
  buddy_lists,  \* for each exponent, the addresses of the free buddies
  prefix,       \* the exponent in front of each block, or NoMagic
  area,         \* palloc has provided the addresses 0..(area - 1)
  given         \* the size each address was last given out for; 0 when it is free

buddyVars == <<buddy_lists, prefix, area, given>>

Addresses == 0..(Limit - 1)

BuddyTypeOK ==
  /\ buddy_lists \in [Exps -> Seq(Addresses)]
  /\ prefix \in [Addresses -> Exps \cup {NoMagic}]
  /\ area \in 0..Limit
  /\ given \in [Addresses -> Sizes \cup {0}]

BuddyInit ==
  /\ buddy_lists = [e \in Exps |-> << >>]
  /\ prefix = [a \in Addresses |-> NoMagic]
  /\ area = 0
  /\ given = [a \in Addresses |-> 0]

-----------------------------------------------------------------------------
\* Faulty variant: the prefix is not counted.
buddy_exp_no_prefix(sz) == Min({e \in Exps : sz <= 2 ^ e})

\* The exponent of the block for a request of sz bytes and the prefix.
buddy_exp(sz) == Min({e \in Exps : sz + PREFIX <= 2 ^ e})

\* Faulty variant: only the list of the exponent itself is looked at.
UsableExact(exp) == {e \in {exp} : buddy_lists[e] # << >>}

\* The exponents whose lists buddy_get would take a buddy from.  A free buddy
\* of exponent BUDDY_MAX serves only a request of that size.
Usable(exp) == {e \in {exp} \cup exp..(BUDDY_MAX - 1) : buddy_lists[e] # << >>}

SecondHalf(a, e) == a + 2 ^ e

\* The lists after buddy a of exponent k was taken from lists and split down to
\* exp: every list in between was empty and holds a second half now.
Split(lists, a, k, exp) ==
  [e \in Exps |-> IF e \in exp..(k - 1) THEN <<SecondHalf(a, e)>> \o lists[e]
                                        ELSE lists[e]]

\* buddy_get returns a, and kmalloc writes the prefix.  The link of a second
\* half overwrites what was there.
HandOut(a, k, exp, lists, sz) ==
  /\ buddy_lists' = Split(lists, a, k, exp)
  /\ prefix' = [b \in Addresses |->
                  IF b = a THEN exp
                  ELSE IF \E e \in exp..(k - 1) : b = SecondHalf(a, e) THEN NoMagic
                  ELSE prefix[b]]
  /\ given' = [given EXCEPT ![a] = sz]

kmalloc_reuse(sz) ==
  LET exp == buddy_exp(sz)
      k   == Min(Usable(exp))
  IN /\ Usable(exp) # {}
     /\ HandOut(Head(buddy_lists[k]), k, exp, [buddy_lists EXCEPT ![k] = Tail(@)], sz)
     /\ UNCHANGED area

\* No free buddy is large enough: palloc is called.  If it fails, nothing changes.
kmalloc_grow(sz) ==
  LET exp == buddy_exp(sz)
      k   == Max({exp, BUDDY_ALLOC})
  IN /\ Usable(exp) = {}
     /\ area + 2 ^ k <= Limit
     /\ area' = area + 2 ^ k
     /\ HandOut(area, k, exp, buddy_lists, sz)

\* The link to the next buddy replaces the prefix.
Linked(a) == [prefix EXCEPT ![a] = NoMagic]

\* kfree of any address that carries the magic number, in use or not.
kfree(a) ==
  /\ prefix[a] # NoMagic
  /\ buddy_lists' = [buddy_lists EXCEPT ![prefix[a]] = <<a>> \o @]
  /\ prefix' = Linked(a)
  /\ given' = [given EXCEPT ![a] = 0]
  /\ UNCHANGED area

BuddyNext ==
  \/ \E sz \in Sizes : kmalloc_reuse(sz) \/ kmalloc_grow(sz)
  \/ \E a \in Addresses : kfree(a)

BuddySpec == BuddyInit /\ [][BuddyNext]_buddyVars

-----------------------------------------------------------------------------
(***************************************************************************)
(* Properties.                                                             *)
(***************************************************************************)

Block(a, e) == a..(a + 2 ^ e - 1)

FreeBuddies == UNION {{<<e, i>> : i \in DOMAIN buddy_lists[e]} : e \in Exps}
FreeBlock(f) == Block(buddy_lists[f[1]][f[2]], f[1])
InUse == {a \in Addresses : given[a] # 0}

\* The free buddies and the blocks in use divide the memory that palloc has
\* provided: no byte is in two of them, in one list twice, or in none, whatever
\* was split and freed, and even if an address is freed again while it is free.
Partition ==
  /\ \A f, g \in FreeBuddies : f # g => FreeBlock(f) \cap FreeBlock(g) = {}
  /\ \A a, b \in InUse : a # b => Block(a, prefix[a]) \cap Block(b, prefix[b]) = {}
  /\ \A f \in FreeBuddies, a \in InUse : FreeBlock(f) \cap Block(a, prefix[a]) = {}
  /\ (UNION {FreeBlock(f) : f \in FreeBuddies}) \cup (UNION {Block(a, prefix[a]) : a \in InUse})
       = 0..(area - 1)

\* The caller's bytes fit in its block behind the prefix, and kfree will find
\* the exponent of the block there: nothing else writes it.
PrefixRight == \A a \in InUse : prefix[a] = buddy_exp(given[a])
                             /\ given[a] + PREFIX <= 2 ^ prefix[a]

\* The heap grows only when no free buddy could hold the request.  (A free buddy
\* of exponent BUDDY_MAX is overlooked for smaller requests.)
NoNeedlessGrowth ==
  [][area' # area =>
       \A e \in Exps \ {BUDDY_MAX} :
         given'[area] + PREFIX <= 2 ^ e => buddy_lists[e] = << >>]_buddyVars

\* The lists, the prefixes and the blocks in use fit together.
HeapDivided == BuddyTypeOK /\ Partition /\ PrefixRight
=============================================================================
