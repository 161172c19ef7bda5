------------------------------ MODULE FilesProofs ------------------------------
(***************************************************************************)
(* Proofs about files: names are looked up right while others are created, *)
(* and the bytes of a file of the RAM disk are where a write put them.     *)
(***************************************************************************)
EXTENDS Vfs, Initrd, FiniteSetTheorems, WellFoundedInduction, TLAPS

(***************************************************************************)
(* Arithmetic.                                                             *)
(***************************************************************************)
\* A set of numbers has a smallest one.
LEMMA Smallest ==
  ASSUME NEW T, T \subseteq Nat, NEW k \in T
  PROVE  \E x \in T : \A y \in T : ~(y < x)
<1> DEFINE R == OpToRel(<, Nat)
<1>1. IsWellFoundedOn(R, Nat)
  BY NatLessThanWellFounded
<1>2. \A x, y \in Nat : y < x => <<y, x>> \in R
  BY DEF OpToRel
<1> HIDE DEF R
<1>3. PICK x \in T : \A y \in T : ~(<<y, x>> \in R)
  BY <1>1, WFMin
<1>4. QED
  BY <1>2, <1>3, Zenon

\* Division with remainder.
LEMMA DivMod ==
  ASSUME NEW S \in Nat \ {0}, NEW x \in Nat
  PROVE  x = S * (x \div S) + (x % S) /\ x % S \in 0..(S - 1) /\ x \div S \in Nat
OBVIOUS

\* Multiples of S are S apart.
LEMMA Multiples ==
  ASSUME NEW S \in Nat \ {0}, NEW p \in Nat, NEW q \in Nat, p < q
  PROVE  S * p + S <= S * q /\ S * p \in Nat /\ S * q \in Nat
<1>1. PICK d \in Nat : q = p + 1 + d
  <2>1. q - p - 1 \in Nat /\ q = p + 1 + (q - p - 1)
    OBVIOUS
  <2>2. QED
    BY <2>1
<1>2. S * q = S * p + S + S * d /\ S * d \in Nat /\ S * p \in Nat
  BY <1>1
<1>3. QED
  BY <1>2

-----------------------------------------------------------------------------
(***************************************************************************)
(* Names: a path is a walk from the root.                                  *)
(***************************************************************************)
\* A node or NULL.
MaybeNode == Nodes \cup {NULL}

\* Child for the entries E.
ChildIn(E, d, name) ==
  LET hits == {e \in Names \X Nodes :
                 d # NULL /\ e[1] = name /\ \E i \in DOMAIN E[d] : E[d][i] = e}
  IN  IF hits = {} THEN NULL ELSE (CHOOSE e \in hits : TRUE)[2]

\* The nodes w on path p.
Walk(E, p, w) ==
  /\ w \in [0..Len(p) -> MaybeNode]
  /\ w[0] = fs_root
  /\ \A k \in 1..Len(p) : w[k] = ChildIn(E, w[k - 1], p[k])

\* The root is a node and NULL is not.
LEMMA VfsConstants == fs_root \in Nodes /\ NULL \notin Nodes /\ NULL \in MaybeNode /\ NODES \in Nat
<1>1. NODES \in Nat
  BY VfsAssumption
<1>2. QED
  BY <1>1 DEF fs_root, Nodes, NULL, MaybeNode

\* A name stands for a node or for nothing.
LEMMA ChildType == ASSUME NEW E, NEW d, NEW name PROVE ChildIn(E, d, name) \in MaybeNode
BY DEF ChildIn, MaybeNode

\* It depends on that directory only.
LEMMA ChildSame ==
  ASSUME NEW E, NEW F, NEW d, F[d] = E[d], NEW name
  PROVE  ChildIn(F, d, name) = ChildIn(E, d, name)
BY DEF ChildIn

\* NULL has no entries.
LEMMA NullChild == ASSUME NEW E, NEW name PROVE ChildIn(E, NULL, name) = NULL
BY DEF ChildIn

\* Every path has a walk.
LEMMA WalkExists ==
  ASSUME NEW E, NEW p \in Seq(Names)
  PROVE  \E w : Walk(E, p, w)
<1> DEFINE Good(n) == \E w \in [0..n -> MaybeNode] :
                        w[0] = fs_root /\ \A k \in 1..n : w[k] = ChildIn(E, w[k - 1], p[k])
           T == {n \in 0..Len(p) : ~Good(n)}
<1>1. Len(p) \in Nat
  OBVIOUS
<1> SUFFICES ASSUME Len(p) \in T PROVE FALSE
  BY <1>1 DEF Walk
<1>2. PICK n \in T : \A y \in T : ~(y < n)
  <2>1. T \subseteq Nat
    BY <1>1
  <2> HIDE DEF T
  <2>2. QED
    BY <2>1, Smallest
<1>3. n # 0
  <2> SUFFICES Good(0)
    OBVIOUS
  <2> DEFINE w == [i \in 0..0 |-> fs_root]
  <2>1. w \in [0..0 -> MaybeNode] /\ w[0] = fs_root
    BY VfsConstants DEF MaybeNode
  <2> HIDE DEF w
  <2>2. QED
    BY <2>1
<1>4. PICK m \in Nat : n = m + 1 /\ m \in 0..Len(p)
  <2>1. n - 1 \in Nat /\ n = (n - 1) + 1 /\ n - 1 \in 0..Len(p)
    BY <1>1, <1>3
  <2>2. QED
    BY <2>1
<1>5. Good(m)
  BY <1>2, <1>4
<1>6. PICK w \in [0..m -> MaybeNode] : w[0] = fs_root /\ \A k \in 1..m : w[k] = ChildIn(E, w[k - 1], p[k])
  BY <1>5
<1> DEFINE v == [i \in 0..(m + 1) |-> IF i = m + 1 THEN ChildIn(E, w[m], p[m + 1]) ELSE w[i]]
<1>7. v \in [0..(m + 1) -> MaybeNode]
  BY <1>4, ChildType
<1>8. v[0] = fs_root
  BY <1>4, <1>6
<1>9. ASSUME NEW k \in 1..(m + 1) PROVE v[k] = ChildIn(E, v[k - 1], p[k])
  <2>1. k - 1 \in 0..(m + 1) /\ k - 1 # m + 1 /\ k \in 0..(m + 1)
    BY <1>4
  <2>2. v[k - 1] = w[k - 1]
    BY <2>1
  <2>3. CASE k = m + 1
    BY <1>4, <2>1, <2>2, <2>3
  <2>4. CASE k # m + 1
    <3>1. k \in 1..m
      BY <1>4, <2>4
    <3>2. QED
      BY <1>6, <2>1, <2>2, <2>4, <3>1
  <2>5. QED
    BY <2>3, <2>4
<1> HIDE DEF v
<1>10. Good(m + 1)
  BY <1>7, <1>8, <1>9
<1>11. QED
  BY <1>4, <1>10

\* A function that follows the same rule is that walk.
LEMMA WalkUnique ==
  ASSUME NEW E, NEW p \in Seq(Names), NEW w, Walk(E, p, w), NEW f,
         f = [k \in 0..Len(p) |-> IF k = 0 THEN fs_root ELSE ChildIn(E, f[k - 1], p[k])]
  PROVE  f = w
<1> DEFINE T == {k \in 0..Len(p) : f[k] # w[k]}
<1>1. Len(p) \in Nat
  OBVIOUS
<1>2. ASSUME NEW k \in 0..Len(p), f[k] # w[k] PROVE FALSE
  <2>1. PICK n \in T : \A y \in T : ~(y < n)
    <3>1. T \subseteq Nat /\ k \in T
      BY <1>1, <1>2
    <3> HIDE DEF T
    <3>2. QED
      BY <3>1, Smallest
  <2>2. f[n] = IF n = 0 THEN fs_root ELSE ChildIn(E, f[n - 1], p[n])
    OBVIOUS
  <2>3. n # 0
    BY <2>2 DEF Walk
  <2>4. n - 1 \in 0..Len(p) /\ n - 1 < n /\ n \in 1..Len(p)
    BY <1>1, <2>3
  <2>5. f[n - 1] = w[n - 1]
    BY <2>1, <2>4
  <2>6. QED
    BY <2>2, <2>3, <2>4, <2>5 DEF Walk
<1>3. QED
  BY <1>2 DEF Walk

\* Resolve follows the walk.
LEMMA ResolveWalk ==
  ASSUME NEW p \in Seq(Names), NEW w, Walk(entries, p, w)
  PROVE  Resolve(p) = w[Len(p)]
<1> DEFINE Rule(f) == f = [k \in 0..Len(p) |-> IF k = 0 THEN fs_root ELSE ChildIn(entries, f[k - 1], p[k])]
           at == CHOOSE f : Rule(f)
<1>1. \A d, name : Child(d, name) = ChildIn(entries, d, name)
  BY DEF Child, ChildIn
<1>2. Rule(w)
  <2> DEFINE g == [k \in 0..Len(p) |-> IF k = 0 THEN fs_root ELSE ChildIn(entries, w[k - 1], p[k])]
  <2>1. \A k \in 0..Len(p) : w[k] = g[k]
    BY DEF Walk
  <2>2. QED
    BY <2>1 DEF Walk
<1>3. Rule(at)
  BY <1>2
<1>4. at = w
  <2> HIDE DEF at
  <2>1. QED
    BY <1>3, WalkUnique
<1>5. Resolve(p) = at[Len(p)]
  BY <1>1 DEF Resolve
<1>6. QED
  BY <1>4, <1>5

-----------------------------------------------------------------------------
\* The walk along a path.
WalkOf(E, p) == CHOOSE w : Walk(E, p, w)

\* The walk along a path is one.
LEMMA WalkOfRight ==
  ASSUME NEW E, NEW p \in Seq(Names)
  PROVE  Walk(E, p, WalkOf(E, p))
BY WalkExists DEF WalkOf

\* Two walks are the same.
LEMMA WalkIsWalkOf ==
  ASSUME NEW E, NEW p \in Seq(Names), NEW w, Walk(E, p, w)
  PROVE  WalkOf(E, p) = w
<1> DEFINE v == WalkOf(E, p)
<1>1. Walk(E, p, v)
  BY WalkOfRight
<1> HIDE DEF v
<1>2. v = [k \in 0..Len(p) |-> IF k = 0 THEN fs_root ELSE ChildIn(E, v[k - 1], p[k])]
  <2> DEFINE g == [k \in 0..Len(p) |-> IF k = 0 THEN fs_root ELSE ChildIn(E, v[k - 1], p[k])]
  <2>1. \A k \in 0..Len(p) : v[k] = g[k]
    BY <1>1 DEF Walk
  <2>2. QED
    BY <1>1, <2>1 DEF Walk
<1>3. v = w
  BY <1>2, WalkUnique
<1>4. QED
  BY <1>3 DEF v

\* The walk along the beginning of a path.
LEMMA WalkPrefix ==
  ASSUME NEW E, NEW p \in Seq(Names), NEW k \in 0..Len(p)
  PROVE  /\ SubSeq(p, 1, k) \in Seq(Names) /\ Len(SubSeq(p, 1, k)) = k
         /\ WalkOf(E, SubSeq(p, 1, k))[k] = WalkOf(E, p)[k]
<1> DEFINE q == SubSeq(p, 1, k)
           w == WalkOf(E, p)
           v == [i \in 0..k |-> w[i]]
<1>1. Len(p) \in Nat /\ k \in Nat
  OBVIOUS
<1>2. q \in Seq(Names) /\ Len(q) = k /\ \A i \in 1..k : q[i] = p[i]
  BY <1>1
<1>3. Walk(E, p, w)
  BY WalkOfRight
<1> HIDE DEF w, q
<1>4. Walk(E, q, v)
  <2>1. \A i \in 0..k : i \in 0..Len(p)
    BY <1>1
  <2>2. v \in [0..Len(q) -> MaybeNode] /\ v[0] = fs_root
    BY <1>1, <1>2, <1>3, <2>1 DEF Walk
  <2>3. ASSUME NEW i \in 1..k PROVE v[i] = ChildIn(E, v[i - 1], q[i])
    <3>1. i - 1 \in 0..k /\ i \in 0..k /\ i \in 1..Len(p)
      BY <1>1
    <3>2. QED
      BY <1>2, <1>3, <3>1 DEF Walk
  <2> HIDE DEF v
  <2>4. QED
    BY <1>2, <2>2, <2>3 DEF Walk
<1>5. v[k] = w[k]
  BY <1>1
<1> HIDE DEF v
<1>6. WalkOf(E, q) = v
  BY <1>2, <1>4, WalkIsWalkOf
<1>7. QED
  BY <1>2, <1>5, <1>6 DEF q, w

\* Once a walk has left the tree it does not come back.
LEMMA WalkPresent ==
  ASSUME NEW E, NEW p \in Seq(Names), NEW k \in 1..Len(p), WalkOf(E, p)[k] # NULL
  PROVE  WalkOf(E, p)[k - 1] # NULL
BY WalkOfRight, NullChild DEF Walk

\* ... so that every node on the way to one that exists does.
LEMMA WalkBefore ==
  ASSUME NEW E, NEW p \in Seq(Names), WalkOf(E, p)[Len(p)] # NULL, NEW k \in 0..Len(p)
  PROVE  WalkOf(E, p)[k] # NULL
<1> DEFINE w == WalkOf(E, p)
           T == {j \in 0..Len(p) : w[Len(p) - j] = NULL}
<1>1. Len(p) \in Nat
  OBVIOUS
<1> SUFFICES ASSUME w[k] = NULL PROVE FALSE
  OBVIOUS
<1>2. \A j \in 1..Len(p) : w[j] # NULL => w[j - 1] # NULL
  BY WalkPresent
<1>3. w[Len(p)] # NULL
  OBVIOUS
<1> HIDE DEF w
<1>4. T \subseteq Nat /\ Len(p) - k \in T
  <2>1. Len(p) - (Len(p) - k) = k /\ Len(p) - k \in 0..Len(p)
    BY <1>1
  <2>2. QED
    BY <1>1, <2>1
<1>5. PICK j \in T : \A y \in T : ~(y < j)
  <2> HIDE DEF T
  <2>1. QED
    BY <1>4, Smallest
<1>6. j # 0
  BY <1>1, <1>3, <1>5
<1>7. j - 1 \in 0..Len(p) /\ j - 1 < j /\ (Len(p) - (j - 1)) - 1 = Len(p) - j /\ Len(p) - (j - 1) \in 1..Len(p)
  BY <1>1, <1>5, <1>6
<1>8. w[Len(p) - (j - 1)] # NULL
  BY <1>5, <1>7
<1>9. w[Len(p) - j] # NULL
  BY <1>2, <1>7, <1>8
<1>10. QED
  BY <1>5, <1>9

\* Entries are only added.
Grows(E, F) == \A d \in Nodes : \A name : ChildIn(E, d, name) # NULL => ChildIn(F, d, name) = ChildIn(E, d, name)

\* What a path has named it names still.
LEMMA WalkGrows ==
  ASSUME NEW E, NEW F, Grows(E, F), NEW p \in Seq(Names), NEW k \in 0..Len(p), WalkOf(E, p)[k] # NULL
  PROVE  WalkOf(F, p)[k] = WalkOf(E, p)[k]
<1> DEFINE w == WalkOf(E, p)
           v == WalkOf(F, p)
           T == {j \in 0..Len(p) : w[j] # NULL /\ v[j] # w[j]}
<1>1. Len(p) \in Nat
  OBVIOUS
<1>2. Walk(E, p, w) /\ Walk(F, p, v)
  BY WalkOfRight
<1>3. \A j \in 1..Len(p) : w[j] # NULL => w[j - 1] # NULL
  BY WalkPresent
<1> SUFFICES ASSUME v[k] # w[k] PROVE FALSE
  OBVIOUS
<1>4. w[k] # NULL
  OBVIOUS
<1> HIDE DEF v, w
<1>5. PICK j \in T : \A y \in T : ~(y < j)
  <2>1. T \subseteq Nat /\ k \in T
    BY <1>1, <1>4
  <2> HIDE DEF T
  <2>2. QED
    BY <2>1, Smallest
<1>6. j # 0
  BY <1>2, <1>5 DEF Walk
<1>7. j - 1 \in 0..Len(p) /\ j - 1 < j /\ j \in 1..Len(p)
  BY <1>1, <1>5, <1>6
<1>8. v[j - 1] = w[j - 1]
  BY <1>3, <1>5, <1>7
<1>9. w[j] = ChildIn(E, w[j - 1], p[j]) /\ v[j] = ChildIn(F, w[j - 1], p[j])
  BY <1>2, <1>7, <1>8 DEF Walk
<1>10. w[j - 1] \in Nodes
  BY <1>2, <1>3, <1>5, <1>7 DEF Walk, MaybeNode
<1>11. QED
  BY <1>5, <1>9, <1>10 DEF Grows

-----------------------------------------------------------------------------
(***************************************************************************)
(* Directories.                                                            *)
(***************************************************************************)
\* NamesUnique for the entries E.
UniqueNames(E) == \A d \in Nodes : \A i, j \in DOMAIN E[d] : E[d][i][1] = E[d][j][1] => i = j

\* The entries of a directory lead to different nodes that exist.
DirectoriesRight(E, ty) ==
  /\ E \in [Nodes -> Seq(Names \X Nodes)]
  /\ ty \in [Nodes -> {"FREE", "FS_FILE", "FS_DIRECTORY"}] /\ ty[fs_root] = "FS_DIRECTORY"
  /\ UniqueNames(E)
  /\ \A d \in Nodes : \A i \in DOMAIN E[d] : ty[E[d][i][2]] # "FREE" /\ E[d][i][2] # fs_root
  /\ \A d \in Nodes : \A i, j \in DOMAIN E[d] : E[d][i][2] = E[d][j][2] => i = j

\* An entry is what its name stands for.
LEMMA ChildFound ==
  ASSUME NEW E \in [Nodes -> Seq(Names \X Nodes)], UniqueNames(E), NEW d \in Nodes, NEW i \in DOMAIN E[d]
  PROVE  ChildIn(E, d, E[d][i][1]) = E[d][i][2]
<1> DEFINE name == E[d][i][1]
           hits == {e \in Names \X Nodes :
                      d # NULL /\ e[1] = name /\ \E j \in DOMAIN E[d] : E[d][j] = e}
<1>1. E[d][i] \in Names \X Nodes
  <2>1. E[d] \in Seq(Names \X Nodes)
    OBVIOUS
  <2>2. QED
    BY <2>1
<1>2. E[d][i] \in hits
  BY <1>1, VfsConstants
<1>3. \A e \in hits : e = E[d][i]
  BY DEF UniqueNames
<1>4. (CHOOSE e \in hits : TRUE) = E[d][i]
  BY <1>2, <1>3
<1>5. QED
  BY <1>2, <1>4 DEF ChildIn

\* A name stands for nothing if no entry has it.
LEMMA ChildAbsent ==
  ASSUME NEW E \in [Nodes -> Seq(Names \X Nodes)], UniqueNames(E), NEW d \in Nodes, NEW name
  PROVE  ChildIn(E, d, name) = NULL <=> \A i \in DOMAIN E[d] : E[d][i][1] # name
<1>1. ASSUME NEW i \in DOMAIN E[d], E[d][i][1] = name PROVE ChildIn(E, d, name) # NULL
  <2>1. E[d] \in Seq(Names \X Nodes)
    OBVIOUS
  <2>2. E[d][i][2] \in Nodes
    BY <2>1
  <2>3. QED
    BY <1>1, <2>2, ChildFound, VfsConstants
<1>2. ASSUME \A i \in DOMAIN E[d] : E[d][i][1] # name PROVE ChildIn(E, d, name) = NULL
  BY <1>2 DEF ChildIn
<1>3. QED
  BY <1>1, <1>2

\* finddir_fs finds the node that the name stands for.
LEMMA FindIsChild ==
  ASSUME entries \in [Nodes -> Seq(Names \X Nodes)], UniqueNames(entries), NEW d \in MaybeNode, NEW name
  PROVE  finddir_fs(d, name) = ChildIn(entries, d, name)
<1> DEFINE hits == {i \in DOMAIN entries[d] : entries[d][i][1] = name}
<1>1. CASE d = NULL
  BY <1>1, NullChild DEF finddir_fs
<1>2. CASE d \in Nodes /\ hits = {}
  <2>1. d # NULL
    BY <1>2, VfsConstants
  <2>2. QED
    BY <1>2, ChildAbsent DEF finddir_fs
<1>3. CASE d \in Nodes /\ hits # {}
  <2>1. hits \subseteq Nat
    <3>1. entries[d] \in Seq(Names \X Nodes)
      BY <1>3
    <3>2. QED
      BY <3>1
  <2>2. PICK i \in hits : \A y \in hits : ~(y < i)
    <3>1. PICK j : j \in hits
      BY <1>3
    <3> HIDE DEF hits
    <3>2. QED
      BY <2>1, <3>1, Smallest
  <2>3. Min(hits) \in hits
    <3>1. \A y \in hits : i <= y
      BY <2>1, <2>2
    <3> HIDE DEF hits
    <3>2. QED
      BY <3>1 DEF Min
  <2> DEFINE j == Min(hits)
  <2>4. j \in DOMAIN entries[d] /\ entries[d][j][1] = name
    BY <2>3
  <2>5. finddir_fs(d, name) = entries[d][j][2]
    BY <1>3, VfsConstants DEF finddir_fs
  <2> HIDE DEF j
  <2>6. QED
    BY <1>3, <2>4, <2>5, ChildFound
<1>4. QED
  BY <1>1, <1>2, <1>3 DEF MaybeNode

\* Nodes that exist keep their type.
TypesKept(ty, tz) == \A n \in Nodes : ty[n] # "FREE" => tz[n] = ty[n]

\* The directories and the types after a new entry and a new node.
Added(E, F, d, name, n) == F = [E EXCEPT ![d] = Append(@, <<name, n>>)]
Typed(ty, tz, n, kind) == tz = [ty EXCEPT ![n] = kind]

\* A new entry under a name that the directory does not have.
LEMMA EntryAdded ==
  ASSUME NEW E, NEW ty, DirectoriesRight(E, ty), NEW d \in Nodes, NEW name \in Names,
         NEW n \in Nodes, ty[n] = "FREE", NEW kind \in {"FS_FILE", "FS_DIRECTORY"},
         ChildIn(E, d, name) = NULL,
         NEW F, Added(E, F, d, name, n), NEW tz, Typed(ty, tz, n, kind)
  PROVE  /\ DirectoriesRight(F, tz) /\ TypesKept(ty, tz)
         /\ Grows(E, F) /\ ChildIn(F, d, name) = n
<1> DEFINE s == E[d]
           r == Append(s, <<name, n>>)
<1>1. s \in Seq(Names \X Nodes) /\ Len(s) \in Nat
  BY DEF DirectoriesRight
<1>2. /\ r \in Seq(Names \X Nodes) /\ Len(r) = Len(s) + 1 /\ DOMAIN r = 1..(Len(s) + 1) /\ DOMAIN s = 1..Len(s)
      /\ r[Len(s) + 1] = <<name, n>> /\ \A i \in 1..Len(s) : r[i] = s[i]
  BY <1>1
<1>3. F \in [Nodes -> Seq(Names \X Nodes)] /\ F[d] = r /\ \A x \in Nodes \ {d} : F[x] = E[x]
  BY <1>2 DEF DirectoriesRight, Added
<1>4. /\ tz \in [Nodes -> {"FREE", "FS_FILE", "FS_DIRECTORY"}] /\ tz[n] # "FREE"
      /\ TypesKept(ty, tz)
  BY DEF DirectoriesRight, TypesKept, Typed
<1>5. tz[fs_root] = "FS_DIRECTORY"
  BY <1>4, VfsConstants DEF DirectoriesRight, TypesKept
<1>6. \A i \in 1..Len(s) : s[i][1] # name /\ s[i][2] # n /\ s[i] \in Names \X Nodes
  <2>1. \A i \in DOMAIN s : s[i][1] # name
    <3>1. E \in [Nodes -> Seq(Names \X Nodes)] /\ UniqueNames(E)
      BY DEF DirectoriesRight
    <3>2. QED
      BY <3>1, ChildAbsent
  <2>2. \A i \in DOMAIN s : s[i][2] # n
    BY DEF DirectoriesRight
  <2> HIDE DEF s
  <2>3. QED
    BY <1>1, <1>2, <2>1, <2>2
<1>7. UniqueNames(E) /\ \A i, j \in DOMAIN s : (s[i][1] = s[j][1] => i = j) /\ (s[i][2] = s[j][2] => i = j)
  BY DEF DirectoriesRight, UniqueNames
<1>8. \A i \in DOMAIN s : ty[s[i][2]] # "FREE" /\ s[i][2] # fs_root
  BY DEF DirectoriesRight
<1> HIDE DEF s, r
<1>9. \A i, j \in DOMAIN r : (r[i][1] = r[j][1] => i = j) /\ (r[i][2] = r[j][2] => i = j)
  <2> SUFFICES ASSUME NEW i \in DOMAIN r, NEW j \in DOMAIN r
               PROVE  (r[i][1] = r[j][1] => i = j) /\ (r[i][2] = r[j][2] => i = j)
    OBVIOUS
  <2>1. i \in 1..Len(s) \/ i = Len(s) + 1
    BY <1>1, <1>2
  <2>2. j \in 1..Len(s) \/ j = Len(s) + 1
    BY <1>1, <1>2
  <2>3. r[Len(s) + 1][1] = name /\ r[Len(s) + 1][2] = n
    BY <1>2
  <2>4. CASE i \in 1..Len(s) /\ j \in 1..Len(s)
    BY <1>2, <1>7, <2>4
  <2>5. CASE i = Len(s) + 1 \/ j = Len(s) + 1
    BY <1>2, <1>6, <2>1, <2>2, <2>3, <2>5
  <2>6. QED
    BY <2>1, <2>2, <2>4, <2>5
<1>10. n # fs_root
  BY DEF DirectoriesRight
<1>11. \A i \in DOMAIN r : tz[r[i][2]] # "FREE" /\ r[i][2] # fs_root
  <2> SUFFICES ASSUME NEW i \in DOMAIN r PROVE tz[r[i][2]] # "FREE" /\ r[i][2] # fs_root
    OBVIOUS
  <2>1. CASE i = Len(s) + 1
    BY <1>2, <1>4, <1>10, <2>1
  <2>2. CASE i \in 1..Len(s)
    <3>1. s[i][2] \in Nodes
      BY <1>6, <2>2
    <3>2. QED
      BY <1>2, <1>4, <1>8, <2>2, <3>1 DEF TypesKept
  <2>3. QED
    BY <1>1, <1>2, <2>1, <2>2
<1>12. UniqueNames(F)
  <2> SUFFICES ASSUME NEW x \in Nodes, NEW i \in DOMAIN F[x], NEW j \in DOMAIN F[x], F[x][i][1] = F[x][j][1]
               PROVE  i = j
    BY DEF UniqueNames
  <2>1. CASE x = d
    BY <1>3, <1>9, <2>1
  <2>2. CASE x # d
    BY <1>3, <1>7, <2>2 DEF UniqueNames
  <2>3. QED
    BY <2>1, <2>2
<1>13. DirectoriesRight(F, tz)
  <2>1. ASSUME NEW x \in Nodes, NEW i \in DOMAIN F[x] PROVE tz[F[x][i][2]] # "FREE" /\ F[x][i][2] # fs_root
    <3>1. CASE x = d
      BY <1>3, <1>11, <3>1
    <3>2. CASE x # d
      <4>1. F[x] = E[x] /\ E[x] \in Seq(Names \X Nodes)
        BY <1>3, <3>2 DEF DirectoriesRight
      <4>2. E[x][i] \in Names \X Nodes
        <5>1. i \in DOMAIN E[x]
          BY <4>1, Zenon
        <5>2. QED
          BY <4>1, <5>1
      <4>3. ty[E[x][i][2]] # "FREE" /\ E[x][i][2] # fs_root
        BY <4>1 DEF DirectoriesRight
      <4>4. QED
        BY <1>4, <4>1, <4>2, <4>3 DEF TypesKept
    <3>3. QED
      BY <3>1, <3>2
  <2>2. ASSUME NEW x \in Nodes, NEW i \in DOMAIN F[x], NEW j \in DOMAIN F[x], F[x][i][2] = F[x][j][2] PROVE i = j
    <3>1. CASE x = d
      BY <1>3, <1>9, <2>2, <3>1
    <3>2. CASE x # d
      BY <1>3, <2>2, <3>2 DEF DirectoriesRight
    <3>3. QED
      BY <3>1, <3>2
  <2>3. QED
    BY <1>3, <1>4, <1>5, <1>12, <2>1, <2>2 DEF DirectoriesRight
<1>14. ChildIn(F, d, name) = n
  <2>1. Len(s) + 1 \in DOMAIN F[d] /\ F[d][Len(s) + 1] = <<name, n>>
    BY <1>1, <1>2, <1>3
  <2> DEFINE i == Len(s) + 1
  <2>2. i \in DOMAIN F[d] /\ F[d][i][1] = name /\ F[d][i][2] = n
    BY <2>1
  <2> HIDE DEF i
  <2>3. ChildIn(F, d, F[d][i][1]) = F[d][i][2]
    BY <1>3, <1>12, <2>2, ChildFound, Zenon
  <2>4. QED
    BY <2>2, <2>3
<1>15. Grows(E, F)
  <2> SUFFICES ASSUME NEW x \in Nodes, NEW y, ChildIn(E, x, y) # NULL PROVE ChildIn(F, x, y) = ChildIn(E, x, y)
    BY DEF Grows
  <2>1. CASE x = d
    <3>0. E \in [Nodes -> Seq(Names \X Nodes)] /\ UniqueNames(E)
      BY DEF DirectoriesRight
    <3>1. PICK i \in DOMAIN E[d] : E[d][i][1] = y
      BY <2>1, <3>0, ChildAbsent
    <3>2. i \in DOMAIN F[d] /\ F[d][i] = E[d][i]
      BY <1>1, <1>2, <1>3 DEF s
    <3>3. ChildIn(E, d, E[d][i][1]) = E[d][i][2]
      BY <3>0, ChildFound
    <3>4. ChildIn(F, d, F[d][i][1]) = F[d][i][2]
      BY <1>3, <1>12, <3>2, ChildFound
    <3>5. QED
      BY <2>1, <3>1, <3>2, <3>3, <3>4
  <2>2. CASE x # d
    <3>1. F[x] = E[x]
      BY <1>3, <2>2
    <3>2. QED
      BY <3>1, ChildSame
  <2>3. QED
    BY <2>1, <2>2
<1>16. QED
  BY <1>4, <1>13, <1>14, <1>15

\* While there is a node left there is a slot for it.
LEMMA SlotLeft ==
  ASSUME NODES <= SLOTS, NEW E, NEW ty, DirectoriesRight(E, ty), NEW d \in Nodes,
         NEW n \in Nodes, ty[n] = "FREE"
  PROVE  Len(E[d]) < SLOTS
<1> DEFINE s == E[d]
           D == 1..Len(s)
           Others == Nodes \ {fs_root}
           Rest == Others \ {n}
           f == [i \in D |-> s[i][2]]
<1>1. s \in Seq(Names \X Nodes) /\ Len(s) \in Nat /\ DOMAIN s = D
  BY DEF DirectoriesRight
<1>2. NODES \in Nat /\ SLOTS \in Nat
  BY VfsAssumption
<1>3. IsFiniteSet(Nodes) /\ Cardinality(Nodes) = NODES + 1
  <2>1. 1 \in Int /\ NODES + 1 \in Int /\ ~(1 > NODES + 1) /\ ((NODES + 1) - 1) + 1 = NODES + 1
    BY <1>2
  <2>2. QED
    BY <2>1, FS_Interval DEF Nodes
<1>4. IsFiniteSet(Others) /\ Cardinality(Others) = NODES
  <2>1. Cardinality(Others) = Cardinality(Nodes) - 1 /\ IsFiniteSet(Others)
    BY <1>3, FS_RemoveElement, VfsConstants
  <2> HIDE DEF Others
  <2>2. QED
    BY <1>2, <1>3, <2>1
<1>5. n \in Others
  BY DEF DirectoriesRight
<1>6. IsFiniteSet(Rest) /\ Cardinality(Rest) = NODES - 1
  <2> HIDE DEF Others
  <2>1. QED
    BY <1>2, <1>4, <1>5, FS_RemoveElement
<1>7. \A i \in D : s[i] \in Names \X Nodes /\ s[i][2] \in Rest
  <2>1. \A i \in D : s[i] \in Names \X Nodes
    BY <1>1
  <2>2. \A i \in DOMAIN s : ty[s[i][2]] # "FREE" /\ s[i][2] # fs_root
    BY DEF DirectoriesRight
  <2> HIDE DEF s, D
  <2>3. QED
    BY <1>1, <2>1, <2>2
<1>8. \A i, j \in D : s[i][2] = s[j][2] => i = j
  <2>1. \A i, j \in DOMAIN s : s[i][2] = s[j][2] => i = j
    BY DEF DirectoriesRight
  <2> HIDE DEF s, D
  <2>2. QED
    BY <1>1, <2>1
<1>9. f \in Injection(D, Rest)
  <2> HIDE DEF s, D, Rest
  <2>1. QED
    BY <1>7, <1>8 DEF Injection, IsInjective
<1>10. Cardinality(D) = Len(s)
  <2>1. 1 \in Int /\ Len(s) \in Int /\ (1 > Len(s) => Len(s) = 0) /\ (Len(s) - 1) + 1 = Len(s)
    BY <1>1
  <2> HIDE DEF s
  <2>2. QED
    BY <2>1, FS_Interval
<1>11. Cardinality(D) <= Cardinality(Rest)
  <2> HIDE DEF f, D, Rest
  <2>1. QED
    BY <1>6, <1>9, FS_Injection
<1>12. QED
  <2> HIDE DEF D, Rest, s
  <2>1. Len(s) < SLOTS
    BY <1>1, <1>2, <1>6, <1>10, <1>11
  <2>2. QED
    BY <2>1 DEF s

-----------------------------------------------------------------------------
(***************************************************************************)
(* The calls.                                                              *)
(***************************************************************************)
\* What call[t] may be.
CallRecord ==
  [at : {"idle", "open", "findnode", "done"}, path : Paths \cup {<<>>}, rest : Seq(Names),
   fname : Names \cup {""}, dir_node : MaybeNode, file_node : MaybeNode, creat : BOOLEAN,
   excl : BOOLEAN, existed : MaybeNode, created : BOOLEAN, node : MaybeNode]

\* m components of the path have been looked up; the rest is still to come.
Consumed(c, m) ==
  /\ c.path \in Paths /\ m \in 0..Len(c.path) /\ Len(c.rest) = Len(c.path) - m
  /\ \A i \in 1..Len(c.rest) : c.rest[i] = c.path[m + i]

\* Nothing has been looked up.
Starting(c, m) == m = 0 /\ c.fname = "" /\ c.dir_node = NULL /\ c.file_node = fs_root

\* The nodes found last are those on the path; a creator that did not find the name
\* relies on its still being absent.
Looking(E, t, c, m) ==
  /\ m >= 1 /\ c.fname = c.path[m]
  /\ c.dir_node # NULL => c.dir_node = WalkOf(E, c.path)[m - 1]
  /\ c.file_node # NULL => c.file_node = WalkOf(E, c.path)[m]
  /\ c.existed # NULL => c.file_node # NULL
  /\ t \in Makers /\ c.file_node = NULL /\ c.dir_node # NULL
       => ChildIn(E, c.dir_node, c.fname) = NULL

\* open_fs has looked into the directory that the whole path names.
Inside(E, ty, c, m) ==
  /\ m = Len(c.path) /\ c.fname = "" /\ c.file_node = NULL
  /\ c.dir_node # NULL /\ c.dir_node = WalkOf(E, c.path)[m] /\ ty[c.dir_node] = "FS_DIRECTORY"

\* A call on its way.
Underway(E, ty, t, c) == \E m \in Nat :
  /\ Consumed(c, m)
  /\ c.creat => c.at = "open" /\ t \in Makers
  /\ c.existed # NULL => c.existed = WalkOf(E, c.path)[Len(c.path)]
  /\ Starting(c, m) \/ Looking(E, t, c, m) \/ (c.at = "open" /\ Inside(E, ty, c, m))

\* The walk along p goes through a file.
FileOnWay(E, ty, p) == \E k \in 1..(Len(p) - 1) :
  WalkOf(E, p)[k] # NULL /\ ty[WalkOf(E, p)[k]] = "FS_FILE"

\* A call that has returned.
Returned(E, ty, c) ==
  /\ c.path \in Paths
  /\ c.node # NULL => c.node = WalkOf(E, c.path)[Len(c.path)] \/ FileOnWay(E, ty, c.path)
  /\ c.existed # NULL => ~c.created /\ (~(c.creat /\ c.excl) => c.node = c.existed)
  /\ c.creat /\ c.excl /\ c.node # NULL /\ ~c.created => ty[c.node] = "FS_DIRECTORY"

CallRight(E, ty, t, c) ==
  /\ c.at \in {"open", "findnode"} => Underway(E, ty, t, c)
  /\ c.at = "done" => Returned(E, ty, c)

\* The inductive invariant: directories are unambiguous, and every call has followed
\* its path.
VfsInv ==
  /\ DirectoriesRight(entries, type)
  /\ call \in [Tasks -> CallRecord]
  /\ \A t \in Tasks : CallRight(entries, type, t, call[t])

\* A path is a sequence with at least one component.
LEMMA PathsAreSequences ==
  ASSUME NEW p \in Paths
  PROVE  p \in Seq(Names) /\ Len(p) >= 1 /\ Len(p) \in Nat
<1>1. PICK n \in 1..MAX_DEPTH : p \in [1..n -> Names]
  BY DEF Paths
<1>2. n \in Nat /\ n >= 1
  <2>1. MAX_DEPTH \in Nat
    BY VfsAssumption
  <2>2. QED
    BY <2>1
<1>3. QED
  BY <1>1, <1>2

\* Calls are not disturbed by entries that are added, unless they create some.
LEMMA CallRightKept ==
  ASSUME NEW E, NEW ty, NEW F, NEW tz, DirectoriesRight(E, ty), Grows(E, F), TypesKept(ty, tz),
         NEW t, NEW c \in CallRecord, CallRight(E, ty, t, c),
         c.at \in {"open", "findnode"} => t \notin Makers
  PROVE  CallRight(F, tz, t, c)
<1> DEFINE w == WalkOf(E, c.path)
           v == WalkOf(F, c.path)
           n == Len(c.path)
<1>1. ASSUME c.path \in Paths, NEW k \in 0..n, w[k] # NULL PROVE v[k] = w[k] /\ w[k] \in Nodes
  <2>1. c.path \in Seq(Names)
    BY <1>1, PathsAreSequences
  <2>2. Walk(E, c.path, w)
    BY <2>1, WalkOfRight
  <2>3. w[k] \in MaybeNode
    <3> HIDE DEF w
    <3>1. QED
      BY <2>2 DEF Walk
  <2>4. v[k] = w[k]
    BY <1>1, <2>1, WalkGrows
  <2>5. QED
    BY <1>1, <2>3, <2>4 DEF MaybeNode
<1>2. ASSUME NEW x \in Nodes, ty[x] # "FREE" PROVE tz[x] = ty[x]
  BY <1>2 DEF TypesKept
<1>3. c.node \in MaybeNode /\ c.dir_node \in MaybeNode
  BY DEF CallRecord
<1>4. ASSUME c.at \in {"open", "findnode"} PROVE Underway(F, tz, t, c)
  <2>1. PICK m \in Nat :
          /\ Consumed(c, m)
          /\ c.creat => c.at = "open" /\ t \in Makers
          /\ c.existed # NULL => c.existed = w[n]
          /\ Starting(c, m) \/ Looking(E, t, c, m) \/ (c.at = "open" /\ Inside(E, ty, c, m))
    BY <1>4 DEF CallRight, Underway
  <2>2. c.path \in Paths /\ n \in Nat /\ m \in 0..n /\ n \in 0..n
    BY <2>1, PathsAreSequences DEF Consumed
  <2>3. c.existed # NULL => c.existed = v[n]
    <3> HIDE DEF v, w, n
    <3>1. QED
      BY <1>1, <2>1, <2>2
  <2>4. Looking(E, t, c, m) => Looking(F, t, c, m)
    <3> SUFFICES ASSUME Looking(E, t, c, m) PROVE Looking(F, t, c, m)
      OBVIOUS
    <3>1. /\ m >= 1 /\ c.fname = c.path[m]
          /\ c.dir_node # NULL => c.dir_node = w[m - 1]
          /\ c.file_node # NULL => c.file_node = w[m]
          /\ c.existed # NULL => c.file_node # NULL
      BY DEF Looking
    <3>2. m - 1 \in 0..n
      BY <2>2, <3>1
    <3>3. /\ c.dir_node # NULL => c.dir_node = v[m - 1]
          /\ c.file_node # NULL => c.file_node = v[m]
      <4> HIDE DEF v, w, n
      <4>1. QED
        BY <1>1, <2>2, <3>1, <3>2
    <3>4. t \notin Makers
      BY <1>4
    <3>5. QED
      BY <3>1, <3>3, <3>4 DEF Looking
  <2>5. Inside(E, ty, c, m) => Inside(F, tz, c, m)
    <3> SUFFICES ASSUME Inside(E, ty, c, m) PROVE Inside(F, tz, c, m)
      OBVIOUS
    <3>1. c.dir_node # NULL /\ c.dir_node = w[m] /\ ty[c.dir_node] = "FS_DIRECTORY"
      BY DEF Inside
    <3>2. c.dir_node = v[m] /\ c.dir_node \in Nodes
      <4> HIDE DEF v, w, n
      <4>1. QED
        BY <1>1, <2>2, <3>1
    <3>3. tz[c.dir_node] = "FS_DIRECTORY"
      BY <1>2, <3>1, <3>2
    <3>4. QED
      BY <3>1, <3>2, <3>3 DEF Inside
  <2>6. QED
    BY <2>1, <2>3, <2>4, <2>5 DEF Underway
<1>5. ASSUME c.at = "done" PROVE Returned(F, tz, c)
  <2>1. Returned(E, ty, c)
    BY <1>5 DEF CallRight
  <2>2. c.path \in Paths /\ n \in Nat /\ n \in 0..n
    BY <2>1, PathsAreSequences DEF Returned
  <2>3. c.node # NULL => c.node = w[n] \/ FileOnWay(E, ty, c.path)
    BY <2>1 DEF Returned
  <2>4. FileOnWay(E, ty, c.path) => FileOnWay(F, tz, c.path)
    <3> SUFFICES ASSUME FileOnWay(E, ty, c.path) PROVE FileOnWay(F, tz, c.path)
      OBVIOUS
    <3>1. PICK k \in 1..(n - 1) : w[k] # NULL /\ ty[w[k]] = "FS_FILE"
      BY DEF FileOnWay
    <3>2. k \in 0..n
      BY <2>2
    <3>3. v[k] = w[k] /\ w[k] \in Nodes
      <4> HIDE DEF v, w, n
      <4>1. QED
        BY <1>1, <2>2, <3>1, <3>2
    <3>4. v[k] # NULL /\ tz[v[k]] = "FS_FILE"
      <4> HIDE DEF v, w, n
      <4>1. QED
        BY <1>2, <3>1, <3>3
    <3>5. QED
      BY <3>4 DEF FileOnWay
  <2>5. c.node # NULL => c.node = v[n] \/ FileOnWay(F, tz, c.path)
    <3> HIDE DEF v, w, n
    <3>1. QED
      BY <1>1, <2>2, <2>3, <2>4
  <2>6. c.creat /\ c.excl /\ c.node # NULL /\ ~c.created => tz[c.node] = "FS_DIRECTORY"
    <3>1. c.creat /\ c.excl /\ c.node # NULL /\ ~c.created => ty[c.node] = "FS_DIRECTORY"
      BY <2>1 DEF Returned
    <3>2. QED
      BY <1>2, <1>3, <3>1 DEF MaybeNode
  <2>7. QED
    BY <2>1, <2>5, <2>6 DEF Returned
<1>6. QED
  BY <1>4, <1>5 DEF CallRight

\* The invariant holds at first: there is an empty root.
LEMMA VfsInitial == VfsInit => VfsInv
<1> SUFFICES ASSUME VfsInit PROVE VfsInv
  OBVIOUS
<1>1. DirectoriesRight(entries, type)
  BY VfsConstants DEF VfsInit, DirectoriesRight, UniqueNames
<1>2. Idle \in CallRecord
  BY DEF Idle, CallRecord, MaybeNode
<1>3. \A t \in Tasks : call[t] = Idle
  BY DEF VfsInit
<1>4. \A t \in Tasks : CallRight(entries, type, t, call[t])
  <2>1. Idle.at = "idle"
    BY DEF Idle
  <2>2. QED
    BY <1>3, <2>1 DEF CallRight
<1>5. QED
  BY <1>1, <1>2, <1>4 DEF VfsInit, VfsInv

\* A step of one call that leaves the directories alone.
LEMMA CallStep ==
  ASSUME VfsInv, NEW t \in Tasks, NEW c \in CallRecord, CallRight(entries, type, t, c),
         call' = [call EXCEPT ![t] = c], UNCHANGED <<type, entries>>
  PROVE  VfsInv'
<1>1. DirectoriesRight(entries, type)'
  BY DEF VfsInv, DirectoriesRight, UniqueNames
<1>2. call' \in [Tasks -> CallRecord]
  BY DEF VfsInv
<1>3. ASSUME NEW u \in Tasks PROVE CallRight(entries', type', u, call'[u])
  <2>1. entries' = entries /\ type' = type
    OBVIOUS
  <2>2. CASE u = t
    <3>1. call'[u] = c
      BY <2>2 DEF VfsInv
    <3>2. QED
      BY <2>1, <2>2, <3>1
  <2>3. CASE u # t
    <3>1. call'[u] = call[u]
      BY <2>3 DEF VfsInv
    <3>2. QED
      BY <2>1, <3>1 DEF VfsInv
  <2>4. QED
    BY <2>2, <2>3
<1>4. QED
  BY <1>1, <1>2, <1>3 DEF VfsInv

\* The node that a path names is the last one of the walk.
LEMMA ResolveIsWalk ==
  ASSUME NEW p \in Paths
  PROVE  Resolve(p) = WalkOf(entries, p)[Len(p)] /\ Resolve(p) \in MaybeNode
<1>1. p \in Seq(Names) /\ Len(p) \in 0..Len(p)
  BY PathsAreSequences
<1> DEFINE w == WalkOf(entries, p)
<1>2. Walk(entries, p, w)
  BY <1>1, WalkOfRight
<1> HIDE DEF w
<1>3. Resolve(p) = w[Len(p)]
  BY <1>1, <1>2, ResolveWalk
<1>4. w[Len(p)] \in MaybeNode
  BY <1>1, <1>2 DEF Walk
<1>5. QED
  BY <1>3, <1>4 DEF w

\* The beginning of a call.
LEMMA BeginInv ==
  ASSUME VfsInv, NEW t \in Tasks, NEW p \in Paths, NEW creat \in BOOLEAN, NEW excl \in BOOLEAN,
         NEW what \in {"open", "findnode"}, begin(t, what, p, creat, excl)
  PROVE  VfsInv'
<1> DEFINE c == [Idle EXCEPT !.at = what, !.path = p, !.rest = p, !.creat = creat, !.excl = excl,
                             !.file_node = fs_root, !.existed = Resolve(p)]
<1>1. p \in Seq(Names) /\ Len(p) \in Nat
  BY PathsAreSequences
<1>2. Resolve(p) = WalkOf(entries, p)[Len(p)] /\ Resolve(p) \in MaybeNode
  BY ResolveIsWalk
<1>3. /\ c \in CallRecord
      /\ c.at = what /\ c.path = p /\ c.rest = p /\ c.fname = "" /\ c.dir_node = NULL
      /\ c.file_node = fs_root /\ c.creat = creat /\ c.existed = Resolve(p)
  BY <1>1, <1>2, VfsConstants DEF Idle, CallRecord, MaybeNode
<1>4. call' = [call EXCEPT ![t] = c] /\ UNCHANGED <<type, entries>> /\ (creat => what = "open" /\ t \in Makers)
  BY DEF begin
<1> HIDE DEF c
<1>5. Consumed(c, 0) /\ Starting(c, 0)
  <2>1. \A i \in 1..Len(p) : p[i] = p[0 + i]
    BY <1>1
  <2>2. 0 \in 0..Len(p) /\ Len(p) = Len(p) - 0
    BY <1>1
  <2>3. QED
    BY <1>3, <2>1, <2>2 DEF Consumed, Starting
<1>6. Underway(entries, type, t, c)
  BY <1>2, <1>3, <1>4, <1>5 DEF Underway
<1>7. CallRight(entries, type, t, c)
  BY <1>3, <1>6 DEF CallRight
<1>8. QED
  BY <1>3, <1>4, <1>7, CallStep

\* What return records.
LEMMA ReturnInv ==
  ASSUME VfsInv, NEW t \in Tasks, NEW node \in MaybeNode, NEW created \in BOOLEAN,
         call[t].path \in Paths
  PROVE  \E c \in CallRecord :
           /\ return(t, node, created) <=> call' = [call EXCEPT ![t] = c]
           /\ c.at = "done" /\ c.path = call[t].path /\ c.creat = call[t].creat
           /\ c.excl = call[t].excl /\ c.existed = call[t].existed
           /\ c.node = node /\ c.created = created
<1> DEFINE b == call[t]
           c == [Idle EXCEPT !.at = "done", !.path = b.path, !.creat = b.creat, !.excl = b.excl,
                             !.existed = b.existed, !.node = node, !.created = created]
<1>1. b \in CallRecord
  BY DEF VfsInv
<1>2. return(t, node, created) <=> call' = [call EXCEPT ![t] = c]
  BY DEF return
<1> HIDE DEF b
<1>3. /\ b.path \in Paths \cup {<<>>} /\ b.creat \in BOOLEAN /\ b.excl \in BOOLEAN
      /\ b.existed \in Nodes \cup {NULL}
  BY <1>1 DEF CallRecord, MaybeNode
<1>4. c \in CallRecord
  <2>1. <<>> \in Seq(Names) /\ NULL \in MaybeNode /\ "" \in Names \cup {""}
    BY DEF MaybeNode
  <2>2. b.existed \in MaybeNode
    BY <1>3 DEF MaybeNode
  <2> HIDE DEF MaybeNode
  <2>3. QED
    BY <1>3, <2>1, <2>2 DEF CallRecord, Idle
<1>5. /\ c.at = "done" /\ c.path = b.path /\ c.creat = b.creat /\ c.excl = b.excl
      /\ c.existed = b.existed /\ c.node = node /\ c.created = created
  BY DEF Idle
<1> HIDE DEF c
<1>6. QED
  BY <1>2, <1>4, <1>5 DEF b

\* Where a call is that has not looked into a directory at the end.
LEMMA OnPath ==
  ASSUME NEW E, NEW t, NEW c \in CallRecord, NEW m \in Nat, Consumed(c, m),
         Starting(c, m) \/ Looking(E, t, c, m)
  PROVE  /\ c.file_node # NULL => c.file_node = WalkOf(E, c.path)[m]
         /\ c.existed # NULL => c.file_node # NULL
<1>1. c.path \in Seq(Names)
  BY PathsAreSequences DEF Consumed
<1>2. CASE Starting(c, m)
  <2>1. WalkOf(E, c.path)[0] = fs_root
    BY <1>1, WalkOfRight DEF Walk
  <2>2. QED
    BY <1>2, <2>1, VfsConstants DEF Starting
<1>3. CASE Looking(E, t, c, m)
  BY <1>3 DEF Looking
<1>4. QED
  BY <1>2, <1>3

\* A turn of the loops of open_fs and findnode_fs.
LEMMA FindInv ==
  ASSUME VfsInv, NEW t \in Tasks, find(t)
  PROVE  VfsInv'
<1> DEFINE b == call[t]
           w == WalkOf(entries, b.path)
           n == Len(b.path)
           fname == IF b.rest = <<>> THEN "" ELSE Head(b.rest)
           found == IF fname = "" THEN NULL ELSE finddir_fs(b.file_node, fname)
           rest == IF b.rest = <<>> THEN <<>> ELSE Tail(b.rest)
           c == [b EXCEPT !.fname = fname, !.dir_node = b.file_node, !.file_node = found, !.rest = rest]
<1>1. b \in CallRecord /\ b.at \in {"open", "findnode"} /\ MoreToFind(b) /\ UNCHANGED <<type, entries>>
  BY DEF VfsInv, find
<1>2. call' = [call EXCEPT ![t] = c]
  BY <1>1 DEF find, VfsInv, CallRecord
<1>3. PICK m \in Nat :
        /\ Consumed(b, m)
        /\ b.creat => b.at = "open" /\ t \in Makers
        /\ b.existed # NULL => b.existed = w[n]
        /\ Starting(b, m) \/ Looking(entries, t, b, m) \/ (b.at = "open" /\ Inside(entries, type, b, m))
  BY <1>1 DEF VfsInv, CallRight, Underway
<1>4. b.path \in Paths /\ b.path \in Seq(Names) /\ n \in Nat /\ n >= 1 /\ m \in 0..n /\ Len(b.rest) = n - m
  BY <1>3, PathsAreSequences DEF Consumed
<1>5. b.rest \in Seq(Names) /\ b.file_node \in MaybeNode
  BY <1>1 DEF CallRecord
<1>6. Walk(entries, b.path, w)
  BY <1>4, WalkOfRight
<1>7. entries \in [Nodes -> Seq(Names \X Nodes)] /\ UniqueNames(entries)
  BY DEF VfsInv, DirectoriesRight
<1>8. fname \in Names \cup {""} /\ rest \in Seq(Names) /\ found \in MaybeNode
  <2>1. CASE b.rest = <<>>
    BY <2>1, VfsConstants
  <2>2. CASE b.rest # <<>>
    <3>1. fname \in Names /\ rest \in Seq(Names)
      BY <1>5, <2>2
    <3>2. finddir_fs(b.file_node, fname) \in MaybeNode
      <4> HIDE DEF fname, b
      <4>1. QED
        BY <1>5, <1>7, FindIsChild, ChildType
    <3>3. QED
      BY <3>1, <3>2, VfsConstants
  <2>3. QED
    BY <2>1, <2>2
<1>9. /\ c \in CallRecord
      /\ c.fname = fname /\ c.dir_node = b.file_node /\ c.file_node = found /\ c.rest = rest
      /\ c.at = b.at /\ c.path = b.path /\ c.creat = b.creat /\ c.existed = b.existed
  <2> HIDE DEF fname, found, rest, b
  <2>1. QED
    BY <1>1, <1>5, <1>8 DEF CallRecord
<1> HIDE DEF c
<1>10. CASE b.rest = <<>>
  <2>1. m = n /\ fname = "" /\ found = NULL /\ rest = <<>>
    BY <1>4, <1>10
  <2>2. b.at = "open" /\ b.file_node # NULL /\ type[b.file_node] = "FS_DIRECTORY"
    BY <1>10, <1>1 DEF MoreToFind
  <2>3. Starting(b, m) \/ Looking(entries, t, b, m)
    BY <1>3, <2>2 DEF Inside
  <2>4. b.file_node = w[n]
    BY <1>1, <1>3, <2>1, <2>2, <2>3, OnPath
  <2>5. Consumed(c, n)
    <3>0. Len(rest) = 0
      BY <2>1
    <3> HIDE DEF rest, b
    <3>1. n \in 0..n /\ Len(rest) = n - n /\ 1..Len(rest) = {}
      <4> HIDE DEF n
      <4>1. QED
        BY <1>4, <3>0
    <3>2. QED
      BY <1>4, <1>9, <3>1 DEF Consumed
  <2>6. Inside(entries, type, c, n)
    BY <1>9, <2>1, <2>2, <2>4 DEF Inside
  <2>7. Underway(entries, type, t, c)
    BY <1>3, <1>4, <1>9, <2>2, <2>5, <2>6 DEF Underway
  <2>8. CallRight(entries, type, t, c)
    BY <1>1, <1>9, <2>7 DEF CallRight
  <2>9. QED
    BY <1>1, <1>2, <1>9, <2>8, CallStep
<1>11. CASE b.rest # <<>>
  <2>1. Len(b.rest) >= 1 /\ m < n
    BY <1>4, <1>5, <1>11
  <2>2. m + 1 \in 1..n /\ m + 1 \in Nat /\ (m + 1) - 1 = m /\ m + 1 \in 0..n
    BY <1>4, <2>1
  <2>3. fname = b.path[m + 1] /\ fname \in Names /\ fname # ""
    <3>1. fname = b.rest[1] /\ 1 \in 1..Len(b.rest)
      BY <1>4, <1>5, <1>11, <2>1
    <3>2. fname = b.path[m + 1]
      BY <1>3, <3>1 DEF Consumed
    <3>3. b.path[m + 1] \in Names
      BY <1>4, <2>2
    <3>4. QED
      BY <3>2, <3>3, VfsAssumption
  <2>4. Len(rest) = n - (m + 1) /\ \A i \in 1..Len(rest) : rest[i] = b.path[(m + 1) + i]
    <3>1. rest = Tail(b.rest) /\ Len(rest) = Len(b.rest) - 1
      BY <1>5, <1>11
    <3>2. ASSUME NEW i \in 1..Len(rest) PROVE rest[i] = b.path[(m + 1) + i]
      <4>1. rest[i] = b.rest[i + 1] /\ i + 1 \in 1..Len(b.rest)
        BY <1>5, <2>1, <3>1
      <4>2. b.rest[i + 1] = b.path[m + (i + 1)]
        BY <1>3, <4>1 DEF Consumed
      <4>3. m + (i + 1) = (m + 1) + i
        BY <2>2
      <4>4. QED
        BY <4>1, <4>2, <4>3
    <3>3. Len(rest) = n - (m + 1)
      <4> HIDE DEF rest, n, b
      <4>1. QED
        BY <1>4, <3>1
    <3> HIDE DEF rest, n, b
    <3>4. QED
      BY <3>2, <3>3
  <2>5. Consumed(c, m + 1)
    <3> HIDE DEF rest, n, b
    <3>1. QED
      BY <1>4, <1>9, <2>2, <2>4 DEF Consumed, n
  <2>6. Starting(b, m) \/ Looking(entries, t, b, m)
    <3>1. m # n
      BY <1>4, <2>1
    <3>2. ~Inside(entries, type, b, m)
      BY <3>1 DEF Inside
    <3>3. QED
      BY <1>3, <3>2
  <2>7. (b.file_node # NULL => b.file_node = w[m]) /\ (b.existed # NULL => b.file_node # NULL)
    BY <1>1, <1>3, <2>6, OnPath
  <2>8. found = ChildIn(entries, b.file_node, fname)
    <3>1. found = finddir_fs(b.file_node, fname)
      BY <2>3
    <3> HIDE DEF fname, found, b
    <3>2. QED
      BY <1>5, <1>7, <3>1, FindIsChild
  <2>9. w[m + 1] = ChildIn(entries, w[m], fname)
    <3> HIDE DEF w, fname, n, b
    <3>1. QED
      BY <1>6, <2>2, <2>3 DEF Walk, n
  <2>10. found # NULL => found = w[m + 1]
    <3> HIDE DEF w, fname, found, b
    <3>1. QED
      BY <2>7, <2>8, <2>9, NullChild
  <2>11. b.existed # NULL => found # NULL
    <3> SUFFICES ASSUME b.existed # NULL PROVE found # NULL
      OBVIOUS
    <3>1. w[n] # NULL
      BY <1>3
    <3>2. w[m + 1] # NULL
      BY <1>4, <2>2, <3>1, WalkBefore
    <3> HIDE DEF w, fname, found, b, n
    <3>3. QED
      BY <2>7, <2>8, <2>9, <3>2
  <2>12. Looking(entries, t, c, m + 1)
    <3>1. m + 1 >= 1
      BY <2>2
    <3>2. w = WalkOf(entries, c.path)
      BY <1>9
    <3> HIDE DEF fname, found, b, rest, w
    <3>3. /\ c.fname = c.path[m + 1]
          /\ c.dir_node # NULL => c.dir_node = w[(m + 1) - 1]
          /\ c.file_node # NULL => c.file_node = w[m + 1]
          /\ c.existed # NULL => c.file_node # NULL
      BY <1>9, <2>2, <2>3, <2>7, <2>10, <2>11
    <3>4. c.file_node = ChildIn(entries, c.dir_node, c.fname)
      BY <1>9, <2>8
    <3>5. QED
      BY <3>1, <3>2, <3>3, <3>4 DEF Looking
  <2>13. Underway(entries, type, t, c)
    <3> HIDE DEF fname, found, b, rest
    <3>1. QED
      BY <1>3, <1>9, <2>2, <2>5, <2>12 DEF Underway, w, n
  <2>14. CallRight(entries, type, t, c)
    BY <1>1, <1>9, <2>13 DEF CallRight
  <2>15. QED
    BY <1>1, <1>2, <1>9, <2>14, CallStep
<1>12. QED
  BY <1>10, <1>11

\* The end of findnode_fs.
LEMMA FindnodeReturnInv ==
  ASSUME VfsInv, NEW t \in Tasks, findnode_return(t)
  PROVE  VfsInv'
<1> DEFINE b == call[t]
           w == WalkOf(entries, b.path)
           n == Len(b.path)
<1>1. b \in CallRecord /\ b.at = "findnode" /\ ~MoreToFind(b) /\ UNCHANGED <<type, entries>>
  BY DEF VfsInv, findnode_return
<1>2. PICK m \in Nat :
        /\ Consumed(b, m)
        /\ b.creat => b.at = "open" /\ t \in Makers
        /\ b.existed # NULL => b.existed = w[n]
        /\ Starting(b, m) \/ Looking(entries, t, b, m)
  BY <1>1 DEF VfsInv, CallRight, Underway
<1>3. b.path \in Paths /\ n \in Nat /\ Len(b.rest) = n - m /\ m \in 0..n
  BY <1>2, PathsAreSequences DEF Consumed
<1>4. b.file_node \in MaybeNode
  BY <1>1 DEF CallRecord
<1>5. (b.file_node # NULL => b.file_node = w[m]) /\ (b.existed # NULL => b.file_node # NULL)
  BY <1>1, <1>2, OnPath
<1>6. b.file_node # NULL => m = n
  <2>1. b.file_node # NULL => b.rest = <<>>
    BY <1>1 DEF MoreToFind
  <2>2. QED
    BY <1>3, <2>1
<1>7. PICK c \in CallRecord :
        /\ call' = [call EXCEPT ![t] = c]
        /\ c.at = "done" /\ c.path = b.path /\ c.creat = b.creat
        /\ c.excl = b.excl /\ c.existed = b.existed
        /\ c.node = b.file_node /\ c.created = FALSE
  <2>1. return(t, b.file_node, FALSE)
    BY DEF findnode_return
  <2> DEFINE node == b.file_node
  <2>2. node \in MaybeNode /\ FALSE \in BOOLEAN /\ call[t].path \in Paths
    BY <1>3, <1>4
  <2> HIDE DEF node
  <2>3. \E c \in CallRecord :
           /\ return(t, node, FALSE) <=> call' = [call EXCEPT ![t] = c]
           /\ c.at = "done" /\ c.path = call[t].path /\ c.creat = call[t].creat
           /\ c.excl = call[t].excl /\ c.existed = call[t].existed
           /\ c.node = node /\ c.created = FALSE
    BY <2>2, ReturnInv
  <2>4. QED
    BY <2>1, <2>3 DEF node
<1>8. Returned(entries, type, c)
  <2>1. c.node # NULL => c.node = w[n]
    BY <1>5, <1>6, <1>7
  <2>2. c.existed # NULL => c.node = c.existed
    BY <1>2, <1>5, <1>6, <1>7
  <2>3. ~c.creat
    BY <1>1, <1>2, <1>7
  <2>4. QED
    BY <1>3, <1>7, <2>1, <2>2, <2>3 DEF Returned
<1>9. CallRight(entries, type, t, c)
  BY <1>7, <1>8 DEF CallRight
<1>10. QED
  BY <1>1, <1>7, <1>9, CallStep

\* The end of a call that leaves the directories alone.
LEMMA ReturnStep ==
  ASSUME VfsInv, NEW t \in Tasks, NEW node \in MaybeNode, call[t].path \in Paths,
         return(t, node, FALSE), UNCHANGED <<type, entries>>,
         node # NULL => \/ node = WalkOf(entries, call[t].path)[Len(call[t].path)]
                        \/ FileOnWay(entries, type, call[t].path),
         call[t].existed # NULL => (~(call[t].creat /\ call[t].excl) => node = call[t].existed),
         call[t].creat /\ call[t].excl /\ node # NULL => type[node] = "FS_DIRECTORY"
  PROVE  VfsInv'
<1> DEFINE b == call[t]
<1>1. FALSE \in BOOLEAN
  OBVIOUS
<1>2. PICK c \in CallRecord :
        /\ return(t, node, FALSE) <=> call' = [call EXCEPT ![t] = c]
        /\ c.at = "done" /\ c.path = b.path /\ c.creat = b.creat
        /\ c.excl = b.excl /\ c.existed = b.existed
        /\ c.node = node /\ c.created = FALSE
  BY <1>1, ReturnInv
<1>3. Returned(entries, type, c)
  BY <1>2 DEF Returned
<1>4. CallRight(entries, type, t, c)
  BY <1>2, <1>3 DEF CallRight
<1>5. QED
  BY <1>2, <1>4, CallStep

\* At most one task creates entries.
OneMaker == \A t, u \in Makers : t = u

\* The node that is created.
LEMMA NewNode ==
  ASSUME VfsInv, NODES <= SLOTS, NEW d \in Nodes, NEW name \in Names,
         NEW kind \in {"FS_FILE", "FS_DIRECTORY"}, ChildIn(entries, d, name) = NULL,
         {m \in Nodes : type[m] = "FREE"} # {}, new_node(d, name, kind),
         NEW n, n = Min({m \in Nodes : type[m] = "FREE"})
  PROVE  /\ n \in Nodes /\ DirectoriesRight(entries, type)' /\ TypesKept(type, type')
         /\ Grows(entries, entries') /\ ChildIn(entries', d, name) = n
<1> DEFINE unused == {m \in Nodes : type[m] = "FREE"}
<1>1. unused \subseteq Nat
  BY VfsConstants DEF Nodes
<1>2. PICK i \in unused : \A y \in unused : ~(y < i)
  <2>1. PICK j : j \in unused
    OBVIOUS
  <2> HIDE DEF unused
  <2>2. QED
    BY <1>1, <2>1, Smallest
<1>3. n \in unused
  <2>1. \A y \in unused : i <= y
    BY <1>1, <1>2
  <2>2. n = Min(unused)
    OBVIOUS
  <2> HIDE DEF unused
  <2>3. QED
    BY <2>1, <2>2 DEF Min
<1>4. DirectoriesRight(entries, type) /\ n \in Nodes /\ type[n] = "FREE"
  BY <1>3 DEF VfsInv
<1>5. Len(entries[d]) < SLOTS
  BY <1>4, SlotLeft
<1>6. entries' = [entries EXCEPT ![d] = Append(@, <<name, n>>)] /\ type' = [type EXCEPT ![n] = kind]
  BY <1>5 DEF new_node
<1> DEFINE F == entries'
           tz == type'
<1>7. Added(entries, F, d, name, n) /\ Typed(type, tz, n, kind)
  BY <1>6 DEF Added, Typed
<1> HIDE DEF F, tz
<1>8. DirectoriesRight(F, tz) /\ TypesKept(type, tz) /\ Grows(entries, F) /\ ChildIn(F, d, name) = n
  BY <1>4, <1>7, EntryAdded
<1>9. DirectoriesRight(F, tz) <=> DirectoriesRight(entries, type)'
  BY DEF F, tz, DirectoriesRight, UniqueNames
<1>10. QED
  BY <1>4, <1>8, <1>9 DEF F, tz

\* A step of the creator.
LEMMA CreateStep ==
  ASSUME VfsInv, OneMaker, NEW t \in Makers, t \in Tasks,
         DirectoriesRight(entries, type)', TypesKept(type, type'), Grows(entries, entries'),
         NEW c \in CallRecord, CallRight(entries', type', t, c),
         call' = [call EXCEPT ![t] = c]
  PROVE  VfsInv'
<1>1. call' \in [Tasks -> CallRecord]
  BY DEF VfsInv
<1>2. ASSUME NEW u \in Tasks PROVE CallRight(entries', type', u, call'[u])
  <2>1. CASE u = t
    <3>1. call'[u] = c
      BY <2>1 DEF VfsInv
    <3>2. QED
      BY <2>1, <3>1
  <2>2. CASE u # t
    <3>1. call'[u] = call[u] /\ call[u] \in CallRecord
      BY <2>2 DEF VfsInv
    <3>2. u \notin Makers
      BY <2>2 DEF OneMaker
    <3> DEFINE F == entries'
               tz == type'
               b == call[u]
    <3>3. /\ DirectoriesRight(entries, type) /\ Grows(entries, F) /\ TypesKept(type, tz)
          /\ CallRight(entries, type, u, b) /\ b \in CallRecord
      BY <3>1 DEF VfsInv
    <3> HIDE DEF F, tz, b
    <3>4. CallRight(F, tz, u, b)
      BY <3>2, <3>3, CallRightKept
    <3>5. QED
      BY <3>1, <3>4 DEF F, tz, b
  <2>3. QED
    BY <2>1, <2>2
<1>3. QED
  BY <1>1, <1>2 DEF VfsInv

\* mkdir_fs.
LEMMA MkdirInv ==
  ASSUME VfsInv, OneMaker, NODES <= SLOTS, NEW t \in Tasks, NEW d \in Nodes, NEW name \in Names,
         mkdir_fs(t, d, name)
  PROVE  VfsInv'
<1>1. /\ t \in Makers /\ new_node(d, name, "FS_DIRECTORY") /\ call' = [call EXCEPT ![t] = Idle]
      /\ {m \in Nodes : type[m] = "FREE"} # {} /\ finddir_fs(d, name) = NULL
  BY DEF mkdir_fs, mkdir_allowed
<1>2. ChildIn(entries, d, name) = NULL
  <2>1. entries \in [Nodes -> Seq(Names \X Nodes)] /\ UniqueNames(entries) /\ d \in MaybeNode
    BY DEF VfsInv, DirectoriesRight, MaybeNode
  <2>2. QED
    BY <1>1, <2>1, FindIsChild
<1>3. DirectoriesRight(entries, type)' /\ TypesKept(type, type') /\ Grows(entries, entries')
  <2>1. "FS_DIRECTORY" \in {"FS_FILE", "FS_DIRECTORY"}
    OBVIOUS
  <2>2. QED
    BY <1>1, <1>2, <2>1, NewNode
<1>4. Idle \in CallRecord
  BY DEF Idle, CallRecord, MaybeNode
<1>5. CallRight(entries', type', t, Idle)
  <2>1. Idle.at = "idle"
    BY DEF Idle
  <2>2. QED
    BY <2>1 DEF CallRight
<1>6. QED
  BY <1>1, <1>3, <1>4, <1>5, CreateStep

\* The end of open_fs: every branch of it.
LEMMA OpenReturnInv ==
  ASSUME VfsInv, OneMaker, NODES <= SLOTS, NEW t \in Tasks, open_return(t)
  PROVE  VfsInv'
<1> DEFINE b == call[t]
           w == WalkOf(entries, b.path)
           n == Len(b.path)
           exists == b.file_node # NULL
           node == IF exists THEN b.file_node ELSE b.dir_node
           unused == {m \in Nodes : type[m] = "FREE"}
<1>1. b \in CallRecord /\ b.at = "open" /\ ~MoreToFind(b)
  BY DEF VfsInv, open_return
<1>2. PICK m \in Nat :
        /\ Consumed(b, m)
        /\ b.creat => b.at = "open" /\ t \in Makers
        /\ b.existed # NULL => b.existed = w[n]
        /\ Starting(b, m) \/ Looking(entries, t, b, m) \/ (b.at = "open" /\ Inside(entries, type, b, m))
  BY <1>1 DEF VfsInv, CallRight, Underway
<1>3. b.path \in Paths /\ b.path \in Seq(Names) /\ n \in Nat /\ n >= 1
  BY <1>2, PathsAreSequences DEF Consumed
<1>4. b.rest = <<>> /\ (exists => type[b.file_node] # "FS_DIRECTORY")
  BY <1>1 DEF MoreToFind
<1>5. m = n
  <2>1. Len(b.rest) = n - m /\ m \in 0..n
    BY <1>2 DEF Consumed
  <2>2. Len(b.rest) = 0
    BY <1>4
  <2> HIDE DEF n
  <2>3. QED
    BY <1>3, <2>1, <2>2
<1>6. Looking(entries, t, b, n) \/ Inside(entries, type, b, n)
  <2>1. n # 0
    <3> HIDE DEF n
    <3>1. QED
      BY <1>3
  <2>2. ~Starting(b, n)
    BY <2>1 DEF Starting
  <2>3. QED
    BY <1>2, <1>5, <2>2
<1>7. b.dir_node \in MaybeNode /\ b.file_node \in MaybeNode /\ node \in MaybeNode /\ NULL \in MaybeNode
  BY <1>1 DEF CallRecord, MaybeNode
<1>8. ASSUME Looking(entries, t, b, n)
      PROVE  /\ b.fname = b.path[n] /\ b.fname \in Names /\ b.fname # ""
             /\ b.dir_node # NULL => b.dir_node = w[n - 1]
             /\ exists => b.file_node = w[n]
             /\ b.existed # NULL => exists
             /\ t \in Makers /\ ~exists /\ b.dir_node # NULL => ChildIn(entries, b.dir_node, b.fname) = NULL
  <2>1. b.path[n] \in Names
    BY <1>3
  <2>2. QED
    BY <1>8, <2>1, VfsAssumption DEF Looking
<1>9. ASSUME Inside(entries, type, b, n)
      PROVE  /\ b.fname = "" /\ ~exists /\ b.dir_node # NULL /\ b.dir_node = w[n]
             /\ type[b.dir_node] = "FS_DIRECTORY"
  BY <1>9 DEF Inside
<1>10. Walk(entries, b.path, w)
  BY <1>3, WalkOfRight
<1>11. CASE /\ node = NULL
            /\ return(t, NULL, FALSE) /\ UNCHANGED <<type, entries>>
  <2>1. ~exists /\ b.existed = NULL
    BY <1>6, <1>8, <1>9, <1>11
  <2>2. QED
    BY <1>3, <1>7, <1>11, <2>1, ReturnStep
<1>12. CASE /\ node # NULL /\ type[node] = "FS_FILE"
            /\ return(t, IF Refuses(b) THEN NULL ELSE node, FALSE)
            /\ UNCHANGED <<type, entries>>
  <2> DEFINE res == IF Refuses(b) THEN NULL ELSE node
  <2>1. Looking(entries, t, b, n)
    BY <1>6, <1>9, <1>12
  <2>2. res \in MaybeNode /\ (b.creat /\ b.excl => res = NULL) /\ (res # NULL => res = node)
    BY <1>7 DEF Refuses
  <2>3. exists => node = w[n] /\ (b.existed # NULL => node = b.existed)
    BY <1>2, <1>8, <2>1
  <2>4. ~exists => FileOnWay(entries, type, b.path) /\ b.existed = NULL
    <3> SUFFICES ASSUME ~exists PROVE FileOnWay(entries, type, b.path) /\ b.existed = NULL
      OBVIOUS
    <3>1. node = w[n - 1] /\ b.existed = NULL
      BY <1>8, <1>12, <2>1
    <3>2. n - 1 # 0
      <4>1. w[0] = fs_root /\ type[fs_root] = "FS_DIRECTORY"
        BY <1>10 DEF Walk, VfsInv, DirectoriesRight
      <4>2. QED
        BY <1>12, <3>1, <4>1
    <3>3. n - 1 \in 1..(n - 1)
      <4> HIDE DEF n
      <4>1. QED
        BY <1>3, <3>2
    <3>4. QED
      BY <1>12, <3>1, <3>3 DEF FileOnWay
  <2>5. res # NULL => res = w[n] \/ FileOnWay(entries, type, b.path)
    BY <2>2, <2>3, <2>4
  <2>6. b.existed # NULL => (~(b.creat /\ b.excl) => res = b.existed)
    BY <2>3, <2>4 DEF Refuses
  <2>7. return(t, res, FALSE) /\ UNCHANGED <<type, entries>>
    BY <1>12
  <2> HIDE DEF res
  <2>8. QED
    BY <1>3, <2>2, <2>5, <2>6, <2>7, ReturnStep
<1>13. CASE /\ node # NULL /\ type[node] = "FS_DIRECTORY" /\ (OpensDirectory(b) \/ ~b.creat)
            /\ return(t, IF OpensDirectory(b) THEN node ELSE NULL, FALSE)
            /\ UNCHANGED <<type, entries>>
  <2> DEFINE res == IF OpensDirectory(b) THEN node ELSE NULL
  <2>1. ~exists /\ node = b.dir_node
    BY <1>4, <1>13
  <2>2. OpensDirectory(b) => node = w[n] /\ (b.existed # NULL => node = b.existed)
    BY <1>2, <1>6, <1>8, <1>9, <2>1 DEF OpensDirectory
  <2>3. ~OpensDirectory(b) => b.existed = NULL
    BY <1>6, <1>8, <1>9, <2>1 DEF OpensDirectory
  <2>4. res \in MaybeNode /\ (res # NULL => res = node /\ res = w[n])
    BY <1>7, <2>2
  <2>5. b.existed # NULL => (~(b.creat /\ b.excl) => res = b.existed)
    BY <2>2, <2>3
  <2>6. return(t, res, FALSE) /\ UNCHANGED <<type, entries>> /\ (res # NULL => type[res] = "FS_DIRECTORY")
    BY <1>13
  <2> HIDE DEF res
  <2>7. QED
    BY <1>3, <2>4, <2>5, <2>6, ReturnStep
<1>14. CASE /\ node # NULL /\ type[node] = "FS_DIRECTORY" /\ ~OpensDirectory(b) /\ b.creat
            /\ unused # {}
            /\ new_node(node, b.fname, "FS_FILE")
            /\ return(t, Min(unused), TRUE)
  <2> DEFINE d == b.dir_node
             name == b.fname
             new == Min(unused)
  <2>1. ~exists /\ node = d /\ d \in Nodes /\ d # NULL
    BY <1>4, <1>7, <1>14 DEF MaybeNode
  <2>2. Looking(entries, t, b, n)
    BY <1>6, <1>9, <1>14 DEF OpensDirectory
  <2>3. t \in Makers /\ b.existed = NULL
    BY <1>2, <1>8, <1>14, <2>1, <2>2
  <2>4. ChildIn(entries, d, name) = NULL /\ name = b.path[n] /\ name \in Names /\ d = w[n - 1]
    BY <1>8, <2>1, <2>2, <2>3
  <2>5. new_node(d, name, "FS_FILE") /\ return(t, new, TRUE) /\ unused # {}
    BY <1>14, <2>1
  <2> DEFINE F == entries'
             tz == type'
             v == WalkOf(F, b.path)
  <2>6. /\ new \in Nodes /\ DirectoriesRight(entries, type)' /\ TypesKept(type, type')
        /\ Grows(entries, entries') /\ ChildIn(entries', d, name) = new
    <3>1. "FS_FILE" \in {"FS_FILE", "FS_DIRECTORY"}
      OBVIOUS
    <3> HIDE DEF d, name
    <3>2. QED
      BY <2>1, <2>4, <2>5, <3>1, NewNode
  <2>7. v[n] = new
    <3>1. n - 1 \in 0..n /\ n \in 1..n
      <4> HIDE DEF n
      <4>1. QED
        BY <1>3
    <3>2. v[n - 1] = d
      <4>1. Grows(entries, F) /\ w[n - 1] # NULL
        BY <2>1, <2>4, <2>6
      <4> HIDE DEF F
      <4>2. QED
        BY <1>3, <2>4, <3>1, <4>1, WalkGrows
    <3>3. Walk(F, b.path, v)
      <4> HIDE DEF F
      <4>1. QED
        BY <1>3, WalkOfRight
    <3>4. v[n] = ChildIn(F, v[n - 1], b.path[n])
      <4> HIDE DEF F, v
      <4>1. QED
        BY <3>1, <3>3 DEF Walk
    <3> HIDE DEF v, d, name
    <3>5. QED
      BY <2>4, <2>6, <3>2, <3>4
  <2>8. PICK c \in CallRecord :
          /\ return(t, new, TRUE) <=> call' = [call EXCEPT ![t] = c]
          /\ c.at = "done" /\ c.path = b.path /\ c.creat = b.creat
          /\ c.excl = b.excl /\ c.existed = b.existed
          /\ c.node = new /\ c.created = TRUE
    <3>1. new \in MaybeNode /\ TRUE \in BOOLEAN /\ call[t].path \in Paths
      BY <1>3, <2>6 DEF MaybeNode
    <3> HIDE DEF new
    <3>2. QED
      BY <3>1, ReturnInv
  <2>9. Returned(F, tz, c)
    <3> HIDE DEF F, tz, new, b
    <3>1. QED
      BY <1>3, <2>3, <2>7, <2>8 DEF Returned, v, n
  <2>10. CallRight(entries', type', t, c)
    BY <2>8, <2>9 DEF CallRight
  <2>11. QED
    BY <2>3, <2>5, <2>6, <2>8, <2>10, CreateStep
<1>15. QED
  BY <1>11, <1>12, <1>13, <1>14 DEF open_return

\* The invariant gives what the lookups promise.
LEMMA VfsInvMeans == VfsInv => LookupsRight
<1> SUFFICES ASSUME VfsInv PROVE LookupsRight
  OBVIOUS
<1>1. VfsTypeOK
  <2>1. type \in [Nodes -> {"FREE", "FS_FILE", "FS_DIRECTORY"}]
    BY DEF VfsInv, DirectoriesRight
  <2>2. ASSUME NEW d \in Nodes, NEW i \in DOMAIN entries[d] PROVE entries[d][i] \in Names \X Nodes
    <3>1. entries[d] \in Seq(Names \X Nodes)
      BY DEF VfsInv, DirectoriesRight
    <3>2. QED
      BY <3>1
  <2>3. ASSUME NEW t \in Tasks
        PROVE  /\ call[t].at \in {"idle", "open", "findnode", "done"}
               /\ {call[t].dir_node, call[t].file_node, call[t].node} \subseteq Nodes \cup {NULL}
    <3>1. call[t] \in CallRecord
      BY DEF VfsInv
    <3>2. QED
      BY <3>1 DEF CallRecord, MaybeNode
  <2>4. QED
    BY <2>1, <2>2, <2>3 DEF VfsTypeOK
<1>2. NamesUnique
  BY DEF VfsInv, DirectoriesRight, UniqueNames, NamesUnique
<1>3. ASSUME NEW t \in Tasks, call[t].at = "done"
      PROVE  Returned(entries, type, call[t]) /\ call[t].path \in Paths
  BY <1>3 DEF VfsInv, CallRight, Returned
<1>4. ASSUME NEW p \in Paths, FileOnWay(entries, type, p) PROVE ThroughFile(p)
  <2>1. p \in Seq(Names) /\ Len(p) \in Nat
    BY PathsAreSequences
  <2>2. PICK k \in 1..(Len(p) - 1) : WalkOf(entries, p)[k] # NULL /\ type[WalkOf(entries, p)[k]] = "FS_FILE"
    BY <1>4 DEF FileOnWay
  <2>3. k \in 0..Len(p)
    BY <2>1
  <2> DEFINE q == SubSeq(p, 1, k)
  <2>4. q \in Seq(Names) /\ Len(q) = k /\ WalkOf(entries, q)[k] = WalkOf(entries, p)[k]
    BY <2>1, <2>3, WalkPrefix
  <2> HIDE DEF q
  <2>5. Resolve(q) = WalkOf(entries, q)[k]
    BY <2>4, WalkOfRight, ResolveWalk
  <2>6. QED
    BY <2>2, <2>4, <2>5 DEF ThroughFile, q
<1>5. LookupRight
  <2> SUFFICES ASSUME NEW t \in Tasks, ~ThroughFile(call[t].path), call[t].at = "done", call[t].node # NULL
               PROVE  call[t].node = Resolve(call[t].path)
    BY DEF LookupRight, FindsPath
  <2>1. QED
    BY <1>3, <1>4, ResolveIsWalk DEF Returned
<1>6. ExclusiveIsNew
  BY <1>3 DEF ExclusiveIsNew, Returned
<1>7. ExistingFound
  BY <1>3 DEF ExistingFound, Returned
<1>8. QED
  BY <1>1, <1>2, <1>5, <1>6, <1>7 DEF LookupsRight

\* Every step keeps the invariant.
LEMMA VfsStep ==
  ASSUME OneMaker, NODES <= SLOTS
  PROVE  VfsInv /\ [VfsNext]_vfsVars => VfsInv'
<1> SUFFICES ASSUME VfsInv, [VfsNext]_vfsVars PROVE VfsInv'
  OBVIOUS
<1>1. CASE VfsNext
  <2> SUFFICES ASSUME NEW t \in Tasks,
                      \/ \E p \in Paths, creat, excl \in BOOLEAN, what \in {"open", "findnode"} :
                           begin(t, what, p, creat, excl)
                      \/ find(t)
                      \/ findnode_return(t)
                      \/ open_return(t)
                      \/ \E d \in Nodes, name \in Names : mkdir_fs(t, d, name)
               PROVE  VfsInv'
    BY <1>1 DEF VfsNext
  <2>1. CASE \E p \in Paths, creat, excl \in BOOLEAN, what \in {"open", "findnode"} :
               begin(t, what, p, creat, excl)
    BY <2>1, BeginInv
  <2>2. CASE find(t)
    BY <2>2, FindInv
  <2>3. CASE findnode_return(t)
    BY <2>3, FindnodeReturnInv
  <2>4. CASE open_return(t)
    BY <2>4, OpenReturnInv
  <2>5. CASE \E d \in Nodes, name \in Names : mkdir_fs(t, d, name)
    BY <2>5, MkdirInv
  <2>6. QED
    BY <2>1, <2>2, <2>3, <2>4, <2>5
<1>2. CASE UNCHANGED vfsVars
  <2>1. type' = type /\ entries' = entries /\ call' = call
    BY <1>2 DEF vfsVars
  <2>2. DirectoriesRight(entries, type)'
    BY <2>1 DEF VfsInv, DirectoriesRight, UniqueNames
  <2>3. \A t \in Tasks : CallRight(entries', type', t, call'[t])
    BY <2>1 DEF VfsInv
  <2>4. QED
    BY <2>1, <2>2, <2>3 DEF VfsInv
<1>3. QED
  BY <1>1, <1>2

\* The lookups of open_fs, findnode_fs and mkdir_fs are right, whatever the tasks do in
\* between, if one task creates and every node that it may create has a slot.
THEOREM VfsCorrect == OneMaker /\ NODES <= SLOTS => (VfsSpec => []LookupsRight)
<1> SUFFICES ASSUME OneMaker, NODES <= SLOTS PROVE VfsSpec => []LookupsRight
  OBVIOUS
<1>1. VfsInit => VfsInv
  BY VfsInitial
<1>2. VfsInv /\ [VfsNext]_vfsVars => VfsInv'
  BY VfsStep
<1>3. VfsInv => LookupsRight
  BY VfsInvMeans
<1>4. QED
  BY <1>1, <1>2, <1>3, PTL DEF VfsSpec
-----------------------------------------------------------------------------
(***************************************************************************)
(* Initrd: the data of a file.                                             *)
(***************************************************************************)
\* The constants are positive.
LEMMA InitrdConstants ==
  /\ MAX_DATAENTRIES \in Nat \ {0} /\ BLOCKS \in Nat \ {0} /\ MAX_LENGTH \in Nat \ {0}
  /\ MAX_SIZE \in Nat \ {0} /\ Bytes \subseteq Nat \ {0}
BY InitrdAssumption

\* The smaller and the larger of two numbers.
LEMMA MinOfTwo ==
  ASSUME NEW a \in Int, NEW b \in Int
  PROVE  Min({a, b}) = IF a <= b THEN a ELSE b
<1>1. CASE a <= b
  <2>1. a \in {a, b} /\ \A x, y \in {a, b} : (\A z \in {a, b} : x <= z) /\ (\A z \in {a, b} : y <= z) => x = y
    OBVIOUS
  <2>2. \A z \in {a, b} : a <= z
    BY <1>1
  <2>3. QED
    BY <1>1, <2>1, <2>2 DEF Min
<1>2. CASE b < a
  <2>1. b \in {a, b} /\ \A x, y \in {a, b} : (\A z \in {a, b} : x <= z) /\ (\A z \in {a, b} : y <= z) => x = y
    OBVIOUS
  <2>2. \A z \in {a, b} : b <= z
    BY <1>2
  <2>3. QED
    BY <1>2, <2>1, <2>2 DEF Min
<1>3. QED
  BY <1>1, <1>2

\* Likewise.
LEMMA MaxOfTwo ==
  ASSUME NEW a \in Int, NEW b \in Int
  PROVE  Max({a, b}) = IF a >= b THEN a ELSE b
<1>1. CASE a >= b
  <2>1. a \in {a, b} /\ \A x, y \in {a, b} : (\A z \in {a, b} : x >= z) /\ (\A z \in {a, b} : y >= z) => x = y
    OBVIOUS
  <2>2. \A z \in {a, b} : a >= z
    BY <1>1
  <2>3. QED
    BY <1>1, <2>1, <2>2 DEF Max
<1>2. CASE b > a
  <2>1. b \in {a, b} /\ \A x, y \in {a, b} : (\A z \in {a, b} : x >= z) /\ (\A z \in {a, b} : y >= z) => x = y
    OBVIOUS
  <2>2. \A z \in {a, b} : b >= z
    BY <1>2
  <2>3. QED
    BY <1>2, <2>1, <2>2 DEF Max
<1>3. QED
  BY <1>1, <1>2

\* The first number of an interval.
LEMMA MinOfInterval ==
  ASSUME NEW a \in Int, NEW b \in Int, a <= b
  PROVE  Min(a..b) = a
<1>1. a \in a..b /\ \A z \in a..b : a <= z
  OBVIOUS
<1>2. \A x \in a..b : (\A z \in a..b : x <= z) => x = a
  <2> SUFFICES ASSUME NEW x \in a..b, \A z \in a..b : x <= z PROVE x = a
    OBVIOUS
  <2>1. x <= a
    BY <1>1
  <2>2. QED
    BY <2>1
<1>3. QED
  BY <1>1, <1>2 DEF Min

-----------------------------------------------------------------------------
\* The pointers to the first h blocks.
FirstBlocks(h) == [i \in 1..BLOCKS |-> IF i <= h THEN i ELSE 0]

\* The pointers of a file in a module.
InModule == [i \in 1..BLOCKS |-> IF i = 1 THEN ModuleBlock ELSE 0]

\* What block i holds at o.
PlaceIn(i, o) == (MAX_DATAENTRIES * (i - 1)) + o + 1

\* A file in blocks: they are taken in order, as many as needed; each byte is at its
\* place and the rest is 0; while there is one block, no descriptor is behind the end.
InBlocks == \E h \in 0..BLOCKS :
  /\ data = FirstBlocks(h)
  /\ Len(text) <= MAX_DATAENTRIES * h
  /\ Len(text) <= MAX_DATAENTRIES => h <= 1 /\ \A f \in Fds : fd[f].offset <= Len(text)
  /\ \A i \in 1..BLOCKS, o \in 0..(MAX_DATAENTRIES - 1) :
       content[i][o] = IF PlaceIn(i, o) <= Len(text) THEN text[PlaceIn(i, o)] ELSE 0

\* A file in a module, which is not written.
InOneModule ==
  /\ data = InModule
  /\ \A k \in 1..Len(text) : content[ModuleBlock][k - 1] = text[k]
  /\ \A f \in Fds : fd[f].offset <= Len(text)

\* The inductive invariant.
FileInv ==
  /\ InitrdTypeOK /\ ~fault /\ block_size = Len(text)
  /\ \A f \in Fds : fd[f].offset > 0 => Len(text) > 0
  /\ InBlocks \/ InOneModule
  /\ ReadRightInOnePiece

\* The blocks that are not in the file, and the one for pointer i.
NotInFile == {b \in 1..BLOCKS : \A i \in 1..BLOCKS : data[i] # b}
BlockFor(i, failed) ==
  CHOOSE b \in NotInFile : Cardinality({c \in NotInFile : c < b}) =
    Cardinality({k \in 1..(i - 1) : data[k] = 0 /\ k \notin failed})

\* If the file has the first blocks, it is the next one.
LEMMA NextBlock ==
  ASSUME NEW h \in 0..BLOCKS, NEW i \in (h + 1)..BLOCKS, data = FirstBlocks(h), NEW failed, failed = {}
  PROVE  BlockFor(i, failed) = i
<1> DEFINE unused == NotInFile
           empty == {k \in 1..(i - 1) : data[k] = 0 /\ k \notin failed}
<1>1. BLOCKS \in Nat /\ h \in Nat /\ i \in Nat /\ i - 1 \in Int /\ h + 1 \in Int
  BY InitrdConstants
<1>2. unused = (h + 1)..BLOCKS
  <2>1. ASSUME NEW b \in 1..BLOCKS PROVE b \in unused <=> b > h
    <3>1. CASE b > h
      <4>1. \A j \in 1..BLOCKS : data[j] # b
        BY <1>1, <3>1 DEF FirstBlocks
      <4>2. QED
        BY <3>1, <4>1 DEF NotInFile
    <3>2. CASE ~(b > h)
      <4>1. data[b] = b
        BY <1>1, <3>2 DEF FirstBlocks
      <4>2. QED
        BY <3>2, <4>1 DEF NotInFile
    <3>3. QED
      BY <3>1, <3>2
  <2>2. \A b : b \in unused <=> b \in (h + 1)..BLOCKS
    <3>1. \A b : b \in (h + 1)..BLOCKS <=> b \in 1..BLOCKS /\ b > h
      BY <1>1
    <3>2. \A b \in unused : b \in 1..BLOCKS
      BY DEF NotInFile
    <3>3. QED
      BY <2>1, <3>1, <3>2
  <2>3. QED
    BY <2>2
<1> HIDE DEF unused
<1>3. empty = (h + 1)..(i - 1)
  <2>1. \A k : k \in empty <=> k \in (h + 1)..(i - 1)
    BY <1>1 DEF FirstBlocks
  <2> HIDE DEF empty
  <2>2. QED
    BY <2>1
<1>4. Cardinality((h + 1)..(i - 1)) = (i - 1) - h
  <2>1. /\ h + 1 > i - 1 => (i - 1) - h = 0
        /\ ((i - 1) - (h + 1)) + 1 = (i - 1) - h
    BY <1>1
  <2>2. QED
    BY <1>1, <2>1, FS_Interval
<1>5. ASSUME NEW b \in unused PROVE Cardinality({c \in unused : c < b}) = (b - 1) - h
  <2>1. b \in (h + 1)..BLOCKS
    BY <1>2
  <2>2. {c \in unused : c < b} = (h + 1)..(b - 1)
    <3> DEFINE A == {c \in unused : c < b}
    <3>1. \A c : c \in A <=> c \in (h + 1)..(b - 1)
      BY <1>1, <1>2, <2>1
    <3> HIDE DEF A
    <3>2. A = (h + 1)..(b - 1)
      BY <3>1
    <3>3. QED
      BY <3>2 DEF A
  <2>3. /\ b - 1 \in Int
        /\ h + 1 > b - 1 => (b - 1) - h = 0
        /\ ((b - 1) - (h + 1)) + 1 = (b - 1) - h
    BY <1>1, <2>1
  <2>4. Cardinality((h + 1)..(b - 1)) = (b - 1) - h
    BY <1>1, <2>3, FS_Interval
  <2>5. QED
    BY <2>2, <2>4
<1>6. i \in unused /\ \A b \in unused : b \in Nat
  BY <1>1, <1>2
<1> DEFINE r == Cardinality(empty)
           P(b) == Cardinality({c \in unused : c < b}) = r
<1>7. r = (i - 1) - h
  BY <1>3, <1>4
<1>8. \A b \in unused : P(b) <=> b = i
  <2> HIDE DEF r
  <2>1. QED
    BY <1>1, <1>5, <1>6, <1>7
<1> HIDE DEF P
<1>9. (CHOOSE b \in unused : P(b)) = i
  BY <1>6, <1>8
<1>10. QED
  BY <1>9 DEF P, r, unused, BlockFor

\* The modelled conditions: no O_TRUNC, kmalloc succeeds, and modules are not written.
PlainUse == ~Truncate /\ ~AllocMayFail /\ ~WriteModule

\* An empty file is in blocks, one in a module is not.
LEMMA FileInitial == InitrdInit => FileInv
<1> SUFFICES ASSUME InitrdInit PROVE FileInv
  OBVIOUS
<1> DEFINE M == MAX_DATAENTRIES
<1>1. M \in Nat \ {0} /\ BLOCKS \in Nat \ {0} /\ MAX_LENGTH \in Nat \ {0} /\ Bytes \subseteq Nat \ {0}
  BY InitrdConstants
<1>2. PICK length \in 0..MAX_LENGTH, v \in Bytes :
        /\ data = [i \in 1..BLOCKS |-> IF length > 0 /\ i = 1 THEN ModuleBlock ELSE 0]
        /\ block_size = length /\ text = [k \in 1..length |-> v]
        /\ content = [b \in Blocks |-> [k \in 0..(Width - 1) |->
                        IF b = ModuleBlock /\ k < length THEN v ELSE 0]]
  BY DEF InitrdInit
<1>3. freed = {} /\ fd = [f \in Fds |-> Closed] /\ got = <<>> /\ want = <<>> /\ fault = FALSE
  BY DEF InitrdInit
<1>4. Width \in Nat /\ ModuleBlock \in Nat /\ ModuleBlock = BLOCKS + 1 /\ Width = MAX_LENGTH + M /\ length \in Nat
  BY <1>1 DEF Width, ModuleBlock
<1>5. text \in Seq(Bytes \cup {0}) /\ Len(text) = length /\ \A k \in 1..length : text[k] = v
  <2>1. text \in [1..length -> Bytes \cup {0}]
    BY <1>2
  <2>2. QED
    BY <1>2, <1>4, <2>1
<1>6. InitrdTypeOK
  <2>1. data \in [1..BLOCKS -> 0..ModuleBlock]
    BY <1>1, <1>2, <1>4
  <2>2. content \in [Blocks -> [0..(Width - 1) -> Bytes \cup {0}]]
    BY <1>2
  <2>3. Closed \in [access : {"NONE", "O_RDONLY", "O_WRONLY", "O_RDWR"}, append : BOOLEAN, offset : 0..Width]
    BY <1>4 DEF Closed
  <2>4. fd \in [Fds -> [access : {"NONE", "O_RDONLY", "O_WRONLY", "O_RDWR"},
                        append : BOOLEAN, offset : 0..Width]]
    <3> HIDE DEF Closed
    <3>1. QED
      BY <1>3, <2>3
  <2>5. got \in Seq(Bytes \cup {0, JUNK}) /\ want \in Seq(Bytes \cup {0})
    BY <1>3
  <2>6. block_size \in 0..MAX_LENGTH /\ freed \subseteq Blocks /\ fault \in BOOLEAN
    BY <1>2, <1>3
  <2>7. QED
    BY <1>5, <2>1, <2>2, <2>4, <2>5, <2>6 DEF InitrdTypeOK
<1>7. \A f \in Fds : fd[f].offset = 0
  BY <1>3 DEF Closed
<1>8. ReadRightInOnePiece
  BY <1>3 DEF ReadRightInOnePiece, ReadRight
<1>9. CASE length > 0
  <2>1. data = InModule
    BY <1>2, <1>9 DEF InModule
  <2>2. ASSUME NEW k \in 1..length PROVE content[ModuleBlock][k - 1] = text[k]
    <3>1. k - 1 \in 0..(Width - 1) /\ k - 1 < length /\ ModuleBlock \in Blocks
      BY <1>1, <1>4 DEF Blocks
    <3>2. QED
      BY <1>2, <1>5, <3>1
  <2>3. InOneModule
    BY <1>4, <1>5, <1>7, <2>1, <2>2 DEF InOneModule
  <2>4. QED
    BY <1>2, <1>3, <1>5, <1>6, <1>7, <1>8, <2>3 DEF FileInv
<1>10. CASE length = 0
  <2>1. data = FirstBlocks(0)
    BY <1>2, <1>10 DEF FirstBlocks
  <2>2. M * 0 = 0 /\ 0 \in 0..BLOCKS
    BY <1>1
  <2>3. ASSUME NEW i \in 1..BLOCKS, NEW o \in 0..(M - 1)
        PROVE  content[i][o] = IF PlaceIn(i, o) <= Len(text) THEN text[PlaceIn(i, o)] ELSE 0
    <3>1. i \in Blocks /\ o \in 0..(Width - 1) /\ ~(o < 0)
      BY <1>1, <1>4 DEF Blocks
    <3>2. content[i][o] = 0
      BY <1>2, <1>10, <3>1
    <3>3. M * (i - 1) \in Nat
      BY <1>1
    <3>4. ~(PlaceIn(i, o) <= 0)
      BY <3>1, <3>3 DEF PlaceIn
    <3>5. QED
      BY <1>5, <1>10, <3>2, <3>4
  <2>4. Len(text) = 0
    BY <1>5, <1>10
  <2>5. InBlocks
    BY <1>7, <2>1, <2>2, <2>3, <2>4 DEF InBlocks
  <2>6. QED
    BY <1>2, <1>3, <1>5, <1>6, <1>7, <1>8, <1>10, <2>5 DEF FileInv
<1>11. QED
  BY <1>4, <1>9, <1>10

\* A step that does not change the file, and after which no descriptor is behind its end
\* that was not before.
LEMMA FileKept ==
  ASSUME FileInv, UNCHANGED <<data, content, freed, block_size, text>>,
         fd' \in [Fds -> [access : {"NONE", "O_RDONLY", "O_WRONLY", "O_RDWR"},
                          append : BOOLEAN, offset : 0..Width]],
         \A f \in Fds : fd'[f].offset <= Len(text) \/ fd'[f].offset = fd[f].offset,
         NothingRead
  PROVE  FileInv'
<1>1. got' = <<>> /\ want' = <<>> /\ fault' = FALSE
  BY DEF NothingRead
<1>2. InitrdTypeOK'
  <2>1. got' \in Seq(Bytes \cup {0, JUNK}) /\ want' \in Seq(Bytes \cup {0})
    BY <1>1
  <2>2. fault' \in BOOLEAN
    BY <1>1, Zenon
  <2>3. QED
    BY <2>1, <2>2 DEF FileInv, InitrdTypeOK, JUNK, Blocks, Width, ModuleBlock
<1>3. Len(text) \in Nat /\ Width \in Nat
  BY InitrdConstants DEF FileInv, InitrdTypeOK, Width
<1>4. \A f \in Fds : fd'[f].offset > 0 => Len(text) > 0
  <2>1. \A f \in Fds : fd'[f].offset \in Nat
    BY <1>3
  <2>2. QED
    BY <1>3, <2>1 DEF FileInv
<1>5. ReadRightInOnePiece'
  BY <1>1 DEF ReadRightInOnePiece, ReadRight
<1>6. CASE InBlocks
  <2>1. InBlocks'
    BY <1>6 DEF InBlocks
  <2>2. QED
    BY <1>1, <1>2, <1>4, <1>5, <2>1 DEF FileInv
<1>7. CASE InOneModule
  <2>1. InOneModule'
    BY <1>7 DEF InOneModule
  <2>2. QED
    BY <1>1, <1>2, <1>4, <1>5, <2>1 DEF FileInv
<1>8. QED
  BY <1>6, <1>7 DEF FileInv

\* Opening without O_TRUNC.
LEMMA OpenFileInv ==
  ASSUME FileInv, PlainUse, NEW f \in Fds, NEW a \in {"O_RDONLY", "O_WRONLY", "O_RDWR"},
         NEW app \in BOOLEAN, NEW trunc \in BOOLEAN, initrd_open(f, a, app, trunc)
  PROVE  FileInv'
<1>1. ~trunc
  BY DEF PlainUse, initrd_open
<1>2. UNCHANGED <<data, content, freed, block_size, text>> /\ NothingRead
  BY <1>1 DEF initrd_open
<1> DEFINE r == [access |-> a, append |-> app, offset |-> 0]
<1>3. fd' = [fd EXCEPT ![f] = r]
  BY DEF initrd_open
<1>4. Len(text) \in Nat /\ Width \in Nat
  BY InitrdConstants DEF FileInv, InitrdTypeOK, Width
<1>5. r \in [access : {"NONE", "O_RDONLY", "O_WRONLY", "O_RDWR"}, append : BOOLEAN, offset : 0..Width] /\ r.offset = 0
  BY <1>4
<1> HIDE DEF r
<1>6. fd' \in [Fds -> [access : {"NONE", "O_RDONLY", "O_WRONLY", "O_RDWR"},
                       append : BOOLEAN, offset : 0..Width]]
  BY <1>3, <1>5 DEF FileInv, InitrdTypeOK
<1>7. \A g \in Fds : fd'[g].offset <= Len(text) \/ fd'[g].offset = fd[g].offset
  BY <1>3, <1>4, <1>5 DEF FileInv, InitrdTypeOK
<1>8. QED
  BY <1>2, <1>6, <1>7, FileKept

\* Closing.
LEMMA CloseFileInv ==
  ASSUME FileInv, NEW f \in Fds, close_fs(f)
  PROVE  FileInv'
<1>2. UNCHANGED <<data, content, freed, block_size, text>> /\ NothingRead
  BY DEF close_fs
<1>3. fd' = [fd EXCEPT ![f] = Closed]
  BY DEF close_fs
<1>4. Len(text) \in Nat /\ Width \in Nat
  BY InitrdConstants DEF FileInv, InitrdTypeOK, Width
<1>5. Closed \in [access : {"NONE", "O_RDONLY", "O_WRONLY", "O_RDWR"}, append : BOOLEAN, offset : 0..Width] /\ Closed.offset = 0
  BY <1>4 DEF Closed
<1>6. fd' \in [Fds -> [access : {"NONE", "O_RDONLY", "O_WRONLY", "O_RDWR"},
                       append : BOOLEAN, offset : 0..Width]]
  BY <1>3, <1>5 DEF FileInv, InitrdTypeOK
<1>7. \A g \in Fds : fd'[g].offset <= Len(text) \/ fd'[g].offset = fd[g].offset
  BY <1>3, <1>4, <1>5 DEF FileInv, InitrdTypeOK
<1>8. QED
  BY <1>2, <1>6, <1>7, FileKept

\* Seeking within the file.
LEMMA SeekInv ==
  ASSUME FileInv, NEW f \in Fds, NEW offset \in 0..MAX_LENGTH, seek(f, offset)
  PROVE  FileInv'
<1>2. UNCHANGED <<data, content, freed, block_size, text>> /\ NothingRead /\ offset <= Len(text)
  BY DEF seek, FileInv
<1>3. fd' = [fd EXCEPT ![f].offset = offset]
  BY DEF seek
<1>4. offset \in 0..Width
  BY InitrdConstants DEF Width
<1>6. fd' \in [Fds -> [access : {"NONE", "O_RDONLY", "O_WRONLY", "O_RDWR"},
                       append : BOOLEAN, offset : 0..Width]]
  BY <1>3, <1>4 DEF FileInv, InitrdTypeOK
<1>7. \A g \in Fds : fd'[g].offset <= Len(text) \/ fd'[g].offset = fd[g].offset
  BY <1>2, <1>3 DEF FileInv, InitrdTypeOK
<1>8. QED
  BY <1>2, <1>6, <1>7, FileKept

\* The state after a write of n bytes v at the offset, which is off in block pos + 1.
Wrote(h, f, v, offset, pos, off, n) ==
  /\ data' = FirstBlocks(IF h >= pos + 1 THEN h ELSE pos + 1)
  /\ content' = [content EXCEPT ![pos + 1] =
       [k \in 0..(Width - 1) |-> IF k \in off..((off + n) - 1) THEN v ELSE @[k]]]
  /\ block_size' = Grown(offset + n)
  /\ fd' = [fd EXCEPT ![f].offset = offset + n]
  /\ text' = [k \in 1..(IF Len(text) >= offset + n THEN Len(text) ELSE offset + n) |->
       IF k \in (offset + 1)..(offset + n) THEN v ELSE IF k <= Len(text) THEN text[k] ELSE 0]
  /\ NothingRead /\ UNCHANGED freed

\* initrd_write, taken apart: the block it writes to is the one for the offset, and
\* all blocks up to it exist afterwards.
LEMMA WriteParts ==
  ASSUME FileInv, PlainUse, NEW f \in Fds, NEW size \in 1..MAX_SIZE, NEW v \in Bytes, NEW failed \in SUBSET (1..BLOCKS),
         initrd_write(f, size, v, failed), NEW h \in 0..BLOCKS, data = FirstBlocks(h)
  PROVE  \E offset \in Nat, pos \in Nat, off \in 0..(MAX_DATAENTRIES - 1), n \in 1..MAX_DATAENTRIES :
           /\ offset = (MAX_DATAENTRIES * pos) + off /\ off + n <= MAX_DATAENTRIES
           /\ pos + 1 <= BLOCKS /\ offset + n <= MAX_LENGTH
           /\ Wrote(h, f, v, offset, pos, off, n)
<1> DEFINE M == MAX_DATAENTRIES
           offset == IF fd[f].append THEN block_size ELSE fd[f].offset
           pos == offset \div M
           off == BlockOffset(offset)
           n == Min({size, M - off})
           usable == {i \in (pos + 1)..BLOCKS : data[i] # 0 \/ i \notin failed}
           unused == {b \in 1..BLOCKS : \A i \in 1..BLOCKS : data[i] # b}
           block(i) == CHOOSE b \in unused : Cardinality({c \in unused : c < b}) =
                         Cardinality({k \in 1..(i - 1) : data[k] = 0 /\ k \notin failed})
           new == [i \in 1..BLOCKS |-> IF data[i] = 0 /\ i \notin failed /\ i <= Min(usable)
                                       THEN block(i) ELSE data[i]]
           g == IF h >= pos + 1 THEN h ELSE pos + 1
<1>1. M \in Nat \ {0} /\ BLOCKS \in Nat \ {0} /\ MAX_LENGTH \in Nat \ {0} /\ MAX_SIZE \in Nat \ {0} /\ Width \in Nat
  BY InitrdConstants DEF Width
<1>2. /\ n > 0 /\ offset + n <= MAX_LENGTH /\ usable # {}
      /\ failed \subseteq IF AllocMayFail THEN {i \in 1..BLOCKS : data[i] = 0} ELSE {}
      /\ data' = new
      /\ content' = [content EXCEPT ![new[Min(usable)]] =
           [k \in 0..(Width - 1) |-> IF k \in off..(off + n - 1) THEN v ELSE @[k]]]
      /\ block_size' = Grown(offset + n)
      /\ fd' = [fd EXCEPT ![f].offset = offset + n]
      /\ text' = [k \in 1..Max({Len(text), offset + n}) |->
           IF k \in (offset + 1)..(offset + n) THEN v ELSE IF k <= Len(text) THEN text[k] ELSE 0]
      /\ NothingRead /\ UNCHANGED freed
  BY DEF initrd_write
<1>3. failed = {}
  BY <1>2 DEF PlainUse
<1>4. offset \in Nat /\ Len(text) \in Nat
  BY <1>1 DEF FileInv, InitrdTypeOK
<1>5. pos \in Nat /\ off \in 0..(M - 1) /\ offset = (M * pos) + off
  <2>1. off = offset % M
    BY DEF BlockOffset
  <2> HIDE DEF offset, off, M
  <2>2. QED
    BY <1>1, <1>4, <2>1, DivMod
<1> HIDE DEF pos, off
<1>6. n \in 1..M /\ off + n <= M
  <2>1. size \in Int /\ M - off \in Int /\ M - off >= 1 /\ size >= 1
    BY <1>1, <1>5
  <2>2. n = IF size <= M - off THEN size ELSE M - off
    BY <2>1, MinOfTwo
  <2> HIDE DEF n
  <2>3. QED
    BY <1>1, <1>5, <2>1, <2>2
<1> HIDE DEF n
<1>7. usable = (pos + 1)..BLOCKS
  BY <1>3
<1>8. pos + 1 <= BLOCKS /\ Min(usable) = pos + 1
  <2>1. pos + 1 <= BLOCKS
    <3>1. PICK i : i \in (pos + 1)..BLOCKS
      BY <1>2, <1>7
    <3>2. QED
      BY <1>1, <1>5, <3>1
  <2>2. Min((pos + 1)..BLOCKS) = pos + 1
    <3> DEFINE a == pos + 1
    <3>1. a \in Int /\ BLOCKS \in Int /\ a <= BLOCKS
      BY <1>1, <1>5, <2>1
    <3> HIDE DEF a
    <3>2. Min(a..BLOCKS) = a
      BY <3>1, MinOfInterval
    <3>3. QED
      BY <3>2 DEF a
  <2>3. QED
    BY <1>7, <2>1, <2>2
<1>9. ASSUME NEW i \in (h + 1)..BLOCKS PROVE block(i) = i
  <2>1. block(i) = BlockFor(i, failed)
    BY DEF BlockFor, NotInFile
  <2>2. QED
    BY <1>3, <2>1, NextBlock
<1>10. ASSUME NEW i \in 1..BLOCKS PROVE data[i] = IF i <= h THEN i ELSE 0
  BY DEF FirstBlocks
<1> HIDE DEF block, usable
<1>11. ASSUME NEW i \in 1..BLOCKS PROVE new[i] = IF i <= g THEN i ELSE 0
  <2>1. new[i] = IF data[i] = 0 /\ i <= pos + 1 THEN block(i) ELSE data[i]
    BY <1>3, <1>8
  <2>2. CASE i <= h
    <3>1. i # 0 /\ i <= g
      BY <1>1, <1>5, <2>2
    <3>2. QED
      BY <1>10, <2>1, <2>2, <3>1
  <2>3. CASE ~(i <= h)
    <3>1. i \in (h + 1)..BLOCKS /\ data[i] = 0 /\ (i <= g <=> i <= pos + 1)
      BY <1>1, <1>5, <1>10, <2>3
    <3> HIDE DEF g, new
    <3>2. QED
      BY <1>9, <2>1, <3>1
  <2>4. QED
    BY <2>2, <2>3
<1>12. new = FirstBlocks(g)
  BY <1>11 DEF FirstBlocks
<1>13. new[Min(usable)] = pos + 1
  <2>1. pos + 1 \in 1..BLOCKS /\ pos + 1 <= g
    BY <1>1, <1>5, <1>8
  <2> HIDE DEF new, g
  <2>2. QED
    BY <1>8, <1>11, <2>1
<1>14. Max({Len(text), offset + n}) = IF Len(text) >= offset + n THEN Len(text) ELSE offset + n
  <2>1. Len(text) \in Int /\ offset + n \in Int
    BY <1>1, <1>4, <1>6
  <2>2. QED
    BY <2>1, MaxOfTwo
<1> HIDE DEF new, offset
<1>16. content' = [content EXCEPT ![pos + 1] =
                [k \in 0..(Width - 1) |-> IF k \in off..((off + n) - 1) THEN v ELSE @[k]]]
  <2>1. (off + n) - 1 = off + n - 1
    BY <1>1, <1>5, <1>6
  <2> DEFINE top == off + n - 1
  <2>2. content' = [content EXCEPT ![pos + 1] =
                [k \in 0..(Width - 1) |-> IF k \in off..top THEN v ELSE @[k]]]
    BY <1>2, <1>13
  <2> HIDE DEF top
  <2>3. (off + n) - 1 = top
    BY <2>1 DEF top
  <2>4. QED
    BY <2>2, <2>3
<1>17. data' = FirstBlocks(g)
  BY <1>2, <1>12
<1>18. text' = [k \in 1..(IF Len(text) >= offset + n THEN Len(text) ELSE offset + n) |->
                IF k \in (offset + 1)..(offset + n) THEN v ELSE IF k <= Len(text) THEN text[k] ELSE 0]
  BY <1>2, <1>14
<1>19. QED
  <2> HIDE DEF M
  <2>1. block_size' = Grown(offset + n) /\ fd' = [fd EXCEPT ![f].offset = offset + n] /\ NothingRead /\ UNCHANGED freed /\ offset + n <= MAX_LENGTH
    BY <1>2
  <2>2. Wrote(h, f, v, offset, pos, off, n)
    BY <1>16, <1>17, <1>18, <2>1 DEF g, Wrote
  <2>3. QED
    BY <1>4, <1>5, <1>6, <1>8, <2>1, <2>2 DEF M

\* initrd_write.
LEMMA WriteInv ==
  ASSUME FileInv, PlainUse, NEW f \in Fds, NEW size \in 1..MAX_SIZE, NEW v \in Bytes, NEW failed \in SUBSET (1..BLOCKS),
         initrd_write(f, size, v, failed)
  PROVE  FileInv'
<1> DEFINE M == MAX_DATAENTRIES
           L == Len(text)
<1>1. M \in Nat \ {0} /\ BLOCKS \in Nat \ {0} /\ MAX_LENGTH \in Nat \ {0} /\ Width \in Nat
      /\ ModuleBlock = BLOCKS + 1 /\ Width = MAX_LENGTH + M /\ L \in Nat /\ block_size = L
  BY InitrdConstants DEF Width, ModuleBlock, FileInv, InitrdTypeOK
<1>2. InBlocks
  <2>1. ~(data[1] = ModuleBlock)
    BY DEF initrd_write, PlainUse, IsModule
  <2>2. 1 \in 1..BLOCKS
    BY <1>1
  <2>3. QED
    BY <2>1, <2>2 DEF FileInv, InOneModule, InModule
<1>3. PICK h \in 0..BLOCKS :
        /\ data = FirstBlocks(h)
        /\ L <= M * h
        /\ L <= M => h <= 1 /\ \A e \in Fds : fd[e].offset <= L
        /\ \A i \in 1..BLOCKS, o \in 0..(M - 1) :
             content[i][o] = IF PlaceIn(i, o) <= L THEN text[PlaceIn(i, o)] ELSE 0
  BY <1>2 DEF InBlocks
<1>4. PICK offset \in Nat, pos \in Nat, off \in 0..(M - 1), n \in 1..M :
           /\ offset = (M * pos) + off /\ off + n <= M
           /\ pos + 1 <= BLOCKS /\ offset + n <= MAX_LENGTH
           /\ Wrote(h, f, v, offset, pos, off, n)
  <2>1. data = FirstBlocks(h)
    BY <1>3
  <2>2. QED
    BY <2>1, WriteParts
<1> DEFINE end == offset + n
           K == IF L >= end THEN L ELSE end
           g == IF h >= pos + 1 THEN h ELSE pos + 1
<1>5. end \in Nat /\ end >= 1 /\ K \in Nat /\ K >= end /\ K >= L /\ (K = L \/ K = end) /\ end <= MAX_LENGTH
  BY <1>1, <1>4
<1>6. g \in 0..BLOCKS /\ g \in Nat /\ h \in Nat /\ g >= h /\ g >= pos + 1 /\ (g = h \/ g = pos + 1)
  BY <1>1, <1>4
<1>7. M * pos \in Nat /\ end <= (M * pos) + M /\ end = (M * pos) + (off + n)
  BY <1>1, <1>4
<1>8. text \in Seq(Bytes \cup {0}) /\ \A k \in 1..L : text[k] \in Bytes \cup {0}
  BY DEF FileInv, InitrdTypeOK
<1>9. /\ text' \in Seq(Bytes \cup {0}) /\ Len(text') = K
      /\ \A k \in 1..K : text'[k] = IF k \in (offset + 1)..end THEN v ELSE IF k <= L THEN text[k] ELSE 0
  <2>1. text' = [k \in 1..K |->
                IF k \in (offset + 1)..end THEN v ELSE IF k <= L THEN text[k] ELSE 0]
    BY <1>4 DEF Wrote
  <2> HIDE DEF K, end
  <2>2. ASSUME NEW k \in 1..K
        PROVE  text'[k] = IF k \in (offset + 1)..end THEN v ELSE IF k <= L THEN text[k] ELSE 0
    BY <2>1
  <2>3. \A k \in 1..K : text'[k] \in Bytes \cup {0}
    BY <1>1, <1>5, <1>8, <2>2
  <2>4. text' \in [1..K -> Bytes \cup {0}]
    BY <2>1, <2>3
  <2>5. QED
    BY <1>5, <2>2, <2>4
<1>10. block_size' = K /\ K \in 0..MAX_LENGTH
  <2>1. block_size' = IF L < end THEN end ELSE L
    BY <1>1, <1>4 DEF Grown, Wrote
  <2>2. L <= MAX_LENGTH
    BY <1>1 DEF FileInv, InitrdTypeOK
  <2> HIDE DEF end, L
  <2>3. QED
    BY <1>1, <1>5, <2>1, <2>2
<1>11. data' = FirstBlocks(g) /\ freed' = freed /\ NothingRead
  BY <1>4 DEF Wrote
<1>12. data' \in [1..BLOCKS -> 0..ModuleBlock]
  <2> HIDE DEF g
  <2>1. QED
    BY <1>1, <1>6, <1>11 DEF FirstBlocks
<1>13. pos + 1 \in Blocks /\ pos + 1 \in 1..BLOCKS
  BY <1>1, <1>4 DEF Blocks
<1> DEFINE c == [k \in 0..(Width - 1) |-> IF k \in off..((off + n) - 1) THEN v ELSE content[pos + 1][k]]
<1>14. content' = [content EXCEPT ![pos + 1] = c] /\ content \in [Blocks -> [0..(Width - 1) -> Bytes \cup {0}]]
  BY <1>4 DEF Wrote, FileInv, InitrdTypeOK
<1>15. c \in [0..(Width - 1) -> Bytes \cup {0}]
  <2>1. content[pos + 1] \in [0..(Width - 1) -> Bytes \cup {0}]
    BY <1>13, <1>14
  <2>2. QED
    BY <2>1
<1>16. /\ content' \in [Blocks -> [0..(Width - 1) -> Bytes \cup {0}]] /\ content'[pos + 1] = c
       /\ \A i \in 1..BLOCKS : i # pos + 1 => content'[i] = content[i]
  <2>1. \A i \in 1..BLOCKS : i \in Blocks
    BY <1>1 DEF Blocks
  <2> HIDE DEF c
  <2>2. QED
    BY <1>13, <1>14, <1>15, <2>1
<1>17. end \in 0..Width
  BY <1>1, <1>5
<1>18. /\ fd' \in [Fds -> [access : {"NONE", "O_RDONLY", "O_WRONLY", "O_RDWR"},
                           append : BOOLEAN, offset : 0..Width]]
       /\ fd'[f].offset = end /\ \A e \in Fds : e # f => fd'[e] = fd[e]
  <2>1. fd' = [fd EXCEPT ![f].offset = end]
    BY <1>4 DEF Wrote
  <2> HIDE DEF end
  <2>2. QED
    BY <1>17, <2>1 DEF FileInv, InitrdTypeOK
<1>19. got' = <<>> /\ want' = <<>> /\ fault' = FALSE
  BY <1>11 DEF NothingRead
<1>20. InitrdTypeOK'
  <2>1. got' \in Seq(Bytes \cup {0, JUNK}) /\ want' \in Seq(Bytes \cup {0})
    BY <1>19
  <2>2. fault' \in BOOLEAN
    BY <1>19, Zenon
  <2>3. freed' \subseteq Blocks
    BY <1>11 DEF FileInv, InitrdTypeOK
  <2> HIDE DEF c, K, end, g
  <2>4. QED
    BY <1>9, <1>10, <1>12, <1>16, <1>18, <2>1, <2>2, <2>3 DEF InitrdTypeOK, JUNK, Blocks, Width, ModuleBlock
<1>21. K <= M * g
  <2>1. M * (pos + 1) = (M * pos) + M
    BY <1>1
  <2>2. M * (pos + 1) <= M * g
    <3>1. CASE pos + 1 < g
      <4> DEFINE q == pos + 1
      <4>1. q \in Nat /\ q < g
        BY <3>1
      <4> HIDE DEF q, g
      <4>2. (M * q) + M <= M * g /\ M * q \in Nat /\ M * g \in Nat
        BY <1>1, <1>6, <4>1, Multiples
      <4>3. M * q <= M * g
        BY <1>1, <4>2
      <4>4. QED
        BY <4>3 DEF q
    <3>2. CASE pos + 1 = g
      <4> HIDE DEF g
      <4>1. M * g \in Nat
        BY <1>1, <1>6
      <4>2. QED
        BY <3>2, <4>1
    <3>3. QED
      BY <1>6, <3>1, <3>2
  <2>3. M * h <= M * g
    <3> HIDE DEF g
    <3>1. CASE h < g
      <4>1. (M * h) + M <= M * g /\ M * h \in Nat /\ M * g \in Nat
        BY <1>1, <1>6, <3>1, Multiples
      <4>2. QED
        BY <1>1, <4>1
    <3>2. CASE h = g
      <4>1. M * g \in Nat
        BY <1>1, <1>6
      <4>2. QED
        BY <3>2, <4>1
    <3>3. QED
      BY <1>6, <3>1, <3>2
  <2>4. M * g \in Nat /\ M * h \in Nat
    BY <1>1, <1>6
  <2> DEFINE Mg == M * g
             Mh == M * h
             Mp == M * pos
  <2>5. L <= Mh /\ Mh <= Mg /\ Mp + M <= Mg /\ Mg \in Nat /\ Mh \in Nat /\ Mp \in Nat /\ end <= Mp + M
    BY <1>3, <1>7, <2>1, <2>2, <2>3, <2>4
  <2> HIDE DEF Mg, Mh, Mp, K, end, L
  <2>6. K <= Mg
    BY <1>1, <1>5, <2>5
  <2>7. QED
    BY <2>6 DEF Mg
<1>22. ASSUME K <= M PROVE g <= 1 /\ L <= M
  <2>1. pos = 0
    <3> SUFFICES ASSUME pos > 0 PROVE FALSE
      BY <1>4
    <3>1. (M * 0) + M <= M * pos
      BY <1>1, <1>4, Multiples
    <3>2. M * 0 = 0
      BY <1>1
    <3> DEFINE Mp == M * pos
    <3>3. M <= Mp /\ Mp \in Nat /\ end = Mp + (off + n)
      BY <1>1, <1>7, <3>1, <3>2
    <3> HIDE DEF Mp, end, K
    <3>4. QED
      BY <1>1, <1>4, <1>5, <1>22, <3>3
  <2>2. L <= M
    BY <1>1, <1>5, <1>22
  <2>3. h <= 1
    BY <1>3, <2>2
  <2>4. QED
    BY <2>1, <2>2, <2>3
<1>23. \A e \in Fds : fd'[e].offset <= K \/ fd'[e].offset = fd[e].offset
  <2> HIDE DEF K, end
  <2>1. QED
    BY <1>5, <1>18
<1>24. K <= M => g <= 1 /\ \A e \in Fds : fd'[e].offset <= K
  <2> SUFFICES ASSUME K <= M, NEW e \in Fds PROVE fd'[e].offset <= K
    BY <1>22
  <2>1. fd[e].offset <= L /\ fd[e].offset \in Nat
    BY <1>1, <1>3, <1>22 DEF FileInv, InitrdTypeOK
  <2> HIDE DEF K, end, L
  <2>2. QED
    BY <1>1, <1>5, <1>23, <2>1
<1>25. ASSUME NEW i \in 1..BLOCKS, NEW o \in 0..(M - 1)
       PROVE  content'[i][o] = IF PlaceIn(i, o) <= K THEN text'[PlaceIn(i, o)] ELSE 0
  <2> DEFINE p == PlaceIn(i, o)
  <2>1. o \in 0..(Width - 1) /\ i - 1 \in Nat
    BY <1>1
  <2>2. M * (i - 1) \in Nat /\ p = ((M * (i - 1)) + o) + 1 /\ p \in Nat /\ p >= 1
    BY <1>1, <2>1 DEF PlaceIn
  <2>3. content[i][o] = IF p <= L THEN text[p] ELSE 0
    BY <1>3
  <2>4. content'[i][o] = IF p \in (offset + 1)..end THEN v ELSE content[i][o]
    <3>1. CASE i = pos + 1
      <4>1. i - 1 = pos
        BY <1>4, <3>1
      <4>2. p = ((M * pos) + o) + 1
        BY <2>2, <4>1
      <4> DEFINE Mp == M * pos
      <4>3. Mp \in Nat /\ offset = Mp + off /\ p = (Mp + o) + 1 /\ end = Mp + (off + n)
        BY <1>4, <1>7, <4>2
      <4> HIDE DEF Mp, p, end
      <4>4. p \in (offset + 1)..end <=> o \in off..((off + n) - 1)
        BY <1>1, <1>4, <4>3
      <4>5. content'[i][o] = IF o \in off..((off + n) - 1) THEN v ELSE content[i][o]
        BY <1>16, <2>1, <3>1
      <4>6. QED
        BY <4>4, <4>5
    <3>2. CASE i # pos + 1
      <4> DEFINE Mp == M * pos
                 j == i - 1
                 Mj == M * j
      <4>1. j \in Nat /\ j # pos /\ Mj \in Nat /\ p = (Mj + o) + 1 /\ Mp \in Nat /\ offset = Mp + off /\ end = Mp + (off + n)
        BY <1>1, <1>4, <1>7, <2>1, <2>2, <3>2
      <4>2. j < pos \/ pos < j
        <5> HIDE DEF j
        <5>1. QED
          BY <1>4, <4>1
      <4>3. j < pos => Mj + M <= Mp
        <5>1. j \in Nat
          BY <2>1
        <5> HIDE DEF j
        <5>2. QED
          BY <1>1, <1>4, <5>1, Multiples
      <4>4. pos < j => Mp + M <= Mj
        <5>1. j \in Nat
          BY <2>1
        <5> HIDE DEF j
        <5>2. QED
          BY <1>1, <1>4, <5>1, Multiples
      <4> HIDE DEF Mp, Mj, p, end, j
      <4>5. p \notin (offset + 1)..end
        BY <1>1, <1>4, <4>1, <4>2, <4>3, <4>4
      <4>6. content'[i] = content[i]
        BY <1>16, <3>2
      <4>7. QED
        BY <4>5, <4>6
    <3>3. QED
      BY <3>1, <3>2
  <2> HIDE DEF p, K, end, L
  <2>5. CASE p \in (offset + 1)..end
    <3>1. p \in 1..K /\ p <= K
      BY <1>4, <1>5, <2>2, <2>5
    <3>2. QED
      BY <1>9, <2>4, <2>5, <3>1 DEF p
  <2>6. CASE p \notin (offset + 1)..end /\ p <= K
    <3>1. p \in 1..K
      BY <1>5, <2>2, <2>6
    <3>2. text'[p] = IF p <= L THEN text[p] ELSE 0
      BY <1>9, <2>6, <3>1
    <3>3. QED
      BY <2>3, <2>4, <2>6, <3>2 DEF p
  <2>7. CASE p \notin (offset + 1)..end /\ ~(p <= K)
    <3>1. ~(p <= L)
      BY <1>1, <1>5, <2>2, <2>7
    <3>2. QED
      BY <2>3, <2>4, <2>7, <3>1 DEF p
  <2>8. QED
    BY <2>5, <2>6, <2>7
<1>26. InBlocks'
  <2> HIDE DEF K, g, end
  <2>1. QED
    BY <1>6, <1>9, <1>11, <1>21, <1>24, <1>25 DEF InBlocks
<1>27. \A e \in Fds : fd'[e].offset > 0 => Len(text') > 0
  BY <1>5, <1>9
<1>28. ReadRightInOnePiece'
  BY <1>19 DEF ReadRightInOnePiece, ReadRight
<1>29. QED
  BY <1>9, <1>10, <1>19, <1>20, <1>26, <1>27, <1>28 DEF FileInv

\* A part of a sequence.
LEMMA PartOf ==
  ASSUME NEW S, NEW s \in Seq(S), NEW a \in Nat, NEW b \in Nat, b <= Len(s)
  PROVE  /\ SubSeq(s, a + 1, b) \in Seq(S)
         /\ a >= b => SubSeq(s, a + 1, b) = <<>>
         /\ a < b => /\ Len(SubSeq(s, a + 1, b)) = b - a
                     /\ \A k \in 1..(b - a) : SubSeq(s, a + 1, b)[k] = s[a + k]
<1>1. CASE a < b
  <2>1. SubSeq(s, a + 1, b) \in Seq(S) /\ Len(SubSeq(s, a + 1, b)) = b - a
    BY <1>1
  <2>2. ASSUME NEW k \in 1..(b - a) PROVE SubSeq(s, a + 1, b)[k] = s[a + k]
    BY <1>1
  <2>3. QED
    BY <1>1, <2>1, <2>2
<1>2. CASE ~(a < b)
  BY <1>2
<1>3. QED
  BY <1>1, <1>2

\* The smallest member of a nonempty set of numbers is one.
LEMMA MinIsMember ==
  ASSUME NEW T, T \subseteq Nat, T # {}
  PROVE  Min(T) \in T
<1>1. PICK k \in T : TRUE
  OBVIOUS
<1>2. PICK x \in T : \A y \in T : ~(y < x)
  BY <1>1, Smallest
<1>3. \A y \in T : x <= y
  BY <1>2
<1>4. QED
  BY <1>3 DEF Min

\* A remainder or a quotient of a number that is not larger.
LEMMA DivSmall ==
  ASSUME NEW S \in Nat \ {0}, NEW x \in Nat, x <= S
  PROVE  /\ x < S => x \div S = 0 /\ x % S = x
         /\ x = S => x \div S = 1 /\ x % S = 0
<1>1. x = S * (x \div S) + (x % S) /\ x % S \in 0..(S - 1) /\ x \div S \in Nat
  BY DivMod
<1> DEFINE q == x \div S
           r == x % S
<1>2. x = S * q + r /\ r \in 0..(S - 1) /\ q \in Nat
  BY <1>1
<1> HIDE DEF q, r
<1>3. q = 0 => x = r
  BY <1>2
<1>4. q = 1 => x = S + r
  BY <1>2
<1>5. q > 0 => S <= S * q /\ S * q \in Nat
  <2>1. q > 0 => (S * 0) + S <= S * q /\ S * q \in Nat
    BY <1>2, Multiples
  <2>2. S * 0 = 0
    OBVIOUS
  <2>3. QED
    BY <2>1, <2>2
<1>6. q > 1 => S + S <= S * q /\ S * q \in Nat
  <2>1. q > 1 => (S * 1) + S <= S * q /\ S * q \in Nat
    BY <1>2, Multiples
  <2>2. S * 1 = S
    OBVIOUS
  <2>3. QED
    BY <2>1, <2>2
<1> DEFINE Sq == S * q
<1>7. x = Sq + r /\ (q > 0 => S <= Sq /\ Sq \in Nat) /\ (q > 1 => S + S <= Sq /\ Sq \in Nat)
  BY <1>2, <1>5, <1>6
<1> HIDE DEF Sq
<1>8. x < S => q = 0
  BY <1>2, <1>7
<1>9. x = S => q = 1 /\ r = 0
  BY <1>2, <1>3, <1>4, <1>7
<1>10. QED
  BY <1>3, <1>8, <1>9 DEF q, r

\* initrd_read.
LEMMA ReadInv ==
  ASSUME FileInv, NEW f \in Fds, NEW size \in 1..MAX_SIZE, initrd_read(f, size)
  PROVE  FileInv'
<1> DEFINE M == MAX_DATAENTRIES
           L == block_size
           offset == fd[f].offset
           zero == Divides(offset) /\ L = 0
           pos == IF offset = 0 THEN 0 ELSE offset \div L
           off == IF offset = 0 THEN 0 ELSE offset % L
           found == {i \in 1..BLOCKS : data[i] # 0 /\ Cardinality({k \in 1..i : data[k] # 0}) > pos}
           n == IF zero \/ found = {} THEN 0 ELSE Copies(off, size)
           end == Min({offset + size, Len(text)})
<1>1. /\ M \in Nat \ {0} /\ BLOCKS \in Nat \ {0} /\ MAX_LENGTH \in Nat \ {0} /\ MAX_SIZE \in Nat \ {0}
      /\ ModuleBlock = BLOCKS + 1 /\ Width = MAX_LENGTH + M
  BY InitrdConstants DEF Width, ModuleBlock
<1>2. L \in Nat /\ L = Len(text) /\ L <= MAX_LENGTH /\ text \in Seq(Bytes \cup {0}) /\ size \in Nat /\ size >= 1
  BY <1>1 DEF FileInv, InitrdTypeOK
<1>3. offset \in Nat /\ (offset > 0 => L > 0)
  BY <1>1, <1>2 DEF FileInv, InitrdTypeOK
<1>4. /\ offset + n <= Width
      /\ got' = [k \in 1..n |-> ByteAt(data[Min(found)], off + k - 1)]
      /\ want' = SubSeq(text, offset + 1, end)
      /\ fault' = zero
      /\ fd' = [fd EXCEPT ![f].offset = @ + n]
      /\ UNCHANGED <<data, content, freed, block_size, text>>
  BY DEF initrd_read
<1>5. ~zero
  BY <1>3 DEF Divides
<1>6. pos \in Nat /\ off \in Nat /\ (off < L \/ (off = 0 /\ L = 0)) /\ (offset <= L => (offset < L => pos = 0 /\ off = offset) /\ (offset = L /\ L > 0 => pos = 1))
  <2>1. CASE offset = 0
    <3>1. pos = 0 /\ off = 0
      BY <2>1
    <3> HIDE DEF L, offset, pos, off
    <3>2. QED
      BY <1>2, <2>1, <3>1
  <2>2. CASE offset # 0
    <3>1. L \in Nat \ {0} /\ pos = offset \div L /\ off = offset % L
      BY <1>2, <1>3, <2>2
    <3> HIDE DEF L, offset, pos, off
    <3>2. pos \in Nat /\ off \in 0..(L - 1)
      BY <1>3, <3>1, DivMod
    <3>3. offset <= L => (offset < L => pos = 0 /\ off = offset) /\ (offset = L => pos = 1)
      BY <1>3, <3>1, DivSmall
    <3>4. QED
      BY <1>2, <3>2, <3>3
  <2>3. QED
    BY <2>1, <2>2
<1>7. n \in Nat /\ off + n <= L /\ (found # {} => n = IF off + size >= L THEN L - off ELSE size) /\ (found = {} => n = 0)
  <2>1. found # {} => n = IF off + size >= L THEN L - off ELSE size
    BY <1>5 DEF Copies
  <2>2. found = {} => n = 0
    OBVIOUS
  <2> HIDE DEF n, off, found, L
  <2>3. QED
    BY <1>2, <1>6, <2>1, <2>2
<1> HIDE DEF off, pos, n
<1>8. end \in Nat /\ end = IF offset + size <= L THEN offset + size ELSE L
  <2>1. offset + size \in Int /\ Len(text) \in Int
    BY <1>2, <1>3
  <2>2. end = IF offset + size <= Len(text) THEN offset + size ELSE Len(text)
    BY <2>1, MinOfTwo
  <2> HIDE DEF end, offset
  <2>3. QED
    BY <1>2, <1>3, <2>2
<1> HIDE DEF end
<1>9. want' \in Seq(Bytes \cup {0})
  <2>1. end <= Len(text)
    BY <1>2, <1>3, <1>8
  <2>2. SubSeq(text, offset + 1, end) \in Seq(Bytes \cup {0})
    <3> HIDE DEF offset
    <3>1. QED
      BY <1>2, <1>3, <1>8, <2>1, PartOf
  <2>3. QED
    BY <1>4, <2>2
<1>10. n > 0 => Min(found) \in 1..BLOCKS /\ data[Min(found)] \in Blocks
  <2> SUFFICES ASSUME n > 0 PROVE Min(found) \in 1..BLOCKS /\ data[Min(found)] \in Blocks
    OBVIOUS
  <2>1. found \subseteq Nat
    BY <1>1
  <2>2. found # {}
    <3> HIDE DEF found
    <3>1. QED
      BY <1>7
  <2>3. Min(found) \in found
    <3> HIDE DEF found
    <3>1. QED
      BY <2>1, <2>2, MinIsMember
  <2>4. Min(found) \in 1..BLOCKS /\ data[Min(found)] # 0
    BY <2>3
  <2>5. data \in [1..BLOCKS -> 0..ModuleBlock]
    BY DEF FileInv, InitrdTypeOK
  <2> DEFINE i == Min(found)
  <2> HIDE DEF i
  <2>6. data[i] \in Blocks
    BY <1>1, <2>4, <2>5 DEF i, Blocks
  <2>7. QED
    BY <2>4, <2>6 DEF i
<1> HIDE DEF found
<1>11. ASSUME NEW b \in Blocks, NEW o \in 0..(L - 1)
       PROVE  ByteAt(b, o) \in Bytes \cup {0, JUNK}
  <2>1. o \in 0..(Width - 1)
    BY <1>1, <1>2
  <2>2. content[b][o] \in Bytes \cup {0}
    <3>1. content[b] \in [0..(Width - 1) -> Bytes \cup {0}]
      BY DEF FileInv, InitrdTypeOK
    <3>2. QED
      BY <2>1, <3>1
  <2>3. QED
    BY <2>2 DEF ByteAt
<1>12. got' \in Seq(Bytes \cup {0, JUNK}) /\ Len(got') = n /\ \A k \in 1..n : got'[k] = ByteAt(data[Min(found)], off + (k - 1))
  <2> DEFINE b == data[Min(found)]
  <2>1. got' = [k \in 1..n |-> ByteAt(b, off + k - 1)]
    BY <1>4
  <2>2. ASSUME NEW k \in 1..n PROVE off + k - 1 \in 0..(L - 1) /\ off + k - 1 = off + (k - 1)
    BY <1>2, <1>6, <1>7
  <2>3. ASSUME NEW k \in 1..n PROVE b \in Blocks
    BY <1>7, <1>10
  <2> HIDE DEF b
  <2>4. \A k \in 1..n : ByteAt(b, off + k - 1) \in Bytes \cup {0, JUNK}
    BY <1>11, <2>2, <2>3
  <2>5. got' \in [1..n -> Bytes \cup {0, JUNK}]
    BY <2>1, <2>4
  <2>6. \A k \in 1..n : got'[k] = ByteAt(b, off + (k - 1))
    BY <2>1, <2>2
  <2>7. QED
    BY <1>7, <2>5, <2>6 DEF b
<1>13. offset + n \in 0..Width
  BY <1>1, <1>3, <1>4, <1>7
<1>14. /\ fd' \in [Fds -> [access : {"NONE", "O_RDONLY", "O_WRONLY", "O_RDWR"},
                           append : BOOLEAN, offset : 0..Width]]
       /\ fd'[f].offset = offset + n /\ \A e \in Fds : e # f => fd'[e] = fd[e]
  BY <1>4, <1>13 DEF FileInv, InitrdTypeOK
<1>15. ~fault'
  BY <1>4, <1>5
<1>16. InitrdTypeOK'
  <2>1. fault' \in BOOLEAN
    BY <1>4, <1>5, Zenon
  <2>2. QED
    BY <1>4, <1>9, <1>12, <1>14, <2>1 DEF FileInv, InitrdTypeOK, JUNK, Blocks, Width, ModuleBlock
<1>17. \A e \in Fds : fd'[e].offset > 0 => Len(text') > 0
  <2>1. text' = text
    BY <1>4
  <2>2. offset + n > 0 => L > 0
    <3> HIDE DEF L, offset
    <3>1. QED
      BY <1>2, <1>3, <1>6, <1>7
  <2>3. \A e \in Fds : fd[e].offset > 0 => Len(text) > 0
    BY DEF FileInv
  <2>4. QED
    BY <1>2, <1>14, <2>1, <2>2, <2>3
\* Files in one piece.
<1>18. ASSUME /\ \A i \in 1..BLOCKS : data[i] # 0 => i = 1
              /\ L > 0 => data[1] # 0
              /\ \A e \in Fds : fd[e].offset <= L
              /\ \A k \in 1..L : ByteAt(data[1], k - 1) = text[k]
       PROVE  ReadRight' /\ \A e \in Fds : fd'[e].offset <= L
  <2>1. offset <= L
    BY <1>18
  <2>2. ASSUME NEW i \in 1..BLOCKS, data[i] # 0 PROVE i = 1 /\ Cardinality({k \in 1..i : data[k] # 0}) = 1
    <3>1. i = 1
      BY <1>18, <2>2
    <3>2. {k \in 1..1 : data[k] # 0} = {1}
      BY <2>2, <3>1
    <3>3. Cardinality({1}) = 1
      BY FS_Singleton
    <3>4. QED
      BY <3>1, <3>2, <3>3
  <2>3. CASE offset < L
    <3>1. pos = 0 /\ off = offset
      BY <1>6, <2>1, <2>3
    <3>2. found = {1}
      <4>1. 1 \in 1..BLOCKS /\ data[1] # 0
        BY <1>1, <1>2, <1>3, <1>18, <2>3
      <4>2. Cardinality({k \in 1..1 : data[k] # 0}) = 1
        BY <2>2, <4>1
      <4>3. \A i : i \in found <=> i = 1
        BY <2>2, <3>1, <4>1, <4>2 DEF found
      <4>4. QED
        BY <4>3
    <3>3. Min(found) = 1
      <4>1. Min(found) \in found
        BY <3>2, MinIsMember
      <4>2. QED
        BY <3>2, <4>1
    <3>4. n = end - offset /\ end <= L /\ offset < end
      <4> HIDE DEF L, offset
      <4>1. QED
        BY <1>2, <1>3, <1>7, <1>8, <2>3, <3>1, <3>2
    <3>5. /\ want' \in Seq(Bytes \cup {0}) /\ Len(want') = n
          /\ \A k \in 1..n : want'[k] = text[offset + k]
      <4>1. want' = SubSeq(text, offset + 1, end)
        BY <1>4
      <4> HIDE DEF L, offset
      <4>2. end <= Len(text)
        BY <1>2, <3>4
      <4>3. /\ Len(SubSeq(text, offset + 1, end)) = end - offset
            /\ \A k \in 1..(end - offset) : SubSeq(text, offset + 1, end)[k] = text[offset + k]
        BY <1>2, <1>3, <1>8, <3>4, <4>2, PartOf
      <4>4. QED
        BY <1>9, <3>4, <4>1, <4>3
    <3>6. ASSUME NEW k \in 1..n PROVE got'[k] = text[offset + k]
      <4> DEFINE p == offset + k
      <4>1. p \in 1..L /\ off + (k - 1) = p - 1
        BY <1>2, <1>3, <1>7, <3>1, <3>4
      <4>2. got'[k] = ByteAt(data[1], off + (k - 1))
        BY <1>12, <3>3
      <4> HIDE DEF p
      <4>3. got'[k] = ByteAt(data[1], p - 1)
        BY <4>1, <4>2
      <4>4. got'[k] = text[p]
        BY <1>18, <4>1, <4>3
      <4>5. QED
        BY <4>4 DEF p
    <3>7. got' = want'
      <4>1. \A k \in 1..n : got'[k] = want'[k]
        BY <3>5, <3>6
      <4>2. QED
        BY <1>12, <3>5, <4>1
    <3>8. ReadRight'
      <4>1. Len(want') \in Nat /\ SubSeq(want', 1, Len(want')) = want'
        BY <3>5
      <4>2. QED
        BY <3>7, <4>1 DEF ReadRight
    <3>9. offset + n <= L
      BY <1>2, <1>3, <1>8, <3>4
    <3>10. QED
      BY <1>14, <1>18, <3>8, <3>9
  <2>4. CASE offset = L
    <3>1. n = 0
      <4>1. CASE L = 0
        BY <1>2, <1>6, <1>7, <4>1
      <4>2. CASE L > 0
        <5>1. pos = 1
          BY <1>6, <2>1, <2>4, <4>2
        <5>2. found = {}
          BY <2>2, <5>1 DEF found
        <5>3. QED
          BY <1>7, <5>2
      <4>3. QED
        BY <1>2, <4>1, <4>2
    <3>2. got' = <<>>
      BY <1>12, <3>1
    <3>3. end = L
      BY <1>2, <1>8, <2>4
    <3>4. want' = <<>>
      <4>1. SubSeq(text, offset + 1, end) = <<>>
        <5>1. offset \in Nat /\ end \in Nat /\ end <= Len(text) /\ offset >= end
          BY <1>2, <1>3, <1>8, <2>4, <3>3
        <5> HIDE DEF offset, L
        <5>2. QED
          BY <1>2, <5>1, PartOf
      <4>2. QED
        BY <1>4, <4>1
    <3>5. ReadRight'
      BY <3>2, <3>4 DEF ReadRight
    <3>6. offset + n <= L
      BY <1>2, <2>4, <3>1
    <3>7. QED
      BY <1>14, <1>18, <3>5, <3>6
  <2>5. QED
    BY <1>2, <1>3, <2>1, <2>3, <2>4
<1>19. CASE InOneModule
  <2>1. data = InModule /\ 1 \in 1..BLOCKS /\ ModuleBlock # 0
    BY <1>1, <1>19 DEF InOneModule
  <2>2. data[1] = ModuleBlock /\ \A i \in 1..BLOCKS : data[i] # 0 => i = 1
    BY <2>1 DEF InModule
  <2>3. \A k \in 1..L : ByteAt(data[1], k - 1) = text[k]
    BY <1>2, <1>19, <2>2 DEF InOneModule, ByteAt
  <2>4. ReadRight' /\ \A e \in Fds : fd'[e].offset <= L
    BY <1>2, <1>18, <1>19, <2>1, <2>2, <2>3 DEF InOneModule
  <2>5. InOneModule'
    BY <1>2, <1>4, <1>19, <2>4 DEF InOneModule, InModule, ModuleBlock
  <2>6. ReadRightInOnePiece'
    BY <2>4 DEF ReadRightInOnePiece
  <2>7. QED
    BY <1>2, <1>4, <1>15, <1>16, <1>17, <2>5, <2>6 DEF FileInv
<1>20. CASE InBlocks
  <2>1. PICK h \in 0..BLOCKS :
          /\ data = FirstBlocks(h)
          /\ L <= M * h
          /\ L <= M => h <= 1 /\ \A e \in Fds : fd[e].offset <= L
          /\ \A i \in 1..BLOCKS, o \in 0..(M - 1) :
               content[i][o] = IF PlaceIn(i, o) <= L THEN text[PlaceIn(i, o)] ELSE 0
    BY <1>2, <1>20 DEF InBlocks
  <2>2. ASSUME NEW i \in 1..BLOCKS PROVE data[i] = IF i <= h THEN i ELSE 0
    BY <2>1 DEF FirstBlocks
  <2>3. ASSUME L <= M PROVE ReadRight' /\ \A e \in Fds : fd'[e].offset <= L
    <3>1. h = 0 \/ h = 1
      BY <1>1, <2>1, <2>3
    <3>2. \A i \in 1..BLOCKS : data[i] # 0 => i = 1
      BY <1>1, <2>2, <3>1
    <3>3. L > 0 => data[1] = 1
      <4>1. M * 0 = 0 /\ 1 \in 1..BLOCKS
        BY <1>1
      <4>2. L > 0 => h = 1
        BY <1>2, <2>1, <3>1, <4>1
      <4>3. QED
        BY <2>2, <4>1, <4>2
    <3>4. ASSUME NEW k \in 1..L PROVE ByteAt(data[1], k - 1) = text[k]
      <4>1. k - 1 \in 0..(M - 1) /\ 1 \in 1..BLOCKS /\ L > 0 /\ 1 # ModuleBlock /\ ~(k - 1 >= M)
        BY <1>1, <1>2, <2>3
      <4>2. M * 0 = 0 /\ PlaceIn(1, k - 1) = k
        <5>1. M * (1 - 1) = 0 /\ M * 0 = 0
          BY <1>1
        <5>2. QED
          BY <1>2, <5>1 DEF PlaceIn
      <4>3. content[1][k - 1] = text[k]
        BY <1>2, <2>1, <4>1, <4>2
      <4>4. QED
        BY <3>3, <4>1, <4>3 DEF ByteAt
    <3>5. QED
      BY <1>18, <2>1, <2>3, <3>2, <3>3, <3>4
  <2>4. InBlocks'
    <3>1. /\ data' = FirstBlocks(h) /\ Len(text') <= M * h
          /\ Len(text') <= M => h <= 1 /\ \A e \in Fds : fd'[e].offset <= Len(text')
          /\ \A i \in 1..BLOCKS, o \in 0..(M - 1) :
               content'[i][o] = IF PlaceIn(i, o) <= Len(text') THEN text'[PlaceIn(i, o)] ELSE 0
      BY <1>2, <1>4, <2>1, <2>3
    <3>2. QED
      BY <3>1 DEF InBlocks
  <2>5. ReadRightInOnePiece'
    <3>1. ~IsModule'
      <4>1. 1 \in 1..BLOCKS /\ 1 # ModuleBlock /\ 0 # ModuleBlock
        BY <1>1
      <4>2. data'[1] # ModuleBlock
        BY <1>4, <2>2, <4>1
      <4>3. QED
        BY <4>2 DEF IsModule, ModuleBlock
    <3>2. Len(text') <= M => ReadRight'
      BY <1>2, <1>4, <2>3
    <3>3. QED
      BY <3>1, <3>2 DEF ReadRightInOnePiece
  <2>6. QED
    BY <1>2, <1>4, <1>15, <1>16, <1>17, <2>4, <2>5 DEF FileInv
<1>21. QED
  BY <1>19, <1>20 DEF FileInv

\* The invariant gives what the file promises.
LEMMA FileInvMeans == FileInv => FileRight
<1> SUFFICES ASSUME FileInv PROVE FileRight
  OBVIOUS
<1> DEFINE M == MAX_DATAENTRIES
           L == Len(text)
<1>1. M \in Nat \ {0} /\ BLOCKS \in Nat \ {0} /\ L \in Nat /\ ModuleBlock = BLOCKS + 1
  BY InitrdConstants DEF FileInv, InitrdTypeOK, ModuleBlock
<1>2. ASSUME ~IsModule, NEW k \in 1..L
      PROVE  /\ data[((k - 1) \div M) + 1] # 0
             /\ content[data[((k - 1) \div M) + 1]][(k - 1) % M] = text[k]
  <2>1. InBlocks
    <3>1. InOneModule => IsModule
      BY <1>1 DEF InOneModule, InModule, IsModule
    <3>2. QED
      BY <1>2, <3>1 DEF FileInv
  <2>2. PICK h \in 0..BLOCKS :
          /\ data = FirstBlocks(h)
          /\ L <= M * h
          /\ \A i \in 1..BLOCKS, o \in 0..(M - 1) :
               content[i][o] = IF PlaceIn(i, o) <= L THEN text[PlaceIn(i, o)] ELSE 0
    BY <2>1 DEF InBlocks
  <2> DEFINE x == k - 1
             q == x \div M
             r == x % M
             i == q + 1
  <2>3. x \in Nat /\ x < L /\ k = x + 1
    BY <1>1
  <2>4. x = (M * q) + r /\ r \in 0..(M - 1) /\ q \in Nat
    <3> HIDE DEF x, M
    <3>1. QED
      BY <1>1, <2>3, DivMod
  <2> HIDE DEF q, r
  <2>5. q < h
    <3> SUFFICES ASSUME ~(q < h) PROVE FALSE
      OBVIOUS
    <3>1. h \in Nat
      BY <1>1
    <3>2. M * h <= M * q /\ M * q \in Nat /\ M * h \in Nat
      <4>1. CASE h < q
        <5>1. (M * h) + M <= M * q /\ M * h \in Nat /\ M * q \in Nat
          BY <1>1, <2>4, <3>1, <4>1, Multiples
        <5>2. QED
          BY <1>1, <5>1
      <4>2. CASE h = q
        <5>1. M * q \in Nat
          BY <1>1, <2>4
        <5>2. QED
          BY <4>2, <5>1
      <4>3. QED
        BY <2>4, <3>1, <4>1, <4>2
    <3> DEFINE Mq == M * q
               Mh == M * h
    <3>3. Mh <= Mq /\ Mq \in Nat /\ Mh \in Nat /\ x = Mq + r /\ L <= Mh
      BY <2>2, <2>4, <3>2
    <3> HIDE DEF Mq, Mh, x, L
    <3>4. QED
      BY <1>1, <2>3, <2>4, <3>3
  <2>6. i \in 1..BLOCKS /\ i <= h /\ i - 1 = q
    BY <1>1, <2>4, <2>5
  <2> HIDE DEF i
  <2>7. data[i] = i /\ i # 0
    BY <2>2, <2>6 DEF FirstBlocks
  <2>8. PlaceIn(i, r) = k
    <3>1. PlaceIn(i, r) = ((M * q) + r) + 1
      BY <2>6 DEF PlaceIn
    <3>2. QED
      BY <2>3, <2>4, <3>1
  <2>9. content[i][r] = text[k]
    BY <1>1, <2>2, <2>4, <2>6, <2>8
  <2>10. QED
    BY <2>7, <2>9 DEF i, q, r
<1>3. Stored
  BY <1>2 DEF Stored, FileInv
<1>4. QED
  BY <1>3 DEF FileInv, FileRight, NoFault

\* Reads of files in one piece are right, and the bytes of every file are where a write
\* would put them, for the uses of a file that the code gets right: without O_TRUNC,
\* with kmalloc succeeding, and without writing to a module.
THEOREM InitrdCorrect == PlainUse => (InitrdSpec => []FileRight)
<1> SUFFICES ASSUME PlainUse PROVE InitrdSpec => []FileRight
  OBVIOUS
<1>1. InitrdInit => FileInv
  BY FileInitial
<1>2. FileInv /\ [InitrdNext]_initrdVars => FileInv'
  <2> SUFFICES ASSUME FileInv, [InitrdNext]_initrdVars PROVE FileInv'
    OBVIOUS
  <2>1. CASE InitrdNext
    <3> SUFFICES ASSUME NEW f \in Fds,
                   \/ \E a \in {"O_RDONLY", "O_WRONLY", "O_RDWR"}, app, trunc \in BOOLEAN :
                        initrd_open(f, a, app, trunc)
                   \/ close_fs(f)
                   \/ \E o \in 0..MAX_LENGTH : seek(f, o)
                   \/ \E n \in 1..MAX_SIZE : initrd_read(f, n)
                   \/ \E n \in 1..MAX_SIZE, v \in Bytes, failed \in SUBSET (1..BLOCKS) :
                        initrd_write(f, n, v, failed)
                 PROVE  FileInv'
      BY <2>1 DEF InitrdNext
    <3>1. CASE \E a \in {"O_RDONLY", "O_WRONLY", "O_RDWR"}, app, trunc \in BOOLEAN :
                 initrd_open(f, a, app, trunc)
      BY <3>1, OpenFileInv
    <3>2. CASE close_fs(f)
      BY <3>2, CloseFileInv
    <3>3. CASE \E o \in 0..MAX_LENGTH : seek(f, o)
      BY <3>3, SeekInv
    <3>4. CASE \E n \in 1..MAX_SIZE : initrd_read(f, n)
      BY <3>4, ReadInv
    <3>5. CASE \E n \in 1..MAX_SIZE, v \in Bytes, failed \in SUBSET (1..BLOCKS) :
                 initrd_write(f, n, v, failed)
      BY <3>5, WriteInv
    <3>6. QED
      BY <3>1, <3>2, <3>3, <3>4, <3>5
  <2>2. CASE UNCHANGED initrdVars
    <3>1. /\ data' = data /\ content' = content /\ freed' = freed /\ block_size' = block_size
          /\ fd' = fd /\ text' = text /\ got' = got /\ want' = want /\ fault' = fault
      BY <2>2 DEF initrdVars
    <3>2. InitrdTypeOK'
      BY <3>1 DEF FileInv, InitrdTypeOK, JUNK, Blocks, Width, ModuleBlock
    <3>3. ReadRightInOnePiece'
      BY <3>1 DEF FileInv, ReadRightInOnePiece, ReadRight, IsModule, ModuleBlock
    <3>4. InBlocks' \/ InOneModule'
      BY <3>1 DEF FileInv, InBlocks, InOneModule, FirstBlocks, InModule, PlaceIn, ModuleBlock
    <3>5. QED
      BY <3>1, <3>2, <3>3, <3>4 DEF FileInv
  <2>3. QED
    BY <2>1, <2>2
<1>3. FileInv => FileRight
  BY FileInvMeans
<1>4. QED
  BY <1>1, <1>2, <1>3, PTL DEF InitrdSpec
=============================================================================
