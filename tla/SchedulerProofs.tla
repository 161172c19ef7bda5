--------------------------- MODULE SchedulerProofs ---------------------------
(***************************************************************************)
(* Proofs that the ready queues of kernel/tasks.c stay well formed, for    *)
(* every size of the task table and every number of priorities.            *)
(***************************************************************************)
EXTENDS Scheduler, FiniteSetTheorems, TLAPS

-----------------------------------------------------------------------------
(***************************************************************************)
(* What the pointer updates do to a list.                                  *)
(***************************************************************************)

\* The tail insertion spelled out in create_task, wakeup_task and
\* finish_task_switch appends to the list.
LEMMA ListAppend ==
  ASSUME NEW s \in Seq(Tasks), NEW f \in Pointers, NEW l \in Pointers, NEW nx \in [Tasks -> Pointers],
         List(s, f, l, nx), NEW t \in Tasks, \A i \in 1..Len(s) : s[i] # t
  PROVE  List(Append(s, t), IF f = NULL THEN t ELSE f, t,
              IF f = NULL THEN [nx EXCEPT ![t] = NULL]
              ELSE [nx EXCEPT ![t] = NULL, ![l] = t])
<1> DEFINE a == Append(s, t)
<1>1. /\ a \in Seq(Tasks)
      /\ Len(a) = Len(s) + 1
      /\ Len(s) \in Nat
      /\ a[Len(s) + 1] = t
      /\ \A i \in 1..Len(s) : a[i] = s[i] /\ s[i] \in Tasks
  OBVIOUS
<1> HIDE DEF a
<1>2. NULL \notin Tasks
  BY DEF NULL, Tasks
<1>3. \A i, j \in 1..Len(a) : a[i] = a[j] => i = j
  BY <1>1 DEF List
<1>4. CASE Len(s) = 0
  BY <1>1, <1>3, <1>4 DEF List
<1>5. CASE Len(s) # 0
  <2>1. f # NULL /\ f = s[1] /\ l = s[Len(s)] /\ l \in Tasks /\ l # t
    BY <1>1, <1>2, <1>5 DEF List
  <2>2. \A i \in 1..Len(s) : s[i] = l => i = Len(s)
    BY <1>1, <1>5, <2>1 DEF List
  <2> DEFINE n == [nx EXCEPT ![t] = NULL, ![l] = t]
  <2>3. n[t] = NULL /\ n[l] = t /\ \A u \in Tasks \ {t, l} : n[u] = nx[u]
    BY <2>1
  <2> HIDE DEF n
  <2>4. \A i \in 1..Len(a) : n[a[i]] = IF i = Len(a) THEN NULL ELSE a[i + 1]
    <3>1. \A i \in 1..Len(s) : i # Len(s) => n[a[i]] = a[i + 1]
      BY <1>1, <2>2, <2>3 DEF List
    <3> QED
      BY <1>1, <2>1, <2>3, <3>1
  <2>5. a[1] = f
    BY <1>1, <1>5, <2>1
  <2> QED
    BY <1>1, <1>3, <2>1, <2>4, <2>5 DEF List, n
<1> QED
  BY <1>1, <1>4, <1>5 DEF a

\* Removing the first task, as scheduler does, leaves the tail of the list.
LEMMA ListTail ==
  ASSUME NEW s \in Seq(Tasks), NEW f \in Pointers, NEW l \in Pointers, NEW nx \in [Tasks -> Pointers],
         List(s, f, l, nx), f # NULL
  PROVE  /\ Len(s) # 0
         /\ List(Tail(s), nx[f], IF nx[f] = NULL THEN NULL ELSE l,
                 [nx EXCEPT ![f] = NULL])
         /\ \A u \in Tasks : (\E i \in 1..Len(Tail(s)) : Tail(s)[i] = u)
                              <=> u # f /\ \E i \in 1..Len(s) : s[i] = u
<1> DEFINE a == Tail(s)
<1>1. Len(s) \in Nat \ {0}
  BY DEF List
<1>2. /\ a \in Seq(Tasks)
      /\ Len(a) = Len(s) - 1
      /\ \A i \in 1..Len(a) : a[i] = s[i + 1]
      /\ \A i \in 1..Len(s) : s[i] \in Tasks
  BY <1>1
<1> HIDE DEF a
<1>3. NULL \notin Tasks
  BY DEF NULL, Tasks
<1>4. f = s[1] /\ f \in Tasks /\ 1 \in 1..Len(s)
  BY <1>1, <1>2 DEF List
<1>5. \A i \in 1..Len(s) : s[i] = f => i = 1
  BY <1>1, <1>4 DEF List
<1>6. \A i \in 1..Len(s) : nx[s[i]] = IF i = Len(s) THEN NULL ELSE s[i + 1]
  BY DEF List
<1>7. nx[f] = IF Len(s) = 1 THEN NULL ELSE s[2]
  <2>1. nx[s[1]] = IF 1 = Len(s) THEN NULL ELSE s[1 + 1]
    BY <1>4, <1>6
  <2> QED
    BY <1>4, <2>1
<1> DEFINE n == [nx EXCEPT ![f] = NULL]
<1>8. \A u \in Tasks : u # f => n[u] = nx[u]
  OBVIOUS
<1> HIDE DEF n
<1>9. \A i \in 1..Len(a) : i + 1 \in 1..Len(s) /\ s[i + 1] # f
  BY <1>1, <1>2, <1>5
<1>10. ASSUME NEW i \in 1..Len(a)
       PROVE  n[a[i]] = IF i = Len(a) THEN NULL ELSE a[i + 1]
  <2>1. n[a[i]] = nx[s[i + 1]]
    BY <1>2, <1>8, <1>9
  <2>2. nx[s[i + 1]] = IF i + 1 = Len(s) THEN NULL ELSE s[(i + 1) + 1]
    BY <1>6, <1>9
  <2>3. i # Len(a) => i + 1 \in 1..Len(a) /\ a[i + 1] = s[(i + 1) + 1]
    BY <1>1, <1>2
  <2> QED
    BY <1>1, <1>2, <2>1, <2>2, <2>3
<1>11. ASSUME NEW i \in 1..Len(a), NEW j \in 1..Len(a), a[i] = a[j]
       PROVE  i = j
  <2>1. s[i + 1] = s[j + 1] /\ i + 1 \in 1..Len(s) /\ j + 1 \in 1..Len(s)
    BY <1>2, <1>9, <1>11
  <2>2. i + 1 = j + 1
    BY <2>1 DEF List
  <2> QED
    BY <1>1, <1>2, <2>2
<1>12. List(a, nx[f], IF nx[f] = NULL THEN NULL ELSE l, n)
  <2>1. CASE Len(s) = 1
    BY <1>2, <1>7, <1>10, <1>11, <2>1 DEF List
  <2>2. CASE Len(s) # 1
    <3>1. Len(a) # 0 /\ nx[f] = a[1] /\ nx[f] # NULL
      BY <1>1, <1>2, <1>3, <1>7, <2>2
    <3>2. l = a[Len(a)]
      BY <1>1, <1>2, <2>2 DEF List
    <3> QED
      BY <1>10, <1>11, <3>1, <3>2 DEF List
  <2> QED
    BY <2>1, <2>2
<1>13. ASSUME NEW u \in Tasks
       PROVE  (\E i \in 1..Len(a) : a[i] = u)
                <=> u # f /\ \E i \in 1..Len(s) : s[i] = u
  <2>1. ASSUME NEW i \in 1..Len(a), a[i] = u
        PROVE  u # f /\ \E k \in 1..Len(s) : s[k] = u
    BY <1>2, <1>9, <2>1
  <2>2. ASSUME u # f, NEW i \in 1..Len(s), s[i] = u
        PROVE  \E k \in 1..Len(a) : a[k] = u
    <3>1. i # 1 /\ i - 1 \in 1..Len(a) /\ a[i - 1] = u
      BY <1>1, <1>2, <1>4, <1>5, <2>2
    <3> QED
      BY <3>1
  <2> QED
    BY <2>1, <2>2
<1> QED
  BY <1>1, <1>12, <1>13 DEF a, n
-----------------------------------------------------------------------------
(***************************************************************************)
(* The inductive invariant.  Lists is QueuesAreLists without the bound on  *)
(* the length of the lists, which follows from their having no repetition. *)
(***************************************************************************)
Lists == \A p \in Prios : \E s \in Seq(Tasks) : IsList(p, s)

IInv == TypeOK /\ TaskStates /\ Lists /\ BitmapExact

\* What the proofs use of the constants.
LEMMA Constants ==
  /\ Idle \in Tasks /\ NULL \notin Tasks /\ NULL \in Pointers
  /\ Tasks \subseteq Pointers
  /\ IDLE_PRIO \notin Prios /\ Prios \subseteq 0..MAX_PRIO
  /\ IDLE_PRIO \in 0..MAX_PRIO
BY SchedulerAssumption DEF Idle, Tasks, NULL, Pointers, Prios, IDLE_PRIO

\* A queue is empty exactly when its pointers are NULL, and otherwise they
\* point to tasks that belong in it.
LEMMA QueueEnds ==
  ASSUME TypeOK, Lists, NEW p \in Prios
  PROVE  /\ first[p] = NULL <=> last[p] = NULL
         /\ first[p] # NULL => first[p] \in Tasks /\ Queued(first[p], p)
         /\ last[p] # NULL => last[p] \in Tasks /\ Queued(last[p], p)
         /\ first[p] = NULL => \A t \in Tasks : ~Queued(t, p)
<1>1. PICK s \in Seq(Tasks) : IsList(p, s)
  BY DEF Lists
<1>2. Len(s) \in Nat /\ \A i \in 1..Len(s) : s[i] \in Tasks
  OBVIOUS
<1>3. NULL \notin Tasks
  BY Constants
<1>4. CASE Len(s) = 0
  BY <1>1, <1>4 DEF IsList, List
<1>5. CASE Len(s) # 0
  <2>1. 1 \in 1..Len(s) /\ Len(s) \in 1..Len(s)
    BY <1>2, <1>5
  <2>2. first[p] = s[1] /\ last[p] = s[Len(s)]
    BY <1>1, <1>5 DEF IsList, List
  <2>3. Queued(s[1], p) /\ Queued(s[Len(s)], p)
    BY <1>1, <1>2, <2>1 DEF IsList
  <2> QED
    BY <1>2, <1>3, <2>1, <2>2, <2>3
<1> QED
  BY <1>4, <1>5

\* A step that leaves the pointers alone, and changes for no task whether it
\* belongs in a queue.
LEMMA SameLists ==
  ASSUME Lists, UNCHANGED <<first, last, next>>,
         \A u \in Tasks, q \in Prios : Queued(u, q)' <=> Queued(u, q)
  PROVE  Lists'
<1> SUFFICES ASSUME NEW p \in Prios
             PROVE  \E s \in Seq(Tasks) : IsList(p, s)'
  BY DEF Lists
<1>1. PICK s \in Seq(Tasks) : IsList(p, s)
  BY DEF Lists
<1>2. IsList(p, s)'
  BY <1>1 DEF IsList
<1> QED
  BY <1>2

\* A tail insertion of a task that was in no queue.
LEMMA EnqueueLists ==
  ASSUME TypeOK, Lists, BitmapExact,
         NEW t \in Tasks, NEW p \in Prios,
         Enqueue(t, p, first[p] = NULL),
         prio_bitmap' = prio_bitmap \cup {p},
         \A q \in Prios : ~Queued(t, q),
         \A u \in Tasks, q \in Prios :
            Queued(u, q)' <=> Queued(u, q) \/ (u = t /\ q = p)
  PROVE  /\ first' \in [Prios -> Pointers] /\ last' \in [Prios -> Pointers]
         /\ next' \in [Tasks -> Pointers] /\ prev' \in [Tasks -> Pointers]
         /\ prio_bitmap' \in SUBSET Prios
         /\ Lists' /\ BitmapExact'
         /\ \A u \in Tasks : u # t /\ status[u] # "READY" =>
               next'[u] = next[u] /\ prev'[u] = prev[u]
<1>1. first[p] # NULL => last[p] \in Tasks /\ Queued(last[p], p)
  BY QueueEnds
<1>2. /\ first' \in [Prios -> Pointers] /\ last' \in [Prios -> Pointers]
      /\ next' \in [Tasks -> Pointers] /\ prev' \in [Tasks -> Pointers]
      /\ prio_bitmap' \in SUBSET Prios
  BY <1>1, Constants DEF TypeOK, Enqueue
<1>3. BitmapExact'
  BY Constants DEF BitmapExact, Enqueue, TypeOK
<1>4. \A u \in Tasks : u # t /\ status[u] # "READY" =>
         next'[u] = next[u] /\ prev'[u] = prev[u]
  BY <1>1 DEF Enqueue, Queued, TypeOK
<1>5. ASSUME NEW q \in Prios
      PROVE  \E s \in Seq(Tasks) : IsList(q, s)'
  <2>1. PICK s \in Seq(Tasks) : IsList(q, s)
    BY DEF Lists
  <2>2. Len(s) \in Nat /\ \A i \in 1..Len(s) : s[i] \in Tasks /\ s[i] # t
    BY <2>1 DEF IsList
  <2>3. CASE q = p
    <3> DEFINE a == Append(s, t)
    <3>1. List(a, IF first[p] = NULL THEN t ELSE first[p], t,
               IF first[p] = NULL THEN [next EXCEPT ![t] = NULL]
               ELSE [next EXCEPT ![t] = NULL, ![last[p]] = t])
      <4>1. List(s, first[p], last[p], next)
        BY <2>1, <2>3 DEF IsList
      <4> QED
        BY <2>2, <4>1, ListAppend DEF TypeOK
    <3>2. List(a, first'[p], last'[p], next')
      BY <3>1 DEF Enqueue, TypeOK
    <3>3. a \in Seq(Tasks) /\ Len(a) = Len(s) + 1 /\ a[Len(s) + 1] = t
          /\ \A i \in 1..Len(s) : a[i] = s[i]
      OBVIOUS
    <3> HIDE DEF a
    <3>4. \A u \in Tasks : (\E i \in 1..Len(a) : a[i] = u)
                            <=> u = t \/ \E i \in 1..Len(s) : s[i] = u
      BY <2>2, <3>3
    <3>5. \A u \in Tasks : Queued(u, p)' <=> \E i \in 1..Len(a) : a[i] = u
      BY <2>1, <2>3, <3>4 DEF IsList
    <3> QED
      BY <2>3, <3>2, <3>3, <3>5 DEF IsList
  <2>4. CASE q # p
    <3>1. first'[q] = first[q] /\ last'[q] = last[q]
      BY <2>4 DEF Enqueue, TypeOK
    <3>2. \A i \in 1..Len(s) : Queued(s[i], q)
      BY <2>1, <2>2 DEF IsList
    <3>3. \A i \in 1..Len(s) : next'[s[i]] = next[s[i]]
      BY <1>1, <2>2, <2>4, <3>2 DEF Enqueue, Queued, TypeOK
    <3>4. List(s, first'[q], last'[q], next')
      BY <2>1, <3>1, <3>3 DEF IsList, List
    <3> QED
      BY <2>1, <2>4, <3>4 DEF IsList
  <2> QED
    BY <2>3, <2>4
<1> QED
  BY <1>2, <1>3, <1>4, <1>5 DEF Lists

\* Taking the first task out of queue p, as scheduler does.
LEMMA DequeueLists ==
  ASSUME TypeOK, Lists, BitmapExact,
         NEW p \in Prios, first[p] # NULL,
         first' = [first EXCEPT ![p] = next[first[p]]],
         last' = [last EXCEPT ![p] =
                    IF next[first[p]] = NULL THEN NULL ELSE @],
         prio_bitmap' = IF next[first[p]] = NULL
                        THEN prio_bitmap \ {p} ELSE prio_bitmap,
         next' = [next EXCEPT ![first[p]] = NULL],
         prev' = [prev EXCEPT ![first[p]] = NULL],
         \A u \in Tasks, q \in Prios :
            Queued(u, q)' <=> Queued(u, q) /\ u # first[p]
  PROVE  /\ first' \in [Prios -> Pointers] /\ last' \in [Prios -> Pointers]
         /\ next' \in [Tasks -> Pointers] /\ prev' \in [Tasks -> Pointers]
         /\ prio_bitmap' \in SUBSET Prios
         /\ Lists' /\ BitmapExact'
<1>1. first[p] \in Tasks /\ Queued(first[p], p)
  BY QueueEnds
<1>2. /\ first' \in [Prios -> Pointers] /\ last' \in [Prios -> Pointers]
      /\ next' \in [Tasks -> Pointers] /\ prev' \in [Tasks -> Pointers]
      /\ prio_bitmap' \in SUBSET Prios
  BY <1>1, Constants DEF TypeOK
<1>3. BitmapExact'
  BY <1>1 DEF BitmapExact, TypeOK
<1>4. ASSUME NEW q \in Prios
      PROVE  \E s \in Seq(Tasks) : IsList(q, s)'
  <2>1. PICK s \in Seq(Tasks) : IsList(q, s)
    BY DEF Lists
  <2>2. \A i \in 1..Len(s) : s[i] \in Tasks /\ Queued(s[i], q)
    BY <2>1 DEF IsList
  <2>3. CASE q = p
    <3> DEFINE a == Tail(s)
    <3>1. List(s, first[p], last[p], next)
      BY <2>1, <2>3 DEF IsList
    <3>2. /\ Len(s) # 0
          /\ List(a, next[first[p]],
                  IF next[first[p]] = NULL THEN NULL ELSE last[p],
                  [next EXCEPT ![first[p]] = NULL])
          /\ \A u \in Tasks : (\E i \in 1..Len(a) : a[i] = u)
                      <=> u # first[p] /\ \E i \in 1..Len(s) : s[i] = u
      BY <3>1, ListTail DEF TypeOK
    <3>3. a \in Seq(Tasks)
      BY <3>2
    <3> HIDE DEF a
    <3>4. List(a, first'[p], last'[p], next')
      BY <3>2 DEF TypeOK
    <3>5. \A u \in Tasks : Queued(u, p)' <=> \E i \in 1..Len(a) : a[i] = u
      BY <2>1, <2>3, <3>2 DEF IsList
    <3> QED
      BY <2>3, <3>3, <3>4, <3>5 DEF IsList
  <2>4. CASE q # p
    <3>1. first'[q] = first[q] /\ last'[q] = last[q]
      BY <2>4 DEF TypeOK
    <3>2. \A i \in 1..Len(s) : s[i] # first[p]
      BY <1>1, <2>2, <2>4 DEF Queued
    <3>3. \A i \in 1..Len(s) : next'[s[i]] = next[s[i]]
      BY <2>2, <3>2 DEF TypeOK
    <3>4. List(s, first'[q], last'[q], next')
      BY <2>1, <3>1, <3>3 DEF IsList, List
    <3>5. \A u \in Tasks : Queued(u, q)' <=> Queued(u, q)
      BY <1>1, <2>4 DEF Queued
    <3> QED
      BY <2>1, <3>4, <3>5 DEF IsList
  <2> QED
    BY <2>3, <2>4
<1> QED
  BY <1>2, <1>3, <1>4 DEF Lists

-----------------------------------------------------------------------------
(***************************************************************************)
(* Init and each action.                                                   *)
(***************************************************************************)

\* The invariant holds after multitasking_init.
LEMMA InitIInv == Init => IInv
<1> SUFFICES ASSUME Init PROVE IInv
  OBVIOUS
<1>1. TypeOK
  BY Constants DEF Init, TypeOK, Statuses, PCs, Contexts
<1>2. TaskStates
  BY Constants DEF Init, TaskStates
<1>3. BitmapExact
  BY DEF Init, BitmapExact
<1>4. ASSUME NEW p \in Prios
      PROVE  IsList(p, <<>>)
  BY Constants DEF Init, IsList, List, Queued
<1>5. <<>> \in Seq(Tasks)
  OBVIOUS
<1> QED
  BY <1>1, <1>2, <1>3, <1>4, <1>5 DEF IInv, Lists

\* create_kernel_task, whether or not get_pages finds a frame.
LEMMA CreateIInv ==
  ASSUME IInv, NEW p \in 0..(MAX_PRIO + 1), NEW ok \in BOOLEAN,
         create_kernel_task(p, ok)
  PROVE  IInv'
<1> DEFINE q == IF p > MAX_PRIO THEN NORMAL_PRIO ELSE p
<1>1. q \in Prios /\ create_task(q, ok)
  <2>1. create_task(q, ok) /\ q # IDLE_PRIO /\ q <= MAX_PRIO
    BY DEF create_kernel_task, create_task
  <2> QED
    BY <2>1, SchedulerAssumption DEF Prios, IDLE_PRIO
<1> HIDE DEF q
<1>2. PICK i \in Tasks :
        /\ FirstInvalid(i)
        /\ status' = [status EXCEPT ![i] = "READY"]
        /\ prio' = [prio EXCEPT ![i] = q]
        /\ \/ /\ ok
              /\ prio_bitmap' = prio_bitmap \cup {q}
              /\ nr_tasks' = nr_tasks + 1
              /\ Enqueue(i, q, first[q] = NULL)
              /\ pc' = [pc EXCEPT ![i] = "run"]
           \/ /\ ~ok
              /\ pc' = [pc EXCEPT ![i] = "nomem"]
              /\ UNCHANGED <<next, prev, first, last, prio_bitmap, nr_tasks>>
  BY <1>1 DEF create_task
<1>3. UNCHANGED <<old_task, current_task, ctx>> /\ ctx = "task"
  BY <1>1 DEF create_task, create_kernel_task
<1>4. /\ status[i] = "INVALID" /\ i # Idle /\ i # current_task
      /\ old_task = NULL /\ i # old_task
  BY <1>2, <1>3, Constants DEF FirstInvalid, IInv, TaskStates
<1>5. \A r \in Prios : ~Queued(i, r)
  BY <1>4 DEF Queued
<1>6. CASE ok
  <2>1. \A u \in Tasks, r \in Prios :
          Queued(u, r)' <=> Queued(u, r) \/ (u = i /\ r = q)
    BY <1>2, <1>3, <1>4, <1>6 DEF Queued, IInv, TypeOK
  <2>2. /\ first' \in [Prios -> Pointers] /\ last' \in [Prios -> Pointers]
        /\ next' \in [Tasks -> Pointers] /\ prev' \in [Tasks -> Pointers]
        /\ prio_bitmap' \in SUBSET Prios
        /\ Lists' /\ BitmapExact'
        /\ \A u \in Tasks : u # i /\ status[u] # "READY" =>
              next'[u] = next[u] /\ prev'[u] = prev[u]
    BY <1>1, <1>2, <1>5, <1>6, <2>1, EnqueueLists DEF IInv
  <2>3. TypeOK'
    <3>1. /\ status' \in [Tasks -> Statuses]
          /\ prio' \in [Tasks -> 0..MAX_PRIO]
          /\ pc' \in [Tasks -> PCs]
          /\ nr_tasks' \in Int
      BY <1>1, <1>2, <1>6, Constants DEF IInv, TypeOK, Statuses, PCs
    <3> QED
      BY <1>3, <2>2, <3>1 DEF IInv, TypeOK
  <2>4. TaskStates'
    BY <1>1, <1>2, <1>3, <1>4, <1>6, <2>2, Constants
    DEF IInv, TypeOK, TaskStates
  <2> QED
    BY <2>2, <2>3, <2>4 DEF IInv
<1>7. CASE ~ok
  <2>1. \A u \in Tasks, r \in Prios : Queued(u, r)' <=> Queued(u, r)
    BY <1>2, <1>3, <1>4, <1>7 DEF Queued, IInv, TypeOK
  <2>2. Lists'
    <3>1. UNCHANGED <<first, last, next>> /\ Lists
      BY <1>2, <1>7 DEF IInv
    <3> QED
      BY <2>1, <3>1, SameLists
  <2>3. TypeOK'
    BY <1>1, <1>2, <1>3, <1>7, Constants DEF IInv, TypeOK, Statuses, PCs
  <2>4. TaskStates'
    BY <1>1, <1>2, <1>3, <1>4, <1>7, Constants DEF IInv, TypeOK, TaskStates
  <2> QED
    BY <1>2, <1>7, <2>2, <2>3, <2>4 DEF IInv, BitmapExact
<1> QED
  BY <1>6, <1>7

\* wakeup_task, from a task or from an interrupt.
LEMMA WakeupIInv ==
  ASSUME IInv, NEW t \in Tasks, wakeup_task(t)
  PROVE  IInv'
<1> DEFINE p == prio[t]
<1>1. /\ status[t] = "BLOCKED"
      /\ status' = [status EXCEPT ![t] = "READY"]
      /\ UNCHANGED <<prio, old_task, current_task, pc, ctx>>
      /\ ctx \in {"device", "task"}
  BY DEF wakeup_task
<1>2. p \in Prios /\ old_task = NULL /\ t # Idle /\ pc[t] \in {"run", "resched"}
  BY <1>1, Constants DEF IInv, TaskStates
<1>3. first[p] = NULL <=> last[p] = NULL
  BY <1>2, QueueEnds DEF IInv
<1>4. Enqueue(t, p, first[p] = NULL) /\ prio_bitmap' = prio_bitmap \cup {p}
  <2>1. Enqueue(t, p, last[p] = NULL)
    BY DEF wakeup_task
  <2>2. (last[p] = NULL) = (first[p] = NULL)
    BY <1>3
  <2>3. Enqueue(t, p, first[p] = NULL)
    BY <2>1, <2>2
  <2>4. last[p] # NULL => p \in prio_bitmap
    BY <1>2, <1>3 DEF IInv, BitmapExact
  <2> QED
    BY <2>3, <2>4 DEF wakeup_task
<1>5. \A q \in Prios : ~Queued(t, q)
  BY <1>1 DEF Queued
<1>6. \A u \in Tasks, q \in Prios :
        Queued(u, q)' <=> Queued(u, q) \/ (u = t /\ q = p)
  BY <1>1, <1>2, Constants DEF Queued, IInv, TypeOK
<1>7. /\ first' \in [Prios -> Pointers] /\ last' \in [Prios -> Pointers]
      /\ next' \in [Tasks -> Pointers] /\ prev' \in [Tasks -> Pointers]
      /\ prio_bitmap' \in SUBSET Prios
      /\ Lists' /\ BitmapExact'
      /\ \A u \in Tasks : u # t /\ status[u] # "READY" =>
            next'[u] = next[u] /\ prev'[u] = prev[u]
  BY <1>2, <1>4, <1>5, <1>6, EnqueueLists DEF IInv
<1>8. TypeOK'
  <2>1. nr_tasks' \in Int /\ status' \in [Tasks -> Statuses]
    BY <1>1 DEF wakeup_task, IInv, TypeOK, Statuses
  <2> QED
    BY <1>1, <1>7, <2>1 DEF IInv, TypeOK
<1>9. TaskStates'
  BY <1>1, <1>2, <1>7, Constants DEF IInv, TypeOK, TaskStates
<1> QED
  BY <1>7, <1>8, <1>9 DEF IInv

\* block_current_task unlinks nothing: a running task is in no queue.
LEMMA UnlinkNothing ==
  ASSUME IInv, status[current_task] = "RUNNING",
         Unlink(current_task, prio[current_task])
  PROVE  UNCHANGED <<next, prev, first, last, prio_bitmap>>
<1> DEFINE t == current_task
           p == prio[t]
<1>1. t \in Tasks /\ p \in Prios /\ next[t] = NULL /\ prev[t] = NULL
  BY DEF IInv, TypeOK, TaskStates
<1>2. first[p] # t /\ last[p] # t
  BY <1>1, Constants, QueueEnds DEF Queued, IInv
<1>3. first[p] = NULL => p \notin prio_bitmap
  BY <1>1 DEF IInv, BitmapExact
<1> QED
  BY <1>1, <1>2, <1>3 DEF Unlink, IInv, TypeOK

\* block_current_task, for a running task and for the idle task.
LEMMA BlockIInv ==
  ASSUME IInv, block_current_task
  PROVE  IInv'
<1>1. /\ ctx = "task" /\ pc[current_task] = "run"
      /\ pc' = [pc EXCEPT ![current_task] = "resched"]
      /\ UNCHANGED <<prio, old_task, current_task, ctx>>
      /\ current_task \in Tasks
  BY DEF block_current_task, IInv, TypeOK
<1>2. UNCHANGED <<next, prev, first, last, prio_bitmap>>
  BY UnlinkNothing DEF block_current_task
<1>3. \/ /\ status[current_task] = "RUNNING"
         /\ status' = [status EXCEPT ![current_task] = "BLOCKED"]
      \/ UNCHANGED status
  BY DEF block_current_task
<1>4. \A u \in Tasks, q \in Prios : Queued(u, q)' <=> Queued(u, q)
  BY <1>1, <1>3 DEF Queued, IInv, TypeOK
<1>5. Lists'
  BY <1>2, <1>4, SameLists DEF IInv
<1>6. TypeOK'
  <2>1. nr_tasks' \in Int
    BY DEF block_current_task, IInv, TypeOK
  <2> QED
    BY <1>1, <1>2, <1>3, <2>1 DEF IInv, TypeOK, Statuses, PCs
<1>7. TaskStates'
  BY <1>1, <1>2, <1>3, Constants DEF IInv, TypeOK, TaskStates
<1> QED
  BY <1>2, <1>5, <1>6, <1>7 DEF IInv, BitmapExact

\* finish_task_switch, after a preemption and after an exit.
LEMMA FinishIInv ==
  ASSUME IInv, finish_task_switch
  PROVE  IInv'
<1>1. /\ ctx = "switch" /\ ctx' = "task" /\ old_task' = NULL
      /\ UNCHANGED <<status, prio, nr_tasks, current_task, pc>>
      /\ status[current_task] \in {"RUNNING", "IDLE"}
  BY DEF finish_task_switch, IInv, TaskStates
<1>2. CASE old_task # NULL /\ status[old_task] # "INVALID"
  <2> DEFINE t == old_task
             p == prio[t]
  <2>1. Enqueue(t, p, first[p] = NULL) /\ prio_bitmap' = prio_bitmap \cup {p}
    BY <1>2 DEF finish_task_switch
  <2>2. /\ t \in Tasks /\ p \in Prios /\ status[t] = "READY"
        /\ t # current_task /\ pc[t] # "nomem"
    BY <1>2 DEF IInv, TypeOK, TaskStates, Pointers
  <2>3. \A q \in Prios : ~Queued(t, q)
    BY DEF Queued
  <2>4. \A u \in Tasks, q \in Prios :
          Queued(u, q)' <=> Queued(u, q) \/ (u = t /\ q = p)
    BY <1>1, <2>2, Constants DEF Queued
  <2>5. /\ first' \in [Prios -> Pointers] /\ last' \in [Prios -> Pointers]
        /\ next' \in [Tasks -> Pointers] /\ prev' \in [Tasks -> Pointers]
        /\ prio_bitmap' \in SUBSET Prios
        /\ Lists' /\ BitmapExact'
        /\ \A u \in Tasks : u # t /\ status[u] # "READY" =>
              next'[u] = next[u] /\ prev'[u] = prev[u]
    BY <2>1, <2>2, <2>3, <2>4, EnqueueLists DEF IInv
  <2>6. TypeOK'
    BY <1>1, <2>5, Constants DEF IInv, TypeOK, Contexts
  <2>7. TaskStates'
    BY <1>1, <2>2, <2>5, Constants DEF IInv, TypeOK, TaskStates
  <2> QED
    BY <2>5, <2>6, <2>7 DEF IInv
<1>3. CASE ~(old_task # NULL /\ status[old_task] # "INVALID")
  <2>1. UNCHANGED <<next, prev, first, last, prio_bitmap>>
    BY <1>3 DEF finish_task_switch
  <2>2. \A u \in Tasks, q \in Prios : Queued(u, q)' <=> Queued(u, q)
    BY <1>1, <1>3, Constants DEF Queued
  <2>3. Lists'
    BY <2>1, <2>2, SameLists DEF IInv
  <2>4. TypeOK' /\ TaskStates'
    BY <1>1, <2>1, Constants DEF IInv, TypeOK, TaskStates, Contexts
  <2> QED
    BY <2>1, <2>3, <2>4 DEF IInv, BitmapExact
<1> QED
  BY <1>2, <1>3

\* What the callers of scheduler do to pc: irq_handler nothing, reschedule
\* sends a task that does not exit back to its own code.
PcStep ==
  \/ UNCHANGED pc
  \/ /\ pc[current_task] \in {"resched", "dead"}
     /\ pc' = [pc EXCEPT ![current_task] = IF @ = "dead" THEN "dead" ELSE "run"]

\* scheduler, under each of its callers.
LEMMA SchedulerIInv ==
  ASSUME IInv, scheduler, ctx # "switch", PcStep
  PROVE  IInv'
<1>1. /\ old_task = NULL /\ current_task \in Tasks
      /\ UNCHANGED <<prio, nr_tasks>>
      /\ status[current_task] # "INVALID"
      /\ pc[current_task] # "nomem"
  BY DEF scheduler, IInv, TypeOK, TaskStates
<1>2. /\ pc' \in [Tasks -> PCs]
      /\ \A u \in Tasks : u # current_task => pc'[u] = pc[u]
      /\ pc'[current_task] \in {pc[current_task], "run"}
      /\ pc[current_task] \notin {"resched"} =>
           pc'[current_task] = pc[current_task]
  BY <1>1 DEF PcStep, IInv, TypeOK, PCs
<1>3. CASE Keep
  <2>1. /\ old_task' = NULL /\ ctx' = "task"
        /\ UNCHANGED <<status, next, prev, first, last, prio_bitmap,
                       current_task>>
        /\ status[current_task] \in {"RUNNING", "IDLE"}
    BY <1>3 DEF Keep
  <2>2. \A u \in Tasks, q \in Prios : Queued(u, q)' <=> Queued(u, q)
    BY <1>1, <1>2, <2>1 DEF Queued
  <2>3. Lists'
    BY <2>1, <2>2, SameLists DEF IInv
  <2>4. TypeOK'
    BY <1>1, <1>2, <2>1, Constants DEF IInv, TypeOK, Contexts
  <2>5. TaskStates'
    BY <1>1, <1>2, <2>1, Constants DEF IInv, TypeOK, TaskStates
  <2> QED
    BY <2>1, <2>3, <2>4, <2>5 DEF IInv, BitmapExact
<1>4. CASE SwitchToIdle
  <2>1. /\ status[current_task] \notin {"RUNNING", "IDLE"}
        /\ status' = [status EXCEPT ![current_task] = Reaped]
        /\ old_task' = IF Reaped = "INVALID" THEN current_task ELSE NULL
        /\ current_task' = Idle /\ ctx' = "switch"
        /\ UNCHANGED <<next, prev, first, last, prio_bitmap>>
    BY <1>4 DEF SwitchToIdle
  <2>2. \/ status[current_task] = "FINISHED" /\ Reaped = "INVALID"
           /\ pc'[current_task] = "dead"
        \/ /\ status[current_task] \in {"READY", "BLOCKED"}
           /\ Reaped = status[current_task]
           /\ pc[current_task] = "resched"
    BY <1>1, <1>2, <2>1 DEF Reaped, IInv, TypeOK, TaskStates, Statuses
  <2>3. current_task # Idle
    BY <2>1 DEF IInv, TaskStates, TypeOK
  <2>4. \A u \in Tasks, q \in Prios : Queued(u, q)' <=> Queued(u, q)
    BY <1>1, <1>2, <2>1, <2>2, Constants DEF Queued, IInv, TypeOK
  <2>5. Lists'
    BY <2>1, <2>4, SameLists DEF IInv
  <2>6. TypeOK'
    BY <1>1, <1>2, <2>1, <2>2, Constants
    DEF IInv, TypeOK, Statuses, Contexts, Pointers
  <2>7. TaskStates'
    BY <1>1, <1>2, <2>1, <2>2, <2>3, Constants DEF IInv, TypeOK, TaskStates
  <2> QED
    BY <2>1, <2>5, <2>6, <2>7 DEF IInv, BitmapExact
<1>5. ASSUME NEW p \in Prios, SwitchToFirst(p)
      PROVE  IInv'
  <2> DEFINE new == first[p]
             c == current_task
  <2>1. first[p] # NULL
    BY <1>5 DEF SwitchToFirst, Highest, IInv, BitmapExact
  <2>2. new \in Tasks /\ Queued(new, p)
    BY <2>1, QueueEnds DEF IInv
  <2>3. /\ status[new] = "READY" /\ prio[new] = p /\ pc[new] # "nomem"
        /\ new # Idle
    BY <2>2 DEF Queued, IInv, TaskStates
  <2>4. /\ status' = [status EXCEPT
                        ![c] = IF status[c] = "RUNNING" THEN "READY" ELSE Reaped,
                        ![new] = "RUNNING"]
        /\ old_task' = IF status[c] = "RUNNING" \/ Reaped = "INVALID"
                       THEN c ELSE NULL
        /\ current_task' = new
        /\ ctx' = IF new = c THEN "task" ELSE "switch"
    BY <1>5 DEF SwitchToFirst
  <2>5. \/ status[c] = "RUNNING" /\ new # c
        \/ status[c] = "IDLE" /\ Reaped = "IDLE" /\ c = Idle /\ new # c
        \/ /\ status[c] = "FINISHED" /\ Reaped = "INVALID" /\ new # c
           /\ pc'[c] = "dead"
        \/ /\ status[c] \in {"READY", "BLOCKED"} /\ Reaped = status[c]
           /\ pc[c] = "resched"
    BY <1>1, <1>2, <2>3 DEF Reaped, IInv, TypeOK, TaskStates, Statuses
  <2>6. \A u \in Tasks, q \in Prios :
          Queued(u, q)' <=> Queued(u, q) /\ u # new
    <3> SUFFICES ASSUME NEW u \in Tasks, NEW q \in Prios
                 PROVE  Queued(u, q)' <=> Queued(u, q) /\ u # new
      OBVIOUS
    <3>1. CASE u = new
      BY <2>2, <2>4, <3>1 DEF Queued, IInv, TypeOK
    <3>2. CASE u # new /\ u = c
      BY <1>1, <1>2, <2>4, <2>5, <3>2, Constants DEF Queued, IInv, TypeOK
    <3>3. CASE u # new /\ u # c
      BY <1>1, <1>2, <2>4, <3>3, Constants DEF Queued, IInv, TypeOK
    <3> QED
      BY <3>1, <3>2, <3>3
  <2>7. /\ first' \in [Prios -> Pointers] /\ last' \in [Prios -> Pointers]
        /\ next' \in [Tasks -> Pointers] /\ prev' \in [Tasks -> Pointers]
        /\ prio_bitmap' \in SUBSET Prios
        /\ Lists' /\ BitmapExact'
    BY <1>5, <2>1, <2>6, DequeueLists DEF SwitchToFirst, IInv
  <2>8. TypeOK'
    <3>1. status' \in [Tasks -> Statuses] /\ old_task' \in Pointers
      BY <1>1, <2>2, <2>4, <2>5, Constants DEF IInv, TypeOK, Statuses
    <3> QED
      BY <1>1, <1>2, <2>2, <2>4, <2>7, <3>1 DEF IInv, TypeOK, Contexts
  <2>9. next'[new] = NULL /\ prev'[new] = NULL
    BY <1>5, <2>2 DEF SwitchToFirst, IInv, TypeOK
  <2>10. TaskStates'
    <3>1. CASE status[c] = "RUNNING" /\ new # c
      BY <1>1, <1>2, <2>2, <2>3, <2>4, <2>9, <3>1, Constants
      DEF IInv, TypeOK, TaskStates
    <3>2. CASE status[c] = "IDLE" /\ Reaped = "IDLE" /\ c = Idle /\ new # c
      BY <1>1, <1>2, <2>2, <2>3, <2>4, <2>9, <3>2, Constants
      DEF IInv, TypeOK, TaskStates
    <3>3. CASE status[c] = "FINISHED" /\ Reaped = "INVALID" /\ new # c /\ pc'[c] = "dead"
      BY <1>1, <1>2, <2>2, <2>3, <2>4, <2>9, <3>3, Constants
      DEF IInv, TypeOK, TaskStates
    <3>4. CASE /\ status[c] \in {"READY", "BLOCKED"} /\ Reaped = status[c]
               /\ pc[c] = "resched"
      BY <1>1, <1>2, <2>2, <2>3, <2>4, <2>9, <3>4, Constants
      DEF IInv, TypeOK, TaskStates
    <3> QED
      BY <2>5, <3>1, <3>2, <3>3, <3>4
  <2> QED
    BY <2>7, <2>8, <2>10 DEF IInv
<1> QED
  BY <1>3, <1>4, <1>5 DEF scheduler

\* The two steps of do_exit before reschedule.
LEMMA ExitIInv ==
  ASSUME IInv, do_exit_count \/ do_exit_finish
  PROVE  IInv'
<1>1. /\ current_task \in Tasks /\ ctx = "task"
      /\ UNCHANGED <<prio, next, prev, first, last, prio_bitmap, old_task,
                     current_task, ctx>>
      /\ nr_tasks' \in Int
  BY DEF do_exit_count, do_exit_finish, tableVars, queueVars, IInv, TypeOK
<1>2. status[current_task] = "RUNNING" /\ current_task # Idle
  BY DEF do_exit_count, do_exit_finish, IInv, TypeOK, TaskStates
<1>3. \/ UNCHANGED status /\ pc' = [pc EXCEPT ![current_task] = "dying"]
      \/ /\ status' = [status EXCEPT ![current_task] = "FINISHED"]
         /\ pc' = [pc EXCEPT ![current_task] = "dead"]
  BY DEF do_exit_count, do_exit_finish, tableVars
<1>4. \A u \in Tasks, q \in Prios : Queued(u, q)' <=> Queued(u, q)
  BY <1>1, <1>2, <1>3 DEF Queued, IInv, TypeOK
<1>5. Lists'
  BY <1>1, <1>4, SameLists DEF IInv
<1>6. TypeOK'
  BY <1>1, <1>3 DEF IInv, TypeOK, Statuses, PCs
<1>7. TaskStates'
  BY <1>1, <1>2, <1>3, Constants DEF IInv, TypeOK, TaskStates
<1> QED
  BY <1>1, <1>5, <1>6, <1>7 DEF IInv, BitmapExact

\* A step that changes ctx at most, and does not begin a switch.
LEMMA ContextIInv ==
  ASSUME IInv, UNCHANGED <<tableVars, queueVars, current_task, pc>>,
         ctx' = ctx \/ (ctx # "switch" /\ ctx' \in Contexts \ {"switch"})
  PROVE  IInv'
<1>1. UNCHANGED <<status, prio, next, prev, first, last, prio_bitmap, nr_tasks,
                  old_task, current_task, pc>>
  BY DEF tableVars, queueVars
<1>2. \A u \in Tasks, q \in Prios : Queued(u, q)' <=> Queued(u, q)
  BY <1>1 DEF Queued
<1>3. Lists'
  BY <1>1, <1>2, SameLists DEF IInv
<1>4. TypeOK' /\ TaskStates'
  BY <1>1 DEF IInv, TypeOK, TaskStates, Contexts
<1> QED
  BY <1>1, <1>3, <1>4 DEF IInv, BitmapExact

\* Every step preserves the invariant.
LEMMA NextIInv == IInv /\ [Next]_vars => IInv'
<1> SUFFICES ASSUME IInv, [Next]_vars PROVE IInv'
  OBVIOUS
<1>1. ASSUME NEW p \in 0..(MAX_PRIO + 1), NEW ok \in BOOLEAN,
             create_kernel_task(p, ok)
      PROVE  IInv'
  BY <1>1, CreateIInv
<1>2. ASSUME NEW t \in Tasks, wakeup_task(t)
      PROVE  IInv'
  BY <1>2, WakeupIInv
<1>3. CASE block_current_task
  BY <1>3, BlockIInv
<1>4. CASE reschedule
  BY <1>4, SchedulerIInv DEF reschedule, PcStep
<1>5. CASE do_exit_count \/ do_exit_finish
  BY <1>5, ExitIInv
<1>6. CASE finish_task_switch
  BY <1>6, FinishIInv
<1>7. ASSUME NEW kind \in {"timer", "device"}, irq_enter(kind)
      PROVE  IInv'
  BY <1>7, ContextIInv DEF irq_enter, Contexts
<1>8. CASE irq_leave
  <2>1. CASE scheduler /\ UNCHANGED pc
    BY <1>8, <2>1, SchedulerIInv DEF irq_leave, PcStep
  <2>2. CASE ctx' = "task" /\ UNCHANGED <<tableVars, queueVars, current_task, pc>>
    BY <1>8, <2>2, ContextIInv DEF irq_leave, Contexts
  <2> QED
    BY <1>8, <2>1, <2>2 DEF irq_leave
<1>9. CASE UNCHANGED vars
  BY <1>9, ContextIInv DEF vars
<1> QED
  BY <1>1, <1>2, <1>3, <1>4, <1>5, <1>6, <1>7, <1>8, <1>9 DEF Next

\* The invariant holds of every reachable state of kernel/tasks.c.
THEOREM Invariance == Spec => []IInv
BY InitIInv, NextIInv, PTL DEF Spec

-----------------------------------------------------------------------------
(***************************************************************************)
(* The theorems.                                                           *)
(***************************************************************************)

\* Every variable keeps its type.  In particular scheduler never makes a NULL
\* first pointer the current task.
THEOREM TypeCorrect == Spec => []TypeOK
BY Invariance, PTL DEF IInv

\* TaskStates holds of every reachable state: one running task, linked into no
\* queue, and no way back for a task that has exited.
THEOREM TaskStatesCorrect == Spec => []TaskStates
BY Invariance, PTL DEF IInv

\* prio_bitmap shows exactly the queues that have a task.
THEOREM BitmapCorrect == Spec => []BitmapExact
BY Invariance, PTL DEF IInv

\* The lists are no longer than the table, since they repeat no task.
LEMMA ListsBounded == IInv => QueuesAreLists
<1> SUFFICES ASSUME IInv, NEW p \in Prios
             PROVE  \E s \in TaskSeqs : IsList(p, s)
  BY DEF QueuesAreLists
<1>1. PICK s \in Seq(Tasks) : IsList(p, s)
  BY DEF IInv, Lists
<1> DEFINE n == Len(s)
           T == Tasks \ {Idle}
<1>2. n \in Nat /\ s \in [1..n -> Tasks]
  OBVIOUS
<1>3. s \in [1..n -> T]
  <2>1. \A i \in 1..n : s[i] \in Tasks /\ Queued(s[i], p)
    BY <1>1, <1>2 DEF IsList
  <2>2. \A i \in 1..n : s[i] # Idle
    BY <2>1 DEF Queued, IInv, TaskStates
  <2> QED
    BY <1>2, <2>1, <2>2
<1>4. T = 1..(MAX_TASKS - 1) /\ MAX_TASKS - 1 \in Nat
  BY SchedulerAssumption DEF Tasks, Idle
<1>5. IsFiniteSet(T) /\ Cardinality(T) = MAX_TASKS - 1
  <2>1. LET m == MAX_TASKS - 1
        IN  IsFiniteSet(1..m) /\ Cardinality(1..m) = m
    BY <1>4, FS_Interval
  <2> QED
    BY <1>4, <2>1
<1>6. IsFiniteSet(1..n) /\ Cardinality(1..n) = n
  BY <1>2, FS_Interval
<1>7. ~(MAX_TASKS - 1 < n)
  <2> SUFFICES ASSUME Cardinality(T) < Cardinality(1..n)
               PROVE  FALSE
    BY <1>5, <1>6
  <2>1. \E x, y \in 1..n : x # y /\ s[x] = s[y]
    BY <1>3, <1>5, <1>6, FS_PigeonHole
  <2> QED
    BY <1>1, <2>1 DEF IsList, List
<1>8. n \in 0..(MAX_TASKS - 1)
  BY <1>2, <1>4, <1>7
<1> QED
  BY <1>1, <1>3, <1>8 DEF TaskSeqs

\* The pointers of kernel/tasks.c always form one well-formed list per
\* priority, of exactly the tasks that are ready at it.
THEOREM QueuesCorrect == Spec => []QueuesAreLists
BY Invariance, ListsBounded, PTL

\* A slot of the task table is not reused under the feet of its last task.
THEOREM NoEarlyReuseCorrect == Spec => NoEarlyReuse
<1>1. IInv /\ [Next]_vars => [NoEarlyReuseStep]_vars
  <2> SUFFICES ASSUME IInv, Next, NEW t \in Tasks, status[t] = "INVALID",
                      status'[t] # "INVALID"
               PROVE  ctx = "task" /\ t # current_task /\ t # old_task
    BY DEF NoEarlyReuseStep
  <2>1. t # current_task
    BY DEF IInv, TaskStates
  <2>2. ASSUME scheduler, ctx # "switch" PROVE FALSE
    <3>1. CASE Keep
      BY <3>1 DEF Keep
    <3>2. CASE SwitchToIdle
      BY <2>1, <3>2 DEF SwitchToIdle, IInv, TypeOK
    <3>3. ASSUME NEW p \in Prios, SwitchToFirst(p) PROVE FALSE
      <4>1. first[p] # NULL
        BY <3>3 DEF SwitchToFirst, Highest, IInv, BitmapExact
      <4>2. status[first[p]] = "READY"
        BY <4>1, QueueEnds DEF IInv, Queued
      <4> QED
        BY <2>1, <3>3, <4>2 DEF SwitchToFirst, IInv, TypeOK
    <3> QED
      BY <2>2, <3>1, <3>2, <3>3 DEF scheduler
  <2>3. ASSUME NEW p \in 0..(MAX_PRIO + 1), NEW ok \in BOOLEAN,
               create_kernel_task(p, ok)
        PROVE  ctx = "task"
    BY <2>3 DEF create_kernel_task
  <2>4. ASSUME NEW u \in Tasks, wakeup_task(u) PROVE FALSE
    BY <2>4 DEF wakeup_task, IInv, TypeOK
  <2>5. ASSUME block_current_task PROVE FALSE
    BY <2>1, <2>5 DEF block_current_task, IInv, TypeOK
  <2>6. ASSUME reschedule \/ irq_leave PROVE FALSE
    BY <2>2, <2>6 DEF reschedule, irq_leave, tableVars
  <2>7. ASSUME do_exit_count \/ do_exit_finish PROVE FALSE
    BY <2>1, <2>7 DEF do_exit_count, do_exit_finish, tableVars, IInv, TypeOK
  <2>8. ASSUME finish_task_switch PROVE FALSE
    BY <2>8 DEF finish_task_switch
  <2>9. ASSUME NEW kind \in {"timer", "device"}, irq_enter(kind) PROVE FALSE
    BY <2>9 DEF irq_enter, tableVars
  <2>10. ctx = "task"
    BY <2>3, <2>4, <2>5, <2>6, <2>7, <2>8, <2>9 DEF Next
  <2>11. old_task = NULL
    BY <2>10 DEF IInv, TaskStates
  <2> QED
    BY <2>1, <2>10, <2>11, Constants
<1> QED
  BY <1>1, Invariance, PTL DEF Spec, NoEarlyReuse

-----------------------------------------------------------------------------
(***************************************************************************)
(* Strict priorities need one more invariant: between scheduler and        *)
(* finish_task_switch, neither a queue nor old_task holds a task of higher *)
(* priority than the task that is being switched to.                       *)
(***************************************************************************)
SwitchInv ==
  ctx = "switch" /\ status[current_task] = "RUNNING" =>
    /\ \A p \in prio_bitmap : p <= prio[current_task]
    /\ old_task # NULL /\ status[old_task] = "READY" =>
         prio[old_task] <= prio[current_task]

\* A queued task has its bit set.
QueuedHasBit ==
  \A t \in Tasks, p \in Prios : Queued(t, p) => p \in prio_bitmap

\* A queued task has its bit in prio_bitmap.
LEMMA QueuedBit == IInv => QueuedHasBit
BY QueueEnds DEF IInv, BitmapExact, QueuedHasBit

\* What scheduler leaves behind when it lets the current task continue, and
\* when it switches.
LEMMA SchedulerPriority ==
  ASSUME IInv, scheduler, ctx # "switch"
  PROVE  /\ SwitchInv'
         /\ status'[current_task'] = "RUNNING" =>
              \A p \in prio_bitmap' : p <= prio'[current_task']
<1>1. UNCHANGED prio /\ current_task \in Tasks /\ status \in [Tasks -> Statuses]
      /\ prio_bitmap \subseteq Prios /\ prio \in [Tasks -> 0..MAX_PRIO]
      /\ MAX_PRIO \in Nat
  BY SchedulerAssumption DEF scheduler, IInv, TypeOK
<1>2. CASE Keep
  <2>1. status[current_task] = "RUNNING" =>
          \A p \in prio_bitmap : p <= prio[current_task]
    <3>1. CASE prio_bitmap = {}
      BY <3>1
    <3>2. ASSUME NEW p \in Prios, Highest(p), prio[current_task] > p
          PROVE  \A q \in prio_bitmap : q <= prio[current_task]
      BY <1>1, <3>2 DEF Highest, Prios
    <3> QED
      BY <1>2, <3>1, <3>2 DEF Keep
  <2> QED
    BY <1>1, <1>2, <2>1 DEF Keep, SwitchInv
<1>3. CASE SwitchToIdle
  BY <1>1, <1>3, Constants DEF SwitchToIdle, SwitchInv, IInv, TaskStates
<1>4. ASSUME NEW p \in Prios, SwitchToFirst(p)
      PROVE  /\ SwitchInv'
             /\ \A q \in prio_bitmap' : q <= prio'[current_task']
  <2> DEFINE new == first[p]
  <2>1. first[p] # NULL
    BY <1>4 DEF SwitchToFirst, Highest, IInv, BitmapExact
  <2>2. new \in Tasks /\ prio[new] = p
    BY <2>1, QueueEnds DEF IInv, Queued
  <2>3. current_task' = new /\ prio_bitmap' \subseteq prio_bitmap
    BY <1>4 DEF SwitchToFirst
  <2>4. \A q \in prio_bitmap' : q <= prio'[current_task']
    BY <1>1, <1>4, <2>2, <2>3 DEF SwitchToFirst, Highest
  <2>5. old_task' # NULL /\ status'[old_task'] = "READY" =>
          prio'[old_task'] <= prio'[current_task']
    <3> SUFFICES ASSUME old_task' # NULL, status'[old_task'] = "READY"
                 PROVE  prio[old_task'] <= p
      BY <1>1, <2>2, <2>3
    <3>1. old_task' = current_task
      BY <1>4 DEF SwitchToFirst
    <3>2. status[current_task] = "RUNNING"
      <4>1. Reaped # "READY" \/ status[current_task] = "READY"
        BY DEF Reaped
      <4> QED
        BY <1>1, <1>4, <2>2, <3>1, <4>1 DEF SwitchToFirst, Reaped
    <3> QED
      BY <1>1, <1>4, <3>1, <3>2 DEF SwitchToFirst, Prios
  <2> QED
    BY <2>4, <2>5 DEF SwitchInv
<1> QED
  BY <1>2, <1>3, <1>4 DEF scheduler

\* SwitchInv is established by scheduler, and nothing but finish_task_switch
\* happens while it is needed.
LEMMA NextSwitchInv == IInv /\ SwitchInv /\ [Next]_vars => SwitchInv'
<1> SUFFICES ASSUME IInv, SwitchInv, [Next]_vars PROVE SwitchInv'
  OBVIOUS
<1>1. CASE scheduler /\ ctx # "switch"
  BY <1>1, SchedulerPriority
<1>2. CASE ctx' # "switch"
  BY <1>2 DEF SwitchInv
<1>3. CASE UNCHANGED vars
  BY <1>3 DEF vars, tableVars, queueVars, SwitchInv
<1>4. Next => ctx' # "switch" \/ (scheduler /\ ctx # "switch")
  BY DEF Next, create_kernel_task, create_task, wakeup_task,
         block_current_task, reschedule, do_exit_count, do_exit_finish,
         finish_task_switch, irq_enter, irq_leave
<1> QED
  BY <1>1, <1>2, <1>3, <1>4

\* Returning from an interrupt or a context switch, the kernel never resumes a
\* task while one of higher priority is ready.
THEOREM StrictPriorityCorrect == Spec => StrictPriority
<1>1. IInv /\ SwitchInv /\ [Next]_vars => [StrictPriorityStep]_vars
  <2> SUFFICES ASSUME IInv, SwitchInv, IInv', Next, ctx # "task", ctx' = "task",
                      status'[current_task'] = "RUNNING",
                      NEW t \in Tasks, NEW p \in Prios, Queued(t, p)'
               PROVE  p <= prio'[current_task']
    BY NextIInv DEF StrictPriorityStep
  <2>1. p \in prio_bitmap'
    <3>1. QueuedHasBit'
      BY QueuedBit, PTL
    <3> QED
      BY <3>1 DEF QueuedHasBit
  <2>2. CASE irq_leave /\ scheduler
    BY <2>1, <2>2, SchedulerPriority DEF irq_leave
  <2>3. CASE irq_leave /\ ~scheduler
    <3>1. ~higher_priority /\ UNCHANGED <<prio, prio_bitmap, current_task>>
      BY <2>3 DEF irq_leave, tableVars, queueVars
    <3>2. prio[current_task] \in Nat /\ p \in Nat
      BY SchedulerAssumption DEF IInv, TypeOK, Prios
    <3> QED
      BY <2>1, <3>1, <3>2 DEF higher_priority
  <2>4. CASE finish_task_switch
    <3>1. /\ ctx = "switch" /\ UNCHANGED <<status, prio, current_task>>
          /\ \/ prio_bitmap' = prio_bitmap
             \/ /\ old_task # NULL /\ status[old_task] # "INVALID"
                /\ prio_bitmap' = prio_bitmap \cup {prio[old_task]}
      BY <2>4 DEF finish_task_switch
    <3>2. old_task # NULL => status[old_task] \in {"READY", "INVALID"}
      BY DEF IInv, TaskStates
    <3> QED
      BY <2>1, <3>1, <3>2 DEF SwitchInv
  <2>5. irq_leave \/ finish_task_switch
    BY DEF Next, create_kernel_task, create_task, wakeup_task,
           block_current_task, reschedule, do_exit_count, do_exit_finish,
           irq_enter
  <2> QED
    BY <2>2, <2>3, <2>4, <2>5
<1>2. Init => SwitchInv
  BY DEF Init, SwitchInv
<1> QED
  BY <1>1, <1>2, Invariance, NextSwitchInv, PTL DEF Spec, StrictPriority

-----------------------------------------------------------------------------
(***************************************************************************)
(* The task counter.                                                       *)
(***************************************************************************)

\* One task becomes active, one stops being active, or none does.
LEMMA CountStep ==
  ASSUME NrTasksExact, NEW t \in Tasks,
         \/ /\ ActiveTasks' = ActiveTasks \cup {t} /\ t \notin ActiveTasks
            /\ nr_tasks' = nr_tasks + 1
         \/ /\ ActiveTasks' = ActiveTasks \ {t} /\ t \in ActiveTasks
            /\ nr_tasks' = nr_tasks - 1
         \/ /\ ActiveTasks' = ActiveTasks
            /\ nr_tasks' = nr_tasks
  PROVE  NrTasksExact'
<1>1. IsFiniteSet(Tasks)
  BY SchedulerAssumption, FS_Interval DEF Tasks
<1>2. IsFiniteSet(ActiveTasks)
  BY <1>1, FS_Subset DEF ActiveTasks
<1>3. Cardinality(ActiveTasks \cup {t}) =
        IF t \in ActiveTasks THEN Cardinality(ActiveTasks)
        ELSE Cardinality(ActiveTasks) + 1
  BY <1>2, FS_AddElement
<1>4. Cardinality(ActiveTasks \ {t}) =
        IF t \in ActiveTasks THEN Cardinality(ActiveTasks) - 1
        ELSE Cardinality(ActiveTasks)
  BY <1>2, FS_RemoveElement
<1> QED
  BY <1>3, <1>4 DEF NrTasksExact

\* scheduler exchanges which tasks run, not which are active.
LEMMA SchedulerActive ==
  ASSUME IInv, scheduler, ctx # "switch", PcStep
  PROVE  ActiveTasks' = ActiveTasks /\ nr_tasks' = nr_tasks
<1> DEFINE c == current_task
<1>1. /\ c \in Tasks /\ status \in [Tasks -> Statuses] /\ nr_tasks' = nr_tasks
      /\ pc \in [Tasks -> PCs] /\ status[c] # "INVALID"
  BY DEF scheduler, IInv, TypeOK, TaskStates
<1>2. \A u \in Tasks : pc'[u] \in {"run", "resched"}
                         <=> pc[u] \in {"run", "resched"}
  BY <1>1 DEF PcStep
<1>3. \A u \in Tasks : status'[u] \in {"READY", "RUNNING"}
                         <=> status[u] \in {"READY", "RUNNING"}
  <2>1. CASE Keep
    BY <2>1 DEF Keep
  <2>2. CASE SwitchToIdle
    BY <1>1, <2>2 DEF SwitchToIdle, Reaped
  <2>3. ASSUME NEW p \in Prios, SwitchToFirst(p),
               NEW u \in Tasks
        PROVE  status'[u] \in {"READY", "RUNNING"}
                 <=> status[u] \in {"READY", "RUNNING"}
    <3>1. first[p] \in Tasks /\ status[first[p]] = "READY"
      BY <2>3, QueueEnds
      DEF SwitchToFirst, Highest, IInv, BitmapExact, Queued
    <3> QED
      BY <1>1, <2>3, <3>1 DEF SwitchToFirst, Reaped
  <2> QED
    BY <2>1, <2>2, <2>3 DEF scheduler
<1> QED
  BY <1>1, <1>2, <1>3 DEF ActiveTasks

\* nr_tasks always equals the number of active tasks.
THEOREM NrTasksCorrect == Spec => []NrTasksExact
<1>1. Init => NrTasksExact
  <2> SUFFICES ASSUME Init PROVE NrTasksExact
    OBVIOUS
  <2>1. ActiveTasks = {}
    BY DEF Init, ActiveTasks
  <2> QED
    BY <2>1, FS_EmptySet DEF Init, NrTasksExact
<1>2. IInv /\ NrTasksExact /\ [Next]_vars => NrTasksExact'
  <2> SUFFICES ASSUME IInv, NrTasksExact, [Next]_vars PROVE NrTasksExact'
    OBVIOUS
  <2> DEFINE c == current_task
  <2>1. c \in Tasks
    BY DEF IInv, TypeOK
  <2>2. ASSUME NEW p \in 0..(MAX_PRIO + 1), NEW ok \in BOOLEAN,
               create_kernel_task(p, ok)
        PROVE  NrTasksExact'
    <3>1. PICK i \in Tasks :
            /\ status[i] = "INVALID"
            /\ status' = [status EXCEPT ![i] = "READY"]
            /\ \/ nr_tasks' = nr_tasks + 1 /\ pc' = [pc EXCEPT ![i] = "run"]
               \/ nr_tasks' = nr_tasks /\ pc' = [pc EXCEPT ![i] = "nomem"]
      BY <2>2 DEF create_kernel_task, create_task, FirstInvalid
    <3>2. CASE nr_tasks' = nr_tasks + 1 /\ pc' = [pc EXCEPT ![i] = "run"]
      <4>1. ActiveTasks' = ActiveTasks \cup {i} /\ i \notin ActiveTasks
        BY <3>1, <3>2 DEF ActiveTasks, IInv, TypeOK
      <4> QED
        BY <3>2, <4>1, CountStep
    <3>3. CASE nr_tasks' = nr_tasks /\ pc' = [pc EXCEPT ![i] = "nomem"]
      <4>1. ActiveTasks' = ActiveTasks
        BY <3>1, <3>3 DEF ActiveTasks, IInv, TypeOK
      <4> QED
        BY <3>3, <4>1, CountStep
    <3> QED
      BY <3>1, <3>2, <3>3
  <2>3. ASSUME NEW t \in Tasks, wakeup_task(t)
        PROVE  NrTasksExact'
    <3>1. ActiveTasks' = ActiveTasks \cup {t} /\ t \notin ActiveTasks
      BY <2>3 DEF wakeup_task, ActiveTasks, IInv, TypeOK, TaskStates
    <3> QED
      BY <2>3, <3>1, CountStep DEF wakeup_task
  <2>4. CASE block_current_task
    <3>1. CASE status[c] = "RUNNING"
      <4>1. ActiveTasks' = ActiveTasks \ {c} /\ c \in ActiveTasks
        BY <2>1, <2>4, <3>1 DEF block_current_task, ActiveTasks, IInv, TypeOK
      <4> QED
        BY <2>1, <2>4, <3>1, <4>1, CountStep DEF block_current_task
    <3>2. CASE status[c] # "RUNNING"
      <4>1. ActiveTasks' = ActiveTasks
        BY <2>1, <2>4, <3>2 DEF block_current_task, ActiveTasks, IInv, TypeOK
      <4> QED
        BY <2>1, <2>4, <3>2, <4>1, CountStep DEF block_current_task
    <3> QED
      BY <3>1, <3>2
  <2>5. CASE reschedule
    BY <2>1, <2>5, SchedulerActive, CountStep DEF reschedule, PcStep
  <2>6. CASE do_exit_count
    <3>1. status[c] = "RUNNING"
      BY <2>6 DEF do_exit_count, IInv, TypeOK, TaskStates
    <3>2. ActiveTasks' = ActiveTasks \ {c} /\ c \in ActiveTasks
      BY <2>1, <2>6, <3>1
      DEF do_exit_count, tableVars, ActiveTasks, IInv, TypeOK
    <3> QED
      BY <2>1, <2>6, <3>2, CountStep DEF do_exit_count
  <2>7. CASE do_exit_finish
    <3>1. ActiveTasks' = ActiveTasks /\ nr_tasks' = nr_tasks
      BY <2>1, <2>7 DEF do_exit_finish, queueVars, ActiveTasks, IInv, TypeOK
    <3> QED
      BY <2>1, <3>1, CountStep
  <2>8. CASE irq_leave /\ scheduler /\ UNCHANGED pc
    BY <2>1, <2>8, SchedulerActive, CountStep DEF irq_leave, PcStep
  <2>9. CASE UNCHANGED <<status, pc, nr_tasks>>
    BY <2>9 DEF NrTasksExact, ActiveTasks
  <2>10. CASE UNCHANGED vars
    BY <2>9, <2>10 DEF vars, tableVars, queueVars
  <2>11. CASE finish_task_switch \/ \E kind \in {"timer", "device"} : irq_enter(kind)
    BY <2>9, <2>11 DEF finish_task_switch, irq_enter, tableVars, queueVars
  <2>12. CASE irq_leave
    BY <2>8, <2>9, <2>12 DEF irq_leave, tableVars, queueVars
  <2> QED
    BY <2>2, <2>3, <2>4, <2>5, <2>6, <2>7, <2>10, <2>11, <2>12 DEF Next
<1> QED
  BY <1>1, <1>2, Invariance, PTL DEF Spec
=============================================================================
