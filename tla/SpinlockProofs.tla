---------------------------- MODULE SpinlockProofs ----------------------------
(***************************************************************************)
(* For every number of tasks, of priorities and of ticket values that is   *)
(* not below the number of tasks: at most one task holds the lock, and the *)
(* tickets of those that hold or want it are consecutive.                  *)
(***************************************************************************)
EXTENDS Spinlock, SchedulerProofs

\* The remainders that occur, without division: of the next value of a counter, of
\* the difference of two, and of the difference of the next value and another.
LEMMA Wrapped ==
  ASSUME NEW T \in Nat \ {0}, NEW x \in 0..(T - 1)
  PROVE  (x + 1) % T = IF x + 1 = T THEN 0 ELSE x + 1
<1>1. CASE x + 1 = T
  BY <1>1, SMT
<1>2. CASE x + 1 # T
  BY <1>2, SMT
<1>3. QED
  BY <1>1, <1>2

\* The distance of two counters modulo their number of values.
LEMMA Difference ==
  ASSUME NEW T \in Nat \ {0}, NEW x \in 0..(T - 1), NEW d \in 0..(T - 1)
  PROVE  (x - d) % T = IF x < d THEN x - d + T ELSE x - d
<1>1. CASE x < d
  BY <1>1, SMT
<1>2. CASE ~(x < d)
  BY <1>2, SMT
<1>3. QED
  BY <1>1, <1>2

\* The number of tickets in use, modulo the same.
LEMMA NextDifference ==
  ASSUME NEW T \in Nat \ {0}, NEW x \in 0..(T - 1), NEW d \in 0..(T - 1)
  PROVE  (x + 1 - d) % T = IF x + 1 < d THEN x + 1 - d + T
                           ELSE IF x + 1 - d = T THEN 0 ELSE x + 1 - d
<1>1. CASE x + 1 < d
  BY <1>1, SMT
<1>2. CASE x + 1 - d = T
  BY <1>2, SMT
<1>3. CASE ~(x + 1 < d) /\ x + 1 - d < T
  BY <1>3, SMT
<1>4. QED
  BY <1>1, <1>2, <1>3

\* The arithmetic of the counters: the ticket after x, how far x is from d, how many
\* tickets are in use, and a number that a counter shows.
After(x) == (x + 1) % TICKETS
Off(x, d) == (x - d) % TICKETS
InUse(q, d) == (q + 1 - d) % TICKETS
Shown(k) == k % TICKETS

Counters == 0..(TICKETS - 1)

\* Taking the ticket after q while k tickets are in use, from d on.
LEMMA TakeTicket ==
  ASSUME NEW q \in Counters, NEW d \in Counters, NEW k \in Counters, InUse(q, d) = Shown(k),
         NEW m \in Nat, m = k + 1
  PROVE  /\ After(q) \in Counters
         /\ Off(After(q), d) = k
         /\ InUse(After(q), d) = Shown(m)
<1> DEFINE T == TICKETS
           r == After(q)
<1>0. T \in Nat \ {0} /\ Counters = 0..(T - 1) /\ (q + 1 - d) % T = k % T
  BY SpinlockAssumption DEF Counters, InUse, Shown
<1>1. k % T = k
  BY <1>0
<1>2. r = IF q + 1 = T THEN 0 ELSE q + 1
  BY <1>0, Wrapped DEF After
<1>3. k = IF q + 1 < d THEN q + 1 - d + T ELSE IF q + 1 - d = T THEN 0 ELSE q + 1 - d
  BY <1>0, <1>1, NextDifference
<1>4. Shown(m) = IF k + 1 = T THEN 0 ELSE k + 1
  BY <1>0, Wrapped DEF Shown
<1> HIDE DEF r
<1>5. r \in 0..(T - 1)
  BY <1>0, <1>2
<1>6. Off(r, d) = IF r < d THEN r - d + T ELSE r - d
  BY <1>0, <1>5, Difference DEF Off
<1>7. InUse(r, d) = IF r + 1 < d THEN r + 1 - d + T
                    ELSE IF r + 1 - d = T THEN 0 ELSE r + 1 - d
  BY <1>0, <1>5, NextDifference DEF InUse
<1>8. QED
  BY <1>0, <1>2, <1>3, <1>4, <1>5, <1>6, <1>7 DEF r

\* Calling up the next ticket: the distance of ticket x shrinks by one, and one
\* ticket less is in use.
LEMMA CallTicket ==
  ASSUME NEW d \in Counters
  PROVE  /\ After(d) \in Counters
         /\ \A x \in Counters : x # d => /\ Off(x, d) \in 1..(TICKETS - 1)
                                        /\ Off(x, After(d)) = Off(x, d) - 1
         /\ \A q \in Counters, k \in 1..TICKETS, m \in Nat :
              InUse(q, d) = Shown(k) /\ k = m + 1 => InUse(q, After(d)) = Shown(m)
<1> DEFINE T == TICKETS
           e == After(d)
<1>0. T \in Nat \ {0} /\ Counters = 0..(T - 1)
  BY SpinlockAssumption DEF Counters
<1>1. e = IF d + 1 = T THEN 0 ELSE d + 1
  BY <1>0, Wrapped DEF After
<1> HIDE DEF e
<1>2. e \in 0..(T - 1)
  BY <1>0, <1>1
<1>3. ASSUME NEW x \in Counters, x # d
      PROVE  Off(x, d) \in 1..(T - 1) /\ Off(x, e) = Off(x, d) - 1
  <2>1. Off(x, d) = IF x < d THEN x - d + T ELSE x - d
    BY <1>0, Difference DEF Off
  <2>2. Off(x, e) = IF x < e THEN x - e + T ELSE x - e
    BY <1>0, <1>2, Difference DEF Off
  <2>3. QED
    BY <1>0, <1>1, <1>3, <2>1, <2>2
<1>4. ASSUME NEW q \in Counters, NEW k \in 1..T, NEW m \in Nat, InUse(q, d) = Shown(k), k = m + 1
      PROVE  InUse(q, e) = Shown(m)
  <2>1. InUse(q, d) = IF q + 1 < d THEN q + 1 - d + T
                      ELSE IF q + 1 - d = T THEN 0 ELSE q + 1 - d
    BY <1>0, NextDifference DEF InUse
  <2>2. InUse(q, e) = IF q + 1 < e THEN q + 1 - e + T
                      ELSE IF q + 1 - e = T THEN 0 ELSE q + 1 - e
    BY <1>0, <1>2, NextDifference DEF InUse
  <2>3. Shown(k) = IF k = T THEN 0 ELSE k
    BY <1>0, SMT DEF Shown
  <2>4. Shown(m) = m
    BY <1>0, <1>4, SMT DEF Shown
  <2>5. q \in 0..(T - 1) /\ d \in 0..(T - 1) /\ T \in Nat \ {0} /\ k \in 1..T
    BY <1>0
  <2> HIDE DEF T
  <2>6. QED
    BY <1>1, <1>4, <2>1, <2>2, <2>3, <2>4, <2>5
<1>5. QED
  BY <1>0, <1>2, <1>3, <1>4 DEF e

-----------------------------------------------------------------------------
\* The types of the lock's own variables.
LockTypeOK ==
  /\ queue \in 0..(TICKETS - 1)
  /\ dequeue \in 0..(TICKETS - 1)
  /\ owner \in Tasks \cup {NoOwner}
  /\ counter \in 0..MaxNest
  /\ ticket \in [Tasks -> 0..(TICKETS - 1)]
  /\ lpc \in [Tasks -> LockPCs]
  /\ irqoff \in BOOLEAN

\* Who has left the loop is being served, no two tasks have the same ticket, and
\* the owner has entered once at least.
Served ==
  /\ \A t \in Tasks : Holding(t) => Turn(t)
  /\ \A t, u \in Contenders : ticket[t] = ticket[u] => t = u
  /\ \A t \in Tasks : lpc[t] = "in" => counter >= 1

\* The inductive invariant.
LockInv == LockTypeOK /\ Served /\ TicketsConsecutive

\* The types of the constants.
LEMMA SpinConstants ==
  /\ TICKETS \in Nat \ {0} /\ MaxNest \in Nat \ {0} /\ MAX_TASKS \in Nat \ {0}
  /\ MAX_TASKS <= TICKETS
  /\ IsFiniteSet(Tasks) /\ Cardinality(Tasks) = MAX_TASKS
<1>1. IsFiniteSet(Tasks) /\ Cardinality(Tasks) = MAX_TASKS
  BY FS_Interval, SchedulerAssumption DEF Tasks
<1>2. QED
  BY <1>1, SpinlockAssumption, SchedulerAssumption

\* Two tasks that hold the lock have the same ticket.
LEMMA OneHolder == LockInv => MutualExclusion
BY DEF LockInv, Served, MutualExclusion, Holding, Turn, Contenders

\* The tasks that use the lock are finitely many.
LEMMA ContendersFinite ==
  /\ IsFiniteSet(Contenders)
  /\ Cardinality(Contenders) \in 0..MAX_TASKS
  /\ \A t \in Tasks \ Contenders : Cardinality(Contenders) < MAX_TASKS
<1>1. Contenders \subseteq Tasks
  BY DEF Contenders
<1>2. IsFiniteSet(Contenders) /\ Cardinality(Contenders) <= MAX_TASKS
  BY <1>1, SpinConstants, FS_Subset
<1>3. ASSUME NEW t \in Tasks \ Contenders PROVE Cardinality(Contenders) < MAX_TASKS
  <2>1. Contenders # Tasks
    BY <1>3
  <2>2. Cardinality(Contenders) # MAX_TASKS
    BY <1>1, <2>1, SpinConstants, FS_Subset
  <2>3. QED
    BY <1>2, <2>2, SpinConstants, FS_CardinalityType
<1>4. QED
  BY <1>2, <1>3, SpinConstants, FS_CardinalityType

\* A step that leaves the tickets alone and changes neither who uses the lock.
LEMMA SameTickets ==
  ASSUME TicketsConsecutive, UNCHANGED <<queue, dequeue, ticket>>, Contenders' = Contenders
  PROVE  TicketsConsecutive'
BY DEF TicketsConsecutive, Distance

\* The invariant holds at first.
LEMMA LockInit == SpinInit => LockInv
<1> SUFFICES ASSUME SpinInit PROVE LockInv
  OBVIOUS
<1>1. dequeue \in 0..(TICKETS - 1)
  BY SpinConstants DEF SpinInit, spinlock_init
<1>2. LockTypeOK
  <2>1. queue = 0 /\ owner = NoOwner /\ counter = 0
    BY DEF SpinInit, spinlock_init
  <2>2. ticket \in [Tasks -> 0..(TICKETS - 1)]
    BY SpinConstants DEF SpinInit
  <2>3. lpc \in [Tasks -> LockPCs] /\ irqoff \in BOOLEAN
    BY DEF SpinInit, LockPCs
  <2>4. QED
    BY <1>1, <2>1, <2>2, <2>3, SpinConstants DEF LockTypeOK
<1>3. Contenders = {}
  BY DEF SpinInit, Contenders
<1>4. Served
  BY <1>3 DEF SpinInit, Served, Holding
<1>5. TicketsConsecutive
  <2>1. Cardinality(Contenders) = 0
    BY <1>3, FS_EmptySet
  <2>2. {Distance(t) : t \in Contenders} = 0..(0 - 1)
    BY <1>3
  <2>3. (0 + 1 - dequeue) % TICKETS = 0 % TICKETS
    <3>1. CASE TICKETS = 1
      <4>1. dequeue = 0
        BY <3>1 DEF SpinInit, spinlock_init
      <4>2. QED
        BY <3>1, <4>1
    <3>2. CASE TICKETS # 1
      <4>1. dequeue = 1
        BY <3>2, SpinConstants DEF SpinInit, spinlock_init
      <4>2. QED
        BY <4>1
    <3>3. QED
      BY <3>1, <3>2
  <2>4. queue = 0
    BY DEF SpinInit, spinlock_init
  <2>5. QED
    BY <2>1, <2>2, <2>3, <2>4 DEF TicketsConsecutive
<1>6. QED
  BY <1>2, <1>4, <1>5 DEF LockInv

-----------------------------------------------------------------------------
\* spinlock_lock: the task's ticket follows the last one.
LEMMA JoinInv ==
  ASSUME LockInv, TypeOK, NEW mode, spinlock_lock(mode)
  PROVE  LockInv'
<1> DEFINE c == current_task
           k == Cardinality(Contenders)
           m == k + 1
<1> USE SpinConstants
<1>1. c \in Tasks \ Contenders /\ lpc[c] = "out"
  BY DEF spinlock_lock, At, TypeOK, Contenders
<1>2. k \in 0..(TICKETS - 1)
  BY <1>1, ContendersFinite
<1>3. /\ queue' = After(queue) /\ queue' = ticket'[c] /\ dequeue' = dequeue
      /\ c' = c
  BY <1>1 DEF spinlock_lock, LockInv, LockTypeOK, vars, After
<1>4. /\ queue' \in Counters
      /\ Off(queue', dequeue) = k
      /\ InUse(queue', dequeue) = Shown(m)
  <2>1. InUse(queue, dequeue) = Shown(k)
    BY DEF LockInv, TicketsConsecutive, InUse, Shown
  <2>2. queue \in Counters /\ dequeue \in Counters /\ k \in Counters
    BY <1>2 DEF LockInv, LockTypeOK, Counters
  <2>3. m \in Nat /\ m = k + 1
    BY <1>2
  <2> HIDE DEF k, m
  <2>4. \A q, d, j \in Counters : \A i \in Nat : InUse(q, d) = Shown(j) /\ i = j + 1 =>
          After(q) \in Counters /\ Off(After(q), d) = j /\ InUse(After(q), d) = Shown(i)
    BY TakeTicket
  <2>5. /\ After(queue) \in Counters
        /\ Off(After(queue), dequeue) = k
        /\ InUse(After(queue), dequeue) = Shown(m)
    BY <2>1, <2>2, <2>3, <2>4, Zenon
  <2>6. QED
    BY <1>3, <2>5, Zenon
<1>5. Contenders' = Contenders \cup {c}
  BY <1>1 DEF spinlock_lock, Goto, Contenders, LockInv, LockTypeOK
<1>6. \A t \in Contenders : ticket'[t] = ticket[t] /\ Distance(t)' = Distance(t)
  BY <1>1, <1>3 DEF spinlock_lock, Distance, Contenders, LockInv, LockTypeOK
<1>7. Distance(c)' = k
  BY <1>3, <1>4 DEF Distance, Off
<1>8. Cardinality(Contenders') = k + 1
  BY <1>1, <1>5, ContendersFinite, FS_AddElement
<1>9. LockTypeOK'
  BY <1>1, <1>3, <1>4 DEF spinlock_lock, Goto, LockInv, LockTypeOK, LockPCs, Counters
<1>10. TicketsConsecutive'
  <2>1. {Distance(t) : t \in Contenders} = 0..(k - 1)
    BY DEF LockInv, TicketsConsecutive
  <2> DEFINE D(t) == Distance(t)
             E(t) == Distance(t)'
  <2>2. /\ \A t \in Contenders : E(t) = D(t)
        /\ E(c) = k
    BY <1>6, <1>7
  <2> HIDE DEF D, E, k, c
  <2>3. {E(t) : t \in Contenders \cup {c}} = {D(t) : t \in Contenders} \cup {k}
    BY <2>2
  <2>4. {E(t) : t \in Contenders'} = 0..k
    BY <1>2, <1>5, <2>1, <2>3 DEF D
  <2>5. QED
    BY <1>2, <1>3, <1>4, <1>8, <2>4 DEF TicketsConsecutive, E, InUse, Shown
<1>11. Served'
  <2>1. \A t \in Contenders : ticket[t] # queue'
    <3>1. ASSUME NEW t \in Contenders, ticket[t] = queue' PROVE FALSE
      <4>1. Distance(t) = k
        BY <1>4, <3>1 DEF Distance, Off
      <4>2. Distance(t) \in 0..(k - 1)
        BY DEF LockInv, TicketsConsecutive
      <4>3. QED
        BY <1>2, <4>1, <4>2
    <3>2. QED
      BY <3>1
  <2>2. \A t, u \in Contenders' : ticket'[t] = ticket'[u] => t = u
    BY <1>3, <1>5, <1>6, <2>1 DEF LockInv, Served
  <2>3. \A t \in Tasks : Holding(t)' => Holding(t) /\ t # c
    BY <1>1 DEF spinlock_lock, Goto, Holding, LockInv, LockTypeOK
  <2>4. \A t \in Tasks : Holding(t)' => Turn(t)'
    BY <1>3, <1>6, <2>3 DEF Turn, Holding, Contenders, LockInv, Served
  <2>5. \A t \in Tasks : lpc'[t] = "in" => counter' >= 1
    BY <1>1 DEF spinlock_lock, Goto, LockInv, LockTypeOK, Served
  <2>6. QED
    BY <2>2, <2>4, <2>5 DEF Served
<1>12. QED
  BY <1>9, <1>10, <1>11 DEF LockInv

\* The end of unlock: everyone else moves one place forward.
LEMMA Nearer ==
  ASSUME LockInv, TypeOK, advance
  PROVE  /\ Distance(current_task) = 0
         /\ \A t \in Contenders \ {current_task} :
              /\ ticket'[t] = ticket[t]
              /\ Distance(t) \in 1..(TICKETS - 1)
              /\ Distance(t)' = Distance(t) - 1
<1> DEFINE c == current_task
<1> USE SpinConstants
<1>1. c \in Contenders /\ lpc[c] = "free" /\ c \in Tasks /\ Contenders \subseteq Tasks
  BY DEF advance, At, TypeOK, Contenders
<1>2. dequeue \in Counters /\ \A t \in Tasks : ticket[t] \in Counters
  BY DEF LockInv, LockTypeOK, Counters
<1>3. ticket[c] = dequeue /\ \A t \in Contenders \ {c} : ticket[t] # dequeue
  BY <1>1 DEF LockInv, Served, Holding, Turn
<1>4. \A t \in Tasks \ {c} : ticket'[t] = ticket[t]
  BY <1>1 DEF advance, LockInv, LockTypeOK
<1>5. dequeue' = After(dequeue)
  BY DEF advance, NextTicket, After
<1>6. \A x \in Counters : x # dequeue =>
        /\ Off(x, dequeue) \in 1..(TICKETS - 1)
        /\ Off(x, dequeue') = Off(x, dequeue) - 1
  BY <1>2, <1>5, CallTicket
<1>7. \A t : Distance(t) = Off(ticket[t], dequeue) /\ Distance(t)' = Off(ticket'[t], dequeue')
  BY DEF Distance, Off
<1>8. Distance(c) = 0
  BY <1>2, <1>3 DEF Distance, Counters
<1>9. QED
  BY <1>1, <1>2, <1>3, <1>4, <1>6, <1>7, <1>8

\* spinlock_unlock: the next ticket is called up.
LEMMA LeaveInv ==
  ASSUME LockInv, TypeOK, advance
  PROVE  LockInv'
<1> DEFINE c == current_task
           k == Cardinality(Contenders)
           m == k - 1
<1> USE SpinConstants
<1>1. c \in Contenders /\ lpc[c] = "free" /\ c \in Tasks
  BY DEF advance, At, TypeOK, Contenders
<1>2. k \in 1..TICKETS
  <2>1. k # 0
    BY <1>1, ContendersFinite, FS_EmptySet
  <2>2. QED
    BY <2>1, ContendersFinite
<1>3. queue' = queue /\ dequeue' = After(dequeue)
  BY DEF advance, NextTicket, After
<1>4. /\ queue \in Counters /\ dequeue \in Counters
      /\ \A t \in Tasks : ticket[t] \in Counters
  BY DEF LockInv, LockTypeOK, Counters
<1>5. \A t \in Contenders \ {c} : /\ ticket'[t] = ticket[t]
                                   /\ Distance(t) \in 1..(TICKETS - 1)
                                   /\ Distance(t)' = Distance(t) - 1
  BY Nearer
<1>6. Contenders' = Contenders \ {c}
  BY <1>1 DEF advance, Goto, Contenders, LockInv, LockTypeOK
<1>7. dequeue' \in Counters /\ InUse(queue, dequeue') = Shown(m)
  <2>1. InUse(queue, dequeue) = Shown(k)
    BY DEF LockInv, TicketsConsecutive, InUse, Shown
  <2>2. m \in Nat /\ k = m + 1
    BY <1>2
  <2> HIDE DEF k, m
  <2>3. QED
    BY <1>2, <1>3, <1>4, <2>1, <2>2, CallTicket
<1>8. Cardinality(Contenders') = k - 1
  BY <1>1, <1>6, ContendersFinite, FS_RemoveElement
<1>9. LockTypeOK'
  <2>1. dequeue' \in 0..(TICKETS - 1)
    BY <1>7 DEF Counters
  <2>2. 0 \in 0..(TICKETS - 1)
    OBVIOUS
  <2>3. QED
    BY <1>1, <2>1, <2>2 DEF advance, Goto, LockInv, LockTypeOK, LockPCs
<1>10. TicketsConsecutive'
  <2>1. {Distance(t) : t \in Contenders} = 0..(k - 1)
    BY DEF LockInv, TicketsConsecutive
  <2> DEFINE D(t) == Distance(t)
             E(t) == Distance(t)'
  <2>2. /\ \A t \in Contenders \ {c} : D(t) \in 1..(TICKETS - 1) /\ E(t) = D(t) - 1
        /\ D(c) = 0
    BY <1>5, Nearer
  <2>3. {D(t) : t \in Contenders} = 0..(k - 1)
    BY <2>1
  <2> HIDE DEF D, E, k, c
  <2>4. \A t \in Contenders \ {c} : E(t) \in 0..(k - 2)
    BY <1>2, <2>2, <2>3
  <2>5. ASSUME NEW i \in 0..(k - 2) PROVE \E t \in Contenders \ {c} : E(t) = i
    <3>1. PICK t \in Contenders : D(t) = i + 1
      <4>1. i + 1 \in 0..(k - 1)
        BY <1>2
      <4>2. QED
        BY <2>3, <4>1
    <3>2. t # c
      BY <2>2, <3>1
    <3>3. QED
      BY <2>2, <3>1, <3>2
  <2>6. {E(t) : t \in Contenders'} = 0..(k - 2)
    BY <1>6, <2>4, <2>5
  <2>7. QED
    BY <1>2, <1>3, <1>7, <1>8, <2>6 DEF TicketsConsecutive, E, InUse, Shown
<1>11. Served'
  <2>1. \A t, u \in Contenders' : ticket'[t] = ticket'[u] => t = u
    BY <1>5, <1>6 DEF LockInv, Served
  <2>2. \A t \in Tasks : ~Holding(t)'
    BY <1>1, OneHolder DEF advance, Goto, Holding, LockInv, LockTypeOK, MutualExclusion
  <2>3. QED
    BY <2>1, <2>2 DEF Served, Holding
<1>12. QED
  BY <1>9, <1>10, <1>11 DEF LockInv

\* The steps in between move the current task alone, from one label to another
\* inside the critical section.
LEMMA InsideInv ==
  ASSUME LockInv, TypeOK,
         \/ spinlock_lock_nested \/ spinlock_unlock
         \/ spin \/ set_owner \/ set_counter \/ clear_owner
  PROVE  LockInv'
<1> DEFINE c == current_task
<1> USE SpinConstants
<1>1. c \in Tasks /\ lpc[c] \in LockPCs \ {"out"} /\ lpc'[c] \in LockPCs \ {"out"}
  BY DEF TypeOK, LockInv, LockTypeOK, LockPCs, spinlock_lock_nested, spinlock_unlock, spin,
         set_owner, set_counter, clear_owner, At, Goto
<1>2. lpc' \in [Tasks -> LockPCs] /\ \A t \in Tasks \ {c} : lpc'[t] = lpc[t]
  BY <1>1 DEF LockInv, LockTypeOK, LockPCs, spinlock_lock_nested, spinlock_unlock, spin,
              set_owner, set_counter, clear_owner, Goto
<1>3. UNCHANGED <<queue, dequeue, ticket, irqoff>>
  BY DEF spinlock_lock_nested, spinlock_unlock, spin, set_owner, set_counter, clear_owner
<1>4. Contenders' = Contenders
  BY <1>1, <1>2 DEF Contenders
<1>5. Turn(c)
  BY <1>1 DEF spinlock_lock_nested, spinlock_unlock, spin, set_owner, set_counter, clear_owner,
              At, Holding, LockInv, Served
<1>6. counter' \in 0..MaxNest /\ (lpc'[c] = "in" => counter' >= 1)
  BY <1>1 DEF spinlock_lock_nested, spinlock_unlock, spin, set_owner, set_counter, clear_owner,
              At, Goto, LockInv, LockTypeOK, Served
<1>7. \A t \in Tasks \ {c} : lpc[t] # "in" \/ counter' = counter
  <2>1. CASE spinlock_unlock \/ set_counter \/ spinlock_lock_nested
    BY <1>1, <2>1, OneHolder DEF spinlock_unlock, set_counter, spinlock_lock_nested, At, Holding,
                             MutualExclusion
  <2>2. CASE spin \/ set_owner \/ clear_owner
    BY <2>2 DEF spin, set_owner, clear_owner
  <2>3. QED
    BY <2>1, <2>2
<1>8. owner' \in Tasks \cup {NoOwner}
  BY <1>1 DEF spinlock_lock_nested, spinlock_unlock, spin, set_owner, set_counter, clear_owner,
              LockInv, LockTypeOK
<1>9. LockTypeOK'
  BY <1>2, <1>3, <1>6, <1>8 DEF LockInv, LockTypeOK
<1>10. Served'
  <2>1. \A t \in Tasks : Holding(t)' => Turn(t)'
    BY <1>2, <1>3, <1>5 DEF Holding, Turn, LockInv, Served
  <2>2. \A t \in Tasks : lpc'[t] = "in" => counter' >= 1
    BY <1>2, <1>6, <1>7 DEF LockInv, Served
  <2>3. QED
    BY <1>3, <1>4, <2>1, <2>2 DEF LockInv, Served
<1>11. QED
  BY <1>3, <1>4, <1>9, <1>10, SameTickets DEF LockInv

\* Every step preserves the invariant.
LEMMA LockNext == LockInv /\ TypeOK /\ [SpinNext]_lvars => LockInv'
<1> SUFFICES ASSUME LockInv, TypeOK, [SpinNext]_lvars PROVE LockInv'
  OBVIOUS
<1>1. CASE UNCHANGED lockVars
  <2>1. UNCHANGED <<queue, dequeue, owner, counter, ticket, lpc, irqoff>>
    BY <1>1 DEF lockVars
  <2>2. Contenders' = Contenders
    BY <2>1 DEF Contenders
  <2>3. LockTypeOK'
    BY <2>1 DEF LockInv, LockTypeOK
  <2>4. Served'
    BY <2>1, <2>2 DEF LockInv, Served, Holding, Turn
  <2>5. QED
    BY <2>1, <2>2, <2>3, <2>4, SameTickets DEF LockInv
<1>2. CASE \E mode \in LockModes : spinlock_lock(mode)
  BY <1>2, JoinInv
<1>3. CASE advance
  BY <1>3, LeaveInv
<1>4. CASE \/ spinlock_lock_nested \/ spinlock_unlock
           \/ spin \/ set_owner \/ set_counter \/ clear_owner
  BY <1>4, InsideInv
<1>5. QED
  BY <1>1, <1>2, <1>3, <1>4 DEF SpinNext, LockStep, Kernel, lvars

\* No step moves a waiting task away from its turn.
LEMMA NotFurther == LockInv /\ TypeOK /\ [SpinNext]_lvars => [NoOvertakingStep]_lvars
<1> SUFFICES ASSUME LockInv, TypeOK, SpinNext, NEW t \in Tasks, lpc[t] = "spin", lpc'[t] = "spin"
             PROVE  Distance(t)' <= Distance(t)
  BY DEF NoOvertakingStep
<1>1. Distance(t) \in Int
  BY SpinConstants DEF Distance, LockInv, LockTypeOK
<1>2. CASE advance
  <2>1. t \in Contenders \ {current_task}
    BY <1>2 DEF Contenders, advance, At
  <2>2. QED
    BY <1>1, <1>2, <2>1, Nearer
<1>3. CASE dequeue' = dequeue /\ ticket'[t] = ticket[t]
  BY <1>1, <1>3 DEF Distance
<1>4. CASE \E mode \in LockModes : spinlock_lock(mode)
  BY <1>3, <1>4 DEF spinlock_lock, At, LockInv, LockTypeOK
<1>5. QED
  BY <1>2, <1>3, <1>4 DEF SpinNext, LockStep, Kernel, lockVars, spinlock_lock_nested, spinlock_unlock,
                          spin, set_owner, set_counter, clear_owner

-----------------------------------------------------------------------------
\* The lock leaves the scheduler as it is: every step is one of the scheduler's or
\* changes nothing that it knows of.
THEOREM SpinlockSchedules == SpinSpec => Spec
<1>1. SpinInit => Init
  BY DEF SpinInit
<1>2. [SpinNext]_lvars => [Next]_vars
  <2> SUFFICES ASSUME [SpinNext]_lvars PROVE [Next]_vars
    OBVIOUS
  <2>1. CASE Kernel
    <3>1. Prios \subseteq 0..(MAX_PRIO + 1)
      BY SchedulerAssumption DEF Prios
    <3>2. QED
      BY <2>1, <3>1 DEF Kernel, Next
  <2>2. CASE UNCHANGED vars
    BY <2>2
  <2>3. QED
    BY <2>1, <2>2 DEF SpinNext, LockStep, spinlock_lock_nested, spinlock_lock, spinlock_unlock,
                  spin, set_owner, set_counter, clear_owner, advance, lvars
<1>3. QED
  BY <1>1, <1>2, PTL DEF SpinSpec, Spec

\* At most one task is in the critical section, wherever interrupts preempt the
\* steps of spinlock_lock and spinlock_unlock.
THEOREM SpinlockCorrect == SpinSpec => [](SpinTypeOK /\ MutualExclusion)
<1>1. LockInv /\ TypeOK => SpinTypeOK /\ MutualExclusion
  BY OneHolder DEF LockInv, LockTypeOK, SpinTypeOK
<1>2. QED
  BY <1>1, LockInit, LockNext, SpinlockSchedules, TypeCorrect, PTL DEF SpinSpec

\* The tickets that tasks hold are the ones from dequeue to queue, each held once,
\* also while the counters wrap around.
THEOREM TicketsCorrect == SpinSpec => []TicketsConsecutive
<1>1. LockInv => TicketsConsecutive
  BY DEF LockInv
<1>2. QED
  BY <1>1, LockInit, LockNext, SpinlockSchedules, TypeCorrect, PTL DEF SpinSpec

\* No step of any task moves a task that spins in spinlock_lock away from its turn.
THEOREM NoOvertakingCorrect == SpinSpec => NoOvertaking
BY LockInit, LockNext, NotFurther, SpinlockSchedules, TypeCorrect, PTL DEF SpinSpec, NoOvertaking
=============================================================================
