------------------------------ MODULE ConsoleProofs ------------------------------
(***************************************************************************)
(* Proofs about output: the lock that kputs takes, the log it writes and   *)
(* the screen.                                                             *)
(*                                                                         *)
(* IrqSpinlock, for every number of locks and ticket values and every      *)
(* depth of nesting of different locks and of exceptions: as long as no    *)
(* lock is taken more than twice, interrupts are enabled exactly outside   *)
(* all of them, and no call spins.                                         *)
(*                                                                         *)
(* KernelLog and Vga, for every size of the ring and of the screen: a      *)
(* reader gets what was written, and the screen is a window on what was    *)
(* typed.                                                                  *)
(***************************************************************************)
EXTENDS IrqSpinlock, KernelLog, Vga, FiniteSetTheorems, TLAPS

Entries == ({"lock"} \X Locks) \cup ({"handler"} \X BOOLEAN)

Held(l, s) == {i \in 1..Len(s) : s[i] = <<"lock", l>>}

StackTypeOK ==
  /\ stack \in Seq(Entries)
  /\ \/ waiting = << >>
     \/ waiting \in Locks \X (0..(TICKETS - 1)) \X BOOLEAN /\ Len(stack) < MaxStack

\* A handler returns to enabled interrupts if it is the lowest on the stack.
SavedByHandlers ==
  \A i \in 1..Len(stack) : stack[i][1] = "handler" => stack[i][2] = (i = Len(stack))

\* A lock has found interrupts enabled if it is the lowest on the stack.
SavedByLocks ==
  /\ \A l \in Locks : flags[l] <=> counter[l] # 0 /\ stack[Len(stack)] = <<"lock", l>>
  /\ ~Running => (waiting[3] <=> stack = << >>)

\* The ticket that is called up is the last one given out while the lock is taken or
\* asked for, and else the next one.
Tickets ==
  /\ ~Running => waiting[2] = queue[waiting[1]] /\ counter[waiting[1]] = 0
  /\ \A l \in Locks : dequeue[l] = IF counter[l] # 0 \/ (~Running /\ waiting[1] = l)
                                   THEN queue[l] ELSE NextTicket(queue[l])

IrqInv ==
  /\ IrqSpinTypeOK /\ StackTypeOK
  /\ InterruptsExact /\ CounterExact
  /\ SavedByHandlers /\ SavedByLocks /\ Tickets

-----------------------------------------------------------------------------
\* Pushing an entry moves the others up by one.
LEMMA PushStack ==
  ASSUME NEW s \in Seq(Entries), NEW e \in Entries, NEW t, t = <<e>> \o s
  PROVE  /\ t \in Seq(Entries) /\ Len(t) = Len(s) + 1 /\ t[1] = e
         /\ \A i \in 1..Len(s) : t[i + 1] = s[i]
         /\ \A i \in 2..Len(t) : i - 1 \in 1..Len(s) /\ t[i] = s[i - 1]
         /\ t # << >>
OBVIOUS

\* What popping a non-empty stack leaves.
LEMMA PopStack ==
  ASSUME NEW s \in Seq(Entries), s # << >>
  PROVE  /\ Tail(s) \in Seq(Entries) /\ Len(Tail(s)) = Len(s) - 1 /\ Len(s) \in Nat \ {0}
         /\ s[1] \in Entries
         /\ s = <<s[1]>> \o Tail(s)
OBVIOUS

\* How many numbers there are up to n.
LEMMA FirstNumbers ==
  ASSUME NEW n \in Nat
  PROVE  IsFiniteSet(1..n) /\ Cardinality(1..n) = n
<1>1. \A a, b \in Int : IsFiniteSet(a..b) /\ Cardinality(a..b) = IF a > b THEN 0 ELSE b - a + 1
  BY FS_Interval, Zenon
<1>2. QED
  BY <1>1

\* A shifted set has as many elements.
LEMMA ShiftCount ==
  ASSUME NEW n \in Nat, NEW S \in SUBSET (1..n)
  PROVE  /\ IsFiniteSet({i + 1 : i \in S}) /\ IsFiniteSet(S)
         /\ Cardinality({i + 1 : i \in S}) = Cardinality(S)
<1> DEFINE T == {i + 1 : i \in S}
           f == [i \in S |-> i + 1]
<1>1. IsFiniteSet(S)
  BY FirstNumbers, FS_Subset
<1>2. f \in Bijection(S, T)
  BY DEF Bijection, Injection, Surjection, IsInjective
<1>3. QED
  BY <1>1, <1>2, FS_Bijection DEF ExistsBijection

\* A push adds its own place and no other.
LEMMA PushCount ==
  ASSUME NEW s \in Seq(Entries), NEW e \in Entries, NEW l \in Locks
  PROVE  /\ IsFiniteSet(Held(l, s))
         /\ Cardinality(Held(l, s)) \in 0..Len(s)
         /\ Cardinality(Held(l, <<e>> \o s)) =
              IF e = <<"lock", l>> THEN Cardinality(Held(l, s)) + 1 ELSE Cardinality(Held(l, s))
<1> DEFINE t == <<e>> \o s
           S == Held(l, s)
           T == {i + 1 : i \in S}
<1>1. S \in SUBSET (1..Len(s)) /\ Len(s) \in Nat
  BY DEF Held
<1>2. IsFiniteSet(S) /\ IsFiniteSet(T) /\ Cardinality(T) = Cardinality(S)
  BY <1>1, ShiftCount
<1>3. Cardinality(S) \in 0..Len(s)
  <2>1. IsFiniteSet(1..Len(s)) /\ Cardinality(1..Len(s)) = Len(s)
    BY <1>1, FirstNumbers
  <2>2. QED
    BY <1>1, <1>2, <2>1, FS_Subset, FS_CardinalityType
<1>4. /\ Len(t) = Len(s) + 1 /\ t[1] = e
      /\ \A i \in 1..Len(s) : t[i + 1] = s[i]
      /\ \A i \in 2..Len(t) : i - 1 \in 1..Len(s) /\ t[i] = s[i - 1]
  OBVIOUS
<1>5. Held(l, t) = IF e = <<"lock", l>> THEN T \cup {1} ELSE T
  <2> HIDE DEF t
  <2>1. \A i \in 1..Len(s) : i + 1 \in 2..Len(t)
    BY <1>1, <1>4
  <2>2. T = {i \in 2..Len(t) : t[i] = <<"lock", l>>}
    BY <1>1, <1>4, <2>1 DEF Held
  <2>3. 1..Len(t) = {1} \cup 2..Len(t)
    BY <1>1, <1>4
  <2>4. QED
    BY <1>4, <2>2, <2>3 DEF Held
<1>6. 1 \notin T
  BY <1>1
<1>7. Cardinality(T \cup {1}) = Cardinality(S) + 1
  BY <1>2, <1>6, FS_AddElement
<1>8. QED
  BY <1>2, <1>3, <1>5, <1>7

\* The lock entries of an empty and of a nonempty stack.
LEMMA LowestHeld ==
  ASSUME NEW s \in Seq(Entries), NEW l \in Locks
  PROVE  /\ s = << >> => Cardinality(Held(l, s)) = 0
         /\ s # << >> /\ s[Len(s)] = <<"lock", l>> => Cardinality(Held(l, s)) # 0
<1>1. ASSUME s = << >> PROVE Cardinality(Held(l, s)) = 0
  <2>1. Held(l, s) = {}
    BY <1>1 DEF Held
  <2>2. QED
    BY <2>1, FS_EmptySet
<1>2. ASSUME s # << >>, s[Len(s)] = <<"lock", l>> PROVE Cardinality(Held(l, s)) # 0
  <2>1. Len(s) \in Held(l, s)
    BY <1>2 DEF Held
  <2>2. <<"lock", l>> \in Entries
    BY DEF Entries
  <2>3. IsFiniteSet(Held(l, s))
    BY <2>2, PushCount
  <2>4. QED
    BY <2>1, <2>3, FS_EmptySet
<1>3. QED
  BY <1>1, <1>2

\* The counter of a lock is the number of times the stack holds it.
LEMMA CounterIsHeld ==
  CounterExact <=> \A l \in Locks : counter[l] = Cardinality(Held(l, stack))
BY DEF CounterExact, Held

-----------------------------------------------------------------------------
\* An interrupt or an exception.
LEMMA EnterInv ==
  ASSUME IrqInv, interrupt \/ exception
  PROVE  IrqInv'
<1> DEFINE e == <<"handler", IF_>>
<1>1. /\ Running /\ Running' /\ Len(stack) < MaxStack /\ stack' = <<e>> \o stack /\ IF_' = FALSE
      /\ UNCHANGED <<queue, dequeue, flags, counter, waiting>>
  BY DEF interrupt, exception, Push, lockVars, Running
<1>2. e \in Entries /\ stack \in Seq(Entries)
  BY DEF IrqInv, StackTypeOK, IrqSpinTypeOK, Entries
<1>3. /\ stack' \in Seq(Entries) /\ Len(stack') = Len(stack) + 1 /\ stack'[1] = e
      /\ \A i \in 2..Len(stack') : i - 1 \in 1..Len(stack) /\ stack'[i] = stack[i - 1]
      /\ stack' # << >>
  BY <1>1, <1>2, PushStack
<1>4. IrqSpinTypeOK' /\ StackTypeOK'
  <2>1. Len(stack') <= MaxStack
    BY <1>1, <1>2, <1>3, IrqSpinlockAssumption
  <2>2. IF_' \in BOOLEAN
    BY <1>1
  <2>3. StackTypeOK'
    BY <1>1, <1>3 DEF Running, StackTypeOK
  <2>4. QED
    BY <1>1, <2>1, <2>2, <2>3 DEF IrqInv, IrqSpinTypeOK
<1>5. InterruptsExact'
  BY <1>1, <1>3 DEF InterruptsExact
<1>6. CounterExact'
  <2>1. \A l \in Locks : e # <<"lock", l>>
    OBVIOUS
  <2>2. \A l \in Locks : Cardinality(Held(l, stack')) = Cardinality(Held(l, stack))
    BY <1>1, <1>2, <2>1, PushCount
  <2>3. \A l \in Locks : counter'[l] = Cardinality(Held(l, stack'))
    BY <1>1, <2>2, CounterIsHeld DEF IrqInv
  <2>4. QED
    BY <2>3 DEF CounterExact, Held
<1>7. SavedByHandlers'
  <2> SUFFICES ASSUME NEW i \in 1..Len(stack'), stack'[i][1] = "handler"
               PROVE  stack'[i][2] = (i = Len(stack'))
    BY DEF SavedByHandlers
  <2>1. CASE i = 1
    <3>1. stack'[i][2] = IF_
      BY <1>3, <2>1
    <3>2. IF_ = (stack = << >>)
      BY <1>1 DEF IrqInv, InterruptsExact
    <3>3. (stack = << >>) <=> (i = Len(stack'))
      BY <1>2, <1>3, <2>1
    <3>4. QED
      BY <3>1, <3>2, <3>3
  <2>2. CASE i # 1
    <3>1. i - 1 \in 1..Len(stack) /\ stack'[i] = stack[i - 1]
      BY <1>2, <1>3, <2>2
    <3>2. stack[i - 1][2] = (i - 1 = Len(stack))
      BY <3>1 DEF IrqInv, SavedByHandlers
    <3>3. (i - 1 = Len(stack)) <=> (i = Len(stack'))
      BY <1>2, <1>3
    <3>4. QED
      BY <3>1, <3>2, <3>3
  <2>3. QED
    BY <2>1, <2>2
<1>8. SavedByLocks'
  <2>1. ASSUME NEW l \in Locks
        PROVE  flags'[l] <=> counter'[l] # 0 /\ stack'[Len(stack')] = <<"lock", l>>
    <3>1. CASE stack = << >>
      <4>1. counter[l] = 0
        BY <1>2, <3>1, LowestHeld, CounterIsHeld DEF IrqInv
      <4>2. QED
        BY <1>1, <4>1 DEF IrqInv, SavedByLocks
    <3>2. CASE stack # << >>
      <4>1. stack'[Len(stack')] = stack[Len(stack)]
        BY <1>2, <1>3, <3>2
      <4>2. QED
        BY <1>1, <4>1 DEF IrqInv, SavedByLocks
    <3>3. QED
      BY <3>1, <3>2
  <2>2. QED
    BY <1>1, <2>1 DEF SavedByLocks
<1>9. Tickets'
  BY <1>1 DEF IrqInv, Tickets, Running, NextTicket
<1>10. QED
  BY <1>4, <1>5, <1>6, <1>7, <1>8, <1>9 DEF IrqInv

\* What removing the top entry leaves unchanged.
LEMMA PopInv ==
  ASSUME StackTypeOK, SavedByHandlers, stack # << >>, stack' = Tail(stack)
  PROVE  /\ stack' \in Seq(Entries) /\ Len(stack') = Len(stack) - 1 /\ Len(stack) \in Nat \ {0}
         /\ stack[1] \in Entries
         /\ stack' = << >> <=> Len(stack) = 1
         /\ stack' # << >> => stack'[Len(stack')] = stack[Len(stack)]
         /\ \A l \in Locks : Cardinality(Held(l, stack)) =
              IF stack[1] = <<"lock", l>> THEN Cardinality(Held(l, stack')) + 1
                                         ELSE Cardinality(Held(l, stack'))
         /\ SavedByHandlers'
<1>1. stack \in Seq(Entries)
  BY DEF StackTypeOK
<1>2. /\ stack' \in Seq(Entries) /\ Len(stack') = Len(stack) - 1 /\ Len(stack) \in Nat \ {0}
      /\ stack[1] \in Entries /\ stack = <<stack[1]>> \o stack'
  BY <1>1, PopStack
<1>3. \A i \in 1..Len(stack') : i + 1 \in 1..Len(stack) /\ stack'[i] = stack[i + 1]
  BY <1>1, <1>2
<1>4. (stack' = << >> <=> Len(stack) = 1) /\ (stack' # << >> => stack'[Len(stack')] = stack[Len(stack)])
  BY <1>2, <1>3
<1>5. SavedByHandlers'
  <2> SUFFICES ASSUME NEW i \in 1..Len(stack'), stack'[i][1] = "handler"
               PROVE  stack'[i][2] = (i = Len(stack'))
    BY DEF SavedByHandlers
  <2>1. stack[i + 1][2] = (i + 1 = Len(stack)) /\ stack'[i] = stack[i + 1]
    BY <1>3 DEF SavedByHandlers
  <2>2. (i + 1 = Len(stack)) <=> (i = Len(stack'))
    BY <1>2
  <2>3. QED
    BY <2>1, <2>2
<1>6. ASSUME NEW l \in Locks
      PROVE  Cardinality(Held(l, stack)) =
               IF stack[1] = <<"lock", l>> THEN Cardinality(Held(l, stack')) + 1
                                          ELSE Cardinality(Held(l, stack'))
  <2> DEFINE e == stack[1]
  <2>1. e \in Entries /\ stack' \in Seq(Entries)
    BY <1>2
  <2>2. stack = <<e>> \o stack'
    BY <1>2
  <2> HIDE DEF e
  <2>3. Cardinality(Held(l, <<e>> \o stack')) =
          IF e = <<"lock", l>> THEN Cardinality(Held(l, stack')) + 1 ELSE Cardinality(Held(l, stack'))
    BY <2>1, PushCount
  <2>4. QED
    BY <2>2, <2>3 DEF e
<1>7. QED
  BY <1>2, <1>4, <1>5, <1>6

\* iret pops a handler and restores the flag that it saved.
LEMMA LeaveInv ==
  ASSUME IrqInv, iret
  PROVE  IrqInv'
<1>1. /\ Running /\ Running' /\ stack # << >> /\ stack[1][1] = "handler"
      /\ IF_' = stack[1][2] /\ stack' = Tail(stack)
      /\ UNCHANGED <<queue, dequeue, flags, counter, waiting>>
  BY DEF iret, Top, lockVars, Running
<1>2. /\ stack' \in Seq(Entries) /\ Len(stack') = Len(stack) - 1 /\ Len(stack) \in Nat \ {0}
      /\ stack' = << >> <=> Len(stack) = 1
      /\ stack' # << >> => stack'[Len(stack')] = stack[Len(stack)]
      /\ SavedByHandlers'
  BY <1>1, PopInv DEF IrqInv
<1>3. stack[1][2] = (1 = Len(stack))
  <2>1. \A i \in 1..Len(stack) : stack[i][1] = "handler" => stack[i][2] = (i = Len(stack))
    BY DEF IrqInv, SavedByHandlers
  <2>2. 1 \in 1..Len(stack)
    BY <1>2
  <2>3. QED
    BY <1>1, <2>1, <2>2, Zenon
<1>4. IF_' = (stack' = << >>)
  BY <1>1, <1>2, <1>3
<1>5. InterruptsExact'
  BY <1>1, <1>4 DEF InterruptsExact
<1>6. IrqSpinTypeOK' /\ StackTypeOK'
  <2>1. Len(stack') <= MaxStack
    BY <1>2, IrqSpinlockAssumption DEF IrqInv, IrqSpinTypeOK
  <2>2. IF_' \in BOOLEAN
    BY <1>4
  <2>3. StackTypeOK'
    BY <1>1, <1>2 DEF Running, StackTypeOK
  <2>4. QED
    BY <1>1, <2>1, <2>2, <2>3 DEF IrqInv, IrqSpinTypeOK
<1>7. \A l \in Locks : counter[l] = Cardinality(Held(l, stack))
  BY CounterIsHeld DEF IrqInv
<1>8. \A l \in Locks : counter'[l] = Cardinality(Held(l, stack'))
  <2>1. \A l \in Locks : stack[1] # <<"lock", l>>
    BY <1>1
  <2>2. \A l \in Locks : Cardinality(Held(l, stack)) = Cardinality(Held(l, stack'))
    BY <1>1, <2>1, PopInv DEF IrqInv
  <2>3. QED
    BY <1>1, <1>7, <2>2
<1>9. CounterExact'
  BY <1>8 DEF CounterExact, Held
<1>10. SavedByLocks'
  <2>1. ASSUME NEW l \in Locks
        PROVE  flags'[l] <=> counter'[l] # 0 /\ stack'[Len(stack')] = <<"lock", l>>
    <3>1. CASE stack' = << >>
      <4>1. counter[l] = 0
        BY <1>1, <1>2, <1>8, <3>1, LowestHeld
      <4>2. QED
        BY <1>1, <4>1 DEF IrqInv, SavedByLocks
    <3>2. CASE stack' # << >>
      BY <1>1, <1>2, <3>2 DEF IrqInv, SavedByLocks
    <3>3. QED
      BY <3>1, <3>2
  <2>2. QED
    BY <1>1, <2>1 DEF SavedByLocks
<1>11. Tickets'
  BY <1>1 DEF IrqInv, Tickets, Running, NextTicket
<1>12. QED
  BY <1>2, <1>5, <1>6, <1>9, <1>10, <1>11 DEF IrqInv

-----------------------------------------------------------------------------
\* A lock's entry on top of the stack.
LEMMA PushLock ==
  ASSUME IrqInv, NEW l \in Locks, stack' = <<<<"lock", l>>>> \o stack
  PROVE  /\ stack' \in Seq(Entries) /\ Len(stack') = Len(stack) + 1 /\ stack' # << >>
         /\ stack \in Seq(Entries)
         /\ stack = << >> => stack'[Len(stack')] = <<"lock", l>>
         /\ stack # << >> => stack'[Len(stack')] = stack[Len(stack)]
         /\ SavedByHandlers'
         /\ \A m \in Locks : Cardinality(Held(m, stack')) =
                IF m = l THEN counter[m] + 1 ELSE counter[m]
<1> DEFINE e == <<"lock", l>>
<1>1. e \in Entries /\ stack \in Seq(Entries)
  BY DEF IrqInv, StackTypeOK, Entries
<1>2. /\ stack' \in Seq(Entries) /\ Len(stack') = Len(stack) + 1 /\ stack'[1] = e
      /\ \A i \in 2..Len(stack') : i - 1 \in 1..Len(stack) /\ stack'[i] = stack[i - 1]
      /\ stack' # << >>
  BY <1>1, PushStack
<1>3. /\ stack = << >> => stack'[Len(stack')] = e
      /\ stack # << >> => stack'[Len(stack')] = stack[Len(stack)]
  BY <1>1, <1>2
<1>4. SavedByHandlers'
  <2> SUFFICES ASSUME NEW i \in 1..Len(stack'), stack'[i][1] = "handler"
               PROVE  stack'[i][2] = (i = Len(stack'))
    BY DEF SavedByHandlers
  <2>1. i # 1
    BY <1>2
  <2>2. i - 1 \in 1..Len(stack) /\ stack'[i] = stack[i - 1]
    BY <1>1, <1>2, <2>1
  <2>3. stack[i - 1][2] = (i - 1 = Len(stack))
    BY <2>2 DEF IrqInv, SavedByHandlers
  <2>4. (i - 1 = Len(stack)) <=> (i = Len(stack'))
    BY <1>1, <1>2
  <2>5. QED
    BY <2>2, <2>3, <2>4
<1>5. ASSUME NEW m \in Locks
      PROVE  Cardinality(Held(m, stack')) = IF m = l THEN counter[m] + 1 ELSE counter[m]
  <2>1. counter[m] = Cardinality(Held(m, stack))
    BY CounterIsHeld DEF IrqInv
  <2>2. (e = <<"lock", m>>) <=> m = l
    OBVIOUS
  <2>3. QED
    BY <1>1, <2>1, <2>2, PushCount
<1>6. QED
  BY <1>1, <1>2, <1>3, <1>4, <1>5

\* A nested acquisition only increments the counter.
LEMMA NestedInv ==
  ASSUME IrqInv, NEW l \in Locks, spinlock_irqsave_lock(l), Nested(l)
  PROVE  IrqInv'
<1>1. /\ Running /\ Running' /\ Len(stack) < MaxStack /\ stack' = <<<<"lock", l>>>> \o stack
      /\ IF_' = FALSE /\ counter[l] = 1 /\ counter[l] < MaxNest
      /\ counter' = [counter EXCEPT ![l] = counter[l] + 1]
      /\ UNCHANGED <<queue, dequeue, flags, waiting>>
  BY DEF spinlock_irqsave_lock, Nested, Push, Running
<1>2. /\ stack' \in Seq(Entries) /\ Len(stack') = Len(stack) + 1 /\ stack' # << >>
      /\ stack \in Seq(Entries)
      /\ stack # << >> => stack'[Len(stack')] = stack[Len(stack)]
      /\ SavedByHandlers'
      /\ \A m \in Locks : Cardinality(Held(m, stack')) = IF m = l THEN counter[m] + 1 ELSE counter[m]
  BY <1>1, PushLock
<1>3. counter \in [Locks -> 0..MaxNest] /\ MaxNest \in Nat /\ MaxStack \in Nat
  BY IrqSpinlockAssumption DEF IrqInv, IrqSpinTypeOK
<1>4. \A m \in Locks : counter'[m] = IF m = l THEN counter[m] + 1 ELSE counter[m]
  BY <1>1, <1>3
<1>5. IrqSpinTypeOK' /\ StackTypeOK'
  <2>1. Len(stack') <= MaxStack
    BY <1>1, <1>2, <1>3
  <2>2. IF_' \in BOOLEAN
    BY <1>1
  <2>3. StackTypeOK'
    BY <1>1, <1>2 DEF Running, StackTypeOK
  <2>4. counter' \in [Locks -> 0..MaxNest]
    BY <1>1, <1>3
  <2>5. QED
    BY <1>1, <2>1, <2>2, <2>3, <2>4 DEF IrqInv, IrqSpinTypeOK
<1>6. InterruptsExact'
  BY <1>1, <1>2 DEF InterruptsExact
<1>7. CounterExact'
  BY <1>2, <1>4 DEF CounterExact, Held
<1>8. stack # << >>
  BY <1>1, <1>2, LowestHeld, CounterIsHeld DEF IrqInv
<1>9. SavedByLocks'
  <2>1. \A m \in Locks : flags'[m] <=> counter'[m] # 0 /\ stack'[Len(stack')] = <<"lock", m>>
    <3>1. \A m \in Locks : flags[m] <=> counter[m] # 0 /\ stack[Len(stack)] = <<"lock", m>>
      BY DEF IrqInv, SavedByLocks
    <3>2. \A m \in Locks : counter'[m] # 0 <=> counter[m] # 0
      BY <1>1, <1>3, <1>4
    <3>3. stack'[Len(stack')] = stack[Len(stack)]
      BY <1>2, <1>8
    <3>4. QED
      BY <1>1, <3>1, <3>2, <3>3
  <2>2. QED
    BY <1>1, <2>1 DEF SavedByLocks
<1>10. Tickets'
  BY <1>1, <1>3, <1>4 DEF IrqInv, Tickets, Running, NextTicket
<1>11. QED
  BY <1>2, <1>5, <1>6, <1>7, <1>9, <1>10 DEF IrqInv

\* The first acquisition takes a ticket.  As no lock is taken more than twice, this
\* one is free.
LEMMA AskInv ==
  ASSUME MaxNest <= 2, IrqInv, NEW l \in Locks, spinlock_irqsave_lock(l), ~Nested(l)
  PROVE  IrqInv'
<1>1. /\ Running /\ counter[l] # 1 /\ counter[l] < MaxNest /\ IF_' = FALSE /\ Len(stack) < MaxStack
      /\ queue' = [queue EXCEPT ![l] = NextTicket(queue[l])]
      /\ waiting' = <<l, queue'[l], IF_>>
      /\ UNCHANGED <<counter, stack, dequeue, flags>>
  BY DEF spinlock_irqsave_lock, Nested
<1>2. /\ counter \in [Locks -> 0..MaxNest] /\ MaxNest \in Nat
      /\ queue \in [Locks -> 0..(TICKETS - 1)] /\ TICKETS \in Nat \ {0, 1} /\ IF_ \in BOOLEAN
  BY IrqSpinlockAssumption DEF IrqInv, IrqSpinTypeOK
<1>3. counter[l] = 0
  BY <1>1, <1>2
<1>4. NextTicket(queue[l]) \in 0..(TICKETS - 1)
  <2>1. queue[l] \in 0..(TICKETS - 1)
    BY <1>2
  <2>2. QED
    BY <1>2, <2>1, SMT DEF NextTicket
<1>5. queue' \in [Locks -> 0..(TICKETS - 1)] /\ queue'[l] = NextTicket(queue[l])
      /\ \A m \in Locks \ {l} : queue'[m] = queue[m]
  BY <1>1, <1>2, <1>4
<1>6. waiting' \in Locks \X (0..(TICKETS - 1)) \X BOOLEAN /\ ~Running'
      /\ waiting'[1] = l /\ waiting'[2] = queue'[l] /\ waiting'[3] = IF_
  BY <1>1, <1>2, <1>5 DEF Running
<1>7. IrqSpinTypeOK'
  <2>1. IF_' \in BOOLEAN
    BY <1>1
  <2>2. QED
    BY <1>1, <1>5, <2>1 DEF IrqInv, IrqSpinTypeOK
<1>8. StackTypeOK'
  BY <1>1, <1>6 DEF IrqInv, StackTypeOK
<1>9. InterruptsExact'
  BY <1>1, <1>6 DEF InterruptsExact
<1>10. CounterExact' /\ SavedByHandlers'
  BY <1>1 DEF IrqInv, CounterExact, SavedByHandlers
<1>11. SavedByLocks'
  <2>1. IF_ = (stack = << >>)
    BY <1>1 DEF IrqInv, InterruptsExact
  <2>2. waiting'[3] <=> stack' = << >>
    BY <1>1, <1>6, <2>1
  <2>3. QED
    BY <1>1, <2>2 DEF IrqInv, SavedByLocks
<1>12. Tickets'
  <2>1. dequeue[l] = NextTicket(queue[l])
    BY <1>1, <1>3 DEF IrqInv, Tickets
  <2>2. QED
    BY <1>1, <1>3, <1>5, <1>6, <2>1 DEF IrqInv, Tickets
<1>13. QED
  BY <1>7, <1>8, <1>9, <1>10, <1>11, <1>12 DEF IrqInv

\* The loop ends.
LEMMA AcquiredInv ==
  ASSUME MaxNest >= 1, IrqInv, acquired
  PROVE  IrqInv'
<1> DEFINE l == waiting[1]
<1>1. /\ ~Running /\ waiting' = << >> /\ Running'
      /\ flags' = [flags EXCEPT ![l] = waiting[3]] /\ counter' = [counter EXCEPT ![l] = 1]
      /\ stack' = <<<<"lock", l>>>> \o stack
      /\ UNCHANGED <<queue, dequeue, IF_>>
  BY DEF acquired, Push, Running
<1>2. /\ waiting \in Locks \X (0..(TICKETS - 1)) \X BOOLEAN /\ Len(stack) < MaxStack
      /\ l \in Locks /\ waiting[3] \in BOOLEAN
  BY <1>1 DEF IrqInv, StackTypeOK, Running
<1>3. /\ counter \in [Locks -> 0..MaxNest] /\ MaxNest \in Nat /\ MaxStack \in Nat
      /\ flags \in [Locks -> BOOLEAN]
  BY IrqSpinlockAssumption DEF IrqInv, IrqSpinTypeOK
<1>4. counter[l] = 0 /\ (waiting[3] <=> stack = << >>) /\ IF_ = FALSE
  BY <1>1 DEF IrqInv, Tickets, SavedByLocks, InterruptsExact
<1> HIDE DEF l
<1>5. /\ stack' \in Seq(Entries) /\ Len(stack') = Len(stack) + 1 /\ stack' # << >>
      /\ stack \in Seq(Entries)
      /\ stack = << >> => stack'[Len(stack')] = <<"lock", l>>
      /\ stack # << >> => stack'[Len(stack')] = stack[Len(stack)]
      /\ SavedByHandlers'
      /\ \A m \in Locks : Cardinality(Held(m, stack')) = IF m = l THEN counter[m] + 1 ELSE counter[m]
  BY <1>1, <1>2, PushLock
<1>6. \A m \in Locks : counter'[m] = IF m = l THEN counter[m] + 1 ELSE counter[m]
  BY <1>1, <1>2, <1>3, <1>4
<1>7. IrqSpinTypeOK' /\ StackTypeOK'
  <2>1. Len(stack') <= MaxStack
    BY <1>2, <1>3, <1>5
  <2>2. counter' \in [Locks -> 0..MaxNest]
    BY <1>1, <1>2, <1>3
  <2>3. flags' \in [Locks -> BOOLEAN]
    BY <1>1, <1>2, <1>3
  <2>4. StackTypeOK'
    BY <1>1, <1>5 DEF StackTypeOK
  <2>5. QED
    BY <1>1, <2>1, <2>2, <2>3, <2>4 DEF IrqInv, IrqSpinTypeOK
<1>8. InterruptsExact'
  BY <1>1, <1>4, <1>5 DEF InterruptsExact
<1>9. CounterExact'
  BY <1>5, <1>6 DEF CounterExact, Held
<1>10. SavedByLocks'
  <2>1. ASSUME NEW m \in Locks
        PROVE  flags'[m] <=> counter'[m] # 0 /\ stack'[Len(stack')] = <<"lock", m>>
    <3>1. flags[m] <=> counter[m] # 0 /\ stack[Len(stack)] = <<"lock", m>>
      BY DEF IrqInv, SavedByLocks
    <3>2. counter[m] = Cardinality(Held(m, stack))
      BY CounterIsHeld DEF IrqInv
    <3>3. CASE m = l
      <4>1. counter'[m] # 0 /\ (flags'[m] <=> waiting[3])
        BY <1>1, <1>2, <1>3, <3>3
      <4>2. stack # << >> => stack[Len(stack)] # <<"lock", m>>
        BY <1>4, <1>5, <3>2, <3>3, LowestHeld
      <4>3. QED
        BY <1>4, <1>5, <3>3, <4>1, <4>2
    <3>4. CASE m # l
      <4>1. counter'[m] = counter[m] /\ (flags'[m] <=> flags[m])
        BY <1>1, <1>2, <1>3, <3>4
      <4>2. stack = << >> => counter[m] = 0
        BY <1>5, <3>2, LowestHeld
      <4>3. QED
        BY <1>5, <3>1, <3>4, <4>1, <4>2
    <3>5. QED
      BY <3>3, <3>4
  <2>2. QED
    BY <1>1, <2>1 DEF SavedByLocks
<1>11. Tickets'
  <2>1. \A m \in Locks : counter'[m] # 0 <=> counter[m] # 0 \/ m = l
    BY <1>1, <1>2, <1>3
  <2>2. QED
    BY <1>1, <2>1 DEF IrqInv, Tickets, NextTicket, l
<1>12. QED
  BY <1>5, <1>7, <1>8, <1>9, <1>10, <1>11 DEF IrqInv

\* Unlocking restores the interrupt flag when the counter falls to zero.
LEMMA UnlockInv ==
  ASSUME IrqInv, NEW l \in Locks, spinlock_irqsave_unlock(l)
  PROVE  IrqInv'
<1>1. /\ Running /\ Running' /\ stack # << >> /\ stack[1] = <<"lock", l>> /\ stack' = Tail(stack)
      /\ counter' = [counter EXCEPT ![l] = counter[l] - 1]
      /\ UNCHANGED <<queue, waiting>>
      /\ counter[l] # 1 => UNCHANGED <<flags, dequeue, IF_>>
      /\ counter[l] = 1 => /\ flags' = [flags EXCEPT ![l] = FALSE]
                           /\ dequeue' = [dequeue EXCEPT ![l] = NextTicket(dequeue[l])]
                           /\ IF_' = (IF_ \/ flags[l])
  BY DEF spinlock_irqsave_unlock, Top, Reduced, Last, Running
<1>2. /\ counter \in [Locks -> 0..MaxNest] /\ MaxNest \in Nat /\ MaxStack \in Nat
      /\ dequeue \in [Locks -> 0..(TICKETS - 1)] /\ TICKETS \in Nat \ {0, 1}
      /\ flags \in [Locks -> BOOLEAN] /\ stack \in Seq(Entries)
  BY IrqSpinlockAssumption DEF IrqInv, IrqSpinTypeOK, StackTypeOK
<1>3. /\ stack' \in Seq(Entries) /\ Len(stack') = Len(stack) - 1 /\ Len(stack) \in Nat \ {0}
      /\ stack' = << >> <=> Len(stack) = 1
      /\ stack' # << >> => stack'[Len(stack')] = stack[Len(stack)]
      /\ SavedByHandlers'
  BY <1>1, PopInv DEF IrqInv
<1>4. \A m \in Locks : /\ counter[m] = Cardinality(Held(m, stack))
                       /\ Cardinality(Held(m, stack')) \in Nat
                       /\ counter[m] = IF m = l THEN Cardinality(Held(m, stack')) + 1
                                                ELSE Cardinality(Held(m, stack'))
  <2>1. \A m \in Locks : counter[m] = Cardinality(Held(m, stack))
    BY CounterIsHeld DEF IrqInv
  <2>2. \A m \in Locks : Cardinality(Held(m, stack)) =
          IF stack[1] = <<"lock", m>> THEN Cardinality(Held(m, stack')) + 1
                                     ELSE Cardinality(Held(m, stack'))
    BY <1>1, PopInv DEF IrqInv
  <2>3. \A m \in Locks : stack[1] = <<"lock", m>> <=> m = l
    BY <1>1
  <2>4. stack[1] \in Entries
    BY <1>1, <1>2, PopStack
  <2>5. \A m \in Locks : Cardinality(Held(m, stack')) \in Nat
    <3> SUFFICES ASSUME NEW m \in Locks PROVE Cardinality(Held(m, stack')) \in Nat
      OBVIOUS
    <3>1. Cardinality(Held(m, stack')) \in 0..Len(stack')
      BY <1>3, <2>4, PushCount
    <3>2. QED
      BY <3>1
  <2>6. QED
    BY <2>1, <2>2, <2>3, <2>5
<1>5. \A m \in Locks : counter'[m] = Cardinality(Held(m, stack'))
  BY <1>1, <1>2, <1>4
<1>6. CounterExact'
  BY <1>5 DEF CounterExact, Held
<1>7. \A m \in Locks : flags[m] <=> counter[m] # 0 /\ stack[Len(stack)] = <<"lock", m>>
  BY DEF IrqInv, SavedByLocks
<1>8. counter[l] = 1 => (flags[l] <=> stack' = << >>)
  <2>1. ASSUME stack' = << >> PROVE flags[l]
    BY <1>1, <1>3, <1>4, <1>7, <2>1
  <2>2. ASSUME counter[l] = 1, stack' # << >> PROVE ~flags[l]
    <3>1. Cardinality(Held(l, stack')) = 0
      BY <1>4, <2>2
    <3>2. QED
      BY <1>3, <1>7, <2>2, <3>1, LowestHeld
  <2>3. QED
    BY <2>1, <2>2
<1>9. counter[l] # 1 => stack' # << >>
  BY <1>3, <1>4, LowestHeld
<1>10. IF_ = FALSE
  BY <1>1 DEF IrqInv, InterruptsExact
<1>11. IF_' = (stack' = << >>)
  <2>1. CASE counter[l] = 1
    BY <1>1, <1>2, <1>8, <1>10, <2>1
  <2>2. CASE counter[l] # 1
    BY <1>1, <1>9, <1>10, <2>2
  <2>3. QED
    BY <2>1, <2>2
<1>12. InterruptsExact'
  BY <1>1, <1>11 DEF InterruptsExact
<1>13. NextTicket(dequeue[l]) \in 0..(TICKETS - 1)
  <2>1. dequeue[l] \in 0..(TICKETS - 1)
    BY <1>2
  <2>2. QED
    BY <1>2, <2>1, SMT DEF NextTicket
<1>14. IrqSpinTypeOK' /\ StackTypeOK'
  <2>1. Len(stack') <= MaxStack
    BY <1>2, <1>3 DEF IrqInv, IrqSpinTypeOK
  <2>2. counter' \in [Locks -> 0..MaxNest]
    BY <1>1, <1>2, <1>4
  <2>3. flags' \in [Locks -> BOOLEAN]
    BY <1>1, <1>2
  <2>4. dequeue' \in [Locks -> 0..(TICKETS - 1)]
    BY <1>1, <1>2, <1>13
  <2>5. IF_' \in BOOLEAN
    BY <1>11
  <2>6. StackTypeOK'
    BY <1>1, <1>3 DEF StackTypeOK, Running
  <2>7. QED
    BY <1>1, <2>1, <2>2, <2>3, <2>4, <2>5, <2>6 DEF IrqInv, IrqSpinTypeOK
<1>15. SavedByLocks'
  <2>1. ASSUME NEW m \in Locks
        PROVE  flags'[m] <=> counter'[m] # 0 /\ stack'[Len(stack')] = <<"lock", m>>
    <3>1. CASE stack' = << >>
      <4>1. counter'[m] = 0
        BY <1>3, <1>5, <3>1, LowestHeld
      <4>2. counter[l] = 1
        BY <1>9, <3>1
      <4>3. m # l => counter[m] = 0
        BY <1>4, <1>5, <4>1
      <4>4. ~flags'[m]
        BY <1>1, <1>2, <1>7, <4>2, <4>3
      <4>5. QED
        BY <4>1, <4>4
    <3>2. CASE stack' # << >>
      <4>1. stack'[Len(stack')] = stack[Len(stack)]
        BY <1>3, <3>2
      <4>2. CASE m = l /\ counter[l] = 1
        <5>1. counter'[m] = 0 /\ ~flags'[m]
          BY <1>1, <1>2, <4>2
        <5>2. QED
          BY <5>1
      <4>3. CASE ~(m = l /\ counter[l] = 1)
        <5>1. flags'[m] <=> flags[m]
          BY <1>1, <1>2, <4>3
        <5>2. counter'[m] # 0 <=> counter[m] # 0
          BY <1>1, <1>2, <1>4, <4>3
        <5>3. QED
          BY <1>7, <4>1, <5>1, <5>2
      <4>4. QED
        BY <4>2, <4>3
    <3>3. QED
      BY <3>1, <3>2
  <2>2. QED
    BY <1>1, <2>1 DEF SavedByLocks
<1>16. Tickets'
  <2>1. \A m \in Locks : dequeue[m] = IF counter[m] # 0 THEN queue[m] ELSE NextTicket(queue[m])
    BY <1>1 DEF IrqInv, Tickets
  <2>2. ASSUME NEW m \in Locks
        PROVE  dequeue'[m] = IF counter'[m] # 0 THEN queue[m] ELSE NextTicket(queue[m])
    <3>1. CASE m = l /\ counter[l] = 1
      <4>1. counter'[m] = 0 /\ dequeue'[m] = NextTicket(dequeue[m]) /\ dequeue[m] = queue[m]
        BY <1>1, <1>2, <2>1, <3>1
      <4>2. QED
        BY <4>1
    <3>2. CASE ~(m = l /\ counter[l] = 1)
      <4>1. dequeue'[m] = dequeue[m] /\ (counter'[m] # 0 <=> counter[m] # 0)
        BY <1>1, <1>2, <1>4, <3>2
      <4>2. QED
        BY <2>1, <4>1
    <3>3. QED
      BY <3>1, <3>2
  <2>3. QED
    BY <1>1, <2>2 DEF Tickets, NextTicket
<1>17. QED
  BY <1>3, <1>6, <1>12, <1>14, <1>15, <1>16 DEF IrqInv

-----------------------------------------------------------------------------
\* The invariant holds at first.
LEMMA IrqInitInv == IrqSpinInit => IrqInv
<1> SUFFICES ASSUME IrqSpinInit PROVE IrqInv
  OBVIOUS
<1>1. TICKETS \in Nat \ {0, 1} /\ MaxNest \in Nat /\ MaxStack \in Nat
  BY IrqSpinlockAssumption
<1>2. IrqSpinTypeOK /\ StackTypeOK
  BY <1>1 DEF IrqSpinInit, IrqSpinTypeOK, StackTypeOK
<1>3. InterruptsExact /\ SavedByHandlers
  <2>1. IF_ = TRUE /\ stack = << >> /\ waiting = << >>
    BY DEF IrqSpinInit
  <2>2. InterruptsExact
    BY <2>1, Zenon DEF InterruptsExact, Running
  <2>3. SavedByHandlers
    BY <2>1 DEF SavedByHandlers
  <2>4. QED
    BY <2>2, <2>3
<1>4. CounterExact
  <2>1. stack \in Seq(Entries) /\ stack = << >>
    BY DEF IrqSpinInit
  <2>2. \A l \in Locks : Cardinality(Held(l, stack)) = 0
    BY <2>1, LowestHeld
  <2>3. QED
    BY <2>2, CounterIsHeld DEF IrqSpinInit
<1>5. SavedByLocks
  BY DEF IrqSpinInit, SavedByLocks, Running
<1>6. Tickets
  <2>1. NextTicket(0) = 1
    BY <1>1, SMT DEF NextTicket
  <2>2. QED
    BY <2>1 DEF IrqSpinInit, Tickets, Running
<1>7. QED
  BY <1>2, <1>3, <1>4, <1>5, <1>6 DEF IrqInv

\* With every lock taken twice at most, the interrupt flag is restored at the right
\* moment, the nesting counters are exact and no call of spinlock_irqsave_lock spins,
\* for any number of locks, any depth and any exceptions on the way.
THEOREM IrqLocksCorrect == MaxNest \in {1, 2} => (IrqSpinSpec => []IrqLocksRight)
<1> SUFFICES ASSUME MaxNest \in {1, 2} PROVE IrqSpinSpec => []IrqLocksRight
  OBVIOUS
<1>1. IrqInv /\ [IrqSpinNext]_irqSpinVars => IrqInv'
  <2> SUFFICES ASSUME IrqInv, [IrqSpinNext]_irqSpinVars PROVE IrqInv'
    OBVIOUS
  <2>1. CASE interrupt \/ exception
    BY <2>1, EnterInv
  <2>2. CASE iret
    BY <2>2, LeaveInv
  <2>3. CASE acquired
    BY <2>3, AcquiredInv
  <2>4. ASSUME NEW l \in Locks, spinlock_irqsave_lock(l) PROVE IrqInv'
    BY <2>4, NestedInv, AskInv
  <2>5. ASSUME NEW l \in Locks, spinlock_irqsave_unlock(l) PROVE IrqInv'
    BY <2>5, UnlockInv
  <2>6. CASE UNCHANGED irqSpinVars
    <3>1. UNCHANGED <<queue, dequeue, flags, counter, IF_, stack, waiting>>
      BY <2>6 DEF irqSpinVars, lockVars
    <3>2. QED
      <4>1. IrqSpinTypeOK' /\ StackTypeOK'
        BY <3>1 DEF IrqInv, IrqSpinTypeOK, StackTypeOK
      <4>2. InterruptsExact' /\ CounterExact' /\ SavedByHandlers'
        BY <3>1 DEF IrqInv, InterruptsExact, CounterExact, SavedByHandlers, Running
      <4>3. SavedByLocks' /\ Tickets'
        BY <3>1 DEF IrqInv, SavedByLocks, Tickets, Running, NextTicket
      <4>4. QED
        BY <4>1, <4>2, <4>3 DEF IrqInv
  <2>7. QED
    BY <2>1, <2>2, <2>3, <2>4, <2>5, <2>6 DEF IrqSpinNext
<1>2. IrqInv => IrqLocksRight
  <2> SUFFICES ASSUME IrqInv PROVE NeverSpins
    BY DEF IrqInv, IrqLocksRight
  <2>1. ~Running => waiting[1] \in Locks
    BY DEF IrqInv, StackTypeOK, Running
  <2>2. QED
    BY <2>1 DEF IrqInv, Tickets, NeverSpins
<1>3. QED
  BY <1>1, <1>2, IrqInitInv, PTL DEF IrqSpinSpec

-----------------------------------------------------------------------------
(***************************************************************************)
(* Arithmetic.                                                             *)
(***************************************************************************)
\* Division with remainder.
LEMMA DivMod ==
  ASSUME NEW S \in Nat \ {0}, NEW x \in Nat
  PROVE  x = S * (x \div S) + (x % S) /\ x % S \in 0..(S - 1) /\ x \div S \in Nat
OBVIOUS

\* A number below S is its own remainder.
LEMMA ModSmall ==
  ASSUME NEW S \in Nat \ {0}, NEW x \in 0..(S - 1)
  PROVE  x % S = x
OBVIOUS

\* Multiples of S are S apart.
LEMMA Multiples ==
  ASSUME NEW S \in Nat \ {0}, NEW p \in Nat, NEW q \in Nat, p < q
  PROVE  S * p + S <= S * q /\ S * p \in Nat /\ S * q \in Nat
<1>1. PICK d \in Nat : q = p + 1 + d
  <2>1. q - p - 1 \in Nat /\ q = p + 1 + (q - p - 1)
    OBVIOUS
  <2>2. QED
    BY <2>1
<1>2. S * q = S * p + S + S * d /\ S * d \in Nat /\ S * p \in Nat
  BY <1>1
<1>3. QED
  BY <1>2

\* Multiples of S have the remainder 0, and nothing between two of them has.
LEMMA ModZero ==
  ASSUME NEW S \in Nat \ {0}, NEW q \in Nat
  PROVE  (S * q) % S = 0 /\ \A z \in (S * q + 1)..(S * q + S - 1) : z % S # 0
<1>1. S * q \in Nat
  OBVIOUS
<1>2. ASSUME NEW x \in Nat, x % S = 0, x >= S * q, x <= S * q + S - 1 PROVE x = S * q
  <2> DEFINE p == x \div S
  <2>1. x = S * p + 0 /\ p \in Nat
    BY <1>2, DivMod
  <2> HIDE DEF p
  <2>2. ~(p < q) /\ ~(q < p)
    BY <1>1, <1>2, <2>1, Multiples
  <2>3. QED
    BY <2>1, <2>2
<1>3. (S * q) % S = 0
  OBVIOUS
<1>4. ASSUME NEW z \in (S * q + 1)..(S * q + S - 1) PROVE z % S # 0
  <2>1. z \in Nat /\ z >= S * q /\ z <= S * q + S - 1 /\ z # S * q
    BY <1>1
  <2>2. QED
    BY <1>2, <2>1
<1>5. QED
  BY <1>3, <1>4

\* Two numbers of a window of S have different remainders.
LEMMA ModWindow ==
  ASSUME NEW S \in Nat \ {0}, NEW x \in Nat, NEW y \in Nat, x % S = y % S, x - y < S, y - x < S
  PROVE  x = y
<1> DEFINE q == x \div S
           p == y \div S
           r == x % S
<1>1. x = S * q + r /\ q \in Nat /\ r \in 0..(S - 1)
  BY DivMod
<1>2. y = S * p + r /\ p \in Nat
  BY DivMod
<1> HIDE DEF p, q, r
<1>3. CASE q > p
  <2>1. S * q >= S * p + S
    BY <1>1, <1>2, <1>3, Multiples
  <2>2. QED
    BY <1>1, <1>2, <2>1
<1>4. CASE p > q
  <2>1. S * p >= S * q + S
    BY <1>1, <1>2, <1>4, Multiples
  <2>2. QED
    BY <1>1, <1>2, <2>1
<1>5. QED
  BY <1>1, <1>2, <1>3, <1>4

-----------------------------------------------------------------------------
(***************************************************************************)
(* KernelLog.                                                              *)
(***************************************************************************)
\* What kmsg_read keeps of a file.
Reads == [at : {"open", "loop", "end"}, start : 0..(KMSG_SIZE - 1), i : Nat, size : Nat, offset : Nat]

\* The types.
KLogTypes ==
  /\ locked \in BOOLEAN
  /\ kmessages \in [0..(KMSG_SIZE - 1) -> Chars \cup {0}] /\ kmsg_counter \in 0..MAX_LOG
  /\ pending \in [Writers -> {Nothing} \cup ((1..MAX_LOG) \X Chars)]
  /\ log \in Seq(Chars) /\ out \in Seq(Chars \cup {0})
  /\ rd \in Reads /\ rd.i <= rd.size

\* What a writer is about to store is the character at its position, no two
\* writers have the same position, and none is a whole ring behind.
StoresPending ==
  /\ Len(log) = kmsg_counter
  /\ \A w \in Writers : pending[w] # Nothing =>
       /\ pending[w][1] \in 1..kmsg_counter /\ pending[w][1] > kmsg_counter - KMSG_SIZE
       /\ log[pending[w][1]] = pending[w][2]
       /\ \A v \in Writers : v # w /\ pending[v] # Nothing => pending[v][1] # pending[w][1]

\* Until the ring has been filled, the places 0 and above the counter are unused.
Unused ==
  kmsg_counter < KMSG_SIZE =>
    \A m \in 0..(KMSG_SIZE - 1) : m = 0 \/ m > kmsg_counter => kmessages[m] = 0

\* What a reader has got, while the ring has not been filled.
ReaderBehind ==
  /\ Len(out) = rd.offset
  /\ locked /\ kmsg_counter < KMSG_SIZE - 1 =>
       /\ rd.start = 0 /\ rd.offset <= kmsg_counter
       /\ \A k \in 1..rd.offset : out[k] = IF k = 1 THEN 0 ELSE log[k - 1]

\* The inductive invariant.
KLogInv == KLogTypes /\ StoresPending /\ RingHoldsLog /\ Unused /\ ReaderBehind

\* The reader's step, so that the parts of the invariant about writers stay.
ReaderStep == UNCHANGED <<locked, kmessages, kmsg_counter, pending, log>>

\* A reader changes nothing that a writer knows of.
LEMMA ReaderHarmless ==
  ASSUME KLogInv, ReaderStep
  PROVE  StoresPending' /\ RingHoldsLog' /\ Unused'
BY DEF KLogInv, ReaderStep, StoresPending, RingHoldsLog, Unused

\* Places in the ring are numbered from 0.
LEMMA Places ==
  /\ KMSG_SIZE \in Nat \ {0}
  /\ \A x \in Nat : x % KMSG_SIZE \in 0..(KMSG_SIZE - 1)
  /\ Start \in 0..(KMSG_SIZE - 1) \/ kmsg_counter \notin Nat
<1>1. KMSG_SIZE \in Nat \ {0}
  BY KernelLogAssumption
<1>2. \A x \in Nat : x % KMSG_SIZE \in 0..(KMSG_SIZE - 1)
  BY <1>1, DivMod
<1>3. ASSUME kmsg_counter \in Nat PROVE Start \in 0..(KMSG_SIZE - 1)
  <2>1. kmsg_counter + 1 \in Nat
    BY <1>3
  <2>2. (kmsg_counter + 1) % KMSG_SIZE \in 0..(KMSG_SIZE - 1)
    BY <1>2, <2>1
  <2>3. QED
    BY <1>1, <2>2 DEF Start
<1>4. QED
  BY <1>1, <1>2, <1>3

\* The increment: the new character has a position and no place yet.
LEMMA PutStep ==
  ASSUME KLogInv, NEW w \in Writers, NEW c \in Chars, kputchar(w, c)
  PROVE  KLogInv'
<1> USE DEF KLogInv
<1> DEFINE n == kmsg_counter + 1
<1>1. /\ kmsg_counter \in Nat /\ n \in 1..MAX_LOG /\ KMSG_SIZE \in Nat \ {0}
      /\ pending[w] = Nothing /\ kmsg_counter' = n /\ NotLapped
      /\ pending' = [pending EXCEPT ![w] = <<n, c>>] /\ log' = Append(log, c)
      /\ UNCHANGED <<locked, kmessages, rd, out>>
  BY KernelLogAssumption DEF kputchar, KLogTypes, position
<1>2. /\ pending'[w] = <<n, c>> /\ \A v \in Writers \ {w} : pending'[v] = pending[v]
  BY <1>1 DEF KLogTypes
<1>3. log' \in Seq(Chars) /\ Len(log') = n /\ log'[n] = c /\ \A k \in 1..kmsg_counter : log'[k] = log[k]
  BY <1>1 DEF KLogTypes, StoresPending
<1>4. KLogTypes'
  <2>1. <<n, c>> \in (1..MAX_LOG) \X Chars /\ n \in 0..MAX_LOG
    BY <1>1
  <2>2. QED
    BY <1>1, <1>3, <2>1 DEF KLogTypes
<1>5. \A v \in Writers : pending[v] # Nothing =>
        /\ pending[v][1] \in 1..kmsg_counter /\ pending[v][1] > n - KMSG_SIZE
  <2> SUFFICES ASSUME NEW v \in Writers, pending[v] # Nothing
               PROVE  pending[v][1] \in 1..kmsg_counter /\ pending[v][1] > n - KMSG_SIZE
    OBVIOUS
  <2>1. pending[v][1] \in 1..kmsg_counter /\ n < pending[v][1] + KMSG_SIZE
    BY <1>1 DEF NotLapped, StoresPending
  <2>2. QED
    BY <1>1, <2>1
<1>6. StoresPending'
  <2>1. /\ n \in 1..n /\ n > n - KMSG_SIZE /\ <<n, c>>[1] = n /\ <<n, c>>[2] = c
        /\ \A k \in 1..kmsg_counter : k \in 1..n /\ k # n
    BY <1>1
  <2> HIDE DEF n
  <2>2. ASSUME NEW v \in Writers, pending'[v] # Nothing
        PROVE  /\ pending'[v][1] \in 1..n /\ pending'[v][1] > n - KMSG_SIZE
               /\ log'[pending'[v][1]] = pending'[v][2]
               /\ \A u \in Writers : u # v /\ pending'[u] # Nothing => pending'[u][1] # pending'[v][1]
    <3>1. CASE v = w
      BY <1>2, <1>3, <1>5, <2>1, <3>1
    <3>2. CASE v # w
      <4>1. pending'[v] = pending[v] /\ pending[v] # Nothing
        BY <1>2, <2>2, <3>2
      <4>2. QED
        BY <1>2, <1>3, <1>5, <2>1, <3>2, <4>1 DEF StoresPending
    <3>3. QED
      BY <3>1, <3>2
  <2>3. QED
    BY <1>1, <1>3, <2>2 DEF StoresPending
<1>7. RingHoldsLog'
  <2> SUFFICES ASSUME NEW k \in 1..n, k > n - KMSG_SIZE,
                      \A v \in Writers : pending'[v] = Nothing \/ pending'[v][1] % KMSG_SIZE # k % KMSG_SIZE
               PROVE  kmessages[k % KMSG_SIZE] = log'[k]
    BY <1>1, <1>3 DEF RingHoldsLog
  <2>1. pending'[w] # Nothing /\ pending'[w][1] = n
    BY <1>1, <1>2 DEF Nothing
  <2>2. k # n /\ k \in 1..kmsg_counter /\ k > kmsg_counter - KMSG_SIZE
    <3>1. k # n
      BY <2>1
    <3>2. QED
      BY <1>1, <3>1
  <2>3. \A v \in Writers : pending[v] = Nothing \/ pending[v][1] % KMSG_SIZE # k % KMSG_SIZE
    BY <1>1, <1>2
  <2>4. QED
    BY <1>3, <2>2, <2>3 DEF RingHoldsLog, StoresPending
<1>8. Unused'
  BY <1>1 DEF Unused
<1>9. ReaderBehind'
  <2>1. ASSUME locked, n < KMSG_SIZE - 1
        PROVE  /\ rd.start = 0 /\ rd.offset <= n
               /\ \A k \in 1..rd.offset : out[k] = IF k = 1 THEN 0 ELSE log'[k - 1]
    <3>1. /\ rd.start = 0 /\ rd.offset <= kmsg_counter /\ rd.offset \in Nat
          /\ \A k \in 1..rd.offset : out[k] = IF k = 1 THEN 0 ELSE log[k - 1]
      BY <1>1, <2>1 DEF ReaderBehind, KLogTypes, Reads
    <3>2. \A k \in 1..rd.offset : k # 1 => k - 1 \in 1..kmsg_counter
      BY <1>1, <3>1
    <3>3. QED
      BY <1>1, <1>3, <3>1, <3>2
  <2>2. QED
    BY <1>1, <2>1 DEF ReaderBehind
<1>10. QED
  BY <1>4, <1>6, <1>7, <1>8, <1>9

\* The store: it fills the place of its own character and of no other one that
\* the ring still holds.
LEMMA StoreStep ==
  ASSUME KLogInv, NEW w \in Writers, store(w)
  PROVE  KLogInv'
<1> USE DEF KLogInv
<1> DEFINE p == pending[w][1]
           K == KMSG_SIZE
<1>1. /\ pending[w] # Nothing /\ kmessages' = [kmessages EXCEPT ![p % K] = pending[w][2]]
      /\ pending' = [pending EXCEPT ![w] = Nothing] /\ UNCHANGED <<locked, kmsg_counter, log, rd, out>>
  BY DEF store
<1>2. /\ K \in Nat \ {0} /\ kmsg_counter \in Nat /\ p \in 1..kmsg_counter /\ p > kmsg_counter - K
      /\ log[p] = pending[w][2] /\ pending[w][2] \in Chars /\ p % K \in 0..(K - 1)
  <2>1. K \in Nat \ {0} /\ kmsg_counter \in Nat /\ p \in 1..kmsg_counter /\ p > kmsg_counter - K
    BY <1>1, KernelLogAssumption DEF KLogTypes, StoresPending
  <2>2. p % K \in 0..(K - 1)
    <3>1. p \in Nat
      BY <2>1
    <3>2. QED
      BY <3>1, Places
  <2>3. log[p] = pending[w][2] /\ pending[w][2] \in Chars
    BY <1>1 DEF KLogTypes, StoresPending
  <2>4. QED
    BY <2>1, <2>2, <2>3
<1>3. pending'[w] = Nothing /\ \A v \in Writers \ {w} : pending'[v] = pending[v]
  BY <1>1 DEF KLogTypes
<1> HIDE DEF p, K
<1>4. KLogTypes'
  BY <1>1, <1>2 DEF KLogTypes, K
<1>5. StoresPending'
  BY <1>1, <1>3 DEF StoresPending
<1>6. RingHoldsLog'
  <2> SUFFICES ASSUME NEW n \in 1..Len(log), n > kmsg_counter - K,
                      \A v \in Writers : pending'[v] = Nothing \/ pending'[v][1] % K # n % K
               PROVE  kmessages'[n % K] = log[n]
    BY <1>1 DEF RingHoldsLog, K
  <2>1. Len(log) = kmsg_counter /\ n \in Nat /\ n % K \in 0..(K - 1)
    <3>1. Len(log) = kmsg_counter /\ n \in Nat
      BY <1>2 DEF StoresPending
    <3>2. QED
      BY <3>1, Places DEF K
  <2>2. CASE n % K = p % K
    <3>1. n = p
      <4>1. n - p < K /\ p - n < K /\ p \in Nat
        BY <1>2, <2>1
      <4>2. QED
        BY <1>2, <2>1, <2>2, <4>1, ModWindow
    <3>2. QED
      BY <1>1, <1>2, <3>1 DEF KLogTypes, K
  <2>3. CASE n % K # p % K
    <3>1. \A v \in Writers : pending[v] = Nothing \/ pending[v][1] % K # n % K
      BY <1>3, <2>3 DEF p
    <3>2. kmessages[n % K] = log[n]
      BY <3>1 DEF RingHoldsLog, K
    <3>3. QED
      BY <1>1, <2>1, <2>3, <3>2 DEF KLogTypes, K
  <2>4. QED
    BY <2>2, <2>3
<1>7. Unused'
  <2> SUFFICES ASSUME kmsg_counter < K, NEW m \in 0..(K - 1), m = 0 \/ m > kmsg_counter
               PROVE  kmessages'[m] = 0
    BY <1>1 DEF Unused, K
  <2>1. p \in 0..(K - 1)
    BY <1>2
  <2>2. p % K = p
    BY <1>2, <2>1, ModSmall
  <2>3. m # p % K
    BY <1>2, <2>2
  <2>4. QED
    BY <1>1, <2>3 DEF Unused, KLogTypes, K
<1>8. ReaderBehind'
  BY <1>1 DEF ReaderBehind
<1>9. QED
  BY <1>4, <1>5, <1>6, <1>7, <1>8

\* A read begins at the unused place 0 as long as the ring has not been filled.
LEMMA ReadStep ==
  ASSUME KLogInv, NEW n \in 1..MAX_READ, kmsg_read(n)
  PROVE  KLogInv'
<1> USE DEF KLogInv
<1>1. ReaderStep /\ out' = out
  BY DEF kmsg_read, ReaderStep
<1>2. Start \in 0..(KMSG_SIZE - 1) /\ n \in Nat /\ kmsg_counter \in Nat /\ KMSG_SIZE \in Nat \ {0}
  BY Places, KernelLogAssumption DEF KLogTypes
<1>3. ASSUME kmsg_counter < KMSG_SIZE - 1 PROVE Start = 0
  <2>1. kmsg_counter + 1 \in 0..(KMSG_SIZE - 1) /\ kmsg_counter + 1 > kmsg_counter
    BY <1>2, <1>3
  <2>2. (kmsg_counter + 1) % KMSG_SIZE = kmsg_counter + 1
    BY <1>2, <2>1, ModSmall
  <2>3. kmessages[kmsg_counter + 1] = 0
    BY <1>2, <1>3, <2>1 DEF Unused
  <2>4. QED
    BY <2>2, <2>3 DEF Start
<1>4. CASE rd' = [rd EXCEPT !.at = "end"]
  BY <1>1, <1>4, ReaderHarmless DEF KLogTypes, Reads, ReaderStep, ReaderBehind
<1>5. CASE rd' = [rd EXCEPT !.at = "loop", !.start = Start, !.i = 0, !.size = n]
  <2>1. rd' \in Reads /\ rd'.i <= rd'.size /\ rd'.start = Start /\ rd'.offset = rd.offset
    <3>1. rd \in Reads
      BY DEF KLogTypes
    <3>2. [rd EXCEPT !.at = "loop", !.start = Start, !.i = 0, !.size = n] \in Reads
      BY <1>2, <3>1 DEF Reads
    <3>3. rd'.i <= rd'.size /\ rd'.start = Start /\ rd'.offset = rd.offset
      BY <1>2, <1>5, <3>1 DEF Reads
    <3>4. QED
      BY <1>5, <3>2, <3>3
  <2>2. KLogTypes'
    BY <1>1, <2>1 DEF KLogTypes, ReaderStep
  <2>3. ReaderBehind'
    BY <1>1, <1>3, <2>1 DEF ReaderStep, ReaderBehind
  <2>4. QED
    BY <1>1, <2>2, <2>3, ReaderHarmless
<1>6. QED
  BY <1>4, <1>5 DEF kmsg_read

\* One character is copied: the next one of the log.
LEMMA CopyStep ==
  ASSUME KLogInv, kmsg_copy
  PROVE  KLogInv'
<1> USE DEF KLogInv
<1>1. ReaderStep /\ rd.at = "loop"
  BY DEF kmsg_copy, ReaderStep
<1>2. /\ kmsg_counter \in Nat /\ KMSG_SIZE \in Nat \ {0} /\ rd.offset \in Nat
      /\ rd.start \in 0..(KMSG_SIZE - 1)
  BY KernelLogAssumption DEF KLogTypes, Reads
<1>3. CASE Place = kmsg_counter
  <2>1. rd' = [rd EXCEPT !.at = "open", !.i = 0, !.size = 0] /\ out' = out
    BY <1>3 DEF kmsg_copy
  <2>2. rd' \in Reads /\ rd'.i <= rd'.size /\ rd'.start = rd.start /\ rd'.offset = rd.offset
    <3>1. rd \in Reads
      BY DEF KLogTypes
    <3>2. [rd EXCEPT !.at = "open", !.i = 0, !.size = 0] \in Reads
      BY <3>1 DEF Reads
    <3>3. rd'.i <= rd'.size /\ rd'.start = rd.start /\ rd'.offset = rd.offset
      BY <2>1, <3>1 DEF Reads
    <3>4. QED
      BY <2>1, <3>2, <3>3
  <2>3. KLogTypes' /\ ReaderBehind'
    BY <1>1, <2>1, <2>2 DEF KLogTypes, ReaderStep, ReaderBehind
  <2>4. QED
    BY <1>1, <2>3, ReaderHarmless
<1>4. CASE Place # kmsg_counter
  <2>1. /\ out' = Append(out, kmessages[Place])
        /\ rd' = IF rd.i + 1 < rd.size
                 THEN [rd EXCEPT !.i = @ + 1, !.offset = @ + 1]
                 ELSE [rd EXCEPT !.at = "open", !.offset = @ + 1, !.i = 0, !.size = 0]
    BY <1>4 DEF kmsg_copy
  <2>2. Place \in 0..(KMSG_SIZE - 1) /\ kmessages[Place] \in Chars \cup {0}
    <3>1. rd.start + rd.offset \in Nat
      BY <1>2
    <3>2. Place \in 0..(KMSG_SIZE - 1)
      BY <3>1, Places DEF Place
    <3>3. QED
      BY <3>2 DEF KLogTypes
  <2>3. /\ out' \in Seq(Chars \cup {0}) /\ Len(out') = rd.offset + 1 /\ out'[rd.offset + 1] = kmessages[Place]
        /\ \A k \in 1..rd.offset : out'[k] = out[k]
    BY <1>2, <2>1, <2>2 DEF KLogTypes, ReaderBehind
  <2>4. rd' \in Reads /\ rd'.i <= rd'.size /\ rd'.offset = rd.offset + 1 /\ rd'.start = rd.start
    <3> DEFINE x == rd.i + 1
               o == rd.offset + 1
    <3>1. rd \in Reads /\ x \in Nat /\ o \in Nat /\ rd.size \in Nat
      BY DEF KLogTypes, Reads
    <3>2. CASE x < rd.size
      <4>1. rd' = [rd EXCEPT !.i = x, !.offset = o] /\ x <= rd.size
        BY <2>1, <3>1, <3>2
      <4> HIDE DEF x, o
      <4>2. [rd EXCEPT !.i = x, !.offset = o] \in Reads
        BY <3>1 DEF Reads
      <4>3. rd'.i <= rd'.size /\ rd'.start = rd.start /\ rd'.offset = o
        BY <3>1, <4>1 DEF Reads
      <4>4. QED
        BY <4>1, <4>2, <4>3 DEF o
    <3>3. CASE ~(x < rd.size)
      <4>1. rd' = [rd EXCEPT !.at = "open", !.offset = o, !.i = 0, !.size = 0]
        BY <2>1, <3>3
      <4> HIDE DEF x, o
      <4>2. [rd EXCEPT !.at = "open", !.offset = o, !.i = 0, !.size = 0] \in Reads
        BY <3>1 DEF Reads
      <4>3. rd'.i <= rd'.size /\ rd'.start = rd.start /\ rd'.offset = o
        BY <3>1, <4>1 DEF Reads
      <4>4. QED
        BY <4>1, <4>2, <4>3 DEF o
    <3>4. QED
      BY <3>2, <3>3
  <2>5. KLogTypes'
    BY <1>1, <2>3, <2>4 DEF KLogTypes, ReaderStep
  <2>6. ASSUME locked, kmsg_counter < KMSG_SIZE - 1
        PROVE  /\ rd.offset + 1 <= kmsg_counter
               /\ kmessages[Place] = IF rd.offset = 0 THEN 0 ELSE log[rd.offset]
    <3>1. rd.start = 0 /\ rd.offset <= kmsg_counter
      BY <2>6 DEF ReaderBehind
    <3>2. rd.start + rd.offset \in 0..(KMSG_SIZE - 1) /\ rd.start + rd.offset = rd.offset
      BY <1>2, <2>6, <3>1
    <3>3. Place = rd.offset
      BY <1>2, <3>2, ModSmall DEF Place
    <3>4. rd.offset < kmsg_counter
      BY <1>2, <1>4, <3>1, <3>3
    <3>5. CASE rd.offset = 0
      BY <1>2, <2>6, <3>3, <3>4, <3>5 DEF Unused
    <3>6. CASE rd.offset # 0
      <4>1. \A v \in Writers : pending[v] = Nothing
        BY <2>6 DEF kmsg_copy, Interruptible
      <4>2. rd.offset \in 1..Len(log) /\ rd.offset > kmsg_counter - KMSG_SIZE
        BY <1>2, <2>6, <3>4, <3>6 DEF StoresPending
      <4>3. kmessages[rd.offset % KMSG_SIZE] = log[rd.offset]
        BY <4>1, <4>2 DEF RingHoldsLog
      <4>4. rd.offset % KMSG_SIZE = Place
        BY <3>2 DEF Place
      <4>5. QED
        BY <1>2, <3>4, <3>6, <4>3, <4>4
    <3>7. QED
      BY <1>2, <3>4, <3>5, <3>6
  <2>7. ReaderBehind'
    <3>1. ASSUME locked, kmsg_counter < KMSG_SIZE - 1
          PROVE  /\ rd'.start = 0 /\ rd'.offset <= kmsg_counter
                 /\ \A k \in 1..rd'.offset : out'[k] = IF k = 1 THEN 0 ELSE log[k - 1]
      <4>1. /\ rd.start = 0
            /\ \A k \in 1..rd.offset : out[k] = IF k = 1 THEN 0 ELSE log[k - 1]
        BY <3>1 DEF ReaderBehind
      <4>2. ASSUME NEW k \in 1..(rd.offset + 1) PROVE out'[k] = IF k = 1 THEN 0 ELSE log[k - 1]
        <5>1. CASE k = rd.offset + 1
          BY <1>2, <2>3, <2>6, <3>1, <5>1
        <5>2. CASE k # rd.offset + 1
          <6>1. k \in 1..rd.offset
            BY <1>2, <4>2, <5>2
          <6>2. QED
            BY <2>3, <4>1, <6>1
        <5>3. QED
          BY <5>1, <5>2
      <4>3. QED
        BY <2>4, <2>6, <3>1, <4>1, <4>2
    <3>2. QED
      BY <1>1, <2>3, <2>4, <3>1 DEF ReaderBehind, ReaderStep
  <2>8. QED
    BY <1>1, <2>5, <2>7, ReaderHarmless
<1>5. QED
  BY <1>3, <1>4

\* What is in the ring and what a reader gets, in the terms of the property.
LEMMA KLogInvRight == KLogInv => LogRight
<1> SUFFICES ASSUME KLogInv PROVE LogRight
  OBVIOUS
<1>1. KLogTypeOK /\ RingHoldsLog
  BY DEF KLogInv, KLogTypes, Reads, KLogTypeOK
<1>2. ASSUME locked, kmsg_counter < KMSG_SIZE - 1, out # << >>
      PROVE  /\ out[1] = 0 /\ Len(out) <= Len(log) + 1
             /\ Tail(out) = SubSeq(log, 1, Len(out) - 1)
  <2>1. /\ out \in Seq(Chars \cup {0}) /\ log \in Seq(Chars) /\ Len(out) = rd.offset
        /\ Len(log) = kmsg_counter /\ kmsg_counter \in Nat
        /\ rd.offset <= kmsg_counter /\ \A k \in 1..rd.offset : out[k] = IF k = 1 THEN 0 ELSE log[k - 1]
    BY <1>2 DEF KLogInv, KLogTypes, StoresPending, ReaderBehind
  <2> DEFINE n == Len(out)
  <2>2. n \in Nat \ {0}
    BY <1>2, <2>1
  <2>3. Tail(out) \in Seq(Chars \cup {0}) /\ Len(Tail(out)) = n - 1
        /\ \A k \in 1..(n - 1) : Tail(out)[k] = out[k + 1]
    BY <1>2, <2>1, <2>2
  <2>4. /\ SubSeq(log, 1, n - 1) \in Seq(Chars) /\ Len(SubSeq(log, 1, n - 1)) = n - 1
        /\ \A k \in 1..(n - 1) : SubSeq(log, 1, n - 1)[k] = log[k]
    BY <2>1, <2>2
  <2>5. \A k \in 1..(n - 1) : out[k + 1] = log[k]
    BY <2>1, <2>2
  <2>6. Tail(out) = SubSeq(log, 1, n - 1)
    <3> DEFINE a == Tail(out)
               b == SubSeq(log, 1, n - 1)
    <3>1. a \in Seq(Chars \cup {0}) /\ b \in Seq(Chars) /\ Len(a) = Len(b)
          /\ \A k \in 1..Len(a) : a[k] = b[k]
      BY <2>3, <2>4, <2>5
    <3>2. b \in Seq(Chars \cup {0})
      BY <3>1
    <3> HIDE DEF a, b
    <3>3. a = b
      BY <3>1, <3>2
    <3>4. QED
      BY <3>3 DEF a, b
  <2>7. QED
    BY <2>1, <2>2, <2>6
<1>3. QED
  BY <1>1, <1>2 DEF LogRight, ReadsPrefix

\* However the writers of the kernel log interleave, the ring holds the last
\* KMSG_SIZE characters that are not being stored, and as long as it has not been
\* filled a reader gets a prefix of the log behind the unused first place: for
\* every size of the ring, number of writers and size of the reads.
THEOREM KernelLogRight == KLogSpec => []LogRight
<1>1. KLogInit => KLogInv
  BY KernelLogAssumption DEF KLogInit, KLogInv, KLogTypes, StoresPending, RingHoldsLog, Unused,
                             ReaderBehind, NotRead, Reads
<1>2. KLogInv /\ [KLogNext]_klogVars => KLogInv'
  <2> SUFFICES ASSUME KLogInv, [KLogNext]_klogVars PROVE KLogInv'
    OBVIOUS
  <2>1. CASE reopen
    <3>1. ReaderStep /\ rd' = NotRead /\ out' = << >>
      BY <2>1 DEF reopen, ReaderStep
    <3>2. KLogTypes' /\ ReaderBehind'
      BY <3>1, KernelLogAssumption DEF KLogInv, KLogTypes, ReaderBehind, ReaderStep, NotRead, Reads
    <3>3. QED
      BY <3>1, <3>2, ReaderHarmless DEF KLogInv
  <2>2. CASE UNCHANGED klogVars
    BY <2>2 DEF klogVars, KLogInv, KLogTypes, StoresPending, RingHoldsLog, Unused, ReaderBehind
  <2>3. QED
    BY <2>1, <2>2, PutStep, StoreStep, ReadStep, CopyStep DEF KLogNext
<1>3. QED
  BY <1>1, <1>2, KLogInvRight, PTL DEF KLogSpec

-----------------------------------------------------------------------------
(***************************************************************************)
(* Vga.                                                                    *)
(***************************************************************************)
\* The tabulator stop that vga_putchar computes is the first one behind the cursor,
\* and it is on the screen or at its edge.
LEMMA TabStop ==
  ASSUME NEW x \in 0..(COLS - 1)
  PROVE  LET s == tab_stop(x)
         IN  /\ s \in 1..COLS /\ s > x /\ s % TAB = 0
             /\ \A z \in (x + 1)..(s - 1) : z % TAB # 0
<1> DEFINE q == x \div TAB
           r == x % TAB
           m == COLS \div TAB
<1>1. TAB \in Nat \ {0} /\ COLS \in Nat \ {0} /\ COLS % TAB = 0 /\ x \in Nat /\ x < COLS
  BY VgaAssumption
<1>2. x = TAB * q + r /\ r \in 0..(TAB - 1) /\ q \in Nat
  BY <1>1, DivMod
<1>3. COLS = TAB * m /\ m \in Nat
  BY <1>1, DivMod
<1>4. (x + TAB) \div TAB = q + 1
  <2>1. x + TAB \in Nat
    BY <1>1
  <2> DEFINE p == (x + TAB) \div TAB
             t == (x + TAB) % TAB
  <2>2. x + TAB = TAB * p + t /\ t \in 0..(TAB - 1) /\ p \in Nat
    BY <1>1, <2>1, DivMod
  <2> HIDE DEF p, t, q, r
  <2>3. TAB * (q + 1) = TAB * q + TAB /\ q + 1 \in Nat /\ TAB * q \in Nat
    BY <1>1, <1>2
  <2>4. ~(p < q + 1)
    <3>1. p < q + 1 => TAB * p + TAB <= TAB * (q + 1)
      BY <1>1, <2>2, <2>3, Multiples
    <3>2. QED
      BY <1>1, <1>2, <2>2, <2>3, <3>1
  <2>5. ~(q + 1 < p)
    <3>1. q + 1 < p => TAB * (q + 1) + TAB <= TAB * p
      BY <1>1, <2>2, <2>3, Multiples
    <3>2. QED
      BY <1>1, <1>2, <2>2, <2>3, <3>1
  <2>6. p = q + 1
    BY <1>2, <2>2, <2>4, <2>5
  <2>7. QED
    BY <2>6 DEF p
<1> HIDE DEF q, r, m
<1>5. tab_stop(x) = TAB * (q + 1) /\ TAB * (q + 1) = TAB * q + TAB /\ TAB * q \in Nat
  BY <1>1, <1>2, <1>4 DEF tab_stop
<1>6. TAB * (q + 1) <= COLS
  <2>1. q < m
    <3>1. m <= q => TAB * m <= TAB * q
      BY <1>1, <1>2, <1>3, Multiples
    <3>2. QED
      BY <1>1, <1>2, <1>3, <1>5, <3>1
  <2>2. TAB * q + TAB <= TAB * m
    BY <1>1, <1>2, <1>3, <2>1, Multiples
  <2>3. QED
    BY <1>1, <1>3, <1>5, <2>2
<1>7. tab_stop(x) % TAB = 0
  <2>1. (TAB * (q + 1)) % TAB = 0
    <3> DEFINE p == q + 1
    <3>1. p \in Nat
      BY <1>2
    <3> HIDE DEF p
    <3>2. (TAB * p) % TAB = 0
      BY <1>1, <3>1, ModZero
    <3>3. QED
      BY <3>2 DEF p
  <2>2. QED
    BY <1>5, <2>1
<1>8. ASSUME NEW z \in (x + 1)..(tab_stop(x) - 1) PROVE z % TAB # 0
  <2>1. z \in (TAB * q + 1)..(TAB * q + TAB - 1)
    BY <1>1, <1>2, <1>5, <1>8
  <2>2. QED
    BY <1>1, <1>2, <2>1, ModZero
<1>9. QED
  BY <1>1, <1>2, <1>5, <1>6, <1>7, <1>8

-----------------------------------------------------------------------------
\* A cell of the screen has one row and one column.
LEMMA CellOf ==
  ASSUME NEW y \in 0..(ROWS - 1), NEW x \in 0..(COLS - 1)
  PROVE  /\ y * COLS + x \in Cells /\ y * COLS \in Nat
         /\ \A v \in 0..(ROWS - 1), u \in 0..(COLS - 1) : v * COLS + u = y * COLS + x => v = y /\ u = x
<1>1. COLS \in Nat \ {0} /\ ROWS \in Nat \ {0} /\ y \in Nat /\ x \in Nat
  BY VgaAssumption
<1>2. \A v \in Nat : v * COLS = COLS * v /\ COLS * v \in Nat
  BY <1>1
<1>3. COLS * y + COLS <= COLS * ROWS /\ COLS * ROWS \in Nat
  BY <1>1, Multiples
<1>4. y * COLS + x \in Cells
  <2>1. ROWS * COLS = COLS * ROWS /\ y * COLS = COLS * y /\ COLS * y \in Nat
    BY <1>1
  <2>2. QED
    BY <1>1, <1>3, <2>1 DEF Cells
<1>5. ASSUME NEW v \in 0..(ROWS - 1), NEW u \in 0..(COLS - 1), v * COLS + u = y * COLS + x
      PROVE  v = y /\ u = x
  <2>1. COLS * v + u = COLS * y + x /\ COLS * v \in Nat /\ COLS * y \in Nat /\ v \in Nat /\ u \in Nat
    BY <1>1, <1>2, <1>5
  <2>2. ~(v < y)
    <3>1. v < y => COLS * v + COLS <= COLS * y
      BY <1>1, <2>1, Multiples
    <3>2. QED
      BY <1>1, <2>1, <3>1
  <2>3. ~(y < v)
    <3>1. y < v => COLS * y + COLS <= COLS * v
      BY <1>1, <2>1, Multiples
    <3>2. QED
      BY <1>1, <2>1, <3>1
  <2>4. QED
    BY <1>1, <2>1, <2>2, <2>3
<1>6. QED
  BY <1>1, <1>2, <1>4, <1>5

\* The screen shows the lines of the sheet p from the line t on.
Shows(txt, p, t) ==
  \A y \in 0..(ROWS - 1), x \in 0..(COLS - 1) :
    txt[y * COLS + x] = IF t + y <= MAX_LINES THEN p[t + y][x] ELSE BLANK

Sheets == [0..MAX_LINES -> [0..(COLS - 1) -> Printable]]

\* A character is typed at the cursor and at its place on the paper.
LEMMA TypeShows ==
  ASSUME NEW txt \in [Cells -> Printable], NEW p \in Sheets, NEW t \in Nat, Shows(txt, p, t),
         NEW y \in 0..(ROWS - 1), NEW x \in 0..(COLS - 1), t + y <= MAX_LINES, NEW c \in Printable
  PROVE  /\ [txt EXCEPT ![y * COLS + x] = c] \in [Cells -> Printable]
         /\ [p EXCEPT ![t + y][x] = c] \in Sheets
         /\ Shows([txt EXCEPT ![y * COLS + x] = c], [p EXCEPT ![t + y][x] = c], t)
<1> DEFINE q == [p EXCEPT ![t + y][x] = c]
           e == [txt EXCEPT ![y * COLS + x] = c]
<1>1. t + y \in 0..MAX_LINES /\ ROWS \in Nat /\ COLS \in Nat /\ MAX_LINES \in Nat /\ y \in Nat
  BY VgaAssumption
<1>2. e \in [Cells -> Printable]
  OBVIOUS
<1>3. q \in Sheets
  BY <1>1 DEF Sheets
<1>4. ASSUME NEW v \in 0..(ROWS - 1), NEW u \in 0..(COLS - 1)
      PROVE  e[v * COLS + u] = IF t + v <= MAX_LINES THEN q[t + v][u] ELSE BLANK
  <2>1. txt[v * COLS + u] = IF t + v <= MAX_LINES THEN p[t + v][u] ELSE BLANK
    BY DEF Shows
  <2>2. v * COLS + u \in Cells /\ v \in Nat
    <3>1. v \in Nat
      BY <1>1
    <3>2. QED
      BY <3>1, CellOf
  <2>3. CASE v = y /\ u = x
    BY <1>1, <2>2, <2>3 DEF Sheets
  <2>4. CASE ~(v = y /\ u = x)
    <3>1. v * COLS + u # y * COLS + x
      BY <2>4, CellOf
    <3>2. e[v * COLS + u] = txt[v * COLS + u]
      BY <2>2, <3>1
    <3>3. ASSUME t + v <= MAX_LINES PROVE q[t + v][u] = p[t + v][u]
      <4>1. t + v \in 0..MAX_LINES /\ (t + v = t + y => v = y)
        BY <1>1, <2>2, <3>3
      <4>2. CASE v = y
        BY <1>1, <2>4, <4>1, <4>2 DEF Sheets
      <4>3. CASE v # y
        BY <1>1, <4>1, <4>3 DEF Sheets
      <4>4. QED
        BY <4>2, <4>3
    <3>4. QED
      BY <2>1, <3>2, <3>3
  <2>5. QED
    BY <2>3, <2>4
<1>5. QED
  BY <1>2, <1>3, <1>4 DEF Shows

\* Scrolling by one line shows the sheet from the next line on.
LEMMA ScrollShows ==
  ASSUME NEW txt \in [Cells -> Printable], NEW p \in Sheets, NEW t \in Nat, Shows(txt, p, t),
         t + ROWS <= MAX_LINES, p[t + ROWS] = BlankLine
  PROVE  /\ scroll(txt, ROWS) \in [Cells -> Printable]
         /\ Shows(scroll(txt, ROWS), p, t + 1)
<1> DEFINE N == (ROWS - 1) * COLS
           e == scroll(txt, ROWS)
<1>1. ROWS \in Nat \ {0} /\ COLS \in Nat \ {0} /\ MAX_LINES \in Nat /\ BLANK \in Printable
  BY VgaAssumption
<1>2. N \in Nat /\ ROWS * COLS = N + COLS
  <2>1. (ROWS - 1) \in Nat
    BY <1>1
  <2>2. QED
    BY <1>1, <2>1
<1>3. e = [k \in Cells |-> IF k < N THEN txt[k + COLS] ELSE BLANK]
  <2>1. ROWS - (ROWS - ROWS + 1) = ROWS - 1 /\ ROWS - (ROWS - ROWS + 1) + 1 = ROWS
        /\ (ROWS - ROWS + 1) * COLS = COLS
    BY <1>1
  <2>2. e = [k \in Cells |-> CASE k < N -> txt[k + COLS]
                               [] k \in N..(ROWS * COLS - 1) -> BLANK
                               [] OTHER -> txt[k]]
    BY <1>1, <2>1 DEF scroll
  <2>3. ASSUME NEW k \in Cells
        PROVE  (CASE k < N -> txt[k + COLS] [] k \in N..(ROWS * COLS - 1) -> BLANK [] OTHER -> txt[k])
                 = IF k < N THEN txt[k + COLS] ELSE BLANK
    <3> HIDE DEF N
    <3> QED BY <1>1, <1>2 DEF Cells
  <2> HIDE DEF N, e
  <2>4. QED
    BY <2>2, <2>3
<1> HIDE DEF e
<1>4. \A k \in Cells : k < N => k + COLS \in Cells
  <2> HIDE DEF N
  <2> QED BY <1>1, <1>2 DEF Cells
<1>5. e \in [Cells -> Printable]
  BY <1>1, <1>3, <1>4
<1>6. ASSUME NEW y \in 0..(ROWS - 1), NEW x \in 0..(COLS - 1)
      PROVE  e[y * COLS + x] = IF (t + 1) + y <= MAX_LINES THEN p[(t + 1) + y][x] ELSE BLANK
  <2>1. y * COLS + x \in Cells /\ y * COLS \in Nat /\ y \in Nat /\ x \in Nat
    BY <1>1, CellOf
  <2>2. CASE y = ROWS - 1
    <3>1. e[y * COLS + x] = BLANK
      BY <1>2, <1>3, <2>1, <2>2
    <3>2. (t + 1) + y = t + ROWS
      BY <1>1, <2>2
    <3>3. p[t + ROWS][x] = BLANK
      BY DEF BlankLine
    <3>4. QED
      BY <3>1, <3>2, <3>3
  <2>3. CASE y # ROWS - 1
    <3>1. y + 1 \in 0..(ROWS - 1) /\ y < ROWS - 1 /\ ROWS - 1 \in Nat
      BY <1>1, <2>3
    <3>2. y * COLS + x < N
      <4>1. COLS * y + COLS <= COLS * (ROWS - 1)
        BY <1>1, <2>1, <3>1, Multiples
      <4>2. COLS * y = y * COLS /\ COLS * (ROWS - 1) = N
        BY <1>1, <2>1, <3>1
      <4> HIDE DEF N
      <4>3. QED
        BY <1>1, <1>2, <2>1, <4>1, <4>2
    <3>3. y * COLS + x + COLS = (y + 1) * COLS + x
      BY <1>1, <2>1
    <3>4. txt[(y + 1) * COLS + x] = IF t + (y + 1) <= MAX_LINES THEN p[t + (y + 1)][x] ELSE BLANK
      BY <3>1 DEF Shows
    <3>5. t + (y + 1) = (t + 1) + y
      BY <2>1
    <3>6. e[y * COLS + x] = txt[y * COLS + x + COLS]
      <4> HIDE DEF N
      <4> QED BY <1>3, <2>1, <3>2
    <3>7. QED
      BY <3>3, <3>4, <3>5, <3>6
  <2>4. QED
    BY <2>2, <2>3
<1>7. QED
  BY <1>5, <1>6 DEF Shows, e

-----------------------------------------------------------------------------
\* The screen is a window on the paper, and the paper is blank below the line
\* that is typed on: the line that scrolling uncovers is blank.
VgaInv ==
  /\ textmem \in [Cells -> Printable] /\ paper \in Sheets
  /\ csr_x \in 0..(COLS - 1) /\ csr_y \in 0..(ROWS - 1)
  /\ line \in 0..MAX_LINES /\ column = csr_x
  /\ line - csr_y \in Nat /\ (line = csr_y \/ csr_y = ROWS - 1)
  /\ Shows(textmem, paper, line - csr_y)
  /\ \A l \in (line + 1)..MAX_LINES : paper[l] = BlankLine

\* A blank screen shows a blank sheet.
LEMMA BlankShows ==
  ASSUME NEW txt, NEW p, txt = [k \in Cells |-> BLANK], p = [l \in 0..MAX_LINES |-> BlankLine]
  PROVE  /\ txt \in [Cells -> Printable] /\ p \in Sheets /\ Shows(txt, p, 0)
         /\ \A l \in 1..MAX_LINES : p[l] = BlankLine
<1>1. BLANK \in Printable /\ BlankLine \in [0..(COLS - 1) -> Printable] /\ ROWS \in Nat /\ MAX_LINES \in Nat
  BY VgaAssumption DEF BlankLine
<1>2. txt \in [Cells -> Printable] /\ p \in Sheets
  BY <1>1 DEF Sheets
<1>3. ASSUME NEW y \in 0..(ROWS - 1), NEW x \in 0..(COLS - 1)
      PROVE  txt[y * COLS + x] = IF 0 + y <= MAX_LINES THEN p[0 + y][x] ELSE BLANK
  <2>1. y * COLS + x \in Cells
    BY CellOf
  <2>2. txt[y * COLS + x] = BLANK
    BY <2>1
  <2>3. 0 + y <= MAX_LINES => 0 + y \in 0..MAX_LINES
    BY <1>1
  <2>4. 0 + y <= MAX_LINES => p[0 + y][x] = BLANK
    BY <2>3 DEF BlankLine
  <2>5. QED
    BY <2>2, <2>4
<1>4. \A l \in 1..MAX_LINES : p[l] = BlankLine
  BY <1>1
<1>5. QED
  BY <1>2, <1>3, <1>4 DEF Shows

\* The column that vga_putchar moves the cursor to is the one the typewriter
\* moves to: the arithmetic of the tabulator finds the next stop.
LEMMA SameColumn ==
  ASSUME NEW c \in Printable \cup Control, NEW x \in 0..(COLS - 1), NEW stop,
         stop = CHOOSE k \in 1..COLS : /\ k > x /\ k % TAB = 0
                                       /\ \A z \in (x + 1)..(k - 1) : z % TAB # 0
  PROVE  /\ advance(c, x) = (CASE c = "BS" /\ x > 0 -> x - 1
                               [] c = "TAB" -> stop
                               [] c \in Printable -> x + 1
                               [] c \in {"CR", "LF"} -> 0
                               [] OTHER -> x)
         /\ advance(c, x) \in 0..COLS
         /\ c = "LF" => advance(c, x) = 0
         /\ advance(c, x) % COLS = IF advance(c, x) = COLS THEN 0 ELSE advance(c, x)
<1>1. COLS \in Nat \ {0} /\ TAB \in Nat \ {0} /\ x \in Nat /\ x < COLS
  BY VgaAssumption
<1>2. Printable \cap Control = {}
  BY VgaAssumption
<1>3. /\ tab_stop(x) \in 1..COLS /\ tab_stop(x) > x /\ tab_stop(x) % TAB = 0
      /\ \A z \in (x + 1)..(tab_stop(x) - 1) : z % TAB # 0
  BY TabStop
<1>4. stop = tab_stop(x)
  <2> DEFINE t == tab_stop(x)
             P(k) == /\ k > x /\ k % TAB = 0 /\ \A z \in (x + 1)..(k - 1) : z % TAB # 0
  <2>1. stop \in 1..COLS /\ P(stop)
    BY <1>3
  <2>2. t \in 1..COLS /\ P(t)
    BY <1>3
  <2>3. \A z \in (x + 1)..(t - 1) : z % TAB # 0
    BY <2>2
  <2>4. \A z \in (x + 1)..(stop - 1) : z % TAB # 0
    BY <2>1
  <2>5. stop % TAB = 0 /\ t % TAB = 0 /\ stop > x /\ t > x /\ stop \in Nat /\ t \in Nat
    <3>1. stop % TAB = 0 /\ t % TAB = 0 /\ stop > x /\ t > x /\ stop \in 1..COLS /\ t \in 1..COLS
      BY <2>1, <2>2, Zenon
    <3> HIDE DEF t, P
    <3>2. stop \in Nat /\ t \in Nat
      BY <1>1, <3>1
    <3>3. QED
      BY <3>1, <3>2
  <2> HIDE DEF t, P
  <2>6. ~(stop < t)
    <3>1. stop < t => stop \in (x + 1)..(t - 1)
      BY <1>1, <2>5
    <3>2. QED
      BY <2>3, <2>5, <3>1
  <2>7. ~(t < stop)
    <3>1. t < stop => t \in (x + 1)..(stop - 1)
      BY <1>1, <2>5
    <3>2. QED
      BY <2>4, <2>5, <3>1
  <2>8. stop = t
    BY <2>5, <2>6, <2>7
  <2>9. QED
    BY <2>8 DEF t
<1>5. /\ advance(c, x) = (CASE c = "BS" /\ x > 0 -> x - 1
                            [] c = "TAB" -> stop
                            [] c \in Printable -> x + 1
                            [] c \in {"CR", "LF"} -> 0
                            [] OTHER -> x)
      /\ advance(c, x) \in 0..COLS
      /\ c = "LF" => advance(c, x) = 0
  <2>1. CASE c \in Printable
    <3>1. c \notin Control
      BY <1>2, <2>1
    <3>2. QED
      BY <1>1, <2>1, <3>1 DEF advance, Control
  <2>2. CASE c = "BS"
    BY <1>1, <1>2, <2>2 DEF advance, Control
  <2>3. CASE c = "TAB"
    BY <1>1, <1>2, <1>3, <1>4, <2>3 DEF advance, Control
  <2>4. CASE c = "CR" \/ c = "LF"
    BY <1>1, <1>2, <2>4 DEF advance, Control
  <2>5. CASE c = "other"
    BY <1>1, <1>2, <2>5 DEF advance, Control
  <2>6. QED
    BY <2>1, <2>2, <2>3, <2>4, <2>5 DEF Control
<1>6. advance(c, x) % COLS = IF advance(c, x) = COLS THEN 0 ELSE advance(c, x)
  <2>1. \A a \in 0..COLS : a % COLS = IF a = COLS THEN 0 ELSE a
    BY <1>1
  <2>2. QED
    BY <1>5, <2>1
<1>7. QED
  BY <1>5, <1>6

\* A character keeps the screen a window: it is typed on both, and when the
\* cursor leaves the last row the screen scrolls by one line.
LEMMA VgaPutStep ==
  ASSUME VgaInv, NEW c \in Printable \cup Control, put(c)
  PROVE  VgaInv'
<1> DEFINE stop == CHOOSE k \in 1..COLS : /\ k > column /\ k % TAB = 0
                                          /\ \A z \in (column + 1)..(k - 1) : z % TAB # 0
           a == advance(c, csr_x)
           feed == c = "LF" \/ a = COLS
           top == line - csr_y
           txt == IF c \in Printable THEN [textmem EXCEPT ![csr_y * COLS + csr_x] = c] ELSE textmem
           y == csr_y + (IF feed THEN 1 ELSE 0)
<1>1. ROWS \in Nat \ {0} /\ COLS \in Nat \ {0} /\ MAX_LINES \in Nat \ {0} /\ BLANK \in Printable
  BY VgaAssumption
<1>2. /\ textmem \in [Cells -> Printable] /\ paper \in Sheets
      /\ csr_x \in 0..(COLS - 1) /\ csr_y \in 0..(ROWS - 1)
      /\ line \in 0..MAX_LINES /\ column = csr_x
      /\ top \in Nat /\ (line = csr_y \/ csr_y = ROWS - 1)
      /\ Shows(textmem, paper, top)
      /\ \A l \in (line + 1)..MAX_LINES : paper[l] = BlankLine
  BY DEF VgaInv
<1>3. /\ a = (CASE c = "BS" /\ column > 0 -> column - 1
                [] c = "TAB" -> stop
                [] c \in Printable -> column + 1
                [] c \in {"CR", "LF"} -> 0
                [] OTHER -> column)
      /\ a \in 0..COLS /\ (c = "LF" => a = 0)
      /\ a % COLS = IF a = COLS THEN 0 ELSE a
  BY <1>2, SameColumn
<1>4. /\ feed => line < MAX_LINES
      /\ line' = IF feed THEN line + 1 ELSE line
      /\ column' = IF a = COLS THEN 0 ELSE a
      /\ paper' = IF c \in Printable THEN [paper EXCEPT ![line][column] = c] ELSE paper
  <2> HIDE DEF stop, a
  <2> QED BY <1>3 DEF put, type_on_paper, stop
<1>5. /\ csr_x' = IF a = COLS THEN 0 ELSE a
      /\ csr_y' = IF y >= ROWS THEN ROWS - 1 ELSE y
      /\ textmem' = scroll(txt, y)
  <2>1. wraps(a) <=> a = COLS
    <3>1. a \in 0..COLS
      BY <1>3
    <3> HIDE DEF a
    <3>2. QED
      BY <1>1, <3>1 DEF wraps
  <2>2. csr_y + (IF c = "LF" THEN 1 ELSE 0) + (IF wraps(a) THEN 1 ELSE 0) = y
    <3>1. (c = "LF" => a = 0) /\ csr_y \in Nat
      BY <1>1, <1>2, <1>3
    <3> HIDE DEF a
    <3>2. QED
      BY <1>1, <2>1, <3>1
  <2>3. /\ csr_x' = IF wraps(a) THEN 0 ELSE a
        /\ \A yy : yy = csr_y + (IF c = "LF" THEN 1 ELSE 0) + (IF wraps(a) THEN 1 ELSE 0)
             => csr_y' = (IF yy >= ROWS THEN ROWS - 1 ELSE yy) /\ textmem' = scroll(txt, yy)
    BY DEF put, vga_putchar
  <2> HIDE DEF a, y, txt
  <2>4. QED
    BY <2>1, <2>2, <2>3
<1>6. top + csr_y = line /\ csr_y \in Nat /\ line \in Nat /\ line <= MAX_LINES /\ csr_y < ROWS
  BY <1>1, <1>2
<1>7. /\ txt \in [Cells -> Printable] /\ paper' \in Sheets /\ Shows(txt, paper', top)
  <2>1. CASE c \in Printable
    <3>1. paper' = [paper EXCEPT ![top + csr_y][csr_x] = c]
      BY <1>2, <1>4, <1>6, <2>1
    <3>2. txt = [textmem EXCEPT ![csr_y * COLS + csr_x] = c]
      BY <2>1
    <3>3. top + csr_y <= MAX_LINES
      BY <1>6
    <3> HIDE DEF top, txt
    <3>4. QED
      BY <1>2, <2>1, <3>1, <3>2, <3>3, TypeShows
  <2>2. CASE c \notin Printable
    BY <1>2, <1>4, <2>2
  <2>3. QED
    BY <2>1, <2>2
<1>8. \A l \in (line + 1)..MAX_LINES : paper'[l] = BlankLine
  <2>1. ASSUME NEW l \in (line + 1)..MAX_LINES PROVE paper'[l] = paper[l]
    <3>1. l # line /\ l \in 0..MAX_LINES /\ line \in 0..MAX_LINES
      BY <1>6
    <3>2. QED
      BY <1>2, <1>4, <3>1 DEF Sheets
  <2>2. QED
    BY <1>2, <2>1
<1> HIDE DEF stop, a, txt
<1>9. csr_x' \in 0..(COLS - 1) /\ column' = csr_x'
  BY <1>1, <1>3, <1>4, <1>5
<1>10. \A l \in (line' + 1)..MAX_LINES : paper'[l] = BlankLine
  <2>1. line' \in Nat /\ line' >= line
    <3> HIDE DEF feed
    <3> QED BY <1>4, <1>6
  <2>2. (line' + 1)..MAX_LINES \subseteq (line + 1)..MAX_LINES
    <3>1. ASSUME NEW k \in Nat, NEW n \in Nat, n >= k, NEW l \in (n + 1)..MAX_LINES
          PROVE  l \in (k + 1)..MAX_LINES
      BY <1>1, <3>1
    <3>2. QED
      BY <1>6, <2>1, <3>1
  <2>3. QED
    BY <1>8, <2>2
<1>11. CASE y < ROWS
  <2>0. /\ feed => line' = line + 1 /\ line < MAX_LINES /\ y = csr_y + 1
        /\ ~feed => line' = line /\ y = csr_y
    BY <1>4, <1>6
  <2>1. csr_y' = y /\ textmem' = txt
    <3> HIDE DEF y
    <3>1. y \in Nat
      BY <1>6, <2>0
    <3>2. QED
      BY <1>1, <1>5, <1>11, <3>1 DEF scroll
  <2>2. line' - csr_y' = top /\ csr_y' \in 0..(ROWS - 1) /\ line' \in 0..MAX_LINES
        /\ (line' = csr_y' \/ csr_y' = ROWS - 1)
    <3> HIDE DEF feed, y
    <3> QED BY <1>1, <1>2, <1>6, <1>11, <2>0, <2>1
  <2> HIDE DEF top
  <2>3. QED
    BY <1>2, <1>7, <1>9, <1>10, <2>1, <2>2 DEF VgaInv
<1>12. CASE y >= ROWS
  <2>1. feed /\ csr_y = ROWS - 1 /\ y = ROWS
    BY <1>1, <1>6, <1>12
  <2>2. csr_y' = ROWS - 1 /\ textmem' = scroll(txt, ROWS) /\ line' = line + 1 /\ line < MAX_LINES
    BY <1>1, <1>4, <1>5, <2>1
  <2>3. top + ROWS = line + 1 /\ top + ROWS <= MAX_LINES /\ top + ROWS \in (line + 1)..MAX_LINES
    BY <1>1, <1>6, <2>1, <2>2
  <2>4. paper'[top + ROWS] = BlankLine
    BY <1>8, <2>3
  <2>5. line' - csr_y' = top + 1 /\ csr_y' \in 0..(ROWS - 1) /\ line' \in 0..MAX_LINES
    BY <1>1, <1>6, <2>1, <2>2
  <2> HIDE DEF top
  <2>6. scroll(txt, ROWS) \in [Cells -> Printable] /\ Shows(scroll(txt, ROWS), paper', top + 1)
    BY <1>2, <1>7, <2>3, <2>4, ScrollShows
  <2>7. QED
    BY <1>2, <1>7, <1>9, <1>10, <2>2, <2>5, <2>6 DEF VgaInv
<1>13. QED
  BY <1>1, <1>6, <1>11, <1>12

\* vga_putchar and vga_clear keep the screen a window on what was typed.
THEOREM ScreenCorrect == VgaSpec => []ScreenIsWindow
<1>1. VgaInit => VgaInv
  <2> SUFFICES ASSUME VgaInit PROVE VgaInv
    OBVIOUS
  <2>1. 0 \in 0..(COLS - 1) /\ 0 \in 0..(ROWS - 1) /\ 0 \in 0..MAX_LINES /\ 0 - 0 = 0 /\ 0 \in Nat /\ 0 + 1 = 1
    BY VgaAssumption
  <2>2. QED
    BY <2>1, BlankShows DEF VgaInit, VgaInv
<1>2. VgaInv /\ [VgaNext]_vgaVars => VgaInv'
  <2> SUFFICES ASSUME VgaInv, [VgaNext]_vgaVars PROVE VgaInv'
    OBVIOUS
  <2>1. ASSUME NEW c \in Printable \cup Control, put(c) PROVE VgaInv'
    BY <2>1, VgaPutStep
  <2>2. CASE vga_clear
    <3>1. 0 \in 0..(COLS - 1) /\ 0 \in 0..(ROWS - 1) /\ 0 \in 0..MAX_LINES /\ 0 - 0 = 0 /\ 0 \in Nat /\ 0 + 1 = 1
      BY VgaAssumption
    <3>2. QED
      BY <2>2, <3>1, BlankShows DEF vga_clear, VgaInv
  <2>3. CASE UNCHANGED vgaVars
    BY <2>3 DEF vgaVars, VgaInv
  <2>4. QED
    BY <2>1, <2>2, <2>3 DEF VgaNext
<1>3. VgaInv => ScreenIsWindow
  <2> SUFFICES ASSUME VgaInv PROVE ScreenIsWindow
    OBVIOUS
  <2> DEFINE top == line - csr_y
  <2>1. top \in Nat /\ Shows(textmem, paper, top) /\ (line = csr_y \/ csr_y = ROWS - 1)
    BY DEF VgaInv
  <2>2. top >= 0 /\ (top = 0 \/ csr_y = ROWS - 1)
    BY <2>1, VgaAssumption DEF VgaInv
  <2>3. VgaTypeOK /\ csr_x = column
    BY DEF VgaInv, VgaTypeOK, Sheets
  <2>4. \A y \in 0..(ROWS - 1), x \in 0..(COLS - 1) :
          textmem[y * COLS + x] = IF top + y <= MAX_LINES THEN paper[top + y][x] ELSE BLANK
    BY <2>1 DEF Shows
  <2>5. QED
    BY <2>2, <2>3, <2>4 DEF ScreenIsWindow
<1>4. QED
  BY <1>1, <1>2, <1>3, PTL DEF VgaSpec
================================================================================
