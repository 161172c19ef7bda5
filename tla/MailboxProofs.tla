---------------------------- MODULE MailboxProofs ----------------------------
(***************************************************************************)
(* Proofs about mailboxes.                                                 *)
(*                                                                         *)
(* Mailbox, for every size of the ring and every number of posters and     *)
(* fetchers: it implements a bounded queue.                                *)
(*                                                                         *)
(* Uart, for every size of the mailbox: no character is lost on its way    *)
(* from the interrupt to uart_thread, whichever task the interrupts hit,   *)
(* and no task stays blocked in the handler once a box is empty.           *)
(***************************************************************************)
EXTENDS Mailbox, Uart, FiniteSetTheorems, TLAPS

\* The tasks that hold a box which is not in the ring yet or any more, and those that
\* hold a mail which is still in the ring.
Reserving == {p \in Posters : pc[p] \in {"lock", "store", "advance"}}
Emptied == {f \in Fetchers : pc[f] = "post"}
Taking == {f \in Fetchers : pc[f] \in {"lock", "take"}}
Posted == {p \in Posters : pc[p] = "post"}

\* Each lock has one owner, and a poster that is to advance wpos has stored its mail.
Owners ==
  /\ pc \in [MailTasks -> PosterPC \cup FetcherPC]
  /\ \A p \in Posters : pc[p] \in {"store", "advance"} <=> wlock = p
  /\ \A f \in Fetchers : pc[f] = "take" <=> rlock = f
  /\ \A p \in Posters : pc[p] = "advance" => buffer[wpos] = mail[p]

\* The inductive invariant.
MailInv == MailboxTypeOK /\ SlotsAccounted /\ Owners

-----------------------------------------------------------------------------
\* The slot i places after r.
Place(r, i) == (r + i) % MAILBOX_SIZE

\* A place of the ring is a slot.
LEMMA Places ==
  ASSUME NEW r \in Slots, NEW i \in 0..MAILBOX_SIZE
  PROVE  /\ Place(r, i) = IF r + i < MAILBOX_SIZE THEN r + i ELSE r + i - MAILBOX_SIZE
         /\ Place(r, i) \in Slots
<1> DEFINE M == MAILBOX_SIZE
<1>1. M \in Nat \ {0} /\ r \in 0..(M - 1) /\ i \in 0..M
  BY MailboxAssumption DEF Slots
<1>2. CASE r + i < M
  BY <1>1, <1>2, SMT DEF Place, Slots
<1>3. CASE ~(r + i < M)
  BY <1>1, <1>3, SMT DEF Place, Slots
<1>4. QED
  BY <1>2, <1>3

\* The place after a slot is a slot.
LEMMA NextPlace ==
  ASSUME NEW r \in Slots
  PROVE  /\ NextSlot(r) = IF r + 1 = MAILBOX_SIZE THEN 0 ELSE r + 1
         /\ NextSlot(r) \in Slots
<1>1. MAILBOX_SIZE \in Nat \ {0} /\ r \in 0..(MAILBOX_SIZE - 1)
  BY MailboxAssumption DEF Slots
<1>2. CASE r + 1 = MAILBOX_SIZE
  BY <1>1, <1>2, SMT DEF NextSlot, Slots
<1>3. CASE r + 1 < MAILBOX_SIZE
  BY <1>1, <1>3, SMT DEF NextSlot, Slots
<1>4. QED
  BY <1>1, <1>2, <1>3

\* Advancing either end of the ring.
LEMMA PlacesAdvance ==
  ASSUME NEW r \in Slots, NEW i \in 0..(MAILBOX_SIZE - 1), NEW k \in 1..MAILBOX_SIZE, k = i + 1
  PROVE  /\ Place(r, k) = NextSlot(Place(r, i))
         /\ Place(NextSlot(r), i) = Place(r, k)
<1> DEFINE w == Place(r, i)
           n == NextSlot(r)
<1>1. /\ MAILBOX_SIZE \in Nat \ {0} /\ r \in 0..(MAILBOX_SIZE - 1) /\ Slots = 0..(MAILBOX_SIZE - 1)
      /\ i \in 0..MAILBOX_SIZE /\ k \in 0..MAILBOX_SIZE
  BY MailboxAssumption DEF Slots
<1>2. w \in Slots /\ w = IF r + i < MAILBOX_SIZE THEN r + i ELSE r + i - MAILBOX_SIZE
  BY <1>1, Places
<1>3. n \in Slots /\ n = IF r + 1 = MAILBOX_SIZE THEN 0 ELSE r + 1
  BY NextPlace
<1>4. Place(r, k) = IF r + k < MAILBOX_SIZE THEN r + k ELSE r + k - MAILBOX_SIZE
  BY <1>1, Places
<1> HIDE DEF w, n
<1>5. NextSlot(w) = IF w + 1 = MAILBOX_SIZE THEN 0 ELSE w + 1
  BY <1>2, NextPlace
<1>6. Place(n, i) = IF n + i < MAILBOX_SIZE THEN n + i ELSE n + i - MAILBOX_SIZE
  BY <1>1, <1>3, Places
<1>7. QED
  BY <1>1, <1>2, <1>3, <1>4, <1>5, <1>6 DEF w, n

\* Different places within one round are different slots.
LEMMA PlacesDiffer ==
  ASSUME NEW r \in Slots, NEW i \in 0..(MAILBOX_SIZE - 1), NEW j \in 0..(MAILBOX_SIZE - 1), i # j
  PROVE  Place(r, i) # Place(r, j)
<1>1. /\ MAILBOX_SIZE \in Nat \ {0} /\ r \in 0..(MAILBOX_SIZE - 1)
      /\ i \in 0..MAILBOX_SIZE /\ j \in 0..MAILBOX_SIZE
  BY MailboxAssumption DEF Slots
<1>2. /\ Place(r, i) = IF r + i < MAILBOX_SIZE THEN r + i ELSE r + i - MAILBOX_SIZE
      /\ Place(r, j) = IF r + j < MAILBOX_SIZE THEN r + j ELSE r + j - MAILBOX_SIZE
  BY <1>1, Places
<1>3. QED
  BY <1>1, <1>2

-----------------------------------------------------------------------------
\* The numbers behind SlotsAccounted.
LEMMA Numbers ==
  ASSUME MailInv
  PROVE  /\ Cardinality(Reserving) \in Nat /\ Cardinality(Emptied) \in Nat
         /\ Cardinality(Taking) \in Nat /\ Cardinality(Posted) \in Nat
         /\ IsFiniteSet(Reserving) /\ IsFiniteSet(Emptied) /\ IsFiniteSet(Taking) /\ IsFiniteSet(Posted)
         /\ Filled = MAILBOX_SIZE - boxes - Cardinality(Reserving) - Cardinality(Emptied)
         /\ Filled = mails + Cardinality(Taking) + Cardinality(Posted)
         /\ Filled \in 0..MAILBOX_SIZE /\ MAILBOX_SIZE \in Nat \ {0}
         /\ Place(rpos, Filled) = wpos
<1>1. IsFiniteSet(Reserving) /\ IsFiniteSet(Emptied) /\ IsFiniteSet(Taking) /\ IsFiniteSet(Posted)
  BY MailboxAssumption, FS_Subset DEF Reserving, Emptied, Taking, Posted
<1>2. /\ Cardinality(Reserving) \in Nat /\ Cardinality(Emptied) \in Nat
      /\ Cardinality(Taking) \in Nat /\ Cardinality(Posted) \in Nat
  BY <1>1, FS_CardinalityType
<1>3. Filled = MAILBOX_SIZE - boxes - Cardinality(Reserving) - Cardinality(Emptied)
  BY DEF Filled, Reserving, Emptied
<1>4. Filled = mails + Cardinality(Taking) + Cardinality(Posted)
  BY DEF MailInv, SlotsAccounted, Taking, Posted
<1>5. Place(rpos, Filled) = wpos
  BY DEF MailInv, SlotsAccounted, Place
<1>6. mails \in Nat /\ boxes \in Nat /\ MAILBOX_SIZE \in Nat \ {0}
  BY MailboxAssumption DEF MailInv, MailboxTypeOK
<1>7. Filled \in 0..MAILBOX_SIZE
  BY <1>2, <1>3, <1>4, <1>6
<1>8. QED
  BY <1>1, <1>2, <1>3, <1>4, <1>5, <1>6, <1>7

\* 1 if b holds.
Bit(b) == IF b THEN 1 ELSE 0

\* Numbers of tasks are natural numbers.
LEMMA Counted ==
  ASSUME NEW S, NEW x, IsFiniteSet(S)
  PROVE  /\ Cardinality(S) \in Nat
         /\ x \in S => Cardinality(S) > 0
         /\ Cardinality(S \cup {x}) = Cardinality(S) + IF x \in S THEN 0 ELSE 1
         /\ Cardinality(S \ {x}) = Cardinality(S) - IF x \in S THEN 1 ELSE 0
<1>1. Cardinality(S) \in Nat
  BY FS_CardinalityType
<1>2. x \in S => Cardinality(S) > 0
  BY <1>1, FS_EmptySet
<1>3. Cardinality(S \cup {x}) = Cardinality(S) + IF x \in S THEN 0 ELSE 1
  BY <1>1, FS_AddElement
<1>4. Cardinality(S \ {x}) = Cardinality(S) - IF x \in S THEN 1 ELSE 0
  BY <1>1, FS_RemoveElement
<1>5. QED
  BY <1>1, <1>2, <1>3, <1>4

\* A step of one poster changes what it reserves and has posted, and nothing else.
LEMMA PosterMoves ==
  ASSUME MailInv, NEW p \in Posters, NEW w \in PosterPC, Goto(p, w)
  PROVE  /\ pc'[p] = w /\ \A t \in MailTasks \ {p} : pc'[t] = pc[t]
         /\ pc' \in [MailTasks -> PosterPC \cup FetcherPC]
         /\ \A q \in Posters : pc'[q] \in PosterPC
         /\ \A f \in Fetchers : pc'[f] \in FetcherPC /\ pc'[f] = pc[f] /\ f # p
         /\ Cardinality(Emptied') = Cardinality(Emptied) /\ Cardinality(Taking') = Cardinality(Taking)
         /\ Cardinality(Reserving) >= Bit(pc[p] \in {"lock", "store", "advance"})
         /\ Cardinality(Reserving') = Cardinality(Reserving) - Bit(pc[p] \in {"lock", "store", "advance"}) + Bit(w \in {"lock", "store", "advance"})
         /\ Cardinality(Posted) >= Bit(pc[p] = "post")
         /\ Cardinality(Posted') = Cardinality(Posted) - Bit(pc[p] = "post") + Bit(w = "post")
<1>1. /\ pc \in [MailTasks -> PosterPC \cup FetcherPC] /\ p \in MailTasks
      /\ \A f \in Fetchers : f \in MailTasks /\ f # p
      /\ \A q \in Posters : q \in MailTasks
      /\ \A q \in Posters : pc[q] \in PosterPC
      /\ \A f \in Fetchers : pc[f] \in FetcherPC
  BY MailboxAssumption DEF MailInv, Owners, MailboxTypeOK, MailTasks
<1>2. /\ pc'[p] = w /\ \A t \in MailTasks \ {p} : pc'[t] = pc[t]
      /\ pc' \in [MailTasks -> PosterPC \cup FetcherPC]
  BY <1>1 DEF Goto
<1>3. /\ \A q \in Posters : pc'[q] \in PosterPC
      /\ \A f \in Fetchers : pc'[f] \in FetcherPC /\ pc'[f] = pc[f] /\ f # p
  BY <1>1, <1>2
<1>4. Emptied' = Emptied /\ Taking' = Taking
  BY <1>3 DEF Emptied, Taking
<1>5. Reserving' = IF w \in {"lock", "store", "advance"} THEN Reserving \cup {p} ELSE Reserving \ {p}
  BY <1>1, <1>2 DEF Reserving
<1>6. Posted' = IF w = "post" THEN Posted \cup {p} ELSE Posted \ {p}
  BY <1>1, <1>2 DEF Posted
<1>7. IsFiniteSet(Reserving) /\ IsFiniteSet(Posted)
  BY Numbers
<1>8. /\ Cardinality(Reserving) >= Bit(pc[p] \in {"lock", "store", "advance"})
      /\ Cardinality(Reserving') = Cardinality(Reserving) - Bit(pc[p] \in {"lock", "store", "advance"}) + Bit(w \in {"lock", "store", "advance"})
  <2>1. p \in Reserving <=> pc[p] \in {"lock", "store", "advance"}
    BY DEF Reserving
  <2>2. /\ Cardinality(Reserving) \in Nat /\ (p \in Reserving => Cardinality(Reserving) > 0)
        /\ Cardinality(Reserving \cup {p}) = Cardinality(Reserving) + IF p \in Reserving THEN 0 ELSE 1
        /\ Cardinality(Reserving \ {p}) = Cardinality(Reserving) - IF p \in Reserving THEN 1 ELSE 0
    BY <1>7, Counted
  <2>3. CASE w \in {"lock", "store", "advance"}
    BY <1>5, <2>1, <2>2, <2>3 DEF Bit
  <2>4. CASE ~(w \in {"lock", "store", "advance"})
    BY <1>5, <2>1, <2>2, <2>4 DEF Bit
  <2>5. QED
    BY <2>3, <2>4
<1>9. /\ Cardinality(Posted) >= Bit(pc[p] = "post")
      /\ Cardinality(Posted') = Cardinality(Posted) - Bit(pc[p] = "post") + Bit(w = "post")
  <2>1. p \in Posted <=> pc[p] = "post"
    BY DEF Posted
  <2>2. /\ Cardinality(Posted) \in Nat /\ (p \in Posted => Cardinality(Posted) > 0)
        /\ Cardinality(Posted \cup {p}) = Cardinality(Posted) + IF p \in Posted THEN 0 ELSE 1
        /\ Cardinality(Posted \ {p}) = Cardinality(Posted) - IF p \in Posted THEN 1 ELSE 0
    BY <1>7, Counted
  <2>3. CASE w = "post"
    BY <1>6, <2>1, <2>2, <2>3 DEF Bit
  <2>4. CASE ~(w = "post")
    BY <1>6, <2>1, <2>2, <2>4 DEF Bit
  <2>5. QED
    BY <2>3, <2>4
<1>10. QED
  BY <1>2, <1>3, <1>4, <1>8, <1>9

\* The same of a fetcher.
LEMMA FetcherMoves ==
  ASSUME MailInv, NEW f \in Fetchers, NEW w \in FetcherPC, Goto(f, w)
  PROVE  /\ pc'[f] = w /\ \A t \in MailTasks \ {f} : pc'[t] = pc[t]
         /\ pc' \in [MailTasks -> PosterPC \cup FetcherPC]
         /\ \A g \in Fetchers : pc'[g] \in FetcherPC
         /\ \A p \in Posters : pc'[p] \in PosterPC /\ pc'[p] = pc[p] /\ p # f
         /\ Cardinality(Reserving') = Cardinality(Reserving) /\ Cardinality(Posted') = Cardinality(Posted)
         /\ Cardinality(Taking) >= Bit(pc[f] \in {"lock", "take"})
         /\ Cardinality(Taking') = Cardinality(Taking) - Bit(pc[f] \in {"lock", "take"}) + Bit(w \in {"lock", "take"})
         /\ Cardinality(Emptied) >= Bit(pc[f] = "post")
         /\ Cardinality(Emptied') = Cardinality(Emptied) - Bit(pc[f] = "post") + Bit(w = "post")
<1>1. /\ pc \in [MailTasks -> PosterPC \cup FetcherPC] /\ f \in MailTasks
      /\ \A p \in Posters : p \in MailTasks /\ p # f
      /\ \A g \in Fetchers : g \in MailTasks
      /\ \A q \in Posters : pc[q] \in PosterPC
      /\ \A g \in Fetchers : pc[g] \in FetcherPC
  BY MailboxAssumption DEF MailInv, Owners, MailboxTypeOK, MailTasks
<1>2. /\ pc'[f] = w /\ \A t \in MailTasks \ {f} : pc'[t] = pc[t]
      /\ pc' \in [MailTasks -> PosterPC \cup FetcherPC]
  BY <1>1 DEF Goto
<1>3. /\ \A g \in Fetchers : pc'[g] \in FetcherPC
      /\ \A p \in Posters : pc'[p] \in PosterPC /\ pc'[p] = pc[p] /\ p # f
  BY <1>1, <1>2
<1>4. Reserving' = Reserving /\ Posted' = Posted
  BY <1>3 DEF Reserving, Posted
<1>5. Taking' = IF w \in {"lock", "take"} THEN Taking \cup {f} ELSE Taking \ {f}
  BY <1>1, <1>2 DEF Taking
<1>6. Emptied' = IF w = "post" THEN Emptied \cup {f} ELSE Emptied \ {f}
  BY <1>1, <1>2 DEF Emptied
<1>7. IsFiniteSet(Taking) /\ IsFiniteSet(Emptied)
  BY Numbers
<1>8. /\ Cardinality(Taking) >= Bit(pc[f] \in {"lock", "take"})
      /\ Cardinality(Taking') = Cardinality(Taking) - Bit(pc[f] \in {"lock", "take"}) + Bit(w \in {"lock", "take"})
  <2>1. f \in Taking <=> pc[f] \in {"lock", "take"}
    BY DEF Taking
  <2>2. /\ Cardinality(Taking) \in Nat /\ (f \in Taking => Cardinality(Taking) > 0)
        /\ Cardinality(Taking \cup {f}) = Cardinality(Taking) + IF f \in Taking THEN 0 ELSE 1
        /\ Cardinality(Taking \ {f}) = Cardinality(Taking) - IF f \in Taking THEN 1 ELSE 0
    BY <1>7, Counted
  <2>3. CASE w \in {"lock", "take"}
    BY <1>5, <2>1, <2>2, <2>3 DEF Bit
  <2>4. CASE ~(w \in {"lock", "take"})
    BY <1>5, <2>1, <2>2, <2>4 DEF Bit
  <2>5. QED
    BY <2>3, <2>4
<1>9. /\ Cardinality(Emptied) >= Bit(pc[f] = "post")
      /\ Cardinality(Emptied') = Cardinality(Emptied) - Bit(pc[f] = "post") + Bit(w = "post")
  <2>1. f \in Emptied <=> pc[f] = "post"
    BY DEF Emptied
  <2>2. /\ Cardinality(Emptied) \in Nat /\ (f \in Emptied => Cardinality(Emptied) > 0)
        /\ Cardinality(Emptied \cup {f}) = Cardinality(Emptied) + IF f \in Emptied THEN 0 ELSE 1
        /\ Cardinality(Emptied \ {f}) = Cardinality(Emptied) - IF f \in Emptied THEN 1 ELSE 0
    BY <1>7, Counted
  <2>3. CASE w = "post"
    BY <1>6, <2>1, <2>2, <2>3 DEF Bit
  <2>4. CASE ~(w = "post")
    BY <1>6, <2>1, <2>2, <2>4 DEF Bit
  <2>5. QED
    BY <2>3, <2>4
<1>10. QED
  BY <1>2, <1>3, <1>4, <1>8, <1>9

\* A step that keeps the sum of all boxes, and the distance between the ends of the ring
\* equal to the mails in it, keeps the books.
LEMMA Accounts ==
  ASSUME mails' \in Nat, boxes' \in Nat,
         NEW r \in Nat, r = Cardinality(Reserving'), NEW e \in Nat, e = Cardinality(Emptied'),
         NEW t \in Nat, t = Cardinality(Taking'), NEW d \in Nat, d = Cardinality(Posted'),
         NEW n \in Nat, n = mails' + t + d,
         boxes' + r + e + n = MAILBOX_SIZE,
         Place(rpos', n) = wpos'
  PROVE  Filled' = n /\ SlotsAccounted' /\ mails' \in 0..MAILBOX_SIZE /\ boxes' \in 0..MAILBOX_SIZE
<1>1. Filled' = MAILBOX_SIZE - boxes' - r - e
  BY DEF Filled, Reserving, Emptied
<1>2. Filled' = n /\ mails' \in 0..MAILBOX_SIZE /\ boxes' \in 0..MAILBOX_SIZE
  BY <1>1, MailboxAssumption
<1>3. SlotsAccounted' <=> mails' + t + d = Filled' /\ Place(rpos', Filled') = wpos'
  BY DEF SlotsAccounted, Taking, Posted, Place
<1>4. QED
  BY <1>2, <1>3

\* The types, for the leaves below.
LEMMA MailTyped ==
  ASSUME MailInv
  PROVE  /\ buffer \in [Slots -> Mails] /\ wpos \in Slots /\ rpos \in Slots
         /\ mails \in Nat /\ boxes \in Nat
         /\ mail \in [MailTasks -> Mails] /\ pc \in [MailTasks -> PosterPC \cup FetcherPC]
         /\ mailwaiters \in Seq(Fetchers) /\ boxwaiters \in Seq(Posters)
         /\ rlock \in Fetchers \cup {NoTask} /\ wlock \in Posters \cup {NoTask}
         /\ \A p \in Posters : p \in MailTasks /\ p # NoTask /\ p \notin Fetchers
         /\ \A f \in Fetchers : f \in MailTasks /\ f # NoTask /\ f \notin Posters
BY MailboxAssumption DEF MailInv, MailboxTypeOK, Owners, MailTasks

\* The waiters stay a sequence of tasks when the first one is woken.
LEMMA WokenTyped ==
  ASSUME NEW S, NEW waiters \in Seq(S), NEW value
  PROVE  Woken(value, waiters) \in Seq(S)
BY DEF Woken

\* A poster that takes a box when it starts to reserve one, and adds a mail when it is done,
\* keeps the books; all its actions but post_advance are such steps.
LEMMA PosterBooks ==
  ASSUME MailInv, NEW p \in Posters, NEW w \in PosterPC, Goto(p, w),
         boxes' = boxes + Bit(pc[p] \in {"lock", "store", "advance"}) - Bit(w \in {"lock", "store", "advance"}),
         mails' = mails + Bit(pc[p] = "post") - Bit(w = "post"),
         boxes' \in Nat, mails' \in Nat, rpos' = rpos, wpos' = wpos
  PROVE  Filled' = Filled /\ SlotsAccounted' /\ mails' \in 0..MAILBOX_SIZE /\ boxes' \in 0..MAILBOX_SIZE
<1> DEFINE r == Cardinality(Reserving')
           e == Cardinality(Emptied')
           t == Cardinality(Taking')
           d == Cardinality(Posted')
           n == mails' + t + d
<1>1. /\ r \in Nat /\ e \in Nat /\ t \in Nat /\ d \in Nat
      /\ n = Filled /\ n \in Nat /\ boxes' + r + e + n = MAILBOX_SIZE
  <2>1. /\ Cardinality(Reserving) \in Nat /\ Cardinality(Emptied) \in Nat
        /\ Cardinality(Taking) \in Nat /\ Cardinality(Posted) \in Nat /\ MAILBOX_SIZE \in Nat
        /\ Filled = MAILBOX_SIZE - boxes - Cardinality(Reserving) - Cardinality(Emptied)
        /\ Filled = mails + Cardinality(Taking) + Cardinality(Posted)
        /\ mails \in Nat /\ boxes \in Nat
    BY Numbers, MailTyped
  <2>2. /\ boxes' + r = boxes + Cardinality(Reserving) /\ mails' + d = mails + Cardinality(Posted)
        /\ e = Cardinality(Emptied) /\ t = Cardinality(Taking) /\ r \in Nat /\ d \in Nat
    <3> DEFINE x == Bit(pc[p] \in {"lock", "store", "advance"})
               y == Bit(w \in {"lock", "store", "advance"})
               i == Bit(pc[p] = "post")
               j == Bit(w = "post")
    <3>1. x \in 0..1 /\ y \in 0..1 /\ i \in 0..1 /\ j \in 0..1
      BY DEF Bit
    <3>2. boxes' = boxes + x - y /\ mails' = mails + i - j
      OBVIOUS
    <3>3. /\ Cardinality(Reserving) >= x /\ Cardinality(Reserving') = Cardinality(Reserving) - x + y
          /\ Cardinality(Posted) >= i /\ Cardinality(Posted') = Cardinality(Posted) - i + j
          /\ Cardinality(Emptied') = Cardinality(Emptied) /\ Cardinality(Taking') = Cardinality(Taking)
      BY PosterMoves
    <3> HIDE DEF x, y, i, j
    <3>4. QED
      BY <2>1, <3>1, <3>2, <3>3
  <2>3. QED
    BY <2>1, <2>2
<1>2. Place(rpos', n) = wpos'
  BY <1>1, Numbers
<1>3. QED
  BY <1>1, <1>2, Accounts

\* The same of a fetcher; all its actions but fetch_take are such steps.
LEMMA FetcherBooks ==
  ASSUME MailInv, NEW f \in Fetchers, NEW w \in FetcherPC, Goto(f, w),
         mails' = mails + Bit(pc[f] \in {"lock", "take"}) - Bit(w \in {"lock", "take"}),
         boxes' = boxes + Bit(pc[f] = "post") - Bit(w = "post"),
         boxes' \in Nat, mails' \in Nat, rpos' = rpos, wpos' = wpos
  PROVE  Filled' = Filled /\ SlotsAccounted' /\ mails' \in 0..MAILBOX_SIZE /\ boxes' \in 0..MAILBOX_SIZE
<1> DEFINE r == Cardinality(Reserving')
           e == Cardinality(Emptied')
           t == Cardinality(Taking')
           d == Cardinality(Posted')
           n == mails' + t + d
<1>1. /\ r \in Nat /\ e \in Nat /\ t \in Nat /\ d \in Nat
      /\ n = Filled /\ n \in Nat /\ boxes' + r + e + n = MAILBOX_SIZE
  <2>1. /\ Cardinality(Reserving) \in Nat /\ Cardinality(Emptied) \in Nat
        /\ Cardinality(Taking) \in Nat /\ Cardinality(Posted) \in Nat /\ MAILBOX_SIZE \in Nat
        /\ Filled = MAILBOX_SIZE - boxes - Cardinality(Reserving) - Cardinality(Emptied)
        /\ Filled = mails + Cardinality(Taking) + Cardinality(Posted)
        /\ mails \in Nat /\ boxes \in Nat
    BY Numbers, MailTyped
  <2>2. /\ mails' + t = mails + Cardinality(Taking) /\ boxes' + e = boxes + Cardinality(Emptied)
        /\ r = Cardinality(Reserving) /\ d = Cardinality(Posted) /\ t \in Nat /\ e \in Nat
    <3> DEFINE x == Bit(pc[f] \in {"lock", "take"})
               y == Bit(w \in {"lock", "take"})
               i == Bit(pc[f] = "post")
               j == Bit(w = "post")
    <3>1. x \in 0..1 /\ y \in 0..1 /\ i \in 0..1 /\ j \in 0..1
      BY DEF Bit
    <3>2. mails' = mails + x - y /\ boxes' = boxes + i - j
      OBVIOUS
    <3>3. /\ Cardinality(Taking) >= x /\ Cardinality(Taking') = Cardinality(Taking) - x + y
          /\ Cardinality(Emptied) >= i /\ Cardinality(Emptied') = Cardinality(Emptied) - i + j
          /\ Cardinality(Reserving') = Cardinality(Reserving) /\ Cardinality(Posted') = Cardinality(Posted)
      BY FetcherMoves
    <3> HIDE DEF x, y, i, j
    <3>4. QED
      BY <2>1, <3>1, <3>2, <3>3
  <2>3. QED
    BY <2>1, <2>2
<1>2. Place(rpos', n) = wpos'
  BY <1>1, Numbers
<1>3. QED
  BY <1>1, <1>2, Accounts

-----------------------------------------------------------------------------
(***************************************************************************)
(* Each action keeps the invariant, and says how the number of mails in    *)
(* the ring changes.                                                       *)
(***************************************************************************)

\* A poster starts its call.
LEMMA PostInv ==
  ASSUME MailInv, NEW p \in Posters, NEW m \in Mails, post(p, m)
  PROVE  MailInv' /\ Filled' = Filled
<1>1. /\ "wait" \in PosterPC /\ Goto(p, "wait") /\ pc[p] = "idle"
      /\ boxes' = boxes /\ mails' = mails
      /\ rpos' = rpos /\ wpos' = wpos
  BY DEF post, PosterPC, semVars, ringVars
<1>2. Filled' = Filled /\ SlotsAccounted' /\ mails' \in 0..MAILBOX_SIZE /\ boxes' \in 0..MAILBOX_SIZE
  <2>1. /\ boxes' = boxes + Bit(pc[p] \in {"lock", "store", "advance"}) - Bit("wait" \in {"lock", "store", "advance"})
        /\ mails' = mails + Bit(pc[p] = "post") - Bit("wait" = "post")
        /\ boxes' \in Nat /\ mails' \in Nat
    BY <1>1, MailTyped DEF Bit
  <2>2. QED
    BY <1>1, <2>1, PosterBooks
<1>3. MailboxTypeOK'
  <2>1. mailwaiters' \in Seq(Fetchers) /\ boxwaiters' \in Seq(Posters)
    BY MailTyped, WokenTyped DEF post, semVars
  <2>2. rlock' \in Fetchers \cup {NoTask} /\ wlock' \in Posters \cup {NoTask}
    BY MailTyped DEF post
  <2>3. buffer' \in [Slots -> Mails] /\ mail' \in [MailTasks -> Mails]
    BY MailTyped, MailboxAssumption DEF post, ringVars
  <2>4. QED
    BY <1>1, <1>2, MailTyped, <2>1, <2>2, <2>3, PosterMoves DEF MailboxTypeOK
<1>4. Owners'
  <2>1. \A q \in Posters : pc'[q] \in {"store", "advance"} <=> wlock' = q
    BY <1>1, PosterMoves, MailTyped DEF post, MailInv, Owners
  <2>2. \A g \in Fetchers : pc'[g] = "take" <=> rlock' = g
    BY <1>1, PosterMoves, MailTyped DEF post, MailInv, Owners
  <2>3. \A q \in Posters : pc'[q] = "advance" => buffer'[wpos'] = mail'[q]
    BY <1>1, PosterMoves, MailTyped DEF post, ringVars, MailInv, Owners
  <2>4. QED
    BY <1>1, <2>1, <2>2, <2>3, PosterMoves DEF Owners
<1>5. QED
  BY <1>2, <1>3, <1>4 DEF MailInv

\* A poster takes a box.
LEMMA PostWaitDoneInv ==
  ASSUME MailInv, NEW p \in Posters, post_wait(p), boxes > 0
  PROVE  MailInv' /\ Filled' = Filled
<1>1. /\ "lock" \in PosterPC /\ Goto(p, "lock") /\ pc[p] = "wait"
      /\ boxes' = boxes - 1 /\ mails' = mails
      /\ rpos' = rpos /\ wpos' = wpos
  BY DEF post_wait, PosterPC, semVars, ringVars
<1>2. Filled' = Filled /\ SlotsAccounted' /\ mails' \in 0..MAILBOX_SIZE /\ boxes' \in 0..MAILBOX_SIZE
  <2>1. /\ boxes' = boxes + Bit(pc[p] \in {"lock", "store", "advance"}) - Bit("lock" \in {"lock", "store", "advance"})
        /\ mails' = mails + Bit(pc[p] = "post") - Bit("lock" = "post")
        /\ boxes' \in Nat /\ mails' \in Nat
    BY <1>1, MailTyped DEF Bit
  <2>2. QED
    BY <1>1, <2>1, PosterBooks
<1>3. MailboxTypeOK'
  <2>1. mailwaiters' \in Seq(Fetchers) /\ boxwaiters' \in Seq(Posters)
    BY MailTyped, WokenTyped DEF post_wait, semVars
  <2>2. rlock' \in Fetchers \cup {NoTask} /\ wlock' \in Posters \cup {NoTask}
    BY MailTyped DEF post_wait
  <2>3. buffer' \in [Slots -> Mails] /\ mail' \in [MailTasks -> Mails]
    BY MailTyped, MailboxAssumption DEF post_wait, ringVars
  <2>4. QED
    BY <1>1, <1>2, MailTyped, <2>1, <2>2, <2>3, PosterMoves DEF MailboxTypeOK
<1>4. Owners'
  <2>1. \A q \in Posters : pc'[q] \in {"store", "advance"} <=> wlock' = q
    BY <1>1, PosterMoves, MailTyped DEF post_wait, MailInv, Owners
  <2>2. \A g \in Fetchers : pc'[g] = "take" <=> rlock' = g
    BY <1>1, PosterMoves, MailTyped DEF post_wait, MailInv, Owners
  <2>3. \A q \in Posters : pc'[q] = "advance" => buffer'[wpos'] = mail'[q]
    BY <1>1, PosterMoves, MailTyped DEF post_wait, ringVars, MailInv, Owners
  <2>4. QED
    BY <1>1, <2>1, <2>2, <2>3, PosterMoves DEF Owners
<1>5. QED
  BY <1>2, <1>3, <1>4 DEF MailInv

\* trypost takes a box if there is one.
LEMMA TrypostInv ==
  ASSUME MailInv, NEW p \in Posters, NEW m \in Mails, trypost(p, m)
  PROVE  MailInv' /\ Filled' = Filled
<1>1. /\ "lock" \in PosterPC /\ Goto(p, "lock") /\ pc[p] = "idle"
      /\ boxes > 0 /\ boxes' = boxes - 1 /\ mails' = mails
      /\ rpos' = rpos /\ wpos' = wpos
  BY DEF trypost, PosterPC, semVars, ringVars
<1>2. Filled' = Filled /\ SlotsAccounted' /\ mails' \in 0..MAILBOX_SIZE /\ boxes' \in 0..MAILBOX_SIZE
  <2>1. /\ boxes' = boxes + Bit(pc[p] \in {"lock", "store", "advance"}) - Bit("lock" \in {"lock", "store", "advance"})
        /\ mails' = mails + Bit(pc[p] = "post") - Bit("lock" = "post")
        /\ boxes' \in Nat /\ mails' \in Nat
    BY <1>1, MailTyped DEF Bit
  <2>2. QED
    BY <1>1, <2>1, PosterBooks
<1>3. MailboxTypeOK'
  <2>1. mailwaiters' \in Seq(Fetchers) /\ boxwaiters' \in Seq(Posters)
    BY MailTyped, WokenTyped DEF trypost, semVars
  <2>2. rlock' \in Fetchers \cup {NoTask} /\ wlock' \in Posters \cup {NoTask}
    BY MailTyped DEF trypost
  <2>3. buffer' \in [Slots -> Mails] /\ mail' \in [MailTasks -> Mails]
    BY MailTyped, MailboxAssumption DEF trypost, ringVars
  <2>4. QED
    BY <1>1, <1>2, MailTyped, <2>1, <2>2, <2>3, PosterMoves DEF MailboxTypeOK
<1>4. Owners'
  <2>1. \A q \in Posters : pc'[q] \in {"store", "advance"} <=> wlock' = q
    BY <1>1, PosterMoves, MailTyped DEF trypost, MailInv, Owners
  <2>2. \A g \in Fetchers : pc'[g] = "take" <=> rlock' = g
    BY <1>1, PosterMoves, MailTyped DEF trypost, MailInv, Owners
  <2>3. \A q \in Posters : pc'[q] = "advance" => buffer'[wpos'] = mail'[q]
    BY <1>1, PosterMoves, MailTyped DEF trypost, ringVars, MailInv, Owners
  <2>4. QED
    BY <1>1, <2>1, <2>2, <2>3, PosterMoves DEF Owners
<1>5. QED
  BY <1>2, <1>3, <1>4 DEF MailInv

\* A poster gets wlock.
LEMMA PostLockInv ==
  ASSUME MailInv, NEW p \in Posters, post_lock(p)
  PROVE  MailInv' /\ Filled' = Filled
<1>1. /\ "store" \in PosterPC /\ Goto(p, "store") /\ pc[p] = "lock"
      /\ boxes' = boxes /\ mails' = mails
      /\ rpos' = rpos /\ wpos' = wpos
  BY DEF post_lock, PosterPC, semVars, ringVars
<1>2. Filled' = Filled /\ SlotsAccounted' /\ mails' \in 0..MAILBOX_SIZE /\ boxes' \in 0..MAILBOX_SIZE
  <2>1. /\ boxes' = boxes + Bit(pc[p] \in {"lock", "store", "advance"}) - Bit("store" \in {"lock", "store", "advance"})
        /\ mails' = mails + Bit(pc[p] = "post") - Bit("store" = "post")
        /\ boxes' \in Nat /\ mails' \in Nat
    BY <1>1, MailTyped DEF Bit
  <2>2. QED
    BY <1>1, <2>1, PosterBooks
<1>3. MailboxTypeOK'
  <2>1. mailwaiters' \in Seq(Fetchers) /\ boxwaiters' \in Seq(Posters)
    BY MailTyped, WokenTyped DEF post_lock, semVars
  <2>2. rlock' \in Fetchers \cup {NoTask} /\ wlock' \in Posters \cup {NoTask}
    BY MailTyped DEF post_lock
  <2>3. buffer' \in [Slots -> Mails] /\ mail' \in [MailTasks -> Mails]
    BY MailTyped, MailboxAssumption DEF post_lock, ringVars
  <2>4. QED
    BY <1>1, <1>2, MailTyped, <2>1, <2>2, <2>3, PosterMoves DEF MailboxTypeOK
<1>4. Owners'
  <2>1. \A q \in Posters : pc'[q] \in {"store", "advance"} <=> wlock' = q
    BY <1>1, PosterMoves, MailTyped DEF post_lock, MailInv, Owners, WLockFree
  <2>2. \A g \in Fetchers : pc'[g] = "take" <=> rlock' = g
    BY <1>1, PosterMoves, MailTyped DEF post_lock, MailInv, Owners
  <2>3. \A q \in Posters : pc'[q] = "advance" => buffer'[wpos'] = mail'[q]
    BY <1>1, PosterMoves, MailTyped DEF post_lock, ringVars, MailInv, Owners
  <2>4. QED
    BY <1>1, <2>1, <2>2, <2>3, PosterMoves DEF Owners
<1>5. QED
  BY <1>2, <1>3, <1>4 DEF MailInv

\* A poster stores its mail in the slot behind the content.
LEMMA PostStoreInv ==
  ASSUME MailInv, NEW p \in Posters, post_store(p)
  PROVE  MailInv' /\ Filled' = Filled
<1>1. /\ "advance" \in PosterPC /\ Goto(p, "advance") /\ pc[p] = "store"
      /\ boxes' = boxes /\ mails' = mails
      /\ rpos' = rpos /\ wpos' = wpos
  BY DEF post_store, PosterPC, semVars, ringVars
<1>2. Filled' = Filled /\ SlotsAccounted' /\ mails' \in 0..MAILBOX_SIZE /\ boxes' \in 0..MAILBOX_SIZE
  <2>1. /\ boxes' = boxes + Bit(pc[p] \in {"lock", "store", "advance"}) - Bit("advance" \in {"lock", "store", "advance"})
        /\ mails' = mails + Bit(pc[p] = "post") - Bit("advance" = "post")
        /\ boxes' \in Nat /\ mails' \in Nat
    BY <1>1, MailTyped DEF Bit
  <2>2. QED
    BY <1>1, <2>1, PosterBooks
<1>3. MailboxTypeOK'
  <2>1. mailwaiters' \in Seq(Fetchers) /\ boxwaiters' \in Seq(Posters)
    BY MailTyped, WokenTyped DEF post_store, semVars
  <2>2. rlock' \in Fetchers \cup {NoTask} /\ wlock' \in Posters \cup {NoTask}
    BY MailTyped DEF post_store
  <2>3. buffer' \in [Slots -> Mails] /\ mail' \in [MailTasks -> Mails]
    BY MailTyped, MailboxAssumption DEF post_store, ringVars
  <2>4. QED
    BY <1>1, <1>2, MailTyped, <2>1, <2>2, <2>3, PosterMoves DEF MailboxTypeOK
<1>4. Owners'
  <2>1. \A q \in Posters : pc'[q] \in {"store", "advance"} <=> wlock' = q
    BY <1>1, PosterMoves, MailTyped DEF post_store, MailInv, Owners
  <2>2. \A g \in Fetchers : pc'[g] = "take" <=> rlock' = g
    BY <1>1, PosterMoves, MailTyped DEF post_store, MailInv, Owners
  <2>3. \A q \in Posters : pc'[q] = "advance" => buffer'[wpos'] = mail'[q]
    BY <1>1, PosterMoves, MailTyped DEF post_store, ringVars, MailInv, Owners
  <2>4. QED
    BY <1>1, <2>1, <2>2, <2>3, PosterMoves DEF Owners
<1>5. QED
  BY <1>2, <1>3, <1>4 DEF MailInv

\* A poster advances wpos and releases wlock.
LEMMA PostAdvanceInv ==
  ASSUME MailInv, NEW p \in Posters, post_advance(p)
  PROVE  MailInv' /\ Filled' = Filled + 1
<1> DEFINE r == Cardinality(Reserving')
           e == Cardinality(Emptied')
           t == Cardinality(Taking')
           d == Cardinality(Posted')
           n == mails' + t + d
<1>1. /\ "post" \in PosterPC /\ Goto(p, "post") /\ pc[p] = "advance"
      /\ boxes' = boxes /\ mails' = mails
      /\ rpos' = rpos /\ wpos' = NextSlot(wpos)
  BY DEF post_advance, PosterPC, semVars, ringVars, Advanced
<1>2. /\ r \in Nat /\ e \in Nat /\ t \in Nat /\ d \in Nat /\ mails' \in Nat /\ boxes' \in Nat
      /\ n = Filled + 1 /\ boxes' + r + e + n = MAILBOX_SIZE
  <2>1. /\ r = Cardinality(Reserving) - 1 /\ Cardinality(Reserving) >= 1
        /\ d = Cardinality(Posted) + 1
        /\ e = Cardinality(Emptied) /\ t = Cardinality(Taking)
    BY <1>1, PosterMoves, Numbers DEF Bit
  <2>2. /\ Cardinality(Reserving) \in Nat /\ Cardinality(Emptied) \in Nat
        /\ Cardinality(Taking) \in Nat /\ Cardinality(Posted) \in Nat /\ MAILBOX_SIZE \in Nat
        /\ Filled = MAILBOX_SIZE - boxes - Cardinality(Reserving) - Cardinality(Emptied)
        /\ Filled = mails + Cardinality(Taking) + Cardinality(Posted)
        /\ mails \in Nat /\ boxes \in Nat
    BY Numbers, MailTyped
  <2>3. QED
    BY <1>1, <2>1, <2>2
<1>3. Place(rpos', n) = wpos' /\ rpos' \in Slots /\ wpos' \in Slots
  <2>1. Filled \in 0..(MAILBOX_SIZE - 1) /\ n \in 1..MAILBOX_SIZE /\ n = Filled + 1
    BY <1>2, Numbers
  <2>2. Place(rpos, n) = NextSlot(Place(rpos, Filled))
    BY <2>1, PlacesAdvance, MailTyped
  <2>3. QED
    BY <1>1, <2>2, Numbers, MailTyped, NextPlace
<1>4. Filled' = Filled + 1 /\ SlotsAccounted' /\ mails' \in 0..MAILBOX_SIZE /\ boxes' \in 0..MAILBOX_SIZE
  <2>1. n \in Nat
    BY <1>2
  <2>2. QED
    BY <1>2, <1>3, <2>1, Accounts
<1> HIDE DEF r, e, t, d, n
<1>5. MailboxTypeOK'
  <2>1. mailwaiters' \in Seq(Fetchers) /\ boxwaiters' \in Seq(Posters)
    BY MailTyped, WokenTyped DEF post_advance, semVars
  <2>2. rlock' \in Fetchers \cup {NoTask} /\ wlock' \in Posters \cup {NoTask}
    BY MailTyped DEF post_advance
  <2>3. buffer' \in [Slots -> Mails] /\ mail' \in [MailTasks -> Mails]
    BY MailTyped, MailboxAssumption DEF post_advance, ringVars
  <2>4. QED
    BY <1>1, <1>3, <1>4, <2>1, <2>2, <2>3, PosterMoves DEF MailboxTypeOK
<1>6. Owners'
  <2>1. \A q \in Posters : pc'[q] \in {"store", "advance"} <=> wlock' = q
    <3>1. wlock' = NoTask /\ pc'[p] = "post" /\ \A q \in Posters \ {p} : pc'[q] = pc[q]
      BY <1>1, PosterMoves, MailTyped DEF post_advance
    <3>2. wlock = p /\ \A q \in Posters : q # NoTask /\ (pc[q] \in {"store", "advance"} <=> wlock = q)
      BY <1>1, MailTyped DEF post_advance, MailInv, Owners
    <3>3. QED
      BY <3>1, <3>2
  <2>2. \A g \in Fetchers : pc'[g] = "take" <=> rlock' = g
    BY <1>1, PosterMoves, MailTyped DEF post_advance, MailInv, Owners
  <2>3. \A q \in Posters : pc'[q] = "advance" => buffer'[wpos'] = mail'[q]
    BY <1>1, PosterMoves, MailTyped DEF post_advance, ringVars, MailInv, Owners
  <2>4. QED
    BY <1>1, <2>1, <2>2, <2>3, PosterMoves DEF Owners
<1>7. QED
  BY <1>4, <1>5, <1>6 DEF MailInv

\* A poster adds its mail to the semaphore and wakes a fetcher.
LEMMA PostDoneInv ==
  ASSUME MailInv, NEW p \in Posters, post_done(p)
  PROVE  MailInv' /\ Filled' = Filled
<1>1. /\ "idle" \in PosterPC /\ Goto(p, "idle") /\ pc[p] = "post"
      /\ boxes' = boxes /\ mails' = mails + 1
      /\ rpos' = rpos /\ wpos' = wpos
  BY DEF post_done, PosterPC, semVars, ringVars
<1>2. Filled' = Filled /\ SlotsAccounted' /\ mails' \in 0..MAILBOX_SIZE /\ boxes' \in 0..MAILBOX_SIZE
  <2>1. /\ boxes' = boxes + Bit(pc[p] \in {"lock", "store", "advance"}) - Bit("idle" \in {"lock", "store", "advance"})
        /\ mails' = mails + Bit(pc[p] = "post") - Bit("idle" = "post")
        /\ boxes' \in Nat /\ mails' \in Nat
    BY <1>1, MailTyped DEF Bit
  <2>2. QED
    BY <1>1, <2>1, PosterBooks
<1>3. MailboxTypeOK'
  <2>1. mailwaiters' \in Seq(Fetchers) /\ boxwaiters' \in Seq(Posters)
    BY MailTyped, WokenTyped DEF post_done, semVars
  <2>2. rlock' \in Fetchers \cup {NoTask} /\ wlock' \in Posters \cup {NoTask}
    BY MailTyped DEF post_done
  <2>3. buffer' \in [Slots -> Mails] /\ mail' \in [MailTasks -> Mails]
    BY MailTyped, MailboxAssumption DEF post_done, ringVars
  <2>4. QED
    BY <1>1, <1>2, MailTyped, <2>1, <2>2, <2>3, PosterMoves DEF MailboxTypeOK
<1>4. Owners'
  <2>1. \A q \in Posters : pc'[q] \in {"store", "advance"} <=> wlock' = q
    BY <1>1, PosterMoves, MailTyped DEF post_done, MailInv, Owners
  <2>2. \A g \in Fetchers : pc'[g] = "take" <=> rlock' = g
    BY <1>1, PosterMoves, MailTyped DEF post_done, MailInv, Owners
  <2>3. \A q \in Posters : pc'[q] = "advance" => buffer'[wpos'] = mail'[q]
    BY <1>1, PosterMoves, MailTyped DEF post_done, ringVars, MailInv, Owners
  <2>4. QED
    BY <1>1, <2>1, <2>2, <2>3, PosterMoves DEF Owners
<1>5. QED
  BY <1>2, <1>3, <1>4 DEF MailInv

\* A fetcher starts its call.
LEMMA FetchInv ==
  ASSUME MailInv, NEW f \in Fetchers, fetch(f)
  PROVE  MailInv' /\ Filled' = Filled
<1>1. /\ "wait" \in FetcherPC /\ Goto(f, "wait") /\ pc[f] = "idle"
      /\ boxes' = boxes /\ mails' = mails
      /\ rpos' = rpos /\ wpos' = wpos
  BY DEF fetch, FetcherPC, semVars, ringVars
<1>2. Filled' = Filled /\ SlotsAccounted' /\ mails' \in 0..MAILBOX_SIZE /\ boxes' \in 0..MAILBOX_SIZE
  <2>1. /\ mails' = mails + Bit(pc[f] \in {"lock", "take"}) - Bit("wait" \in {"lock", "take"})
        /\ boxes' = boxes + Bit(pc[f] = "post") - Bit("wait" = "post")
        /\ boxes' \in Nat /\ mails' \in Nat
    BY <1>1, MailTyped DEF Bit
  <2>2. QED
    BY <1>1, <2>1, FetcherBooks
<1>3. MailboxTypeOK'
  <2>1. mailwaiters' \in Seq(Fetchers) /\ boxwaiters' \in Seq(Posters)
    BY MailTyped, WokenTyped DEF fetch, semVars
  <2>2. rlock' \in Fetchers \cup {NoTask} /\ wlock' \in Posters \cup {NoTask}
    BY MailTyped DEF fetch
  <2>3. buffer' \in [Slots -> Mails] /\ mail' \in [MailTasks -> Mails]
    BY MailTyped, MailboxAssumption DEF fetch, ringVars
  <2>4. QED
    BY <1>1, <1>2, MailTyped, <2>1, <2>2, <2>3, FetcherMoves DEF MailboxTypeOK
<1>4. Owners'
  <2>1. \A q \in Posters : pc'[q] \in {"store", "advance"} <=> wlock' = q
    BY <1>1, FetcherMoves, MailTyped DEF fetch, MailInv, Owners
  <2>2. \A g \in Fetchers : pc'[g] = "take" <=> rlock' = g
    BY <1>1, FetcherMoves, MailTyped DEF fetch, MailInv, Owners
  <2>3. \A q \in Posters : pc'[q] = "advance" => buffer'[wpos'] = mail'[q]
    BY <1>1, FetcherMoves, MailTyped DEF fetch, ringVars, MailInv, Owners
  <2>4. QED
    BY <1>1, <2>1, <2>2, <2>3, FetcherMoves DEF Owners
<1>5. QED
  BY <1>2, <1>3, <1>4 DEF MailInv

\* A fetcher takes a mail.
LEMMA FetchWaitDoneInv ==
  ASSUME MailInv, NEW f \in Fetchers, fetch_wait(f), mails > 0
  PROVE  MailInv' /\ Filled' = Filled
<1>1. /\ "lock" \in FetcherPC /\ Goto(f, "lock") /\ pc[f] = "wait"
      /\ mails' = mails - 1 /\ boxes' = boxes
      /\ rpos' = rpos /\ wpos' = wpos
  BY DEF fetch_wait, FetcherPC, semVars, ringVars
<1>2. Filled' = Filled /\ SlotsAccounted' /\ mails' \in 0..MAILBOX_SIZE /\ boxes' \in 0..MAILBOX_SIZE
  <2>1. /\ mails' = mails + Bit(pc[f] \in {"lock", "take"}) - Bit("lock" \in {"lock", "take"})
        /\ boxes' = boxes + Bit(pc[f] = "post") - Bit("lock" = "post")
        /\ boxes' \in Nat /\ mails' \in Nat
    BY <1>1, MailTyped DEF Bit
  <2>2. QED
    BY <1>1, <2>1, FetcherBooks
<1>3. MailboxTypeOK'
  <2>1. mailwaiters' \in Seq(Fetchers) /\ boxwaiters' \in Seq(Posters)
    BY MailTyped, WokenTyped DEF fetch_wait, semVars
  <2>2. rlock' \in Fetchers \cup {NoTask} /\ wlock' \in Posters \cup {NoTask}
    BY MailTyped DEF fetch_wait
  <2>3. buffer' \in [Slots -> Mails] /\ mail' \in [MailTasks -> Mails]
    BY MailTyped, MailboxAssumption DEF fetch_wait, ringVars
  <2>4. QED
    BY <1>1, <1>2, MailTyped, <2>1, <2>2, <2>3, FetcherMoves DEF MailboxTypeOK
<1>4. Owners'
  <2>1. \A q \in Posters : pc'[q] \in {"store", "advance"} <=> wlock' = q
    BY <1>1, FetcherMoves, MailTyped DEF fetch_wait, MailInv, Owners
  <2>2. \A g \in Fetchers : pc'[g] = "take" <=> rlock' = g
    <3>1. rlock' = rlock /\ pc'[f] = "lock" /\ \A g \in Fetchers \ {f} : pc'[g] = pc[g]
      BY <1>1, FetcherMoves, MailTyped DEF fetch_wait
    <3>2. rlock # f /\ \A g \in Fetchers : pc[g] = "take" <=> rlock = g
      BY <1>1 DEF MailInv, Owners
    <3>3. QED
      BY <3>1, <3>2
  <2>3. \A q \in Posters : pc'[q] = "advance" => buffer'[wpos'] = mail'[q]
    BY <1>1, FetcherMoves, MailTyped DEF fetch_wait, ringVars, MailInv, Owners
  <2>4. QED
    BY <1>1, <2>1, <2>2, <2>3, FetcherMoves DEF Owners
<1>5. QED
  BY <1>2, <1>3, <1>4 DEF MailInv

\* tryfetch takes a mail if there is one.
LEMMA TryfetchInv ==
  ASSUME MailInv, NEW f \in Fetchers, tryfetch(f)
  PROVE  MailInv' /\ Filled' = Filled
<1>1. /\ "lock" \in FetcherPC /\ Goto(f, "lock") /\ pc[f] = "idle"
      /\ mails > 0 /\ mails' = mails - 1 /\ boxes' = boxes
      /\ rpos' = rpos /\ wpos' = wpos
  BY DEF tryfetch, FetcherPC, semVars, ringVars
<1>2. Filled' = Filled /\ SlotsAccounted' /\ mails' \in 0..MAILBOX_SIZE /\ boxes' \in 0..MAILBOX_SIZE
  <2>1. /\ mails' = mails + Bit(pc[f] \in {"lock", "take"}) - Bit("lock" \in {"lock", "take"})
        /\ boxes' = boxes + Bit(pc[f] = "post") - Bit("lock" = "post")
        /\ boxes' \in Nat /\ mails' \in Nat
    BY <1>1, MailTyped DEF Bit
  <2>2. QED
    BY <1>1, <2>1, FetcherBooks
<1>3. MailboxTypeOK'
  <2>1. mailwaiters' \in Seq(Fetchers) /\ boxwaiters' \in Seq(Posters)
    BY MailTyped, WokenTyped DEF tryfetch, semVars
  <2>2. rlock' \in Fetchers \cup {NoTask} /\ wlock' \in Posters \cup {NoTask}
    BY MailTyped DEF tryfetch
  <2>3. buffer' \in [Slots -> Mails] /\ mail' \in [MailTasks -> Mails]
    BY MailTyped, MailboxAssumption DEF tryfetch, ringVars
  <2>4. QED
    BY <1>1, <1>2, MailTyped, <2>1, <2>2, <2>3, FetcherMoves DEF MailboxTypeOK
<1>4. Owners'
  <2>1. \A q \in Posters : pc'[q] \in {"store", "advance"} <=> wlock' = q
    BY <1>1, FetcherMoves, MailTyped DEF tryfetch, MailInv, Owners
  <2>2. \A g \in Fetchers : pc'[g] = "take" <=> rlock' = g
    BY <1>1, FetcherMoves, MailTyped DEF tryfetch, MailInv, Owners
  <2>3. \A q \in Posters : pc'[q] = "advance" => buffer'[wpos'] = mail'[q]
    BY <1>1, FetcherMoves, MailTyped DEF tryfetch, ringVars, MailInv, Owners
  <2>4. QED
    BY <1>1, <2>1, <2>2, <2>3, FetcherMoves DEF Owners
<1>5. QED
  BY <1>2, <1>3, <1>4 DEF MailInv

\* A fetcher gets rlock.
LEMMA FetchLockInv ==
  ASSUME MailInv, NEW f \in Fetchers, fetch_lock(f)
  PROVE  MailInv' /\ Filled' = Filled
<1>1. /\ "take" \in FetcherPC /\ Goto(f, "take") /\ pc[f] = "lock"
      /\ boxes' = boxes /\ mails' = mails
      /\ rpos' = rpos /\ wpos' = wpos
  BY DEF fetch_lock, FetcherPC, semVars, ringVars
<1>2. Filled' = Filled /\ SlotsAccounted' /\ mails' \in 0..MAILBOX_SIZE /\ boxes' \in 0..MAILBOX_SIZE
  <2>1. /\ mails' = mails + Bit(pc[f] \in {"lock", "take"}) - Bit("take" \in {"lock", "take"})
        /\ boxes' = boxes + Bit(pc[f] = "post") - Bit("take" = "post")
        /\ boxes' \in Nat /\ mails' \in Nat
    BY <1>1, MailTyped DEF Bit
  <2>2. QED
    BY <1>1, <2>1, FetcherBooks
<1>3. MailboxTypeOK'
  <2>1. mailwaiters' \in Seq(Fetchers) /\ boxwaiters' \in Seq(Posters)
    BY MailTyped, WokenTyped DEF fetch_lock, semVars
  <2>2. rlock' \in Fetchers \cup {NoTask} /\ wlock' \in Posters \cup {NoTask}
    BY MailTyped DEF fetch_lock
  <2>3. buffer' \in [Slots -> Mails] /\ mail' \in [MailTasks -> Mails]
    BY MailTyped, MailboxAssumption DEF fetch_lock, ringVars
  <2>4. QED
    BY <1>1, <1>2, MailTyped, <2>1, <2>2, <2>3, FetcherMoves DEF MailboxTypeOK
<1>4. Owners'
  <2>1. \A q \in Posters : pc'[q] \in {"store", "advance"} <=> wlock' = q
    BY <1>1, FetcherMoves, MailTyped DEF fetch_lock, MailInv, Owners
  <2>2. \A g \in Fetchers : pc'[g] = "take" <=> rlock' = g
    BY <1>1, FetcherMoves, MailTyped DEF fetch_lock, MailInv, Owners
  <2>3. \A q \in Posters : pc'[q] = "advance" => buffer'[wpos'] = mail'[q]
    BY <1>1, FetcherMoves, MailTyped DEF fetch_lock, ringVars, MailInv, Owners
  <2>4. QED
    BY <1>1, <2>1, <2>2, <2>3, FetcherMoves DEF Owners
<1>5. QED
  BY <1>2, <1>3, <1>4 DEF MailInv

\* A fetcher reads its slot, advances rpos and releases rlock.
LEMMA FetchTakeInv ==
  ASSUME MailInv, NEW f \in Fetchers, fetch_take(f)
  PROVE  MailInv' /\ Filled' = Filled - 1
<1> DEFINE r == Cardinality(Reserving')
           e == Cardinality(Emptied')
           t == Cardinality(Taking')
           d == Cardinality(Posted')
           n == mails' + t + d
<1>1. /\ "post" \in FetcherPC /\ Goto(f, "post") /\ pc[f] = "take"
      /\ boxes' = boxes /\ mails' = mails
      /\ rpos' = NextSlot(rpos) /\ wpos' = wpos
  BY DEF fetch_take, FetcherPC, semVars, ringVars
<1>2. /\ r \in Nat /\ e \in Nat /\ t \in Nat /\ d \in Nat /\ mails' \in Nat /\ boxes' \in Nat
      /\ n = Filled - 1 /\ boxes' + r + e + n = MAILBOX_SIZE
  <2>1. /\ t = Cardinality(Taking) - 1 /\ Cardinality(Taking) >= 1
        /\ e = Cardinality(Emptied) + 1
        /\ r = Cardinality(Reserving) /\ d = Cardinality(Posted)
    BY <1>1, FetcherMoves, Numbers DEF Bit
  <2>2. /\ Cardinality(Reserving) \in Nat /\ Cardinality(Emptied) \in Nat
        /\ Cardinality(Taking) \in Nat /\ Cardinality(Posted) \in Nat /\ MAILBOX_SIZE \in Nat
        /\ Filled = MAILBOX_SIZE - boxes - Cardinality(Reserving) - Cardinality(Emptied)
        /\ Filled = mails + Cardinality(Taking) + Cardinality(Posted)
        /\ mails \in Nat /\ boxes \in Nat
    BY Numbers, MailTyped
  <2>3. QED
    BY <1>1, <2>1, <2>2
<1>3. Place(rpos', n) = wpos' /\ rpos' \in Slots /\ wpos' \in Slots
  <2>1. n \in 0..(MAILBOX_SIZE - 1) /\ Filled \in 1..MAILBOX_SIZE /\ Filled = n + 1
    BY <1>2, Numbers
  <2>2. Place(NextSlot(rpos), n) = Place(rpos, Filled)
    BY <2>1, PlacesAdvance, MailTyped
  <2>3. QED
    BY <1>1, <2>2, Numbers, MailTyped, NextPlace
<1>4. Filled' = Filled - 1 /\ SlotsAccounted' /\ mails' \in 0..MAILBOX_SIZE /\ boxes' \in 0..MAILBOX_SIZE
  <2>1. n \in Nat
    BY <1>2
  <2>2. QED
    BY <1>2, <1>3, <2>1, Accounts
<1> HIDE DEF r, e, t, d, n
<1>5. MailboxTypeOK'
  <2>1. mailwaiters' \in Seq(Fetchers) /\ boxwaiters' \in Seq(Posters)
    BY MailTyped, WokenTyped DEF fetch_take, semVars
  <2>2. rlock' \in Fetchers \cup {NoTask} /\ wlock' \in Posters \cup {NoTask}
    BY MailTyped DEF fetch_take
  <2>3. buffer' \in [Slots -> Mails] /\ mail' \in [MailTasks -> Mails]
    BY MailTyped, MailboxAssumption DEF fetch_take, ringVars
  <2>4. QED
    BY <1>1, <1>3, <1>4, <2>1, <2>2, <2>3, FetcherMoves DEF MailboxTypeOK
<1>6. Owners'
  <2>1. \A q \in Posters : pc'[q] \in {"store", "advance"} <=> wlock' = q
    BY <1>1, FetcherMoves, MailTyped DEF fetch_take, MailInv, Owners
  <2>2. \A g \in Fetchers : pc'[g] = "take" <=> rlock' = g
    BY <1>1, FetcherMoves, MailTyped DEF fetch_take, MailInv, Owners
  <2>3. \A q \in Posters : pc'[q] = "advance" => buffer'[wpos'] = mail'[q]
    BY <1>1, FetcherMoves, MailTyped DEF fetch_take, ringVars, MailInv, Owners
  <2>4. QED
    BY <1>1, <2>1, <2>2, <2>3, FetcherMoves DEF Owners
<1>7. QED
  BY <1>4, <1>5, <1>6 DEF MailInv

\* A fetcher gives the box back and wakes a poster.
LEMMA FetchDoneInv ==
  ASSUME MailInv, NEW f \in Fetchers, fetch_done(f)
  PROVE  MailInv' /\ Filled' = Filled
<1>1. /\ "idle" \in FetcherPC /\ Goto(f, "idle") /\ pc[f] = "post"
      /\ mails' = mails /\ boxes' = boxes + 1
      /\ rpos' = rpos /\ wpos' = wpos
  BY DEF fetch_done, FetcherPC, semVars, ringVars
<1>2. Filled' = Filled /\ SlotsAccounted' /\ mails' \in 0..MAILBOX_SIZE /\ boxes' \in 0..MAILBOX_SIZE
  <2>1. /\ mails' = mails + Bit(pc[f] \in {"lock", "take"}) - Bit("idle" \in {"lock", "take"})
        /\ boxes' = boxes + Bit(pc[f] = "post") - Bit("idle" = "post")
        /\ boxes' \in Nat /\ mails' \in Nat
    BY <1>1, MailTyped DEF Bit
  <2>2. QED
    BY <1>1, <2>1, FetcherBooks
<1>3. MailboxTypeOK'
  <2>1. mailwaiters' \in Seq(Fetchers) /\ boxwaiters' \in Seq(Posters)
    BY MailTyped, WokenTyped DEF fetch_done, semVars, BoxWoken
  <2>2. rlock' \in Fetchers \cup {NoTask} /\ wlock' \in Posters \cup {NoTask}
    BY MailTyped DEF fetch_done
  <2>3. buffer' \in [Slots -> Mails] /\ mail' \in [MailTasks -> Mails]
    BY MailTyped, MailboxAssumption DEF fetch_done, ringVars
  <2>4. QED
    BY <1>1, <1>2, MailTyped, <2>1, <2>2, <2>3, FetcherMoves DEF MailboxTypeOK
<1>4. Owners'
  <2>1. \A q \in Posters : pc'[q] \in {"store", "advance"} <=> wlock' = q
    BY <1>1, FetcherMoves, MailTyped DEF fetch_done, MailInv, Owners
  <2>2. \A g \in Fetchers : pc'[g] = "take" <=> rlock' = g
    BY <1>1, FetcherMoves, MailTyped DEF fetch_done, MailInv, Owners
  <2>3. \A q \in Posters : pc'[q] = "advance" => buffer'[wpos'] = mail'[q]
    BY <1>1, FetcherMoves, MailTyped DEF fetch_done, ringVars, MailInv, Owners
  <2>4. QED
    BY <1>1, <2>1, <2>2, <2>3, FetcherMoves DEF Owners
<1>5. QED
  BY <1>2, <1>3, <1>4 DEF MailInv

\* A pass of sem_wait that blocks changes nothing but the list of waiters, and so does
\* stuttering.
LEMMA BlockedInv ==
  ASSUME MailInv, UNCHANGED <<ringVars, mails, boxes, rlock, wlock, pc, mail>>,
         mailwaiters' \in Seq(Fetchers), boxwaiters' \in Seq(Posters)
  PROVE  MailInv' /\ Filled' = Filled
<1>1. Filled' = Filled
  BY DEF Filled
<1>2. SlotsAccounted'
  BY <1>1 DEF MailInv, SlotsAccounted, ringVars
<1>3. MailboxTypeOK'
  BY DEF MailInv, MailboxTypeOK, ringVars
<1>4. Owners'
  BY DEF MailInv, Owners, ringVars
<1>5. QED
  BY <1>1, <1>2, <1>3, <1>4 DEF MailInv

\* A poster that blocks changes no count.
LEMMA PostWaitBlocks ==
  ASSUME MailInv, NEW p \in Posters, post_wait(p), ~(boxes > 0)
  PROVE  MailInv' /\ Filled' = Filled /\ UNCHANGED <<ringVars, pc, mail>>
<1>1. /\ UNCHANGED <<ringVars, mails, boxes, rlock, wlock, pc, mail>>
      /\ mailwaiters' = mailwaiters /\ boxwaiters' = Append(boxwaiters, p)
  BY DEF post_wait
<1>2. mailwaiters' \in Seq(Fetchers) /\ boxwaiters' \in Seq(Posters)
  BY <1>1, MailTyped
<1>3. QED
  BY <1>1, <1>2, BlockedInv

\* A fetcher that blocks changes no count.
LEMMA FetchWaitBlocks ==
  ASSUME MailInv, NEW f \in Fetchers, fetch_wait(f), ~(mails > 0)
  PROVE  MailInv' /\ Filled' = Filled /\ UNCHANGED <<ringVars, pc, mail>>
<1>1. /\ UNCHANGED <<ringVars, mails, boxes, rlock, wlock, pc, mail>>
      /\ boxwaiters' = boxwaiters /\ mailwaiters' = Append(mailwaiters, f)
  BY DEF fetch_wait
<1>2. mailwaiters' \in Seq(Fetchers) /\ boxwaiters' \in Seq(Posters)
  BY <1>1, MailTyped
<1>3. QED
  BY <1>1, <1>2, BlockedInv

\* The invariant holds at first.
LEMMA MailInitInv ==
  ASSUME MailboxInit
  PROVE  MailInv /\ Filled = 0
<1>1. \A t \in MailTasks : pc[t] = "idle"
  BY DEF MailboxInit
<1>2. Reserving = {} /\ Emptied = {} /\ Taking = {} /\ Posted = {}
  BY <1>1 DEF Reserving, Emptied, Taking, Posted, MailTasks
<1>3. Cardinality(Reserving) = 0 /\ Cardinality(Emptied) = 0 /\ Cardinality(Taking) = 0 /\ Cardinality(Posted) = 0
  BY <1>2, FS_EmptySet
<1>4. MAILBOX_SIZE \in Nat \ {0} /\ mails = 0 /\ boxes = MAILBOX_SIZE /\ rpos = 0 /\ wpos = 0
  BY MailboxAssumption DEF MailboxInit
<1>5. Filled = MAILBOX_SIZE - boxes - Cardinality(Reserving) - Cardinality(Emptied)
  BY DEF Filled, Reserving, Emptied
<1>6. Filled = 0 /\ mails + Cardinality(Taking) + Cardinality(Posted) = 0
  BY <1>3, <1>4, <1>5
<1>7. Place(0, 0) = 0 /\ 0 \in Slots
  BY <1>4, Places DEF Slots
<1>8. SlotsAccounted
  <2>1. SlotsAccounted <=> mails + Cardinality(Taking) + Cardinality(Posted) = Filled /\ Place(rpos, Filled) = wpos
    BY DEF SlotsAccounted, Taking, Posted, Place
  <2>2. QED
    BY <2>1, <1>4, <1>6, <1>7
<1>9. MailboxTypeOK
  BY <1>4, <1>7, MailboxAssumption DEF MailboxInit, MailboxTypeOK, MailTasks, PosterPC, FetcherPC
<1>10. Owners
  BY <1>1, MailboxAssumption DEF MailboxInit, Owners, MailTasks, PosterPC, FetcherPC
<1>11. QED
  BY <1>6, <1>8, <1>9, <1>10 DEF MailInv

\* Every step preserves the invariant.
LEMMA MailNextInv ==
  ASSUME MailInv, [MailboxNext]_mailboxVars
  PROVE  MailInv'
<1>1. ASSUME NEW p \in Posters, NEW m \in Mails, post(p, m) \/ trypost(p, m)
      PROVE  MailInv'
  BY <1>1, PostInv, TrypostInv
<1>2. ASSUME NEW p \in Posters, PostStep(p)
      PROVE  MailInv'
  BY <1>2, PostWaitDoneInv, PostWaitBlocks, PostLockInv, PostStoreInv, PostAdvanceInv, PostDoneInv DEF PostStep
<1>3. ASSUME NEW f \in Fetchers, fetch(f) \/ tryfetch(f)
      PROVE  MailInv'
  BY <1>3, FetchInv, TryfetchInv
<1>4. ASSUME NEW f \in Fetchers, FetchStep(f)
      PROVE  MailInv'
  BY <1>4, FetchWaitDoneInv, FetchWaitBlocks, FetchLockInv, FetchTakeInv, FetchDoneInv DEF FetchStep
<1>5. CASE UNCHANGED mailboxVars
  BY <1>5, BlockedInv, MailTyped DEF mailboxVars, semVars
<1>6. QED
  BY <1>1, <1>2, <1>3, <1>4, <1>5 DEF MailboxNext

\* The two semaphores, the tasks on their way through mailbox_post and mailbox_fetch and
\* the positions of the ring account for every slot at every step.
THEOREM MailboxCorrect == MailboxSpec => []MailboxRight
<1>1. MailboxInit => MailInv
  BY MailInitInv
<1>2. MailInv /\ [MailboxNext]_mailboxVars => MailInv'
  BY MailNextInv
<1>3. MailInv => MailboxRight
  BY DEF MailInv, MailboxRight
<1>4. QED
  BY <1>1, <1>2, <1>3, PTL DEF MailboxSpec

-----------------------------------------------------------------------------
(***************************************************************************)
(* The refinement.                                                         *)
(***************************************************************************)
Offers == [p \in Posters |-> IF pc[p] \in {"idle", "post"} THEN NoTask ELSE mail[p]]
Gots == [f \in Fetchers |-> mail[f]]

\* The content of the ring, with Place for the slots.
ContentRight ==
  /\ Content \in Seq(Mails) /\ Len(Content) = Filled
  /\ \A i \in 1..Filled : Content[i] = buffer[Place(rpos, i - 1)]

\* The content of the mailbox as the refinement reads it.
LEMMA ContentIs == MailInv => ContentRight
<1> SUFFICES ASSUME MailInv PROVE ContentRight
  OBVIOUS
<1>1. Filled \in 0..MAILBOX_SIZE /\ MAILBOX_SIZE \in Nat
  BY Numbers
<1>2. \A i \in 1..Filled : Content[i] = buffer[Place(rpos, i - 1)]
  <2>1. SUFFICES ASSUME NEW i \in 1..Filled PROVE Content[i] = buffer[Place(rpos, i - 1)]
    OBVIOUS
  <2>2. rpos + i - 1 = rpos + (i - 1)
    BY <1>1, MailTyped, MailboxAssumption DEF Slots
  <2>3. QED
    BY <2>2 DEF Content, Place
<1>3. \A i \in 1..Filled : Content[i] \in Mails
  <2>1. SUFFICES ASSUME NEW i \in 1..Filled PROVE Content[i] \in Mails
    OBVIOUS
  <2>2. i - 1 \in 0..MAILBOX_SIZE
    BY <1>1
  <2>3. QED
    BY <1>2, <2>2, Places, MailTyped
<1>4. Content = [i \in 1..Filled |-> Content[i]]
  BY DEF Content
<1>5. QED
  BY <1>1, <1>2, <1>3, <1>4 DEF ContentRight

\* A step that leaves the ends of the ring and the slots between them alone leaves the
\* queue alone.
LEMMA ContentSame ==
  ASSUME MailInv, MailInv', Filled' = Filled, rpos' = rpos,
         \A i \in 0..(Filled - 1) : buffer'[Place(rpos, i)] = buffer[Place(rpos, i)]
  PROVE  Content' = Content
<1>1. Filled \in Nat
  BY Numbers
<1>2. /\ Len(Content) = Filled /\ Content \in Seq(Mails)
      /\ \A i \in 1..Filled : Content[i] = buffer[Place(rpos, i - 1)]
  BY ContentIs DEF ContentRight
<1>3. /\ Len(Content') = Filled /\ Content' \in Seq(Mails)
      /\ \A i \in 1..Filled : Content'[i] = buffer'[Place(rpos, i - 1)]
  <2>1. ContentRight'
    BY ContentIs, PTL
  <2>2. QED
    BY <2>1 DEF ContentRight
<1>4. \A i \in 1..Filled : Content'[i] = Content[i]
  <2>1. \A i \in 1..Filled : i - 1 \in 0..(Filled - 1)
    BY <1>1
  <2>2. QED
    BY <1>2, <1>3, <2>1
<1>5. QED
  BY <1>2, <1>3, <1>4

\* The slot a poster has reserved is not in the queue.
LEMMA RoomLeft ==
  ASSUME MailInv, NEW p \in Posters, pc[p] \in {"store", "advance"}
  PROVE  Filled \in 0..(MAILBOX_SIZE - 1)
<1>1. p \in Reserving
  BY DEF Reserving
<1>2. Cardinality(Reserving) > 0
  BY <1>1, Numbers, Counted
<1>3. QED
  BY <1>2, Numbers, MailTyped

\* mailbox_post adds its mail at the end when it advances wpos.
LEMMA ContentAppend ==
  ASSUME MailInv, NEW p \in Posters, post_advance(p)
  PROVE  Content' = Append(Content, mail[p]) /\ Len(Content) < MAILBOX_SIZE
<1>1. MailInv' /\ Filled' = Filled + 1
  BY PostAdvanceInv
<1>2. buffer' = buffer /\ rpos' = rpos /\ buffer[wpos] = mail[p] /\ mail[p] \in Mails
  BY MailTyped DEF post_advance, MailInv, Owners
<1>3. ContentRight /\ ContentRight'
  BY <1>1, ContentIs, PTL
<1>4. Filled \in 0..MAILBOX_SIZE /\ MAILBOX_SIZE \in Nat /\ Place(rpos, Filled) = wpos
  BY Numbers
<1>5. Filled < MAILBOX_SIZE
  BY <1>4, RoomLeft DEF post_advance
<1>6. Len(Append(Content, mail[p])) = Filled + 1 /\ Len(Content') = Filled + 1
  BY <1>1, <1>2, <1>3, <1>4 DEF ContentRight
<1>7. \A i \in 1..(Filled + 1) : Content'[i] = Append(Content, mail[p])[i]
  <2> SUFFICES ASSUME NEW i \in 1..(Filled + 1) PROVE Content'[i] = Append(Content, mail[p])[i]
    OBVIOUS
  <2>1. Content'[i] = buffer[Place(rpos, i - 1)]
    BY <1>1, <1>2, <1>3 DEF ContentRight
  <2>2. CASE i = Filled + 1
    <3>1. i - 1 = Filled
      BY <2>2, <1>4
    <3>2. QED
      BY <2>1, <2>2, <3>1, <1>2, <1>3, <1>4 DEF ContentRight
  <2>3. CASE i \in 1..Filled
    <3>1. Append(Content, mail[p])[i] = Content[i]
      BY <2>3, <1>2, <1>3 DEF ContentRight
    <3>2. QED
      BY <2>1, <2>3, <3>1, <1>3 DEF ContentRight
  <2>4. i = Filled + 1 \/ i \in 1..Filled
    BY <1>4
  <2>5. QED
    BY <2>2, <2>3, <2>4
<1>8. Content' \in Seq(Mails) /\ Append(Content, mail[p]) \in Seq(Mails)
  BY <1>2, <1>3 DEF ContentRight
<1>9. QED
  <2>1. Len(Content) = Filled
    BY <1>3 DEF ContentRight
  <2>2. Content' = Append(Content, mail[p])
    <3> DEFINE s == Content'
               u == Append(Content, mail[p])
               n == Filled + 1
    <3>1. s \in Seq(Mails) /\ u \in Seq(Mails) /\ Len(s) = n /\ Len(u) = n /\ \A i \in 1..n : s[i] = u[i]
      BY <1>6, <1>7, <1>8
    <3> HIDE DEF s, u, n
    <3>2. s = u
      BY <3>1
    <3>3. QED
      BY <3>2 DEF s, u
  <2>3. QED
    BY <1>5, <2>1, <2>2

\* mailbox_fetch takes the first mail when it advances rpos.
LEMMA ContentTail ==
  ASSUME MailInv, NEW f \in Fetchers, fetch_take(f)
  PROVE  Content # << >> /\ buffer[rpos] = Head(Content) /\ Content' = Tail(Content)
<1>1. MailInv' /\ Filled' = Filled - 1
  BY FetchTakeInv
<1>2. buffer' = buffer /\ rpos' = NextSlot(rpos) /\ rpos \in Slots
  BY MailTyped DEF fetch_take
<1>3. ContentRight /\ ContentRight'
  BY <1>1, ContentIs, PTL
<1>4. Filled \in 0..MAILBOX_SIZE /\ MAILBOX_SIZE \in Nat
  BY Numbers
<1>5. Filled' \in Nat
  <2>1. Content' \in Seq(Mails) /\ Len(Content') = Filled'
    BY <1>3 DEF ContentRight
  <2>2. Len(Content') \in Nat
    BY <2>1
  <2>3. QED
    BY <2>1, <2>2, Zenon
<1>6. Filled > 0 /\ Len(Tail(Content)) = Filled - 1 /\ Len(Content') = Filled - 1
  BY <1>1, <1>3, <1>4, <1>5 DEF ContentRight
<1>7. buffer[rpos] = Head(Content)
  <2>1. Place(rpos, 0) = rpos
    BY <1>2, Places, MailboxAssumption DEF Slots
  <2>2. Content[1] = buffer[Place(rpos, 1 - 1)]
    BY <1>3, <1>4, <1>6 DEF ContentRight
  <2>3. 1 - 1 = 0
    OBVIOUS
  <2>4. QED
    BY <2>1, <2>2, <2>3, <1>3, <1>6 DEF ContentRight
<1>8. \A i \in 1..(Filled - 1) : Content'[i] = Tail(Content)[i]
  <2> SUFFICES ASSUME NEW i \in 1..(Filled - 1) PROVE Content'[i] = Tail(Content)[i]
    OBVIOUS
  <2> DEFINE a == i - 1
  <2>1. Content'[i] = buffer[Place(NextSlot(rpos), a)]
    BY <1>1, <1>2, <1>3 DEF ContentRight
  <2>2. a \in 0..(MAILBOX_SIZE - 1) /\ i \in 1..MAILBOX_SIZE /\ i = a + 1 /\ i + 1 \in 1..Filled /\ (i + 1) - 1 = i
    BY <1>4
  <2>3. Place(NextSlot(rpos), a) = Place(rpos, i)
    <3> HIDE DEF a
    <3>1. QED
      BY <1>2, <2>2, PlacesAdvance
  <2>4. Content[i + 1] = buffer[Place(rpos, i)]
    BY <1>3, <2>2 DEF ContentRight
  <2>5. Tail(Content)[i] = Content[i + 1]
    BY <1>3, <1>4, <1>6 DEF ContentRight
  <2>6. QED
    BY <2>1, <2>3, <2>4, <2>5
<1>9. Content' \in Seq(Mails) /\ Tail(Content) \in Seq(Mails) /\ Content # << >>
  BY <1>3, <1>4, <1>6 DEF ContentRight
<1>10. QED
  BY <1>6, <1>7, <1>8, <1>9

-----------------------------------------------------------------------------
QueueVars == <<Content, Offers, Gots>>

\* The actions of the queue, on what the mailbox maps to.
QueueOffer(p, m) ==
  Offers[p] = NoTask /\ Offers' = [Offers EXCEPT ![p] = m] /\ UNCHANGED <<Content, Gots>>
QueuePost(p) ==
  /\ Offers[p] # NoTask /\ Len(Content) < MAILBOX_SIZE
  /\ Content' = Append(Content, Offers[p]) /\ Offers' = [Offers EXCEPT ![p] = NoTask]
  /\ UNCHANGED Gots
QueueFetch(f) ==
  /\ Content # << >> /\ Gots' = [Gots EXCEPT ![f] = Head(Content)] /\ Content' = Tail(Content)
  /\ UNCHANGED Offers

\* No step but post_store writes to the ring, and it writes behind the last mail.
LEMMA StoreBehind ==
  ASSUME MailInv, NEW p \in Posters, post_store(p)
  PROVE  Content' = Content
<1>1. MailInv' /\ Filled' = Filled /\ rpos' = rpos
  BY PostStoreInv DEF post_store
<1>2. Filled \in 0..(MAILBOX_SIZE - 1) /\ MAILBOX_SIZE \in Nat \ {0}
  BY RoomLeft, MailboxAssumption DEF post_store
<1>3. wpos = Place(rpos, Filled) /\ rpos \in Slots /\ buffer \in [Slots -> Mails] /\ wpos \in Slots
  BY Numbers, MailTyped
<1>4. buffer' = [buffer EXCEPT ![wpos] = mail[p]]
  BY DEF post_store
<1>5. \A i \in 0..(Filled - 1) : buffer'[Place(rpos, i)] = buffer[Place(rpos, i)]
  <2> SUFFICES ASSUME NEW i \in 0..(Filled - 1) PROVE buffer'[Place(rpos, i)] = buffer[Place(rpos, i)]
    OBVIOUS
  <2>1. i \in 0..(MAILBOX_SIZE - 1) /\ i \in 0..MAILBOX_SIZE /\ i # Filled
    BY <1>2
  <2>2. Place(rpos, i) # wpos /\ Place(rpos, i) \in Slots
    BY <1>2, <1>3, <2>1, PlacesDiffer, Places
  <2>3. QED
    BY <1>3, <1>4, <2>2
<1>6. QED
  BY <1>1, <1>5, ContentSame

\* What the steps of a poster look like to the queue.
LEMMA PosterImplements ==
  ASSUME MailInv, NEW p \in Posters,
         (\E m \in Mails : post(p, m) \/ trypost(p, m)) \/ PostStep(p)
  PROVE  (\E m \in Mails : QueueOffer(p, m)) \/ QueuePost(p) \/ UNCHANGED QueueVars
<1>1. mail \in [MailTasks -> Mails] /\ pc \in [MailTasks -> PosterPC \cup FetcherPC] /\ p \in MailTasks
  BY MailTyped
<1>2. \A q \in Posters : q \in MailTasks /\ mail[q] \in Mails /\ mail[q] # NoTask
  BY <1>1, MailTyped, MailboxAssumption
<1>3. \A f \in Fetchers : f \in MailTasks /\ f # p
  BY MailTyped
<1>4. ASSUME NEW m \in Mails, post(p, m) \/ trypost(p, m)
      PROVE  QueueOffer(p, m)
  <2>1. MailInv' /\ Filled' = Filled /\ rpos' = rpos /\ buffer' = buffer
    BY <1>4, PostInv, TrypostInv DEF post, trypost, ringVars
  <2>2. Content' = Content
    BY <2>1, ContentSame
  <2>3. pc[p] = "idle" /\ mail' = [mail EXCEPT ![p] = m] /\ (Goto(p, "wait") \/ Goto(p, "lock"))
    BY <1>4 DEF post, trypost
  <2>4. Gots' = Gots
    BY <1>1, <1>3, <2>3 DEF Gots
  <2>5. Offers[p] = NoTask /\ Offers' = [Offers EXCEPT ![p] = m]
    BY <1>1, <1>2, <2>3 DEF Offers, Goto
  <2>6. QED
    BY <2>2, <2>4, <2>5 DEF QueueOffer
<1>5. CASE post_wait(p) \/ post_lock(p) \/ post_store(p)
  <2>1. mail' = mail /\ Gots' = Gots
    BY <1>5 DEF post_wait, post_lock, post_store, Gots
  <2>2. Offers' = Offers
    <3>1. CASE pc' = pc
      BY <2>1, <3>1 DEF Offers
    <3>2. CASE pc[p] \in {"wait", "lock", "store"} /\ \E w \in {"lock", "store", "advance"} : Goto(p, w)
      BY <2>1, <3>2, <1>1, <1>2 DEF Offers, Goto
    <3>3. QED
      BY <1>5, <3>1, <3>2 DEF post_wait, post_lock, post_store
  <2>3. CASE post_store(p)
    BY <2>1, <2>2, <2>3, StoreBehind DEF QueueVars
  <2>4. CASE post_wait(p) \/ post_lock(p)
    <3>1. MailInv' /\ Filled' = Filled /\ rpos' = rpos /\ buffer' = buffer
      BY <2>4, PostWaitDoneInv, PostWaitBlocks, PostLockInv DEF post_wait, post_lock, ringVars
    <3>2. QED
      BY <2>1, <2>2, <3>1, ContentSame DEF QueueVars
  <2>5. QED
    BY <1>5, <2>3, <2>4
<1>6. CASE post_advance(p)
  <2>1. Content' = Append(Content, mail[p]) /\ Len(Content) < MAILBOX_SIZE
    BY <1>6, ContentAppend
  <2>2. pc[p] = "advance" /\ mail' = mail /\ Goto(p, "post")
    BY <1>6 DEF post_advance
  <2>3. Offers[p] = mail[p] /\ Offers' = [Offers EXCEPT ![p] = NoTask] /\ Gots' = Gots
    BY <2>2, <1>1, <1>2 DEF Offers, Gots, Goto
  <2>4. QED
    BY <1>2, <2>1, <2>3 DEF QueuePost
<1>7. CASE post_done(p)
  <2>1. MailInv' /\ Filled' = Filled /\ rpos' = rpos /\ buffer' = buffer
    BY <1>7, PostDoneInv DEF post_done, ringVars
  <2>2. pc[p] = "post" /\ mail' = [mail EXCEPT ![p] = Zero] /\ Goto(p, "idle")
    BY <1>7 DEF post_done
  <2>3. Offers' = Offers
    BY <2>2, <1>1, <1>2 DEF Offers, Goto
  <2>4. Gots' = Gots
    BY <2>2, <1>1, <1>3 DEF Gots
  <2>5. QED
    BY <2>1, <2>3, <2>4, ContentSame DEF QueueVars
<1>8. QED
  BY <1>4, <1>5, <1>6, <1>7 DEF PostStep

\* What the steps of a fetcher look like to the queue.
LEMMA FetcherImplements ==
  ASSUME MailInv, NEW f \in Fetchers, fetch(f) \/ tryfetch(f) \/ FetchStep(f)
  PROVE  QueueFetch(f) \/ UNCHANGED QueueVars
<1>1. mail \in [MailTasks -> Mails] /\ pc \in [MailTasks -> PosterPC \cup FetcherPC] /\ f \in MailTasks
  BY MailTyped
<1>2. \A p \in Posters : p \in MailTasks /\ p # f
  BY MailTyped
<1>3. ASSUME pc' = pc \/ \E w \in FetcherPC : Goto(f, w),
             \A p \in Posters : mail'[p] = mail[p]
      PROVE  Offers' = Offers
  <2>1. \A p \in Posters : pc'[p] = pc[p]
    BY <1>1, <1>2, <1>3 DEF Goto
  <2>2. QED
    BY <1>3, <2>1 DEF Offers
<1>4. CASE fetch_take(f)
  <2>1. Content # << >> /\ buffer[rpos] = Head(Content) /\ Content' = Tail(Content)
    BY <1>4, ContentTail
  <2>2. mail' = [mail EXCEPT ![f] = buffer[rpos]] /\ Goto(f, "post") /\ "post" \in FetcherPC
    BY <1>4 DEF fetch_take, FetcherPC
  <2>3. Offers' = Offers
    BY <1>1, <1>2, <1>3, <2>2
  <2>4. Gots' = [Gots EXCEPT ![f] = buffer[rpos]]
    <3>1. \A g \in Fetchers : g \in MailTasks
      BY DEF MailTasks
    <3>2. QED
      BY <1>1, <2>2, <3>1 DEF Gots
  <2>5. QED
    BY <2>1, <2>3, <2>4 DEF QueueFetch
<1>5. CASE fetch(f) \/ tryfetch(f) \/ fetch_wait(f) \/ fetch_lock(f) \/ fetch_done(f)
  <2>1. MailInv' /\ Filled' = Filled
    BY <1>5, FetchInv, TryfetchInv, FetchWaitDoneInv, FetchWaitBlocks, FetchLockInv, FetchDoneInv
  <2>2. rpos' = rpos /\ buffer' = buffer /\ mail' = mail /\ (pc' = pc \/ \E w \in FetcherPC : Goto(f, w))
    BY <1>5 DEF fetch, tryfetch, fetch_wait, fetch_lock, fetch_done, ringVars, FetcherPC
  <2>3. Offers' = Offers /\ Gots' = Gots
    BY <1>3, <2>2 DEF Gots
  <2>4. QED
    BY <2>1, <2>2, <2>3, ContentSame DEF QueueVars
<1>6. QED
  BY <1>4, <1>5 DEF FetchStep

\* A mailbox implements a bounded queue, whatever its size and the number of tasks at
\* either end: post_advance is where a mail enters the queue, fetch_take where it leaves.
THEOREM MailboxImplementsQueue == MailboxSpec => ImplementsQueue
<1>1. MailboxInit => Abstract!Init
  <2> SUFFICES ASSUME MailboxInit PROVE Abstract!Init
    OBVIOUS
  <2>1. MailInv /\ Filled = 0
    BY MailInitInv
  <2>2. Content = << >>
    BY <2>1, ContentIs DEF ContentRight
  <2>3. /\ Offers = [p \in Posters |-> NoTask]
        /\ Gots \in [Fetchers -> Mails]
    BY MailboxAssumption DEF MailboxInit, Offers, Gots, MailTasks
  <2>4. QED
    BY <2>2, <2>3 DEF Abstract!Init, Offers, Gots
<1>2. MailInv /\ [MailboxNext]_mailboxVars => [Abstract!Next]_QueueVars
  <2> SUFFICES ASSUME MailInv, [MailboxNext]_mailboxVars PROVE [Abstract!Next]_QueueVars
    OBVIOUS
  <2>1. ASSUME NEW p \in Posters, (\E m \in Mails : post(p, m) \/ trypost(p, m)) \/ PostStep(p)
        PROVE  [Abstract!Next]_QueueVars
    <3>1. ASSUME NEW m \in Mails, QueueOffer(p, m)
          PROVE  Abstract!Offer(p)
      BY <3>1 DEF QueueOffer, Abstract!Offer, Offers, Gots
    <3>2. CASE QueuePost(p)
      BY <3>2 DEF QueuePost, Abstract!Post, Abstract!Next, Offers, Gots
    <3>3. QED
      BY <2>1, <3>1, <3>2, PosterImplements DEF Abstract!Next
  <2>2. ASSUME NEW f \in Fetchers, fetch(f) \/ tryfetch(f) \/ FetchStep(f)
        PROVE  [Abstract!Next]_QueueVars
    <3>1. CASE QueueFetch(f)
      BY <3>1 DEF QueueFetch, Abstract!Fetch, Abstract!Next, Offers, Gots
    <3>2. QED
      BY <2>2, <3>1, FetcherImplements
  <2>3. CASE UNCHANGED mailboxVars
    BY <2>3 DEF mailboxVars, ringVars, semVars, QueueVars, Content, Filled, Offers, Gots
  <2>4. QED
    BY <2>1, <2>2, <2>3 DEF MailboxNext
<1>3. MailboxInit => MailInv
  BY MailInitInv
<1>4. MailInv /\ [MailboxNext]_mailboxVars => MailInv'
  BY MailNextInv
<1>5. QED
  BY <1>1, <1>2, <1>3, <1>4, PTL DEF MailboxSpec, ImplementsQueue, Abstract!Spec, QueueVars, Offers, Gots

-----------------------------------------------------------------------------
(***************************************************************************)
(* Uart.                                                                   *)
(***************************************************************************)
\* How many numbers there are up to n.
LEMMA FirstNumbers ==
  ASSUME NEW n \in Nat
  PROVE  IsFiniteSet(1..n) /\ Cardinality(1..n) = n
<1>1. \A a, b \in Int : IsFiniteSet(a..b) /\ Cardinality(a..b) = IF a > b THEN 0 ELSE b - a + 1
  BY FS_Interval, Zenon
<1>2. QED
  BY <1>1

\* A shifted set has as many elements.
LEMMA ShiftCount ==
  ASSUME NEW n \in Nat, NEW S \in SUBSET (1..n)
  PROVE  /\ IsFiniteSet({i + 1 : i \in S}) /\ IsFiniteSet(S)
         /\ Cardinality({i + 1 : i \in S}) = Cardinality(S)
<1> DEFINE T == {i + 1 : i \in S}
           f == [i \in S |-> i + 1]
<1>1. IsFiniteSet(S)
  BY FirstNumbers, FS_Subset
<1>2. f \in Bijection(S, T)
  BY DEF Bijection, Injection, Surjection, IsInjective
<1>3. QED
  BY <1>1, <1>2, FS_Bijection DEF ExistsBijection

\* The places of the good characters in a mailbox.
GoodPlaces(s) == {i \in 1..Len(s) : Good(s[i])}

\* The number of good characters is a number, and zero in an empty mailbox.
LEMMA GoodType ==
  ASSUME NEW s \in Seq(Chars)
  PROVE  IsFiniteSet(GoodPlaces(s)) /\ GoodIn(s) \in Nat /\ GoodPlaces(s) \in SUBSET (1..Len(s)) /\ Len(s) \in Nat
<1>1. GoodPlaces(s) \in SUBSET (1..Len(s)) /\ Len(s) \in Nat
  BY DEF GoodPlaces
<1>2. IsFiniteSet(GoodPlaces(s))
  BY <1>1, ShiftCount
<1>3. GoodIn(s) \in Nat
  BY <1>2, FS_CardinalityType DEF GoodIn, GoodPlaces
<1>4. QED
  BY <1>1, <1>2, <1>3

\* A character that is appended counts if it is good.
LEMMA GoodAppend ==
  ASSUME NEW s \in Seq(Chars), NEW x \in Chars
  PROVE  GoodIn(Append(s, x)) = GoodIn(s) + One(Good(x))
<1> DEFINE S == GoodPlaces(s)
           t == Append(s, x)
           n == Len(s) + 1
<1>1. IsFiniteSet(S) /\ S \in SUBSET (1..Len(s)) /\ Len(s) \in Nat /\ GoodIn(s) \in Nat
  BY GoodType
<1>2. Len(t) = n /\ t[n] = x /\ \A i \in 1..Len(s) : t[i] = s[i]
  OBVIOUS
<1>3. GoodPlaces(t) = IF Good(x) THEN S \cup {n} ELSE S
  <2>1. 1..n = (1..Len(s)) \cup {n}
    BY <1>1
  <2> HIDE DEF t
  <2>2. QED
    BY <1>2, <2>1 DEF GoodPlaces
<1>4. n \notin S
  BY <1>1
<1> HIDE DEF n
<1>5. Cardinality(S \cup {n}) = Cardinality(S) + 1
  BY <1>1, <1>4, FS_AddElement
<1>6. GoodIn(t) = Cardinality(GoodPlaces(t)) /\ GoodIn(s) = Cardinality(S)
  BY DEF GoodIn, GoodPlaces
<1> HIDE DEF S, t
<1>7. GoodIn(t) = GoodIn(s) + One(Good(x))
  BY <1>1, <1>3, <1>5, <1>6 DEF One
<1>8. QED
  BY <1>7 DEF t

\* A character that is taken from the front no longer counts.
LEMMA GoodTail ==
  ASSUME NEW s \in Seq(Chars), s # << >>
  PROVE  /\ Tail(s) \in Seq(Chars) /\ Head(s) \in Chars /\ Len(Tail(s)) = Len(s) - 1
         /\ GoodIn(s) = GoodIn(Tail(s)) + One(Good(Head(s)))
<1> DEFINE t == Tail(s)
           T == GoodPlaces(t)
           S == {i + 1 : i \in T}
<1>1. /\ t \in Seq(Chars) /\ Head(s) \in Chars /\ Len(t) = Len(s) - 1 /\ Len(s) \in Nat \ {0} /\ Head(s) = s[1]
      /\ \A i \in 1..Len(t) : t[i] = s[i + 1]
  OBVIOUS
<1> HIDE DEF t
<1>2. T \in SUBSET (1..Len(t)) /\ Len(t) \in Nat /\ GoodIn(t) \in Nat
  BY <1>1, GoodType
<1>3. IsFiniteSet(S) /\ Cardinality(S) = Cardinality(T)
  BY <1>2, ShiftCount
<1>4. GoodPlaces(s) = IF Good(s[1]) THEN S \cup {1} ELSE S
  <2>1. 1..Len(s) = {1} \cup {i + 1 : i \in 1..Len(t)}
    <3>1. \A k \in 1..Len(s) : k = 1 \/ (k - 1 \in 1..Len(t) /\ k = (k - 1) + 1)
      BY <1>1
    <3>2. \A i \in 1..Len(t) : i + 1 \in 1..Len(s)
      BY <1>1
    <3>3. 1 \in 1..Len(s)
      BY <1>1
    <3>4. QED
      BY <3>1, <3>2, <3>3
  <2>2. \A k \in 1..Len(s) : Good(s[k]) => (k = 1 \/ k \in S)
    BY <1>1, <2>1 DEF GoodPlaces
  <2>3. \A k \in S : k \in 1..Len(s) /\ Good(s[k])
    BY <1>1, <2>1 DEF GoodPlaces
  <2>4. 1 \notin S /\ 1 \in 1..Len(s)
    BY <1>1, <1>2
  <2> HIDE DEF S, T
  <2>5. QED
    BY <2>2, <2>3, <2>4 DEF GoodPlaces
<1>5. 1 \notin S
  BY <1>2
<1> HIDE DEF S, T
<1>6. Cardinality(S \cup {1}) = Cardinality(S) + 1
  BY <1>3, <1>5, FS_AddElement
<1>7. GoodIn(s) = Cardinality(GoodPlaces(s)) /\ GoodIn(t) = Cardinality(T)
  BY DEF GoodIn, GoodPlaces, T
<1>8. GoodIn(s) = GoodIn(t) + One(Good(s[1]))
  BY <1>2, <1>3, <1>4, <1>6, <1>7 DEF One
<1>9. QED
  BY <1>1, <1>8 DEF t

-----------------------------------------------------------------------------
\* The statuses of a task.
Statuses == {"RUNNING", "READY", "BLOCKED", "IDLE"}

\* What the scheduler does: a ready uart_thread gets the processor, the task that
\* gets it can run, and the one that loses it stays ready.
LEMMA Rescheduled ==
  ASSUME NEW st \in [Tasks -> Statuses], current_task \in Tasks, Reschedule(st),
         st[Idle] = "IDLE", st[App] # "IDLE", st[Thread] # "IDLE",
         \A t \in Tasks : st[t] = "RUNNING" => t = current_task
  PROVE  /\ current_task' \in Tasks /\ status' \in [Tasks -> Statuses]
         /\ status'[Idle] = "IDLE"
         /\ \A t \in {App, Thread} :
              status'[t] = CASE t = current_task' -> "RUNNING"
                             [] t # current_task' /\ st[t] = "RUNNING" -> "READY"
                             [] OTHER -> st[t]
         /\ current_task' # Idle => st[current_task'] \in {"READY", "RUNNING"}
         /\ st[Thread] = "READY" \/ (current_task = Thread /\ st[Thread] = "RUNNING") => current_task' = Thread
<1> DEFINE ready == {t \in Tasks : st[t] = "READY"}
           best == CHOOSE t \in ready : \A u \in ready : u <= t
<1>1. Tasks = {0, 1, 2} /\ Idle = 0 /\ App = 1 /\ Thread = 2
  BY DEF Tasks, Idle, App, Thread
<1>2. /\ st[2] = "READY" => ready # {} /\ best = 2
      /\ st[2] # "READY" /\ st[1] = "READY" => ready # {} /\ best = 1
      /\ st[2] # "READY" /\ st[1] # "READY" => ready = {}
  <2>1. CASE st[2] = "READY"
    BY <1>1, <2>1
  <2>2. CASE st[2] # "READY" /\ st[1] = "READY"
    BY <1>1, <2>2
  <2>3. CASE st[2] # "READY" /\ st[1] # "READY"
    BY <1>1, <2>3
  <2>4. QED
    BY <2>1, <2>2, <2>3
<1>3. Chosen(st) = CASE ready = {} -> IF st[current_task] = "BLOCKED" THEN Idle ELSE current_task
                     [] ready # {} /\ st[current_task] = "RUNNING" /\ best < current_task -> current_task
                     [] OTHER -> best
  BY DEF Chosen
<1> HIDE DEF ready, best
<1>4. Chosen(st) = CASE st[2] = "READY" \/ (current_task = 2 /\ st[2] = "RUNNING") -> 2
                     [] ~(st[2] = "READY" \/ (current_task = 2 /\ st[2] = "RUNNING")) /\ st[1] = "READY" -> 1
                     [] OTHER -> IF st[current_task] = "BLOCKED" THEN 0 ELSE current_task
  BY <1>1, <1>2, <1>3
<1>5. current_task' = Chosen(st)
      /\ status' = LET left == IF Chosen(st) # current_task /\ st[current_task] = "RUNNING"
                               THEN [st EXCEPT ![current_task] = "READY"] ELSE st
                   IN  IF Chosen(st) = Idle THEN left ELSE [left EXCEPT ![Chosen(st)] = "RUNNING"]
  BY DEF Reschedule
<1> DEFINE n == Chosen(st)
<1>6. n \in Tasks /\ (n # 0 => st[n] \in {"READY", "RUNNING"})
  BY <1>1, <1>4 DEF Statuses
<1> HIDE DEF n
<1>7. status' \in [Tasks -> Statuses] /\ status'[0] = "IDLE"
      /\ \A t \in {1, 2} : status'[t] = CASE t = n -> "RUNNING"
                             [] t # n /\ st[t] = "RUNNING" -> "READY"
                             [] OTHER -> st[t]
  BY <1>1, <1>5, <1>6 DEF Statuses, n
<1>8. QED
  BY <1>1, <1>4, <1>5, <1>6, <1>7 DEF n

-----------------------------------------------------------------------------
\* A stack that is not the current task's stopped in the middle of a post.
StacksRight ==
  /\ OneHandler
  /\ \A t \in Tasks : hpc[t] # "none" /\ t # current_task => hpc[t] = "post"

\* The current task is the running one, except for uart_thread between blocking
\* and reschedule.
StatusesRight ==
  /\ status[Idle] = "IDLE" /\ status[App] # "IDLE" /\ status[Thread] # "IDLE"
  /\ \A t \in {App, Thread} : t # current_task => status[t] # "RUNNING"
  /\ current_task = App => status[App] = "RUNNING"
  /\ current_task = Thread => status[Thread] = "RUNNING" \/ tpc = "resched"

\* Every box is empty, full or just emptied.
BoxesCounted ==
  /\ Len(box) = mail_sem
  /\ box_sem + mail_sem + One(tpc = "release") = UART_MAILBOX_SIZE

\* uart_thread is blocked, and not in the handler of an interrupt that hit it.
WaitsForMail == status[Thread] = "BLOCKED" /\ (hpc[Thread] = "post" => current_task = Thread)

\* uart_thread is in the queue of mail_sem exactly while it waits for a mail.
MailQueueRight ==
  IF mailqueue = << >> THEN ~WaitsForMail
  ELSE /\ mailqueue = <<Thread>> /\ WaitsForMail
       /\ mail_sem = 0 /\ tpc \in {"fetch", "resched"}

\* Somebody is in the queue of box_sem only while there is no box: uart_thread
\* itself, or a task that waits for it while it has the processor.
BoxQueueRight ==
  /\ boxqueue # << >> =>
       /\ box_sem = 0
       /\ \/ hpc[Thread] = "post"
          \/ current_task = Thread /\ \E t \in {Idle, App} : hpc[t] = "post" /\ boxqueue = <<t>>
  /\ \A t \in Tasks \ {current_task} : hpc[t] = "post" /\ status[t] = "BLOCKED" => boxqueue # << >>
  /\ hpc[Thread] = "post" /\ current_task # Thread => status[Thread] = "BLOCKED"

UartInv ==
  /\ UartTypeOK /\ StacksRight /\ StatusesRight /\ BoxesCounted
  /\ MailQueueRight /\ BoxQueueRight /\ CharsConserved

\* The three tasks.
LEMMA ThreeTasks ==
  /\ Tasks = {Idle, App, Thread} /\ Idle \in Tasks /\ App \in Tasks /\ Thread \in Tasks
  /\ Idle # App /\ Idle # Thread /\ App # Thread /\ {Idle, App, Thread} \subseteq Nat
  /\ Idle < App /\ App < Thread
BY DEF Tasks, Idle, App, Thread

\* Without a box uart_thread does not wait for a mail: it is going to run.
LEMMA NoBoxNoWait ==
  ASSUME UartInv, box_sem = 0
  PROVE  mailqueue = << >> /\ ~WaitsForMail
<1>1. mail_sem + One(tpc = "release") = UART_MAILBOX_SIZE /\ UART_MAILBOX_SIZE \in Nat \ {0} /\ mail_sem \in Nat
  BY UartAssumption DEF UartInv, BoxesCounted, UartTypeOK
<1>2. mail_sem = 0 => tpc = "release"
  BY <1>1 DEF One
<1>3. QED
  BY <1>2 DEF UartInv, MailQueueRight

\* A good character is in the hands of the handler, or of uart_thread.
PostsGood == \E t \in Tasks : hpc[t] = "post" /\ Good(c)
HoldsGood == tpc \in {"release", "print"} /\ Good(ch)

\* The terms of the balance of characters.
LEMMA BalanceTerms ==
  ASSUME UartInv
  PROVE  /\ received = printed + rx + One(PostsGood) + GoodIn(box) + One(HoldsGood)
         /\ received \in Nat /\ printed \in Nat /\ rx \in Nat /\ received <= MaxChars /\ MaxChars \in Nat
         /\ GoodIn(box) \in Nat /\ One(PostsGood) \in {0, 1} /\ One(HoldsGood) \in {0, 1}
<1>1. GoodIn(box) \in Nat /\ received \in 0..MaxChars /\ printed \in 0..MaxChars /\ rx \in 0..FIFO
  BY GoodType DEF UartInv, UartTypeOK
<1>2. received = printed + rx + One(PostsGood) + GoodIn(box) + One(HoldsGood)
  BY DEF UartInv, CharsConserved, PostsGood, HoldsGood
<1>3. QED
  BY <1>1, <1>2, UartAssumption DEF One

\* The characters are conserved by a step if the terms of the balance are.
LEMMA BalanceKept ==
  ASSUME received' = printed' + rx' + One(PostsGood') + GoodIn(box') + One(HoldsGood')
  PROVE  CharsConserved'
BY DEF CharsConserved, PostsGood, HoldsGood

\* Steps of the device.
LEMMA DeviceStep ==
  ASSUME UartInv, receive \/ line_error
  PROVE  UartInv'
<1>1. UartTypeOK /\ MaxChars \in Nat /\ FIFO \in Nat /\ received \in Nat /\ rx \in Nat
  BY UartAssumption DEF UartInv, UartTypeOK
<1>2. /\ UNCHANGED <<printed, thri, inservice, current_task, status, hpc, c, tpc, ch>>
      /\ UNCHANGED <<box, box_sem, mail_sem, boxqueue, mailqueue>>
  BY DEF receive, line_error, charVars, devVars, mailVars
<1>3. received' \in 0..MaxChars /\ rx' \in 0..FIFO /\ line' \in BOOLEAN /\ received' - received = rx' - rx
  <2>1. CASE receive
    BY <1>1, <2>1 DEF receive, UartTypeOK
  <2>2. CASE line_error
    BY <1>1, <2>2 DEF line_error, UartTypeOK, charVars
  <2>3. QED
    BY <2>1, <2>2
<1>4. CharsConserved'
  <2>1. UNCHANGED <<PostsGood, HoldsGood>>
    BY <1>2 DEF PostsGood, HoldsGood
  <2>2. QED
    BY <1>1, <1>2, <1>3, <2>1, BalanceTerms, BalanceKept
<1>5. UartTypeOK'
  BY <1>1, <1>2, <1>3 DEF UartTypeOK
<1>6. StacksRight' /\ StatusesRight' /\ BoxesCounted' /\ MailQueueRight' /\ BoxQueueRight'
  BY <1>2 DEF UartInv, StacksRight, OneHandler, StatusesRight, BoxesCounted, MailQueueRight, WaitsForMail, BoxQueueRight
<1>7. QED
  BY <1>4, <1>5, <1>6 DEF UartInv

\* What a step that only schedules, or moves the handler between loop and none, has to
\* keep.
LEMMA BalanceSame ==
  ASSUME UartInv, UNCHANGED <<received, printed, rx, box, ch, c>>,
         \A t \in Tasks : hpc'[t] = "post" <=> hpc[t] = "post",
         tpc' \in {"release", "print"} <=> tpc \in {"release", "print"}
  PROVE  CharsConserved'
<1>1. (PostsGood' <=> PostsGood) /\ (HoldsGood' <=> HoldsGood)
  BY DEF PostsGood, HoldsGood
<1>2. One(PostsGood') = One(PostsGood) /\ One(HoldsGood') = One(HoldsGood)
  BY <1>1 DEF One
<1>3. QED
  BY <1>2, BalanceTerms, BalanceKept

\* The other task goes to sleep.
LEMMA SleepStep ==
  ASSUME UartInv, app_sleep
  PROVE  UartInv'
<1> DEFINE st == Block(App, status)
<1>1. /\ UNCHANGED <<received, printed, rx, thri, line, inservice, hpc, c, tpc, ch>>
      /\ UNCHANGED <<box, box_sem, mail_sem, boxqueue, mailqueue>>
      /\ current_task = App /\ hpc[App] = "none" /\ Reschedule(st)
  BY DEF app_sleep, charVars, devVars, mailVars
<1>2. UartTypeOK /\ StacksRight /\ StatusesRight /\ BoxesCounted /\ MailQueueRight /\ BoxQueueRight
  BY DEF UartInv
<1>3. st \in [Tasks -> Statuses] /\ st[Idle] = "IDLE" /\ st[App] = "BLOCKED" /\ st[Thread] = status[Thread]
      /\ status[Thread] \in {"READY", "BLOCKED"}
  BY <1>1, <1>2, ThreeTasks DEF Block, UartTypeOK, StatusesRight, Statuses
<1> HIDE DEF st
<1>4. /\ current_task' \in Tasks /\ status' \in [Tasks -> Statuses] /\ status'[Idle] = "IDLE"
      /\ status'[App] = "BLOCKED" /\ current_task' # App
      /\ status'[Thread] = IF current_task' = Thread THEN "RUNNING" ELSE status[Thread]
      /\ current_task' = Thread <=> status[Thread] = "READY"
  BY <1>1, <1>3, Rescheduled, ThreeTasks DEF Statuses
<1>5. UartTypeOK'
  BY <1>1, <1>2, <1>4 DEF UartTypeOK, Statuses
<1>6. StacksRight'
  BY <1>1, <1>2, <1>4, ThreeTasks DEF StacksRight, OneHandler
<1>7. StatusesRight' /\ BoxesCounted'
  BY <1>1, <1>2, <1>3, <1>4, ThreeTasks DEF StatusesRight, BoxesCounted
<1>8. MailQueueRight'
  BY <1>1, <1>2, <1>3, <1>4, ThreeTasks DEF MailQueueRight, WaitsForMail
<1>9. BoxQueueRight'
  BY <1>1, <1>2, <1>3, <1>4, ThreeTasks DEF BoxQueueRight
<1>10. CharsConserved'
  BY <1>1, BalanceSame
<1>11. QED
  BY <1>5, <1>6, <1>7, <1>8, <1>9, <1>10 DEF UartInv

\* The other task is woken, and gets the processor from the idle task.
LEMMA AppWakeStep ==
  ASSUME UartInv, app_wake
  PROVE  UartInv'
<1> DEFINE st == Wake(App, status)
<1>1. /\ UNCHANGED <<received, printed, rx, thri, line, inservice, hpc, c, tpc, ch>>
      /\ UNCHANGED <<box, box_sem, mail_sem, boxqueue, mailqueue>>
      /\ status[App] = "BLOCKED" /\ hpc[App] = "none"
      /\ App > current_task => Reschedule(st)
      /\ ~(App > current_task) => status' = st /\ current_task' = current_task
  BY DEF app_wake, charVars, devVars, mailVars
<1>2. UartTypeOK /\ StacksRight /\ StatusesRight /\ BoxesCounted /\ MailQueueRight /\ BoxQueueRight
  BY DEF UartInv
<1>3. st \in [Tasks -> Statuses] /\ st[Idle] = "IDLE" /\ st[App] = "READY" /\ st[Thread] = status[Thread]
      /\ status[Thread] # "IDLE" /\ current_task \in {Idle, Thread}
  BY <1>1, <1>2, ThreeTasks DEF Wake, UartTypeOK, StatusesRight, Statuses
<1> HIDE DEF st
<1>4. /\ current_task' \in Tasks /\ status' \in [Tasks -> Statuses] /\ status'[Idle] = "IDLE"
      /\ status'[App] = IF current_task' = App THEN "RUNNING" ELSE "READY"
      /\ current_task = Thread => current_task' = Thread /\ status'[Thread] = status[Thread]
      /\ current_task = Idle => /\ current_task' = Thread <=> status[Thread] = "READY"
                                /\ status'[Thread] = IF current_task' = Thread THEN "RUNNING" ELSE status[Thread]
  <2>1. CASE current_task = Thread
    BY <1>1, <1>3, <2>1, ThreeTasks
  <2>2. CASE current_task = Idle
    <3>1. App > current_task /\ status[Thread] # "RUNNING"
      BY <1>2, <2>2, ThreeTasks DEF StatusesRight
    <3>2. QED
      BY <1>1, <1>3, <2>2, <3>1, Rescheduled, ThreeTasks DEF Statuses
  <2>3. QED
    BY <1>3, <2>1, <2>2
<1>5. UartTypeOK'
  BY <1>1, <1>2, <1>4 DEF UartTypeOK, Statuses
<1>6. StacksRight'
  <2>1. hpc[current_task] = "none"
    BY DEF app_wake
  <2>2. QED
    BY <1>1, <1>2, <1>4, <2>1, ThreeTasks DEF StacksRight, OneHandler
<1>7. StatusesRight' /\ BoxesCounted'
  BY <1>1, <1>2, <1>3, <1>4, ThreeTasks DEF StatusesRight, BoxesCounted
<1>8. MailQueueRight'
  <2>1. WaitsForMail' <=> WaitsForMail
    BY <1>1, <1>2, <1>3, <1>4, ThreeTasks DEF WaitsForMail, StatusesRight, BoxQueueRight
  <2>2. QED
    BY <1>1, <1>2, <2>1 DEF MailQueueRight
<1>9. BoxQueueRight'
  BY <1>1, <1>2, <1>3, <1>4, ThreeTasks DEF BoxQueueRight
<1>10. CharsConserved'
  BY <1>1, BalanceSame
<1>11. QED
  BY <1>5, <1>6, <1>7, <1>8, <1>9, <1>10 DEF UartInv

\* The interrupt is taken: nobody is in the handler, which has not ended it.
LEMMA IrqStep ==
  ASSUME UartInv, uart_irq
  PROVE  UartInv'
<1>1. /\ UNCHANGED <<received, printed, rx, thri, line, current_task, status, c, tpc, ch>>
      /\ UNCHANGED <<box, box_sem, mail_sem, boxqueue, mailqueue>>
      /\ hpc[current_task] = "none" /\ inservice = FALSE /\ inservice' = TRUE
      /\ hpc' = [hpc EXCEPT ![current_task] = "loop"]
  BY DEF uart_irq, charVars, devVars, mailVars, UartInv, UartTypeOK
<1>2. UartTypeOK /\ StacksRight /\ StatusesRight /\ BoxesCounted /\ MailQueueRight /\ BoxQueueRight
  BY DEF UartInv
<1>3. \A t \in Tasks : hpc[t] = "none" /\ hpc'[t] = IF t = current_task THEN "loop" ELSE "none"
  BY <1>1, <1>2 DEF StacksRight, OneHandler, UartTypeOK
<1>4. UartTypeOK'
  BY <1>1, <1>2 DEF UartTypeOK
<1>5. StacksRight'
  BY <1>1, <1>2, <1>3 DEF StacksRight, OneHandler, UartTypeOK
<1>6. StatusesRight' /\ BoxesCounted'
  BY <1>1, <1>2 DEF StatusesRight, BoxesCounted
<1>7. MailQueueRight' /\ BoxQueueRight'
  BY <1>1, <1>2, <1>3, ThreeTasks DEF MailQueueRight, WaitsForMail, BoxQueueRight
<1>8. CharsConserved'
  BY <1>1, <1>3, BalanceSame
<1>9. QED
  BY <1>4, <1>5, <1>6, <1>7, <1>8 DEF UartInv

\* The handler ends, and a task of higher priority gets the processor.
LEMMA HandleNoneStep ==
  ASSUME UartInv, handle_none
  PROVE  UartInv'
<1>1. /\ UNCHANGED <<received, printed, rx, thri, line, c, tpc, ch>>
      /\ UNCHANGED <<box, box_sem, mail_sem, boxqueue, mailqueue>>
      /\ hpc[current_task] = "loop" /\ inservice' = FALSE
      /\ hpc' = [hpc EXCEPT ![current_task] = "none"]
      /\ IF \E t \in Tasks : status[t] = "READY" /\ t > current_task
         THEN Reschedule(status) ELSE current_task' = current_task /\ status' = status
  BY DEF handle_none, InLoop, charVars, devVars, mailVars
<1>2. UartTypeOK /\ StacksRight /\ StatusesRight /\ BoxesCounted /\ MailQueueRight /\ BoxQueueRight
  BY DEF UartInv
<1>3. /\ \A t \in Tasks : t # current_task => hpc[t] = "none"
      /\ \A t \in Tasks : hpc'[t] = "none"
  BY <1>1, <1>2 DEF StacksRight, OneHandler, UartTypeOK
<1>4. /\ current_task' \in Tasks /\ status' \in [Tasks -> Statuses] /\ StatusesRight'
      /\ status'[Thread] = "BLOCKED" <=> status[Thread] = "BLOCKED"
  <2>1. CASE \E t \in Tasks : status[t] = "READY" /\ t > current_task
    <3>1. current_task # Thread /\ (status[Thread] = "READY" \/ (status[App] = "READY" /\ current_task = Idle))
      <4>1. PICK t \in Tasks : status[t] = "READY" /\ t > current_task
        BY <2>1
      <4>2. t # Idle /\ current_task \in Tasks
        BY <1>2, <4>1 DEF StatusesRight, UartTypeOK
      <4>3. CASE t = App
        <5>1. current_task = Idle
          BY <4>1, <4>2, <4>3, ThreeTasks DEF Tasks, Idle, App, Thread
        <5>2. QED
          BY <4>1, <4>3, <5>1, ThreeTasks
      <4>4. CASE t = Thread
        BY <4>1, <4>4, ThreeTasks
      <4>5. QED
        BY <4>2, <4>3, <4>4, ThreeTasks
    <3>2. Reschedule(status) /\ status \in [Tasks -> Statuses] /\ current_task \in Tasks
      BY <1>1, <1>2, <2>1 DEF UartTypeOK, Statuses
    <3>3. \A t \in Tasks : status[t] = "RUNNING" => t = current_task
      BY <1>2, ThreeTasks DEF StatusesRight
    <3>4. /\ current_task' \in Tasks /\ status' \in [Tasks -> Statuses]
          /\ status'[Idle] = "IDLE"
          /\ \A t \in {App, Thread} :
               status'[t] = CASE t = current_task' -> "RUNNING"
                              [] t # current_task' /\ status[t] = "RUNNING" -> "READY"
                              [] OTHER -> status[t]
          /\ current_task' # Idle => status[current_task'] \in {"READY", "RUNNING"}
      BY <1>2, <3>2, <3>3, Rescheduled DEF StatusesRight
    <3>5. QED
      BY <1>2, <3>1, <3>3, <3>4, ThreeTasks DEF StatusesRight, Statuses
  <2>2. CASE ~\E t \in Tasks : status[t] = "READY" /\ t > current_task
    BY <1>1, <1>2, <2>2 DEF StatusesRight, UartTypeOK, Statuses
  <2>3. QED
    BY <2>1, <2>2
<1>5. UartTypeOK'
  BY <1>1, <1>2, <1>4 DEF UartTypeOK, Statuses
<1>6. StacksRight' /\ BoxesCounted'
  BY <1>1, <1>2, <1>3 DEF StacksRight, OneHandler, BoxesCounted
<1>7. MailQueueRight' /\ BoxQueueRight'
  BY <1>1, <1>2, <1>3, <1>4, ThreeTasks DEF MailQueueRight, WaitsForMail, BoxQueueRight
<1>8. CharsConserved'
  BY <1>1, <1>3, BalanceSame
<1>9. QED
  BY <1>4, <1>5, <1>6, <1>7, <1>8 DEF UartInv

\* The handler takes a character from the device.
LEMMA HandleRdiStep ==
  ASSUME UartInv, handle_rdi
  PROVE  UartInv'
<1>1. /\ UNCHANGED <<received, printed, thri, line, inservice, current_task, status, tpc, ch>>
      /\ UNCHANGED <<box, box_sem, mail_sem, boxqueue, mailqueue>>
      /\ hpc[current_task] = "loop"
      /\ hpc' = [hpc EXCEPT ![current_task] = "post"]
      /\ c' = (IF rx > 0 THEN "good" ELSE "junk") /\ rx' = IF rx > 0 THEN rx - 1 ELSE 0
  BY DEF handle_rdi, InLoop, charVars, devVars, mailVars
<1>2. UartTypeOK /\ StacksRight /\ StatusesRight /\ BoxesCounted /\ MailQueueRight /\ BoxQueueRight
      /\ FIFO \in Nat /\ rx \in 0..FIFO /\ current_task \in Tasks
  BY UartAssumption DEF UartInv, UartTypeOK
<1>3. \A t \in Tasks : (t # current_task => hpc[t] = "none") /\ hpc'[t] = IF t = current_task THEN "post" ELSE "none"
  BY <1>1, <1>2 DEF StacksRight, OneHandler, UartTypeOK
<1>4. UartTypeOK'
  <2>1. c' \in Chars /\ rx' \in 0..FIFO
    BY <1>1, <1>2 DEF Chars
  <2>2. hpc' \in [Tasks -> {"none", "loop", "post"}]
    BY <1>1, <1>2 DEF UartTypeOK
  <2>3. QED
    BY <1>1, <1>2, <2>1, <2>2 DEF UartTypeOK
<1>5. StacksRight'
  <2>1. inservice = TRUE
    BY <1>1, <1>2 DEF StacksRight, OneHandler
  <2>2. \E t \in Tasks : hpc'[t] # "none"
    BY <1>2, <1>3
  <2>3. QED
    BY <1>1, <1>3, <2>1, <2>2 DEF StacksRight, OneHandler
<1>6. StatusesRight' /\ BoxesCounted'
  BY <1>1, <1>2 DEF StatusesRight, BoxesCounted
<1>7. MailQueueRight' /\ BoxQueueRight'
  BY <1>1, <1>2, <1>3, ThreeTasks DEF MailQueueRight, WaitsForMail, BoxQueueRight
<1>8. CharsConserved'
  <2>1. PostsGood = FALSE /\ (PostsGood' <=> rx > 0) /\ (HoldsGood' <=> HoldsGood)
    BY <1>1, <1>2, <1>3 DEF PostsGood, HoldsGood, Good
  <2>2. One(PostsGood) = 0 /\ One(PostsGood') = (IF rx > 0 THEN 1 ELSE 0) /\ One(HoldsGood') = One(HoldsGood)
    BY <2>1 DEF One
  <2>3. QED
    BY <1>1, <1>2, <2>2, BalanceTerms, BalanceKept
<1>9. QED
  BY <1>4, <1>5, <1>6, <1>7, <1>8 DEF UartInv

\* The transmitter's interrupt is acknowledged.
LEMMA HandleThriStep ==
  ASSUME UartInv, handle_thri
  PROVE  UartInv'
<1>1. /\ UNCHANGED <<received, printed, rx, line, inservice, current_task, status, hpc, c, tpc, ch>>
      /\ UNCHANGED <<box, box_sem, mail_sem, boxqueue, mailqueue>> /\ thri' = FALSE
  BY DEF handle_thri, charVars, devVars, mailVars
<1>2. UartTypeOK'
  BY <1>1 DEF UartInv, UartTypeOK
<1>3. StacksRight' /\ StatusesRight' /\ BoxesCounted' /\ MailQueueRight' /\ BoxQueueRight'
  BY <1>1 DEF UartInv, StacksRight, OneHandler, StatusesRight, BoxesCounted, MailQueueRight, WaitsForMail, BoxQueueRight
<1>4. CharsConserved'
  BY <1>1, BalanceSame
<1>5. QED
  BY <1>2, <1>3, <1>4 DEF UartInv

\* The handler posts its character: a waiting uart_thread is woken.
LEMMA UartPostStep ==
  ASSUME UartInv, handle_post, box_sem > 0
  PROVE  UartInv'
<1>1. /\ UNCHANGED <<received, printed, rx, thri, line, inservice, current_task, c, tpc, ch, boxqueue>>
      /\ hpc[current_task] = "post"
      /\ hpc' = [hpc EXCEPT ![current_task] = "loop"]
      /\ box_sem' = box_sem - 1 /\ mail_sem' = mail_sem + 1 /\ box' = Append(box, c)
      /\ status' = PostWakes(mail_sem, mailqueue, status)
      /\ mailqueue' = PostDequeues(mail_sem, mailqueue)
  BY DEF handle_post, HasBox, PostEOI, charVars, devVars
<1>2. UartTypeOK /\ StacksRight /\ StatusesRight /\ BoxesCounted /\ MailQueueRight /\ BoxQueueRight
      /\ current_task \in Tasks /\ box \in Seq(Chars) /\ c \in Chars
      /\ box_sem \in 0..UART_MAILBOX_SIZE /\ mail_sem \in 0..UART_MAILBOX_SIZE /\ UART_MAILBOX_SIZE \in Nat
  BY UartAssumption DEF UartInv, UartTypeOK
<1>3. \A t \in Tasks : (t # current_task => hpc[t] = "none") /\ hpc'[t] = IF t = current_task THEN "loop" ELSE "none"
  BY <1>1, <1>2 DEF StacksRight, OneHandler, UartTypeOK
<1>4. boxqueue = << >>
  BY <1>2 DEF BoxQueueRight
<1>5. BoxesCounted' /\ box' \in Seq(Chars) /\ Len(box') <= UART_MAILBOX_SIZE
      /\ box_sem' \in 0..UART_MAILBOX_SIZE /\ mail_sem' \in 0..UART_MAILBOX_SIZE /\ mail_sem' # 0
  <2>1. Len(box') = Len(box) + 1 /\ box' \in Seq(Chars)
    BY <1>1, <1>2
  <2>2. One(tpc = "release") \in {0, 1} /\ (tpc' = "release" <=> tpc = "release")
    BY <1>1 DEF One
  <2>3. QED
    BY <1>1, <1>2, <2>1, <2>2 DEF BoxesCounted
<1>6. /\ mailqueue' = << >> /\ status' \in [Tasks -> Statuses]
      /\ IF mailqueue = << >> THEN status' = status /\ ~WaitsForMail
         ELSE status' = [status EXCEPT ![Thread] = "READY"] /\ status[Thread] = "BLOCKED"
  <2>1. CASE mailqueue = << >>
    BY <1>1, <1>2, <2>1 DEF PostWakes, PostDequeues, UartTypeOK, Statuses, MailQueueRight
  <2>2. CASE mailqueue # << >>
    <3>1. mail_sem = 0 /\ mailqueue = <<Thread>> /\ status[Thread] = "BLOCKED"
      BY <1>2, <2>2 DEF MailQueueRight, WaitsForMail
    <3>2. Head(mailqueue) = Thread /\ Tail(mailqueue) = << >>
      BY <3>1
    <3>3. QED
      BY <1>1, <1>2, <2>2, <3>1, <3>2 DEF PostWakes, PostDequeues, Wake, UartTypeOK, Statuses
  <2>3. QED
    BY <2>1, <2>2
<1>7. UartTypeOK'
  <2>1. hpc' \in [Tasks -> {"none", "loop", "post"}]
    BY <1>1, <1>2 DEF UartTypeOK
  <2>2. boxqueue' \in Seq(Tasks) /\ mailqueue' \in Seq(Tasks)
    BY <1>1, <1>4, <1>6
  <2>3. QED
    BY <1>1, <1>2, <1>5, <1>6, <2>1, <2>2 DEF UartTypeOK, Statuses
<1>8. StacksRight'
  <2>1. inservice = TRUE
    BY <1>1, <1>2 DEF StacksRight, OneHandler
  <2>2. \E t \in Tasks : hpc'[t] # "none"
    BY <1>2, <1>3
  <2>3. QED
    BY <1>1, <1>3, <2>1, <2>2 DEF StacksRight, OneHandler
<1>9. StatusesRight'
  <2>1. CASE mailqueue = << >>
    BY <1>1, <1>2, <1>6, <2>1 DEF StatusesRight
  <2>2. CASE mailqueue # << >>
    <3>1. current_task = Thread => tpc = "resched"
      BY <1>2, <1>6, <2>2 DEF StatusesRight
    <3>2. QED
      BY <1>1, <1>2, <1>6, <2>2, <3>1, ThreeTasks DEF StatusesRight, UartTypeOK
  <2>3. QED
    BY <2>1, <2>2
<1>10. MailQueueRight'
  <2>1. ~WaitsForMail'
    <3>1. CASE mailqueue = << >>
      BY <1>1, <1>2, <1>3, <1>6, <3>1, ThreeTasks DEF WaitsForMail
    <3>2. CASE mailqueue # << >>
      BY <1>2, <1>6, <3>2, ThreeTasks DEF WaitsForMail, UartTypeOK
    <3>3. QED
      BY <3>1, <3>2
  <2>2. QED
    BY <1>6, <2>1 DEF MailQueueRight
<1>11. BoxQueueRight'
  BY <1>1, <1>3, <1>4, ThreeTasks DEF BoxQueueRight
<1>12. CharsConserved'
  <2>1. (PostsGood <=> Good(c)) /\ PostsGood' = FALSE /\ (HoldsGood' <=> HoldsGood)
    BY <1>1, <1>2, <1>3 DEF PostsGood, HoldsGood
  <2>2. One(PostsGood) = One(Good(c)) /\ One(PostsGood') = 0 /\ One(HoldsGood') = One(HoldsGood)
    BY <2>1 DEF One
  <2>3. GoodIn(box') = GoodIn(box) + One(Good(c))
    BY <1>1, <1>2, GoodAppend
  <2>4. QED
    BY <1>1, <1>2, <2>2, <2>3, BalanceTerms, BalanceKept
<1>13. QED
  BY <1>5, <1>7, <1>8, <1>9, <1>10, <1>11, <1>12 DEF UartInv

\* The handler blocks the task it interrupted.  Another one than uart_thread leaves
\* the processor to it, which is ready.
LEMMA BlocksStep ==
  ASSUME UartInv, handle_post, ~(box_sem > 0)
  PROVE  UartInv'
<1> DEFINE st == Block(current_task, status)
<1>1. /\ UNCHANGED <<received, printed, rx, thri, line, inservice, hpc, c, tpc, ch>>
      /\ UNCHANGED <<box, box_sem, mail_sem, mailqueue>>
      /\ hpc[current_task] = "post" /\ boxqueue' = Append(boxqueue, current_task) /\ Reschedule(st)
  BY DEF handle_post, HasBox, HandlerBlocks, PostEOI, charVars, devVars
<1>2. UartTypeOK /\ StacksRight /\ StatusesRight /\ BoxesCounted /\ MailQueueRight /\ BoxQueueRight
      /\ current_task \in Tasks /\ box_sem = 0 /\ boxqueue \in Seq(Tasks) /\ status \in [Tasks -> Statuses]
  BY UartAssumption DEF UartInv, UartTypeOK, Statuses
<1>3. \A t \in Tasks : t # current_task => hpc[t] = "none"
  BY <1>1, <1>2 DEF StacksRight, OneHandler
<1>4. mailqueue = << >> /\ ~WaitsForMail
  BY <1>2, NoBoxNoWait
<1>5. /\ current_task # Thread => status[Thread] = "READY" /\ st[Thread] = "READY"
      /\ current_task = Thread => status[Thread] \in {"RUNNING", "READY"}
                                  /\ st[Thread] = IF status[Thread] = "RUNNING" THEN "BLOCKED" ELSE "READY"
  BY <1>2, <1>3, <1>4, ThreeTasks DEF WaitsForMail, StatusesRight, Block, Statuses
<1>6. /\ st \in [Tasks -> Statuses] /\ st[Idle] = "IDLE" /\ st[App] # "IDLE" /\ st[Thread] # "IDLE"
      /\ \A t \in Tasks : st[t] # "RUNNING"
      /\ st[App] = IF current_task = App THEN "BLOCKED" ELSE status[App]
  BY <1>2, <1>5, ThreeTasks DEF Block, StatusesRight, Statuses
<1> HIDE DEF st
<1>7. /\ current_task' \in Tasks /\ status' \in [Tasks -> Statuses] /\ status'[Idle] = "IDLE"
      /\ \A t \in {App, Thread} : status'[t] = IF t = current_task' THEN "RUNNING" ELSE st[t]
      /\ current_task' # Idle => st[current_task'] = "READY"
      /\ st[Thread] = "READY" => current_task' = Thread
  <2>1. \A t \in Tasks : st[t] = "RUNNING" => t = current_task
    BY <1>6
  <2>2. /\ current_task' \in Tasks /\ status' \in [Tasks -> Statuses]
        /\ status'[Idle] = "IDLE"
        /\ \A t \in {App, Thread} :
             status'[t] = CASE t = current_task' -> "RUNNING"
                            [] t # current_task' /\ st[t] = "RUNNING" -> "READY"
                            [] OTHER -> st[t]
        /\ current_task' # Idle => st[current_task'] \in {"READY", "RUNNING"}
        /\ st[Thread] = "READY" \/ (current_task = Thread /\ st[Thread] = "RUNNING") => current_task' = Thread
    BY <1>1, <1>2, <1>6, <2>1, Rescheduled
  <2>3. QED
    BY <1>6, <2>2, ThreeTasks
<1>8. boxqueue' \in Seq(Tasks) /\ boxqueue' # << >> /\ (boxqueue = << >> => boxqueue' = <<current_task>>)
  <2>1. boxqueue' \in Seq(Tasks) /\ Len(boxqueue') = Len(boxqueue) + 1 /\ Len(boxqueue) \in Nat
    BY <1>1, <1>2
  <2>2. boxqueue' # << >>
    BY <2>1
  <2>3. Append(<< >>, current_task) = <<current_task>>
    OBVIOUS
  <2>4. QED
    BY <1>1, <2>1, <2>2, <2>3
<1>9. UartTypeOK'
  BY <1>1, <1>2, <1>7, <1>8 DEF UartTypeOK, Statuses
<1>10. StacksRight'
  BY <1>1, <1>2, <1>3 DEF StacksRight, OneHandler
<1>11. StatusesRight' /\ BoxesCounted'
  BY <1>1, <1>2, <1>6, <1>7, ThreeTasks DEF StatusesRight, BoxesCounted
<1>12. BoxQueueRight'
  <2>1. CASE current_task = Thread
    <3>1. current_task' # Thread => status'[Thread] = "BLOCKED"
      BY <1>5, <1>7, <2>1
    <3>2. QED
      BY <1>1, <1>2, <1>8, <2>1, <3>1 DEF BoxQueueRight
  <2>2. CASE current_task # Thread
    <3>1. boxqueue = << >> /\ current_task' = Thread
      BY <1>2, <1>3, <1>5, <1>7, <2>2, ThreeTasks DEF BoxQueueRight
    <3>2. QED
      BY <1>1, <1>2, <1>8, <2>2, <3>1, ThreeTasks DEF BoxQueueRight
  <2>3. QED
    BY <2>1, <2>2
<1>13. MailQueueRight'
  <2>1. ~WaitsForMail'
    BY <1>1, <1>3, <1>5, <1>7, ThreeTasks DEF WaitsForMail
  <2>2. QED
    BY <1>1, <1>4, <2>1 DEF MailQueueRight
<1>14. CharsConserved'
  BY <1>1, BalanceSame
<1>15. QED
  BY <1>9, <1>10, <1>11, <1>12, <1>13, <1>14 DEF UartInv

\* uart_thread takes a mail, or blocks.
LEMMA UartFetchStep ==
  ASSUME UartInv, thread_fetch
  PROVE  UartInv'
<1>1. /\ UNCHANGED <<received, printed, rx, thri, line, inservice, current_task, hpc, c, box_sem, boxqueue>>
      /\ current_task = Thread /\ hpc[Thread] = "none" /\ tpc = "fetch"
  BY DEF thread_fetch, ThreadAt, charVars, devVars
<1>2. UartTypeOK /\ StacksRight /\ StatusesRight /\ BoxesCounted /\ MailQueueRight /\ BoxQueueRight
      /\ box \in Seq(Chars) /\ status \in [Tasks -> Statuses] /\ ch \in Chars
      /\ box_sem \in 0..UART_MAILBOX_SIZE /\ mail_sem \in 0..UART_MAILBOX_SIZE /\ UART_MAILBOX_SIZE \in Nat \ {0}
  BY UartAssumption DEF UartInv, UartTypeOK, Statuses
<1>3. status[Thread] = "RUNNING" /\ mailqueue = << >>
  BY <1>1, <1>2 DEF StatusesRight, MailQueueRight, WaitsForMail
<1>4. CASE mail_sem > 0
  <2>1. /\ mail_sem' = mail_sem - 1 /\ ch' = Head(box) /\ box' = Tail(box) /\ tpc' = "release"
        /\ UNCHANGED <<mailqueue, status>>
    BY <1>4 DEF thread_fetch
  <2>2. box # << >> /\ Len(box) = mail_sem
    BY <1>2, <1>4 DEF BoxesCounted
  <2>3. /\ box' \in Seq(Chars) /\ ch' \in Chars /\ Len(box') = Len(box) - 1
        /\ GoodIn(box) = GoodIn(box') + One(Good(ch'))
    BY <1>2, <2>1, <2>2, GoodTail
  <2>4. BoxesCounted' /\ mail_sem' \in 0..UART_MAILBOX_SIZE /\ Len(box') <= UART_MAILBOX_SIZE
    <3>1. One(tpc = "release") = 0 /\ One(tpc' = "release") = 1
      BY <1>1, <2>1 DEF One
    <3>2. QED
      BY <1>1, <1>2, <1>4, <2>1, <2>2, <2>3, <3>1 DEF BoxesCounted
  <2>5. UartTypeOK'
    BY <1>1, <1>2, <2>1, <2>3, <2>4 DEF UartTypeOK
  <2>6. StacksRight' /\ StatusesRight' /\ BoxQueueRight'
    BY <1>1, <1>2, <1>3, <2>1, ThreeTasks DEF StacksRight, OneHandler, StatusesRight, BoxQueueRight
  <2>7. MailQueueRight'
    BY <1>1, <1>3, <2>1 DEF MailQueueRight, WaitsForMail
  <2>8. CharsConserved'
    <3>1. HoldsGood = FALSE /\ (HoldsGood' <=> Good(ch')) /\ (PostsGood' <=> PostsGood)
      BY <1>1, <2>1 DEF PostsGood, HoldsGood
    <3>2. One(HoldsGood) = 0 /\ One(HoldsGood') = One(Good(ch')) /\ One(PostsGood') = One(PostsGood)
          /\ One(Good(ch')) \in {0, 1}
      BY <3>1 DEF One
    <3>3. GoodIn(box') \in Nat
      BY <2>3, GoodType
    <3>4. received' = printed' + rx' + One(PostsGood') + GoodIn(box') + One(HoldsGood')
      <4> DEFINE k == One(PostsGood)
                 o == One(Good(ch'))
      <4>1. received = printed + rx + k + GoodIn(box) + 0 /\ printed \in Nat /\ rx \in Nat /\ k \in {0, 1}
        BY <3>2, BalanceTerms
      <4>2. GoodIn(box) = GoodIn(box') + o /\ o \in {0, 1}
        BY <2>3, <3>2
      <4>3. One(PostsGood') = k /\ One(HoldsGood') = o /\ received' = received /\ printed' = printed /\ rx' = rx
        BY <1>1, <3>2
      <4> HIDE DEF k, o
      <4>4. QED
        BY <3>3, <4>1, <4>2, <4>3
    <3>5. QED
      BY <3>4, BalanceKept
  <2>9. QED
    BY <2>4, <2>5, <2>6, <2>7, <2>8 DEF UartInv
<1>5. CASE ~(mail_sem > 0)
  <2>1. /\ mailqueue' = Append(mailqueue, Thread) /\ status' = Block(Thread, status) /\ tpc' = "resched"
        /\ UNCHANGED <<mail_sem, box, ch>>
    BY <1>5 DEF thread_fetch
  <2>2. mailqueue' = <<Thread>> /\ mailqueue' # << >> /\ mailqueue' \in Seq(Tasks) /\ mail_sem = 0
    <3>1. Append(<< >>, Thread) = <<Thread>> /\ <<Thread>> # << >> /\ <<Thread>> \in Seq(Tasks)
      BY ThreeTasks
    <3>2. QED
      BY <1>2, <1>3, <1>5, <2>1, <3>1
  <2>3. status' = [status EXCEPT ![Thread] = "BLOCKED"] /\ status' \in [Tasks -> Statuses]
        /\ status'[Thread] = "BLOCKED" /\ status'[App] = status[App] /\ status'[Idle] = status[Idle]
    BY <1>2, <1>3, <2>1, ThreeTasks DEF Block, Statuses
  <2>4. UartTypeOK'
    BY <1>1, <1>2, <2>1, <2>2, <2>3 DEF UartTypeOK, Statuses
  <2>5. StacksRight' /\ StatusesRight'
    BY <1>1, <1>2, <2>1, <2>3, ThreeTasks DEF StacksRight, OneHandler, StatusesRight
  <2>6. BoxesCounted'
    BY <1>1, <1>2, <2>1 DEF BoxesCounted, One
  <2>7. MailQueueRight'
    BY <1>1, <2>1, <2>2, <2>3 DEF MailQueueRight, WaitsForMail
  <2>8. BoxQueueRight'
    BY <1>1, <1>2, <2>3, ThreeTasks DEF BoxQueueRight
  <2>9. CharsConserved'
    BY <1>1, <2>1, BalanceSame
  <2>10. QED
    BY <2>4, <2>5, <2>6, <2>7, <2>8, <2>9 DEF UartInv
<1>6. QED
  BY <1>4, <1>5

\* uart_thread gives up the processor, unless a post in between has woken it.
LEMMA ReschedStep ==
  ASSUME UartInv, thread_resched
  PROVE  UartInv'
<1>1. /\ UNCHANGED <<received, printed, rx, thri, line, inservice, hpc, c, ch>>
      /\ UNCHANGED <<box, box_sem, mail_sem, boxqueue, mailqueue>>
      /\ current_task = Thread /\ hpc[Thread] = "none" /\ tpc = "resched" /\ tpc' = "fetch"
      /\ Reschedule(status)
  BY DEF thread_resched, ThreadAt, charVars, devVars, mailVars
<1>2. UartTypeOK /\ StacksRight /\ StatusesRight /\ BoxesCounted /\ MailQueueRight /\ BoxQueueRight
      /\ status \in [Tasks -> Statuses]
  BY DEF UartInv, UartTypeOK, Statuses
<1>3. /\ current_task' \in Tasks /\ status' \in [Tasks -> Statuses] /\ status'[Idle] = "IDLE"
      /\ status'[App] = IF current_task' = App THEN "RUNNING" ELSE status[App]
      /\ status'[Thread] = IF current_task' = Thread THEN "RUNNING" ELSE "BLOCKED"
      /\ current_task' = Thread <=> status[Thread] # "BLOCKED"
  <2>1. \A t \in Tasks : status[t] = "RUNNING" => t = current_task
    BY <1>1, <1>2, ThreeTasks DEF StatusesRight
  <2>2. /\ current_task' \in Tasks /\ status' \in [Tasks -> Statuses]
        /\ status'[Idle] = "IDLE"
        /\ \A t \in {App, Thread} :
             status'[t] = CASE t = current_task' -> "RUNNING"
                            [] t # current_task' /\ status[t] = "RUNNING" -> "READY"
                            [] OTHER -> status[t]
        /\ current_task' # Idle => status[current_task'] \in {"READY", "RUNNING"}
        /\ status[Thread] = "READY" \/ (current_task = Thread /\ status[Thread] = "RUNNING") => current_task' = Thread
    BY <1>1, <1>2, <2>1, Rescheduled, ThreeTasks DEF StatusesRight
  <2>3. status[Thread] \in {"RUNNING", "READY", "BLOCKED"} /\ status[App] # "RUNNING"
    BY <1>1, <1>2, ThreeTasks DEF StatusesRight, Statuses
  <2>4. QED
    BY <1>1, <2>2, <2>3, ThreeTasks
<1>4. UartTypeOK'
  BY <1>1, <1>2, <1>3 DEF UartTypeOK, Statuses
<1>5. StacksRight'
  BY <1>1, <1>2, <1>3 DEF StacksRight, OneHandler
<1>6. StatusesRight'
  BY <1>1, <1>2, <1>3, ThreeTasks DEF StatusesRight
<1>7. BoxesCounted'
  BY <1>1, <1>2 DEF BoxesCounted, One
<1>8. MailQueueRight'
  <2>1. WaitsForMail' <=> WaitsForMail
    BY <1>1, <1>3, ThreeTasks DEF WaitsForMail
  <2>2. QED
    BY <1>1, <1>2, <2>1 DEF MailQueueRight
<1>9. BoxQueueRight'
  <2>1. box_sem = 0 => current_task' = Thread
    BY <1>1, <1>3, NoBoxNoWait DEF WaitsForMail
  <2>2. QED
    BY <1>1, <1>2, <1>3, <2>1, ThreeTasks DEF BoxQueueRight
<1>10. CharsConserved'
  BY <1>1, BalanceSame
<1>11. QED
  BY <1>4, <1>5, <1>6, <1>7, <1>8, <1>9, <1>10 DEF UartInv

\* uart_thread gives back the box, and wakes the task that waits for one.
LEMMA ReleaseStep ==
  ASSUME UartInv, thread_release
  PROVE  UartInv'
<1>1. /\ UNCHANGED <<received, printed, rx, thri, line, inservice, current_task, hpc, c, ch, box, mail_sem, mailqueue>>
      /\ current_task = Thread /\ hpc[Thread] = "none" /\ tpc = "release" /\ tpc' = "print"
      /\ box_sem' = box_sem + 1
      /\ status' = PostWakes(box_sem, boxqueue, status) /\ boxqueue' = PostDequeues(box_sem, boxqueue)
  BY DEF thread_release, ThreadAt, Released, charVars, devVars
<1>2. UartTypeOK /\ StacksRight /\ StatusesRight /\ BoxesCounted /\ MailQueueRight /\ BoxQueueRight
      /\ status \in [Tasks -> Statuses]
      /\ box_sem \in 0..UART_MAILBOX_SIZE /\ mail_sem \in 0..UART_MAILBOX_SIZE /\ UART_MAILBOX_SIZE \in Nat \ {0}
  BY UartAssumption DEF UartInv, UartTypeOK, Statuses
<1>3. BoxesCounted' /\ box_sem' \in 0..UART_MAILBOX_SIZE
  <2>1. One(tpc = "release") = 1 /\ One(tpc' = "release") = 0
    BY <1>1 DEF One
  <2>2. QED
    BY <1>1, <1>2, <2>1 DEF BoxesCounted
<1>4. /\ boxqueue' = << >> /\ boxqueue' \in Seq(Tasks) /\ status' \in [Tasks -> Statuses]
      /\ status'[Idle] = status[Idle] /\ status'[Thread] = status[Thread]
      /\ status'[App] = IF hpc[App] = "post" /\ status[App] = "BLOCKED" THEN "READY" ELSE status[App]
  <2>1. CASE boxqueue = << >>
    <3>1. status' = status /\ boxqueue' = << >>
      BY <1>1, <2>1 DEF PostWakes, PostDequeues
    <3>2. ~(hpc[App] = "post" /\ status[App] = "BLOCKED")
      BY <1>1, <1>2, <2>1, ThreeTasks DEF BoxQueueRight
    <3>3. QED
      BY <1>2, <3>1, <3>2
  <2>2. CASE boxqueue # << >>
    <3>1. box_sem = 0
      BY <1>2, <2>2 DEF BoxQueueRight
    <3>2. PICK t \in {Idle, App} : hpc[t] = "post" /\ boxqueue = <<t>>
      BY <1>1, <1>2, <2>2 DEF BoxQueueRight
    <3>3. status' = Wake(t, status) /\ boxqueue' = << >>
      BY <1>1, <2>2, <3>1, <3>2 DEF PostWakes, PostDequeues
    <3>4. hpc[App] = "post" => t = App
      BY <1>2, <3>2, ThreeTasks DEF StacksRight, OneHandler
    <3>5. CASE t = App
      BY <1>2, <3>2, <3>3, <3>5, ThreeTasks DEF Wake, Statuses
    <3>6. CASE t = Idle
      <4>1. status' = status
        BY <1>2, <3>3, <3>6 DEF Wake, StatusesRight
      <4>2. QED
        BY <1>2, <3>3, <3>4, <3>6, <4>1, ThreeTasks
    <3>7. QED
      BY <3>5, <3>6
  <2>3. QED
    BY <2>1, <2>2
<1>5. UartTypeOK'
  BY <1>1, <1>2, <1>3, <1>4 DEF UartTypeOK, Statuses
<1>6. StacksRight' /\ StatusesRight'
  BY <1>1, <1>2, <1>4, ThreeTasks DEF StacksRight, OneHandler, StatusesRight
<1>7. MailQueueRight'
  BY <1>1, <1>2, <1>4 DEF MailQueueRight, WaitsForMail
<1>8. BoxQueueRight'
  BY <1>1, <1>2, <1>4, ThreeTasks DEF BoxQueueRight, StatusesRight
<1>9. CharsConserved'
  BY <1>1, BalanceSame
<1>10. QED
  BY <1>3, <1>5, <1>6, <1>7, <1>8, <1>9 DEF UartInv

\* uart_thread prints its character.
LEMMA PrintStep ==
  ASSUME UartInv, thread_print
  PROVE  UartInv'
<1>1. /\ UNCHANGED <<received, rx, line, inservice, current_task, status, hpc, c, ch>>
      /\ UNCHANGED <<box, box_sem, mail_sem, boxqueue, mailqueue>>
      /\ current_task = Thread /\ hpc[Thread] = "none" /\ tpc = "print" /\ tpc' = "fetch"
      /\ printed' = (IF ch = "good" THEN printed + 1 ELSE printed) /\ thri' = TRUE
  BY DEF thread_print, ThreadAt, charVars, devVars, mailVars
<1>2. UartTypeOK /\ StacksRight /\ StatusesRight /\ BoxesCounted /\ MailQueueRight /\ BoxQueueRight
  BY DEF UartInv
<1>3. CharsConserved' /\ printed' \in 0..MaxChars
  <2>1. (HoldsGood <=> Good(ch)) /\ HoldsGood' = FALSE /\ (PostsGood' <=> PostsGood)
    BY <1>1 DEF PostsGood, HoldsGood
  <2>2. One(HoldsGood) = (IF ch = "good" THEN 1 ELSE 0) /\ One(HoldsGood') = 0 /\ One(PostsGood') = One(PostsGood)
    BY <2>1 DEF One, Good
  <2>3. QED
    BY <1>1, <2>2, BalanceTerms, BalanceKept
<1>4. UartTypeOK'
  BY <1>1, <1>2, <1>3 DEF UartTypeOK
<1>5. StacksRight' /\ StatusesRight'
  BY <1>1, <1>2 DEF StacksRight, OneHandler, StatusesRight
<1>6. BoxesCounted'
  BY <1>1, <1>2 DEF BoxesCounted, One
<1>7. MailQueueRight' /\ BoxQueueRight'
  BY <1>1, <1>2 DEF MailQueueRight, WaitsForMail, BoxQueueRight
<1>8. QED
  BY <1>3, <1>4, <1>5, <1>6, <1>7 DEF UartInv

\* The initial state.
LEMMA UartInitInv == UartInit => UartInv
<1> SUFFICES ASSUME UartInit PROVE UartInv
  OBVIOUS
<1>1. UART_MAILBOX_SIZE \in Nat \ {0} /\ MaxChars \in Nat /\ FIFO \in Nat
  BY UartAssumption
<1>2. /\ status \in [Tasks -> Statuses] /\ status[Idle] = "IDLE" /\ status[App] = "BLOCKED" /\ status[Thread] = "RUNNING"
      /\ hpc \in [Tasks -> {"none", "loop", "post"}] /\ \A t \in Tasks : hpc[t] = "none"
  BY ThreeTasks DEF UartInit, Statuses
<1>3. UartTypeOK
  <2>1. box \in Seq(Chars) /\ Len(box) = 0 /\ boxqueue \in Seq(Tasks) /\ mailqueue \in Seq(Tasks)
    BY DEF UartInit
  <2>2. /\ received \in 0..MaxChars /\ printed \in 0..MaxChars /\ rx \in 0..FIFO
        /\ box_sem \in 0..UART_MAILBOX_SIZE /\ mail_sem \in 0..UART_MAILBOX_SIZE /\ Len(box) <= UART_MAILBOX_SIZE
    BY <1>1, <2>1 DEF UartInit
  <2>3. /\ thri \in BOOLEAN /\ line \in BOOLEAN /\ inservice \in BOOLEAN /\ current_task \in Tasks
        /\ c \in Chars /\ ch \in Chars /\ tpc \in {"fetch", "resched", "release", "print"}
    BY ThreeTasks DEF UartInit, Chars
  <2>4. QED
    BY <1>2, <2>1, <2>2, <2>3 DEF UartTypeOK, Statuses
<1>4. StacksRight /\ StatusesRight
  BY <1>2, ThreeTasks DEF UartInit, StacksRight, OneHandler, StatusesRight
<1>5. BoxesCounted
  BY <1>1 DEF UartInit, BoxesCounted, One
<1>6. MailQueueRight /\ BoxQueueRight
  BY <1>2, ThreeTasks DEF UartInit, MailQueueRight, WaitsForMail, BoxQueueRight
<1>7. CharsConserved
  <2>1. PostsGood = FALSE /\ HoldsGood = FALSE
    BY <1>2 DEF UartInit, PostsGood, HoldsGood
  <2>2. GoodIn(box) = 0
    <3>1. {i \in 1..Len(box) : Good(box[i])} = {}
      BY DEF UartInit
    <3>2. QED
      BY <3>1, FS_EmptySet DEF GoodIn
  <2>3. QED
    BY <2>1, <2>2 DEF UartInit, CharsConserved, PostsGood, HoldsGood, One
<1>8. QED
  BY <1>3, <1>4, <1>5, <1>6, <1>7 DEF UartInv

\* Every step keeps the invariant.
LEMMA UartNextInv == UartInv /\ [UartNext]_uartVars => UartInv'
<1> SUFFICES ASSUME UartInv, [UartNext]_uartVars PROVE UartInv'
  OBVIOUS
<1>1. CASE receive \/ line_error
  BY <1>1, DeviceStep
<1>2. CASE app_sleep
  BY <1>2, SleepStep
<1>3. CASE app_wake
  BY <1>3, AppWakeStep
<1>4. CASE uart_irq
  BY <1>4, IrqStep
<1>5. CASE handle_none
  BY <1>5, HandleNoneStep
<1>6. CASE handle_rdi
  BY <1>6, HandleRdiStep
<1>7. CASE handle_thri
  BY <1>7, HandleThriStep
<1>8. CASE handle_post
  BY <1>8, UartPostStep, BlocksStep
<1>9. CASE thread_fetch
  BY <1>9, UartFetchStep
<1>10. CASE thread_resched
  BY <1>10, ReschedStep
<1>11. CASE thread_release
  BY <1>11, ReleaseStep
<1>12. CASE thread_print
  BY <1>12, PrintStep
<1>13. CASE UNCHANGED uartVars
  <2>1. /\ UNCHANGED <<received, printed, rx, thri, line, inservice, current_task, status, hpc, c, tpc, ch>>
        /\ UNCHANGED <<box, box_sem, mail_sem, boxqueue, mailqueue>>
    BY <1>13 DEF uartVars, charVars, devVars, mailVars
  <2>2. QED
    BY <2>1 DEF UartInv, UartTypeOK, StacksRight, OneHandler, StatusesRight, BoxesCounted, MailQueueRight,
                WaitsForMail, BoxQueueRight, CharsConserved
<1>14. QED
  BY <1>1, <1>2, <1>3, <1>4, <1>5, <1>6, <1>7, <1>8, <1>9, <1>10, <1>11, <1>12, <1>13
     DEF UartNext, uart_handler, uart_thread

\* For every size of the mailbox and of the device, every number of characters and
\* whether or not there are line errors: no character is lost or duplicated between
\* uart_handler and uart_thread, and one stack at a time is in the handler.
THEOREM UartConserves == UartSpec => []CharsTracked
<1>1. UartInv => CharsTracked
  BY DEF UartInv, CharsTracked, StacksRight
<1>2. QED
  BY <1>1, UartInitInv, UartNextInv, PTL DEF UartSpec

\* Nor does a task that an interrupt hit stay blocked in the post of uart_handler once
\* a box of the mailbox is empty.
THEOREM UartWakes == UartSpec => []NoTaskLeftBlocked
<1>1. UartInv => NoTaskLeftBlocked
  BY DEF UartInv, BoxQueueRight, NoTaskLeftBlocked
<1>2. QED
  BY <1>1, UartInitInv, UartNextInv, PTL DEF UartSpec
==============================================================================
