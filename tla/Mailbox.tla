------------------------------- MODULE Mailbox -------------------------------
(***************************************************************************)
(* A mailbox of include/eduos/mailbox.h: a ring buffer, two semaphores     *)
(* that count its empty boxes and its mails, and a lock for each end.      *)
(* Tasks are preempted between any two steps.  The semaphores are those of *)
(* include/eduos/semaphore.h with their ring of waiters as a sequence,     *)
(* which Semaphore shows it to be.                                         *)
(***************************************************************************)
EXTENDS Integers, Sequences, FiniteSets

CONSTANTS
  MAILBOX_SIZE,
  Mails,             \* what is posted; Zero is what the buffer holds at first
  Zero,
  Posters, Fetchers, \* the tasks that use either end
  NoTask             \* nobody: a lock is free

ASSUME MailboxAssumption ==
  /\ MAILBOX_SIZE \in Nat \ {0}
  /\ Zero \in Mails
  /\ Posters \cap Fetchers = {}
  /\ NoTask \notin Posters \cup Fetchers \cup Mails
  /\ IsFiniteSet(Posters) /\ IsFiniteSet(Fetchers)

Slots == 0..(MAILBOX_SIZE - 1)
MailTasks == Posters \cup Fetchers

VARIABLES
  buffer, wpos, rpos,
  mails, boxes,          \* the values of the semaphores
  mailwaiters, boxwaiters, \* the tasks blocked in sem_wait, in order
  rlock, wlock,
  pc,
  mail                   \* the argument of a poster, the result of a fetcher

ringVars == <<buffer, wpos, rpos>>
semVars == <<mails, boxes, mailwaiters, boxwaiters>>
mailboxVars == <<ringVars, semVars, rlock, wlock, pc, mail>>

PosterPC == {"idle", "wait", "lock", "store", "advance", "post"}
FetcherPC == {"idle", "wait", "lock", "take", "post"}

MailboxTypeOK ==
  /\ buffer \in [Slots -> Mails]
  /\ wpos \in Slots /\ rpos \in Slots
  /\ mails \in 0..MAILBOX_SIZE /\ boxes \in 0..MAILBOX_SIZE
  /\ mailwaiters \in Seq(Fetchers) /\ boxwaiters \in Seq(Posters)
  /\ rlock \in Fetchers \cup {NoTask} /\ wlock \in Posters \cup {NoTask}
  /\ \A p \in Posters : pc[p] \in PosterPC
  /\ \A f \in Fetchers : pc[f] \in FetcherPC
  /\ mail \in [MailTasks -> Mails]

\* mailbox_init
MailboxInit ==
  /\ buffer = [i \in Slots |-> Zero]
  /\ wpos = 0 /\ rpos = 0
  /\ mails = 0 /\ boxes = MAILBOX_SIZE
  /\ mailwaiters = << >> /\ boxwaiters = << >>
  /\ rlock = NoTask /\ wlock = NoTask
  /\ pc = [t \in MailTasks |-> "idle"]
  /\ mail = [t \in MailTasks |-> Zero]

Goto(t, where) == pc' = [pc EXCEPT ![t] = where]
NextSlot(i) == (i + 1) % MAILBOX_SIZE

\* The waiters after a sem_post that found value: it wakes the first of them
\* if value was zero.
Woken(value, waiters) ==
  IF value = 0 /\ waiters # << >> THEN Tail(waiters) ELSE waiters

-----------------------------------------------------------------------------
\* mailbox_post

post(p, m) ==
  /\ pc[p] = "idle"
  /\ mail' = [mail EXCEPT ![p] = m]
  /\ Goto(p, "wait")
  /\ UNCHANGED <<ringVars, semVars, rlock, wlock>>

\* One pass of the loop of sem_wait; a blocked task repeats it when it is woken.
post_wait(p) ==
  /\ pc[p] = "wait"
  /\ \A i \in 1..Len(boxwaiters) : boxwaiters[i] # p
  /\ IF boxes > 0
     THEN boxes' = boxes - 1 /\ Goto(p, "lock") /\ UNCHANGED boxwaiters
     ELSE boxwaiters' = Append(boxwaiters, p) /\ UNCHANGED <<boxes, pc>>
  /\ UNCHANGED <<ringVars, mails, mailwaiters, rlock, wlock, mail>>

\* Faulty variant: the result of sem_trywait is ignored.
trypostAnyway(p, m) ==
  /\ pc[p] = "idle"
  /\ boxes' = IF boxes > 0 THEN boxes - 1 ELSE 0
  /\ mail' = [mail EXCEPT ![p] = m]
  /\ Goto(p, "lock")
  /\ UNCHANGED <<ringVars, mails, mailwaiters, boxwaiters, rlock, wlock>>

\* mailbox_trypost; it changes nothing when there is no empty box.
trypost(p, m) ==
  /\ pc[p] = "idle"
  /\ boxes > 0
  /\ boxes' = boxes - 1
  /\ mail' = [mail EXCEPT ![p] = m]
  /\ Goto(p, "lock")
  /\ UNCHANGED <<ringVars, mails, mailwaiters, boxwaiters, rlock, wlock>>

\* Faulty variant: writers do not exclude each other.
WLockFreeAlways == TRUE

WLockFree == wlock = NoTask

post_lock(p) ==
  /\ pc[p] = "lock"
  /\ WLockFree
  /\ wlock' = p
  /\ Goto(p, "store")
  /\ UNCHANGED <<ringVars, semVars, rlock, mail>>

post_store(p) ==
  /\ pc[p] = "store"
  /\ buffer' = [buffer EXCEPT ![wpos] = mail[p]]
  /\ Goto(p, "advance")
  /\ UNCHANGED <<wpos, rpos, semVars, rlock, wlock, mail>>

Advanced == NextSlot(wpos)

post_advance(p) ==
  /\ pc[p] = "advance"
  /\ wpos' = Advanced
  /\ wlock' = NoTask
  /\ Goto(p, "post")
  /\ UNCHANGED <<buffer, rpos, semVars, rlock, mail>>

post_done(p) ==
  /\ pc[p] = "post"
  /\ mails' = mails + 1
  /\ mailwaiters' = Woken(mails, mailwaiters)
  /\ mail' = [mail EXCEPT ![p] = Zero]
  /\ Goto(p, "idle")
  /\ UNCHANGED <<ringVars, boxes, boxwaiters, rlock, wlock>>

-----------------------------------------------------------------------------
\* mailbox_fetch

fetch(f) ==
  /\ pc[f] = "idle"
  /\ Goto(f, "wait")
  /\ UNCHANGED <<ringVars, semVars, rlock, wlock, mail>>

fetch_wait(f) ==
  /\ pc[f] = "wait"
  /\ \A i \in 1..Len(mailwaiters) : mailwaiters[i] # f
  /\ IF mails > 0
     THEN mails' = mails - 1 /\ Goto(f, "lock") /\ UNCHANGED mailwaiters
     ELSE mailwaiters' = Append(mailwaiters, f) /\ UNCHANGED <<mails, pc>>
  /\ UNCHANGED <<ringVars, boxes, boxwaiters, rlock, wlock, mail>>

\* mailbox_tryfetch; it changes nothing when there is no mail.
tryfetch(f) ==
  /\ pc[f] = "idle"
  /\ mails > 0
  /\ mails' = mails - 1
  /\ Goto(f, "lock")
  /\ UNCHANGED <<ringVars, boxes, mailwaiters, boxwaiters, rlock, wlock, mail>>

fetch_lock(f) ==
  /\ pc[f] = "lock"
  /\ rlock = NoTask
  /\ rlock' = f
  /\ Goto(f, "take")
  /\ UNCHANGED <<ringVars, semVars, wlock, mail>>

\* The slot is read and rpos advanced, under rlock.
fetch_take(f) ==
  /\ pc[f] = "take"
  /\ mail' = [mail EXCEPT ![f] = buffer[rpos]]
  /\ rpos' = NextSlot(rpos)
  /\ rlock' = NoTask
  /\ Goto(f, "post")
  /\ UNCHANGED <<buffer, wpos, semVars, wlock>>

BoxWoken == Woken(boxes, boxwaiters)

fetch_done(f) ==
  /\ pc[f] = "post"
  /\ boxes' = boxes + 1
  /\ boxwaiters' = BoxWoken
  /\ Goto(f, "idle")
  /\ UNCHANGED <<ringVars, mails, mailwaiters, rlock, wlock, mail>>

-----------------------------------------------------------------------------
PostStep(p) == post_wait(p) \/ post_lock(p) \/ post_store(p) \/ post_advance(p) \/ post_done(p)
FetchStep(f) == fetch_wait(f) \/ fetch_lock(f) \/ fetch_take(f) \/ fetch_done(f)

MailboxNext ==
  \/ \E p \in Posters : (\E m \in Mails : post(p, m) \/ trypost(p, m)) \/ PostStep(p)
  \/ \E f \in Fetchers : fetch(f) \/ tryfetch(f) \/ FetchStep(f)

MailboxSpec == MailboxInit /\ [][MailboxNext]_mailboxVars

-----------------------------------------------------------------------------
(***************************************************************************)
(* Properties.                                                             *)
(***************************************************************************)

\* The number of mails in the ring: the boxes that are not empty, not reserved
\* by a poster that has not advanced wpos, and not read out already.
Filled ==
  MAILBOX_SIZE - boxes
    - Cardinality({p \in Posters : pc[p] \in {"lock", "store", "advance"}})
    - Cardinality({f \in Fetchers : pc[f] = "post"})

Content == [i \in 1..Filled |-> buffer[(rpos + i - 1) % MAILBOX_SIZE]]

Abstract == INSTANCE BoundedQueue WITH
  Capacity <- MAILBOX_SIZE, Mail <- Mails, Nothing <- NoTask,
  Writer <- Posters, Reader <- Fetchers,
  mailqueue <- Content,
  offer <- [p \in Posters |-> IF pc[p] \in {"idle", "post"} THEN NoTask ELSE mail[p]],
  got <- [f \in Fetchers |-> mail[f]]

\* The mailbox implements a bounded queue, for any number of posters and
\* fetchers that overtake each other between the semaphores, the locks and the
\* buffer: no mail is lost, duplicated, overwritten before it is read, or read
\* before it is written, and mails leave in the order in which they came in.
ImplementsQueue == Abstract!Spec

\* The two semaphores, the tasks on their way and the positions of the ring
\* account for every slot.
SlotsAccounted ==
  /\ mails + Cardinality({f \in Fetchers : pc[f] \in {"lock", "take"}})
       + Cardinality({p \in Posters : pc[p] = "post"}) = Filled
  /\ (rpos + Filled) % MAILBOX_SIZE = wpos

\* Counters, positions and tasks fit together at every step.
MailboxRight == MailboxTypeOK /\ SlotsAccounted
=============================================================================
