------------------------------- MODULE KernelLog -------------------------------
(***************************************************************************)
(* The kernel log, libkern/stdio.c: kputchar and kputs store characters in *)
(* the ring kmessages, and kmsg_read, the read function of the log device, *)
(* copies them out.  With an output device (locked) a writer holds olock   *)
(* and writes with interrupts disabled; without one, another writer may    *)
(* run between the increment of the counter and the store.  A reader never *)
(* holds that lock, and every read of the counter is a step.               *)
(***************************************************************************)
EXTENDS Integers, Sequences

CONSTANTS
  Writers,
  KMSG_SIZE,   \* the size of the ring
  Chars,       \* the characters written; none of them is 0
  MAX_LOG,     \* bounds the number of characters written
  MAX_READ     \* bounds the size of a read

ASSUME KernelLogAssumption ==
  /\ {KMSG_SIZE, MAX_LOG, MAX_READ} \subseteq Nat \ {0}
  /\ 0 \notin Chars

VARIABLES
  locked,    \* there is an output device
  kmessages, kmsg_counter,
  pending,   \* the position and the character that a writer is about to store
  log,       \* all characters, in the order of their positions
  rd,        \* the state of kmsg_read: start, i, size and file->offset
  out        \* what the reads since the device was opened have returned

klogVars == <<locked, kmessages, kmsg_counter, pending, log, rd, out>>

Nothing == <<0, 0>>
NotRead == [at |-> "open", start |-> 0, i |-> 0, size |-> 0, offset |-> 0]

KLogTypeOK ==
  /\ kmessages \in [0..(KMSG_SIZE - 1) -> Chars \cup {0}] /\ kmsg_counter \in 0..MAX_LOG
  /\ pending \in [Writers -> {Nothing} \cup ((1..MAX_LOG) \X Chars)]
  /\ log \in Seq(Chars) /\ out \in Seq(Chars \cup {0})
  /\ rd.start \in 0..(KMSG_SIZE - 1) /\ rd.i \in 0..rd.size

KLogInit ==
  /\ locked \in BOOLEAN
  /\ kmessages = [k \in 0..(KMSG_SIZE - 1) |-> 0] /\ kmsg_counter = 0
  /\ pending = [w \in Writers |-> Nothing] /\ log = <<>> /\ rd = NotRead /\ out = <<>>

-----------------------------------------------------------------------------
\* Faulty variant: the counter is read and then incremented.
position_stale(w) == kmsg_counter

\* The result of atomic_int32_inc: the new value.
position(w) == kmsg_counter + 1

\* A bound: no writer is suspended while others fill the whole ring.
NotLapped == \A v \in Writers :
  pending[v] # Nothing => kmsg_counter + 1 < pending[v][1] + KMSG_SIZE

\* One character of kputchar or kputs: the atomic increment.
kputchar(w, c) ==
  /\ pending[w] = Nothing /\ kmsg_counter < MAX_LOG /\ NotLapped
  /\ locked => \A v \in Writers : pending[v] = Nothing
  /\ kmsg_counter' = kmsg_counter + 1
  /\ pending' = [pending EXCEPT ![w] = <<position(w), c>>]
  /\ log' = Append(log, c)
  /\ UNCHANGED <<locked, kmessages, rd, out>>

\* The store.
store(w) ==
  /\ pending[w] # Nothing
  /\ kmessages' = [kmessages EXCEPT ![pending[w][1] % KMSG_SIZE] = pending[w][2]]
  /\ pending' = [pending EXCEPT ![w] = Nothing]
  /\ UNCHANGED <<locked, kmsg_counter, log, rd, out>>

-----------------------------------------------------------------------------
\* Where a writer is in its critical section with interrupts disabled, nobody
\* else runs.
Interruptible == locked => \A w \in Writers : pending[w] = Nothing

\* The place of the oldest character: a place that was never used means that the
\* ring has not been filled.
Start == IF kmessages[(kmsg_counter + 1) % KMSG_SIZE] = 0 THEN 0 ELSE (kmsg_counter + 1) % KMSG_SIZE

\* kmsg_read up to its loop.
kmsg_read(size) ==
  /\ Interruptible /\ rd.at = "open"
  /\ rd' = IF (Start + rd.offset) % KMSG_SIZE = kmsg_counter \/ rd.offset >= KMSG_SIZE
           THEN [rd EXCEPT !.at = "end"]
           ELSE [rd EXCEPT !.at = "loop", !.start = Start, !.i = 0, !.size = size]
  /\ UNCHANGED <<locked, kmessages, kmsg_counter, pending, log, out>>

\* The place that is read.
Place == (rd.start + rd.offset) % KMSG_SIZE

\* One turn of the loop.  The character at the counter's place is copied, but the
\* result does not count it.
kmsg_copy ==
  /\ Interruptible /\ rd.at = "loop"
  /\ IF Place = kmsg_counter
     THEN /\ rd' = [rd EXCEPT !.at = "open", !.i = 0, !.size = 0] /\ UNCHANGED out
     ELSE /\ out' = Append(out, kmessages[Place])
          /\ rd' = IF rd.i + 1 < rd.size
                   THEN [rd EXCEPT !.i = @ + 1, !.offset = @ + 1]
                   ELSE [rd EXCEPT !.at = "open", !.offset = @ + 1, !.i = 0, !.size = 0]
  /\ UNCHANGED <<locked, kmessages, kmsg_counter, pending, log>>

\* A reader that has got the result 0 opens the device again.
reopen ==
  /\ rd.at = "end" /\ Interruptible
  /\ rd' = NotRead /\ out' = <<>>
  /\ UNCHANGED <<locked, kmessages, kmsg_counter, pending, log>>

KLogNext ==
  \/ \E w \in Writers : (\E c \in Chars : kputchar(w, c)) \/ store(w)
  \/ \E n \in 1..MAX_READ : kmsg_read(n)
  \/ kmsg_copy
  \/ reopen

KLogSpec == KLogInit /\ [][KLogNext]_klogVars

-----------------------------------------------------------------------------
(***************************************************************************)
(* Properties.                                                             *)
(***************************************************************************)

\* The place of the n-th character holds it, unless it is still being stored or
\* has been overwritten by a later one: concurrent writers lose nothing else.
RingHoldsLog == \A n \in 1..Len(log) :
  /\ n > kmsg_counter - KMSG_SIZE
  /\ \A w \in Writers : pending[w] = Nothing \/ pending[w][1] % KMSG_SIZE # n % KMSG_SIZE
  => kmessages[n % KMSG_SIZE] = log[n]

\* As long as the ring has not been filled, a reader gets the characters in order
\* after the unused first place, in spite of concurrent writers that hold olock.
ReadsPrefix ==
  locked /\ kmsg_counter < KMSG_SIZE - 1 /\ out # <<>>
    => /\ out[1] = 0 /\ Len(out) <= Len(log) + 1
       /\ Tail(out) = SubSeq(log, 1, Len(out) - 1)

\* The device "represents all kernel messages": when the reader is told that
\* there is no more, it has got everything, as long as the ring is not full.
RepresentsAll ==
  [][rd.at = "open" /\ rd'.at = "end" /\ Len(log) \in 1..(KMSG_SIZE - 2)
       => \E k \in 1..Len(out) : SubSeq(out, k, Len(out)) = log]_klogVars

\* What is in the ring, and what a reader gets of it, is what was written.
LogRight == KLogTypeOK /\ RingHoldsLog /\ ReadsPrefix
=============================================================================
