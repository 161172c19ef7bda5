--------------------------------- MODULE Uart ---------------------------------
(***************************************************************************)
(* The serial driver of arch/x86/kernel/uart.c: uart_handler, which runs   *)
(* in the interrupt on the stack of whatever task was interrupted and      *)
(* posts each character to a mailbox, and uart_thread, which fetches and   *)
(* prints them.  The post may block, and what it blocks is the interrupted *)
(* task.                                                                   *)
(*                                                                         *)
(* Besides uart_thread, which has the highest priority, there are the idle *)
(* task and one other task.  Their scheduling is that of Scheduler, reduced*)
(* to statuses: each of the three has a priority of its own.               *)
(***************************************************************************)
EXTENDS Integers, Sequences, FiniteSets

CONSTANTS
  UART_MAILBOX_SIZE,
  FIFO,        \* the characters the device can hold
  MaxChars,    \* bound on the characters that are received
  Window,      \* bound on those received and not yet printed
  LineErrors   \* whether the device reports line errors

ASSUME UartAssumption ==
  /\ UART_MAILBOX_SIZE \in Nat \ {0} /\ FIFO \in Nat \ {0}
  /\ MaxChars \in Nat /\ Window \in Nat /\ LineErrors \in BOOLEAN

\* The tasks are numbered by priority.
Idle == 0
App == 1
Thread == 2
Tasks == {Idle, App, Thread}

VARIABLES
  received, printed, \* how many characters came in and were printed
  rx, thri, line,    \* the device: characters, transmitter empty, line error
  inservice,         \* the interrupt controller waits for the end of interrupt
  current_task, status,
  hpc,               \* where each task's stack is in uart_handler
  c,                 \* the character uart_handler is about to post
  tpc,               \* where uart_thread is
  ch,                \* the character it fetched
  box,               \* the mailbox; its semaphores are box_sem and mail_sem
  box_sem, mail_sem,
  boxqueue, mailqueue \* the tasks that wait for them

charVars == <<received, printed>>
devVars == <<rx, thri, line>>
mailVars == <<box, box_sem, mail_sem, boxqueue, mailqueue>>
uartVars == <<charVars, devVars, inservice, current_task, status, hpc, c, tpc, ch, mailVars>>

Chars == {"good", "junk"}

UartTypeOK ==
  /\ received \in 0..MaxChars /\ printed \in 0..MaxChars
  /\ rx \in 0..FIFO /\ thri \in BOOLEAN /\ line \in BOOLEAN
  /\ inservice \in BOOLEAN
  /\ current_task \in Tasks
  /\ status \in [Tasks -> {"RUNNING", "READY", "BLOCKED", "IDLE"}]
  /\ hpc \in [Tasks -> {"none", "loop", "post"}]
  /\ c \in Chars /\ ch \in Chars
  /\ tpc \in {"fetch", "resched", "release", "print"}
  /\ box \in Seq(Chars) /\ Len(box) <= UART_MAILBOX_SIZE
  /\ box_sem \in 0..UART_MAILBOX_SIZE /\ mail_sem \in 0..UART_MAILBOX_SIZE
  /\ boxqueue \in Seq(Tasks) /\ mailqueue \in Seq(Tasks)

\* After uart_config: the mailbox is empty and uart_thread was created; main has
\* gone idle.
UartInit ==
  /\ received = 0 /\ printed = 0
  /\ rx = 0 /\ thri = FALSE /\ line = FALSE
  /\ inservice = FALSE
  /\ current_task = Thread
  /\ status = [t \in Tasks |-> CASE t = Thread -> "RUNNING" [] t = App -> "BLOCKED" [] OTHER -> "IDLE"]
  /\ hpc = [t \in Tasks |-> "none"]
  /\ c = "good" /\ ch = "good"
  /\ tpc = "fetch"
  /\ box = << >> /\ box_sem = UART_MAILBOX_SIZE /\ mail_sem = 0
  /\ boxqueue = << >> /\ mailqueue = << >>

-----------------------------------------------------------------------------
\* Scheduling, as functions of the statuses st: block_current_task,
\* wakeup_task and scheduler.

Block(t, st) == IF st[t] = "RUNNING" THEN [st EXCEPT ![t] = "BLOCKED"] ELSE st
Wake(t, st) == IF st[t] = "BLOCKED" THEN [st EXCEPT ![t] = "READY"] ELSE st

\* The task that scheduler chooses: the ready task of highest priority unless
\* the current one keeps the processor.
Chosen(st) ==
  LET ready == {t \in Tasks : st[t] = "READY"}
      best == CHOOSE t \in ready : \A u \in ready : u <= t
  IN  CASE ready = {} -> IF st[current_task] = "BLOCKED" THEN Idle ELSE current_task
        [] ready # {} /\ st[current_task] = "RUNNING" /\ best < current_task -> current_task
        [] OTHER -> best

Reschedule(st) ==
  LET n == Chosen(st)
      left == IF n # current_task /\ st[current_task] = "RUNNING"
              THEN [st EXCEPT ![current_task] = "READY"] ELSE st
  IN  /\ current_task' = n
      /\ status' = IF n = Idle THEN left ELSE [left EXCEPT ![n] = "RUNNING"]

\* The first waiter of a semaphore is woken by a post that found zero.
PostWakes(value, queue, st) == IF value = 0 /\ queue # << >> THEN Wake(Head(queue), st) ELSE st
PostDequeues(value, queue) == IF value = 0 /\ queue # << >> THEN Tail(queue) ELSE queue

-----------------------------------------------------------------------------
\* The device and the rest of the system.

receive ==
  /\ received < MaxChars /\ received - printed < Window /\ rx < FIFO
  /\ received' = received + 1
  /\ rx' = rx + 1
  /\ UNCHANGED <<printed, thri, line, inservice, current_task, status, hpc, c, tpc, ch, mailVars>>

line_error ==
  /\ LineErrors /\ ~line
  /\ line' = TRUE
  /\ UNCHANGED <<charVars, rx, thri, inservice, current_task, status, hpc, c, tpc, ch, mailVars>>

\* The other task sleeps, and is woken by some other interrupt.
app_sleep ==
  /\ current_task = App /\ hpc[App] = "none"
  /\ Reschedule(Block(App, status))
  /\ UNCHANGED <<charVars, devVars, inservice, hpc, c, tpc, ch, mailVars>>

app_wake ==
  /\ hpc[current_task] = "none"
  /\ status[App] = "BLOCKED" /\ hpc[App] = "none"
  /\ LET st == Wake(App, status) IN
       IF App > current_task THEN Reschedule(st) ELSE status' = st /\ UNCHANGED current_task
  /\ UNCHANGED <<charVars, devVars, inservice, hpc, c, tpc, ch, mailVars>>

-----------------------------------------------------------------------------
\* uart_handler

\* The processor takes the interrupt unless it is in a handler, where interrupts
\* are disabled, or the last one was not ended.
uart_irq ==
  /\ rx > 0 \/ thri \/ line
  /\ hpc[current_task] = "none" /\ ~inservice
  /\ inservice' = TRUE
  /\ hpc' = [hpc EXCEPT ![current_task] = "loop"]
  /\ UNCHANGED <<charVars, devVars, current_task, status, c, tpc, ch, mailVars>>

InLoop == hpc[current_task] = "loop"

\* Faulty variant: the handler ends by clearing the device's receiver.
handle_none_clearing ==
  /\ InLoop
  /\ ~line
  /\ thri' = FALSE /\ rx' = 0
  /\ inservice' = FALSE
  /\ hpc' = [hpc EXCEPT ![current_task] = "none"]
  /\ IF \E t \in Tasks : status[t] = "READY" /\ t > current_task
     THEN Reschedule(status) ELSE UNCHANGED <<current_task, status>>
  /\ UNCHANGED <<charVars, line, c, tpc, ch, mailVars>>

\* The end: irq_handler ends the interrupt and switches to a task of higher
\* priority.
handle_none ==
  /\ InLoop
  /\ rx = 0 /\ ~thri /\ ~line
  /\ inservice' = FALSE
  /\ hpc' = [hpc EXCEPT ![current_task] = "none"]
  /\ IF \E t \in Tasks : status[t] = "READY" /\ t > current_task
     THEN Reschedule(status) ELSE UNCHANGED <<current_task, status>>
  /\ UNCHANGED <<charVars, devVars, c, tpc, ch, mailVars>>

\* UART_IIR_RDI is one of the two bits of UART_IIR_RLSI: a line error, which the
\* device reports first, is taken for a character.  The line status register is
\* not read.
handle_rdi ==
  /\ InLoop
  /\ line \/ rx > 0
  /\ c' = IF rx > 0 THEN "good" ELSE "junk"
  /\ rx' = IF rx > 0 THEN rx - 1 ELSE 0
  /\ hpc' = [hpc EXCEPT ![current_task] = "post"]
  /\ UNCHANGED <<charVars, thri, line, inservice, current_task, status, tpc, ch, mailVars>>

handle_thri ==
  /\ InLoop
  /\ ~line /\ rx = 0 /\ thri
  /\ thri' = FALSE
  /\ UNCHANGED <<charVars, rx, line, inservice, current_task, status, hpc, c, tpc, ch, mailVars>>

\* The interrupt is still in service during the post.
PostEOI == UNCHANGED inservice

\* Faulty variant: a full mailbox loses the character.
HandlerBlocksNot ==
  /\ hpc' = [hpc EXCEPT ![current_task] = "loop"]
  /\ UNCHANGED <<boxqueue, current_task, status>>

\* No box is empty: the interrupted task waits, unless it is the idle task or is
\* already marked ready, and the processor goes to another one.
HandlerBlocks ==
  /\ boxqueue' = Append(boxqueue, current_task)
  /\ Reschedule(Block(current_task, status))
  /\ UNCHANGED hpc

HasBox == box_sem > 0

\* mailbox_post
handle_post ==
  /\ hpc[current_task] = "post"
  /\ IF HasBox
     THEN /\ box_sem' = box_sem - 1
          /\ box' = Append(box, c)
          /\ mail_sem' = mail_sem + 1
          /\ status' = PostWakes(mail_sem, mailqueue, status)
          /\ mailqueue' = PostDequeues(mail_sem, mailqueue)
          /\ hpc' = [hpc EXCEPT ![current_task] = "loop"]
          /\ UNCHANGED <<boxqueue, current_task>>
     ELSE HandlerBlocks /\ UNCHANGED <<box_sem, box, mail_sem, mailqueue>>
  /\ PostEOI
  /\ UNCHANGED <<charVars, devVars, c, tpc, ch>>

uart_handler == handle_none \/ handle_rdi \/ handle_thri \/ handle_post

-----------------------------------------------------------------------------
\* uart_thread

ThreadAt(where) == current_task = Thread /\ hpc[Thread] = "none" /\ tpc = where

thread_fetch ==
  /\ ThreadAt("fetch")
  /\ IF mail_sem > 0
     THEN /\ mail_sem' = mail_sem - 1
          /\ ch' = Head(box) /\ box' = Tail(box)
          /\ tpc' = "release"
          /\ UNCHANGED <<mailqueue, status>>
     ELSE /\ mailqueue' = Append(mailqueue, Thread)
          /\ status' = Block(Thread, status)
          /\ tpc' = "resched"
          /\ UNCHANGED <<mail_sem, box, ch>>
  /\ UNCHANGED <<charVars, devVars, inservice, current_task, hpc, c, box_sem, boxqueue>>

thread_resched ==
  /\ ThreadAt("resched")
  /\ tpc' = "fetch"
  /\ Reschedule(status)
  /\ UNCHANGED <<charVars, devVars, inservice, hpc, c, ch, mailVars>>

\* Faulty variant: the box is given back and nobody is woken.
ReleasedUnwoken == status

\* Whom the sem_post of box_sem wakes.
Released == PostWakes(box_sem, boxqueue, status)

thread_release ==
  /\ ThreadAt("release")
  /\ box_sem' = box_sem + 1
  /\ status' = Released
  /\ boxqueue' = PostDequeues(box_sem, boxqueue)
  /\ tpc' = "print"
  /\ UNCHANGED <<charVars, devVars, inservice, current_task, hpc, c, ch, box, mail_sem, mailqueue>>

\* kputchar writes to the device too, which reports when it is done.
thread_print ==
  /\ ThreadAt("print")
  /\ printed' = IF ch = "good" THEN printed + 1 ELSE printed
  /\ thri' = TRUE
  /\ tpc' = "fetch"
  /\ UNCHANGED <<received, rx, line, inservice, current_task, status, hpc, c, ch, mailVars>>

uart_thread == thread_fetch \/ thread_resched \/ thread_release \/ thread_print

-----------------------------------------------------------------------------
UartNext == receive \/ line_error \/ app_sleep \/ app_wake \/ uart_irq \/ uart_handler \/ uart_thread

UartSpec == UartInit /\ [][UartNext]_uartVars

\* The processor does not stop, an interrupt that stays pending is taken, and
\* the thread gets on whenever it has the processor again and again.
UartFairness ==
  /\ WF_uartVars(uart_handler)
  /\ SF_uartVars(uart_irq)
  /\ SF_uartVars(uart_thread)

-----------------------------------------------------------------------------
(***************************************************************************)
(* Properties.                                                             *)
(***************************************************************************)

Good(x) == x = "good"
GoodIn(s) == Cardinality({i \in 1..Len(s) : Good(s[i])})
One(b) == IF b THEN 1 ELSE 0

\* No character is lost or duplicated on its way from the device through the
\* handler, which may be suspended in the middle of a post, the mailbox and the
\* thread, whatever tasks the interrupts hit.
CharsConserved ==
  received = printed + rx
    + One(\E t \in Tasks : hpc[t] = "post" /\ Good(c))
    + GoodIn(box) + One(tpc \in {"release", "print"} /\ Good(ch))

\* The handler is active on one stack at a time, although it gives up the
\* processor with interrupts enabled for others: the controller holds back the
\* next interrupt.  So the character it carries is not overwritten.
OneHandler ==
  /\ \A t, u \in Tasks : hpc[t] # "none" /\ hpc[u] # "none" => t = u
  /\ (\E t \in Tasks : hpc[t] # "none") = inservice

\* A task that the handler blocked because the mailbox was full is woken when a
\* box becomes empty.
NoTaskLeftBlocked ==
  \A t \in Tasks \ {current_task} :
    hpc[t] = "post" /\ status[t] = "BLOCKED" => box_sem = 0

\* Every character that comes in is printed in the end: "handles all incoming
\* messages", the comment on uart_thread says.
AllHandled == \A n \in 1..MaxChars : received >= n ~> printed >= n

\* A line status interrupt is acknowledged, as the comment in the branch for it
\* says.
LineAcknowledged == line ~> ~line

\* The same as long as the mailbox has room for what is not yet printed and there
\* are no line errors.
AllHandledWithRoom ==
  [](received - printed <= UART_MAILBOX_SIZE /\ ~line) => AllHandled

\* The handler's stack and the character it carries are its own, and so every
\* character is at one place.
CharsTracked == UartTypeOK /\ OneHandler /\ CharsConserved
=============================================================================
