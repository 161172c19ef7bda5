----------------------------- MODULE MCInterrupts -----------------------------
(***************************************************************************)
(* Small instances of the parts that meet in interrupts: the irqsave       *)
(* locks, the mailbox and the serial driver.  They do not share state, so  *)
(* each behaviour runs one of them and leaves the others as they began.    *)
(***************************************************************************)
EXTENDS IrqSpinlock, Mailbox, Uart

VARIABLE part

allVars == <<part, irqSpinVars, mailboxVars, uartVars>>

MCInit ==
  /\ part \in {"irqsave", "mailbox", "uart"}
  /\ IrqSpinInit /\ MailboxInit /\ UartInit

MCNext ==
  /\ \/ part = "irqsave" /\ IrqSpinNext /\ UNCHANGED <<mailboxVars, uartVars>>
     \/ part = "mailbox" /\ MailboxNext /\ UNCHANGED <<irqSpinVars, uartVars>>
     \/ part = "uart" /\ UartNext /\ UNCHANGED <<irqSpinVars, mailboxVars>>
  /\ UNCHANGED part

MCSpec == MCInit /\ [][MCNext]_allVars /\ (part = "uart" => UartFairness)
=============================================================================
