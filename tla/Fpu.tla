---------------------------------- MODULE Fpu ----------------------------------
(***************************************************************************)
(* The lazy switching of the FPU, on top of Scheduler.  A context switch   *)
(* sets cr0.TS; the next FPU instruction traps into fpu_handler, which     *)
(* loads the registers of the current task; scheduler saves them when a    *)
(* task that used them is preempted.                                       *)
(***************************************************************************)
EXTENDS Scheduler

CONSTANTS
  MayBlock,   \* whether a program blocks while the registers are its own
  LoadFirst   \* the FPU is used by programs that clear_fpu_flags has loaded, and
              \* else by kernel tasks

ASSUME FpuAssumption == MayBlock \in BOOLEAN /\ LoadFirst \in BOOLEAN

VARIABLES
  TS,         \* cr0.TS
  regs,       \* the content of the FPU registers
  fpu,        \* task_t.fpu, the saved registers
  used, init, \* TASK_FPU_USED and TASK_FPU_INIT of task_t.flags
  own,        \* what each task's program has computed; not in the code
  loaded      \* the tasks that execute a loaded program

fpuVars == <<TS, regs, fpu, used, init, own, loaded>>
fvars == <<vars, fpuVars>>

\* The content of the registers: initialised, or the last result of a task, of
\* which it alternates between two.
Fresh == <<Idle, 0>>
Contents == Tasks \X {0, 1}

FpuTypeOK ==
  /\ TypeOK
  /\ TS \in BOOLEAN
  /\ regs \in Contents
  /\ fpu \in [Tasks -> Contents]
  /\ used \in [Tasks -> BOOLEAN] /\ init \in [Tasks -> BOOLEAN]
  /\ own \in [Tasks -> Contents]
  /\ loaded \in SUBSET Tasks

FpuInit ==
  /\ Init
  /\ TS = FALSE
  /\ regs = Fresh
  /\ fpu = [t \in Tasks |-> <<Idle, 1>>]
  /\ used = [t \in Tasks |-> FALSE] /\ init = [t \in Tasks |-> FALSE]
  /\ own = [t \in Tasks |-> Fresh]
  /\ loaded = {}

-----------------------------------------------------------------------------
FpuRunning == ctx = "task" /\ pc[current_task] = "run" /\ current_task # Idle
MayUse == FpuRunning /\ (LoadFirst => current_task \in loaded)

\* A program starts: clear_fpu_flags clears the flags.
clear_fpu_flags ==
  /\ FpuRunning
  /\ LoadFirst /\ current_task \notin loaded
  /\ loaded' = loaded \cup {current_task}
  /\ used' = [used EXCEPT ![current_task] = FALSE]
  /\ init' = [init EXCEPT ![current_task] = FALSE]
  /\ UNCHANGED <<vars, TS, regs, fpu, own>>

\* What fpu_handler restores.
FirstState(t) == IF init[t] THEN fpu[t] ELSE Fresh

\* The trap of an FPU instruction, and fpu_handler.
fpu_handler ==
  /\ MayUse
  /\ TS
  /\ TS' = FALSE
  /\ fpu' = [fpu EXCEPT ![current_task] = FirstState(current_task)]
  /\ regs' = fpu'[current_task]
  /\ init' = [init EXCEPT ![current_task] = TRUE]
  /\ used' = [used EXCEPT ![current_task] = TRUE]
  /\ UNCHANGED <<vars, own, loaded>>

\* An FPU instruction that does not trap computes a new result.
compute ==
  /\ MayUse
  /\ ~TS
  /\ own' = [own EXCEPT ![current_task] = <<current_task, 1 - @[2]>>]
  /\ regs' = own'[current_task]
  /\ UNCHANGED <<vars, TS, fpu, used, init, loaded>>

-----------------------------------------------------------------------------
Saved(t) == used[t] /\ status'[t] = "READY"

\* Faulty variant: the flag is not cleared.
SaveKeepsFlag ==
  /\ fpu' = IF current_task' # current_task /\ Saved(current_task)
            THEN [fpu EXCEPT ![current_task] = regs] ELSE fpu
  /\ UNCHANGED used

\* The end of scheduler, for whoever called it.
SaveOnSwitch ==
  IF current_task' # current_task /\ Saved(current_task)
  THEN /\ fpu' = [fpu EXCEPT ![current_task] = regs]
       /\ used' = [used EXCEPT ![current_task] = FALSE]
  ELSE UNCHANGED <<fpu, used>>

Schedules ==
  /\ reschedule \/ irq_leave
  /\ SaveOnSwitch
  /\ UNCHANGED <<TS, regs, init, own, loaded>>

\* common_switch
FpuSwitches ==
  /\ finish_task_switch
  /\ TS' = TRUE
  /\ UNCHANGED <<regs, fpu, used, init, own, loaded>>

\* The new task of a slot has computed nothing yet; its flags are left as the
\* previous one had them.
FpuCreates ==
  /\ \E p \in Prios : create_kernel_task(p, TRUE)
  /\ own' = [t \in Tasks |-> IF status[t] = "INVALID" THEN Fresh ELSE own[t]]
  /\ loaded' = {t \in loaded : status[t] # "INVALID"}
  /\ UNCHANGED <<TS, regs, fpu, used, init>>

FpuOthers ==
  /\ \/ (MayBlock \/ ~MayUse \/ ~used[current_task]) /\ block_current_task
     \/ \E t \in Tasks : wakeup_task(t)
     \/ do_exit_count
     \/ do_exit_finish
     \/ \E kind \in {"timer", "device"} : irq_enter(kind)
  /\ UNCHANGED fpuVars

FpuNext == clear_fpu_flags \/ fpu_handler \/ compute \/ Schedules \/ FpuSwitches \/ FpuCreates \/ FpuOthers

FpuSpec == FpuInit /\ [][FpuNext]_fvars

-----------------------------------------------------------------------------
(***************************************************************************)
(* Properties.                                                             *)
(***************************************************************************)

\* Whenever a task's FPU instruction would not trap, the registers hold what
\* this task computed last, or their initial state, however often the task was
\* preempted, whoever used the FPU meanwhile and whoever had the slot before.
RegistersAreMine == MayUse /\ ~TS => regs = own[current_task]

\* The results of a preempted task are in its task structure, and it is not
\* marked as having registers that are yet to be saved: else its next switch
\* would save those of somebody else.
SavedStateIsMine ==
  \A t \in Tasks :
    status[t] = "READY" /\ pc[t] = "run" /\ t # current_task /\ own[t] # Fresh
    => init[t] /\ fpu[t] = own[t] /\ ~used[t]

\* Running or preempted, a task keeps its FPU results.
FpuIsMine == FpuTypeOK /\ RegistersAreMine /\ SavedStateIsMine
=============================================================================
