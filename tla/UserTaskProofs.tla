---------------------------- MODULE UserTaskProofs ----------------------------
(***************************************************************************)
(* For every number of tasks and priorities: with lazy switching a task    *)
(* keeps its FPU results, if programs do not block while the registers are *)
(* theirs and use the FPU only after clear_fpu_flags; and the heap of a    *)
(* program is what sbrk told it, while it is the only program.             *)
(***************************************************************************)
EXTENDS Fpu, UserHeap, SchedulerProofs

\* The registers are those of t: it has the processor, and its FPU instructions do not
\* trap.
OnFpu(t) == t = current_task /\ t # Idle /\ ~TS /\ ctx # "switch"

Alive(t) == status[t] \in {"READY", "RUNNING", "BLOCKED"}

OwnTypes ==
  /\ TS \in BOOLEAN
  /\ regs \in Contents
  /\ fpu \in [Tasks -> Contents]
  /\ used \in [Tasks -> BOOLEAN] /\ init \in [Tasks -> BOOLEAN]
  /\ own \in [Tasks -> Contents]
  /\ loaded \in SUBSET Tasks

\* The task on the FPU is marked as such, and has not begun to block.
OnFpuRight ==
  \A t \in Tasks : OnFpu(t) =>
    /\ t \in loaded /\ used[t] /\ init[t] /\ regs = own[t]
    /\ status[t] \notin {"READY", "BLOCKED"}

\* Every other program has its results in its task structure, or none yet.
OffFpuRight ==
  \A t \in loaded : Alive(t) /\ ~OnFpu(t) =>
    ~used[t] /\ own[t] = FirstState(t)

\* Only programs that were loaded have results.
ResultsLoaded == \A t \in Tasks : Alive(t) /\ own[t] # Fresh => t \in loaded

\* The inductive invariant, next to the scheduler's own.
FpuInv == OwnTypes /\ OnFpuRight /\ OffFpuRight /\ ResultsLoaded /\ Idle \notin loaded

Assumed == ~MayBlock /\ LoadFirst

-----------------------------------------------------------------------------
\* The types of the constants.
LEMMA FpuConstants == Fresh \in Contents /\ Idle \in Tasks
BY Constants DEF Fresh, Contents

\* The invariant holds at first.
LEMMA FpuInitInv == FpuInit => FpuInv
<1> SUFFICES ASSUME FpuInit PROVE FpuInv
  OBVIOUS
<1>1. <<Idle, 1>> \in Contents
  BY FpuConstants DEF Contents
<1>2. OwnTypes
  BY <1>1, FpuConstants DEF FpuInit, OwnTypes
<1>3. OnFpuRight /\ OffFpuRight /\ ResultsLoaded
  BY DEF FpuInit, Init, OnFpuRight, OffFpuRight, ResultsLoaded, OnFpu
<1>4. QED
  BY <1>2, <1>3 DEF FpuInv, FpuInit

\* What scheduler does to the statuses: a task that is switched away from is
\* TASK_READY if it was TASK_RUNNING, and nobody comes to life.
LEMMA SchedulerStatus ==
  ASSUME IInv, scheduler, ctx # "switch"
  PROVE  /\ \A t \in Tasks : Alive(t)' => Alive(t)
         /\ current_task' # current_task /\ status[current_task] = "RUNNING"
              => status'[current_task] = "READY"
         /\ current_task' # current_task => ctx' = "switch"
         /\ current_task' = current_task => ctx' # "switch" /\ status'[current_task] \in {"RUNNING", "IDLE"}
<1>1. current_task \in Tasks /\ status \in [Tasks -> Statuses] /\ Idle \in Tasks
  BY Constants DEF IInv, TypeOK
<1>2. CASE Keep
  BY <1>1, <1>2 DEF Keep, Alive
<1>3. CASE SwitchToIdle
  <2>1. current_task # Idle
    BY <1>1, <1>3 DEF SwitchToIdle, IInv, TaskStates
  <2>2. QED
    BY <1>1, <1>3, <2>1 DEF SwitchToIdle, Reaped, Alive
<1>4. ASSUME NEW p \in Prios, SwitchToFirst(p)
      PROVE  /\ \A t \in Tasks : Alive(t)' => Alive(t)
             /\ current_task' # current_task /\ status[current_task] = "RUNNING"
                  => status'[current_task] = "READY"
             /\ current_task' # current_task => ctx' = "switch"
             /\ current_task' = current_task => ctx' # "switch" /\ status'[current_task] \in {"RUNNING", "IDLE"}
  <2> DEFINE new == first[p]
  <2>1. first[p] # NULL
    BY <1>4 DEF SwitchToFirst, Highest, IInv, BitmapExact
  <2>2. new \in Tasks /\ status[new] = "READY"
    BY <2>1, QueueEnds DEF IInv, Queued
  <2>3. QED
    BY <1>1, <1>4, <2>2 DEF SwitchToFirst, Reaped, Alive
<1>5. QED
  BY <1>2, <1>3, <1>4 DEF scheduler

-----------------------------------------------------------------------------
\* A program starts.
LEMMA LoadInv ==
  ASSUME IInv, FpuInv, clear_fpu_flags
  PROVE  FpuInv'
<1> DEFINE c == current_task
<1>1. /\ c \in Tasks /\ c # Idle /\ c \notin loaded /\ ctx = "task" /\ status[c] = "RUNNING"
      /\ loaded' = loaded \cup {c} /\ used' = [used EXCEPT ![c] = FALSE] /\ init' = [init EXCEPT ![c] = FALSE]
      /\ UNCHANGED <<TS, regs, fpu, own, status, current_task, ctx>>
  BY DEF clear_fpu_flags, FpuRunning, IInv, TypeOK, TaskStates, vars, tableVars, queueVars
<1>2. OwnTypes'
  BY <1>1 DEF FpuInv, OwnTypes
<1>3. TS
  BY <1>1 DEF FpuInv, OnFpuRight, OnFpu
<1>4. OnFpuRight'
  BY <1>1, <1>3 DEF OnFpuRight, OnFpu
<1>5. own[c] = Fresh
  BY <1>1 DEF FpuInv, ResultsLoaded, Alive
<1>6. OffFpuRight'
  <2> SUFFICES ASSUME NEW t \in loaded', Alive(t)', ~OnFpu(t)' PROVE ~used'[t] /\ own'[t] = FirstState(t)'
    BY DEF OffFpuRight
  <2>1. CASE t = c
    BY <1>1, <1>5, <2>1 DEF FpuInv, OwnTypes, FirstState
  <2>2. CASE t # c
    BY <1>1, <2>2 DEF FpuInv, OwnTypes, OffFpuRight, FirstState, Alive, OnFpu
  <2>3. QED
    BY <2>1, <2>2
<1>7. ResultsLoaded' /\ Idle \notin loaded'
  BY <1>1 DEF FpuInv, ResultsLoaded, Alive
<1>8. QED
  BY <1>2, <1>4, <1>6, <1>7 DEF FpuInv

\* The first FPU instruction after a switch loads the task's own results.
LEMMA TrapInv ==
  ASSUME Assumed, IInv, FpuInv, fpu_handler
  PROVE  FpuInv'
<1> DEFINE c == current_task
<1>1. /\ c \in Tasks /\ c # Idle /\ c \in loaded /\ ctx = "task" /\ status[c] = "RUNNING" /\ TS
      /\ TS' = FALSE /\ fpu' = [fpu EXCEPT ![c] = FirstState(c)] /\ regs' = fpu'[c]
      /\ used' = [used EXCEPT ![c] = TRUE] /\ init' = [init EXCEPT ![c] = TRUE]
      /\ UNCHANGED <<own, loaded, status, current_task, ctx>>
  BY DEF Assumed, fpu_handler, MayUse, FpuRunning, IInv, TypeOK, TaskStates, vars, tableVars, queueVars
<1>2. FirstState(c) = own[c] /\ own[c] \in Contents
  BY <1>1 DEF FpuInv, OwnTypes, OffFpuRight, Alive, OnFpu
<1>3. OwnTypes'
  BY <1>1, <1>2 DEF FpuInv, OwnTypes
<1>4. OnFpuRight'
  BY <1>1, <1>2 DEF FpuInv, OwnTypes, OnFpuRight, OnFpu
<1>5. OffFpuRight'
  <2> SUFFICES ASSUME NEW t \in loaded, Alive(t), ~OnFpu(t)' PROVE ~used'[t] /\ own[t] = FirstState(t)'
    BY <1>1 DEF OffFpuRight, Alive
  <2>1. t # c
    BY <1>1 DEF OnFpu
  <2>2. QED
    BY <1>1, <2>1 DEF FpuInv, OwnTypes, OffFpuRight, FirstState, OnFpu
<1>6. ResultsLoaded' /\ Idle \notin loaded'
  BY <1>1 DEF FpuInv, ResultsLoaded, Alive
<1>7. QED
  BY <1>3, <1>4, <1>5, <1>6 DEF FpuInv

\* An FPU instruction that does not trap.
LEMMA ComputeInv ==
  ASSUME Assumed, IInv, FpuInv, compute
  PROVE  FpuInv'
<1> DEFINE c == current_task
           v == <<c, 1 - own[c][2]>>
<1>1. /\ c \in Tasks /\ c # Idle /\ c \in loaded /\ ctx = "task" /\ status[c] = "RUNNING" /\ ~TS
      /\ own' = [own EXCEPT ![c] = v] /\ regs' = own'[c]
      /\ UNCHANGED <<TS, fpu, used, init, loaded, status, current_task, ctx>>
  BY DEF Assumed, compute, MayUse, FpuRunning, IInv, TypeOK, TaskStates, vars, tableVars, queueVars
<1>2. v \in Contents
  BY <1>1 DEF FpuInv, OwnTypes, Contents
<1> HIDE DEF v
<1>3. OwnTypes'
  BY <1>1, <1>2 DEF FpuInv, OwnTypes
<1>4. OnFpuRight'
  BY <1>1, <1>2 DEF FpuInv, OwnTypes, OnFpuRight, OnFpu
<1>5. OffFpuRight'
  <2> SUFFICES ASSUME NEW t \in loaded, Alive(t), ~OnFpu(t) PROVE ~used[t] /\ own'[t] = FirstState(t)
    BY <1>1 DEF OffFpuRight, Alive, OnFpu, FirstState
  <2>1. t # c
    BY <1>1 DEF OnFpu
  <2>2. QED
    BY <1>1, <2>1 DEF FpuInv, OwnTypes, OffFpuRight
<1>6. ResultsLoaded' /\ Idle \notin loaded'
  BY <1>1 DEF FpuInv, OwnTypes, ResultsLoaded, Alive
<1>7. QED
  BY <1>3, <1>4, <1>5, <1>6 DEF FpuInv

\* scheduler saves the registers of a task that it preempts.
LEMMA SchedulesInv ==
  ASSUME IInv, FpuInv, Schedules
  PROVE  FpuInv'
<1> DEFINE c == current_task
<1>1. /\ c \in Tasks /\ ctx # "switch" /\ UNCHANGED <<TS, regs, init, own, loaded>>
      /\ SaveOnSwitch
  BY DEF Schedules, reschedule, irq_leave, IInv, TypeOK
<1>2. /\ \A t \in Tasks : Alive(t)' => Alive(t)
      /\ current_task' # c /\ status[c] = "RUNNING" => status'[c] = "READY"
      /\ current_task' # c => ctx' = "switch"
      /\ current_task' = c => ctx' # "switch"
      /\ current_task' = c => \/ status'[c] \in {"RUNNING", "IDLE"}
                              \/ status'[c] = status[c]
  <2>1. CASE scheduler
    BY <1>1, <2>1, SchedulerStatus
  <2>2. CASE ~scheduler
    BY <2>2 DEF Schedules, reschedule, irq_leave, tableVars, queueVars, Alive
  <2>3. QED
    BY <2>1, <2>2
<1>3. CASE current_task' # c /\ Saved(c)
  <2>1. fpu' = [fpu EXCEPT ![c] = regs] /\ used' = [used EXCEPT ![c] = FALSE]
    BY <1>1, <1>3 DEF SaveOnSwitch
  <2>2. OwnTypes'
    BY <1>1, <2>1 DEF FpuInv, OwnTypes
  <2>3. OnFpuRight'
    BY <1>2, <1>3 DEF OnFpuRight, OnFpu
  <2>4. OffFpuRight'
    <3> SUFFICES ASSUME NEW t \in loaded, Alive(t)' PROVE ~used'[t] /\ own[t] = FirstState(t)'
      BY <1>1 DEF OffFpuRight
    <3>1. t \in Tasks /\ Alive(t)
      BY <1>2 DEF FpuInv, OwnTypes
    <3>2. CASE t # c
      BY <1>1, <2>1, <3>1, <3>2 DEF FpuInv, OwnTypes, OffFpuRight, OnFpu, FirstState
    <3>3. CASE t = c
      <4>1. OnFpu(c)
        BY <1>1, <1>3, <3>1, <3>3 DEF FpuInv, OffFpuRight, Saved
      <4>2. init[c] /\ regs = own[c]
        BY <1>1, <4>1 DEF FpuInv, OnFpuRight
      <4>3. QED
        BY <1>1, <2>1, <3>3, <4>2 DEF FpuInv, OwnTypes, FirstState
    <3>4. QED
      BY <3>2, <3>3
  <2>5. ResultsLoaded' /\ Idle \notin loaded'
    BY <1>1, <1>2 DEF FpuInv, ResultsLoaded
  <2>6. QED
    BY <2>2, <2>3, <2>4, <2>5 DEF FpuInv
<1>4. CASE ~(current_task' # c /\ Saved(c))
  <2>1. UNCHANGED <<fpu, used>>
    BY <1>1, <1>4 DEF SaveOnSwitch
  <2>2. OwnTypes'
    BY <1>1, <2>1 DEF FpuInv, OwnTypes
  <2>3. OnFpuRight'
    <3> SUFFICES ASSUME NEW t \in Tasks, OnFpu(t)'
                 PROVE  /\ t \in loaded /\ used[t] /\ init[t] /\ regs = own[t]
                        /\ status'[t] \notin {"READY", "BLOCKED"}
      BY <1>1, <2>1 DEF OnFpuRight
    <3>1. t = c /\ current_task' = c /\ OnFpu(c)
      BY <1>1, <1>2 DEF OnFpu
    <3>2. QED
      BY <1>1, <1>2, <3>1 DEF FpuInv, OnFpuRight
  <2>4. OffFpuRight'
    <3> SUFFICES ASSUME NEW t \in loaded, Alive(t)', ~OnFpu(t)' PROVE ~used[t] /\ own[t] = FirstState(t)
      BY <1>1, <2>1 DEF OffFpuRight, FirstState
    <3>1. t \in Tasks /\ Alive(t)
      BY <1>2 DEF FpuInv, OwnTypes
    <3>2. ~OnFpu(t)
      <4> SUFFICES ASSUME OnFpu(t) PROVE FALSE
        OBVIOUS
      <4>1. t = c /\ used[c] /\ status[c] = "RUNNING"
        BY <3>1 DEF OnFpu, FpuInv, OnFpuRight, Alive
      <4>2. current_task' = c
        BY <1>2, <1>4, <4>1 DEF Saved
      <4>3. QED
        BY <1>1, <1>2, <4>1, <4>2 DEF OnFpu
    <3>3. QED
      BY <3>1, <3>2 DEF FpuInv, OffFpuRight
  <2>5. ResultsLoaded' /\ Idle \notin loaded'
    BY <1>1, <1>2 DEF FpuInv, ResultsLoaded
  <2>6. QED
    BY <2>2, <2>3, <2>4, <2>5 DEF FpuInv
<1>5. QED
  BY <1>3, <1>4

\* common_switch sets TS.
LEMMA SwitchesInv ==
  ASSUME IInv, FpuInv, FpuSwitches
  PROVE  FpuInv'
<1>1. /\ TS' = TRUE /\ ctx = "switch"
      /\ UNCHANGED <<regs, fpu, used, init, own, loaded, status, current_task>>
  BY DEF FpuSwitches, finish_task_switch
<1>2. OwnTypes'
  BY <1>1 DEF FpuInv, OwnTypes
<1>3. OnFpuRight'
  BY <1>1 DEF OnFpuRight, OnFpu
<1>4. OffFpuRight'
  BY <1>1 DEF FpuInv, OffFpuRight, OnFpu, Alive, FirstState
<1>5. ResultsLoaded' /\ Idle \notin loaded'
  BY <1>1 DEF FpuInv, ResultsLoaded, Alive
<1>6. QED
  BY <1>2, <1>3, <1>4, <1>5 DEF FpuInv

\* A slot is reused; its flags are those of the previous task.
LEMMA CreatesInv ==
  ASSUME IInv, FpuInv, FpuCreates
  PROVE  FpuInv'
<1>1. PICK i \in Tasks : status[i] = "INVALID" /\ status' = [status EXCEPT ![i] = "READY"]
  BY DEF FpuCreates, create_kernel_task, create_task, FirstInvalid
<1>2. /\ own' = [t \in Tasks |-> IF status[t] = "INVALID" THEN Fresh ELSE own[t]]
      /\ loaded' = {t \in loaded : status[t] # "INVALID"}
      /\ UNCHANGED <<TS, regs, fpu, used, init, current_task, ctx>>
  BY DEF FpuCreates, create_kernel_task, create_task
<1>3. status \in [Tasks -> Statuses] /\ current_task \in Tasks /\ status[current_task] # "INVALID"
  BY DEF IInv, TypeOK, TaskStates
<1>4. \A t \in Tasks : status[t] # "INVALID" => status'[t] = status[t] /\ own'[t] = own[t]
  BY <1>1, <1>2, <1>3
<1>5. OwnTypes'
  BY <1>2, FpuConstants DEF FpuInv, OwnTypes
<1>6. OnFpuRight'
  BY <1>2, <1>3, <1>4 DEF FpuInv, OnFpuRight, OnFpu
<1>7. OffFpuRight'
  BY <1>2, <1>4 DEF FpuInv, OwnTypes, OffFpuRight, OnFpu, Alive, FirstState
<1>8. ResultsLoaded'
  <2> SUFFICES ASSUME NEW t \in Tasks, Alive(t)', own'[t] # Fresh PROVE t \in loaded'
    BY DEF ResultsLoaded
  <2>1. status[t] # "INVALID"
    BY <1>2
  <2>2. QED
    BY <1>2, <1>4, <2>1 DEF FpuInv, ResultsLoaded, Alive
<1>9. QED
  BY <1>2, <1>5, <1>6, <1>7, <1>8 DEF FpuInv

\* The rest of the kernel leaves the FPU alone; a task blocks off the FPU.
LEMMA OthersInv ==
  ASSUME Assumed, IInv, FpuInv, FpuOthers
  PROVE  FpuInv'
<1> DEFINE c == current_task
<1>1. /\ c \in Tasks /\ status \in [Tasks -> Statuses] /\ UNCHANGED <<TS, regs, fpu, used, init, own, loaded>>
      /\ current_task' = c /\ (ctx # "switch" <=> ctx' # "switch")
  BY DEF FpuOthers, fpuVars, IInv, TypeOK, block_current_task, wakeup_task, do_exit_count, do_exit_finish,
         irq_enter
<1>2. \A t \in Tasks : OnFpu(t)' <=> OnFpu(t)
  BY <1>1 DEF OnFpu
<1>3. /\ \A t \in Tasks : Alive(t)' => Alive(t)
      /\ \A t \in Tasks : OnFpu(t) /\ status'[t] \in {"READY", "BLOCKED"} => status[t] \in {"READY", "BLOCKED"}
  <2>1. CASE (MayBlock \/ ~MayUse \/ ~used[c]) /\ block_current_task
    <3>1. ~OnFpu(c)
      BY <1>1, <2>1 DEF Assumed, MayUse, FpuRunning, block_current_task, FpuInv, OnFpuRight, OnFpu
    <3>2. QED
      BY <1>1, <2>1, <3>1 DEF block_current_task, Alive, OnFpu
  <2>2. ASSUME NEW t \in Tasks, wakeup_task(t)
        PROVE  /\ \A u \in Tasks : Alive(u)' => Alive(u)
               /\ \A u \in Tasks : OnFpu(u) /\ status'[u] \in {"READY", "BLOCKED"} => status[u] \in {"READY", "BLOCKED"}
    BY <1>1, <2>2 DEF wakeup_task, Alive
  <2>3. CASE do_exit_finish
    BY <1>1, <2>3 DEF do_exit_finish, Alive
  <2>4. CASE do_exit_count \/ \E kind \in {"timer", "device"} : irq_enter(kind)
    BY <1>1, <2>4 DEF do_exit_count, irq_enter, tableVars, Alive
  <2>5. QED
    BY <2>1, <2>2, <2>3, <2>4 DEF FpuOthers
<1>4. OwnTypes'
  BY <1>1 DEF FpuInv, OwnTypes
<1>5. OnFpuRight'
  BY <1>1, <1>2, <1>3 DEF FpuInv, OnFpuRight
<1>6. OffFpuRight'
  BY <1>1, <1>2, <1>3 DEF FpuInv, OwnTypes, OffFpuRight, FirstState
<1>7. ResultsLoaded' /\ Idle \notin loaded'
  BY <1>1, <1>3 DEF FpuInv, ResultsLoaded
<1>8. QED
  BY <1>4, <1>5, <1>6, <1>7 DEF FpuInv

-----------------------------------------------------------------------------
\* Every step preserves the invariant.
LEMMA FpuNextInv == Assumed /\ IInv /\ FpuInv /\ [FpuNext]_fvars => FpuInv'
<1> SUFFICES ASSUME Assumed, IInv, FpuInv, [FpuNext]_fvars PROVE FpuInv'
  OBVIOUS
<1>1. CASE UNCHANGED fvars
  <2>1. UNCHANGED <<TS, regs, fpu, used, init, own, loaded, status, current_task, ctx>>
    BY <1>1 DEF fvars, fpuVars, vars, tableVars, queueVars
  <2>2. OwnTypes' /\ OnFpuRight'
    BY <2>1 DEF FpuInv, OwnTypes, OnFpuRight, OnFpu
  <2>3. OffFpuRight' /\ ResultsLoaded' /\ Idle \notin loaded'
    BY <2>1 DEF FpuInv, OffFpuRight, ResultsLoaded, OnFpu, Alive, FirstState
  <2>4. QED
    BY <2>2, <2>3 DEF FpuInv
<1>2. QED
  BY <1>1, LoadInv, TrapInv, ComputeInv, SchedulesInv, SwitchesInv, CreatesInv, OthersInv DEF FpuNext

\* The FPU changes nothing in the scheduler.
LEMMA FpuSchedulerStep == [FpuNext]_fvars => [Next]_vars
<1> SUFFICES ASSUME [FpuNext]_fvars PROVE [Next]_vars
  OBVIOUS
<1>1. Prios \subseteq 0..(MAX_PRIO + 1)
  BY SchedulerAssumption DEF Prios
<1>2. CASE FpuCreates
  BY <1>1, <1>2 DEF FpuCreates, Next
<1>3. CASE Schedules \/ FpuSwitches \/ FpuOthers
  BY <1>3 DEF Schedules, FpuSwitches, FpuOthers, Next
<1>4. CASE clear_fpu_flags \/ fpu_handler \/ compute \/ UNCHANGED fvars
  BY <1>4 DEF clear_fpu_flags, fpu_handler, compute, fvars
<1>5. QED
  BY <1>2, <1>3, <1>4 DEF FpuNext

\* Running or preempted, a task keeps its FPU results, whatever the number of tasks, if
\* programs use the FPU only once clear_fpu_flags has reset the flags that the slot's
\* previous task left, and do not block with unsaved registers: scheduler saves those of
\* a preempted task only.
THEOREM FpuCorrect == ~MayBlock /\ LoadFirst => (FpuSpec => []FpuIsMine)
<1> SUFFICES ASSUME Assumed PROVE FpuSpec => []FpuIsMine
  BY DEF Assumed
<1>1. FpuInit => IInv /\ FpuInv
  BY InitIInv, FpuInitInv DEF FpuInit
<1>2. IInv /\ FpuInv /\ [FpuNext]_fvars => (IInv /\ FpuInv)'
  BY FpuSchedulerStep, NextIInv, FpuNextInv
<1>3. IInv /\ FpuInv => FpuIsMine
  <2> SUFFICES ASSUME IInv, FpuInv PROVE FpuIsMine
    OBVIOUS
  <2>1. FpuTypeOK
    BY DEF IInv, FpuInv, OwnTypes, FpuTypeOK
  <2>2. RegistersAreMine
    BY DEF FpuInv, OnFpuRight, OnFpu, RegistersAreMine, MayUse, FpuRunning, IInv, TypeOK
  <2>3. SavedStateIsMine
    BY DEF FpuInv, OffFpuRight, ResultsLoaded, OnFpu, Alive, FirstState, SavedStateIsMine
  <2>4. QED
    BY <2>1, <2>2, <2>3 DEF FpuIsMine
<1>4. QED
  BY <1>1, <1>2, <1>3, PTL DEF FpuSpec

-----------------------------------------------------------------------------
(***************************************************************************)
(* The heap of a program, while no second task gets the processor.         *)
(***************************************************************************)
\* There is at most one task besides the idle task.
OneTask == \A t, u \in Tasks \ {Idle} : status[t] # "INVALID" /\ status[u] # "INVALID" => t = u

\* A program has the processor from load_task to its exit, and its descriptor is its own.
ProgramRuns ==
  \A t \in user :
    /\ t = current_task /\ t # Idle /\ ctx # "switch" /\ status[t] = "RUNNING" /\ pc[t] = "run"
    /\ heap[t] \in Blocks /\ owner[heap[t]] = t
    /\ brk[t] \in HeapStart..HeapMax /\ desc[heap[t]] = [start |-> HeapStart, end |-> brk[t]]

\* A task that has not loaded a program has no descriptor, and nobody blocks.
NothingLoaded ==
  /\ \A t \in Tasks \ user : Alive(t) /\ pc[t] = "run" => heap[t] = None
  /\ \A t \in Tasks : pc[t] # "resched"

HeapInv == HeapTypeOK /\ OneTask /\ ProgramRuns /\ NothingLoaded /\ ~halted

\* The types of the constants.
LEMMA HeapConstants ==
  /\ HeapStart \in 0..(WORD - 1) /\ HeapMax \in 0..(WORD - 1) /\ WORD \in Nat \ {0}
  /\ HeapStart \in Nat /\ HeapMax \in Nat /\ HeapStart <= HeapMax /\ MaxIncr \in Nat /\ MaxIncr <= HeapStart
  /\ FirstEnd \in [start : 0..(WORD - 1), end : 0..(WORD - 1)]
BY UserHeapAssumption DEF FirstEnd

LEMMA HeapInitInv == HeapInit => HeapInv
<1> SUFFICES ASSUME HeapInit PROVE HeapInv
  OBVIOUS
<1>1. TypeOK
  BY InitIInv DEF HeapInit, IInv
<1>2. free \in Seq(Blocks)
  <2> DEFINE n == Cardinality(Blocks)
  <2>1. PICK k \in Nat : ExistsBijection(1..k, Blocks)
    BY UserHeapAssumption, FS_NatBijection
  <2>2. n = k
    BY <2>1, FS_CountingElements
  <2>3. PICK g \in [1..n -> Blocks] : IsInjective(g)
    BY <2>1, <2>2 DEF ExistsBijection, Bijection, Injection
  <2>4. SetToSeq(Blocks) \in [1..n -> Blocks]
    BY <2>3 DEF SetToSeq
  <2>5. n \in Nat
    BY <2>2
  <2> HIDE DEF n
  <2>6. \A f \in [1..n -> Blocks] : f \in Seq(Blocks)
    BY <2>5
  <2>7. QED
    BY <2>4, <2>6 DEF HeapInit
<1>3. HeapTypeOK
  <2>1. 0 \in 0..(WORD - 1)
    BY HeapConstants
  <2>2. desc \in [Blocks -> [start : 0..(WORD - 1), end : 0..(WORD - 1)]]
    BY <2>1 DEF HeapInit
  <2>3. QED
    BY <1>1, <1>2, <2>1, <2>2 DEF HeapInit, HeapTypeOK
<1>4. OneTask /\ ProgramRuns /\ NothingLoaded /\ ~halted
  BY DEF HeapInit, Init, OneTask, ProgramRuns, NothingLoaded
<1>5. QED
  BY <1>3, <1>4 DEF HeapInv

\* The current task starts a program: a descriptor is allocated for it.
LEMMA LoadTaskInv ==
  ASSUME IInv, HeapInv, load_task
  PROVE  HeapInv'
<1> DEFINE t == current_task
           b == Head(free)
<1>1. /\ t \in Tasks /\ t # Idle /\ t \notin user /\ ctx = "task" /\ pc[t] = "run" /\ ~halted
      /\ UNCHANGED <<status, prio, next, prev, first, last, prio_bitmap, nr_tasks, old_task, current_task, pc, ctx, mapped, halted>>
      /\ desc' = [desc EXCEPT ![heap'[t]] = FirstEnd]
      /\ user' = user \cup {t}
      /\ brk' = [brk EXCEPT ![t] = HeapStart]
  BY DEF load_task, HeapRunning, IInv, TypeOK, vars, tableVars, queueVars
<1>2. user = {}
  BY <1>1 DEF HeapInv, ProgramRuns
<1>3. status[t] = "RUNNING"
  BY <1>1 DEF IInv, TaskStates
<1>4. heap[t] = None
  BY <1>1, <1>3 DEF HeapInv, NothingLoaded, Alive
<1>5. /\ free # << >> /\ heap' = [heap EXCEPT ![t] = b]
      /\ owner' = [owner EXCEPT ![b] = t] /\ free' = Tail(free)
  BY <1>4 DEF load_task
<1>6. b \in Blocks /\ free' \in Seq(Blocks)
  BY <1>5 DEF HeapInv, HeapTypeOK
<1>7. heap'[t] = b /\ owner'[b] = t /\ desc'[b] = FirstEnd /\ brk'[t] = HeapStart
  BY <1>1, <1>5, <1>6 DEF HeapInv, HeapTypeOK
<1>8. HeapTypeOK'
  <2>1. TypeOK'
    BY <1>1 DEF HeapInv, HeapTypeOK, TypeOK
  <2>2. desc' \in [Blocks -> [start : 0..(WORD - 1), end : 0..(WORD - 1)]]
    BY <1>1, <1>6, <1>7, HeapConstants DEF HeapInv, HeapTypeOK
  <2>3. brk' \in [Tasks -> 0..(WORD - 1)]
    BY <1>1, HeapConstants DEF HeapInv, HeapTypeOK
  <2>4. heap' \in [Tasks -> Blocks \cup {None}] /\ owner' \in [Blocks -> Tasks \cup {None}] /\ user' \in SUBSET Tasks
    BY <1>1, <1>5, <1>6 DEF HeapInv, HeapTypeOK
  <2>5. QED
    BY <1>1, <1>6, <2>1, <2>2, <2>3, <2>4 DEF HeapInv, HeapTypeOK
<1>9. ProgramRuns'
  <2>1. HeapStart \in HeapStart..HeapMax
    BY HeapConstants
  <2>2. QED
    BY <1>1, <1>2, <1>3, <1>6, <1>7, <2>1 DEF ProgramRuns, FirstEnd
<1>10. OneTask' /\ NothingLoaded' /\ ~halted'
  BY <1>1, <1>5 DEF HeapInv, HeapTypeOK, OneTask, NothingLoaded, Alive
<1>11. QED
  BY <1>8, <1>9, <1>10 DEF HeapInv

\* sbrk moves the end in the descriptor as it tells the program: nothing overflows.
LEMMA SbrkInv ==
  ASSUME IInv, HeapInv, NEW incr \in -MaxIncr..MaxIncr, sys_sbrk(incr)
  PROVE  HeapInv'
<1> DEFINE t == current_task
           b == heap[t]
           sum == brk[t] + incr
           new == IF sum < HeapStart THEN HeapStart ELSE sum
<1>1. /\ t \in user /\ t \in Tasks
      /\ UNCHANGED <<status, prio, next, prev, first, last, prio_bitmap, nr_tasks, old_task, current_task, pc, ctx>>
      /\ UNCHANGED <<heap, free, owner, user, mapped, halted>>
  BY DEF sys_sbrk, InUser, IInv, TypeOK, vars, tableVars, queueVars
<1>2. /\ b \in Blocks /\ desc[b] = [start |-> HeapStart, end |-> brk[t]] /\ brk[t] \in HeapStart..HeapMax
      /\ desc[b].start = HeapStart /\ desc[b].end = brk[t]
  BY <1>1 DEF HeapInv, ProgramRuns
<1>3. sum <= HeapMax /\ sum \in Nat /\ sum < WORD
  <2>1. desc[b].end + incr <= HeapMax
    BY DEF sys_sbrk
  <2>2. brk[t] \in Nat /\ brk[t] >= HeapStart /\ incr \in Int /\ incr >= -MaxIncr
    BY <1>2, HeapConstants
  <2>3. QED
    BY <1>2, <2>1, <2>2, HeapConstants
<1>4. sum % WORD = sum
  <2> HIDE DEF sum
  <2> QED BY <1>3, HeapConstants
<1>5. NewEnd(HeapStart, brk[t], incr) = new /\ new \in HeapStart..HeapMax /\ new \in 0..(WORD - 1)
  <2>1. NewEnd(HeapStart, brk[t], incr) = new
    BY <1>4 DEF NewEnd
  <2> HIDE DEF sum
  <2>2. new \in HeapStart..HeapMax /\ new \in 0..(WORD - 1)
    BY <1>3, HeapConstants
  <2>3. QED
    BY <2>1, <2>2
<1>6. desc' = [desc EXCEPT ![b].end = new] /\ brk' = [brk EXCEPT ![t] = new]
  BY <1>2, <1>5 DEF sys_sbrk
<1> HIDE DEF new
<1>7. desc'[b] = [start |-> HeapStart, end |-> new] /\ brk'[t] = new
  BY <1>1, <1>2, <1>6 DEF HeapInv, HeapTypeOK
<1>8. HeapTypeOK'
  <2>1. TypeOK'
    BY <1>1 DEF HeapInv, HeapTypeOK, TypeOK
  <2>2. brk' \in [Tasks -> 0..(WORD - 1)]
    BY <1>5, <1>6 DEF HeapInv, HeapTypeOK
  <2>3. desc' \in [Blocks -> [start : 0..(WORD - 1), end : 0..(WORD - 1)]]
    <3>1. desc' = [desc EXCEPT ![b] = [start |-> HeapStart, end |-> new]]
      BY <1>2, <1>6, <1>7 DEF HeapInv, HeapTypeOK
    <3>2. [start |-> HeapStart, end |-> new] \in [start : 0..(WORD - 1), end : 0..(WORD - 1)]
      BY <1>5, HeapConstants
    <3>3. QED
      BY <3>1, <3>2 DEF HeapInv, HeapTypeOK
  <2>4. QED
    BY <1>1, <2>1, <2>2, <2>3 DEF HeapInv, HeapTypeOK
<1>9. ProgramRuns'
  <2>1. user = {t}
    BY <1>1 DEF HeapInv, ProgramRuns
  <2>2. QED
    BY <1>1, <1>5, <1>7, <2>1 DEF HeapInv, ProgramRuns
<1>10. OneTask' /\ NothingLoaded' /\ ~halted'
  BY <1>1 DEF HeapInv, OneTask, NothingLoaded, Alive
<1>11. QED
  BY <1>8, <1>9, <1>10 DEF HeapInv

\* A page of the memory that sbrk gave is found in the heap.
LEMMA FaultInv ==
  ASSUME IInv, HeapInv, NEW page \in HeapStart..HeapMax, page_fault(page)
  PROVE  HeapInv'
<1> DEFINE t == current_task
<1>1. /\ t \in user /\ t \in Tasks
      /\ UNCHANGED <<status, prio, next, prev, first, last, prio_bitmap, nr_tasks, old_task, current_task, pc, ctx>>
      /\ UNCHANGED <<heap, desc, free, owner, user, brk>>
  BY DEF page_fault, InUser, IInv, TypeOK, vars, tableVars, queueVars
<1>2. InHeap(heap[t], page)
  <2>1. desc[heap[t]] = [start |-> HeapStart, end |-> brk[t]]
    BY <1>1 DEF HeapInv, ProgramRuns
  <2>2. HeapStart <= page /\ page < brk[t]
    BY DEF page_fault
  <2>3. QED
    BY <2>1, <2>2 DEF InHeap
<1>3. mapped' = [mapped EXCEPT ![t] = @ \cup {page}] /\ halted' = halted
  BY <1>2 DEF page_fault
<1>4. mapped' \in [Tasks -> SUBSET (0..(WORD - 1))]
  <2>1. page \in 0..(WORD - 1)
    BY HeapConstants
  <2>2. QED
    BY <1>1, <1>3, <2>1 DEF HeapInv, HeapTypeOK
<1>5. HeapTypeOK'
  BY <1>1, <1>3, <1>4 DEF HeapInv, HeapTypeOK, TypeOK
<1>6. OneTask' /\ ProgramRuns' /\ NothingLoaded' /\ ~halted'
  BY <1>1, <1>3 DEF HeapInv, OneTask, ProgramRuns, NothingLoaded, Alive
<1>7. QED
  BY <1>5, <1>6 DEF HeapInv

\* A switch to a task happens only while no program runs, so the descriptor that
\* finish_task_switch frees is not in use.
LEMMA HeapSwitchesInv ==
  ASSUME IInv, HeapInv, HeapSwitches
  PROVE  HeapInv'
<1> DEFINE b == heap[current_task]
<1>1. /\ current_task \in Tasks /\ ctx = "switch" /\ ctx' = "task"
      /\ UNCHANGED <<status, current_task, pc, heap, desc, user, brk, mapped, halted>>
  BY DEF HeapSwitches, finish_task_switch, IInv, TypeOK
<1>2. user = {}
  BY <1>1 DEF HeapInv, ProgramRuns
<1>3. free' \in Seq(Blocks) /\ owner' \in [Blocks -> Tasks \cup {None}]
  <2>1. b \in Blocks \cup {None} /\ Frees(b)
    BY <1>1 DEF HeapInv, HeapTypeOK, HeapSwitches, SwitchFrees
  <2>2. CASE b = None \/ Contains(free, b)
    BY <2>1, <2>2 DEF Frees, HeapInv, HeapTypeOK
  <2>3. CASE ~(b = None \/ Contains(free, b))
    <3> HIDE DEF b
    <3>1. free' = <<b>> \o free /\ owner' = [owner EXCEPT ![b] = None] /\ b \in Blocks
      BY <2>1, <2>3 DEF Frees
    <3>2. QED
      BY <3>1 DEF HeapInv, HeapTypeOK
  <2>4. QED
    BY <2>2, <2>3
<1>4. TypeOK'
  BY FinishIInv DEF HeapSwitches, IInv
<1>5. HeapTypeOK'
  BY <1>1, <1>3, <1>4 DEF HeapInv, HeapTypeOK
<1>6. OneTask' /\ ProgramRuns' /\ NothingLoaded' /\ ~halted'
  BY <1>1, <1>2 DEF HeapInv, OneTask, ProgramRuns, NothingLoaded, Alive
<1>7. QED
  BY <1>5, <1>6 DEF HeapInv

\* The idle task creates the next task when the last one is gone.
LEMMA HeapCreatesInv ==
  ASSUME MaxUsers <= 1, IInv, HeapInv, IInv', HeapCreates
  PROVE  HeapInv'
<1> DEFINE Others == {t \in Tasks \ {Idle} : status[t] # "INVALID"}
<1>1. Others = {}
  <2>1. IsFiniteSet(Others) /\ Cardinality(Others) \in Nat
    <3>1. IsFiniteSet(Tasks)
      BY FS_Interval, SchedulerAssumption DEF Tasks
    <3>2. Others \subseteq Tasks
      OBVIOUS
    <3>3. QED
      BY <3>1, <3>2, FS_Subset, FS_CardinalityType
  <2>2. Cardinality(Others) < MaxUsers
    BY DEF HeapCreates
  <2>3. Cardinality(Others) = 0
    BY <2>1, <2>2, UserHeapAssumption
  <2>4. QED
    BY <2>1, <2>3, FS_EmptySet
<1>2. PICK i \in Tasks : status[i] = "INVALID" /\ status' = [status EXCEPT ![i] = "READY"] /\ pc' = [pc EXCEPT ![i] = "run"]
  BY DEF HeapCreates, create_kernel_task, create_task, FirstInvalid
<1>3. /\ current_task = Idle /\ status \in [Tasks -> Statuses] /\ pc \in [Tasks -> PCs]
      /\ heap' = [t \in Tasks |-> IF status[t] = "INVALID" THEN None ELSE heap[t]]
      /\ UNCHANGED <<current_task, ctx, desc, free, owner, user, brk, mapped, halted>>
  BY DEF HeapCreates, create_kernel_task, create_task, SlotHeap, IInv, TypeOK
<1>4. user = {}
  BY <1>3 DEF HeapInv, ProgramRuns
<1>5. HeapTypeOK'
  <2>1. TypeOK' /\ heap' \in [Tasks -> Blocks \cup {None}]
    BY <1>3 DEF IInv, HeapInv, HeapTypeOK
  <2>2. QED
    BY <1>3, <2>1 DEF HeapInv, HeapTypeOK
<1>6. status[Idle] = "IDLE" /\ Idle \in Tasks
  BY Constants DEF IInv, TaskStates
<1>7. \A t \in Tasks : t # i /\ t # Idle => status'[t] = "INVALID"
  BY <1>1, <1>2, <1>3
<1>8. OneTask' /\ ProgramRuns' /\ ~halted'
  BY <1>3, <1>4, <1>7 DEF HeapInv, OneTask, ProgramRuns
<1>9. NothingLoaded'
  BY <1>2, <1>3, <1>4, <1>6, <1>7 DEF HeapInv, NothingLoaded, Alive
<1>10. QED
  BY <1>5, <1>8, <1>9 DEF HeapInv

\* A program that exits stops using its heap.
LEMMA HeapExitsInv ==
  ASSUME IInv, HeapInv, IInv', HeapExits
  PROVE  HeapInv'
<1> DEFINE c == current_task
<1>1. /\ c \in Tasks /\ pc' = [pc EXCEPT ![c] = "dying"] /\ pc \in [Tasks -> PCs]
      /\ user' = user \ {c} /\ brk' = [brk EXCEPT ![c] = 0] /\ mapped' = [mapped EXCEPT ![c] = {}]
      /\ UNCHANGED <<status, current_task, ctx, heap, desc, free, owner, halted>>
  BY DEF HeapExits, do_exit_count, tableVars, IInv, TypeOK
<1>2. user' = {}
  BY <1>1 DEF HeapInv, ProgramRuns
<1>3. HeapTypeOK'
  <2>1. 0 \in 0..(WORD - 1)
    BY HeapConstants
  <2>2. TypeOK' /\ brk' \in [Tasks -> 0..(WORD - 1)] /\ mapped' \in [Tasks -> SUBSET (0..(WORD - 1))]
    BY <1>1, <2>1 DEF IInv, HeapInv, HeapTypeOK
  <2>3. QED
    BY <1>1, <1>2, <2>2 DEF HeapInv, HeapTypeOK
<1>4. OneTask' /\ ProgramRuns' /\ ~halted'
  BY <1>1, <1>2 DEF HeapInv, OneTask, ProgramRuns
<1>5. NothingLoaded'
  <2>1. \A t \in Tasks : t # c => t \notin user
    BY DEF HeapInv, ProgramRuns
  <2>2. \A t \in Tasks : pc'[t] = IF t = c THEN "dying" ELSE pc[t]
    BY <1>1
  <2>3. QED
    BY <1>1, <2>1, <2>2 DEF HeapInv, NothingLoaded, Alive
<1>6. QED
  BY <1>3, <1>4, <1>5 DEF HeapInv

\* scheduler brings no task to life, and takes the processor from no program: nobody else
\* is ready.
LEMMA HeapScheduler ==
  ASSUME IInv, HeapInv, scheduler, ctx # "switch"
  PROVE  /\ \A t \in Tasks : status'[t] # "INVALID" => status[t] # "INVALID"
         /\ user # {} => UNCHANGED <<status, current_task>> /\ ctx' = "task"
<1>1. current_task \in Tasks /\ status \in [Tasks -> Statuses] /\ Idle \in Tasks
  BY Constants DEF IInv, TypeOK
<1>2. user # {} => status[current_task] = "RUNNING" /\ current_task # Idle
  BY DEF HeapInv, ProgramRuns
<1>3. CASE Keep
  BY <1>3 DEF Keep
<1>4. CASE SwitchToIdle
  BY <1>1, <1>2, <1>4 DEF SwitchToIdle, Reaped
<1>5. ASSUME NEW p \in Prios, SwitchToFirst(p)
      PROVE  user = {} /\ \A t \in Tasks : status'[t] # "INVALID" => status[t] # "INVALID"
  <2> DEFINE new == first[p]
  <2>1. first[p] # NULL
    BY <1>5 DEF SwitchToFirst, Highest, IInv, BitmapExact
  <2>2. new \in Tasks /\ status[new] = "READY" /\ new # Idle
    BY <1>1, <2>1, QueueEnds DEF IInv, Queued, TaskStates
  <2>3. user = {}
    BY <1>1, <1>2, <2>2 DEF HeapInv, OneTask
  <2>4. QED
    BY <1>1, <1>5, <2>2, <2>3 DEF SwitchToFirst, Reaped
<1>6. QED
  BY <1>3, <1>4, <1>5 DEF scheduler

\* The rest of the kernel leaves the heap alone.
LEMMA HeapOthersInv ==
  ASSUME IInv, HeapInv, IInv', HeapOthers
  PROVE  HeapInv'
<1> DEFINE c == current_task
<1>1. c \in Tasks /\ UNCHANGED heapVars /\ status \in [Tasks -> Statuses] /\ pc \in [Tasks -> PCs]
  BY DEF HeapOthers, IInv, TypeOK
<1>2. UNCHANGED <<heap, desc, free, owner, user, brk, mapped, halted>>
  BY <1>1 DEF heapVars
<1>3. /\ \A t \in Tasks : status'[t] # "INVALID" => status[t] # "INVALID"
      /\ \A t \in Tasks : Alive(t)' => Alive(t)
      /\ \A t \in Tasks : pc'[t] = pc[t] \/ pc'[t] = "dead"
      /\ user # {} => UNCHANGED <<status, current_task, pc>> /\ ctx' # "switch"
  <2>1. CASE do_exit_finish
    <3>1. user = {}
      BY <2>1 DEF do_exit_finish, HeapInv, ProgramRuns
    <3>2. status[c] \in {"READY", "RUNNING"} /\ pc' = [pc EXCEPT ![c] = "dead"]
          /\ status' = [status EXCEPT ![c] = "FINISHED"]
      BY <1>1, <2>1 DEF do_exit_finish, IInv, TaskStates
    <3>3. QED
      BY <1>1, <3>1, <3>2 DEF Alive
  <2>2. CASE reschedule
    <3>1. pc[c] = "dead" /\ scheduler /\ ctx = "task"
      BY <1>1, <2>2 DEF reschedule, HeapInv, NothingLoaded
    <3>2. pc' = pc
      BY <1>1, <2>2, <3>1 DEF reschedule
    <3>3. user = {}
      BY <3>1 DEF HeapInv, ProgramRuns
    <3>4. QED
      BY <3>1, <3>2, <3>3, HeapScheduler, SchedulerStatus
  <2>3. CASE irq_enter("timer")
    BY <2>3 DEF irq_enter, tableVars, Alive
  <2>4. CASE irq_leave
    <3>1. CASE scheduler
      <4>1. pc' = pc /\ ctx # "switch"
        BY <2>4 DEF irq_leave
      <4>2. QED
        BY <3>1, <4>1, HeapScheduler, SchedulerStatus
    <3>2. CASE ~scheduler
      BY <2>4, <3>2 DEF irq_leave, tableVars, Alive
    <3>3. QED
      BY <3>1, <3>2
  <2>5. QED
    BY <2>1, <2>2, <2>3, <2>4 DEF HeapOthers
<1>4. HeapTypeOK'
  BY <1>2 DEF IInv, HeapInv, HeapTypeOK
<1>5. OneTask' /\ ~halted'
  BY <1>2, <1>3 DEF HeapInv, OneTask
<1>6. NothingLoaded'
  BY <1>2, <1>3 DEF HeapInv, NothingLoaded
<1>7. ProgramRuns'
  BY <1>2, <1>3 DEF HeapInv, ProgramRuns
<1>8. QED
  BY <1>4, <1>5, <1>6, <1>7 DEF HeapInv

-----------------------------------------------------------------------------
\* The heaps change nothing in the scheduler.
LEMMA HeapSchedulerStep == [HeapNext]_uvars => [Next]_vars
<1> SUFFICES ASSUME [HeapNext]_uvars PROVE [Next]_vars
  OBVIOUS
<1>1. NORMAL_PRIO \in 0..(MAX_PRIO + 1)
  BY SchedulerAssumption
<1>2. CASE HeapCreates
  BY <1>1, <1>2 DEF HeapCreates, Next
<1>3. CASE HeapSwitches \/ HeapExits \/ HeapOthers
  BY <1>3 DEF HeapSwitches, HeapExits, HeapOthers, Next
<1>4. CASE UNCHANGED vars
  BY <1>4
<1>5. QED
  BY <1>2, <1>3, <1>4 DEF HeapNext, load_task, sys_sbrk, page_fault, uvars

\* Every step preserves the invariant.
LEMMA HeapNextInv == MaxUsers <= 1 /\ IInv /\ HeapInv /\ [HeapNext]_uvars => HeapInv'
<1> SUFFICES ASSUME MaxUsers <= 1, IInv, HeapInv, [HeapNext]_uvars PROVE HeapInv'
  OBVIOUS
<1>1. IInv'
  BY HeapSchedulerStep, NextIInv
<1>2. CASE UNCHANGED uvars
  <2>1. UNCHANGED <<status, current_task, pc, ctx, heap, desc, free, owner, user, brk, mapped, halted>>
    BY <1>2 DEF uvars, heapVars, vars, tableVars
  <2>2. QED
    BY <1>1, <2>1 DEF IInv, HeapInv, HeapTypeOK, OneTask, ProgramRuns, NothingLoaded, Alive
<1>3. QED
  BY <1>1, <1>2, LoadTaskInv, SbrkInv, FaultInv, HeapSwitchesInv, HeapCreatesInv, HeapExitsInv, HeapOthersInv
     DEF HeapNext

\* With one program at a time, as main starts them, a program keeps the descriptor that
\* load_task gave it until it exits: the descriptor says what sbrk told the program, and
\* page_fault_handler finds there every page that the program was given.
THEOREM UserHeapCorrect == MaxUsers <= 1 => (HeapSpec => []HeapUsable)
<1> SUFFICES ASSUME MaxUsers <= 1 PROVE HeapSpec => []HeapUsable
  OBVIOUS
<1>1. HeapInit => IInv /\ HeapInv
  BY InitIInv, HeapInitInv DEF HeapInit
<1>2. IInv /\ HeapInv /\ [HeapNext]_uvars => (IInv /\ HeapInv)'
  BY HeapSchedulerStep, NextIInv, HeapNextInv
<1>3. HeapInv => HeapUsable
  BY DEF HeapInv, HeapUsable, ProgramRuns, DescriptorMine, EndIsBrk, SbrkMemoryUsable
<1>4. QED
  BY <1>1, <1>2, <1>3, PTL DEF HeapSpec
===============================================================================
