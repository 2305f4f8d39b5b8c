------------------------------ MODULE Scheduler ------------------------------
(***************************************************************************)
(* The process scheduler of the kernel: scheduler/scheduler.c together     *)
(* with the timer interrupt that drives it (scheduler/timer.c), the        *)
(* context switch it ends in (scheduler/task_switch.s) and the order in    *)
(* which kernel_main starts it (arch/i686/boot/kernel.c).                  *)
(*                                                                         *)
(* There is one CPU.  What makes the code hard is where the timer may      *)
(* interrupt it, so a step of this module is a stretch of code that runs   *)
(* with interrupts disabled, or that only touches what no interrupt        *)
(* handler looks at; `pc' names the points between two such stretches.     *)
(*                                                                         *)
(* arch_save_context stores the address it returns to, and nothing tells   *)
(* its first return from a later one.  A context that was saved therefore  *)
(* resumes in the middle of switch_to_process_with_lock, in the frame of   *)
(* the process that was switched away, with the local new_pid it had then: *)
(* it repeats that switch.  The frames below that one are never returned   *)
(* to, so a saved context is no more than the stack it is on, whether it   *)
(* is a frame of the timer handler, and new_pid.                           *)
(***************************************************************************)
EXTENDS Naturals, Sequences, FiniteSets, FiniteSetsExt

CONSTANTS
    MAX_PROCESS,        \* number of process control blocks (128)
    MIN_PRIORITY,       \* 1
    MAX_PRIORITY,       \* 4
    DEFAULT_PRIORITY,   \* priority of a new process (3)
    rr_quantum,         \* ROUND_ROBIN_QUANTUM at the boot-time frequency (25)
    QUEUE_CAPACITY,     \* entries a run queue holds before push_back calls
                        \* krealloc, which never survives growing a block (2)
    TICKS_PER_MS,       \* timer_get_timer_frequency() / 1000 (1)
    SleepTimes,         \* milliseconds a task may ask to sleep
    Calls,              \* scheduler functions the kernel tasks may call
    IdleMaySleep,       \* TRUE iff a task may name idle_pid in a call of
                        \* scheduler_proc_sleep_ms(), which does not refuse it
    Program,            \* TRUE iff kernel_main loads a program (test_program)
    ProgramEnds         \* TRUE iff that program's _start returns;
                        \* test_program's is a loop without an end

ASSUME PrioritiesAssumption ==
    /\ MIN_PRIORITY \in Nat \ {0} /\ MAX_PRIORITY \in Nat
    /\ DEFAULT_PRIORITY \in Nat
    /\ MIN_PRIORITY < DEFAULT_PRIORITY /\ DEFAULT_PRIORITY < MAX_PRIORITY

ASSUME ParametersAssumption ==
    /\ MAX_PROCESS \in Nat /\ MAX_PROCESS > 4
    /\ rr_quantum \in Nat \ {0}
    /\ QUEUE_CAPACITY \in Nat /\ QUEUE_CAPACITY >= 2
    /\ TICKS_PER_MS \in Nat
    /\ SleepTimes \subseteq Nat
    /\ Calls \subseteq {"yield", "sleep", "block", "unblock", "unblock_hint",
                        "reschedule", "create"}
    /\ IdleMaySleep \in BOOLEAN
    /\ Program \in BOOLEAN
    /\ ProgramEnds \in BOOLEAN

VARIABLES
    state, priority, rounds, sleep_timeout, \* struct process_control_t,
    context, system,                        \* one function per field
    run_queues, current_pid, next_pid, started,
    interrupts,         \* IF of EFLAGS
    irq0_in_service,    \* the timer's bit of the PIC's in-service register
    pc,                 \* where the CPU is
    stack,              \* the process whose stack the CPU is on
    in_irq,             \* TRUE iff that is in a frame of the timer handler
    new_pid,            \* the local of that name (or index, or pid)
    caller              \* what called scheduler_reschedule or scheduler_yield

pcb == <<state, priority, rounds, sleep_timeout, context, system>>
globals == <<run_queues, current_pid, next_pid, started>>
frame == <<pc, stack, in_irq, new_pid, caller>>
cpu == <<interrupts, irq0_in_service, frame>>
vars == <<pcb, globals, cpu>>

Pids == 0 .. MAX_PROCESS - 1
Priorities == MIN_PRIORITY .. MAX_PRIORITY
States == {"EMPTY", "NEW", "READY", "RUNNING", "BLOCKED", "SLEEPING",
           "WAITING", "KILLED", "BLOCKED_TIMEOUT"}

\* The order of the create_*_task calls in scheduler_init fixes these pids.
idle_pid == 0
init_pid == 1
post_init_pid == 2

Fresh == [kind |-> "fresh"]         \* enters the task's function
Overwritten == [kind |-> "lost"]    \* its frame has been reused
Saved(s, irq, pid) ==
    [kind |-> "saved", stack |-> s, in_irq |-> irq, new_pid |-> pid]
Contexts ==
    {Fresh, Overwritten}
    \cup [kind : {"saved"}, stack : Pids, in_irq : BOOLEAN, new_pid : Pids]

PCs == {"boot", "task", "hlt", "yield", "reschedule", "queue", "switch",
        "resumed", "marked", "switched", "suspended", "fault"}

TypeOK ==
    /\ state \in [Pids -> States]
    /\ priority \in [Pids -> 0 .. MAX_PRIORITY]
    /\ rounds \in [Pids -> 0 .. rr_quantum]
    /\ sleep_timeout \in [Pids -> Nat]
    /\ context \in [Pids -> Contexts]
    /\ system \in [Pids -> BOOLEAN]
    /\ run_queues \in [Priorities -> Seq(Pids)]
    /\ current_pid \in Pids
    /\ next_pid \in Pids
    /\ started \in BOOLEAN
    /\ interrupts \in BOOLEAN
    /\ irq0_in_service \in BOOLEAN
    /\ pc \in PCs
    /\ stack \in Pids
    /\ in_irq \in BOOLEAN
    /\ new_pid \in Pids
    /\ caller \in {"task", "kill"}

-----------------------------------------------------------------------------
(* Choosing the next process *)

Runnable(st, pid) == st[pid] \in {"READY", "RUNNING"}

\* 0-based positions of the runnable processes of queue q
RunnableAt(st, q) == {j \in 0 .. Len(q) - 1 : Runnable(st, q[j + 1])}

HeadOfQueue(st, q) == Head(q)                   \* mutant: no state check
FirstRunnable(st, q) == q[Min(RunnableAt(st, q)) + 1]

StayAtIndex(pid, q) ==                          \* mutant: no "+ 1"
    LET at == {j \in 0 .. Len(q) - 1 : q[j + 1] = pid}
    IN  IF at = {} THEN 0 ELSE Min(at)

\* next_index: the position after current_pid's, or 0
NextIndex(pid, q) ==
    LET at == {j \in 0 .. Len(q) - 1 : q[j + 1] = pid}
    IN  IF at = {} THEN 0 ELSE (Min(at) + 1) % Len(q)

\* the first runnable process of q in cyclic order from position `from'
NextRunnable(st, q, from) ==
    LET at == RunnableAt(st, q)
        behind == {j \in at : j >= from}
    IN  q[Min(IF behind # {} THEN behind ELSE at) + 1]

WellAbove(prio) == {p \in Priorities : p > prio + 1}   \* mutant: off by one
Above(prio) == {p \in Priorities : p > prio}

NoneBelow(prio) == {}                           \* mutant: third stage missing
Below(prio) == {p \in Priorities : p < prio}

\* select_next_process_with_lock() when the process states are st
SelectNext(st) ==
    LET prio == priority[current_pid]
        ready == {p \in Priorities : RunnableAt(st, run_queues[p]) # {}}
        higher == ready \cap Above(prio)
        lower == ready \cap Below(prio)
    IN  IF higher # {} THEN FirstRunnable(st, run_queues[Max(higher)])
        ELSE IF prio \in ready
             THEN NextRunnable(st, run_queues[prio],
                               NextIndex(current_pid, run_queues[prio]))
        ELSE IF lower # {} THEN FirstRunnable(st, run_queues[Max(lower)])
        ELSE 0          \* kassert_message(false, "No process is READY", 0u)

-----------------------------------------------------------------------------
(* Boot *)

Init ==
    /\ state = [p \in Pids |-> "EMPTY"]
    /\ priority = [p \in Pids |-> 0]
    /\ rounds = [p \in Pids |-> 0]
    /\ sleep_timeout = [p \in Pids |-> 0]
    /\ context = [p \in Pids |-> Fresh]
    /\ system = [p \in Pids |-> FALSE]
    /\ run_queues = [q \in Priorities |-> << >>]
    /\ current_pid = 0
    /\ next_pid = 0
    /\ started = FALSE
    /\ interrupts = TRUE
    /\ irq0_in_service = FALSE
    /\ pc = "boot"
    /\ stack = 0            \* kernel_main's own stack until the start
    /\ in_irq = FALSE
    /\ new_pid = 0
    /\ caller = "task"

\* create_idle_task(), create_init_task(), create_post_init_task().  The
\* scheduler is not started yet, so nothing can happen between them.
scheduler_init ==
    /\ pc = "boot" /\ next_pid = 0
    /\ state' = [p \in Pids |-> IF p < 3 THEN "READY" ELSE state[p]]
    /\ priority' = [priority EXCEPT ![idle_pid] = MIN_PRIORITY,
                                    ![init_pid] = DEFAULT_PRIORITY,
                                    ![post_init_pid] = MAX_PRIORITY]
    /\ system' = [p \in Pids |-> p < 3]
    /\ run_queues' = [run_queues EXCEPT ![MIN_PRIORITY] = <<idle_pid>>,
                                        ![DEFAULT_PRIORITY] = <<init_pid>>,
                                        ![MAX_PRIORITY] = <<post_init_pid>>]
    /\ next_pid' = 3
    /\ UNCHANGED <<rounds, sleep_timeout, context, current_pid, started, cpu>>

\* scheduler_load_process_in_new_address_space("test_program")
LoadProgram ==
    /\ pc = "boot" /\ Program /\ next_pid = 3
    /\ state' = [state EXCEPT ![3] = "READY"]
    /\ priority' = [priority EXCEPT ![3] = DEFAULT_PRIORITY]
    /\ run_queues' = [run_queues EXCEPT ![DEFAULT_PRIORITY] = Append(@, 3)]
    /\ next_pid' = 4
    /\ UNCHANGED <<rounds, sleep_timeout, context, system, current_pid,
                   started, cpu>>

scheduler_start ==
    /\ pc = "boot" /\ next_pid # 0
    /\ Program => state[3] = "READY"
    /\ current_pid' = post_init_pid
    /\ state' = [state EXCEPT ![post_init_pid] = "RUNNING"]
    /\ started' = TRUE
    /\ stack' = post_init_pid
    /\ pc' = "task"
    /\ UNCHANGED <<priority, rounds, sleep_timeout, context, system, run_queues,
                   next_pid, interrupts, irq0_in_service, in_irq, new_pid, caller>>

-----------------------------------------------------------------------------
(* The context switch *)

\* where a task goes on when the scheduler function it called returns; after
\* scheduler_kill_current_process comes suspend_kernel()
ReturnPoint == IF caller = "kill" THEN "suspended"
               ELSE IF stack = idle_pid THEN "hlt" ELSE "task"

\* The kernel entered a task's function with its stack empty.
EntryPoint(pid) == IF pid = idle_pid THEN "hlt" ELSE "task"

SaveInNewProcess(irq, pid) ==                   \* mutant: current_pid set too early
    [context EXCEPT ![pid] = Saved(stack, irq, pid)]

\* arch_save_context(&pcb[old_pid].process.context) with new_pid = pid
SaveContext(irq, pid) == [context EXCEPT ![current_pid] = Saved(stack, irq, pid)]

MarkRunning(st, pid) ==                         \* mutant: current_pid not set
    state' = [st EXCEPT ![pid] = "RUNNING"] /\ UNCHANGED current_pid

MakeCurrent(st, pid) ==
    state' = [st EXCEPT ![pid] = "RUNNING"] /\ current_pid' = pid

\* switch_to_process_with_lock(), from disable_interrupts() to the
\* enable_interrupts() at the end of scheduler_set_page_directory().  The early
\* return leaves interrupts disabled.
SwitchToSelf ==
    /\ pc = "switch" /\ new_pid = current_pid
    /\ interrupts' = FALSE
    /\ pc' = ReturnPoint
    /\ UNCHANGED <<pcb, globals, irq0_in_service, stack, in_irq, new_pid, caller>>

SwitchToOther ==
    /\ pc = "switch" /\ new_pid # current_pid
    /\ context' = SaveContext(in_irq, new_pid)
    /\ MakeCurrent(state, new_pid)
    /\ interrupts' = TRUE
    /\ pc' = "switched"
    /\ UNCHANGED <<priority, rounds, sleep_timeout, system, run_queues, next_pid,
                   started, irq0_in_service, stack, in_irq, new_pid, caller>>

\* load_page_directory() and arch_restore_context(&pcb[new_pid].context).  The
\* stack of a user process is mapped in its own address space only: on it,
\* the first push after the load faults.
RestoreFresh ==
    /\ pc = "switched" /\ system[stack]
    /\ context[new_pid] = Fresh
    /\ stack' = new_pid
    /\ in_irq' = FALSE
    /\ pc' = EntryPoint(new_pid)
    /\ caller' = "task"
    /\ UNCHANGED <<pcb, globals, interrupts, irq0_in_service, new_pid>>

RestoreSaved ==
    /\ pc = "switched" /\ system[stack]
    /\ context[new_pid].kind = "saved"
    /\ stack' = context[new_pid].stack
    /\ in_irq' = context[new_pid].in_irq
    /\ new_pid' = context[new_pid].new_pid
    /\ pc' = "resumed"
    /\ UNCHANGED <<pcb, globals, interrupts, irq0_in_service, caller>>

RestoreFaults ==
    /\ pc = "switched"
    /\ ~system[stack] \/ context[new_pid] = Overwritten
    /\ pc' = "fault"
    /\ UNCHANGED <<pcb, globals, interrupts, irq0_in_service, stack, in_irq,
                   new_pid, caller>>

\* The second return of arch_save_context: the resumed frame repeats its switch,
\* now with interrupts enabled, so that a tick may strike between the two writes.
RunningRepeated ==
    /\ pc = "resumed"
    /\ state' = [state EXCEPT ![new_pid] = "RUNNING"]
    /\ pc' = "marked"
    /\ UNCHANGED <<priority, rounds, sleep_timeout, context, system, globals,
                   interrupts, irq0_in_service, stack, in_irq, new_pid, caller>>

\* What it calls then reuses the memory of the handler frames further up its stack.
SwitchRepeated ==
    /\ pc = "marked"
    /\ current_pid' = new_pid
    /\ context' = [p \in Pids |->
          IF ~in_irq /\ \E q \in Pids : context[p] = Saved(stack, TRUE, q)
          THEN Overwritten ELSE context[p]]
    /\ interrupts' = TRUE
    /\ pc' = "switched"
    /\ UNCHANGED <<state, priority, rounds, sleep_timeout, system, run_queues, next_pid,
                   started, irq0_in_service, stack, in_irq, new_pid, caller>>

-----------------------------------------------------------------------------
(* The scheduler functions a kernel task calls *)

\* a kernel task other than idle_task is in its own code and may call f
Calling(f) ==
    /\ pc = "task" /\ system[stack] /\ stack # idle_pid
    /\ f \in Calls

\* the processes a caller can name: those that have been queued
Queued(pid) == \E q \in Priorities : \E j \in 1 .. Len(run_queues[q]) :
                   run_queues[q][j] = pid

\* leave everything but the process states and the place in the code
GoOn(where, who) ==
    /\ pc' = where /\ caller' = who
    /\ UNCHANGED <<priority, rounds, context, system, globals, interrupts,
                   irq0_in_service, stack, in_irq, new_pid>>

IsBlocked == state[current_pid] = "BLOCKED"     \* mutant: other states forgotten
IsNotRunning == state[current_pid] # "RUNNING"

\* scheduler_reschedule(): a process that does not run any more chooses another
\* one under int_lock, which puts IF back as it was
Reschedule ==
    /\ pc = "reschedule" /\ IsNotRunning
    /\ new_pid' = SelectNext(state)
    /\ pc' = "switch"
    /\ UNCHANGED <<pcb, globals, interrupts, irq0_in_service, stack, in_irq, caller>>

RescheduleReturns ==
    /\ pc = "reschedule" /\ ~IsNotRunning
    /\ interrupts' = IF ReturnPoint = "suspended" THEN FALSE ELSE interrupts
    /\ pc' = ReturnPoint
    /\ UNCHANGED <<pcb, globals, irq0_in_service, stack, in_irq, new_pid, caller>>

CallReschedule ==
    /\ Calling("reschedule")
    /\ GoOn("reschedule", "task")
    /\ UNCHANGED <<state, sleep_timeout>>

\* scheduler_yield(), by a task or by idle_task once it has left hlt.  The
\* selection is not locked: the timer may strike before and after it.
scheduler_yield ==
    /\ pc = "task"
    /\ stack = idle_pid \/ Calling("yield")
    /\ state[current_pid] = "RUNNING"
    /\ state' = [state EXCEPT ![current_pid] = "READY"]
    /\ GoOn("yield", "task")
    /\ UNCHANGED sleep_timeout

\* kassert_message_void(..., "Can only yield() running processes") reports and
\* returns; idle_task goes back to hlt
YieldRefused ==
    /\ pc = "task"
    /\ stack = idle_pid \/ Calling("yield")
    /\ state[current_pid] # "RUNNING"
    /\ GoOn(EntryPoint(stack), "task")
    /\ UNCHANGED <<state, sleep_timeout>>

YieldSelects ==
    /\ pc = "yield" /\ SelectNext(state) # current_pid
    /\ new_pid' = SelectNext(state)
    /\ pc' = "switch"
    /\ UNCHANGED <<pcb, globals, interrupts, irq0_in_service, stack, in_irq, caller>>

YieldReturns ==
    /\ pc = "yield" /\ SelectNext(state) = current_pid
    /\ state' = [state EXCEPT ![current_pid] = "RUNNING"]
    /\ GoOn(ReturnPoint, caller)
    /\ UNCHANGED sleep_timeout

SleepTicksUnrounded(time) == time * TICKS_PER_MS   \* mutant: 0 stays 0

\* sleep_ticks of scheduler_proc_sleep_ms()
SleepTicks(time) == LET ticks == time * TICKS_PER_MS
                    IN  IF ticks = 0 THEN 1 ELSE ticks

\* scheduler_proc_sleep_ms(); scheduler_sleep_ms() is pid = current_pid
scheduler_proc_sleep_ms(pid, time) ==
    /\ Calling("sleep")
    /\ pid # idle_pid \/ IdleMaySleep
    /\ state[pid] = "RUNNING"       \* "Only RUNNING processes can sleep"
    /\ sleep_timeout' = [sleep_timeout EXCEPT ![pid] = SleepTicks(time)]
    /\ state' = [state EXCEPT ![pid] = "SLEEPING"]
    /\ GoOn("reschedule", "task")

Anyone(pid) == TRUE                             \* mutant: assertion dropped
\* kassert_void(pid != idle_pid)
MayBlock(pid) == pid # idle_pid

scheduler_block_process(pid) ==
    /\ Calling("block") /\ started /\ MayBlock(pid)
    /\ state' = [state EXCEPT ![pid] = "BLOCKED"]
    /\ GoOn("reschedule", "task")
    /\ UNCHANGED sleep_timeout

scheduler_unblock_process(pid) ==
    /\ Calling("unblock") /\ started /\ MayBlock(pid)
    /\ state[pid] \in {"BLOCKED", "BLOCKED_TIMEOUT", "WAITING"}
    /\ state' = [state EXCEPT ![pid] = "READY"]
    /\ GoOn("task", "task")
    /\ UNCHANGED sleep_timeout

scheduler_unblock_process_hint(pid) ==
    /\ Calling("unblock_hint") /\ started /\ MayBlock(pid)
    /\ state[pid] # "RUNNING"
    /\ state' = [state EXCEPT ![pid] = "READY"]
    /\ GoOn("task", "task")
    /\ UNCHANGED sleep_timeout

KillWithoutState ==                             \* mutant: state not written
    /\ pc = "task" /\ system[stack] /\ stack # idle_pid
    /\ GoOn("reschedule", "kill")
    /\ UNCHANGED <<state, sleep_timeout>>

\* scheduler_kill_current_process(), called or returned into at a task's end
scheduler_kill_current_process ==
    /\ pc = "task" /\ system[stack] /\ stack # idle_pid
    /\ state' = [state EXCEPT ![current_pid] = "KILLED"]
    /\ GoOn("reschedule", "kill")
    /\ UNCHANGED sleep_timeout

\* The return address of a user process is written to process->physical_stack,
\* its stack is another, cleared page: it returns to address 0.
ProgramReturns ==
    /\ pc = "task" /\ ~system[stack] /\ ProgramEnds
    /\ GoOn("fault", "task")
    /\ UNCHANGED <<state, sleep_timeout>>

PlusOne(pid) == pid + 1                         \* mutant: no wrap-around
PidAfter(pid) == (pid + 1) % MAX_PROCESS

\* get_free_pid(): next_pid if it is free, else the next free one in cyclic
\* order; the set is empty when suspend_kernel() is called instead
FreePid ==
    LET nth(i) == (next_pid + i) % MAX_PROCESS
        free == {i \in 0 .. MAX_PROCESS : state[nth(i)] = "EMPTY"}
    IN  IF free = {} THEN {} ELSE {nth(Min(free))}

\* scheduler_create_kernel_task_args(), which scheduler_create_new_process() begins
scheduler_create_kernel_task(pid) ==
    /\ Calling("create") /\ pid \in FreePid
    /\ next_pid' = PidAfter(pid)
    /\ state' = [state EXCEPT ![pid] = "NEW"]
    /\ priority' = [priority EXCEPT ![pid] = DEFAULT_PRIORITY]
    /\ system' = [system EXCEPT ![pid] = TRUE]
    /\ context' = [context EXCEPT ![pid] = Fresh]
    /\ UNCHANGED <<rounds, sleep_timeout, run_queues, current_pid, started, cpu>>

OutOfProcesses ==
    /\ Calling("create") /\ FreePid = {}
    /\ interrupts' = FALSE
    /\ pc' = "suspended"
    /\ UNCHANGED <<pcb, globals, irq0_in_service, stack, in_irq, new_pid, caller>>

\* The creator sets the new task's priority and calls
\* scheduler_queue_system_process(), which makes it READY before it queues it.
scheduler_queue_system_process(pid, prio) ==
    /\ Calling("create") /\ state[pid] = "NEW"
    /\ priority' = [priority EXCEPT ![pid] = prio]
    /\ state' = [state EXCEPT ![pid] = "READY"]
    /\ new_pid' = pid
    /\ pc' = "queue"
    /\ UNCHANGED <<rounds, sleep_timeout, context, system, globals, interrupts,
                   irq0_in_service, stack, in_irq, caller>>

EnqueueWithCreator(pid, prio) ==                \* mutant: the creator's priority
    [run_queues EXCEPT ![priority[current_pid]] = Append(@, pid)]

\* push_back(run_queue(prio), &pid)
Enqueue(pid, prio) == [run_queues EXCEPT ![prio] = Append(@, pid)]

\* The push_back() at its end.  The timer may strike before it: a creator that is
\* preempted here never gets to queue the process it has made READY.
QueuePushes ==
    /\ pc = "queue"
    /\ LET prio == priority[new_pid]
       IN  IF Len(run_queues[prio]) < QUEUE_CAPACITY
           THEN /\ run_queues' = Enqueue(new_pid, prio)
                /\ pc' = "task"
           ELSE /\ run_queues' = run_queues
                /\ pc' = "fault"
    /\ UNCHANGED <<pcb, current_pid, next_pid, started, interrupts,
                   irq0_in_service, stack, in_irq, new_pid, caller>>

-----------------------------------------------------------------------------
(* The timer interrupt *)

\* IRQ 0 is delivered.  The handler runs with interrupts disabled; when it
\* enables them again, in select_next_process(), IRQ 0 is still in service.
\* Before scheduler_start() scheduler_tick() returns at once.
TimerStrikes ==
    /\ started /\ interrupts /\ ~irq0_in_service
    /\ pc \notin {"suspended", "fault"}

Asleep(pid) == state[pid] \in {"SLEEPING", "BLOCKED_TIMEOUT"}

\* the loop over all processes at the head of scheduler_tick()
TickedTimeouts ==
    [p \in Pids |-> IF Asleep(p) THEN sleep_timeout[p] - 1 ELSE sleep_timeout[p]]
TickedStates ==
    [p \in Pids |-> IF Asleep(p) /\ TickedTimeouts[p] = 0 THEN "READY" ELSE state[p]]

\* the states select_next_process() sees: the current process was made READY
\* "if it was not blocked"
ExpiredStates ==
    IF TickedStates[current_pid] \in {"BLOCKED", "BLOCKED_TIMEOUT", "KILLED"}
    THEN TickedStates
    ELSE [TickedStates EXCEPT ![current_pid] = "READY"]

\* iret: hlt is left when an interrupt has been handled
AfterInterrupt == IF pc = "hlt" THEN "task" ELSE pc

\* the quantum goes on
TickCounts ==
    /\ TimerStrikes /\ rounds[current_pid] # rr_quantum
    /\ sleep_timeout' = TickedTimeouts
    /\ state' = TickedStates
    /\ rounds' = [rounds EXCEPT ![current_pid] = @ + 1]
    /\ pc' = AfterInterrupt
    /\ UNCHANGED <<priority, context, system, globals, interrupts,
                   irq0_in_service, stack, in_irq, new_pid, caller>>

\* the quantum is over, the same process is chosen: previous_state is put back
TickKeeps ==
    /\ TimerStrikes /\ rounds[current_pid] = rr_quantum
    /\ SelectNext(ExpiredStates) = current_pid
    /\ sleep_timeout' = TickedTimeouts
    /\ state' = TickedStates
    /\ rounds' = [rounds EXCEPT ![current_pid] = 0]
    /\ pc' = AfterInterrupt
    /\ UNCHANGED <<priority, context, system, globals, interrupts,
                   irq0_in_service, stack, in_irq, new_pid, caller>>

\* the quantum is over, another process is chosen: the handler switches to it
\* and never gets to pic_send_eoi()
TickPreempts ==
    /\ TimerStrikes /\ rounds[current_pid] = rr_quantum
    /\ LET next == SelectNext(ExpiredStates)
       IN  /\ next # current_pid
           /\ context' = SaveContext(TRUE, next)
           /\ MakeCurrent(ExpiredStates, next)
           /\ new_pid' = next
    /\ sleep_timeout' = TickedTimeouts
    /\ rounds' = [rounds EXCEPT ![current_pid] = 0]
    /\ irq0_in_service' = TRUE
    /\ in_irq' = TRUE
    /\ pc' = "switched"
    /\ UNCHANGED <<priority, system, run_queues, next_pid, started, interrupts,
                   stack, caller>>

\* keyboard_irq() ends a hlt as well; the PIC holds it back while IRQ 0, which
\* has the higher priority, is in service
KeyboardInterrupt ==
    /\ TimerStrikes /\ pc = "hlt"
    /\ pc' = "task"
    /\ UNCHANGED <<pcb, globals, interrupts, irq0_in_service, stack, in_irq,
                   new_pid, caller>>

-----------------------------------------------------------------------------
Boot == scheduler_init \/ LoadProgram \/ scheduler_start

Switch == \/ SwitchToSelf \/ SwitchToOther \/ RunningRepeated \/ SwitchRepeated
          \/ RestoreFresh \/ RestoreSaved \/ RestoreFaults

\* the kernel's own code between a call of the scheduler and the end of the call
KernelStep == Switch \/ Reschedule \/ RescheduleReturns
              \/ YieldSelects \/ YieldReturns \/ QueuePushes

\* what a task decides to do next
TaskStep ==
    \/ scheduler_yield \/ YieldRefused \/ CallReschedule
    \/ \E pid \in Pids, time \in SleepTimes : scheduler_proc_sleep_ms(pid, time)
    \/ \E pid \in Pids :
          /\ Queued(pid)
          /\ \/ scheduler_block_process(pid)
             \/ scheduler_unblock_process(pid)
             \/ scheduler_unblock_process_hint(pid)
    \/ \E pid \in Pids : scheduler_create_kernel_task(pid)
    \/ \E pid \in Pids, prio \in Priorities : scheduler_queue_system_process(pid, prio)
    \/ OutOfProcesses
    \/ scheduler_kill_current_process \/ ProgramReturns

Tick == TickCounts \/ TickKeeps \/ TickPreempts

Next == Boot \/ KernelStep \/ TaskStep \/ Tick \/ KeyboardInterrupt

Spec == Init /\ [][Next]_vars

\* An interrupt that is due is delivered, the CPU executes the kernel's code to
\* the end of a call, and the tasks' functions go on: they are finite loops.
\* A program goes on as well, to its end where it has one (ProgramEnds).
FairSpec == Spec /\ WF_vars(Boot) /\ WF_vars(KernelStep) /\ WF_vars(TaskStep)
                 /\ WF_vars(Tick)

-----------------------------------------------------------------------------
(* Properties *)

\* the CPU executes p's own function, or a scheduler function p called
OwnCode(p) == stack = p /\ pc \in {"task", "hlt"}
OwnCall(p) == stack = p /\ pc \in {"yield", "reschedule", "queue", "switch"}

\* select_next_process_with_lock() relies on it ("The idle task should always
\* be ready"): from the start on idle can be selected, whatever tasks block,
\* put to sleep or kill.
IdleAlwaysReady ==
    started => /\ Runnable(state, idle_pid)
               /\ \E j \in 1 .. Len(run_queues[MIN_PRIORITY]) :
                     run_queues[MIN_PRIORITY][j] = idle_pid

\* p's creator is between the READY and the end of the push_back() that queues p,
\* or for ever in that push_back(): the queue was full
BeingQueued(p) == pc \in {"queue", "fault"} /\ new_pid = p

\* p has been made READY, but no queue holds it and nobody is about to queue it
Lost(p) == state[p] \notin {"EMPTY", "NEW"} /\ ~Queued(p) /\ ~BeingQueued(p)

\* The run queues hold created processes only, each once, in the queue of its
\* priority.  One process at most is missing from them for ever: the one whose
\* creator a tick preempted between the READY and the push_back() of
\* scheduler_queue_system_process().  No second one follows, as that tick is the
\* last (IRQ 0 stays in service).
QueueIntegrity ==
    /\ \A q \in Priorities : \A i, j \in 1 .. Len(run_queues[q]) :
          /\ priority[run_queues[q][i]] = q
          /\ state[run_queues[q][i]] \notin {"EMPTY", "NEW"}
          /\ run_queues[q][i] = run_queues[q][j] => i = j
    /\ \A p, r \in Pids : Lost(p) /\ Lost(r) => p = r /\ irq0_in_service

\* Whenever the scheduler may be asked, it chooses a runnable process that no
\* other runnable process of the queues has a higher priority than.
SelectsHighest ==
    started => LET next == SelectNext(state)
               IN  /\ Runnable(state, next)
                   /\ \A q \in Priorities : \A j \in 1 .. Len(run_queues[q]) :
                         Runnable(state, run_queues[q][j]) => q <= priority[next]

\* Among the processes of the current priority the turn goes round: nobody who
\* is runnable sits between the current process and the chosen one.
SelectsInTurn ==
    LET q == run_queues[priority[current_pid]]
        next == SelectNext(state)
        turn(i, j) == (j + Len(q) - i - 1) % Len(q)
    IN  started /\ priority[next] = priority[current_pid] =>
          \A i, j, k \in 1 .. Len(q) :
             q[i] = current_pid /\ q[j] = next /\ Runnable(state, q[k])
             => turn(i, j) <= turn(i, k)

\* The pid a task chose under the lock is still runnable when, after a window
\* with interrupts enabled, it gets to switch to it.
ChosenStaysRunnable == pc = "switch" => Runnable(state, new_pid)

\* current_pid names the process whose function, or call of the scheduler, is
\* being executed: yield, sleep and kill act on their caller.
CurrentOwnsStack == \A p \in Pids : OwnCode(p) \/ OwnCall(p) => current_pid = p

\* A process executes its own code only while its state allows it: a call
\* that blocked, put to sleep or killed it does not come back.
OwnCodeIsRunnable == \A p \in Pids : OwnCode(p) => Runnable(state, p)

\* "a killed process is being run" (suspend_kernel() at the end of
\* scheduler_kill_current_process) is never reached.
KillNeverReturns == caller = "kill" => pc # "suspended"

\* A task executes with interrupts disabled exactly when its last call chose the
\* caller itself; that call has also left it READY instead of RUNNING.
InterruptsOffWhenSelfChosen ==
    \A p \in Pids : OwnCode(p) => (interrupts <=> state[p] = "RUNNING")

\* --sleep_timeout never wraps: whoever sleeps has at least one tick to go.
SleepersHaveTimeout == \A p \in Pids : Asleep(p) => sleep_timeout[p] > 0

\* Until a tick has preempted somebody, every saved context is a frame that its
\* process left on its own stack, outside the timer handler.
ContextsOwnStack ==
    \A p \in Pids : ~irq0_in_service /\ context[p].kind = "saved" =>
        context[p].stack = p /\ ~context[p].in_irq

\* How far the second return of arch_save_context reaches: nobody who was ever
\* switched away from executes its own code again.
OwnCodeBeforeFirstSwitch == \A p \in Pids : OwnCode(p) => context[p] = Fresh

\* A task that is killed, or ends, leaves the CPU.
KillLeavesCpu ==
    \A p \in Pids : caller = "kill" /\ pc = "reschedule" /\ stack = p
                    ~> stack # p \/ pc = "fault"

\* The boot as shipped, with test_program loaded as process 3: post_init gets the
\* CPU, init gets it unless a tick of the switch to it preempts, and in the end the
\* program, whose loop has a higher priority than idle, keeps it.  Idle, which
\* never gets it, is not what the kernel comes to rest in.
BootEndsInProgram ==
    LET test_program == 3
    IN  /\ <>OwnCode(post_init_pid) /\ <>(OwnCode(init_pid) \/ irq0_in_service)
        /\ <>[](OwnCode(test_program) /\ current_pid = test_program)
        /\ [](started => stack # idle_pid)

-----------------------------------------------------------------------------
(* What a comment of the code says, and the code does not do *)

\* scheduler_reschedule(), after the switch: "At this point we just have to
\* return to the current process".  A process whose saved context is restored
\* gets back to its own code, at least when the timer preempts nobody.
ResumedReturns ==
    \A p \in Pids : pc = "resumed" /\ current_pid = p
                    ~> OwnCode(p) \/ irq0_in_service

=============================================================================
