--------------------------- MODULE SchedulerProofs ---------------------------
(***************************************************************************)
(* Theorems about Scheduler, for every value of its constants.             *)
(***************************************************************************)
EXTENDS Scheduler, NatLemmas, TLAPS

-----------------------------------------------------------------------------
(* What the assumptions on the constants say *)

\* The fixed process numbers and priorities are in range.
LEMMA ConstantTypes ==
    /\ {0, 1, 2, 3, 4} \subseteq Pids
    /\ {MIN_PRIORITY, DEFAULT_PRIORITY, MAX_PRIORITY} \subseteq Priorities
    /\ {0, MIN_PRIORITY, DEFAULT_PRIORITY, MAX_PRIORITY} \subseteq 0 .. MAX_PRIORITY
    /\ Priorities \subseteq 0 .. MAX_PRIORITY
    /\ MIN_PRIORITY # DEFAULT_PRIORITY /\ DEFAULT_PRIORITY # MAX_PRIORITY
    /\ MIN_PRIORITY # MAX_PRIORITY
    /\ 0 \in 0 .. rr_quantum
    /\ \A pid \in Pids : PidAfter(pid) \in Pids
BY PrioritiesAssumption, ParametersAssumption DEF Pids, Priorities, PidAfter

\* The contexts arch_save_context() stores are contexts, and what they hold is typed.
LEMMA ContextTypes ==
    /\ Fresh \in Contexts /\ Overwritten \in Contexts
    /\ Fresh.kind = "fresh" /\ Overwritten.kind = "lost"
    /\ \A s, pid \in Pids, irq \in BOOLEAN :
          /\ Saved(s, irq, pid) \in Contexts
          /\ Saved(s, irq, pid).kind = "saved"
          /\ Saved(s, irq, pid).stack = s
          /\ Saved(s, irq, pid).in_irq = irq
          /\ Saved(s, irq, pid).new_pid = pid
    /\ \A c \in Contexts :
          /\ c.kind = "fresh" <=> c = Fresh
          /\ c.kind = "lost" <=> c = Overwritten
          /\ c.kind \in {"fresh", "lost", "saved"}
          /\ c.kind = "saved" => c.stack \in Pids /\ c.in_irq \in BOOLEAN /\ c.new_pid \in Pids
BY DEF Contexts, Fresh, Overwritten, Saved

-----------------------------------------------------------------------------
(* What select_next_process_with_lock() returns *)

\* pid is runnable when the states are st, and in the run queue of priority q
RunnableIn(st, q, pid) ==
    Runnable(st, pid) /\ \E j \in 1 .. Len(run_queues[q]) : run_queues[q][j] = pid

\* The scan of one run queue from its head finds one of its runnable processes.
LEMMA FirstRunnableIn ==
    ASSUME TypeOK, NEW st, NEW q \in Priorities, RunnableAt(st, run_queues[q]) # {}
    PROVE  RunnableIn(st, q, FirstRunnable(st, run_queues[q]))
<1> DEFINE at == RunnableAt(st, run_queues[q])
<1>1. run_queues[q] \in Seq(Pids) /\ Len(run_queues[q]) \in Nat
    BY DEF TypeOK
<1>2. at \subseteq Nat /\ at # {}
    BY <1>1 DEF RunnableAt
<1>3. Min(at) \in at
    <2> HIDE DEF at
    <2> QED BY <1>2, MinIsLeast
<1>4. Min(at) + 1 \in 1 .. Len(run_queues[q])
      /\ Runnable(st, run_queues[q][Min(at) + 1])
    BY <1>1, <1>3 DEF RunnableAt
<1> QED BY <1>4 DEF RunnableIn, FirstRunnable

\* The cyclic scan of one run queue finds one of its runnable processes.
LEMMA NextRunnableIn ==
    ASSUME TypeOK, NEW st, NEW q \in Priorities, NEW from,
           RunnableAt(st, run_queues[q]) # {}
    PROVE  RunnableIn(st, q, NextRunnable(st, run_queues[q], from))
<1> DEFINE at == RunnableAt(st, run_queues[q])
           behind == {j \in at : j >= from}
           scan == IF behind # {} THEN behind ELSE at
<1>1. run_queues[q] \in Seq(Pids) /\ Len(run_queues[q]) \in Nat
    BY DEF TypeOK
<1>2. scan \subseteq at /\ scan # {}
    OBVIOUS
<1>3. at \subseteq Nat
    BY <1>1 DEF RunnableAt
<1>4. Min(scan) \in at
    <2> HIDE DEF at, scan
    <2> QED BY <1>2, <1>3, MinIsLeast
<1>5. /\ Min(scan) + 1 \in 1 .. Len(run_queues[q])
      /\ Runnable(st, run_queues[q][Min(scan) + 1])
    <2> HIDE DEF scan
    <2> QED BY <1>1, <1>4 DEF RunnableAt
<1>6. NextRunnable(st, run_queues[q], from) = run_queues[q][Min(scan) + 1]
    BY DEF NextRunnable
<1> HIDE DEF scan
<1> QED BY <1>5, <1>6 DEF RunnableIn

\* The selection returns a runnable process of the highest priority at which
\* there is one, or 0 if there is none.
LEMMA SelectNextRunnable ==
    ASSUME TypeOK, NEW st
    PROVE  \/ \E q \in Priorities :
                 /\ RunnableIn(st, q, SelectNext(st))
                 /\ \A p \in Priorities : RunnableAt(st, run_queues[p]) # {} => p <= q
           \/ /\ SelectNext(st) = 0
              /\ \A p \in Priorities : RunnableAt(st, run_queues[p]) = {}
<1> DEFINE prio == priority[current_pid]
           ready == {p \in Priorities : RunnableAt(st, run_queues[p]) # {}}
           higher == ready \cap Above(prio)
           lower == ready \cap Below(prio)
<1>1. /\ prio \in Nat /\ MAX_PRIORITY \in Nat
      /\ Priorities \subseteq 0 .. MAX_PRIORITY /\ Priorities \subseteq Nat
    BY PrioritiesAssumption DEF TypeOK, Priorities
<1>2. SelectNext(st) =
        IF higher # {} THEN FirstRunnable(st, run_queues[Max(higher)])
        ELSE IF prio \in ready
             THEN NextRunnable(st, run_queues[prio], NextIndex(current_pid, run_queues[prio]))
        ELSE IF lower # {} THEN FirstRunnable(st, run_queues[Max(lower)])
        ELSE 0
    BY DEF SelectNext
<1>3. /\ ready \subseteq Priorities
      /\ \A p \in ready : p \in higher \/ p = prio \/ p \in lower
      /\ \A p \in higher : p \in ready /\ p > prio
      /\ \A p \in lower : p \in ready /\ p < prio
    <2> HIDE DEF prio
    <2>1. ready \subseteq Priorities
        OBVIOUS
    <2> HIDE DEF ready
    <2> QED BY <1>1, <2>1 DEF Above, Below
<1>4. \A p \in ready : RunnableAt(st, run_queues[p]) # {}
    OBVIOUS
<1>5. \A p \in Priorities : RunnableAt(st, run_queues[p]) # {} => p \in ready
    OBVIOUS
<1> HIDE DEF ready, higher, lower, prio
<1>6. CASE higher # {}
    <2>1. Max(higher) \in higher /\ \A p \in higher : p <= Max(higher)
        <3>1. higher \subseteq 0 .. MAX_PRIORITY
            BY <1>1, <1>3
        <3> QED BY <1>1, <3>1, <1>6, MaxIsGreatest
    <2>2. \A p \in ready : p <= Max(higher)
        <3> SUFFICES ASSUME NEW p \in ready PROVE p <= Max(higher)
            OBVIOUS
        <3>1. p \in Nat /\ Max(higher) \in Nat
            BY <1>1, <1>3, <2>1
        <3> QED BY <3>1, <1>1, <1>3, <2>1
    <2>3. RunnableIn(st, Max(higher), FirstRunnable(st, run_queues[Max(higher)]))
        BY <1>3, <1>4, <2>1, FirstRunnableIn
    <2> QED BY <1>2, <1>3, <1>5, <1>6, <2>1, <2>2, <2>3
<1>7. CASE higher = {} /\ prio \in ready
    <2>1. \A p \in ready : p <= prio
        BY <1>1, <1>3, <1>7
    <2>2. RunnableIn(st, prio, NextRunnable(st, run_queues[prio],
                                            NextIndex(current_pid, run_queues[prio])))
        BY <1>3, <1>4, <1>7, NextRunnableIn
    <2> QED BY <1>2, <1>3, <1>5, <1>7, <2>1, <2>2
<1>8. CASE higher = {} /\ prio \notin ready /\ lower # {}
    <2>1. Max(lower) \in lower /\ \A p \in lower : p <= Max(lower)
        <3>1. lower \subseteq 0 .. MAX_PRIORITY
            BY <1>1, <1>3
        <3> QED BY <1>1, <3>1, <1>8, MaxIsGreatest
    <2>2. \A p \in ready : p <= Max(lower)
        <3> SUFFICES ASSUME NEW p \in ready PROVE p <= Max(lower)
            OBVIOUS
        <3>1. p \in Nat /\ Max(lower) \in Nat
            BY <1>1, <1>3, <2>1
        <3> QED BY <3>1, <1>1, <1>3, <1>8, <2>1
    <2>3. RunnableIn(st, Max(lower), FirstRunnable(st, run_queues[Max(lower)]))
        BY <1>3, <1>4, <2>1, FirstRunnableIn
    <2> QED BY <1>2, <1>3, <1>5, <1>8, <2>1, <2>2, <2>3
<1>9. CASE higher = {} /\ prio \notin ready /\ lower = {}
    BY <1>2, <1>3, <1>5, <1>9
<1> QED BY <1>6, <1>7, <1>8, <1>9

\* The selection returns the number of a process.
LEMMA SelectNextPid ==
    ASSUME TypeOK, NEW st
    PROVE  SelectNext(st) \in Pids
<1>1. \A q \in Priorities : run_queues[q] \in Seq(Pids)
    BY DEF TypeOK
<1>2. 0 \in Pids
    BY ParametersAssumption DEF Pids
<1> QED BY <1>1, <1>2, SelectNextRunnable DEF RunnableIn

\* The states select_next_process() sees in scheduler_tick() are states.
LEMMA TickTypes ==
    ASSUME TypeOK, SleepersHaveTimeout
    PROVE  /\ TickedTimeouts \in [Pids -> Nat]
           /\ TickedStates \in [Pids -> States]
           /\ ExpiredStates \in [Pids -> States]
           /\ \A p \in Pids : TickedStates[p] \in {"SLEEPING", "BLOCKED_TIMEOUT"}
                 => TickedTimeouts[p] > 0
<1>1. TickedTimeouts \in [Pids -> Nat]
    BY DEF TypeOK, SleepersHaveTimeout, TickedTimeouts
<1>2. TickedStates \in [Pids -> States]
    BY DEF TypeOK, TickedStates, States
<1>3. ExpiredStates \in [Pids -> States]
    BY <1>2 DEF TypeOK, ExpiredStates, States
<1>4. ASSUME NEW p \in Pids, TickedStates[p] \in {"SLEEPING", "BLOCKED_TIMEOUT"}
      PROVE  TickedTimeouts[p] > 0
    BY <1>1, <1>4 DEF TickedStates, Asleep
<1> QED BY <1>1, <1>2, <1>3, <1>4

\* get_free_pid() returns a process number that is free.
LEMMA FreePidIsEmpty ==
    ASSUME TypeOK, NEW pid \in FreePid
    PROVE  state[pid] = "EMPTY"
<1> DEFINE nth(i) == (next_pid + i) % MAX_PROCESS
           free == {i \in 0 .. MAX_PROCESS : state[nth(i)] = "EMPTY"}
<1>1. free # {} /\ pid = nth(Min(free))
    BY DEF FreePid
<1>2. free \subseteq Nat
    OBVIOUS
<1>3. Min(free) \in free
    <2> HIDE DEF free
    <2> QED BY <1>1, <1>2, MinIsLeast
<1> QED BY <1>1, <1>3

-----------------------------------------------------------------------------
(* Types, and no sleeper without a tick to go *)

TypeInv == TypeOK /\ SleepersHaveTimeout

\* Memory that was never written (.bss) has the types of TypeOK.
LEMMA TypeInvInit == Init => TypeInv
<1> SUFFICES ASSUME Init PROVE TypeInv
    OBVIOUS
<1>1. << >> \in Seq(Pids)
    OBVIOUS
<1>2. run_queues \in [Priorities -> Seq(Pids)]
    BY <1>1 DEF Init
<1>3. priority \in [Pids -> 0 .. MAX_PRIORITY] /\ rounds \in [Pids -> 0 .. rr_quantum]
    BY ConstantTypes DEF Init
<1>4. context \in [Pids -> Contexts]
    BY ContextTypes DEF Init
<1>5. sleep_timeout \in [Pids -> Nat] /\ state \in [Pids -> States] /\ system \in [Pids -> BOOLEAN]
    BY DEF Init, States
<1>6. current_pid \in Pids /\ next_pid \in Pids /\ stack \in Pids /\ new_pid \in Pids
    BY ConstantTypes DEF Init
<1>7. SleepersHaveTimeout
    BY DEF Init, SleepersHaveTimeout, Asleep
<1> QED
    BY <1>2, <1>3, <1>4, <1>5, <1>6, <1>7 DEF Init, TypeInv, TypeOK, PCs

\* Every stretch of code keeps the types, and a sleeper has ticks left: TickedTimeouts
\* subtracts 1 only where there is one to take.
LEMMA TypeInvNext == TypeInv /\ [Next]_vars => TypeInv'
<1> SUFFICES ASSUME TypeInv, [Next]_vars PROVE TypeInv'
    OBVIOUS
<1>0. /\ TickedTimeouts \in [Pids -> Nat]
      /\ TickedStates \in [Pids -> States]
      /\ ExpiredStates \in [Pids -> States]
      /\ \A p \in Pids : TickedStates[p] \in {"SLEEPING", "BLOCKED_TIMEOUT"}
            => TickedTimeouts[p] > 0
      /\ \A st : SelectNext(st) \in Pids
    BY TickTypes, SelectNextPid DEF TypeInv
<1> USE DEF TypeInv, TypeOK, SleepersHaveTimeout, Asleep, pcb, globals, frame, cpu
<1>1. CASE scheduler_init
    <2>1. \A p \in Pids : <<p>> \in Seq(Pids)
        OBVIOUS
    <2>2. run_queues' \in [Priorities -> Seq(Pids)]
        BY <1>1, <2>1, ConstantTypes DEF scheduler_init, idle_pid, init_pid, post_init_pid
    <2>3. priority' \in [Pids -> 0 .. MAX_PRIORITY]
        BY <1>1, ConstantTypes DEF scheduler_init
    <2>4. state' \in [Pids -> States] /\ system' \in [Pids -> BOOLEAN]
        BY <1>1 DEF scheduler_init, States
    <2>5. SleepersHaveTimeout'
        BY <1>1 DEF scheduler_init
    <2> QED BY <1>1, <2>2, <2>3, <2>4, <2>5, ConstantTypes DEF scheduler_init
<1>2. CASE LoadProgram
    <2>1. Append(run_queues[DEFAULT_PRIORITY], 3) \in Seq(Pids)
        BY ConstantTypes
    <2>2. run_queues' \in [Priorities -> Seq(Pids)]
        BY <1>2, <2>1 DEF LoadProgram
    <2> QED BY <1>2, <2>2, ConstantTypes DEF LoadProgram, States
<1>3. CASE scheduler_start
    <2>1. post_init_pid \in Pids
        BY ConstantTypes DEF post_init_pid
    <2>2. state' \in [Pids -> States] /\ current_pid' \in Pids /\ stack' \in Pids
        BY <1>3, <2>1 DEF scheduler_start, States
    <2>3. SleepersHaveTimeout'
        BY <1>3, <2>1 DEF scheduler_start
    <2> QED BY <1>3, <2>2, <2>3 DEF scheduler_start, PCs
<1>4. CASE SwitchToSelf
    BY <1>4 DEF SwitchToSelf, ReturnPoint, PCs
<1>5. CASE SwitchToOther
    BY <1>5 DEF SwitchToOther, SaveContext, Saved, Contexts, MakeCurrent, States, PCs
<1>6. CASE SwitchRepeated
    BY <1>6 DEF SwitchRepeated, Overwritten, Contexts, PCs
<1>6a. CASE RunningRepeated
    BY <1>6a DEF RunningRepeated, States, PCs
<1>7. CASE RestoreFresh
    BY <1>7 DEF RestoreFresh, EntryPoint, PCs
<1>8. CASE RestoreSaved
    BY <1>8, ContextTypes DEF RestoreSaved, PCs
<1>9. CASE RestoreFaults
    BY <1>9 DEF RestoreFaults, PCs
<1>10. CASE Reschedule
    BY <1>0, <1>10 DEF Reschedule, PCs
<1>11. CASE RescheduleReturns
    BY <1>11 DEF RescheduleReturns, ReturnPoint, PCs
<1>12. CASE YieldSelects
    BY <1>0, <1>12 DEF YieldSelects, PCs
<1>13. CASE YieldReturns
    BY <1>13 DEF YieldReturns, GoOn, ReturnPoint, States, PCs
<1>14. CASE scheduler_yield
    BY <1>14 DEF scheduler_yield, GoOn, States, PCs
<1>15. CASE YieldRefused
    BY <1>15 DEF YieldRefused, GoOn, EntryPoint, PCs
<1>16. CASE CallReschedule
    BY <1>16 DEF CallReschedule, GoOn, PCs
<1>17. CASE \E pid \in Pids, time \in SleepTimes : scheduler_proc_sleep_ms(pid, time)
    <2> SUFFICES ASSUME NEW pid \in Pids, NEW time \in SleepTimes,
                        scheduler_proc_sleep_ms(pid, time)
                 PROVE  TypeInv'
        BY <1>17
    <2>1. SleepTicks(time) \in Nat \ {0}
        <3>1. time * TICKS_PER_MS \in Nat
            BY ParametersAssumption
        <3> QED BY <3>1 DEF SleepTicks
    <2>2. sleep_timeout' = [sleep_timeout EXCEPT ![pid] = SleepTicks(time)]
          /\ state' = [state EXCEPT ![pid] = "SLEEPING"]
        BY DEF scheduler_proc_sleep_ms
    <2>3. sleep_timeout' \in [Pids -> Nat] /\ state' \in [Pids -> States]
        BY <2>1, <2>2 DEF States
    <2>4. SleepersHaveTimeout'
        <3> SUFFICES ASSUME NEW p \in Pids, state'[p] \in {"SLEEPING", "BLOCKED_TIMEOUT"}
                     PROVE  sleep_timeout'[p] > 0
            OBVIOUS
        <3>1. CASE p = pid
            <4>1. sleep_timeout'[p] = SleepTicks(time)
                BY <2>2, <3>1
            <4> QED BY <2>1, <4>1
        <3>2. CASE p # pid
            <4>1. sleep_timeout'[p] = sleep_timeout[p] /\ state'[p] = state[p]
                BY <2>2, <3>2
            <4> QED BY <4>1
        <3> QED BY <3>1, <3>2
    <2>5. /\ UNCHANGED <<priority, rounds, context, system, run_queues, current_pid,
                         next_pid, started, interrupts, irq0_in_service, stack,
                         in_irq, new_pid>>
          /\ pc' \in PCs /\ caller' \in {"task", "kill"}
        BY DEF scheduler_proc_sleep_ms, GoOn, PCs
    <2>6. TypeOK'
        BY <2>3, <2>5
    <2> QED BY <2>4, <2>6
<1>18. CASE \E pid \in Pids : scheduler_block_process(pid)
    BY <1>18 DEF scheduler_block_process, GoOn, States, PCs
<1>19. CASE \E pid \in Pids : scheduler_unblock_process(pid)
    BY <1>19 DEF scheduler_unblock_process, GoOn, States, PCs
<1>20. CASE \E pid \in Pids : scheduler_unblock_process_hint(pid)
    BY <1>20 DEF scheduler_unblock_process_hint, GoOn, States, PCs
<1>21. CASE \E pid \in Pids : scheduler_create_kernel_task(pid)
    <2> SUFFICES ASSUME NEW pid \in Pids, scheduler_create_kernel_task(pid) PROVE TypeInv'
        BY <1>21
    <2>1. priority' \in [Pids -> 0 .. MAX_PRIORITY] /\ context' \in [Pids -> Contexts]
        BY ConstantTypes, ContextTypes DEF scheduler_create_kernel_task
    <2>2. state' \in [Pids -> States] /\ next_pid' \in Pids /\ SleepersHaveTimeout'
        BY ConstantTypes DEF scheduler_create_kernel_task, States
    <2> QED BY <2>1, <2>2 DEF scheduler_create_kernel_task
<1>22. CASE \E pid \in Pids, prio \in Priorities : scheduler_queue_system_process(pid, prio)
    <2> SUFFICES ASSUME NEW pid \in Pids, NEW prio \in Priorities,
                        scheduler_queue_system_process(pid, prio)
                 PROVE  TypeInv'
        BY <1>22
    <2>1. priority' \in [Pids -> 0 .. MAX_PRIORITY]
        BY ConstantTypes DEF scheduler_queue_system_process
    <2> QED BY <2>1 DEF scheduler_queue_system_process, States, PCs
<1>22a. CASE QueuePushes
    <2>1. run_queues' \in [Priorities -> Seq(Pids)]
        <3>1. PICK prio : \/ run_queues' = run_queues
                          \/ run_queues' = [run_queues EXCEPT ![prio] = Append(@, new_pid)]
            BY <1>22a DEF QueuePushes, Enqueue
        <3>2. CASE prio \in Priorities
            <4>1. Append(run_queues[prio], new_pid) \in Seq(Pids)
                BY <3>2
            <4> QED BY <3>1, <4>1
        <3>3. CASE prio \notin Priorities
            <4>1. run_queues' = run_queues
                BY <3>1, <3>3
            <4> QED BY <4>1
        <3> QED BY <3>2, <3>3
    <2>2. pc' \in PCs
        BY <1>22a DEF QueuePushes, PCs
    <2> QED BY <1>22a, <2>1, <2>2 DEF QueuePushes
<1>23. CASE OutOfProcesses
    BY <1>23 DEF OutOfProcesses, PCs
<1>24. CASE scheduler_kill_current_process
    BY <1>24 DEF scheduler_kill_current_process, GoOn, States, PCs
<1>25. CASE ProgramReturns
    BY <1>25 DEF ProgramReturns, GoOn, PCs
<1>26. CASE TickCounts
    <2>1. rounds[current_pid] + 1 \in 0 .. rr_quantum
        BY <1>26, ParametersAssumption DEF TickCounts
    <2> QED BY <1>0, <1>26, <2>1 DEF TickCounts, AfterInterrupt, PCs
<1>27. CASE TickKeeps
    BY <1>0, <1>27, ConstantTypes DEF TickKeeps, AfterInterrupt, PCs
<1>28. CASE TickPreempts
    <2>1. PICK next \in Pids : next = SelectNext(ExpiredStates)
        BY <1>0
    <2>2. TypeOK'
        BY <1>0, <1>28, <2>1, ConstantTypes, ContextTypes
        DEF TickPreempts, SaveContext, MakeCurrent, States, PCs
    <2>3. \A p \in Pids : ExpiredStates[p] \in {"SLEEPING", "BLOCKED_TIMEOUT"}
             => TickedTimeouts[p] > 0
        BY <1>0 DEF ExpiredStates
    <2>4. SleepersHaveTimeout'
        BY <1>0, <1>28, <2>1, <2>3 DEF TickPreempts, MakeCurrent
    <2> QED BY <2>2, <2>4
<1>29. CASE KeyboardInterrupt
    BY <1>29 DEF KeyboardInterrupt, PCs
<1>30. CASE UNCHANGED vars
    BY <1>30 DEF vars
<1> QED
    BY <1>1, <1>2, <1>3, <1>4, <1>5, <1>6, <1>6a, <1>7, <1>8, <1>9, <1>10, <1>11, <1>12,
       <1>13, <1>14, <1>15, <1>16, <1>17, <1>18, <1>19, <1>20, <1>21, <1>22, <1>22a, <1>23,
       <1>24, <1>25, <1>26, <1>27, <1>28, <1>29, <1>30
    DEF Next, Boot, KernelStep, Switch, TaskStep, Tick

\* Every state has the types the code gives its variables.
THEOREM TypeCorrect == Spec => []TypeOK
<1>1. TypeInv => TypeOK
    BY DEF TypeInv
<1> QED BY <1>1, TypeInvInit, TypeInvNext, PTL DEF Spec

\* The decrement of sleep_timeout in scheduler_tick() never wraps around.
THEOREM TimeoutsNeverWrap == Spec => []SleepersHaveTimeout
<1>1. TypeInv => SleepersHaveTimeout
    BY DEF TypeInv
<1> QED BY <1>1, TypeInvInit, TypeInvNext, PTL DEF Spec

-----------------------------------------------------------------------------
(* A process that has been queued keeps its number *)

\* pid has been queued: it is not free, and not still being created
Used(pid) == state[pid] \notin {"EMPTY", "NEW"}

\* No step takes a process number back ...
LEMMA UsedStays ==
    ASSUME TypeInv, [Next]_vars, NEW p \in Pids, Used(p)
    PROVE  Used(p)'
<1> USE DEF TypeInv, TypeOK, Used, pcb, globals, frame, cpu
<1>0. \A st : SelectNext(st) \in Pids
    BY SelectNextPid
<1>1. CASE scheduler_init
    BY <1>1 DEF scheduler_init, idle_pid, init_pid, post_init_pid
<1>2. CASE LoadProgram
    BY <1>2 DEF LoadProgram
<1>3. CASE scheduler_start
    BY <1>3 DEF scheduler_start, post_init_pid
<1>4. CASE SwitchToSelf
    BY <1>4 DEF SwitchToSelf, ReturnPoint
<1>5. CASE SwitchToOther
    BY <1>5 DEF SwitchToOther, SaveContext, MakeCurrent
<1>6. CASE SwitchRepeated
    BY <1>6 DEF SwitchRepeated
<1>6a. CASE RunningRepeated
    BY <1>6a DEF RunningRepeated
<1>7. CASE RestoreFresh
    BY <1>7 DEF RestoreFresh, EntryPoint
<1>8. CASE RestoreSaved
    BY <1>8 DEF RestoreSaved
<1>9. CASE RestoreFaults
    BY <1>9 DEF RestoreFaults
<1>10. CASE Reschedule
    BY <1>10 DEF Reschedule
<1>11. CASE RescheduleReturns
    BY <1>11 DEF RescheduleReturns, ReturnPoint
<1>12. CASE YieldSelects
    BY <1>12 DEF YieldSelects
<1>13. CASE YieldReturns
    BY <1>13 DEF YieldReturns, GoOn, ReturnPoint
<1>14. CASE scheduler_yield
    BY <1>14 DEF scheduler_yield, GoOn
<1>15. CASE YieldRefused
    BY <1>15 DEF YieldRefused, GoOn, EntryPoint
<1>16. CASE CallReschedule
    BY <1>16 DEF CallReschedule, GoOn
<1>17. CASE \E pid \in Pids, time \in SleepTimes : scheduler_proc_sleep_ms(pid, time)
    BY <1>17 DEF scheduler_proc_sleep_ms, GoOn
<1>18. CASE \E pid \in Pids : scheduler_block_process(pid)
    BY <1>18 DEF scheduler_block_process, GoOn
<1>19. CASE \E pid \in Pids : scheduler_unblock_process(pid)
    BY <1>19 DEF scheduler_unblock_process, GoOn
<1>20. CASE \E pid \in Pids : scheduler_unblock_process_hint(pid)
    BY <1>20 DEF scheduler_unblock_process_hint, GoOn
<1>21. CASE \E pid \in Pids : scheduler_create_kernel_task(pid)
    <2> SUFFICES ASSUME NEW pid \in Pids, scheduler_create_kernel_task(pid)
                 PROVE  Used(p)'
        BY <1>21
    <2>1. state[pid] = "EMPTY"
        BY FreePidIsEmpty DEF scheduler_create_kernel_task
    <2> QED BY <2>1 DEF scheduler_create_kernel_task
<1>22. CASE \E pid \in Pids, prio \in Priorities : scheduler_queue_system_process(pid, prio)
    BY <1>22 DEF scheduler_queue_system_process
<1>22a. CASE QueuePushes
    BY <1>22a DEF QueuePushes
<1>23. CASE OutOfProcesses
    BY <1>23 DEF OutOfProcesses
<1>24. CASE scheduler_kill_current_process
    BY <1>24 DEF scheduler_kill_current_process, GoOn
<1>25. CASE ProgramReturns
    BY <1>25 DEF ProgramReturns, GoOn
<1>26. CASE TickCounts
    BY <1>26 DEF TickCounts, AfterInterrupt, TickedStates
<1>27. CASE TickKeeps
    BY <1>27 DEF TickKeeps, AfterInterrupt, TickedStates
<1>28. CASE TickPreempts
    BY <1>28, <1>0 DEF TickPreempts, SaveContext, MakeCurrent, TickedStates,
       ExpiredStates
<1>29. CASE KeyboardInterrupt
    BY <1>29 DEF KeyboardInterrupt
<1>30. CASE UNCHANGED vars
    BY <1>30 DEF vars
<1> QED
    BY <1>1, <1>2, <1>3, <1>4, <1>5, <1>6, <1>6a, <1>7, <1>8, <1>9, <1>10, <1>11, <1>12,
       <1>13, <1>14, <1>15, <1>16, <1>17, <1>18, <1>19, <1>20, <1>21, <1>22, <1>22a,
       <1>23, <1>24, <1>25, <1>26, <1>27, <1>28, <1>29, <1>30
    DEF Next, Boot, KernelStep, Switch, TaskStep, Tick

\* ... so that the numbers the scheduler keeps name processes that have been
\* queued: the current one, the one it switches to, the ones in the frames that
\* a restored context goes back to.
UsedInv ==
    /\ started <=> pc # "boot"
    /\ ~started /\ next_pid = 0 =>
          /\ \A p \in Pids : state[p] = "EMPTY"
          /\ \A q \in Priorities : run_queues[q] = << >>
    /\ ~started /\ next_pid = 3 => ~Used(3)
    /\ started \/ next_pid # 0 => Used(0) /\ Used(1) /\ Used(2)
    /\ started => Used(current_pid)
    /\ pc \in {"queue", "switch", "resumed", "marked", "switched"} => Used(new_pid)
    /\ \A p \in Pids : context[p].kind = "saved" => Used(context[p].new_pid)

\* No process exists before scheduler_init().
LEMMA UsedInvInit == Init => UsedInv
BY ContextTypes DEF Init, UsedInv

\* The selection returns the number of a process that was created and queued.
LEMMA SelectNextUsed ==
    ASSUME TypeOK, UsedInv, started, NEW st \in [Pids -> States],
           \A p \in Pids : st[p] \in {"READY", "RUNNING"} => Used(p)
    PROVE  Used(SelectNext(st))
BY SelectNextRunnable, SelectNextPid DEF RunnableIn, Runnable, UsedInv

\* Processes once created stay created, through boot, switches and ticks.
LEMMA UsedInvNext == TypeInv /\ UsedInv /\ [Next]_vars => UsedInv'
<1> SUFFICES ASSUME TypeInv, UsedInv, [Next]_vars PROVE UsedInv'
    OBVIOUS
<1>a. \A p \in Pids : Used(p) => Used(p)'
    BY UsedStays
<1>b. started => Used(SelectNext(state)) /\ SelectNext(state) \in Pids
    <2>1. ASSUME NEW p \in Pids, state[p] \in {"READY", "RUNNING"} PROVE Used(p)
        BY <2>1 DEF Used
    <2> QED BY <2>1, SelectNextUsed, SelectNextPid DEF TypeInv, TypeOK
<1>c. started => Used(SelectNext(ExpiredStates)) /\ SelectNext(ExpiredStates) \in Pids
    <2> SUFFICES ASSUME started
                 PROVE  Used(SelectNext(ExpiredStates)) /\ SelectNext(ExpiredStates) \in Pids
        OBVIOUS
    <2>1. ASSUME NEW p \in Pids, ExpiredStates[p] \in {"READY", "RUNNING"} PROVE Used(p)
        BY <2>1 DEF Used, ExpiredStates, TickedStates, Asleep, UsedInv, TypeInv, TypeOK
    <2>2. ExpiredStates \in [Pids -> States]
        BY TickTypes DEF TypeInv
    <2> QED BY <2>1, <2>2, SelectNextUsed, SelectNextPid DEF TypeInv
<1>d. /\ current_pid \in Pids /\ new_pid \in Pids /\ stack \in Pids
      /\ state \in [Pids -> States] /\ context \in [Pids -> Contexts]
      /\ 0 \in Pids /\ 1 \in Pids /\ 2 \in Pids
      /\ \A p \in Pids : context[p].kind = "saved" => context[p].new_pid \in Pids
    BY ConstantTypes, ContextTypes DEF TypeInv, TypeOK
<1> USE DEF Used, UsedInv, pcb, globals, frame, cpu
<1>1. CASE scheduler_init
    BY <1>1, <1>a, <1>d, ConstantTypes DEF scheduler_init, idle_pid, init_pid,
       post_init_pid, Used
<1>2. CASE LoadProgram
    BY <1>2, <1>a, <1>d DEF LoadProgram, Calling
<1>3. CASE scheduler_start
    BY <1>3, <1>a, <1>d, ConstantTypes DEF scheduler_start, post_init_pid
<1>4. CASE SwitchToSelf
    BY <1>4, <1>a, <1>d DEF SwitchToSelf, ReturnPoint
<1>5. CASE SwitchToOther
    <2>1. ASSUME NEW p \in Pids, context'[p].kind = "saved"
          PROVE  context'[p].new_pid = new_pid \/ context'[p] = context[p]
        <3>1. Saved(stack, in_irq, new_pid).new_pid = new_pid
            BY DEF Saved
        <3>2. context'[p] = IF p = current_pid THEN Saved(stack, in_irq, new_pid)
                            ELSE context[p]
            BY <1>5, <1>d DEF SwitchToOther, SaveContext
        <3> QED BY <3>1, <3>2
    <2> QED BY <1>5, <1>a, <1>d, <2>1 DEF SwitchToOther, MakeCurrent
<1>6. CASE SwitchRepeated
    BY <1>6, <1>a, <1>d, ContextTypes DEF SwitchRepeated
<1>6a. CASE RunningRepeated
    BY <1>6a, <1>a, <1>d DEF RunningRepeated
<1>7. CASE RestoreFresh
    BY <1>7, <1>a, <1>d DEF RestoreFresh, EntryPoint
<1>8. CASE RestoreSaved
    BY <1>8, <1>a, <1>d, ContextTypes DEF RestoreSaved
<1>9. CASE RestoreFaults
    BY <1>9, <1>a, <1>d DEF RestoreFaults
<1>10. CASE Reschedule
    BY <1>10, <1>a, <1>d, <1>b DEF Reschedule
<1>11. CASE RescheduleReturns
    BY <1>11, <1>a, <1>d DEF RescheduleReturns, ReturnPoint
<1>12. CASE YieldSelects
    BY <1>12, <1>a, <1>d, <1>b DEF YieldSelects
<1>13. CASE YieldReturns
    BY <1>13, <1>a, <1>d DEF YieldReturns, GoOn, ReturnPoint
<1>14. CASE scheduler_yield
    BY <1>14, <1>a, <1>d DEF scheduler_yield, GoOn
<1>15. CASE YieldRefused
    BY <1>15, <1>a, <1>d DEF YieldRefused, GoOn, EntryPoint
<1>16. CASE CallReschedule
    BY <1>16, <1>a, <1>d DEF CallReschedule, GoOn, Calling
<1>17. CASE \E pid \in Pids, time \in SleepTimes : scheduler_proc_sleep_ms(pid, time)
    BY <1>17, <1>a, <1>d DEF scheduler_proc_sleep_ms, GoOn, Calling
<1>18. CASE \E pid \in Pids : Queued(pid) /\ scheduler_block_process(pid)
    BY <1>18, <1>a, <1>d DEF scheduler_block_process, GoOn, Calling
<1>19. CASE \E pid \in Pids : scheduler_unblock_process(pid)
    BY <1>19, <1>a, <1>d DEF scheduler_unblock_process, GoOn, Calling
<1>20. CASE \E pid \in Pids : Queued(pid) /\ scheduler_unblock_process_hint(pid)
    BY <1>20, <1>a, <1>d DEF scheduler_unblock_process_hint, GoOn, Calling
<1>21. CASE \E pid \in Pids : scheduler_create_kernel_task(pid)
    <2>1. ASSUME NEW p \in Pids, context'[p].kind = "saved"
          PROVE  context'[p] = context[p]
        BY <1>21, <1>d, <2>1, ContextTypes DEF scheduler_create_kernel_task
    <2> QED BY <1>21, <1>a, <1>d, <2>1 DEF scheduler_create_kernel_task, Calling
<1>22. CASE \E pid \in Pids, prio \in Priorities : scheduler_queue_system_process(pid, prio)
    BY <1>22, <1>a, <1>d DEF scheduler_queue_system_process, Calling
<1>22a. CASE QueuePushes
    BY <1>22a, <1>a, <1>d DEF QueuePushes
<1>23. CASE OutOfProcesses
    BY <1>23, <1>a, <1>d DEF OutOfProcesses, Calling
<1>24. CASE scheduler_kill_current_process
    BY <1>24, <1>a, <1>d DEF scheduler_kill_current_process, GoOn
<1>25. CASE ProgramReturns
    BY <1>25, <1>a, <1>d DEF ProgramReturns, GoOn
<1>26. CASE TickCounts
    BY <1>26, <1>a, <1>d DEF TickCounts, AfterInterrupt, TimerStrikes
<1>27. CASE TickKeeps
    BY <1>27, <1>a, <1>d DEF TickKeeps, AfterInterrupt, TimerStrikes
<1>28. CASE TickPreempts
    <2> DEFINE next == SelectNext(ExpiredStates)
    <2>1. started /\ next \in Pids /\ Used(next)
        BY <1>28, <1>c DEF TickPreempts, TimerStrikes
    <2>2. ASSUME NEW p \in Pids, context'[p].kind = "saved"
          PROVE  context'[p].new_pid = next \/ context'[p] = context[p]
        <3>1. Saved(stack, TRUE, next).new_pid = next
            BY DEF Saved
        <3>2. context'[p] = IF p = current_pid THEN Saved(stack, TRUE, next)
                            ELSE context[p]
            BY <1>28, <1>d DEF TickPreempts, SaveContext
        <3> QED BY <3>1, <3>2
    <2>3. new_pid' = next /\ current_pid' = next
        BY <1>28 DEF TickPreempts, MakeCurrent
    <2> HIDE DEF next
    <2> QED BY <1>28, <1>a, <1>d, <2>1, <2>2, <2>3 DEF TickPreempts, TimerStrikes
<1>29. CASE KeyboardInterrupt
    BY <1>29, <1>a, <1>d DEF KeyboardInterrupt
<1>30. CASE UNCHANGED vars
    BY <1>30, <1>a, <1>d DEF vars
<1> QED
    BY <1>1, <1>2, <1>3, <1>4, <1>5, <1>6, <1>6a, <1>7, <1>8, <1>9, <1>10, <1>11, <1>12,
       <1>13, <1>14, <1>15, <1>16, <1>17, <1>18, <1>19, <1>20, <1>21, <1>22, <1>22a,
       <1>23, <1>24, <1>25, <1>26, <1>27, <1>28, <1>29, <1>30
    DEF Next, Boot, KernelStep, Switch, TaskStep, Tick

-----------------------------------------------------------------------------
(* Whose stack the CPU is on *)

\* the CPU executes a task's function or a scheduler function the task called
InCall == pc \in {"task", "hlt", "yield", "reschedule", "queue", "switch"}

\* The invariant behind CurrentOwnsStack and OwnCodeBeforeFirstSwitch.  A task
\* executes its code on its own stack and was never switched away from.  A saved
\* context leads to a process that was switched away from in its turn, or still
\* has the CPU: once a context has been restored, restored contexts follow one
\* another.  Before the first preemption, a saved context is on its own stack.
StackInv ==
    /\ InCall => stack = current_pid /\ context[current_pid].kind = "fresh"
    /\ pc = "switched" => new_pid = current_pid
    /\ pc \in {"resumed", "marked"} => /\ context[current_pid].kind # "fresh"
                                       /\ context[new_pid].kind # "fresh"
    /\ \A p \in Pids : context[p].kind = "saved" =>
          \/ context[context[p].new_pid].kind # "fresh"
          \/ context[p].new_pid = current_pid
    /\ ~irq0_in_service => ~in_irq
    /\ ~irq0_in_service => \A p \in Pids : context[p].kind = "saved" =>
                               context[p].stack = p /\ ~context[p].in_irq
    /\ ~started => \A p \in Pids : context[p].kind = "fresh"

\* No context has been saved before the boot.
LEMMA StackInvInit == Init => StackInv
<1> SUFFICES ASSUME Init PROVE StackInv
    OBVIOUS
<1>1. \A p \in Pids : context[p].kind = "fresh"
    BY ContextTypes DEF Init
<1> QED BY <1>1 DEF Init, StackInv, InCall

\* Every step keeps saved contexts on the stacks of their owners until a tick preempts.
LEMMA StackInvNext == TypeInv /\ UsedInv /\ StackInv /\ [Next]_vars => StackInv'
<1> SUFFICES ASSUME TypeInv, UsedInv, StackInv, [Next]_vars PROVE StackInv'
    OBVIOUS
<1>a. /\ current_pid \in Pids /\ new_pid \in Pids /\ stack \in Pids
      /\ context \in [Pids -> Contexts]
      /\ \A p \in Pids : context[p].kind = "saved" => context[p].new_pid \in Pids
      /\ started <=> pc # "boot"
      /\ 2 \in Pids
    BY ConstantTypes, ContextTypes DEF TypeInv, TypeOK, UsedInv
<1>b. \A c \in Contexts : c.kind = "fresh" <=> c = Fresh
    BY ContextTypes
<1>c. \A s, irq, pid : /\ Saved(s, irq, pid).kind = "saved"
                       /\ Saved(s, irq, pid).stack = s
                       /\ Saved(s, irq, pid).in_irq = irq
                       /\ Saved(s, irq, pid).new_pid = pid
    BY DEF Saved
<1> USE DEF StackInv, InCall, pcb, globals, frame, cpu
<1>1. CASE scheduler_init
    BY <1>1, <1>a DEF scheduler_init, idle_pid, init_pid, post_init_pid
<1>2. CASE LoadProgram
    BY <1>2, <1>a DEF LoadProgram
<1>3. CASE scheduler_start
    BY <1>3, <1>a DEF scheduler_start, post_init_pid
<1>4. CASE SwitchToSelf
    BY <1>4, <1>a DEF SwitchToSelf, ReturnPoint
<1>5. CASE SwitchToOther
    <2>1. \A p \in Pids : context'[p] = IF p = current_pid THEN Saved(stack, in_irq, new_pid)
                                       ELSE context[p]
        BY <1>5, <1>a DEF SwitchToOther, SaveContext
    <2> QED BY <1>5, <1>a, <1>c, <2>1 DEF SwitchToOther, MakeCurrent
<1>6. CASE SwitchRepeated
    <2>1. \A p \in Pids : context'[p] = context[p] \/ context'[p].kind = "lost"
        BY <1>6 DEF SwitchRepeated, Overwritten
    <2>2. pc = "marked" /\ pc' = "switched" /\ current_pid' = new_pid /\ new_pid' = new_pid
          /\ UNCHANGED <<irq0_in_service, in_irq, started>>
        BY <1>6 DEF SwitchRepeated
    <2>3. \A p \in Pids : context'[p].kind = "saved" => context'[p] = context[p]
        BY <2>1
    <2>4. \A p \in Pids : context[p].kind # "fresh" => context'[p].kind # "fresh"
        BY <2>1
    <2> QED BY <1>a, <2>2, <2>3, <2>4
<1>6a. CASE RunningRepeated
    BY <1>6a, <1>a DEF RunningRepeated
<1>7. CASE RestoreFresh
    BY <1>7, <1>a, <1>b DEF RestoreFresh, EntryPoint
<1>8. CASE RestoreSaved
    BY <1>8, <1>a DEF RestoreSaved
<1>9. CASE RestoreFaults
    BY <1>9, <1>a DEF RestoreFaults
<1>10. CASE Reschedule
    BY <1>10, <1>a DEF Reschedule
<1>11. CASE RescheduleReturns
    BY <1>11, <1>a DEF RescheduleReturns, ReturnPoint
<1>12. CASE YieldSelects
    BY <1>12, <1>a DEF YieldSelects
<1>13. CASE YieldReturns
    BY <1>13, <1>a DEF YieldReturns, GoOn, ReturnPoint
<1>14. CASE scheduler_yield
    BY <1>14, <1>a DEF scheduler_yield, GoOn, Calling
<1>15. CASE YieldRefused
    BY <1>15, <1>a DEF YieldRefused, GoOn, EntryPoint, Calling
<1>16. CASE CallReschedule
    BY <1>16, <1>a DEF CallReschedule, GoOn, Calling
<1>17. CASE \E pid \in Pids, time \in SleepTimes : scheduler_proc_sleep_ms(pid, time)
    BY <1>17, <1>a DEF scheduler_proc_sleep_ms, GoOn, Calling
<1>18. CASE \E pid \in Pids : Queued(pid) /\ scheduler_block_process(pid)
    BY <1>18, <1>a DEF scheduler_block_process, GoOn, Calling
<1>19. CASE \E pid \in Pids : scheduler_unblock_process(pid)
    BY <1>19, <1>a DEF scheduler_unblock_process, GoOn, Calling
<1>20. CASE \E pid \in Pids : Queued(pid) /\ scheduler_unblock_process_hint(pid)
    BY <1>20, <1>a DEF scheduler_unblock_process_hint, GoOn, Calling
<1>21. CASE \E pid \in Pids : scheduler_create_kernel_task(pid)
    <2> SUFFICES ASSUME NEW pid \in Pids, scheduler_create_kernel_task(pid)
                 PROVE  StackInv'
        BY <1>21
    <2>1. started /\ ~Used(pid)
        BY <1>a, FreePidIsEmpty DEF scheduler_create_kernel_task, Calling, TypeInv, Used
    <2>2. pid # current_pid /\ (pc \in {"resumed", "marked"} => pid # new_pid)
          /\ \A p \in Pids : context[p].kind = "saved" => pid # context[p].new_pid
        BY <2>1 DEF UsedInv
    <2>3. \A p \in Pids : context'[p] = IF p = pid THEN Fresh ELSE context[p]
        BY <1>a DEF scheduler_create_kernel_task
    <2>4. Fresh.kind = "fresh"
        BY ContextTypes
    <2> QED BY <1>a, <2>1, <2>2, <2>3, <2>4 DEF scheduler_create_kernel_task, Calling
<1>22. CASE \E pid \in Pids, prio \in Priorities : scheduler_queue_system_process(pid, prio)
    BY <1>22, <1>a DEF scheduler_queue_system_process, Calling
<1>22a. CASE QueuePushes
    BY <1>22a, <1>a DEF QueuePushes
<1>23. CASE OutOfProcesses
    BY <1>23, <1>a DEF OutOfProcesses, Calling
<1>24. CASE scheduler_kill_current_process
    BY <1>24, <1>a DEF scheduler_kill_current_process, GoOn
<1>25. CASE ProgramReturns
    BY <1>25, <1>a DEF ProgramReturns, GoOn
<1>26. CASE TickCounts
    BY <1>26, <1>a DEF TickCounts, AfterInterrupt, TimerStrikes
<1>27. CASE TickKeeps
    BY <1>27, <1>a DEF TickKeeps, AfterInterrupt, TimerStrikes
<1>28. CASE TickPreempts
    <2>1. PICK next : /\ next = SelectNext(ExpiredStates)
                      /\ context' = SaveContext(TRUE, next)
                      /\ current_pid' = next /\ new_pid' = next
        BY <1>28 DEF TickPreempts, MakeCurrent
    <2>2. next \in Pids
        BY <2>1, SelectNextPid DEF TypeInv
    <2>3. \A p \in Pids : context'[p] = IF p = current_pid THEN Saved(stack, TRUE, next)
                                       ELSE context[p]
        BY <1>a, <2>1 DEF SaveContext
    <2>4. /\ irq0_in_service' = TRUE /\ started /\ started' = started
          /\ pc' = "switched" /\ current_pid' = next /\ new_pid' = next
        BY <1>28, <2>1 DEF TickPreempts, TimerStrikes
    <2>s. Saved(stack, TRUE, next).kind = "saved" /\ Saved(stack, TRUE, next).new_pid = next
        BY DEF Saved
    <2>5. \A p \in Pids : context[p].kind # "fresh" => context'[p].kind # "fresh"
        BY <2>s, <2>3
    <2>6. context'[current_pid].kind # "fresh" /\ context'[current_pid].new_pid = next
        BY <1>a, <2>s, <2>3
    <2>7. ASSUME NEW p \in Pids, context'[p].kind = "saved"
          PROVE  \/ context'[context'[p].new_pid].kind # "fresh"
                 \/ context'[p].new_pid = next
        <3>1. CASE p = current_pid
            BY <2>6, <3>1
        <3>2. CASE p # current_pid
            <4>1. context'[p] = context[p]
                BY <2>3, <3>2
            <4>2. \/ context[context[p].new_pid].kind # "fresh"
                  \/ context[p].new_pid = current_pid
                BY <2>7, <4>1
            <4>3. context[p].new_pid \in Pids
                BY <1>a, <2>7, <4>1
            <4> QED BY <2>5, <2>6, <4>1, <4>2, <4>3
        <3> QED BY <3>1, <3>2
    <2> QED BY <2>4, <2>7
<1>29. CASE KeyboardInterrupt
    BY <1>29, <1>a DEF KeyboardInterrupt, TimerStrikes
<1>30. CASE UNCHANGED vars
    BY <1>30, <1>a DEF vars
<1> QED
    BY <1>1, <1>2, <1>3, <1>4, <1>5, <1>6, <1>6a, <1>7, <1>8, <1>9, <1>10, <1>11, <1>12,
       <1>13, <1>14, <1>15, <1>16, <1>17, <1>18, <1>19, <1>20, <1>21, <1>22, <1>22a,
       <1>23, <1>24, <1>25, <1>26, <1>27, <1>28, <1>29, <1>30
    DEF Next, Boot, KernelStep, Switch, TaskStep, Tick

\* What the invariant says of stacks, in every reachable state.
LEMMA StackFacts ==
    Spec => [](CurrentOwnsStack /\ OwnCodeBeforeFirstSwitch /\ ContextsOwnStack)
<1> DEFINE Inv == TypeInv /\ UsedInv /\ StackInv
<1>1. Init => Inv
    BY TypeInvInit, UsedInvInit, StackInvInit
<1>2. Inv /\ [Next]_vars => Inv'
    BY TypeInvNext, UsedInvNext, StackInvNext
<1>3. Inv => CurrentOwnsStack /\ OwnCodeBeforeFirstSwitch /\ ContextsOwnStack
    <2> SUFFICES ASSUME Inv
                 PROVE  CurrentOwnsStack /\ OwnCodeBeforeFirstSwitch /\ ContextsOwnStack
        OBVIOUS
    <2>1. CurrentOwnsStack
        BY DEF StackInv, InCall, CurrentOwnsStack, OwnCode, OwnCall
    <2>2. OwnCodeBeforeFirstSwitch
        <3>1. current_pid \in Pids /\ context[current_pid] \in Contexts
            BY DEF TypeInv, TypeOK
        <3>2. context[current_pid].kind = "fresh" => context[current_pid] = Fresh
            BY <3>1, ContextTypes
        <3> QED BY <3>2 DEF StackInv, InCall, OwnCodeBeforeFirstSwitch, OwnCode
    <2>3. ContextsOwnStack
        BY DEF StackInv, ContextsOwnStack
    <2> QED BY <2>1, <2>2, <2>3
<1> QED BY <1>1, <1>2, <1>3, PTL DEF Spec

\* Whoever executes its own code, or a call of the scheduler, is current_pid:
\* yield, sleep and kill act on their caller.
THEOREM CallsActOnCaller == Spec => []CurrentOwnsStack
BY StackFacts, PTL

\* Until a tick has preempted somebody, a saved context lies on its owner's stack.
THEOREM ContextsStayApart == Spec => []ContextsOwnStack
BY StackFacts, PTL

\* A process that was switched away from never executes its own code again: the
\* second return of arch_save_context repeats the switch.
THEOREM NobodyComesBack == Spec => []OwnCodeBeforeFirstSwitch
BY StackFacts, PTL

-----------------------------------------------------------------------------
(* The run queues *)

\* the steps that create or queue a process
Queueing ==
    \/ scheduler_init \/ LoadProgram \/ QueuePushes
    \/ \E pid \in Pids : scheduler_create_kernel_task(pid)
    \/ \E pid \in Pids, prio \in Priorities : scheduler_queue_system_process(pid, prio)

\* whoever is queueing a process stays where it is
CreatorStays ==
    /\ irq0_in_service' = irq0_in_service
    /\ pc \in {"queue", "fault"} => pc' = pc /\ new_pid' = new_pid
    /\ pc' = "queue" => pc = "queue"

\* Every other step leaves the queues and priorities alone, and uses no process
\* number that was not in use.  Only a tick that preempts takes the CPU from a
\* creator that is queueing a process.
LEMMA NoQueueing ==
    ASSUME TypeInv, UsedInv, QueueIntegrity, [Next]_vars, ~Queueing, NEW p \in Pids
    PROVE  /\ UNCHANGED <<run_queues, priority>>
           /\ Used(p)' => Used(p)
           /\ TickPreempts \/ CreatorStays
<1>a. state \in [Pids -> States] /\ current_pid \in Pids /\ new_pid \in Pids
    BY DEF TypeInv, TypeOK
<1>b. started => Used(SelectNext(ExpiredStates)) /\ SelectNext(ExpiredStates) \in Pids
    <2> SUFFICES ASSUME started
                 PROVE  Used(SelectNext(ExpiredStates)) /\ SelectNext(ExpiredStates) \in Pids
        OBVIOUS
    <2>1. ASSUME NEW r \in Pids, ExpiredStates[r] \in {"READY", "RUNNING"} PROVE Used(r)
        BY <2>1 DEF Used, ExpiredStates, TickedStates, Asleep, UsedInv, TypeInv, TypeOK
    <2>2. ExpiredStates \in [Pids -> States]
        BY TickTypes DEF TypeInv
    <2> QED BY <2>1, <2>2, SelectNextUsed, SelectNextPid DEF TypeInv
<1>c. \A pid \in Pids : Queued(pid) => Used(pid)
    BY DEF Queued, QueueIntegrity, Used
<1> USE DEF Queueing, CreatorStays, UsedInv, Used, pcb, globals, frame, cpu
<1>1. CASE scheduler_init
    BY <1>1
<1>2. CASE LoadProgram
    BY <1>2
<1>3. CASE scheduler_start
    BY <1>3, <1>a, ConstantTypes DEF scheduler_start, post_init_pid
<1>4. CASE SwitchToSelf
    BY <1>4, <1>a DEF SwitchToSelf, ReturnPoint
<1>5. CASE SwitchToOther
    BY <1>5, <1>a DEF SwitchToOther, SaveContext, MakeCurrent
<1>6. CASE SwitchRepeated
    BY <1>6, <1>a DEF SwitchRepeated
<1>6a. CASE RunningRepeated
    BY <1>6a, <1>a DEF RunningRepeated
<1>7. CASE RestoreFresh
    BY <1>7, <1>a DEF RestoreFresh, EntryPoint
<1>8. CASE RestoreSaved
    BY <1>8, <1>a DEF RestoreSaved
<1>9. CASE RestoreFaults
    BY <1>9, <1>a DEF RestoreFaults
<1>10. CASE Reschedule
    BY <1>10, <1>a DEF Reschedule
<1>11. CASE RescheduleReturns
    BY <1>11, <1>a DEF RescheduleReturns, ReturnPoint
<1>12. CASE YieldSelects
    BY <1>12, <1>a DEF YieldSelects
<1>13. CASE YieldReturns
    BY <1>13, <1>a DEF YieldReturns, GoOn, ReturnPoint
<1>14. CASE scheduler_yield
    BY <1>14, <1>a DEF scheduler_yield, GoOn, Calling
<1>15. CASE YieldRefused
    BY <1>15, <1>a DEF YieldRefused, GoOn, EntryPoint, Calling
<1>16. CASE CallReschedule
    BY <1>16, <1>a DEF CallReschedule, GoOn, Calling
<1>17. CASE \E pid \in Pids, time \in SleepTimes : scheduler_proc_sleep_ms(pid, time)
    BY <1>17, <1>a DEF scheduler_proc_sleep_ms, GoOn, Calling
<1>18. CASE \E pid \in Pids : Queued(pid) /\ scheduler_block_process(pid)
    BY <1>18, <1>a, <1>c DEF scheduler_block_process, GoOn, Calling
<1>19. CASE \E pid \in Pids : scheduler_unblock_process(pid)
    BY <1>19, <1>a DEF scheduler_unblock_process, GoOn, Calling
<1>20. CASE \E pid \in Pids : Queued(pid) /\ scheduler_unblock_process_hint(pid)
    BY <1>20, <1>a, <1>c DEF scheduler_unblock_process_hint, GoOn, Calling
<1>21. CASE \E pid \in Pids : scheduler_create_kernel_task(pid)
    BY <1>21
<1>22. CASE \E pid \in Pids, prio \in Priorities : scheduler_queue_system_process(pid, prio)
    BY <1>22
<1>22a. CASE QueuePushes
    BY <1>22a
<1>23. CASE OutOfProcesses
    BY <1>23, <1>a DEF OutOfProcesses, Calling
<1>24. CASE scheduler_kill_current_process
    BY <1>24, <1>a DEF scheduler_kill_current_process, GoOn
<1>25. CASE ProgramReturns
    BY <1>25, <1>a DEF ProgramReturns, GoOn
<1>26. CASE TickCounts
    BY <1>26, <1>a DEF TickCounts, AfterInterrupt, TimerStrikes, TickedStates,
       Asleep
<1>27. CASE TickKeeps
    BY <1>27, <1>a DEF TickKeeps, AfterInterrupt, TimerStrikes, TickedStates, Asleep
<1>28. CASE TickPreempts
    BY <1>28, <1>a, <1>b DEF TickPreempts, SaveContext, MakeCurrent, TimerStrikes,
       TickedStates, ExpiredStates, Asleep
<1>29. CASE KeyboardInterrupt
    BY <1>29, <1>a DEF KeyboardInterrupt, TimerStrikes
<1>30. CASE UNCHANGED vars
    BY <1>30, <1>a DEF vars
<1> QED
    BY <1>1, <1>2, <1>3, <1>4, <1>5, <1>6, <1>6a, <1>7, <1>8, <1>9, <1>10, <1>11, <1>12,
       <1>13, <1>14, <1>15, <1>16, <1>17, <1>18, <1>19, <1>20, <1>21, <1>22, <1>22a,
       <1>23, <1>24, <1>25, <1>26, <1>27, <1>28, <1>29, <1>30
    DEF Next, Boot, KernelStep, Switch, TaskStep, Tick

\* How push_back() changes a queue.
LEMMA AppendOne ==
    ASSUME NEW s \in Seq(Pids), NEW e \in Pids
    PROVE  /\ Len(Append(s, e)) = Len(s) + 1 /\ Len(s) \in Nat
           /\ \A i \in 1 .. Len(s) : Append(s, e)[i] = s[i]
           /\ Append(s, e)[Len(s) + 1] = e
OBVIOUS

\* The two halves of QueueIntegrity.
EntriesSound ==
    \A q \in Priorities : \A i, j \in 1 .. Len(run_queues[q]) :
       /\ priority[run_queues[q][i]] = q
       /\ state[run_queues[q][i]] \notin {"EMPTY", "NEW"}
       /\ run_queues[q][i] = run_queues[q][j] => i = j
OneLost == \A p, r \in Pids : Lost(p) /\ Lost(r) => p = r /\ irq0_in_service

\* The second half survives a step that loses no process.
LEMMA NoneLost ==
    ASSUME OneLost, \A p \in Pids : Lost(p)' => Lost(p),
           irq0_in_service => irq0_in_service'
    PROVE  OneLost'
BY DEF OneLost

\* Nobody who is still being created is in a queue.
LEMMA UnusedNotQueued ==
    ASSUME EntriesSound, NEW p \in Pids, ~Used(p)
    PROVE  ~Queued(p)
BY DEF EntriesSound, Queued, Used

\* Entries stay sound while queues, and state and priority of their processes, do.
LEMMA EntriesStay ==
    ASSUME TypeInv, EntriesSound, run_queues' = run_queues,
           \A p \in Pids : Queued(p) => priority'[p] = priority[p] /\ (Used(p) => Used(p)')
    PROVE  EntriesSound'
<1>1. run_queues \in [Priorities -> Seq(Pids)]
    BY DEF TypeInv, TypeOK
<1>2. ASSUME NEW q \in Priorities, NEW i \in 1 .. Len(run_queues[q])
      PROVE  run_queues[q][i] \in Pids /\ Queued(run_queues[q][i])
    BY <1>1, <1>2 DEF Queued
<1>3. \A q \in Priorities : \A i \in 1 .. Len(run_queues[q]) :
         /\ priority'[run_queues[q][i]] = q
         /\ state'[run_queues[q][i]] \notin {"EMPTY", "NEW"}
    BY <1>2 DEF EntriesSound, Used
<1> QED BY <1>3 DEF EntriesSound

\* push_back() of pid, which is in no queue, to the queue of its priority keeps the
\* entries sound, and takes nobody else from a queue.
LEMMA QueueOne ==
    ASSUME TypeInv, EntriesSound, NEW pid \in Pids, NEW prio \in Priorities,
           ~Queued(pid),
           priority'[pid] = prio, state'[pid] \notin {"EMPTY", "NEW"},
           \A p \in Pids : p # pid => priority'[p] = priority[p] /\ state'[p] = state[p],
           run_queues' = [run_queues EXCEPT ![prio] = Append(@, pid)]
    PROVE  EntriesSound' /\ \A p \in Pids : p = pid \/ Queued(p) => Queued(p)'
<1>1. run_queues \in [Priorities -> Seq(Pids)]
    BY DEF TypeInv, TypeOK
<1>2. \A q \in Priorities : \A i \in 1 .. Len(run_queues[q]) :
         run_queues[q][i] \in Pids /\ run_queues[q][i] # pid
    BY <1>1 DEF Queued
<1>3. \A p \in Pids : /\ p = pid => priority'[p] = prio /\ state'[p] \notin {"EMPTY", "NEW"}
                      /\ p # pid => priority'[p] = priority[p] /\ state'[p] = state[p]
    OBVIOUS
<1>4. \A q \in Priorities : run_queues'[q] = IF q = prio THEN Append(run_queues[q], pid)
                                            ELSE run_queues[q]
    BY <1>1
<1>5. ASSUME NEW q \in Priorities
      PROVE  \A i, j \in 1 .. Len(run_queues'[q]) :
                /\ priority'[run_queues'[q][i]] = q
                /\ state'[run_queues'[q][i]] \notin {"EMPTY", "NEW"}
                /\ run_queues'[q][i] = run_queues'[q][j] => i = j
    <2>1. CASE q # prio
        <3>1. run_queues'[q] = run_queues[q]
            BY <1>4, <2>1
        <3> QED BY <1>2, <1>3, <3>1 DEF EntriesSound
    <2>2. CASE q = prio
        <3> DEFINE s == run_queues[q]
        <3>1. run_queues'[q] = Append(s, pid) /\ s \in Seq(Pids)
            BY <1>1, <1>4, <2>2
        <3>2. /\ Len(Append(s, pid)) = Len(s) + 1 /\ Len(s) \in Nat
              /\ \A i \in 1 .. Len(s) : Append(s, pid)[i] = s[i]
              /\ Append(s, pid)[Len(s) + 1] = pid
            BY <3>1, AppendOne
        <3>3. \A i, j \in 1 .. Len(s) : /\ s[i] \in Pids /\ s[i] # pid
                                        /\ priority[s[i]] = q
                                        /\ state[s[i]] \notin {"EMPTY", "NEW"}
                                        /\ s[i] = s[j] => i = j
            BY <1>2 DEF EntriesSound
        <3> HIDE DEF s
        <3> DEFINE t == run_queues'[q]
        <3>4. \A i \in 1 .. Len(t) : \/ i \in 1 .. Len(s) /\ t[i] = s[i]
                                     \/ i = Len(s) + 1 /\ t[i] = pid
            BY <3>1, <3>2
        <3> HIDE DEF t
        <3>5. \A i \in 1 .. Len(t) : /\ priority'[t[i]] = q
                                     /\ state'[t[i]] \notin {"EMPTY", "NEW"}
            <4> SUFFICES ASSUME NEW i \in 1 .. Len(t)
                         PROVE  priority'[t[i]] = q /\ state'[t[i]] \notin {"EMPTY", "NEW"}
                OBVIOUS
            <4>1. CASE i \in 1 .. Len(s) /\ t[i] = s[i]
                <5>1. /\ s[i] \in Pids /\ s[i] # pid /\ priority[s[i]] = q
                      /\ state[s[i]] \notin {"EMPTY", "NEW"}
                    BY Zenon, <3>3, <4>1
                <5>2. priority'[s[i]] = priority[s[i]] /\ state'[s[i]] = state[s[i]]
                    BY Zenon, <1>3, <5>1
                <5> QED BY Zenon, <4>1, <5>1, <5>2
            <4>2. CASE t[i] = pid
                <5>1. priority'[pid] = prio /\ state'[pid] \notin {"EMPTY", "NEW"}
                    BY Zenon, <1>3
                <5> QED BY Zenon, <2>2, <4>2, <5>1
            <4> QED BY Zenon, <3>4, <4>1, <4>2
        <3>6. \A i, j \in 1 .. Len(t) : t[i] = t[j] => i = j
            BY <3>3, <3>4
        <3> QED BY Zenon, <3>5, <3>6 DEF t
    <2> QED BY Zenon, <2>1, <2>2
<1>6. ASSUME NEW p \in Pids, p = pid \/ Queued(p)
      PROVE  \E q \in Priorities : \E j \in 1 .. Len(run_queues'[q]) : run_queues'[q][j] = p
    <2>1. CASE p = pid
        <3>1. /\ Len(run_queues'[prio]) = Len(run_queues[prio]) + 1
              /\ Len(run_queues[prio]) \in Nat
              /\ run_queues'[prio][Len(run_queues[prio]) + 1] = pid
            BY <1>1, <1>4, AppendOne
        <3>2. Len(run_queues[prio]) + 1 \in 1 .. Len(run_queues'[prio])
            BY <3>1
        <3> QED BY <2>1, <3>1, <3>2
    <2>2. CASE p # pid
        <3>a. PICK q \in Priorities : \E j \in 1 .. Len(run_queues[q]) : run_queues[q][j] = p
            BY <1>6, <2>2 DEF Queued
        <3>1. PICK j \in 1 .. Len(run_queues[q]) : run_queues[q][j] = p
            BY <3>a
        <3>2. j \in 1 .. Len(run_queues'[q]) /\ run_queues'[q][j] = p
            <4>1. CASE q # prio
                BY <1>4, <3>1, <4>1
            <4>2. CASE q = prio
                BY <1>1, <1>4, <3>1, <4>2, AppendOne
            <4> QED BY <4>1, <4>2
        <3> QED BY <3>2
    <2> QED BY <2>1, <2>2
<1> QED BY <1>5, <1>6 DEF EntriesSound, Queued

\* The priority of a process that has been queued is the one of a run queue.
PriorityInv == \A p \in Pids : Used(p) => priority[p] \in Priorities

\* Whoever creates or queues a process gives it such a priority.
LEMMA PriorityInvNext ==
    TypeInv /\ UsedInv /\ QueueIntegrity /\ PriorityInv /\ [Next]_vars => PriorityInv'
<1> SUFFICES ASSUME TypeInv, UsedInv, QueueIntegrity, PriorityInv, [Next]_vars
             PROVE  PriorityInv'
    OBVIOUS
<1>a. state \in [Pids -> States] /\ priority \in [Pids -> 0 .. MAX_PRIORITY]
    BY DEF TypeInv, TypeOK
<1>b. {MIN_PRIORITY, DEFAULT_PRIORITY, MAX_PRIORITY} \subseteq Priorities
    BY ConstantTypes
<1>1. CASE scheduler_init
    <2>1. \A p \in Pids : state[p] = "EMPTY" /\ (p < 3 => p \in {0, 1, 2})
        BY <1>1 DEF scheduler_init, UsedInv, Pids
    <2>2. /\ priority'[0] = MIN_PRIORITY /\ priority'[1] = DEFAULT_PRIORITY
          /\ priority'[2] = MAX_PRIORITY
          /\ \A p \in Pids : state'[p] = IF p < 3 THEN "READY" ELSE "EMPTY"
        BY <1>1, <1>a, <2>1, ConstantTypes
        DEF scheduler_init, idle_pid, init_pid, post_init_pid
    <2> QED BY <1>b, <2>1, <2>2 DEF PriorityInv, Used
<1>2. CASE LoadProgram
    BY <1>2, <1>a, <1>b DEF LoadProgram, PriorityInv, Used
<1>3. CASE \E pid \in Pids : scheduler_create_kernel_task(pid)
    BY <1>3, <1>a, <1>b DEF scheduler_create_kernel_task, PriorityInv, Used
<1>4. CASE \E pid \in Pids, prio \in Priorities : scheduler_queue_system_process(pid, prio)
    BY <1>4, <1>a DEF scheduler_queue_system_process, PriorityInv, Used
<1>6. CASE QueuePushes
    BY <1>6 DEF QueuePushes, PriorityInv, Used, pcb
<1>5. CASE ~Queueing
    BY <1>5, NoQueueing DEF PriorityInv
<1> QED BY <1>1, <1>2, <1>3, <1>4, <1>5, <1>6 DEF Queueing

\* The invariant behind QueueIntegrity: the process that is about to be queued is in
\* no queue yet, and its priority is the one of a queue.
QueueInv ==
    /\ QueueIntegrity
    /\ PriorityInv
    /\ pc = "queue" => ~Queued(new_pid)

\* The run queues are empty before scheduler_init().
LEMMA QueueInvInit == Init => QueueInv
BY DEF Init, QueueInv, QueueIntegrity, PriorityInv, Used, Lost

\* Only the creation of a process writes queues and priorities, and keeps them sound;
\* only the tick that preempts its creator makes a process miss its queue.
LEMMA QueueInvNext ==
    TypeInv /\ UsedInv /\ QueueInv /\ [Next]_vars => QueueInv'
<1> SUFFICES ASSUME TypeInv, UsedInv, QueueInv, [Next]_vars PROVE QueueInv'
    OBVIOUS
<1>p. PriorityInv'
    BY PriorityInvNext DEF QueueInv
<1>q. EntriesSound' /\ OneLost' => QueueIntegrity'
    BY DEF EntriesSound, OneLost, QueueIntegrity
<1> SUFFICES EntriesSound' /\ OneLost' /\ (pc' = "queue" => ~Queued(new_pid)')
    BY <1>p, <1>q DEF QueueInv
<1>a. /\ run_queues \in [Priorities -> Seq(Pids)]
      /\ priority \in [Pids -> 0 .. MAX_PRIORITY] /\ state \in [Pids -> States]
      /\ new_pid \in Pids
    BY DEF TypeInv, TypeOK
<1>b. EntriesSound /\ OneLost /\ QueueIntegrity /\ PriorityInv
    BY DEF EntriesSound, OneLost, QueueInv, QueueIntegrity
<1>1. CASE scheduler_init
    <2>1. /\ \A p \in Pids : state[p] = "EMPTY"
          /\ \A q \in Priorities : run_queues[q] = << >>
        BY <1>1 DEF scheduler_init, UsedInv
    <2>2. \A q \in Priorities :
             run_queues'[q] = IF q = MIN_PRIORITY THEN <<0>>
                              ELSE IF q = DEFAULT_PRIORITY THEN <<1>>
                              ELSE IF q = MAX_PRIORITY THEN <<2>> ELSE << >>
        BY <1>1, <1>a, <2>1, ConstantTypes
        DEF scheduler_init, idle_pid, init_pid, post_init_pid
    <2>3. /\ priority'[0] = MIN_PRIORITY /\ priority'[1] = DEFAULT_PRIORITY
          /\ priority'[2] = MAX_PRIORITY
          /\ \A p \in Pids : state'[p] = IF p < 3 THEN "READY" ELSE "EMPTY"
        BY <1>1, <1>a, <2>1, ConstantTypes
        DEF scheduler_init, idle_pid, init_pid, post_init_pid
    <2>4. \A p \in Pids : p < 3 => p \in {0, 1, 2}
        BY DEF Pids
    <2>5. {0, 1, 2} \subseteq Pids
        BY ConstantTypes
    <2>6. \A q \in Priorities : \A i, j \in 1 .. Len(run_queues'[q]) :
             /\ priority'[run_queues'[q][i]] = q
             /\ state'[run_queues'[q][i]] \notin {"EMPTY", "NEW"}
             /\ run_queues'[q][i] = run_queues'[q][j] => i = j
        BY <2>2, <2>3, <2>5
    <2>7. ASSUME NEW p \in Pids, state'[p] \notin {"EMPTY", "NEW"}
          PROVE  \E q \in Priorities : \E j \in 1 .. Len(run_queues'[q]) :
                     run_queues'[q][j] = p
        <3>1. p \in {0, 1, 2}
            BY <2>3, <2>4, <2>7
        <3>2. /\ Len(run_queues'[MIN_PRIORITY]) = 1 /\ run_queues'[MIN_PRIORITY][1] = 0
              /\ Len(run_queues'[DEFAULT_PRIORITY]) = 1 /\ run_queues'[DEFAULT_PRIORITY][1] = 1
              /\ Len(run_queues'[MAX_PRIORITY]) = 1 /\ run_queues'[MAX_PRIORITY][1] = 2
            BY <2>2, ConstantTypes
        <3>3. /\ MIN_PRIORITY \in Priorities /\ DEFAULT_PRIORITY \in Priorities
              /\ MAX_PRIORITY \in Priorities
            BY ConstantTypes
        <3> QED BY <3>1, <3>2, <3>3
    <2>8. EntriesSound'
        BY <2>6 DEF EntriesSound
    <2>9. OneLost'
        BY <2>7 DEF OneLost, Lost, Queued
    <2> QED BY <1>1, <2>8, <2>9 DEF scheduler_init, cpu, frame
<1>2. CASE LoadProgram
    <2>1. ~Used(3) /\ 3 \in Pids /\ DEFAULT_PRIORITY \in Priorities
        BY <1>2, ConstantTypes DEF LoadProgram, UsedInv
    <2>2. ~Queued(3)
        BY <1>b, <2>1, UnusedNotQueued
    <2>3. /\ priority'[3] = DEFAULT_PRIORITY /\ state'[3] = "READY"
          /\ \A p \in Pids : p # 3 => priority'[p] = priority[p] /\ state'[p] = state[p]
          /\ run_queues' = [run_queues EXCEPT ![DEFAULT_PRIORITY] = Append(@, 3)]
          /\ pc = "boot" /\ pc' = pc /\ new_pid' = new_pid
          /\ irq0_in_service' = irq0_in_service
        BY <1>2, <1>a, <2>1 DEF LoadProgram, cpu, frame
    <2>4. EntriesSound' /\ \A p \in Pids : p = 3 \/ Queued(p) => Queued(p)'
        BY <1>b, <2>1, <2>2, <2>3, QueueOne
    <2>5. \A p \in Pids : Lost(p)' => Lost(p)
        BY <2>3, <2>4 DEF Lost, BeingQueued
    <2> QED BY <1>b, <2>3, <2>4, <2>5, NoneLost
<1>3. CASE \E pid \in Pids : scheduler_create_kernel_task(pid)
    <2> SUFFICES ASSUME NEW pid \in Pids, scheduler_create_kernel_task(pid)
                 PROVE  EntriesSound' /\ OneLost' /\ (pc' = "queue" => ~Queued(new_pid)')
        BY <1>3
    <2>1. state[pid] = "EMPTY"
        BY FreePidIsEmpty DEF scheduler_create_kernel_task, TypeInv
    <2>2. ~Queued(pid)
        BY <1>b, <2>1, UnusedNotQueued DEF Used
    <2>3. /\ \A p \in Pids : p # pid => priority'[p] = priority[p] /\ state'[p] = state[p]
          /\ state'[pid] = "NEW" /\ run_queues' = run_queues
          /\ pc = "task" /\ pc' = pc /\ new_pid' = new_pid
          /\ irq0_in_service' = irq0_in_service
        BY <1>a DEF scheduler_create_kernel_task, Calling, cpu, frame
    <2>4. EntriesSound'
        BY <1>b, <2>2, <2>3, EntriesStay DEF Used
    <2>5. \A p \in Pids : Lost(p)' => Lost(p)
        BY <2>3 DEF Lost, BeingQueued, Queued
    <2> QED BY <1>b, <2>3, <2>4, <2>5, NoneLost
<1>4. CASE \E pid \in Pids, prio \in Priorities : scheduler_queue_system_process(pid, prio)
    <2> SUFFICES ASSUME NEW pid \in Pids, NEW prio \in Priorities,
                        scheduler_queue_system_process(pid, prio)
                 PROVE  EntriesSound' /\ OneLost' /\ (pc' = "queue" => ~Queued(new_pid)')
        BY <1>4
    <2>1. ~Used(pid)
        BY DEF scheduler_queue_system_process, Used
    <2>2. ~Queued(pid)
        BY <1>b, <2>1, UnusedNotQueued
    <2>3. /\ \A p \in Pids : p # pid => priority'[p] = priority[p] /\ state'[p] = state[p]
          /\ run_queues' = run_queues
          /\ pc = "task" /\ pc' = "queue" /\ new_pid' = pid
          /\ irq0_in_service' = irq0_in_service
        BY <1>a DEF scheduler_queue_system_process, Calling, globals
    <2>4. EntriesSound'
        BY <1>b, <2>2, <2>3, EntriesStay DEF Used
    <2>5. \A p \in Pids : Lost(p)' => Lost(p)
        BY <2>3 DEF Lost, BeingQueued, Queued
    <2>6. ~Queued(new_pid)'
        BY <2>2, <2>3 DEF Queued
    <2> QED BY <1>b, <2>3, <2>4, <2>5, <2>6, NoneLost
<1>5. CASE QueuePushes
    <2> DEFINE prio == priority[new_pid]
    <2>1. /\ pc = "queue" /\ Used(new_pid) /\ ~Queued(new_pid)
          /\ state' = state /\ priority' = priority /\ new_pid' = new_pid
          /\ irq0_in_service' = irq0_in_service /\ pc' # "queue"
        BY <1>5 DEF QueuePushes, UsedInv, QueueInv, pcb
    <2>2. prio \in Priorities
        BY <1>a, <1>b, <2>1 DEF PriorityInv
    <2>3. CASE Len(run_queues[prio]) < QUEUE_CAPACITY
        <3>1. run_queues' = [run_queues EXCEPT ![prio] = Append(@, new_pid)]
            BY <1>5, <2>3 DEF QueuePushes, Enqueue
        <3>2. EntriesSound' /\ \A p \in Pids : p = new_pid \/ Queued(p) => Queued(p)'
            BY <1>a, <1>b, <2>1, <2>2, <3>1, QueueOne DEF Used
        <3>3. \A p \in Pids : Lost(p)' => Lost(p)
            BY <2>1, <3>2 DEF Lost, BeingQueued
        <3> QED BY <1>b, <2>1, <3>2, <3>3, NoneLost
    <2>4. CASE ~(Len(run_queues[prio]) < QUEUE_CAPACITY)
        <3>1. run_queues' = run_queues /\ pc' = "fault"
            BY <1>5, <2>4 DEF QueuePushes
        <3>2. EntriesSound'
            BY <1>b, <2>1, <3>1, EntriesStay DEF Used
        <3>3. \A p \in Pids : Lost(p)' => Lost(p)
            BY <2>1, <3>1 DEF Lost, BeingQueued, Queued
        <3> QED BY <1>b, <2>1, <3>2, <3>3, NoneLost
    <2> QED BY <2>3, <2>4
<1>6. CASE ~Queueing
    <2>1. /\ run_queues' = run_queues /\ priority' = priority
          /\ TickPreempts \/ CreatorStays
        BY <1>b, <1>6, NoQueueing, ConstantTypes
    <2>2. \A p \in Pids : Used(p)' <=> Used(p)
        BY <1>b, <1>6, NoQueueing, UsedStays
    <2>3. EntriesSound'
        BY <1>b, <2>1, <2>2, EntriesStay
    <2>4. \A p \in Pids : Queued(p)' <=> Queued(p)
        BY <2>1 DEF Queued
    <2>5. CASE TickPreempts
        <3>1. ~irq0_in_service /\ irq0_in_service' /\ pc # "fault" /\ pc' = "switched"
            BY <2>5 DEF TickPreempts, TimerStrikes
        <3>2. \A p \in Pids : Lost(p)' => p = new_pid
            BY <1>b, <2>2, <2>4, <3>1 DEF OneLost, Lost, BeingQueued, Used
        <3> QED BY <2>3, <3>1, <3>2 DEF OneLost
    <2>6. CASE CreatorStays
        <3>1. \A p \in Pids : Lost(p)' => Lost(p)
            BY <2>2, <2>4, <2>6 DEF CreatorStays, Lost, BeingQueued, Used
        <3>2. pc' = "queue" => ~Queued(new_pid)'
            BY <2>1, <2>6 DEF CreatorStays, QueueInv, Queued
        <3> QED BY <1>b, <2>3, <2>6, <3>1, <3>2, NoneLost DEF CreatorStays
    <2> QED BY <2>1, <2>5, <2>6
<1> QED BY <1>1, <1>2, <1>3, <1>4, <1>5, <1>6 DEF Queueing

\* Every entry of a run queue is a created process, in the queue of its priority,
\* once; and all that was made READY is in a queue, or being pushed to one, but for
\* the one process whose creator the only preempting tick caught in between.
THEOREM QueuesAreSound == Spec => []QueueIntegrity
<1> DEFINE Inv == TypeInv /\ UsedInv /\ QueueInv
<1>1. Init => Inv
    BY TypeInvInit, UsedInvInit, QueueInvInit
<1>2. Inv /\ [Next]_vars => Inv'
    BY TypeInvNext, UsedInvNext, QueueInvNext
<1>3. Inv => QueueIntegrity
    BY DEF QueueInv
<1> QED BY <1>1, <1>2, <1>3, PTL DEF Spec

-----------------------------------------------------------------------------
(* The turn of the processes of one priority *)

\* How many turns after position i position m has its turn.
LEMMA TurnValue ==
    ASSUME NEW n \in Nat \ {0}, NEW i \in 1 .. n, NEW m \in 1 .. n
    PROVE  (m + n - i - 1) % n = IF m > i THEN m - i - 1 ELSE m + n - i - 1
<1>1. CASE m > i
    <2>1. m - i - 1 \in 0 .. n - 1 /\ (m - i - 1) + n = m + n - i - 1
        BY <1>1
    <2>2. ((m - i - 1) + n) % n = m - i - 1
        BY <2>1, WrappedRemainder
    <2> QED BY <1>1, <2>1, <2>2
<1>2. CASE ~(m > i)
    <2>1. m + n - i - 1 \in 0 .. n - 1
        BY <1>2
    <2> QED BY <1>2, <2>1, SmallRemainder
<1> QED BY <1>1, <1>2

\* The index that the scan starts from is the position behind the current process.
LEMMA NextIndexValue ==
    ASSUME NEW q \in Seq(Pids), NEW i \in 1 .. Len(q),
           \A m \in 1 .. Len(q) : q[m] = q[i] => m = i
    PROVE  NextIndex(q[i], q) = IF i = Len(q) THEN 0 ELSE i
<1> DEFINE n == Len(q)
           at == {j \in 0 .. Len(q) - 1 : q[j + 1] = q[i]}
<1>1. n \in Nat \ {0} /\ i \in 1 .. n
    OBVIOUS
<1>2. i - 1 \in at /\ at \subseteq Nat /\ \A j \in at : j = i - 1
    OBVIOUS
<1>3. NextIndex(q[i], q) = (Min(at) + 1) % n
    BY <1>2 DEF NextIndex
<1> HIDE DEF at, n
<1>4. Min(at) = i - 1
    BY <1>2, MinIsLeast
<1>5. NextIndex(q[i], q) = i % n
    BY <1>1, <1>3, <1>4
<1>6. CASE i = n
    BY <1>1, <1>5, <1>6, NoRemainder DEF n
<1>7. CASE i # n
    <2>1. i \in 0 .. n - 1
        BY <1>1, <1>7
    <2> QED BY <1>1, <1>5, <1>7, <2>1, SmallRemainder DEF n
<1> QED BY <1>6, <1>7

\* The cyclic scan from there finds the runnable process whose turn comes first.
LEMMA ScanInTurn ==
    ASSUME NEW st, NEW q \in Seq(Pids),
           \A a, b \in 1 .. Len(q) : q[a] = q[b] => a = b,
           NEW i \in 1 .. Len(q), NEW j \in 1 .. Len(q), NEW k \in 1 .. Len(q),
           q[j] = NextRunnable(st, q, NextIndex(q[i], q)), Runnable(st, q[k])
    PROVE  (j + Len(q) - i - 1) % Len(q) <= (k + Len(q) - i - 1) % Len(q)
<1> DEFINE n == Len(q)
           from == NextIndex(q[i], q)
           at == RunnableAt(st, q)
           behind == {m \in at : m >= from}
           scan == IF behind # {} THEN behind ELSE at
<1>1. n \in Nat \ {0} /\ i \in 1 .. n /\ j \in 1 .. n /\ k \in 1 .. n
    OBVIOUS
<1>2. from = IF i = n THEN 0 ELSE i
    BY NextIndexValue
<1>3. at \subseteq 0 .. n - 1 /\ k - 1 \in at
    BY DEF RunnableAt
<1>4. q[j] = q[Min(scan) + 1]
    BY DEF NextRunnable
<1>5. \A m \in behind : m \in at /\ m >= from
    OBVIOUS
<1>6. \A m \in at : m >= from => m \in behind
    OBVIOUS
<1> HIDE DEF at, behind, from
<1>7. scan \subseteq at /\ scan # {} /\ scan \subseteq Nat
    <2>1. behind \subseteq at /\ at # {}
        BY <1>3, <1>5
    <2>2. scan \subseteq at /\ scan # {}
        BY <2>1
    <2>3. at \subseteq Nat
        BY <1>1, <1>3
    <2> HIDE DEF scan
    <2> QED BY <2>2, <2>3
<1>8. Min(scan) \in scan /\ \A m \in scan : Min(scan) <= m
    <2> HIDE DEF scan
    <2> QED BY <1>7, MinIsLeast
<1>9. Min(scan) = j - 1
    <2>1. Min(scan) + 1 \in 1 .. n /\ Min(scan) \in Nat
        <3>1. Min(scan) \in 0 .. n - 1
            <4> HIDE DEF scan, n
            <4> QED BY <1>3, <1>7, <1>8
        <3> HIDE DEF scan, n
        <3> QED BY <1>1, <3>1
    <2>2. Min(scan) + 1 = j
        <3> HIDE DEF scan
        <3> QED BY <1>4, <2>1
    <2> HIDE DEF scan
    <2> QED BY <1>1, <2>1, <2>2
<1> DEFINE J == (j + n - i - 1) % n
           K == (k + n - i - 1) % n
<1>10. /\ J = IF j > i THEN j - i - 1 ELSE j + n - i - 1
       /\ K = IF k > i THEN k - i - 1 ELSE k + n - i - 1
    <2> HIDE DEF n
    <2> QED BY <1>1, TurnValue
<1> HIDE DEF J, K, n, scan
<1>11. J <= K
    <2>1. CASE behind # {}
        <3>1. j - 1 \in behind /\ j - 1 >= from /\ (k - 1 >= from => j - 1 <= k - 1)
            BY <1>3, <1>5, <1>6, <1>8, <1>9, <2>1 DEF scan
        <3> QED BY <1>1, <1>2, <1>10, <3>1
    <2>2. CASE behind = {}
        <3>1. ~(k - 1 >= from) /\ ~(j - 1 >= from) /\ j - 1 <= k - 1
            BY <1>3, <1>5, <1>6, <1>8, <1>9, <2>2 DEF scan
        <3> QED BY <1>1, <1>2, <1>10, <3>1
    <2> QED BY <2>1, <2>2
<1> QED BY <1>11 DEF J, K, n

\* Whoever the selection returns, with the current priority, comes from that scan.
LEMMA SelectionScans ==
    ASSUME TypeInv, QueueIntegrity, priority[current_pid] \in Priorities,
           priority[SelectNext(state)] = priority[current_pid],
           RunnableAt(state, run_queues[priority[current_pid]]) # {}
    PROVE  SelectNext(state) =
             NextRunnable(state, run_queues[priority[current_pid]],
                          NextIndex(current_pid, run_queues[priority[current_pid]]))
<1> DEFINE prio == priority[current_pid]
           ready == {p \in Priorities : RunnableAt(state, run_queues[p]) # {}}
           higher == ready \cap Above(prio)
           lower == ready \cap Below(prio)
<1>1. SelectNext(state) =
        IF higher # {} THEN FirstRunnable(state, run_queues[Max(higher)])
        ELSE IF prio \in ready
             THEN NextRunnable(state, run_queues[prio], NextIndex(current_pid, run_queues[prio]))
        ELSE IF lower # {} THEN FirstRunnable(state, run_queues[Max(lower)])
        ELSE 0
    BY DEF SelectNext
<1>2. prio \in ready
    OBVIOUS
<1>3. higher = {}
    <2> SUFFICES ASSUME higher # {} PROVE FALSE
        OBVIOUS
    <2>1. higher \subseteq 0 .. MAX_PRIORITY /\ MAX_PRIORITY \in Nat
        BY ConstantTypes, PrioritiesAssumption
    <2>2. Max(higher) \in higher
        <3> HIDE DEF higher
        <3> QED BY <2>1, MaxIsGreatest
    <2>3. /\ Max(higher) \in Priorities /\ Max(higher) > prio
          /\ RunnableAt(state, run_queues[Max(higher)]) # {}
        BY <2>2 DEF Above
    <2> HIDE DEF higher
    <2>4. RunnableIn(state, Max(higher), SelectNext(state))
        BY <1>1, <2>3, FirstRunnableIn DEF TypeInv
    <2>5. priority[SelectNext(state)] = Max(higher)
        BY <2>3, <2>4 DEF RunnableIn, QueueIntegrity
    <2> QED BY <2>1, <2>3, <2>5 DEF Priorities
<1> QED BY <1>1, <1>2, <1>3

\* Nobody who is runnable sits between the current process and the chosen one.
LEMMA TurnFacts ==
    TypeInv /\ UsedInv /\ QueueIntegrity /\ PriorityInv => SelectsInTurn
<1> SUFFICES ASSUME TypeInv, UsedInv, QueueIntegrity, PriorityInv, started,
                    priority[SelectNext(state)] = priority[current_pid],
                    NEW i \in 1 .. Len(run_queues[priority[current_pid]]),
                    NEW j \in 1 .. Len(run_queues[priority[current_pid]]),
                    NEW k \in 1 .. Len(run_queues[priority[current_pid]]),
                    run_queues[priority[current_pid]][i] = current_pid,
                    run_queues[priority[current_pid]][j] = SelectNext(state),
                    Runnable(state, run_queues[priority[current_pid]][k])
             PROVE  (j + Len(run_queues[priority[current_pid]]) - i - 1)
                       % Len(run_queues[priority[current_pid]])
                    <= (k + Len(run_queues[priority[current_pid]]) - i - 1)
                       % Len(run_queues[priority[current_pid]])
    BY DEF SelectsInTurn
<1> DEFINE q == run_queues[priority[current_pid]]
<1>1. priority[current_pid] \in Priorities
    BY DEF UsedInv, PriorityInv, TypeInv, TypeOK
<1>2. q \in Seq(Pids) /\ \A a, b \in 1 .. Len(q) : q[a] = q[b] => a = b
    BY <1>1 DEF TypeInv, TypeOK, QueueIntegrity
<1>3. k - 1 \in RunnableAt(state, q)
    <2>1. k - 1 \in 0 .. Len(q) - 1 /\ (k - 1) + 1 = k
        BY <1>2
    <2> QED BY <2>1 DEF RunnableAt
<1>4. SelectNext(state) = NextRunnable(state, q, NextIndex(q[i], q))
    BY <1>1, <1>3, SelectionScans
<1>5. q[j] = NextRunnable(state, q, NextIndex(q[i], q)) /\ Runnable(state, q[k])
      /\ i \in 1 .. Len(q) /\ j \in 1 .. Len(q) /\ k \in 1 .. Len(q)
    BY <1>4
<1> HIDE DEF q
<1>6. (j + Len(q) - i - 1) % Len(q) <= (k + Len(q) - i - 1) % Len(q)
    BY <1>2, <1>5, ScanInTurn
<1> QED BY <1>6 DEF q

\* Among the processes of one priority the turn goes round.
THEOREM TurnGoesRound == Spec => []SelectsInTurn
<1> DEFINE Inv == TypeInv /\ UsedInv /\ QueueInv
<1>1. Init => Inv
    BY TypeInvInit, UsedInvInit, QueueInvInit
<1>2. Inv /\ [Next]_vars => Inv'
    BY TypeInvNext, UsedInvNext, QueueInvNext
<1>3. Inv => SelectsInTurn
    BY TurnFacts DEF QueueInv
<1> QED BY <1>1, <1>2, <1>3, PTL DEF Spec

-----------------------------------------------------------------------------
(* Who may execute, and in which state *)

\* idle is at the head of the queue of the lowest priority, and runnable
IdleInv ==
    started \/ next_pid # 0 =>
       /\ Len(run_queues[MIN_PRIORITY]) > 0 /\ run_queues[MIN_PRIORITY][1] = idle_pid
       /\ Runnable(state, idle_pid)

\* The invariant behind OwnCodeIsRunnable, ChosenStaysRunnable,
\* InterruptsOffWhenSelfChosen and KillNeverReturns: what the state of the current
\* process and the interrupts flag are at each point of the scheduler functions.
RunInv ==
    /\ pc = "boot" => interrupts
    /\ pc \in {"task", "hlt", "queue"} =>
          /\ state[current_pid] \in {"READY", "RUNNING"}
          /\ interrupts <=> state[current_pid] = "RUNNING"
    /\ pc = "yield" => interrupts /\ state[current_pid] = "READY"
    /\ pc = "reschedule" => (state[current_pid] = "RUNNING" => interrupts)
    /\ pc = "switch" => /\ state[new_pid] \in {"READY", "RUNNING"}
                        /\ state[current_pid] # "RUNNING"
    /\ pc = "marked" => state[new_pid] = "RUNNING"
    /\ pc = "switched" => interrupts /\ state[current_pid] = "RUNNING"
    /\ pc \in {"boot", "task", "hlt", "yield", "queue", "suspended"} => caller = "task"
    /\ caller = "kill" /\ pc \in {"reschedule", "switch"} => state[current_pid] = "KILLED"

\* With idle runnable in its queue, the selection is runnable.
LEMMA SelectNextReady ==
    ASSUME TypeOK, started, IdleInv, NEW st, st[idle_pid] \in {"READY", "RUNNING"}
    PROVE  st[SelectNext(st)] \in {"READY", "RUNNING"}
<1>1. MIN_PRIORITY \in Priorities /\ run_queues[MIN_PRIORITY] \in Seq(Pids)
    BY ConstantTypes DEF TypeOK
<1>2. 0 \in RunnableAt(st, run_queues[MIN_PRIORITY])
    BY <1>1 DEF IdleInv, RunnableAt, Runnable
<1> QED BY <1>1, <1>2, SelectNextRunnable DEF RunnableIn, Runnable

\* The CPU boots with interrupts enabled, in kernel_main.
LEMMA RunInvInit == Init => IdleInv /\ RunInv
BY DEF Init, IdleInv, RunInv

\* Every step keeps idle selectable and the state of the current process right.
LEMMA RunInvNext ==
    ASSUME IdleMaySleep = FALSE
    PROVE  /\ TypeInv /\ UsedInv /\ StackInv /\ IdleInv /\ RunInv /\ [Next]_vars
           => IdleInv' /\ RunInv'
<1> SUFFICES ASSUME TypeInv, UsedInv, StackInv, IdleInv, RunInv, [Next]_vars
             PROVE  IdleInv' /\ RunInv'
    OBVIOUS
<1>a. /\ current_pid \in Pids /\ new_pid \in Pids /\ stack \in Pids
      /\ state \in [Pids -> States]
      /\ run_queues \in [Priorities -> Seq(Pids)]
      /\ MIN_PRIORITY \in Priorities
      /\ 0 \in Pids /\ 1 \in Pids /\ 2 \in Pids /\ idle_pid = 0
      /\ caller \in {"task", "kill"} /\ interrupts \in BOOLEAN
    BY ConstantTypes DEF TypeInv, TypeOK, idle_pid
<1>b. /\ started <=> pc # "boot"
      /\ pc \in {"task", "hlt", "yield", "reschedule", "queue", "switch"} => stack = current_pid
      /\ pc = "switched" => new_pid = current_pid
      /\ started => state[current_pid] \notin {"EMPTY", "NEW"}
    BY DEF UsedInv, StackInv, InCall, Used
<1>c. started => state[SelectNext(state)] \in {"READY", "RUNNING"}
    BY SelectNextReady DEF TypeInv, IdleInv, Runnable
<1>d. \A p \in Pids : /\ TickedStates[p] \in {state[p], "READY"}
                      /\ state[p] \notin {"SLEEPING", "BLOCKED_TIMEOUT"}
                            => TickedStates[p] = state[p]
    BY <1>a DEF TickedStates, Asleep
<1> USE DEF IdleInv, RunInv, Runnable, pcb, globals, frame, cpu
<1>1. CASE scheduler_init
    BY <1>1, <1>a, ConstantTypes
    DEF scheduler_init, idle_pid, init_pid, post_init_pid
<1>2. CASE LoadProgram
    <2>1. DEFAULT_PRIORITY # MIN_PRIORITY
        BY ConstantTypes
    <2> QED BY <1>2, <1>a, <1>b, <2>1 DEF LoadProgram
<1>3. CASE scheduler_start
    <2>1. pc = "boot" /\ next_pid # 0 /\ caller = "task" /\ interrupts
        BY <1>3, <1>b DEF scheduler_start, TypeInv, TypeOK
    <2>2. /\ state' = [state EXCEPT ![2] = "RUNNING"] /\ current_pid' = 2 /\ pc' = "task"
          /\ run_queues' = run_queues /\ caller' = caller /\ interrupts' = interrupts
          /\ started' = TRUE
        BY <1>3 DEF scheduler_start, post_init_pid
    <2>3. state'[2] = "RUNNING" /\ state'[0] = state[0]
        BY <2>2, <1>a
    <2> QED BY <2>1, <2>2, <2>3, <1>a
<1>4. CASE SwitchToSelf
    BY <1>4, <1>a, <1>b DEF SwitchToSelf, ReturnPoint
<1>5. CASE SwitchToOther
    BY <1>5, <1>a, <1>b DEF SwitchToOther, SaveContext, MakeCurrent
<1>6. CASE SwitchRepeated
    BY <1>6, <1>a, <1>b DEF SwitchRepeated
<1>6a. CASE RunningRepeated
    BY <1>6a, <1>a, <1>b DEF RunningRepeated
<1>7. CASE RestoreFresh
    BY <1>7, <1>a, <1>b DEF RestoreFresh, EntryPoint
<1>8. CASE RestoreSaved
    BY <1>8, <1>a, <1>b DEF RestoreSaved
<1>9. CASE RestoreFaults
    BY <1>9, <1>a, <1>b DEF RestoreFaults
<1>10. CASE Reschedule
    BY <1>10, <1>a, <1>b, <1>c DEF Reschedule, IsNotRunning
<1>11. CASE RescheduleReturns
    BY <1>11, <1>a, <1>b DEF RescheduleReturns, ReturnPoint, IsNotRunning
<1>12. CASE YieldSelects
    BY <1>12, <1>a, <1>b, <1>c DEF YieldSelects
<1>13. CASE YieldReturns
    BY <1>13, <1>a, <1>b DEF YieldReturns, GoOn, ReturnPoint
<1>14. CASE scheduler_yield
    BY <1>14, <1>a, <1>b DEF scheduler_yield, GoOn, Calling
<1>15. CASE YieldRefused
    BY <1>15, <1>a, <1>b DEF YieldRefused, GoOn, EntryPoint, Calling
<1>16. CASE CallReschedule
    BY <1>16, <1>a, <1>b DEF CallReschedule, GoOn, Calling
<1>17. CASE \E pid \in Pids, time \in SleepTimes : scheduler_proc_sleep_ms(pid, time)
    BY <1>17, <1>a, <1>b DEF scheduler_proc_sleep_ms, GoOn, Calling
<1>18. CASE \E pid \in Pids : Queued(pid) /\ scheduler_block_process(pid)
    BY <1>18, <1>a, <1>b DEF scheduler_block_process, GoOn, Calling, MayBlock
<1>19. CASE \E pid \in Pids : scheduler_unblock_process(pid)
    BY <1>19, <1>a, <1>b DEF scheduler_unblock_process, GoOn, Calling, MayBlock
<1>20. CASE \E pid \in Pids : Queued(pid) /\ scheduler_unblock_process_hint(pid)
    BY <1>20, <1>a, <1>b DEF scheduler_unblock_process_hint, GoOn, Calling, MayBlock
<1>21. CASE \E pid \in Pids : scheduler_create_kernel_task(pid)
    <2> SUFFICES ASSUME NEW pid \in Pids, scheduler_create_kernel_task(pid)
                 PROVE  IdleInv' /\ RunInv'
        BY <1>21
    <2>1. state[pid] = "EMPTY" /\ pc = "task"
        BY FreePidIsEmpty DEF scheduler_create_kernel_task, TypeInv, Calling
    <2>2. pid # current_pid /\ pid # 0
        BY <1>a, <1>b, <2>1
    <2> QED BY <1>a, <1>b, <2>1, <2>2 DEF scheduler_create_kernel_task
<1>22. CASE \E pid \in Pids, prio \in Priorities : scheduler_queue_system_process(pid, prio)
    <2> SUFFICES ASSUME NEW pid \in Pids, NEW prio \in Priorities,
                        scheduler_queue_system_process(pid, prio)
                 PROVE  IdleInv' /\ RunInv'
        BY <1>22
    <2>1. state[pid] = "NEW" /\ pc = "task" /\ pc' = "queue" /\ started' = started
        BY DEF scheduler_queue_system_process, Calling
    <2>2. pid # current_pid /\ pid # 0
        BY <1>a, <1>b, <2>1
    <2>3. UNCHANGED <<run_queues, next_pid, current_pid, interrupts, caller>>
          /\ state' = [state EXCEPT ![pid] = "READY"]
        BY DEF scheduler_queue_system_process
    <2> QED BY <1>a, <1>b, <2>1, <2>2, <2>3
<1>22a. CASE QueuePushes
    <2>1. pc = "queue" /\ pc' \in {"task", "fault"}
          /\ UNCHANGED <<state, started, next_pid, current_pid, new_pid, interrupts, caller>>
        BY <1>22a DEF QueuePushes
    <2>2. Len(run_queues[MIN_PRIORITY]) > 0 /\ run_queues[MIN_PRIORITY][1] = 0
        BY <1>a, <1>b, <2>1
    <2>3. Len(run_queues'[MIN_PRIORITY]) > 0 /\ run_queues'[MIN_PRIORITY][1] = 0
        <3>1. \/ run_queues'[MIN_PRIORITY] = run_queues[MIN_PRIORITY]
              \/ run_queues'[MIN_PRIORITY] = Append(run_queues[MIN_PRIORITY], new_pid)
            BY <1>22a, <1>a DEF QueuePushes, Enqueue
        <3> QED BY <1>a, <2>2, <3>1, AppendOne
    <2>4. IdleInv'
        BY <1>a, <1>b, <2>1, <2>3
    <2>5. RunInv'
        BY <1>a, <1>b, <2>1
    <2> QED BY <2>4, <2>5
<1>23. CASE OutOfProcesses
    BY <1>23, <1>a, <1>b DEF OutOfProcesses, Calling
<1>24. CASE scheduler_kill_current_process
    BY <1>24, <1>a, <1>b DEF scheduler_kill_current_process, GoOn
<1>25. CASE ProgramReturns
    BY <1>25, <1>a, <1>b DEF ProgramReturns, GoOn
<1>26. CASE TickCounts
    BY <1>26, <1>a, <1>b, <1>d DEF TickCounts, AfterInterrupt, TimerStrikes
<1>27. CASE TickKeeps
    BY <1>27, <1>a, <1>b, <1>d DEF TickKeeps, AfterInterrupt, TimerStrikes
<1>28. CASE TickPreempts
    <2>1. PICK next : /\ next = SelectNext(ExpiredStates)
                      /\ state' = [ExpiredStates EXCEPT ![next] = "RUNNING"]
                      /\ current_pid' = next /\ new_pid' = next
        BY <1>28 DEF TickPreempts, MakeCurrent
    <2>2. next \in Pids
        BY <2>1, SelectNextPid DEF TypeInv
    <2>3. ExpiredStates \in [Pids -> States]
        BY TickTypes DEF TypeInv
    <2>4. started /\ state[0] \in {"READY", "RUNNING"}
        BY <1>28, <1>a DEF TickPreempts, TimerStrikes
    <2>5. ExpiredStates[0] \in {"READY", "RUNNING"}
        BY <1>a, <1>d, <2>4 DEF ExpiredStates
    <2> QED BY <1>28, <1>a, <2>1, <2>2, <2>3, <2>4, <2>5 DEF TickPreempts, TimerStrikes
<1>29. CASE KeyboardInterrupt
    BY <1>29, <1>a, <1>b DEF KeyboardInterrupt, TimerStrikes
<1>30. CASE UNCHANGED vars
    BY <1>30, <1>a, <1>b DEF vars
<1> QED
    BY <1>1, <1>2, <1>3, <1>4, <1>5, <1>6, <1>6a, <1>7, <1>8, <1>9, <1>10, <1>11, <1>12,
       <1>13, <1>14, <1>15, <1>16, <1>17, <1>18, <1>19, <1>20, <1>21, <1>22, <1>22a,
       <1>23, <1>24, <1>25, <1>26, <1>27, <1>28, <1>29, <1>30
    DEF Next, Boot, KernelStep, Switch, TaskStep, Tick

\* What follows from it, while no task puts idle to sleep.
LEMMA RunFacts ==
    ASSUME IdleMaySleep = FALSE
    PROVE  Spec => [](/\ IdleAlwaysReady /\ SelectsHighest /\ ChosenStaysRunnable
                      /\ OwnCodeIsRunnable /\ InterruptsOffWhenSelfChosen
                      /\ KillNeverReturns)
<1> DEFINE Inv == TypeInv /\ UsedInv /\ QueueInv /\ StackInv /\ IdleInv /\ RunInv
           Goal == /\ IdleAlwaysReady /\ SelectsHighest /\ ChosenStaysRunnable
                   /\ OwnCodeIsRunnable /\ InterruptsOffWhenSelfChosen /\ KillNeverReturns
<1>1. Init => Inv
    BY TypeInvInit, UsedInvInit, QueueInvInit, StackInvInit, RunInvInit
<1>2. Inv /\ [Next]_vars => Inv'
    BY TypeInvNext, UsedInvNext, QueueInvNext, StackInvNext, RunInvNext
<1>3. Inv => Goal
    <2> SUFFICES ASSUME Inv PROVE Goal
        OBVIOUS
    <2>1. IdleAlwaysReady
        <3>1. started => 1 \in 1 .. Len(run_queues[MIN_PRIORITY])
                         /\ run_queues[MIN_PRIORITY][1] = idle_pid
            BY ConstantTypes DEF IdleInv, TypeInv, TypeOK
        <3> QED BY <3>1 DEF IdleInv, IdleAlwaysReady
    <2>2. SelectsHighest
        <3> SUFFICES ASSUME started
                     PROVE  /\ Runnable(state, SelectNext(state))
                            /\ \A q \in Priorities : \A j \in 1 .. Len(run_queues[q]) :
                                  Runnable(state, run_queues[q][j])
                                  => q <= priority[SelectNext(state)]
            BY DEF SelectsHighest
        <3>1. MIN_PRIORITY \in Priorities
              /\ run_queues \in [Priorities -> Seq(Pids)]
            BY ConstantTypes DEF TypeInv, TypeOK
        <3>3. \A q \in Priorities : \A j \in 1 .. Len(run_queues[q]) :
                 Runnable(state, run_queues[q][j]) => RunnableAt(state, run_queues[q]) # {}
            <4> SUFFICES ASSUME NEW q \in Priorities, NEW j \in 1 .. Len(run_queues[q]),
                                Runnable(state, run_queues[q][j])
                         PROVE  RunnableAt(state, run_queues[q]) # {}
                OBVIOUS
            <4>1. j - 1 \in 0 .. Len(run_queues[q]) - 1 /\ (j - 1) + 1 = j
                BY <3>1
            <4> QED BY <4>1 DEF RunnableAt
        <3>4. RunnableAt(state, run_queues[MIN_PRIORITY]) # {}
            BY <2>1, <3>1, <3>3 DEF IdleAlwaysReady, Runnable
        <3>5. PICK q \in Priorities :
                 /\ RunnableIn(state, q, SelectNext(state))
                 /\ \A p \in Priorities : RunnableAt(state, run_queues[p]) # {} => p <= q
            BY <3>1, <3>4, SelectNextRunnable DEF TypeInv
        <3>6. Runnable(state, SelectNext(state)) /\ priority[SelectNext(state)] = q
            BY <3>5 DEF RunnableIn, QueueInv, QueueIntegrity
        <3> QED BY <3>3, <3>5, <3>6
    <2>3. ChosenStaysRunnable /\ KillNeverReturns
        BY DEF RunInv, ChosenStaysRunnable, Runnable, KillNeverReturns
    <2>4. OwnCodeIsRunnable /\ InterruptsOffWhenSelfChosen
        BY DEF RunInv, StackInv, InCall, OwnCodeIsRunnable, InterruptsOffWhenSelfChosen,
               OwnCode, Runnable
    <2> QED BY <2>1, <2>2, <2>3, <2>4
<1>4. Spec => []Inv
    BY <1>1, <1>2, PTL DEF Spec
<1> QED BY <1>3, <1>4, PTL

\* While no task puts idle to sleep, idle, which every selection relies on, can
\* always be selected.
THEOREM IdleStaysReady ==
    ASSUME IdleMaySleep = FALSE
    PROVE  Spec => []IdleAlwaysReady
BY RunFacts, PTL

\* While no task puts idle to sleep, select_next_process_with_lock() returns a
\* runnable process of the highest priority.
THEOREM SelectionIsHighest ==
    ASSUME IdleMaySleep = FALSE
    PROVE  Spec => []SelectsHighest
BY RunFacts, PTL

\* While no task puts idle to sleep, the process a yield or reschedule chose is
\* still runnable when it is switched to, whatever the ticks in between did.
THEOREM ChoiceStaysGood ==
    ASSUME IdleMaySleep = FALSE
    PROVE  Spec => []ChosenStaysRunnable
BY RunFacts, PTL

\* While no task puts idle to sleep, a process that blocked, slept or was killed
\* does not execute its own code.
THEOREM OnlyRunnableExecute ==
    ASSUME IdleMaySleep = FALSE
    PROVE  Spec => []OwnCodeIsRunnable
BY RunFacts, PTL

\* While no task puts idle to sleep, the line behind the call in
\* scheduler_kill_current_process(), where "a killed process is being run", is
\* never reached.
THEOREM KillIsFinal ==
    ASSUME IdleMaySleep = FALSE
    PROVE  Spec => []KillNeverReturns
BY RunFacts, PTL

=============================================================================
