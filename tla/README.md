# RocketOS: specifications, model checking and proofs

TLA+ models of the RocketOS kernel (a single-CPU i686 kernel in C), TLC
configurations that check them on small instances, and theorems about them that
TLAPS checks for every value of the constants. Paths are relative to the
repository; `scheduler.c:254` stands for a line of the file of that name.

    tlc -config SchedulerApi.cfg MCScheduler.tla     model-check one run
    tlapm SchedulerProofs.tla                        check the proofs of one module

Modules with proofs: `SchedulerProofs`, `BuddyProofs`, `HeapProofs`, `PagingProofs`,
`ConsoleProofs`, `HashMapProofs`, `AhciProofs`, and `NatLemmas`, the arithmetic they share.

Contents: 1 the system, 2 the models, 3 runs and bounds, 4 fairness, 5 what the
runs found, 6 proofs, 7 limits, 8 plan.

## 1. The system

`kernel_main` (`arch/i686/boot/kernel.c`) sets up the tables of the CPU, the page
allocators, paging and the heap, then terminal and keyboard, reads the multiboot
tags and the tar archive of programs, starts ACPICA, initialises the scheduler,
enables interrupts, loads `test_program` and starts the scheduler. From then on
three kernel tasks (idle, init, post_init), the loaded program and the interrupt
handlers share the CPU. There is no second CPU: what makes the code hard is where
an interrupt may strike, sequences of calls nobody tried, and resources that run out.
The `kassert` macros log and return; no assertion stops the kernel.

| Component | State | Operations | Interacts with | Hard behaviour | What makes it correct |
|---|---|---|---|---|---|
| Scheduler (`kernel/scheduler`) | `pcb[]`, `run_queues`, `current_pid`, `next_pid` | create, queue, start, yield, sleep, block, unblock, reschedule, kill, tick, context save and restore | timer, vectors, paging, loader | ticks between any two unlocked steps; contexts that return twice; interrupts enabled half-way through a switch | the chosen process is runnable and of the highest priority; who executes is `current_pid`; a call that takes a process off the CPU does not return while the process may not run; sleep lasts; queues hold each process once |
| Timer, `int_lock` | rounds, frequency; IF | `timer_irq`, `pic_send_eoi` | scheduler | the end-of-interrupt command comes after the switch | ticks go on |
| Buddy allocator (`utils/allocators/buddy`, `utils/bitset`) | one array of bits | init, reserve, allocate, free | three page allocators | two-dimensional bit arithmetic, full levels, free next to held blocks | blocks of different clients are disjoint; nothing free is lost; bits stay in the struct |
| Page allocators (`mem/phys`, `mem/virt`) | one buddy allocator each | init with reserved ranges, allocate, free | paging, heap, loader, ACPI shim | failure reported as 0 and added to an offset | reserved pages stay reserved; failure is visible |
| Kernel heap (`libk/kstdlib.c`) | words of memory, head of the free list, pages | `kmalloc`, `kfree`, `krealloc`, growth | page allocator, paging; vector, hash map, ACPICA | boundary tags, merges, links; first and last block | regions never overlap; the list is the free blocks; freed space merges |
| Paging (`mem/paging`) | page directories and tables, windows 508-514 | map, unmap, `user_map`, `clear_physical_page` | all of the above | shared windows without a lock; snapshot of the kernel's entries | a mapping is seen in every address space that should; windows are not reused while in use |
| Program loading (`tar_fs`) | list of archive files | `parse_headers`, `load_elf_file_in_process` | heap, paging, scheduler | sizes and offsets of the ELF segments | what is loaded is what is mapped |
| Hash map (`utils/data_structures/hashmap`) | buckets, chains of entries in the heap | init, add, find, remove, destroy, resize | heap | links that must agree both ways; every entry moves when the chains get long | it implements a map from keys to their values |
| Other containers (vector, message queue, `quicksort`, `bitmap_allocator`) | arrays | push, erase, enqueue, sort | heap | growth, removal, wrap-around | they implement a sequence, a FIFO, a permutation |
| Console (keyboard, observers, terminal, VGA) | key state, cursor, rows, history | key interrupt, callbacks, print, scroll | each other, from an interrupt | positions on the screen that must move with the text; histories at their limit | what was typed is what runs; what was shown can be scrolled back to |
| AHCI (`drivers/hdd/ahci`) | registers of a port, command table, buffer | `configure_port`, `read_sector` | the controller, which acts between any two accesses | polling against a device that is slow, fails, or never answers | what is read is what was asked for; the buffer is the caller's again when the call returns; calls return |
| Drivers: PIT, serial, ATA, PCI | device registers | poll, command | ports | polling loops without timeout | commands complete |
| ACPI shim, ACPICA | mapped ranges | `AcpiOsMapMemory`, `Unmap` | `osi_virt_mem_allocator` | the one client that frees pages | a region stays mapped until it is unmapped |
| CPU tables, system calls, C library | - | set-up, formatting | - | sequential | unit-tested |

`PROJECT.json` lists every component with what is modelled of it, and the hazards
of this code line by line with the properties that watch them.

## 2. The models

### Scheduler.tla

One step is a stretch of code that runs with interrupts disabled or touches nothing
a handler looks at. `pc` names the points between two stretches:

| `pc` | Where the CPU is |
|---|---|
| `boot` | in `kernel_main`, before `scheduler_start` |
| `task`, `hlt` | in a task's own function (`hlt`: in `idle_task`) |
| `yield` | `scheduler_yield` after the process became READY (607), before the selection |
| `reschedule` | entry of `scheduler_reschedule` |
| `switch` | selection done, `switch_to_process_with_lock` not entered: interrupts are as the caller had them |
| `switched` | `scheduler_set_page_directory` has enabled interrupts, `arch_restore_context` is still to come |
| `resumed` | second return of `arch_save_context`, interrupts enabled |
| `marked` | there, after the state was written (257) and before `current_pid` is (259) |
| `queue` | `scheduler_queue_system_process` after the process became READY (301), before `push_back` (303) |
| `suspended`, `fault` | `suspend_kernel`, a page fault: the machine stops |

`state`, `priority`, `rounds`, `sleep_timeout`, `context`, `system` are the fields of
`pcb[]`; `stack` and `in_irq` say on whose stack the CPU is and whether in a frame
of the timer handler; `new_pid` is the local of that name, `caller` the function that
is to be returned to. `arch_save_context` stores the address it returns to, and the
code does not tell its first return from the second; a saved context is therefore
`[stack, in_irq, new_pid]` and restoring it repeats the switch it was saved in
(`RunningRepeated`, `SwitchRepeated`). The actions carry the names of the functions: `scheduler_yield`,
`YieldSelects`, `YieldReturns`, `scheduler_proc_sleep_ms`, `scheduler_block_process`,
`scheduler_unblock_process(_hint)`, `Reschedule`, `scheduler_kill_current_process`,
`scheduler_create_kernel_task`, `scheduler_queue_system_process` and `QueuePushes`, and for a tick
`TickCounts`, `TickKeeps`, `TickPreempts`. A tick is enabled in every state with
interrupts enabled and IRQ 0 not in service. `TickPreempts` leaves IRQ 0 in service
for ever: the end-of-interrupt command is behind the switch.

What tasks do is the constant `Calls`: a kernel task may call any of these functions
in its own code at any time, also with the pids of others. `Program` adds the loaded
user process, and `ProgramEnds` lets it return from `_start`, to address 0
(`scheduler.c:452-464`); `test_program`, which the kernel loads, never does.
`IdleMaySleep` says whether a task may name idle in
`scheduler_proc_sleep_ms`, which does not refuse it (`scheduler.c:355`; blocking does).
With `TRUE`, `IdleAlwaysReady` fails once two tasks share idle's queue
(`QUEUE_CAPACITY = 3`): resumed switches leave idle RUNNING while another process has
the CPU, a tick gives the CPU to a task of idle's priority, and that task puts idle to
sleep; the selection may then find no process. The shortest such behaviour found has 32
states. With the queues of SchedulerApi, which hold two, no behaviour gets there.

### BuddyBits.tla and BuddyAllocator.tla

`BuddyBits` is the arithmetic: for a set `marked` of bits that are 1, which bits each
operation sets and clears, with the code's mistakes and its widths as constants: `WORD`
(32) bits are searched for each entry of a level, `BYTE` (8) bounds what clearing a bit
clears. `find_first_zero_bit`, `Reserves`, `AllocatedPage` (0 if there is no block, which is
also the first block's address), `MarkedByAllocation`, `MarkedAfterFree` have no
state of their own, so three instances use them: `BuddyAllocator`, and in `Paging` the
allocators of frames (`Phys`) and of the ACPI shim's range (`Osi`).

`BuddyAllocator` puts one instance to use. `Instances` are the ways the kernel does that: ranges
reserved at initialisation, amounts asked for, whether anything is ever freed. `holders`
is history: how many clients were given a block and still hold it.

### Heap.tla and AbstractHeap.tla

`mem` holds every word of the heap: sizes with their allocated bit at both ends of
a block, links, payload. The steps of the code that several operations share are
operators on `[mem, head]` (`Tagged`, `Unlinked`, `Moved`, `PushedInFront`, `Wiped`), and
`allocate_block`, `MergedWithNext`, `MergedWithPrev`, `increase_memory_pool`,
`ShrunkIntoNext`, `ShrunkBySplit` are built from them. Loops are functions on the
naturals: `Pool` is the heap after each number of added pages, `Chain` where a pointer is after each number of
steps (`FirstFit` stops at the first block that fits, `Blocks` follows the size words). `kmalloc` grows the pool until
a block fits, the limit is reached or, at any page, no physical page is left. A
client writes its address into every word it asked for, so that a write of the
allocator into a region would show. `kfree` of the last block of the heap and
`krealloc` to a larger size fault; the words they changed before are left out, since
nothing runs afterwards. `AnyShrink` admits the calls of `krealloc` that corrupt the
free list: one that shrinks a block into a free one behind it takes the links
of the wrong block (`kstdlib.c:350`), and with `TRUE` `FreeListExact` fails.

`AbstractHeap` is what the heap promises: a client's region has room for what was
asked for, overlaps no other, stays in place until it is given back, and no call
changes anyone else's. `Heap` implements it with `regions` read from the memory:
the payload of every allocated block.

### Paging.tla and AddressSpaces.tla

`machine` is what the processor and the kernel's pointers see: `ram` (each frame is
an array of entries, be it a directory, a table or data, and holds garbage until it is
written), the windows 508-514, `cr3`, the bits of the allocator of frames (`phys`) and of the ACPI
shim's range (`osi`), and whether an access faulted. `Translate` is the processor's walk.
The functions of `paging.c` are operators from machine to machine with the code's names
and order of calls: `map_page`, `map_pages`, `unmap_page(s)`, `identity_map_page`, `user_map`,
`clear_physical_page`, `map_kernel_inside_user`. Every store goes through a kernel page
(`Store`, `Fill`) or a window (`StoreThrough`, `FillThrough`) and faults if that is not mapped
for writing. Opening or closing a window loads the kernel's directory, as the code's TLB flush does.

The frames come from `Phys`, with what the allocator does wrong. The range of the shim
is not where one expects it: `osi_virt_mem_allocator_init` asks for four times the
largest block there is, gets NULL and makes `P2V(0)` of it (`OSI_START`). `RegionPage`, `RegionMapped`,
`RegionUnmapped` are `AcpiOsMapMemory` and `AcpiOsUnmapMemory` on the bits of `Osi`; they
also serve the loader, which copies a program to its frames through such a region.

The actions are the callers: heap growth, `AcpiOsMapMemory` and `Unmap`, identity mapping,
the creation of a kernel task, `scheduler_load_process_in_new_address_space` with the ELF
loader inside, and `scheduler_set_page_directory` at a switch. All but the last run in
`kernel_main` or a kernel task (`InKernelCode`); a program makes system calls only. A call is one
step (section 7). The initial state is built by the functions
`kernel_main` has called before `acpi_init`. `PT_USER` is left out (every
process runs in ring 0), and so is the TLB.

`AddressSpaces` is what paging promises: each address space sees each page as a frame or
as none; a call changes the one page it names; a new space sees the kernel's pages as
the kernel does, from then on. One exception is written down: loading a program may leave pages of
`Windows`, through which it was written, unmapped. `Paging` implements it with `view` computed by
`Translate` from each directory in memory.

### Console.tla

A key is one step: `keyboard_irq` runs with interrupts disabled, and nothing else writes
to the screen (`kprintf` goes to the serial line). `terminal` joins the fields of
`vga_driver_context` (`rows`, `row`, `column`, the two histories as rows) and of
`default_terminal_context` (`start_of_command`, `end_of_command`, which may be negative where the
code's `size_t` wraps). `process_keystroke` is the actions `Press...` and `ReleaseShift`; they
call `catch_keycode`, which is made of the functions of the VGA driver and of the
terminal under their names. Shift, caps lock and keys without a character notify of an
uninitialised event: `Garbage` is every key it may be taken for, one that prints nothing included. `typed` is history:
what the user typed since the prompt, as long as it was text, tabs and backspaces within
the line. Strings are sequences of characters, scaled down with the screen; which command
is run depends on its first characters as in the code.

### HashMap.tla and MultiMap.tla

One instance of the macros of `hashmap.h`. `memory` holds the allocated entries by
address, each with its key, its data and its two links; `hashmap` is the struct with its
buckets; `held` is the pointer the client got from `hashmap_find` last, through which
it may write (`WriteFound`). `Linked`, `Unlinked`, `Resized` are the code's
pointer operations: the first puts an entry behind the last of its chain, which both `hashmap_add` and, entry by entry
over all chains (`LinkedAll`), `resize_hashmap` do. Loops along a chain are recursive functions (`Chain`,
`Matching`). Removing an entry that is not the first of its chain leaves the one before it
pointing to freed memory (`hashmap.h:143` sets `prev` where `next` is meant): `broken`,
after which nothing is defined and the model ends. `kmalloc` returning NULL, which is not
looked at, is left out by the same reasoning (`Addresses` must suffice). In the
kernel nothing uses the map yet; what is modelled is a library with a client that
makes any sequence of calls.

`MultiMap` is the promise: each key has its values, the oldest first; to look up or
to remove a key is to do so with the oldest. `hashmap_destroy` frees the entries and neither the buckets
nor the struct, which it does not zero either, although `hashmap.rst:71-74` says that it "zeroes out the `hashmap` instance"
and "frees all resources allocated by it". The model has what the code does: `ChainsSound` says that the entries are freed.

### Ahci.tla

A port of the controller and the driver on the other side of its registers. Each access
of the driver to a register is a step (`pc` says which is next), since the controller acts
in between: it follows the start and stop bits (`ListStarts`, `ListStops`,
`FisFollows`), takes up an issued command (`Fetch`), moves the data sector by sector
(`Transfer`), and completes or fails. A sector is a number; the command carries its lower
three bytes (`lba`, `ahci.c:80-85`), and beyond 8 GiB another sector is read. The controller is not part of the repository: its
actions say what the driver has to expect, and are marked external in `PROJECT.json`. A
command that failed stays issued, and the controller takes no other until the port is
stopped and started again; the driver only does that in `configure_port`. Only slot 0 is ever
used; the other tables that `configure_port` lays out are not modelled (from slot 16 on
they would lie behind their page, as their distance is `i << 8`, `ahci.c:51`).

The modules `MC...` hold the values of constants that a configuration cannot write.

## 3. Runs and bounds

| Run | Result | Question |
|---|---|---|
| SchedulerApi | passes | With every call by every task, a loaded program, 5 processes and ticks at every point: selection, queues, CPU and stack ownership, sleeping, killing |
| SchedulerBoot | passes | The boot as shipped, `test_program` included, fair: who gets to run, does who ends leave, who keeps the CPU |
| SchedulerResumed | violated | A statement of two comments, section 5 |
| Buddy | passes | Five uses of the page allocator, up to and past exhaustion |
| Heap | passes | Every sequence of calls on a heap that grows to its limit; refinement |
| HeapFree | violated | Section 5 |
| Paging | passes | Every order of mappings, heap growth, tasks, loaded programs and switches, with the frames as the buddy allocator gives them; refinement |
| PagingLayout, AcpiRegions | violated | Section 5 |
| Console | passes | Any keys in any order: does what was typed run, and does what was shown come back |
| HashMap | passes | Any calls of a client, with resizing: links, contents, the pointers it was given; refinement |
| Ahci | passes | Configuring and reading against a controller that is slow, fails, or answers between any two accesses |

**SchedulerApi**, invariants: `TypeOK`; `IdleAlwaysReady`, on which the selection
relies; `QueueIntegrity` (what is queued is where selection looks for it, once; and at most one process that
was made READY is in no queue, section 5); `SelectsHighest` and `SelectsInTurn` (no runnable process of the
current priority is passed over); `ChosenStaysRunnable` (over the window with
interrupts enabled between selection and switch); `CurrentOwnsStack` (who executes
its own code or a call is `current_pid`); `OwnCodeIsRunnable`;
`SleepersHaveTimeout` (`--sleep_timeout` never wraps); `ContextsOwnStack`, which says how
far the second return of `arch_save_context` reaches as long as no tick has preempted, and
nothing afterwards. Three more invariants stand beside
them in the module and are proved without a run: `KillNeverReturns`,
`InterruptsOffWhenSelfChosen`, `OwnCodeBeforeFirstSwitch` (section 6). Bounds: `MAX_PROCESS = 5` (idle, init,
post_init, the program and one created task, after which creation fails), quantum 1, so that
every tick but the first of a turn ends one, queues of 2 (their first capacity, so
one more push faults), sleeping 0 or 2 ms at one tick per ms, so that a timeout of 0
and one that spans ticks occur. All four priorities exist. More processes of one
priority only lengthen a queue; the theorems remove the bound. With one process to create beside
the program, the run cannot meet a second lost one: that there is none for any number
of processes is the theorem `QueuesAreSound`.

**SchedulerBoot**: no calls but those of the shipped tasks (init and post_init end, idle
yields), `test_program` loaded before `scheduler_start` (`kernel.c:144`), the real quantum of 25 ticks, `FairSpec`.
`BootEndsInProgram`: post_init gets the CPU; init gets it too, unless a tick preempts in the
switch to it, before its stack is the CPU's (then its context is that of another stack, and it
never runs); in the end `test_program` keeps the CPU, as its loop has a higher priority than
idle, and idle never executes. `KillLeavesCpu`: init and post_init leave when they end.

**Buddy**: 3 levels, 16 pages, words of 4 bits and bytes of 2, so that a level spans
words and a word spans bytes, as in the code. Instances: the image reserved page by page;
the heap range reserved in large blocks; one- and two-page blocks; single pages freed
again; pairs freed again. At most two holders of one block (one more than may be).
`LiveBlocksDisjoint`, `ReservedStaysFree`, `FreePageIsFound` state for which uses the code is
right: blocks of one and two pages while nothing is freed; single pages never leak, exist, and
when there is none left the caller is told.

**Heap**: two pages of 16 words, requests of 1, 2 and 5 words (3, 8 and 17 bytes) and
one larger than the pool, blocks split when more than 4 words are left over
(`MIN_BLOCK_SIZE = 2`; 8 in the code). That is room for three to six blocks, both kinds of
growth, all four merges of `kfree`, whole and split allocation, slack in blocks, all five
outcomes of `krealloc`, and exhaustion. `BlocksTile` (tags at both ends agree and tile
the heap), `FreeListExact`, `FreeBlocksApart`, `PayloadIntact`, `ImplementsAbstractHeap`.

**Paging**: tables of 18 entries and directories of four, of which the last is the
kernel's; its table has the range of the ACPI shim, the heap, the screen, the image and
room for two single pages, in this order, which is the layout the code ends up with. 32 frames, of which 17
are reserved with the image, in four levels of blocks with words of four bits and
bytes of two. That is enough for every call to get its frames, since what is done
without any is nowhere stated (section 7). Two processes in any mixture of tasks and programs, one
region of the ACPI shim, a heap of up to two pages, three files: one segment of two pages behind a header that
is not loaded, across the end of a table; two segments; and no program.
`PagingNeverFaults`, `ProgramsIsolated` (no frame belongs to two
owners; a program cannot write its own tables), `ProgramLoaded` (bytes and stack where
the file and the constants say), `CurrentSpaceLoaded`,
`FixedMappingsStay` (within those sizes, which keep heap and regions below the screen and apart),
`ImplementsAddressSpaces`. 10,974 states.

**Console**: a screen of two rows of six cells, a prompt and a tab of two, commands of one letter,
help of two lines, six keys. That is room for scrolling by each of typing, commands and arrow keys, for
a history that overflows, for rows that go out at one edge and come back, and for echo with
an argument. `PlainCommandsRun`: what was typed within one line is what the
enter key runs, wherever on the screen it is and although the line feed may scroll
it away. Outside its condition the code loses commands: arrow keys that scroll back move
the text and not the command's start (`vga_driver.c:150`), and a line of 78 characters ends
in column 0, where the next key, enter included, begins a new command (`keyboard_callbacks.c:15`),
although `default_terminal_functions.c:49` names a limit of 79. `ScrollingKeepsText` and
`EarlierLinesStay` are about every line from the oldest in the history to the newest. On two
rows, what `EarlierLinesStay` says of the enter key says little, as its output fills the screen
and its histories; typing and backspace are what the run covers, and the enter key on
a screen of any size is the theorem `EarlierLinesAlwaysStay`.

**HashMap**: one bucket at first, resized to two and to four; five entries, two keys that
share a bucket until there are four, two values, which are symmetric. Chains of four, removal of the first
of several, a resize with two keys in one chain, and a pointer held across a resize all
occur. `ChainsSound` (an entry is in the chain of its hash, once, links agree both ways, nothing
is lost, chains are short, destroying frees all), `ImplementsMultiMap`. 153,768 states.

**Ahci**: two polls before the driver gives up, two sectors per read, reads from a sector, from one
that overlaps none of it, and from one beyond three bytes; any number of reads and configurations. `ReadGivesSectors`
(success means the buffer is filled, whatever happens between the two registers that
are polled), `BufferOnlyWhileReading` (once the call has returned, in
whatever way, the page is the caller's), `CallsReturn`. The latter leaves out one case, in
which the call does not return: a read after one that failed, without configuring in
between (`halted /\ ~TFES`). The kernel reads each port once, right after it has configured it, and
does not look at the result (`ahci.c:131`). 1,603 states.

Deadlock is checked in Ahci. Elsewhere it is not: the machine halts after
`suspend_kernel`, after a fault, when an allocator is exhausted, when a map is broken.

Each property of a passing run has a mutant, a definition with a plausible mistake
beside the right one (marked `mutant` in the modules), under which TLC finds the
property violated; `PROJECT.json` lists them.

## 4. Fairness

SchedulerBoot and SchedulerResumed use `FairSpec` of `Scheduler`: weak fairness of
`Boot`, `KernelStep` and `TaskStep` (the CPU executes: `kernel_main`, the kernel's code up to the end
of a call, the tasks' functions, which are finite loops; the program goes on too, but ends only if
`ProgramEnds`) and of `Tick` (the PIT fires for
ever, and the PIC delivers it once interrupts are enabled and none is in service).
Nothing is assumed of the keyboard. No process is assumed to be chosen: that is the
scheduler's doing.

Ahci uses `FairSpec` of `Ahci`: weak fairness of `DriverStep` (the driver's loops go on), of
`Port` (the port follows its start and stop bits and takes up what is issued, which
the loops of `stop_cmd` and `start_cmd` rely on) and of `Answer` (a command that was taken
up is answered, with data or an error: the loop at `ahci.c:101` has no other end). A device that is busy before a
command may stay so for ever (`BecomesReady` is not fair): for that the driver counts its polls.

## 5. What the runs found

| Run | What the code does |
|---|---|
| SchedulerResumed | `scheduler.c:254`: the second return of `arch_save_context` is not told from the first. A process that was switched away and is chosen again repeats the switch; it never returns to its own code, against "At this point we just have to return to the current process" (388) |
| HeapFree | `kstdlib.c:194`: freeing the last block reads the word behind the heap, in a page that is not mapped |
| PagingLayout | `mem_constants.h:26`: `HEAP_START_ADDR` takes a number of pages for bytes. The heap starts 136 pages below the text screen and 208 below the kernel image, and grows over both within its stated size |
| AcpiRegions | `bitset.c:21`: clearing a bit clears the lower bits of its byte. Unmapping one region of ACPICA frees its neighbours, and the next one mapped replaces them |

Where passing runs exclude one of these, a constant or the property says so:
`IdleMaySleep = FALSE`, `AnyShrink = FALSE` (the kernel's only caller of `krealloc`,
`vector.c:64`, asks for more), `MaxRegions = 1`, `~usage.frees` in the properties of the
buddy allocator. The others stay in the models of all runs: in SchedulerApi processes
do resume wrongly, and the properties say what still holds.

The models have further behaviours that no run is about, because no text in the repository
says otherwise or because no shipped caller gets there:

- `scheduler.c:303`: a process is READY (301) before it is queued, with interrupts enabled. A tick that preempts
  the creator in between leaves a READY process that no queue holds, for ever, since the creator never goes on.
- `scheduler.c:555`: a tick that ends the quantum of a process which has just become SLEEPING makes
  it READY again (`ExpiredStates`); its sleep ends early.
- `buddy_memory_allocator.c:47`: the loop over the lower levels doubles in the wrong direction. Of a
  range that is reserved in large blocks, most single pages stay free: of the heap's 2048 pages, 16 are marked.
- `buddy_memory_allocator.c:78`, `87`: the address of a block is its index times the amount asked for, and
  an allocation marks too few or too many of the lower levels. Requests of three pages overlap others; blocks of four pages and more can overlap later ones.
- Together with paging: reserving the image marks every block of four pages and more, so that a program of that
  size gets frame 0, which nobody notices (`tar.c:353`). One of eight pages or more is also written through `P2V(0)`
  up, since the shim's range has no block for it; from 49 pages on that covers the heap.
- Every program that is loaded frees, with its own region, the bits below it, and may leave a live region of ACPICA unmapped.
- With `IdleMaySleep = TRUE`, `AnyShrink = TRUE`, or arrow keys before typing in the console: sections 2 and 3.

## 6. Proofs

The theorems hold for every value of the constants that the named assumptions admit. Each
ends by temporal logic from two lemmas, that the initial states satisfy an invariant
and that every step keeps it.

`NatLemmas.tla`: the least and greatest element of a set of naturals; that a
function defined by recursion on the naturals exists and satisfies its
equations (`RecursionOnNat`, `RecursionUpTo`); quotients and remainders with a divisor that is not a
number written down. `RecursionOnNat` is what gives `pow2`, `writestring`, `map_pages`
and the other recursive functions of the models a value; what a loop leaves true is
then proved by induction on its counter, as a set of naturals without a least
element is empty.

### The scheduler

`SchedulerProofs.tla` (any number of processes, priority range, quantum, queue capacity and
set of calls):

| Theorem | Statement |
|---|---|
| `TypeCorrect`, `TimeoutsNeverWrap` | `TypeOK` and `SleepersHaveTimeout` always hold |
| `CallsActOnCaller`, `ContextsStayApart`, `NobodyComesBack` | `CurrentOwnsStack`, `ContextsOwnStack` and `OwnCodeBeforeFirstSwitch` always hold |
| `QueuesAreSound` | `QueueIntegrity` always holds: entries are of created processes, each once, in the queue of its priority; one process at most is READY and never queued, and only after a tick has preempted |
| `TurnGoesRound` | `SelectsInTurn` always holds: within a priority no runnable process is passed over |
| `IdleStaysReady`, `SelectionIsHighest`, `ChoiceStaysGood` | if `IdleMaySleep = FALSE`: `IdleAlwaysReady`, `SelectsHighest`, `ChosenStaysRunnable` always hold |
| `OnlyRunnableExecute`, `KillIsFinal` | if `IdleMaySleep = FALSE`: `OwnCodeIsRunnable` and `KillNeverReturns` always hold (and `InterruptsOffWhenSelfChosen`, lemma `RunFacts`) |
| `SelectNextRunnable` (lemma) | for any contents of the queues, the selection is a runnable process of the highest priority that has one |

The argument has five invariants, each inductive relative to those before it.

1. `TypeInv`: the types, and that every sleeper has a tick left. The two need each
   other, since a timeout that reached 0 would leave `Nat` at the next decrement.
2. `UsedInv`: the pids found in `current_pid`, `new_pid`, `stack`, the queues and the
   contexts are of processes that exist. Without it a switch could go to an EMPTY entry.
3. `StackInv`: what a saved context may name at each `pc`. `CurrentOwnsStack` alone
   is not inductive: whether a restored frame belongs to its process depends
   on which contexts were saved, and, once a tick has preempted, on IRQ 0 being in
   service for ever.
4. `QueueInv`: `QueueIntegrity`; that who is queued has a priority there is a queue for (`PriorityInv`);
   and that the process `push_back` is about to queue is in no queue yet. That no second
   process is lost needs 3: the tick that loses the first leaves IRQ 0 in service.
5. `IdleInv` and `RunInv`: idle is queued and runnable; at each `pc` what is known of the state
   of the process on the CPU and of the chosen one. The only step that fails without the hypothesis is
   a sleep that names idle.

`TurnGoesRound` needs `PriorityInv` and the distance in a ring, a remainder by the length of the
queue: the loop of `select_next_process_with_lock` starts behind the current process
and stops at the first runnable one, so none has a smaller distance.

### The buddy allocator

`BuddyProofs.tla` (any number of levels and pages, any width of words and of bytes, any
set of uses within `SizesAssumption` and `InstancesAssumption`):

| Theorem | Statement |
|---|---|
| `TypeCorrect` | `TypeOK` always holds |
| `BlocksStayDisjoint` | `LiveBlocksDisjoint` always holds: blocks of one and two pages, nothing freed |
| `ReservedPagesStay` | `ReservedStaysFree` always holds: a client of single pages gets none of the kernel image |
| `FreePagesAreFound` | given `PagesFromZero`: `FreePageIsFound` always holds |

Where a level begins in the array is a power of two from another, so the proofs start
with `pow2` (its equations from `RecursionOnNat`, sums, growth) and `log2` on it. The invariants say
in bits what the properties say in pages: of every page that is held or reserved the
bit of level 0 is set and, for disjointness, that of its pair (`LiveInv`, `ReservedInv`, with
`PendingInv` for the reservations still to come); conversely no other bit of
level 0 is, and none behind the last page (`PageInv`). The search may return a page of another
level only after it passed all of level 0, which is why the bits are enough.

`PagesFromZero` says that a range reserved page by page begins at 0. Without it `PageInv` fails, as
a reservation in a higher range also marks bits of the levels before it
(`buddy_memory_allocator.c:47`). The two callers that reserve page by page begin at 0
(`global_phys_allocator.c:31`, `kernel_virt_allocator.c:29`); `kernel_virt_allocator_reserve_pages`
(`:49`) would not have to, but nothing calls it.

Trying to prove `LiveBlocksDisjoint` showed that it compared only different
records of `Held`, so that one block held twice would have passed. It now says also that each has one holder.

### The heap

`HeapProofs.tla` (any number and size of pages, any set of requests within `HeapAssumption`; every
theorem assumes `AnyShrink = FALSE`):

| Theorem | Statement |
|---|---|
| `HeapTypeCorrect` | `TypeOK` always holds |
| `BlocksAlwaysTile`, `FreeListAlwaysExact`, `FreeBlocksAlwaysApart` | `BlocksTile`, `FreeListExact`, `FreeBlocksApart` always hold |
| `PayloadAlwaysIntact` | `PayloadIntact` always holds |
| `SearchAlwaysExact` | `SearchIsExact` always holds: the search over the list finds a block that fits whenever the heap has a free one |
| `HeapRefines` | the heap implements `AbstractHeap`: `ImplementsAbstractHeap` |

None of the five properties is inductive, nor is their conjunction in the form in which a run
checks it, as each reads the blocks off the memory by walking it. The
invariant `HeapInv` (`HeapInductive`) therefore says that there *are* blocks: a function `sz` from the addresses
where blocks start to their sizes, the set `F` of those that are free, and `rank`, the order of the list, such that
- `Tiles`: the blocks follow each other from 1 to the end, each of four words or more;
- `Tags`: both ends of each hold its size, with the allocated bit unless it is in `F`;
- `Linked`: `prev` and `next` of the blocks of `F` are in `F` or NULL and inverse to each other, only the head
  has no `prev`, and `rank` grows along `next`, so that the list has no cycle and reaches every block of `F`;
- `Apart`: no block of `F` ends where another starts;
- `Clients`: each client holds one block outside `F`, which has room for what it asked for, and
  the client's address stands in every word of that.

One lemma for each pointer operation says what it does to these (unlinking gives a list of
`F` less a block, tagging gives a block its size), with everything outside the block *untouched*; one for each piece of an operation
puts them together (`allocate_block`, the two merges, both kinds of shrinking and of growth), so
that each may pass through heaps that break `Apart` or `Linked` half-way, as the code does between two
assignments; and one for each operation says what became of the clients (`KmallocGives`, `KfreeTakes`,
`KreallocCuts`). Those three also give the refinement: `Given`, `TakenBack` and `Cut` are `Allocate`, `Free`
and `Resize` of `AbstractHeap`, once it is known that walking the memory finds exactly
the domain of `sz` (`BlocksAre`). The bound `MaxBlocks` of the two walks is exact enough by counting: blocks of four words
or more start in different quarters of the heap (`FewBlocks`).

`AnyShrink = FALSE` leaves out the calls of `krealloc` that shrink a block into a free one that has
neighbours in the list. They break `Linked` (`kstdlib.c:350`), and TLC shows that `FreeListExact` fails with them; the
theorem would be false. The kernel's one caller of `krealloc` asks for more words than it has.

### Paging

`PagingProofs.tla` (any sizes of tables, directories and memory, any layout, any files
within `PagingAssumption` and `FilesAssumption`, which give the fields of a program header their types):

| Theorem | Statement |
|---|---|
| `SpaceOfCallerLoaded` | as long as `PagingNeverFaults` holds, `CurrentSpaceLoaded` does |

Every call of `paging.c` ends with the kernel's directory in `cr3`, whoever called it: each
window it opens or closes loads it. One lemma per function (`WindowLoads`, `MapLoads`, `UserMapLoads`,
`MapPagesLoads`, ... `ProgramLoads`) says that a call that starts in the kernel's directory ends
there and keeps faults; those with loops go by induction on the number of
pages. The invariant `SpaceInv` then needs that only tasks call, which `InKernelCode` gives, and that the
tasks are listed with the kernel's directory. The hypothesis is there because what runs after a
fault is nothing; that no access faults depends on the layout and stays with TLC.

### The console

`ConsoleProofs.tla` (any size of screen, any keys, texts and prompt within `ConsoleAssumption`,
`KeysAssumption`, `TextsAssumption`):

| Theorem | Statement |
|---|---|
| `TypeCorrect` | `TypeOK` always holds |
| `ArrowsKeepText` | `ScrollingKeepsText` always holds: an arrow key neither loses nor changes a line |
| `TypedCommandsRun` | `PlainCommandsRun` always holds: what was typed within a line is what the enter key runs |
| `EarlierLinesAlwaysStay` | `EarlierLinesStay` always holds: a key that types, and the command it runs, changes no line above the cursor |

`ConsoleInv` has two parts. `Sound` is the type of the terminal with
the two histories bounded *together* by the height: each alone is bounded by the code's test,
but a scroll up and back would forget rows if the other were full as well, and that it never is
follows from the sum only. `TypedLine` is the link between what was typed and the cells of the
screen: while only text was typed, the text stands behind the prompt on the line of the
cursor, and `start_of_command`, `end_of_command` are its ends. It has to survive a line
feed that scrolls, since enter writes one *before* the command is read back. `writestring` is a
loop over characters; its lemmas are by induction on their number (`WrittenByCharacters`).

`EarlierLinesStay` compares two texts of which each may have lost its oldest lines. Its proof follows
the rows above the cursor: `Moves(t, r, k)` says that from `t` to `r` the cursor has come
down by `k` lines, some number of full histories was forgotten on the way, and every other row
that was above the cursor is in the same place from there on (`Advanced`). A line feed is a move by one
line, whether or not it scrolls and the history starts again (`FeedMoves`); two moves are
one, their lines and their histories added (`MovesTwice`); a character in the middle of a
line, a backspace and a change of the command's ends are moves by none. A text moves by as many
lines as it has line feeds if each of its lines is shorter than the screen's
(`LinesMove`), and what a command prints is such a text (`OutputLines`): for `echo` because a command
read back has at most `WIDTH - 1` characters, none of them a line feed (`CommandType`). The rows hold none
either, which is part of `Sound`. That only one
history can be lost in a move by one line follows from the row that it leaves behind.

`KeysAssumption` says that no printing key prints a line feed, a tab or one of the control
keys, which holds for the table and the shifted characters of `default_keyboard_logic.c` (enter, tab and
backspace of that table are events of their own, and actions of their own); `TextsAssumption`
that the prompt and a tab contain no line feed, that the texts of commands end with one, have lines shorter
than the screen's, and that the errors have no more lines than help, as the strings
of `default_terminal_functions.c:145-162` do (three lines of help, one of each error, all shorter than
80). `Characters` is what a cell may hold, and the line feed.

### The hash map

`HashMapProofs.tla` (any keys and values, any hash function, load factor, resize factor and number of buckets within
`HashMapAssumption`):

| Theorem | Statement |
|---|---|
| `HashMapTypes` | `TypeOK` always holds |
| `HashMapSound` | `ChainsSound` always holds |
| `HashMapRefines` | the hash map implements `MultiMap`: `ImplementsMultiMap` |

`ChainsSound` reads the chains by following `next`, which says something only if the walk
ends. The invariant `HashMapInv` (`HashMapInductive`) has the chains beside the memory: as long as the map can be
used there is `ch`, a sequence of entries for each bucket, such that `next` and `prev` run along
it (`Forth`, `Back`), no entry is twice in it, each has the hash of its bucket, every allocated
entry is in one of them (`Covers`), `num_of_entries` is their number and at most the load factor times
the buckets; and what the client holds is the first entry of its key in `ch`.

What follows links is tied to `ch` once: the walk from a bucket gives its sequence
(`ChainIs`; it ends because a chain of different entries is no longer than there are entries), and the
entries that equal a key are a subsequence of it, `OfKey`. After that the operations are
operations on sequences: linking an entry appends it to one chain (`LinkedChains`, `AddedIs`), taking out a first entry
leaves the tail (`RemovedIs`), writing leaves `ch` alone (`WrittenIs`). `resize_hashmap` is two loops: `LinkedAllChains` is
an induction on the entries of a chain, `ResizedChains` on the buckets. The loop invariant of the outer one, `Moved`,
says that the new chains hold exactly the entries of the buckets before `i` and, for each key, *in the
order of the old chain*: since all entries of a key come from one bucket, no key gets entries
from two rounds. This order is what `MultiMap` needs; that every entry is in a chain is not
enough for it.

`HashMapRefines` maps a step to `Add`, `Find`, `Write` or `Remove` by what it does to `OfKey` of each key; the
first removal from inside a chain and `hashmap_destroy` halt the abstract map.

### The disk

`AhciProofs.tla` (any limit of polls, number of sectors per read, and set of sectors):

| Theorem | Statement |
|---|---|
| `TypeCorrect` | `TypeOK` always holds |
| `ReadIsComplete` | `ReadGivesSectors` always holds |
| `BufferIsCallersAgain` | `BufferOnlyWhileReading` |

The invariant is `AInv`. None of the properties is inductive alone: that a completed
command leaves the buffer full (`DataInv`) needs that the transfer runs from the
table as the driver wrote it, and that a command which is issued and not failed is only ever there
while the driver polls (`CommandInv`). That in turn fails if the driver may give up
while its own command is under way, which is what the write that clears the error bit
prevents: a set bit then means that the controller has stopped (`ErrorInv`).

### Only model-checked

- Liveness (`BootEndsInProgram`, `KillLeavesCpu`, `CallsReturn`): not for this prover.
- The refinement of `AddressSpaces`.
- Of `Paging`: `TypeOK`, `PagingNeverFaults`, `ProgramsIsolated`, `ProgramLoaded`, `FixedMappingsStay`. They depend on
  the frames of the buddy allocator being apart, which holds for some sizes of requests only (section 5), and on the layout.

## 7. Not modelled

The modules cover the kernel's own logic that has a state: scheduling, memory, loading, console, hash map,
disk reads. By lines it is a small part of the repository, as 139,000 of its 148,000 lines in C
are ACPICA, a vendored interpreter that the kernel starts at boot.

- **Message queue** (`message_queue.h`): nothing instantiates it. By reading: its indices wrap modulo
  `capacity - 1` and `write - read` is taken for the number of messages, so that a queue holding
  `capacity - 1` looks empty, and adding to a full one is never refused.
- **Vector** beyond `push_back`, **quicksort**, **string**, the **bitmap allocator** with its cache: no caller in the kernel
  or none but tests.
- **PIT**: the keys 1 to 6 reprogram channel 0, which the scheduler's ticks come from (`pit.c:38-44`),
  `restore_timer` does not write the count back (`pit.c:69-77`), and the reported frequency stays 1000. `AcpiOsStall`
  waits with `pit_wait_us`, which returns at once before the first of these keys and never after it (`pit.c:118-128`).
- What the timer's counters report, and a change of the timer's frequency: it
  happens once, before there is a process.
- Preemption inside `push_back` (`vector.c:60`: the length grows before the element is there, so that a tick in between
  may select a pid read from memory nobody wrote); preemption before it, between READY and the call, is in the model.
  What the theorems say of the queues is therefore about a `push_back` that is not interrupted. Preemption
  inside a tick's own loop does not occur (interrupts are off there).
- A garbage-filled new heap page: the model clears it; no operation reads such a word.
- In `krealloc`, everything behind the fault on its growing path; `kcalloc`, which nothing calls.
- A wild or double free: clients pass back what they hold. A process that corrupts memory.
- Bus enumeration, formatting and C library functions, CPU tables, system calls:
  sequential set-up or unit-tested, no state protocol.
- Memory exhausted under paging: `global_phys_allocator` returns 0 and no caller
  looks at it. `Allocated` has it, the run has enough frames; with fewer, frame 0 becomes
  table, directory and stack of several address spaces, and isolation, loading and refinement fail.
- A tick that preempts a kernel task inside a call of `paging.c`, with its windows open: each
  call is one step of `Paging`. As the scheduler is, the preempted call never goes on.
- `is_readable`, `is_writable`, `get_physical_address` (`osi.c:120`, `147`, `170` are their callers): walks that
  leave the tables as they were.
- `parse_headers` and the checks of the ELF header (a file is valid or not); the garbage a new table
  of `identity_map_page` shows in the kernel's own lower half is in the model and allowed; frames of multiboot
  modules, which are not reserved from the page allocator; the virtual pages of the kernel, which are a counter in `Paging`.
- In the console: the byte that `kstrcat` writes behind `command_string[80]` when `echo` prints a command that
  was cut to 79 characters (`default_terminal_functions.c:50`, `152`); colours, the hardware cursor, sounds, the
  spinlock of the `terminal_context` functions (only the initialisation is ever called).
- In AHCI: `probe_ports`, more than one port (the array of ports is shared by all controllers and only ever grows), the layout of the
  tables of slots 1 to 31, interrupts, which the driver does not use. `ata_driver.c` is another driver for the same purpose.
- In the hash map: what happens after an entry behind another was removed, or when `kmalloc` returns NULL;
  its ready-made hash functions.

## 8. Plan

Done: `Scheduler`, `BuddyBits`, `BuddyAllocator`; `AbstractHeap`, `Heap`;
`AddressSpaces`, `Paging` with program loading and the allocators of frames and of the shim's
range; `Console`; `MultiMap`, `HashMap`; `Ahci`.

Worth adding: `Transcript`, an abstract specification of the console (a list of lines, a window and
a cursor) for `Console` to implement; the vector and the message queue, once something uses them.

Proofs done: the scheduler's safety in full, the buddy allocator, the heap and the hash map with their refinements, the console,
the safety of the disk driver, and the directory in `cr3`. Worth having
next: that `map_page` changes the walk of one page only,
on the way to `AddressSpaces`.
