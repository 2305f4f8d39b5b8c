------------------------------- MODULE Paging -------------------------------
(***************************************************************************)
(* Page directories and tables, the windows through which the kernel       *)
(* writes to frames it has no mapping of, and what is built from them: the *)
(* heap's pages, the regions of the ACPI shim, the stacks of kernel tasks  *)
(* and the address spaces of programs, with their loading.                 *)
(*                                                                         *)
(* Pages and frames are numbered. Memory is what the processor walks: a    *)
(* frame is ENTRIES entries, whether it is a directory, a table or data.   *)
(* The upper half, from KERNEL_DIR on, is the kernel's; its first entry    *)
(* maps P2V(f) to the frame f of the kernel image. Entry 1023, the table   *)
(* of the windows, is the same in every directory: it is a variable of the *)
(* model and no entry. The flag PT_USER is left out, as every process runs *)
(* in ring 0.                                                              *)
(***************************************************************************)
EXTENDS Integers, Sequences, FiniteSets, SequencesExt, FiniteSetsExt, TLC

CONSTANTS
  ENTRIES,               \* entries of a table (1024)
  DIRS,                  \* entries of a directory, the windows' one left out
  KERNEL_DIR,            \* the first of the kernel's half (768)
  FRAMES,                \* frames of memory, pages of global_phys_allocator
  PHYS_LEVELS,           \* levels of global_phys_allocator (11)
  OSI_LEVELS,            \* levels of osi_buddy_memory_allocator (3)
  WORD,                  \* bits of an uint32_t
  BYTE,                  \* NUMBER_OF_BITS_IN_TYPE
  END_KERNEL,            \* the first frame behind the kernel image
  HEAP_START,            \* frame number f for which the heap starts at P2V(f)
  VGA,                   \* the frame of the text screen
  TEXT,                  \* the first frame of the image, which is read-only
  MAX_KERNEL_HEAP_SIZE,  \* pages the heap may have
  MAX_ACPICA_SIZE,       \* pages of the ACPI shim's range
  USER_STACK_PAGE,       \* the page below USER_STACK_TOP_ADDR
  IdentityFrames,        \* frames that are mapped at their own address
  AcpiFrames,            \* frames that the ACPI shim maps
  Files,                 \* the program files: [valid, headers]
  MaxRegions,            \* bound: regions of the ACPI shim at one time
  MaxProcesses           \* bound: kernel tasks and programs

ASSUME PagingAssumption ==
  /\ ENTRIES \in Nat \ {0} /\ DIRS \in 1..ENTRIES /\ KERNEL_DIR \in 1..DIRS - 1
  /\ HEAP_START < VGA /\ VGA < TEXT /\ TEXT + 2 < END_KERNEL
  /\ END_KERNEL <= ENTRIES /\ END_KERNEL < FRAMES
  /\ MAX_ACPICA_SIZE \in 1..ENTRIES /\ END_KERNEL + MaxProcesses <= ENTRIES
  /\ \A f \in Files : f.valid => \E i \in DOMAIN f.headers :
       f.headers[i].load /\ f.headers[i].memsz > 0
  /\ USER_STACK_PAGE \in 0..KERNEL_DIR * ENTRIES - 1
  /\ IdentityFrames \cup AcpiFrames \subseteq 0..FRAMES - 1
  /\ MaxRegions \in Nat /\ MaxProcesses \in Nat

\* The fields of a program header that the loader reads, in pages.
ASSUME FilesAssumption ==
  \A f \in Files : f.headers \in
    Seq([load : BOOLEAN, vaddr : Nat, memsz : Nat, offset : Nat])

VARIABLES
  machine,    \* memory, windows, cr3, the bits of the allocators of frames
              \* (phys) and of the shim's range (osi), whether it faulted
  virt,       \* the next free page of the kernel's virtual allocator
  regions,    \* what the ACPI shim has mapped: [page, frame]
  heap,       \* the frames the heap was given, page by page
  processes,  \* [cr3, page, stack, program, file] of each, as created
  running     \* the number of the current one, 0 during the boot

vars == <<machine, virt, regions, heap, processes, running>>

Phys == INSTANCE BuddyBits WITH
  number_of_levels <- PHYS_LEVELS, num_of_lowest_mem_size_in_allocator <- FRAMES
Osi == INSTANCE BuddyBits WITH
  number_of_levels <- OSI_LEVELS, num_of_lowest_mem_size_in_allocator <- MAX_ACPICA_SIZE

P2V(frame) == KERNEL_DIR * ENTRIES + frame

Frame == 0..FRAMES - 1
Page == 0..DIRS * ENTRIES - 1
KernelPage == KERNEL_DIR * ENTRIES .. DIRS * ENTRIES - 1

KernelDirectory == TEXT + 1
KernelTable == TEXT + 2
KernelDirectoryPage == P2V(KernelDirectory)

Entry(frame, rw) == [present |-> TRUE, rw |-> rw, frame |-> frame]
Absent == [present |-> FALSE, rw |-> FALSE, frame |-> 0]

Cleared == [i \in 0..ENTRIES - 1 |-> Absent]

\* A page of a file, or what memory holds that no one wrote: the processor
\* takes it for entries if it is used as a table.
Bytes(page) == [i \in 0..ENTRIES - 1 |-> Entry(page, TRUE)]

\* The processor's walk: a page is writable if both of its entries are.
Translate(ram, cr3, page) ==
  LET dir == ram[cr3][page \div ENTRIES]
      entry == ram[dir.frame][page % ENTRIES]
  IN IF dir.present /\ entry.present
       THEN Entry(entry.frame, dir.rw /\ entry.rw)
       ELSE Absent

-----------------------------------------------------------------------------
(* Memory accesses of the kernel, and the windows 508 to 514.              *)

Fault(m) == [m EXCEPT !.fault = TRUE]

\* The kernel stores an entry, or a whole frame, through one of its pages.
Store(m, page, index, entry) ==
  LET to == Translate(m.ram, m.cr3, page)
  IN IF to.rw THEN [m EXCEPT !.ram[to.frame][index] = entry] ELSE Fault(m)

Fill(m, page, contents) ==
  LET to == Translate(m.ram, m.cr3, page)
  IN IF to.rw THEN [m EXCEPT !.ram[to.frame] = contents] ELSE Fault(m)

Load(m, page, index) == m.ram[Translate(m.ram, m.cr3, page).frame][index]

Slots == 508..514

map_to_arbitrary_kernel_virt_page_in_current_addr(m, frame, slot) ==
  [m EXCEPT !.window[slot] = Entry(frame, TRUE), !.cr3 = KernelDirectory]

unmap_arbitrary_kernel_virt_page_in_current_addr(m, slot) ==
  [m EXCEPT !.window[slot] = Absent, !.cr3 = KernelDirectory]

Open(m, frame, slot) ==
  map_to_arbitrary_kernel_virt_page_in_current_addr(m, frame, slot)
Close(m, slot) == unmap_arbitrary_kernel_virt_page_in_current_addr(m, slot)

StoreThrough(m, slot, index, entry) ==
  IF m.window[slot].present
    THEN [m EXCEPT !.ram[m.window[slot].frame][index] = entry] ELSE Fault(m)

FillThrough(m, slot, contents) ==
  IF m.window[slot].present
    THEN [m EXCEPT !.ram[m.window[slot].frame] = contents] ELSE Fault(m)

LoadThrough(m, slot, index) == m.ram[m.window[slot].frame][index]

\* A window on the table that an entry seen through another window names.
OpenThrough(m, from, index, slot) ==
  IF m.window[from].present
    THEN Open(m, LoadThrough(m, from, index).frame, slot) ELSE Fault(m)

-----------------------------------------------------------------------------
(* The functions of paging.c, on a machine m. A directory is given by the  *)
(* kernel page it is mapped at.                                            *)

\* global_phys_allocator_allocate_pages: nothing in the kernel gives frames
\* back. If there is no block it returns 0, which no caller here looks at.
Allocated(m, n) == Phys!AllocatedPage(m.phys, n)
Taken(m, n) == [m EXCEPT !.phys = Phys!MarkedByAllocation(@, n)]

\* Mutant: the window that user_map has open.
ClearedThrough509(m, frame) ==
  Close(FillThrough(Open(m, frame, 509), 509, Cleared), 509)

clear_physical_page(m, frame) ==
  Close(FillThrough(Open(m, frame, 510), 510, Cleared), 510)

\* Mutant: the new table is not cleared.
WithDirtyTable(m, dir, page, rw) ==
  IF Load(m, dir, page \div ENTRIES).present THEN m
  ELSE Store(Taken(m, 1), dir, page \div ENTRIES, Entry(Allocated(m, 1), rw))

WithTable(m, dir, page, rw) ==
  IF ~Translate(m.ram, m.cr3, dir).present THEN Fault(m)
  ELSE IF Load(m, dir, page \div ENTRIES).present THEN m
  ELSE LET table == Allocated(m, 1)
       IN Store(clear_physical_page(Taken(m, 1), table),
                dir, page \div ENTRIES, Entry(table, rw))

map_page(m, dir, page, frame, rw) ==
  LET t == WithTable(m, dir, page, rw)
      w == Open(t, Load(t, dir, page \div ENTRIES).frame, 512)
  IN Close(StoreThrough(w, 512, page % ENTRIES, Entry(frame, rw)), 512)

\* Mutant: the frame is not advanced.
MappedToOneFrame(m, dir, page, frame, n, rw) ==
  LET mapped[i \in 0..n] ==
        IF i = 0 THEN m ELSE map_page(mapped[i - 1], dir, page + i - 1, frame, rw)
  IN mapped[n]

map_pages(m, dir, page, frame, n, rw) ==
  LET mapped[i \in 0..n] ==
        IF i = 0 THEN m
        ELSE map_page(mapped[i - 1], dir, page + i - 1, frame + i - 1, rw)
  IN mapped[n]

unmap_page(m, dir, page) ==
  LET w == Open(m, Load(m, dir, page \div ENTRIES).frame, 512)
  IN Close(StoreThrough(w, 512, page % ENTRIES, Absent), 512)

unmap_pages(m, dir, page, n) ==
  LET unmapped[i \in 0..n] ==
        IF i = 0 THEN m ELSE unmap_page(unmapped[i - 1], dir, page + i - 1)
  IN unmapped[n]

\* A new table is not cleared here.
identity_map_page(m, dir, frame, rw) ==
  LET table == Allocated(m, 1)
      t == IF Load(m, dir, frame \div ENTRIES).present THEN m
           ELSE Store(Taken(m, 1), dir, frame \div ENTRIES, Entry(table, rw))
      w == Open(t, Load(t, dir, frame \div ENTRIES).frame, 514)
  IN Close(StoreThrough(w, 514, frame % ENTRIES, Entry(frame, rw)), 514)

\* Mutant: the first entry of the kernel's half is forgotten.
LinkedFromNextEntry(m, cr3) ==
  LET w == Open(m, cr3, 511)
      linked == [d \in 0..ENTRIES - 1 |->
                   IF d > KERNEL_DIR THEN m.ram[KernelDirectory][d]
                   ELSE LoadThrough(w, 511, d)]
  IN Close(FillThrough(w, 511, linked), 511)

map_kernel_inside_user(m, cr3) ==
  LET w == Open(m, cr3, 511)
      linked == [d \in 0..ENTRIES - 1 |->
                   IF d >= KERNEL_DIR THEN m.ram[KernelDirectory][d]
                   ELSE LoadThrough(w, 511, d)]
  IN Close(FillThrough(w, 511, linked), 511)

user_map(m, cr3, page, frame) ==
  LET w == Open(m, cr3, 509)
      table == Allocated(w, 1)
      t == IF LoadThrough(w, 509, page \div ENTRIES).present THEN w
           ELSE clear_physical_page(
                  StoreThrough(Taken(w, 1), 509, page \div ENTRIES,
                               Entry(table, TRUE)), table)
      v == OpenThrough(t, 509, page \div ENTRIES, 508)
      stored == StoreThrough(v, 508, page % ENTRIES, Entry(frame, TRUE))
  IN Close(Close(stored, 508), 509)

-----------------------------------------------------------------------------
(* Regions of the ACPI shim, and the loading of programs.                  *)

\* osi_virt_mem_allocator_init asks kernel_virt_allocator for MAX_ACPICA_SIZE pages,
\* four times its largest block. P2V makes a page of the NULL it gets, and the
\* range of the shim is the first pages of the kernel's half.
OSI_START == P2V(0)

\* The region that AcpiOsMapMemory gives n pages, and what mapping and
\* unmapping it does. No block leaves the start of the range.
RegionPage(m, n) == OSI_START + Osi!AllocatedPage(m.osi, n)
RegionMapped(m, frame, n) ==
  map_pages([m EXCEPT !.osi = Osi!MarkedByAllocation(@, n)],
            KernelDirectoryPage, RegionPage(m, n), frame, n, TRUE)
RegionUnmapped(m, page, n) ==
  [unmap_pages(m, KernelDirectoryPage, page, n) EXCEPT
     !.osi = Osi!MarkedAfterFree(@, page - OSI_START, n)]

\* The kernel copies n pages of a file, from offset on.
Copied(m, page, offset, n) ==
  LET copied[i \in 0..n] ==
        IF i = 0 THEN m
        ELSE Fill(copied[i - 1], page + i - 1, Bytes(offset + i - 1))
  IN copied[n]

\* What the loader takes from the program headers: the largest size and the
\* last address of the loadable ones, and the offset of the last of all.
Loadable(file) == SelectSeq(file.headers, LAMBDA h : h.load)
memsz(file) ==
  Max({0} \cup {file.headers[i].memsz : i \in {i \in DOMAIN file.headers : file.headers[i].load}})
virtual_base_addr(file) ==
  IF Loadable(file) = <<>> THEN 0 ELSE Last(Loadable(file)).vaddr
p_offset(file) == Last(file.headers).offset

\* The frames a program is copied to are written through the shim's range.
\* A file that is refused leaves the process without any of this.
load_elf_file_in_process(m, process, file) ==
  LET n == memsz(file)
      frame == Allocated(m, n)
      window == RegionPage(m, n)
      a == RegionMapped(Taken(m, n), frame, n)
      b == Copied(a, window, p_offset(file), n)
      c == RegionUnmapped(b, window, n)
      d == map_pages(c, process.page, virtual_base_addr(file), frame, n, TRUE)
      stack == Allocated(d, 1)
      e == clear_physical_page(Taken(d, 1), stack)
  IN IF file.valid THEN user_map(e, process.cr3, USER_STACK_PAGE, stack) ELSE m

\* The return address of the program, at the top of the process's stack frame.
KillAddress == Entry(TEXT, FALSE)

-----------------------------------------------------------------------------
(* The machine when kernel_main has come to acpi_init: paging_init,         *)
(* kdynamic_memory_init and terminal_context_initialize are done. What      *)
(* ACPICA maps during the boot, and the identity mappings of the multiboot  *)
(* tags, are left to the actions.                                           *)

paging_init ==
  LET image == TEXT..END_KERNEL - 1
      table == [i \in 0..ENTRIES - 1 |->
                  IF i \in image THEN Entry(i, i # TEXT) ELSE Absent]
      directory == [Cleared EXCEPT ![KERNEL_DIR] = Entry(KernelTable, TRUE)]
  IN [ram |-> [f \in Frame |->
                 CASE f = KernelTable -> table
                   [] f = KernelDirectory -> directory
                   [] OTHER -> Bytes(f)],
      window |-> [s \in Slots |-> Absent],
      cr3 |-> KernelDirectory,
      phys |-> Phys!Reserves([first |-> 0, last |-> END_KERNEL, level |-> 0]),
      osi |-> {},
      fault |-> FALSE]

kdynamic_memory_init(m) ==
  map_page(Taken(m, 1), KernelDirectoryPage, P2V(HEAP_START), Allocated(m, 1), TRUE)
terminal_initialize(m) == map_page(m, KernelDirectoryPage, P2V(VGA), VGA, TRUE)

LastImagePage == P2V(END_KERNEL - 1)           \* mutant: one page less reserved
FIRST_VIRT == P2V(END_KERNEL)

Init ==
  /\ machine = terminal_initialize(kdynamic_memory_init(paging_init))
  /\ virt = FIRST_VIRT
  /\ regions = {}
  /\ heap = <<Allocated(paging_init, 1)>>
  /\ processes = <<>>
  /\ running = 0

-----------------------------------------------------------------------------
(* The callers, during the boot and while processes run.                   *)

AnyCaller == ~machine.fault                    \* mutant: programs call as well

\* Who may call: kernel_main, and a kernel task. A program makes system calls
\* only, and none of them comes here.
InKernelCode ==
  ~machine.fault /\ (running # 0 => ~processes[running].program)

HeapLeftWithOneMore == Len(heap) <= MAX_KERNEL_HEAP_SIZE    \* mutant
HeapLeft == Len(heap) < MAX_KERNEL_HEAP_SIZE

increase_memory_pool ==
  LET frame == Allocated(machine, 1)
  IN /\ InKernelCode
     /\ HeapLeft
     /\ frame # 0
     /\ machine' = map_page(Taken(machine, 1), KernelDirectoryPage,
                            P2V(HEAP_START + Len(heap)), frame, TRUE)
     /\ heap' = Append(heap, frame)
     /\ UNCHANGED <<virt, regions, processes, running>>

AcpiOsMapMemory(frame) ==
  /\ InKernelCode
  /\ Cardinality(regions) < MaxRegions
  /\ machine' = RegionMapped(machine, frame, 1)
  /\ regions' = regions \cup {[page |-> RegionPage(machine, 1), frame |-> frame]}
  /\ UNCHANGED <<virt, heap, processes, running>>

AcpiOsUnmapMemory(region) ==
  /\ InKernelCode
  /\ region \in regions
  /\ machine' = RegionUnmapped(machine, region.page, 1)
  /\ regions' = regions \ {region}
  /\ UNCHANGED <<virt, heap, processes, running>>

identity_map_page_in_kernel_addr(frame, rw) ==
  /\ InKernelCode
  /\ machine' = identity_map_page(machine, KernelDirectoryPage, frame, rw)
  /\ UNCHANGED <<virt, regions, heap, processes, running>>

\* Single pages come from the table of the image, as long as it has some.
VirtLeft == virt < P2V(ENTRIES) /\ Len(processes) < MaxProcesses

\* A kernel task runs in the kernel's directory, on a stack of its own that
\* is written through its mapping.
scheduler_create_kernel_task ==
  LET frame == Allocated(machine, 1)
      m == map_page(Taken(machine, 1), KernelDirectoryPage, virt, frame, TRUE)
  IN /\ InKernelCode /\ VirtLeft
     /\ machine' = Store(m, virt, ENTRIES - 1, KillAddress)
     /\ virt' = virt + 1
     /\ processes' = Append(processes,
          [cr3 |-> KernelDirectory, page |-> KernelDirectoryPage,
           stack |-> frame, program |-> FALSE, file |-> CHOOSE f \in Files : TRUE])
     /\ UNCHANGED <<regions, heap, running>>

\* The result of load_elf_file_in_process is not looked at: the process is
\* queued whether it has a program or not.
scheduler_load_process_in_new_address_space(file) ==
  LET cr3 == Allocated(machine, 1)
      a == map_page(clear_physical_page(Taken(machine, 1), cr3),
                    KernelDirectoryPage, virt, cr3, TRUE)
      stack == Allocated(a, 1)
      process == [cr3 |-> cr3, page |-> virt, stack |-> stack,
                  program |-> TRUE, file |-> file]
      b == load_elf_file_in_process(Taken(a, 1), process, file)
      c == map_kernel_inside_user(b, cr3)
      window == RegionPage(c, 1)
      d == RegionMapped(c, stack, 1)
      e == Store(d, window, ENTRIES - 1, KillAddress)
  IN /\ InKernelCode /\ VirtLeft
     /\ machine' = RegionUnmapped(e, window, 1)
     /\ virt' = virt + 1
     /\ processes' = Append(processes, process)
     /\ UNCHANGED <<regions, heap, running>>

\* Every switch reads the new directory through its page, in the address
\* space of the old process.
scheduler_set_page_directory(pid) ==
  /\ ~machine.fault
  /\ pid # running
  /\ machine' =
       IF Translate(machine.ram, machine.cr3, processes[pid].page).present
         THEN [machine EXCEPT !.cr3 = processes[pid].cr3]
         ELSE Fault(machine)
  /\ running' = pid
  /\ UNCHANGED <<virt, regions, heap, processes>>

Next ==
  \/ increase_memory_pool
  \/ \E frame \in AcpiFrames : AcpiOsMapMemory(frame)
  \/ \E region \in regions : AcpiOsUnmapMemory(region)
  \/ \E frame \in IdentityFrames, rw \in BOOLEAN :
       identity_map_page_in_kernel_addr(frame, rw)
  \/ scheduler_create_kernel_task
  \/ \E file \in Files : scheduler_load_process_in_new_address_space(file)
  \/ \E pid \in DOMAIN processes : scheduler_set_page_directory(pid)

Spec == Init /\ [][Next]_vars

-----------------------------------------------------------------------------
(* Properties.                                                             *)

Entries == [present : BOOLEAN, rw : BOOLEAN, frame : Nat]

\* Every piece of the state is in its range. [the variables of paging.c, of the
\* allocators and of the process table]
TypeOK ==
  /\ machine.ram \in [Frame -> [0..ENTRIES - 1 -> Entries]]
  /\ machine.window \in [Slots -> Entries]
  /\ machine.cr3 \in Frame /\ machine.phys \subseteq Nat /\ machine.osi \subseteq Nat
  /\ machine.fault \in BOOLEAN
  /\ virt \in FIRST_VIRT .. P2V(ENTRIES)
  /\ heap \in Seq(Frame) /\ Len(heap) \in 1..MAX_KERNEL_HEAP_SIZE
  /\ running \in 0..Len(processes)

View(cr3) == [p \in Page |-> Translate(machine.ram, cr3, p)]
Programs == {p \in ToSet(processes) : p.program}

Numbered(cr3) ==
  [p \in Page |-> LET e == Translate(machine.ram, cr3, p)
                  IN IF e.present THEN e.frame ELSE FRAMES]

Abstract == INSTANCE AddressSpaces WITH
  Pages <- Page, KernelPages <- KernelPage, Frames <- Frame,
  Windows <- OSI_START .. P2V(HEAP_START) - 1,
  Kernel <- KernelDirectory, NoFrame <- FRAMES,
  view <- [s \in {KernelDirectory} \cup {p.cr3 : p \in Programs} |-> Numbered(s)]

\* Every call changes the pages it names and no other, in the spaces it should:
\* the kernel's pages are the same in every address space, whatever tables were
\* added before or after a program was loaded. [paging.c:184-473]
ImplementsAddressSpaces == Abstract!Spec

\* No access of the kernel goes through a window that is closed, a page that is
\* not mapped or one that it may not write. [the slots 508 to 514, which calls
\* nest; scheduler.c:225, which reads a directory in another address space]
PagingNeverFaults == ~machine.fault

\* The frames that belong to a program: its directory, tables and pages.
LowTables(cr3) == {d \in 0..KERNEL_DIR - 1 : machine.ram[cr3][d].present}
TableFrame(cr3, d) == machine.ram[cr3][d].frame
LowFrames(cr3) ==
  {Translate(machine.ram, cr3, q).frame :
     q \in {q \in Page \ KernelPage : Translate(machine.ram, cr3, q).present}}
Owned(p) ==
  {p.cr3, p.stack} \cup {TableFrame(p.cr3, d) : d \in LowTables(p.cr3)}
                   \cup LowFrames(p.cr3)
KernelFrames ==
  {TableFrame(KernelDirectory, d) : d \in
     {d \in 0..DIRS - 1 : machine.ram[KernelDirectory][d].present}} \cup
  {Translate(machine.ram, KernelDirectory, q).frame : q \in
     {q \in KernelPage : /\ Translate(machine.ram, KernelDirectory, q).present
                         /\ q \notin {p.page : p \in Programs} \cup {r.page : r \in regions}}}

\* A program reaches no table, no directory, and no frame of the kernel or of
\* another program through its own pages. [paging.c:425-460, tar.c:353-369]
ProgramsIsolated ==
  \A p \in Programs :
    /\ LowFrames(p.cr3) \cap
         ({p.cr3, p.stack} \cup {TableFrame(p.cr3, d) : d \in LowTables(p.cr3)}) = {}
    /\ \A d, e \in LowTables(p.cr3) :
         TableFrame(p.cr3, d) = TableFrame(p.cr3, e) => d = e
    /\ Owned(p) \cap KernelFrames = {}
    /\ \A q \in Programs : Owned(p) \cap Owned(q) # {} => p = q

\* A file of one loadable segment, described by its last header.
Plain(file) ==
  file.valid /\ Len(Loadable(file)) = 1 /\ Last(file.headers).load

\* A program finds its file's bytes at the file's addresses, and an empty stack
\* below USER_STACK_TOP_ADDR, both of which it may write. [tar.c:353-369]
ProgramLoaded ==
  \A p \in {p \in Programs : Plain(p.file)} :
    LET base == virtual_base_addr(p.file)
        at == View(p.cr3)
    IN /\ \A j \in 0..memsz(p.file) - 1 :
            /\ at[base + j].rw
            /\ machine.ram[at[base + j].frame] = Bytes(p_offset(p.file) + j)
       /\ at[USER_STACK_PAGE].rw
       /\ machine.ram[at[USER_STACK_PAGE].frame] = Cleared

\* The directory in cr3 is the one of the current process, although each call
\* leaves the kernel's there. [paging.c:245, 266, 315 and scheduler.c:231]
CurrentSpaceLoaded ==
  machine.cr3 = IF running = 0 THEN KernelDirectory ELSE processes[running].cr3

\* What was mapped for good stays: neither the text screen, the kernel image nor
\* a page of the heap is replaced by another frame. [mem_constants.h:22-26, and
\* the range of the ACPI shim, osi_virt_mem_allocator.c:15]
FixedMappingsStay ==
  /\ \A f \in {VGA} \cup TEXT..END_KERNEL - 1 :
       Translate(machine.ram, KernelDirectory, P2V(f)).frame = f
  /\ \A i \in DOMAIN heap :
       Translate(machine.ram, KernelDirectory, P2V(HEAP_START + i - 1)).frame = heap[i]

\* A region that ACPICA has mapped is there until ACPICA unmaps it.
\* [osi.c:56-117]
RegionsStay ==
  \A r \in regions : Translate(machine.ram, KernelDirectory, r.page) = Entry(r.frame, TRUE)
=============================================================================
