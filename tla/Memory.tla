------------------------------- MODULE Memory --------------------------------
(***************************************************************************)
(* Physical frames and address spaces: the frame counters of arch/pmm.c    *)
(* over the bitmap of lib/bitmap.c, the page dictionaries of arch/paging.c *)
(* and arch/vmm.c, the ELF loader (kernel/elf.c), and the system calls brk,*)
(* mmap2 and munmap (syscall/sys_mem.c).  A process runs its system calls  *)
(* in its own dictionary and the frame allocator is locked, so that a call *)
(* is a step.  Addresses are bytes, with a page of PAGE_SIZE of them.      *)
(***************************************************************************)
EXTENDS Integers, FiniteSets, Sequences, FiniteSetsExt

CONSTANTS
  Slots,              \* processes that may exist at the same time
  KERNEL,             \* kernel_page_dict
  Ram,                \* frames from pmm_alloc_frame_start_addr on
  KernelFrames,       \* those before it, under the kernel's own pages
  PAGE_SIZE,
  PT_ENTRIES,         \* pages under one page table
  Images,             \* ELF files: sequences of loadable segments [vaddr, memsz]
  StackSizes,         \* total sizes of an initial stack
  STACK_TOP, HEAP_LIMIT, MMAP_START, MMAP_LIMIT,
  KERNEL_PAGE,        \* the page that kernel addresses start at
  MMIO_PAGES,         \* pages the kernel may map for devices
  BrkAddresses, MmapAddresses, Lengths,   \* arguments of the system calls
  NONE

\* Programs end at a multiple of 8, as userspace/link.ld aligns the end of .bss,
\* and leave room for the heap; initial stacks leave mmap's area alone.
ProgramAssumption ==
  /\ \A image \in Images :
       /\ image \in Seq([vaddr : Nat, memsz : Nat]) /\ image # <<>>
       /\ \A i \in DOMAIN image : image[i].vaddr + image[i].memsz + 8 <= HEAP_LIMIT
       /\ Max({image[i].vaddr + image[i].memsz : i \in DOMAIN image}) % 8 = 0
  /\ \A total \in StackSizes : total \in Nat /\ MMAP_LIMIT + total <= STACK_TOP
  /\ BrkAddresses \subseteq Nat /\ MmapAddresses \subseteq Nat /\ Lengths \subseteq Nat \ {0}

ASSUME MemoryAssumption ==
  /\ KERNEL \notin Slots /\ IsFiniteSet(Slots)
  /\ Ram \subseteq Nat /\ IsFiniteSet(KernelFrames) /\ Ram \intersect KernelFrames = {}
  /\ KernelFrames = 0 .. Cardinality(KernelFrames) - 1 /\ NONE \notin Nat
  /\ PAGE_SIZE \in Nat \ {0} /\ PAGE_SIZE % 16 = 0 /\ PT_ENTRIES \in Nat \ {0}
  /\ {HEAP_LIMIT, MMAP_START, MMAP_LIMIT, STACK_TOP, KERNEL_PAGE, MMIO_PAGES} \subseteq Nat
  /\ HEAP_LIMIT % PAGE_SIZE = 0 /\ MMAP_START % PAGE_SIZE = 0
  /\ HEAP_LIMIT <= MMAP_START /\ MMAP_START <= MMAP_LIMIT /\ MMAP_LIMIT <= STACK_TOP
  /\ STACK_TOP <= KERNEL_PAGE * PAGE_SIZE
  /\ ProgramAssumption

VARIABLES
  mem,       \* [count, bitmap, space, mmio_next, leaked, panic], below
  proc       \* slot -> [alive, brk_start, brk, brk_end, mmap_next]

vars == <<mem, proc>>

(***************************************************************************)
(* mem.count is pmm_access_count and mem.bitmap the set bits of pmm_bitmap;*)
(* mem.space maps each dictionary to its page tables and, page by page, to *)
(* its frames; mem.mmio_next is mmio_next_virt as a page, and mem.leaked   *)
(* counts the references that were overwritten.                            *)
(***************************************************************************)
Frames == Ram \union KernelFrames
Spaces == Slots \union {KERNEL}
MMIO_PAGE == KERNEL_PAGE + Cardinality(KernelFrames)
Pages == 0 .. MMIO_PAGE + MMIO_PAGES - 1
NoSpace == [tables |-> {}, map |-> [p \in Pages |-> NONE]]

PD_INDEX(p) == p \div PT_ENTRIES
page_get_num(size) == (size + PAGE_SIZE - 1) \div PAGE_SIZE
page_alligned_left(addr) == addr \div PAGE_SIZE
RoundedUp(addr) == page_get_num(addr) * PAGE_SIZE

pmm_set_alloced(m, f) == [m EXCEPT !.count[f] = @ + 1, !.bitmap = @ \union {f}]

(***************************************************************************)
(* An entry that is written over drops its frame without freeing it.       *)
(***************************************************************************)
Entered(m, s, p, f) ==
  LET old == m.space[s].map[p]
  IN  [m EXCEPT !.space[s] = [tables |-> @.tables \union {PD_INDEX(p)},
                              map |-> [@.map EXCEPT ![p] = f]],
                !.leaked = [g \in Frames |-> m.leaked[g] + IF g = old THEN 1 ELSE 0]]

\* The first zero bit from pmm_alloc_frame_start_addr on, or a panic.
page_dict_map_page(m, s, p) ==
  LET free == Ram \ m.bitmap
      f == Min(free)
  IN  IF m.panic \/ free = {} THEN [m EXCEPT !.panic = TRUE]
      ELSE Entered(pmm_set_alloced(m, f), s, p, f)

page_dict_map_page_to_phys(m, s, p, f) == Entered(pmm_set_alloced(m, f), s, p, f)

\* The pages that [start, start + size) touches, which are mapped from left to right.
PageCount(start, size) == page_get_num((start % PAGE_SIZE) + size)
Interval(start, size) ==
  page_alligned_left(start) .. page_alligned_left(start) + PageCount(start, size) - 1

page_dict_map_interval(m, s, start, size) ==
  LET mapped[i \in 0 .. PageCount(start, size)] ==
        IF i = 0 THEN m
        ELSE page_dict_map_page(mapped[i - 1], s, page_alligned_left(start) + i - 1)
  IN  mapped[PageCount(start, size)]

(***************************************************************************)
(* Giving up pages frees a reference of each frame that one of them holds. *)
(* An interval is unmapped from left to right too, up to a page that has   *)
(* no table.                                                               *)
(***************************************************************************)
Present(m, s) == {p \in Pages : m.space[s].map[p] # NONE}
References(m, s, pages, f) == Cardinality({p \in pages : m.space[s].map[p] = f})

Released(m, s, pages) ==
  [m EXCEPT !.count = [f \in Frames |-> @[f] - References(m, s, pages, f)],
            !.bitmap = {f \in @ : References(m, s, pages, f) \in {0} \union 0 .. m.count[f] - 1},
            !.space[s].map = [p \in Pages |-> IF p \in pages THEN NONE ELSE @[p]]]

page_dict_unmap_interval(m, s, start, size) ==
  LET bare == {p \in Interval(start, size) : PD_INDEX(p) \notin m.space[s].tables}
      done == {p \in Interval(start, size) : \A q \in bare : p < q}
  IN  [Released(m, s, done) EXCEPT !.panic = bare # {}]

(***************************************************************************)
(* A process starts with a deep copy of the kernel's dictionary, whose     *)
(* tables are its own and whose frames are counted once more; its          *)
(* destruction gives back a reference of every page, the kernel's too.     *)
(***************************************************************************)
\* Mutant: the frames of the copied entries are not counted.
page_dict_copy_uncounted(m, s) == [m EXCEPT !.space[s] = m.space[KERNEL]]

page_dict_copy(m, s) ==
  [m EXCEPT !.count = [f \in Frames |-> @[f] + References(m, KERNEL, Pages, f)],
            !.bitmap = @ \union {f \in Frames : References(m, KERNEL, Pages, f) > 0},
            !.space[s] = m.space[KERNEL]]

page_dict_destroy(m, s) == [Released(m, s, Pages) EXCEPT !.space[s] = NoSpace]

(***************************************************************************)
(* exec: _elf_load maps the segments over the kernel's copy, the stack     *)
(* follows, and the heap starts behind the image, where task.c:279 means   *)
(* to align by 8.                                                          *)
(***************************************************************************)
_elf_load(m, s, image) ==
  LET loaded[i \in 0 .. Len(image)] ==
        IF i = 0 THEN page_dict_copy(m, s)
        ELSE page_dict_map_interval(loaded[i - 1], s, image[i].vaddr, image[i].memsz)
  IN  loaded[Len(image)]

vmm_user_stack_create(m, s, total) == page_dict_map_interval(m, s, STACK_TOP - total, total)

HeapStart(image) ==
  LET end == Max({image[i].vaddr + image[i].memsz : i \in DOMAIN image}) + 7
  IN  end - (IF (end \div 8) % 2 = 1 THEN 8 ELSE 0)

task_create_user_process_from_elf(s, image, stack) ==
  LET loaded == vmm_user_stack_create(_elf_load(mem, s, image), s, stack)
  IN  /\ ~ mem.panic /\ ~ proc[s].alive
      /\ mem' = loaded
      /\ proc' = [proc EXCEPT ![s] =
                    [alive |-> TRUE, brk_start |-> HeapStart(image), brk |-> HeapStart(image),
                     brk_end |-> HeapStart(image), mmap_next |-> MMAP_START]]

Dead == [alive |-> FALSE, brk_start |-> 0, brk |-> 0, brk_end |-> 0, mmap_next |-> 0]

\* task_destroy_from_accumulator
Exit(s) ==
  /\ ~ mem.panic /\ proc[s].alive
  /\ mem' = page_dict_destroy(mem, s)
  /\ proc' = [proc EXCEPT ![s] = Dead]

(***************************************************************************)
(* brk: shrinking unmaps whole pages from brk_end down, growing maps from  *)
(* brk_end up.  An address below the start or above the limit is refused.  *)
(***************************************************************************)
\* Mutant: the end of what is mapped is not taken back when the heap shrinks.
sys_brk_forgetful(s, new_brk) ==
  LET t == proc[s]
      new_end == RoundedUp(new_brk)
      shrinks == new_brk < t.brk /\ t.brk_end - new_end >= PAGE_SIZE
      grows == new_end > t.brk_end
  IN  /\ ~ mem.panic /\ t.alive
      /\ t.brk_start <= new_brk /\ new_end <= HEAP_LIMIT
      /\ mem' = IF shrinks THEN page_dict_unmap_interval(mem, s, new_end, t.brk_end - new_end)
                ELSE IF grows THEN page_dict_map_interval(mem, s, t.brk_end, new_end - t.brk_end)
                ELSE mem
      /\ proc' = [proc EXCEPT ![s] =
                    [t EXCEPT !.brk = new_brk, !.brk_end = IF grows THEN new_end ELSE t.brk_end]]

sys_brk(s, new_brk) ==
  LET t == proc[s]
      new_end == RoundedUp(new_brk)
      shrinks == new_brk < t.brk /\ t.brk_end - new_end >= PAGE_SIZE
      grows == new_end > t.brk_end
  IN  /\ ~ mem.panic /\ t.alive
      /\ t.brk_start <= new_brk /\ new_end <= HEAP_LIMIT
      /\ mem' = IF shrinks THEN page_dict_unmap_interval(mem, s, new_end, t.brk_end - new_end)
                ELSE IF grows THEN page_dict_map_interval(mem, s, t.brk_end, new_end - t.brk_end)
                ELSE mem
      /\ proc' = [proc EXCEPT ![s] =
                    [t EXCEPT !.brk = new_brk,
                              !.brk_end = IF shrinks \/ grows THEN new_end ELSE t.brk_end]]

(***************************************************************************)
(* mmap2, anonymous: without an address the next free one is taken, and    *)
(* consumed even when it turns out to be past the limit; with one the      *)
(* pages there are replaced.  munmap of pages without a table panics.      *)
(***************************************************************************)
sys_mmap2(s, addr, len) ==
  LET t == proc[s]
      size == RoundedUp(len)
      at == IF addr = 0 THEN t.mmap_next ELSE addr
      fits == MMAP_START <= at /\ at + size <= MMAP_LIMIT
  IN  /\ ~ mem.panic /\ t.alive
      /\ addr = 0 => t.mmap_next <= MMAP_LIMIT
      /\ mem' = IF fits THEN page_dict_map_interval(mem, s, at, size) ELSE mem
      /\ proc' = IF addr = 0 THEN [proc EXCEPT ![s].mmap_next = @ + size] ELSE proc

sys_munmap(s, addr, len) ==
  /\ ~ mem.panic /\ proc[s].alive
  /\ addr % PAGE_SIZE = 0
  /\ mem' = page_dict_unmap_interval(mem, s, addr, RoundedUp(len))
  /\ UNCHANGED proc

\* vmm_map_special: the next pages of the kernel's device area.
vmm_map_special(f) ==
  /\ ~ mem.panic /\ mem.mmio_next < MMIO_PAGE + MMIO_PAGES
  /\ mem' = [page_dict_map_page_to_phys(mem, KERNEL, mem.mmio_next, f) EXCEPT !.mmio_next = @ + 1]
  /\ UNCHANGED proc

-----------------------------------------------------------------------------
(***************************************************************************)
(* vmm_init maps the kernel's own pages one to one.                        *)
(***************************************************************************)
Init ==
  /\ mem = [count |-> [f \in Frames |-> IF f \in KernelFrames THEN 1 ELSE 0],
            bitmap |-> KernelFrames, panic |-> FALSE,
            space |-> [s \in Spaces |->
              IF s # KERNEL THEN NoSpace
              ELSE [tables |-> {PD_INDEX(KERNEL_PAGE + f) : f \in KernelFrames},
                    map |-> [p \in Pages |-> IF p - KERNEL_PAGE \in KernelFrames
                                             THEN p - KERNEL_PAGE ELSE NONE]]],
            mmio_next |-> MMIO_PAGE, leaked |-> [f \in Frames |-> 0]]
  /\ proc = [s \in Slots |-> Dead]

\* What a program may unmap: its pages between the heap and the kernel.
Unmappable(addr, len) == MMAP_START <= addr /\ addr + RoundedUp(len) <= STACK_TOP

Next ==
  \/ \E s \in Slots :
       \/ \E image \in Images, total \in StackSizes :
            task_create_user_process_from_elf(s, image, total)
       \/ Exit(s)
       \/ \E a \in BrkAddresses : sys_brk(s, a)
       \/ \E a \in {0} \union MmapAddresses, len \in Lengths :
            sys_mmap2(s, a, len) \/ (Unmappable(a, len) /\ sys_munmap(s, a, len))
  \/ \E f \in KernelFrames : vmm_map_special(f)

Spec == Init /\ [][Next]_vars

-----------------------------------------------------------------------------
(***************************************************************************)
(* Every reference to a frame is counted: the counter of a frame is the    *)
(* number of entries that hold it and of those that were written over, and *)
(* its bit is set exactly while the counter is not zero.  So no frame is   *)
(* given out while an entry holds it, whatever the order in which          *)
(* processes are started and destroyed, and the kernel's never.            *)
(***************************************************************************)
Entries(f) ==
  Cardinality({e \in Spaces \X Pages : mem.space[e[1]].map[e[2]] = f})

FramesCounted ==
  \A f \in Frames :
    /\ mem.count[f] = Entries(f) + mem.leaked[f]
    /\ f \in mem.bitmap <=> mem.count[f] > 0

(***************************************************************************)
(* Address spaces are separate: a frame of user memory is in one entry of  *)
(* one dictionary only, and the pages of the kernel lead in every process  *)
(* where they lead in the kernel.                                          *)
(***************************************************************************)
SpacesSeparate ==
  /\ \A s \in Slots, p \in Pages :
       LET f == mem.space[s].map[p]
       IN  IF p < KERNEL_PAGE THEN f \in Ram => Entries(f) = 1
           ELSE f \in {NONE, mem.space[KERNEL].map[p]}
  /\ \A p \in 0 .. KERNEL_PAGE - 1 : mem.space[KERNEL].map[p] = NONE

\* Frames are counted and never shared between processes (pmm.c, paging.c).
FramesSound == FramesCounted /\ SpacesSeparate

(***************************************************************************)
(* What brk has granted is mapped: from the start of the heap up to brk    *)
(* every page is present, and none above it up to the limit.               *)
(***************************************************************************)
HeapMapped ==
  \A s \in Slots :
    proc[s].alive /\ ~ mem.panic =>
      LET t == proc[s]
      IN  /\ t.brk_start <= t.brk /\ t.brk <= t.brk_end
          /\ t.brk_start < t.brk =>
               Interval(t.brk_start, t.brk - t.brk_start) \subseteq Present(mem, s)
          /\ Present(mem, s) \cap (page_get_num(t.brk_end) .. HEAP_LIMIT \div PAGE_SIZE - 1) = {}
=============================================================================
