# Formal models of ExectOS

TLA+ models of the parts of ExectOS whose correctness depends on interleavings, on long sequences of
calls, or on data that two structures share; TLC configurations that check them on small instances;
and proofs, checked by TLAPS, that hold for every instance. Paths below are relative to the
repository (`src/` in `PROJECT.json`).

Contents: 1 the system, 2 the plan, 3 the modules, 4 the runs and their bounds, 5 fairness, 6 what
is proved, 7 what disagrees with the code's own words, 8 what is not modelled.

## 1. The system

ExectOS is a kernel (`xtoskrnl`, for amd64 and i686), a UEFI boot loader (`boot/xtldr`) and the
headers they share (`sdk/xtdk`). There are no tests in the repository; what the code is meant to do
is said in function comments and in comments inside the functions. At this commit the kernel
initialises the processor, memory, clock and interrupts, starts the other processors, and halts;
thread switching, waiting and timers are `UNIMPLEMENTED`.

| Component | State | Operations | Interacts with | Hard behaviour |
|---|---|---|---|---|
| MM, system PTEs (`mm/pte.cc`) | two pools of PTEs; a list of free clusters, linked through the entries, sorted by size; a count | `InitializeSystemPtePool`, `ReserveSystemPtes`, `ReleaseSystemPtes` | kernel stacks, pool expansion, hardware mappings; `SystemSpaceLock` | the list is edited while it is walked; entries zeroed outside the lock; owners write next to metadata |
| MM, physical pages (`mm/pfn.cc`, `mm/colors.cc`) | PFN database; list of free frames; lists by colour; available count | link, unlink, allocate, reference and share counts, free | the pool, kernel stacks, the boot memory map; `PfnLock` | two lists through one union; counts of a page and of its page table; two locks in use |
| MM, kernel stacks (`mm/kpool.cc`) | none of its own | allocate, free a stack; processor structures | PTEs, frames | no check that frames are left |
| MM, non-paged pool (`mm/alloc.cc`, `mm/pool.cc`) | lists of free page runs by size; start and end flags in the PFN database | allocate, free, expand, shrink | PTEs, frames; `NonPagedPoolLock` | coalescing in both directions, return of expanded pages |
| MM, pool blocks and tracking (`mm/alloc.cc`) | lists of blocks by size; tag table; table of big allocations | `AllocatePool`, `FreePool`, register and unregister | pool pages; their own locks | split and merge in a page; growth of a hash table in use |
| MM, hardware pool (`mm/hlpool.cc`) | descriptors of low memory | allocate, map, unmap | boot memory map | wrong cache attribute |
| MM, page maps and faults (`mm/*/pagemap.cc`, `pte.cc`, `pfn.cc`, `pfault.cc`) | page tables; the block frames are taken from at boot; PFN records | map a range, take a frame, describe memory and tables | everything that has an address | tables reached through a map of themselves, in four paging modes; order of mapping; frames given twice |
| KE, time (`ke/systime.cc`, `ke/shdata.cc`) | interrupt time, system time, tick count as three words each; `TickOffset`; boot time | `UpdateSystemTime`, `SetSystemTime`, lock-free reads | the clock interrupt; readers on any processor | torn reads; a retry loop inside an interrupt |
| HL, timers (`hl/x86/timer.cc`) | chosen devices and their frequencies; increment and its fraction; performance counters | selection, calibration, rates, clock interrupt, stalls, counters | KE time, PIC, ACPI | frequencies measured by one another; globals every processor writes; fractions on several processors; counters that must not go back |
| KE, synchronisation (`ke/spinlock.cc`, `ke/runlevel.cc`, `ke/sysres.cc`, `ex/rundown.cc`) | lock words, run level, list of resources, rundown counts | acquire, release, raise, lower | every component | order of locks, interrupt flag kept across a call |
| HL, processors (`hl/x86/cpu.cc`, `ke/*/krnlinit.cc`) | start block, processor blocks | `StartAllProcessors`, `BootstrapApplicationProcessor` | the pool, IPIs | a processor that starts after its timeout |
| HL, interrupts (`hl/x86/pic.cc`, `hl/*/irq.cc`) | APIC, I/O APIC and PIC registers, handlers, vectors | detect controllers, route an IRQ, send, begin and end an interrupt | devices, ACPI | priorities; registers written in several accesses while devices and handlers go on |
| HL, ACPI tables (`hl/acpi.cc`) | cache of tables, mappings, identities of processors | find, map, check and cache a table; count processors | firmware, hardware pool | tables that are longer than what was mapped first; damaged ones; mappings given back |
| HL and KD, screen (`hl/fbdev.cc`, `kd/dbgio.cc`) | frame buffer, shadow buffer, scroll region, cursor | initialise, put a character, scroll, copy a region | debug output | pitch, partial lines and columns; two buffers |
| KE, objects (`ke/kthread.cc`, `event.cc`, `dpc.cc`, ...) | threads, processes, queues | initialisation; a few state changes | dispatcher (unimplemented) | none yet |
| HL, CMOS clock (`hl/x86/rtc.cc`) | registers that change while they are read | get, set | RTL time | torn readings |
| RTL (`rtl/`) | none | lists, bitmaps, time, division, strings, formatted output, hashes | everything | lock-free list, boundaries of bitmaps, words and fields |
| Boot loader, memory (`boot/xtldr/memory.cc`, `arch/*/memory.cc`) | list of mappings, page tables | map, commit, firmware memory | boot modules, UEFI | the list changes while it is walked |
| Boot loader, modules and protocols (`protocol.cc`, `xtldr.cc`) | loaded modules, boot protocols | load with dependencies, register, boot | modules, menu | recursion, failures half way |
| Boot loader, configuration (`config.cc`) | global options, sections of the file | parse, merge, read and set options | menus, modules | precedence; names compared by beginning; allocation that fails half way |
| Boot loader, disks and images (`volume.cc`, `modules/pecoff/pecoff.cc`, `modules/xtos_o/xtos.cc`, `modules/chainldr`) | block devices, open volumes; images in memory | discover and name drives, open by ARC path, read a file; load, relocate, unload an image | UEFI, boot protocols | numbering of drives and partitions; failures that leak; fixups at the end of an image |
| Boot loader, menus and shell (`textui.cc`, `shell.cc`) | highlight and view, countdown, line buffer, history | keys, timer ticks | configuration, boot protocols | partial redraws; a key against the timer; edits in place |
| Boot loader, XTOS module (`modules/xtos_o/xtos.cc`) | the kernel's image and initialisation block | prepare memory, hand over | page map, kernel | failures that go unnoticed |
| AR, PO, boot sectors, drivers | processor registers | single instructions | hardware | none a model would show |

Components interact by plain calls and shared global state; spin locks with a raised run level are
the only synchronisation in use. Nothing is persistent, and no messages are exchanged but
interrupts.

What makes each component correct, and is or is to be stated as properties:

* PTEs: every entry belongs to exactly one owner; the list stays sorted, coalesced and readable; a
  release ends.
* Frames: a frame is in one place; both lists agree; counts agree with mappings; a freed frame can
  be used again; the pool never gets frame 0.
* Page tables: entries are found where the processor finds them; what is used is mapped by then; a
  frame that was given is in one place; records count what refers to a frame.
* Pool: runs of free pages are disjoint, maximal and flagged; blocks tile their page; the tables of
  allocations agree with what is allocated.
* Time: reads are not torn; no tick is lost; the handler ends; the wall clock keeps pace.
* Processors: each runs on structures and with a number of its own.
* Interrupts and timers: each line reaches the processor and vector it was given to last; the clock
  runs at the rate that is told of it, however its timer was measured.
* Synchronisation: exclusion, levels and interrupt flags restored, no use after rundown.
* Screen and ACPI: the screen shows the end of what was written; a table that is found is whole,
  checked and mapped.
* Disks and images: a path leads to the partition it names or nowhere; an image is the file's
  sections moved to its address; what fails holds no memory that nobody can free.
* RTL and loader: agreement with reference definitions; every module loaded after those it needs,
  once.
* Menus and shell: the screen shows what a key acts on; nothing is booted that should not be;
  options keep their values; a line is what was typed.

`PROJECT.json` lists the components with their status, and under `hazards` each place in the code
where one of these could fail.

## 2. The plan

1. `SystemPtes` (done, proved): the allocator everything else in memory management uses, with the
   abstract pool `PteSpace` that it implements.
2. `PhysicalPages` (done): frames and their users, implementing `FrameQueue`.
3. `SystemClock` (done): time across the clock interrupt, its readers and its setter.
4. `NonPagedPages` (done): free runs of pool pages with the flags of the PFN database, expansion and
   shrinking.
5. `PoolBlocks` and `AllocationTracking` (done): blocks that tile a page; tag and big-allocation
   tables against the set of allocations.
6. `KernelSync` (done): run levels, interrupts, resources; `Rundown` and `InterlockedList` (done):
   words that are exchanged; `PerformanceCounter` (done): counters that wrap.
7. `ProcessorStart` (done): `StartAllProcessors` and the processors it starts over the one start
   block, with its time limit; `HardwarePool` (done): low memory and device mappings.
8. `BitMap`, `LinkedLists`, `RealTimeClock`, `Division`, `TextFormat`, `Strings` (done):
   the runtime library and the CMOS clock against reference definitions.
9. `LoaderMemory`, `LoaderModules`, `BootSequence` (done), composed in `BootLoader`: from the list
   of modules to the entry of the kernel.
10. `BootConfiguration`, `BootMenu`, `LineInput` (done), added to `BootLoader`: what its user sees
    and types.
11. `PageTables` (done), added to `KernelServices`: the tables and records the boot makes.
12. `Screen`, `AcpiTables`, `InterruptRouting`, `TimerSetup` (done), added to `KernelServices`: the
    devices and the firmware.
13. `PeImage`, `BlockDevices` (done), added to `BootLoader`: what is booted, and from where.
14. Proofs (done, section 6): `SystemPtes` with the refinement of `PteSpace`, `SystemClock`,
    `KernelSync`, `Rundown`, `InterlockedList`, `ProcessorStart`, `PerformanceCounter`,
    `NonPagedPages`, `PoolBlocks`, `PhysicalPages` with the refinement of `FrameQueue`,
    `HardwarePool`, `AllocationTracking`, `InterruptRouting`, `AcpiTables`.
15. Proofs still to be written: `PageTables` and the other parts of `SetUpSound`.

A violating run is written only where a comment of the code is contradicted. `LoaderMemory` and
`BootSequence` declare `RECURSIVE` operators, since lists are edited by recursion there, and stay
with TLC; no module that is to be proved about reaches them.

## 3. The modules

### SystemPtes, PteSpace

`SystemPtes` models `mm/pte.cc`. A pool is `0 .. PoolSize - 1`, one more entry stands for whatever
lies behind it. `freeList` is the list of clusters in link order: `NextEntry` of one entry is the
next element, so walking and relinking become positions and `RemoveAt`/`InsertAt`. That the links
and sizes, which the code keeps in the first two entries of a cluster, are still there when the list
says so is not assumed but checked: `pte` records who wrote an entry last (`list`, `map` for an
owner, `zero`), and `MetadataIntact` compares the two.

`ReserveSystemPtes` holds the lock throughout and does not touch entries of others except by its
clean-up, so it is one action with two cases, exact and split. `ReleaseSystemPtes` is four kinds of
step: zeroing before the lock, taking the lock and counting, one step for each turn of the loop
(`MergeCluster`, `PassCluster`), and linking with the release of the lock. `MapPte` is an owner's
write, without a lock, as in `kpool.cc` and `alloc.cc`. Callers release the block they reserved,
whole.

`PteSpace` is the promise to callers: a set of free entries, of which a reservation takes the upper
end of a best-fitting run. The refinement maps the clusters and the block being linked to the free
set.

### PhysicalPages, FrameQueue

`PhysicalPages` models the free-frame part of `mm/pfn.cc` and `mm/colors.cc` with its users. Fields
of `MMPFN` that share storage share a field here: `u2` is the back link or the share count, `prev`
(`u4.PteFrame`) the colour back link or the page table, `next` (`OriginalPte`) the colour link that
stays behind in an active frame. The tail that `UnlinkFreePage` leaves as a number where a pointer
belongs is kept distinct (`Cast`). `Ambiguous` names the frames whose number, left in `OriginalPte`
and read as an entry, has the transition bit.

Actions: linking at boot (`ProcessMemoryDescriptor`), expansion of the pool and allocation of a
stack frame by frame (`ExpandPool`, `AllocateKernelStack`, `AllocatePhysicalPage`, `TakeFrame`), and
freeing frame by frame (`StartFree`, `FreePoolFrame`, `FreePhysicalPage`). The choice of a frame and
its removal are two steps, because the two users hold different locks. Locks are represented by what
they exclude: one allocation or free of a kind at a time. `Panic` stops the system. Frame 0 is taken
to belong to the firmware; it is the value that stands for "no frame".

`FrameQueue` is the promise: one queue, served by colour in turn.

### SystemClock

`SystemClock` models `HandleClockInterrupt`, `UpdateSystemTime`, `SetSystemTime` and the accessors
of `ke/shdata.cc`. `shared` holds the three words of each time, `now` the time they stand for (it
changes with the low part; a history variable, as are `from`, `upto` and `back`, which bound what a
read may return). Each load and store of a word is a step, in program order: the fields are volatile
and x86 keeps that order. The tick count is read in one load, as on amd64 (i686 needs two). The
handler is an actor of its own; a thread of the boot processor takes no step while it runs, and it
does not start while that thread is at `HIGH_LEVEL`. `LocalClock` is the case of the APIC timer,
where the other processors start timers of their own and add to the one `RunningFraction`; an
unlocked addition may be lost.

### NonPagedPages

`NonPagedPages` models `AllocateNonPagedPoolPages`, `FreeNonPagedPoolPages` and
`InitializeNonPagedPool`. Pages are numbered by address in the layout of `mm/amd64/mmgr.cc`: the
last page of the PFN database, the initial pool, a page that is never mapped, the expansion pool.
`lists` is `NonPagedPoolFreeList`; `size` and `owner` are what the code writes into free pages, and
they become `Junk` when a caller gets the page, so that nothing can be read from a page in use.
`starts` and `ends` are the flags `ReadInProgress` and `WriteInProgress`.

An allocation is `TakeFromList` (one hold of `NonPagedPoolLock`), or `SearchFails`, `ReservePtes`,
`MapPages`, between which other processors act. A free is `CountPages`, without the lock, and
`FreePages`. The reservation takes any run of free PTEs that is long enough: the promise of
`PteSpace`, so the module does not depend on the order of the list in `mm/pte.cc`. Frames are a
count, since which frames they are is the matter of `PhysicalPages`. A caller frees what it was
given, by its first page. The stray clear of `mm/pte.cc:482` (section 7) is left out here: if it
happened, a page of a neighbouring expansion block would vanish.

### PoolBlocks

`PoolBlocks` models `AllocatePool` for requests smaller than a page, `FreePool`, and the checks
`VerifyPoolBlocks` and `VerifyPoolHeader`. `header` is the `POOL_HEADER` at every unit of a page;
units that a caller may write are `NoHeader`, a header that fails every check. `lists[l]` is
`ListHeads[l]`; that its links are sound (`VerifyPoolLinks`) follows from its being a sequence. An
allocation looks at one list after another without the lock (`NextList`), takes a block under it
(`TakeBlock`), or gets a page that nobody else knows (`AllocatePage`), lists its remainder under the
lock (`ListFreshPage`) and checks the page once more without it, a header at a time
(`VerifyFreshPage`). A free is one step under the lock, followed by `ReleasePage` when the whole
page is free. `VerifyPoolBlocks` follows the sizes of the blocks (`Follow`) until it meets the end
of the page, and a block that is merged is taken out of its list where it is found (`RemoveEntry`,
`UnlistEach`). `touched` is a history variable: another processor worked on the page while it was
checked. Requests of whole pages and the counters of the pool are left out.

### AllocationTracking

`AllocationTracking` models the books of `mm/alloc.cc`: `RegisterAllocationTag` and
`UnregisterAllocationTag` with the expansion table and the overflow bucket, the table of big
allocations with its growth, and how `AllocatePool` and `FreePool` call them. `books` is what the
tag tables hold, `small` and `charged` are the allocations that exist (history variables, against
which the books are checked). `TagTables` is only filled for processor 0 in this commit, so one
processor keeps the books and every registration is one step. `stuck` marks the one case in which
the code takes a lock it holds: growing the expansion table registers the growth. Tags are
finitely many, a tag of zero is no tag, and callers do not use `BigA`, the tag by which the books
tell big allocations they had no room for.

### HardwarePool

`HardwarePool` models `mm/hlpool.cc`: `descriptors` are the loader's memory descriptors, which
`AllocateHardwareMemory` splits; `mappings` and `heapStart` the range of addresses at the end of the
address space. The address after the last page is 0, and the code compares addresses, so a run of
pages may go on past the end; `wrapped` records it, and nothing more happens in that range. The
memory descriptors of the boot loader are in order and do not overlap, as it sorts them
(`LoaderMemory`), and none of them is of hardware memory yet.

### PageTables

`PageTables` models what `InitializeMemoryManager` makes of memory: the address functions of
`mm/*/pagemap.cc`, the tables of the boot loader, `MapKernelSharedData`, `InitializePageTable`, the
PTE pools, the non-paged pool, the PFN database with `ScanMemoryDescriptors`,
`ProcessMemoryDescriptor` and `ScanPageTable` (`ScanEntries`: what it counts of the entries below a
point), and last the low page of `AllocateRealModeMemory`. A `pageFormat` has the levels of one
paging mode, the bits of its indexes, entries and addresses, where the entries of each level are,
and the layout. `pageTables.mem` is physical memory, the entries of each frame; an entry is a frame
number or `Absent`. Whatever the code reads or writes at an address goes through `FrameAt`, the walk
the processor makes, and faults when nothing is there; so tables that are not mapped yet cannot be
filled by mistake. `base` and `count` are the free descriptor the frames are taken from, `given` and
`late` a history of what was taken. All runs on one processor with interrupts off: a step is a call
of `InitializeMemoryManager`, and the only choices are the paging mode and the memory.

### KernelSync

`KernelSync` models what interrupts what. Each processor has a run level (CR8), an interrupt flag,
the requested and in-service vectors of its local APIC, a stack of handlers and a mainline.
`DispatchInterrupt` is the processor's, the rest the code's: `BeginSystemInterrupt`,
`ProfileExpires`, `HandleClock`, `EndInterrupt`, `HandleApicErrorInterrupt`; in the mainline run
level guards, code that disables interrupts, and `GetSystemResource` and `ReleaseResource` with
`ResourcesLock` and the interrupt flag, a step for each change another actor can see. What runs with
interrupts disabled and touches nothing shared is one step.

### PerformanceCounter

`PerformanceCounter` models the queries of `hl/x86/timer.cc` for the PIT, whose wraps the clock
interrupt counts, and the ACPI PM timer, whose wraps the queries count, and the busy waits that add
up distances between samples. `now` is the real time; `missed` and `skipped` record when the
hardware lost a wrap, for which the code is not to blame. `queried` is the time at which a query read
the timer: until a wrap is lost, its answer is that time or one wrap less (`CounterTracksTime`).

### Rundown, InterlockedList

`Rundown` models `ex/rundown.cc`: one word, read and then exchanged if it is unchanged, by any
number of threads, and its owner, who completes and re-initialises it. Since
`WaitForProtectionRelease` is `UNIMPLEMENTED`, the owner only completes when it knows that nobody
holds a reference. `InterlockedList` models push, pop and flush of `rtl/atomic.cc` with every read a
step. `stale` marks the known limit of the algorithm: the header is compared by its address alone.
The entries in the list are those of the smallest set that holds the first one and what each links
to (`Chain`).

### ProcessorStart

`ProcessorStart` models `StartAllProcessors` on the boot processor, with its failures, and on each
processor it starts the trampoline, `BootstrapApplicationProcessor` and
`HL::Cpu::InitializeProcessor` up to the report. The start block is one for all. A processor that
does not answer is given up; that it wakes later is possible in the model, and `givenUp` tells which
states come of it.

### InterruptRouting

`InterruptRouting` models how `hl/x86/pic.cc` sets up what leads interrupts to a processor:
`DetectIoApicControllers` over the entries of the MADT with their overrides, `InitializeIOApic`, the
allocation of a vector and the redirection entry of an IRQ, which is masked before its two halves
are written, and the command register of interprocessor interrupts, written in two halves by code that
a handler of the same processor may interrupt. Controllers and overrides are kept as the positions of
their entries in the MADT, of which the first that fits is used. Devices assert their lines at any
time, so that what matters of an entry must hold between any two writes; `given` is a history of what
was asked for. `MadtAssumption` is what ACPI demands of the firmware: no interrupt is on the lines of
two controllers. The code relies on it, as it looks for the first controller that covers a number.

### TimerSetup

`TimerSetup` models `InitializeTimer` of `hl/x86/timer.cc` and what follows it: capabilities, the
choice of the interrupting timer and of the performance counter, calibration of one by another,
`HlSetClockRate`, `SetProfileInterval`, and `InitializeLocalClock` on other processors. `timers` is
the globals, `timerDevices` what the devices were told. A measurement may come out wrong by the time
the wait notices its end too late (`MaxLate`); a frequency that does not fit a `ULONG` wraps.

### Screen, AcpiTables

`Screen` models `hl/fbdev.cc` character by character, on pixels as they lie in memory: clearing,
drawing of a glyph, line wrap, tabs, scrolling, with the frame buffer alone or with a shadow of
which regions are copied. `terminal` is the text as it should look. `AcpiTables` models
`hl/acpi.cc`: the RSDP and the root table, the query of a table by its signature through the cache,
its mapping with two pages first and with as many as it needs then, its checksum, and the processors
of the MADT. The range of addresses is that of the hardware pool, here with the physical page of each
(`vaMap`). An operation of several queries (`toFind`) takes a step for each. `FirmwareAssumption` says
what a table record is: lengths and addresses, whether signature or checksum hold (`good`), one table
of a kind behind the FADT; nothing about which tables there are, where, how long or how damaged.

### BitMap, LinkedLists, RealTimeClock, Division, TextFormat, Strings, RuntimeServices

`BitMap` models `rtl/bitmap.cc` on words of bits, against the set of bits the callers have set:
`Written` is what `SetBits` and `ClearBits` write as first part, bytes and rest, `CountBits` and
`FindBits` the search; `SingleBit` has the shift of an `int`. `LinkedLists` models `rtl/llist.cc`
and `rtl/slist.cc` by links, against sequences. `RealTimeClock` has the conversions
of `rtl/time.cc` as operators, with a calendar that goes on second by second to compare them with,
and models `hl/x86/rtc.cc` register by register, against a clock that goes on between the reads. `Division` has
the shift-and-subtract division of `rtl/math.cc` that the compiler calls for every 64-bit quotient
of the i686 kernel, on numbers of two words; an undefined shift may return anything. `TextFormat`
has the formatted output of `rtl/widestr.cc`: what a specifier makes of its flags, width and
precision, what each kind of value is written as, with the length its field is computed from
beforehand, and which slots of the argument list a sequence of specifiers takes. `Strings` has the
operations on strings, which `rtl/string.cc` and `rtl/widestr.cc` repeat for narrow and wide
characters; what their comments promise is stated with three exceptions, named and listed in
section 7. Its variables, like the dividend of `Division` and the style of `TextFormat`, are
inputs: each state is one that is tried, and the invariant compares what the code makes of it with a
reference. `RuntimeServices` exercises one of the seven in a behaviour, since they share nothing.

### KernelServices

`KernelServices` composes the services of the kernel that share no state: a behaviour exercises one
of them, chosen in `Init`. Interleaving them would multiply states and show nothing, because none
reads what another writes. What they have in common with the memory modules, a spin lock, is an
atomic step there.

### LoaderMemory, LoaderModules, BootSequence, BootLoader

`LoaderMemory` has `MapVirtualMemory` and `MapEfiMemory` of the loader's `memory.cc` as operators on
the list of mappings; an edit that is refused half way yields the list as far as it was edited.
`LoaderModules` models `LoadModules`, `LoadModule` with its stack of calls, `RegisterBootProtocol`
and `InvokeBootProtocol`. `BootSequence` models `RunBootSequence` of the XTOS module with the page
map of `arch/amd64/memory.cc`: every request in its order, page tables built by walking the list,
which the walk itself extends, and the failures that nobody asks about (`ignored`). `taken` has every
page that firmware allocated in the sequence (`AllocatePool` aside), among them those of the kernel's
file, which stay allocated (`kernelFile`). `BootLoader`
composes them: the modules that were loaded are the images `BuildPageMap` keeps in place, and a
system boots when its protocol is registered. Firmware (which pages it hands out, in which order it
describes memory) is a choice in `BootInit`.

### BootConfiguration, BootMenu, LineInput

`BootConfiguration` models `config.cc` from the sections of the file on: `UpdateConfiguration` takes
one option a step into `config`, first those of the command line and then those of the section
`XTLDR`; `sections` is the boot menu. `SetBootOptionValue` may fail to allocate, and then leaves a
freed value. `BootMenu` extends it with `DisplayBootMenu` and `DisplayEditMenu` of `textui.cc`: an
action for each key, and the ticks of the timer. `menuRows` and `editRows` are what was drawn, row
by row, so that a redraw of two rows is told from one of all. The events of a menu that is not in
front are not waited for in the code and are disabled in the model. `LineInput` models the input
dialog and the command line of the shell with the buffers as arrays: moves of characters,
terminators and lengths are those of the code, `ideal` is the text that an editor without a buffer
would have. What the menu passes to a dialog and takes from it is a choice of values in
`EditOption`; `LineInput` shows that a dialog returns the text as it was edited.

### PeImage, BlockDevices

`PeImage` models `modules/pecoff/pecoff.cc` on cells that stand for words: reading of a file and its
checks, the layout of the sections, relocation once and again, unloading, and what each failure
leaves allocated (`held`). `BlockDevices` models `volume.cc`: the devices the firmware has handles
for, their kinds and numbers, the mark of the partition booted from, memory that runs out at each of
them, ARC paths, opening a volume and reading a file, and with it how the
XTOS module (`BootSystem`) and the chain loader boot from a path, more than once when an attempt
fails.

In `BootLoader` the menu, the lines, the images and the disks run in behaviours of their own
(`task`): booting takes from them no more than which entry was chosen, which `LoaderModules` leaves
open, and an image, which `BootSequence` takes as loaded.

### Proof modules

`SequenceEdits` has the lemmas on `RemoveAt` and `InsertAt`, on quotients and rests, and the
least-number principle. Each of `SystemPtesProofs`, `PhysicalPagesProofs`, `SystemClockProofs`,
`NonPagedPagesProofs` and `PoolBlocksProofs` has the proofs about its module. `KernelSyncProofs` has
those about what the processors share, `KernelSync`, `Rundown`, `InterlockedList`, `ProcessorStart`
and `PerformanceCounter`, and about the hardware, `HardwarePool` and `InterruptRouting`.
`KernelServicesProofs` has those about `AllocationTracking` and the composition `KernelServices`
(section 6).

Sets under which a run is symmetric are defined at the end of their modules. The `MC` modules only
add constants that are records or sequences.

## 4. The runs

| Run | Instance | Shows |
|---|---|---|
| `system_ptes` | 2 processors, 5 PTEs, requests of 1, 2, 3 | `TypeOK`, `PtePartition`, `FreeListSorted`, `FreeListCoalesced`, `MetadataIntact`, refinement of `PteSpace` (`ImplementsPool`), `ReleaseTerminates` |
| `system_ptes_stray` | 1 processor, 4 PTEs | `ReserveKeepsMappings` fails |
| `physical_pages` | 6 frames, 2 colours, pool blocks of 4, stacks of 1 and 2, 3 blocks, 1 processor | `ColorsThreadFreeList`, `FramesConserved`, `CountsAgree`, `PoolFramesReal`, `PanicsExplained`, refinement of `FrameQueue` (`ImplementsQueue`) |
| `physical_pages_race` | the same, 2 processors | `PicksExclusive` fails |
| `physical_pages_leak` | 1 processor | `FreedFramesReturn` fails |
| `system_clock` | 2 processors, low part of 2 values, times up to 4, fraction 1/2 | `ReadsUntorn`, `TickCountExact`, `UptimeKept`, `InterruptEnds` |
| `system_clock_drift` | period 2 1/2, times up to 12 | `TicksMatchIncrements` fails |
| `non_paged_pages` | 2 processors, initial pool of 4 pages, expansion of 5, 4 frames, 3 lists, blocks above 2 given back, requests of 1 and 3 | `RunsTile`, `RunsFiled`, `BlocksMarked`, `ExpansionAccounted`, `ExpandsOnlyWhenNeeded` |
| `kernel_services` | `KernelServices.cfg`, see below | `SyncSound`, `TimeKept`, `CounterMonotonic`, `LockFreeSound`, `TrackingSound`, `MappingsSound`, `RuntimeExact`, `SetUpSound` |
| `bit_map_overlap` | 7 bits in words of 4 | `RegionsAlike` fails |
| `boot_loader` | 5 modules, 5 lists, 5 memory maps, one failure; 2 command lines, 3 files, boxes of 2 rows, lines of 3 and 4 characters; 5 images; 3 machines with disks | `ModulesInOrder`, `MemorySound`, `ConsoleSound`, `FilesSound`, `LoadingEnds` |
| `pool_blocks` | 2 processors, 2 pages of 7 units, requests of 2, 3 and 6 | `BlocksTile`, `ListsComplete`, `FreeCoalesced`, `PagesReturned`, `PanicsExplained` |

Why the bounds are enough. Five PTEs hold up to three free clusters at once, with a cluster to merge
on each side of a released block, single and longer clusters, and two releases in flight. Six frames
of two colours make lists of up to three frames by colour, so that frames are unlinked with and
without neighbours; blocks of four are the smallest the pool gives back; two stacks and the pool run
out of frames, so that frame 0 is handed out, and one ambiguous frame lets the transition check
fire. A low part of two values carries with every second increment, and times up to 4 carry twice,
the least at which a high part can be read before one carry and after the next. In `physical_pages`,
one processor suffices because the pool and the stacks meet in the same lists one after the other;
the case of two is the violating run.

In `non_paged_pages`, `MM_MAX_FREE_PAGE_LIST_HEADS` is 3 instead of 4 and the limit above which
expansion blocks go back is 2 instead of 3, so that a pool of four pages has a run in the last list
that grows without moving; the code compares with these constants and does nothing else with them.
Five PTEs allow one block that goes back and two that stay and merge; four frames, that an expansion
finds too few left. In `pool_blocks`, seven units hold three blocks of requested sizes with or
without a free unit left over, requests of six leave a remainder of one unit, and with two pages one
can fill, empty and come back while the other is in use.

In `kernel_services`, two processors take one resource and get clock, clock IPI and error
interrupts, so that a handler interrupts another one at each part of the mainline. The PIT wraps
every 2 ticks and the PM timer every 3, 6 ticks pass: each wraps more than once in a query and
between two; a wait of 4 spans a wrap. Three users of rundown protection and three entries of the
interlocked list are the least for an exchange that fails because of two others. Three processors
are started with two structures, so that one is given up, its structures are used again, and the
allocation fails. The tag table has two slots for four tags, the table of big allocations grows once
from two, and the expansion table from nothing to its bound. The hardware pool has four descriptors,
aligned and unaligned requests, and six pages of addresses, one of them taken by others. The page
maps are those of all four modes, with tables of 8 entries (32 with two levels); the regions of the
layout are in the order of the code and so small that each spans one to three tables. PAE comes with
pools of 3 and 4 pages, so that in one case the pool ends where a page table ends; of the two
memories one has 34 pages in its free block, and one 20, which run out in the middle of the boot of
amd64. Every table of the address space and every page in use is tried as an address, at every step.
Words have 4 bits, bytes 2 and an `int` 3, less than a word as on amd64. The calendar runs for 800
days from New Year of years that precede or contain every kind of boundary: leap days, the ends of
4, 100 and 400 years, the epochs, and the last year accepted; a day has 8 seconds, for the range to
fit TLC's integers. The CMOS clock starts in the hours before noon and before a century ends, is set
once, and is updated twice in an hour of 3 seconds, that is, a call is shorter than a minute;
readings are retried once instead of 100 times. A word of `Division` has 4 bits, so that all 256
dividends meet all divisors: every distance between their leading bits occurs, and every path. A
byte of `TextFormat` has 2 bits, ten is 4 in its floating point (the digits of any even base round
and carry alike), and its values are those around powers of the base and half-way points, with every
combination of flags, precisions up to 3 and fields that are too short, fitting and longer. Strings
have up to 3 characters out of a blank and two letters in both cases, which is enough for every pair
to differ, overlap or repeat; numbers up to 4 characters out of blank, signs, digits and prefixes,
so that they overflow.

Five displays are one line and two high, with a pitch of the width and above it, with and without a
last column that a glyph does not fit into. Eight firmwares have tables of one to three pages of 4
units, damaged and old ones, a root that is bad, missing or too long, and a MADT that breaks off; the cache holds four
of six tables (`MaxCached`), and ten pages of addresses in two ranges run out. Five boards have none
to two I/O APICs with overrides before, between, behind and over the maximum of two, in both modes
of the APIC; two requests and two interrupts sent (`MaxGiven`, `MaxSends`) overlap at every half of
a register. The twelve machines of `TimerSetup` have each timer absent, present, broken or chosen on
the command line; frequencies are scaled to 4 interrupts a second and a `ULONG` to 8 bits, so that
products wrap, and a measurement may be off by an eighth.

The services of `RuntimeServices` are the slowest to check because their behaviours are long.

In `boot_loader`, two modules share a dependency (in the repository only `xtos_o` has any, `acpi`,
`framebuf` and `pecoff`, but any module file may name some); lists name a module twice, a
dependency first, or `xtos` (a module of the instance only) before `xtos_o`, whose name begins
with it (`Prefixes`), so that it is taken for loaded; one module cannot be read or started, at any point. The memory maps are one with
room when pages are taken from the top, one in another order with reserved ranges and room either
way, two in which pages are scarce and run out at different points, and one with page 0 in use,
which is refused at once; the kernel's file is one page (`FilePages`) and its image two; a table maps
32 pages, so that a mapping spans two tables, and 8 descriptors fit in a page. The menus have three entries and
three options in boxes of two rows (`BoxRows`), so that views scroll and fill; one option is set
(`MaxEdits`), which may be one the entry has, has twice or lacks. The files have the section of the
loader between others, only entries, and nothing; the command line says the same thing twice and
contradicts the file. The shell's buffer holds three characters and a zero (`BufferSize`), the
dialog's four: two words fit, or one with spaces before and behind it. The history keeps two lines
(`HistorySize`), so that it fills and shifts; the code's 20 lines of 255 characters take no step
that these do not. Dialogs are opened before the first command only, since they and the history have
nothing in common. The images have 28 cells in pages of 4, with fixups of each kind in the first and
the last cells of sections, in the relocations themselves and at the end of the image; words have 64
and 32 values, so that a relocation wraps. The machines have two disks of two partitions with a
floppy and a CD, partitions out of order or without a first one, and memory disks; drive numbers are
taken modulo 4, and an entry is tried twice (`MaxTries`).

`physical_pages` and `pool_blocks` say `CHECK_DEADLOCK FALSE`, because a panic stops the system;
`kernel_services` because services end (all processors are started, time is up, the calendar has
gone its days), and `boot_loader` because the kernel is entered, from the menu or in the sequence,
or the sequence has failed. All other passing runs check for deadlock. The symmetries are sound:
blocks, processors and pages of `PoolBlocks` and of the other two are names only, and the runs that
use a symmetry have no liveness property.

`TypeOK` is a conjunct of one invariant of each of `physical_pages`, `system_clock`,
`non_paged_pages` and `pool_blocks`. The composed runs state one invariant for each service, which
is the conjunction of named parts in its module (`SyncSound` is `InterruptsNest` and
`ResourcesSafe`, `LockFreeSound` those of rundown protection, the interlocked list, the start of
processors and the routing and sending of interrupts, `SetUpSound` is `TablesSound` with its six
parts and those of the screen and the timers, `MemorySound` that of the list of mappings and of the
hand-over, `FilesSound` those of images and disks, `MappingsSound` those of the hardware pool and of
the ACPI tables,
`ConsoleSound` is `PrecedenceKept`, `OptionsKept`, `RowsCurrent` and `CountdownHonest` of the menu
and `BufferExact`, `LineShown`, `HistoryExact` and `ArgumentsExact` of lines, and so on).

Some invariants have a premise, a history variable that is false in the ordinary course of events,
and true after something the code cannot help or is known not to bear: a clock interrupt lost by the
hardware (`missed`, `skipped`), a processor that wakes after it was given up (`WokeLate`), an
exchange for a stale link (`stale`, after which the list is not followed), a region that `CountBits`
did not look at in full (`unseen`) or the shift of an `int` (`widened`), an unnoticed failure of a
mapping (`ignored`). The mutants are found in states in which the premise holds.

Every property has a mutant in `PROJECT.json`, a plausible slip in the code that breaks it.

## 5. Fairness

* `SystemPtes`: weak fairness of the steps of a processor inside the loop of a release. It holds
  `SystemSpaceLock` with the run level at `DISPATCH_LEVEL`, so it is not preempted. Nothing is
  assumed about callers or about who gets the lock.
* `SystemClock`: weak fairness of the handler. Nothing in the model interrupts it. Nothing is
  assumed about readers or about interrupts arriving.

* `BootLoader`: weak fairness of the steps of `LoadModules` and the calls it makes. The loader is
  one sequential program with the machine to itself. Nobody has to choose a menu entry, and nothing
  is assumed about failures.

Liveness is checked by TLC only.

## 6. What is proved

TLAPS checks every step of every proof. Each invariant was confirmed by TLC on the instance of its
run before it was proved.

### SystemPtes

`SystemPtesProofs` proves, for every pool size of at least 2, every set of processors and every set
of request sizes (`PoolSizeAssumption`, `RequestsAssumption`, `NoCpuAssumption`):

* `TypeCorrect`: `Spec => []TypeOK`;
* `NoPteSharedOrLost`: `Spec => []PtePartition`;
* `ListStaysSorted`: `Spec => []FreeListSorted`;
* `ListStaysCoalesced`: `Spec => []FreeListCoalesced`;
* `LinksSurvive`: `Spec => []MetadataIntact`.

They follow from `Invariance`, `Spec => []IInv`. The five properties together are not inductive, for
three reasons. The walk of a release carries promises of its own: no cluster before its position
touches the block it has gathered, and its insertion point, when it has one, is the first cluster
before its position that is not smaller. Without them nothing says that the block linked at the end
fits in. The lock must exclude: a walk is only under way at the processor that holds the lock, and a
reservation only happens when nobody does. And an entry's contents must follow from where it is, for
`MetadataIntact` under the writes of others. `IInv` adds these to the properties. The proof has a
step for each action, and below it one for each conjunct the action can disturb; partition arguments
are stated on sets of blocks, list arguments on positions with the lemmas of `SequenceEdits`. The
count `total` stays in `0 .. PoolSize` because it is tied to the number of entries of the parts.

`ListImplementsPool` proves the refinement, `Spec => ImplementsPool`. Because the list is coalesced,
its clusters are the maximal runs of free entries, and because it is sorted, the first that fits is
a best fit: so each reservation is one of `PteSpace`. Merging, passing on and linking leave the
abstract state as it is, since the block in hand counts as free from the moment it is counted.

### PhysicalPages

`PhysicalPagesProofs` proves, for any number of frames, colours and blocks, any requests and any set
of ambiguous frames:

* `ListsThread`, `FramesKept`, `SharesKept`, `PoolFramesKept`: `Spec => []ColorsThreadFreeList`,
  `FramesConserved`, `CountsAgree`, `PoolFramesReal`;
* `PanicsReasoned`: `Spec => PanicsExplained`, an action property;
* `PagesImplementQueue`: `Spec => ImplementsQueue`, the refinement of `FrameQueue`.

All assume `OneUser`: there is one processor, or nobody asks for a stack, or nobody for the pool.
This is what the code needs, not what makes the proof easy: each kind of user holds a lock of its
own between the choice of a frame and its removal, and the locks of the two kinds do not exclude each
other. With two kinds on two processors a frame is taken twice, as the run `physical_pages_race`
shows.

The invariant `Inv` (`PagesInvariant`) says that there is a sequence of frames that the links of the
free list and, in order within each colour, those of the colour lists run through, forwards and
backwards, with the counts and ends of the lists (`Lists`). Of calls, blocks and entries it says, as
long as nobody panicked: one call is under way at a time, and the frame it picked is still the first
choice (`Calls`); no frame but 0 is in two blocks, or twice in one (`Owned`); entries say who has a
frame (`Entries`); and the page table of the stacks has a user for each page of a stack (`Shares`).
`Follow`, which the model reads the lists by, yields that sequence (`FollowChain`), so the properties
that TLC checks about `Follow` are about the sequence. Appending to it (`LinkGrowsLists`) and removing
from its middle (`UnlinkCutsLists`) are lemmas about the links alone, with the cases of first, last
and only entry. The refinement needs the position that `PickFrame` finds: the oldest frame of the
colour, or else the oldest of all, which the round of the colours makes the one `FrameQueue` serves.

### SystemClock

`SystemClockProofs` proves, for any processors, readers, size of the low part, increment and period:

* `TypeCorrect`: `Spec => []TypeOK`, and `TickCounts`: `Spec => []TickCountExact`, whoever sets the
  time;
* `ReadTimes`: `Spec => []ReadsUntorn`, and `Uptimes`: `Spec => []UptimeKept`, when `Setters
  \subseteq {Boot}`.

The hypothesis of the last two is what the code relies on: `SetSystemTime` raises to `HIGH_LEVEL`
(`ke/systime.cc:79`), which keeps the clock handler out on its own processor, and the handler runs
on the boot processor. A setter on another processor writes the same three words at the same time as
the handler, and either may be left with a mixture. Nothing in this commit calls `SetSystemTime`
from outside. The instance of `system_clock` has its setter there too. The invariant has four parts,
each preserved given the ones before it: what each actor may be doing (`TaskInv`), what the three
words hold while one actor replaces them (`WordInv`), what a reader can have loaded (`Reads`: the
high part it read first is that of a time in its interval, and if the second high part agrees, so is
the low part), and what handler and setter owe each other (`Uptime` with the sum of the adjustments,
`ClockSum`).

### KernelSync, and the services without locks

`KernelSyncProofs` proves `SyncHolds`, `SyncSpec => []SyncSound`, for any processors and resources.
There are never more than two handlers on a processor, since only that of an APIC error interrupts
that of the clock; the invariant lists the five situations that leaves, with the level, the
interrupt flag and the vectors in service of each, and says that a resource is locked exactly while
somebody holds it or is just giving it back. It also proves

* `RundownCounts`: for any finite set of users, the word counts the references. `NoWaitBlock` needs
  the count: who releases holds a reference, so the word it has read is not active.
* `ListAccounts`: for any entries and processors, no entry of the interlocked list is lost or handed
  out twice until an exchange for a stale link. The chain is the least set closed under links, so
  what a push or a pop does to it is shown by giving a smaller closed set; the invariant adds that
  what is being pushed is its pusher's (`PushesOwned`) and that who will pop an entry that is still
  first has its link (`PopsAimed`, up to `stale`).
* `StartsApart`: for any number of processors, until one wakes after it was given up (`WokeLate`,
  which never becomes false again), they start in order (`Orderly`) and each has structures of its
  own.
* the lemmas for `Counters` and `CountersRise`: what a query of the PIT reads is the time or one wrap
  less, because counted and pending wraps together are all the wraps of the time, and what it answers
  is that or, compensated, the time at which it was read (`AnswerInv`), so that a timer that stands
  still would violate them as one that runs ahead; a query of the PM timer is exact modulo its
  period; a busy wait takes off no more than has passed. Both until the hardware loses an interrupt
  (`missed`) or a query comes after more than a period (`skipped`).

Two assumptions were added for them, both of which the code bears out: threads are finitely many
(`UsersAssumption`), and the values that stand for null pointers are none of the entries and
processors.

`KernelServicesProofs` proves `LockFree`, `Sync`, `Counters`, `CountersRise`, `Mappings` and
`Tracking`, the invariants of the parts for the composition `KernelServices`, where a step of another
service leaves the exercised one alone.

### HardwarePool

`KernelSyncProofs` proves `HardwareKept`, `HardwareSpec => []HardwarePoolSound`, for any
descriptors in order, requests, alignment, fixed mappings and sizes. Each buffer is where and as long
as was asked for, aligned, below the limit, and not at page 0; the pages of hardware memory are those
of the buffers, and no page was lost or is in two descriptors; no mapping overlaps another, or one
made by other code. That descriptors follow each other pairwise is not inductive as it stands, since
a descriptor of no pages may lie between two; the invariant says of any two, the earlier ends before
the later begins (`Ordered`). What a split puts in the place of a descriptor lies within it and in
order (`PiecesDivide` and the lemmas before it), so the order survives, and the pages of each type are
those of before less the ones taken. Of the mappings it says that until one went past the end both
they and the start lie in the range (`WithinRange`): then the first run of pages that is free and
long enough is what the search returns.

### AcpiTables

`KernelSyncProofs` proves `AcpiKept`, `AcpiSpec => []AcpiSound`, for any firmware, range of addresses,
size of pages and room in the cache (two tables at least, the root and the FADT). `TablesMapped` is
shown with the map in three parts: every table kept is in its place, areas are apart from each other
and from the RSDP and the identities (`Laid`), and nothing else is mapped (`NoMore`). Each step is one
of four changes of the map: none, a run taken by something else (`PagesTaken`), a table mapped over a
free run (`TableMapped`), or one mapped with two pages and taken back, which leaves what was there
(`PageMapped`). That names are found once needs the provided tables to be one for each name
(`ProvidedOne`) and the root table never to be queried (`Known`). `AnswerReasoned` speaks of the last
table asked for and is not inductive: the table may have been got earlier in another operation, so
the invariant says of every table kept that it is the one the firmware provides and that it passed its
check or is too long for it to count (`Rightful`), and of each state of the start which tables it
must have in the cache and has yet to find (`PhaseKept`). That the places of processors are apart and
fit is counting: a larger entry of the MADT has more enabled ones before it (`PlacesApart`).

### InterruptRouting

`KernelSyncProofs` proves `Routes`, `RoutingSpec => []RoutingSound`, for any MADT whose controllers
share no interrupt, any requests and any processors. What is said of redirection entries rests on
`EntriesInv`: an entry that is being written is masked, and has the new destination before the low
half follows (`Partly`); any other holds all of the newest request for its line, or was never asked
for and is masked (`Holding`); and each request is for the line that covers the interrupt its
override names (`Given`). Lines with the same interrupt are the same line (`LinesApart`), which is
where `MadtAssumption` is needed.

Of interprocessor interrupts, what was asked for of a processor and a vector is counted: what has
arrived, what the register holds, and what the sender has still to send add up to it
(`IpisCounted`). A command moves one from the last to the second, if the destination is still that
of the processor whose turn it is; and it is, since a sender sends with interrupts disabled, so that
there is never a second one (`OneSends`).

### AllocationTracking

`KernelServicesProofs` proves `Tracks`, `TrackSpec => []TrackingSound`, for any finite sets of tags
and addresses, any hash of the tags, and any sizes of the tables and their bounds. The invariant
`TrackInv` says:

* no tag is to be found behind a slot that was free when it was probed for, and each tag has at most
  one entry in each table (`Kept`), because slots are given and never taken back; entries without a
  tag count nothing;
* once the tables are set up the slot probed first for `Mgr` is its own (`OwnsFirst`), so that
  registering the growth of the expansion table never needs that table, and its lock (`NeverStuck`);
* tables and overflow bucket together count what is owed to the tags (`Balanced`), each tag by itself
  until the bucket is used;
* the table of big allocations has the ones registered with a tag of their caller, each once, and
  counts its entries (`TableExact`). An entry is found wherever it is, as a search goes through the
  whole table; so a hole in the middle of a run of collisions does no harm.

Sums and rehashing are folds over sets of indexes. A fold takes the elements of a set in some order
that `CHOOSE` picks; what holds of the empty set, and of a set if it holds of the rest, holds of
every finite set, by the least-number principle over cardinalities (`RestInduction`). With it the sum of
a changed function is shown to change by as much (`SumsChange`), and the contents of a table survive
the rehash, which always has room. Each operation is then shown to move the books and what is owed by
the same amount.

Its assumptions are those of section 3: finitely many tags, and `BigA` is no tag of a caller. With
such a caller, what it frees and what had no room in the table could not be told apart.

### NonPagedPages

`NonPagedPagesProofs` proves, for any sizes of both pools, number of lists, frames, processors and
requests:

* `PoolTiled`, `RunsListed`, `MarksKept`, `ExpansionKept`: `Spec => []RunsTile`, `RunsFiled`,
  `BlocksMarked`, `ExpansionAccounted`;
* `ExpandsLast`: `Spec => ExpandsOnlyWhenNeeded`, the action property.

Free runs and allocations tile the mapped pages, each page of a free run leads to its header, so
that two runs are disjoint, each run is in the list for its size, and no two touch. From the last it
follows that free pages that follow each other lie in one run, which a search of the lists finds;
hence `ExpandsLast`. A free reads the marks of pages it does not own and has to find out of them
where the neighbours begin and end: that is `BlocksMarked` together with the tiling. The step of a
free is proved in the order of the code, absorbing the run behind, then growing the run before or
filing a new one. Space of the expansion pool is accounted for page by page, including what an
allocation or a free in progress holds.

### PoolBlocks

`PoolBlocksProofs` proves, for any processors, pages, units of a page and requests:

* `BlocksTiled`, `ListsKept`, `Coalescing`, `PagesKept`: `Spec => []BlocksTile`, `ListsComplete`,
  `FreeCoalesced`, `PagesReturned`;
* `PanicsRare`: `Spec => PanicsExplained`.

The invariant `PoolInv` (`PoolKept`) says that the blocks of each page of the pool tile it, with
sizes before and behind that agree; that blocks in use are those somebody has and have a requested
size; what each processor is in the middle of; and which blocks are in the lists. Splitting and
joining blocks are lemmas about tilings. `Follow`, which meets headers by their sizes, meets exactly
the blocks of any tiling; it is a recursive function, and what it yields is proved by the
least-number principle (`LeastNumber`, from the library's `WFMin`), which takes no operator as a
parameter and stands in for induction. A fresh page is known to one processor only until its
remainder is listed, which the lemmas about `AllocatePage`, `ListFreshPage`, `VerifyFreshPage` and
`ReleasePage` use; after that another may be at work on it, and this, recorded in `touched`, is the
only way to the panic.

### What stays with TLC

Liveness (`ReleaseTerminates`, `InterruptEnds`, `LoadingEnds`) and everything about ENABLED.
What is computed by going through data in this model is checked on the data of the runs:
`RuntimeExact`, `SetUpSound` (page tables of any format, text and timers),
and all of `BootLoader`, two of whose modules declare `RECURSIVE` operators. What `TimersSound`
says of errors of an eighth holds of frequencies as machines have them, not of any. What physical pages do with
both kinds of users at once is model-checked only: a frame may then be taken twice (section 7).

## 7. Where the code and its comments disagree

* `mm/pte.cc:482`: the clean-up after taking a single-entry cluster clears the next entry, which may
  be somebody's mapping, and that after a larger one leaves the size entry.
* `mm/kpool.cc:60`: "the PFN database lock" is `SystemSpaceLock` there and `PfnLock` in `alloc.cc`,
  so a stack and the pool can take the same frame.
* `mm/pfn.cc:354`: the mark "ready for removal" is set in the PTE and tested in its address; frames
  of freed stacks go to the modified list and are not used again.
* `ke/systime.cc:166`: with a fractional period, compensated increments cross tick boundaries that
  are never counted; the wall clock falls behind and `TickOffset` sinks without bound.

* `rtl/bitmap.cc:203`: a search that starts inside a word looks at one word too few, and the "region
  of clear bits" that `SetClearBits` sets may contain bits an earlier call has set. `RegionsAlike` is
  about `SetClearBits`; `ClearSetBits` searches the same way and has the same fault with set bits.

Noticed, without a run of their own because no comment promises otherwise, or because nothing calls
the code in this commit.

Time and interrupts: a setter of the system time on another processor than the boot processor can
leave the clock handler in its retry loop; `KeSetTimeIncrement` passes maximum and minimum in the
wrong order (`ke/exports.cc:488`); `ReleaseResource` enables interrupts unconditionally;
`GetSystemResource` gives up at the first resource of its type when that one is locked; a clock
handler in which a profiling tick expires acknowledges twice, which is harmless, because nothing
else is in service then (`ServiceMatchesHandlers`). `InitializeAllLocks` initialises three of the
lock queues only; the others start as zeroed memory. Each processor that starts rewrites the global
`InitialIdt`, filling all gates first, while others run on it; on i686 the task state segments of
double fault and NMI are global; `RspBase` is read from a TSS that is only filled afterwards
(`ar/*/procsup.cc`).

Routing: overrides listed after the last controller there is room for, or beyond their maximum, are
lost (`pic.cc:147`); the destination of an entry is `APIC_ID >> 24`, which is 0 in x2APIC mode.

Timers: the product of `TimerFrequency` and `TscNumerator` overflows 32 bits (`timer.cc:83`);
processors that wait with channel 2 of the PIT at the same time disturb each other, as
`StartAllProcessors` and the calibration of the processor it starts may (restoring port 0x61 at
`timer.cc:1328` can stop the counter the other polls); `InitializeApicTimer` on each processor
resets the globals `TimerFrequency`, `TimeIncrement` and `RunningFraction` and `TickOffset`;
`QueryPerformanceCounterPit` stays constant when the clock is not the PIT, since `PitRollover` is 0;
`SetProfileInterval` assumes ticks of a millisecond; `SetClockRateApic` changes the caller's timer
only.

Screen and ACPI: the scroll region ends a pixel short, so that a cut-off last column is inked but
not scrolled, refused by `UpdateScreenRegion`, and spills into the next line when the pitch is the
width; `ClearScreen` fills with the low byte of the colour; `Status` is returned uninitialised by
`InitializeDebugIoProviders` when there is no provider. The checksum of a table that is longer than
its mapping of two pages reads past it; a full cache leaks a mapping per query, and a root table
that fails its checks leaves the RSDP mapped.

Processors and hardware memory: a processor that wakes after it was given up runs on whatever the
start block then holds; `StartAllProcessors` cannot unmap the trampoline, since its address is below
the hardware pool (`mm/hlpool.cc:391`); `MarkHardwareMemoryWriteThrough` drops the result of
`GetNextEntry` and marks one page only (`hlpool.cc:323`).

Page tables at boot (`TablesSound` says of which frames): the free descriptor is put back to what it
was before tables and pages were taken out of it (`mm/amd64/pfn.cc:203`), and the frames given next,
to the tables of the low page of `AllocateRealModeMemory`, are zeroed while they are page tables in
use; frames taken while used memory is described are on the free list as well (`amd64/pfn.cc:194`).
On i686 the PTE behind the pool is read although its table may not exist (`mm/pool.cc:241`). The two
counts kept in PTEs are written as frame numbers of valid entries (`amd64/pte.cc:153`,
`mm/pte.cc:219`), and the scan takes them for frames. With PAE `GetPpeAddress` returns 0
(`i686/pagemap.cc:95`), so page tables get no records. `AllocateRealModeMemory` maps one page
however many it is asked for (`hlpool.cc:183`).

Runtime library and CMOS clock: `FindBits` misses a region that ends exactly at the end of the map
(`bitmap.cc:313`); `SetBit` shifts an `int`, so bits from 31 on of a 64-bit word are written wrongly
(`bitmap.cc:472`); `UnixEpochToTimeFields` computes a weekday that is one off (its result is left
out of the calendar, as are the first two months of the year 0); `SetRealTimeClock` refuses weekday 0,
which `XtEpochToTimeFields` gives for Sundays (`rtc.cc:212`); the interlocked list can be broken by
an entry that is taken out and pushed again during a pop. `DivideUnsigned64` returns 0 for a
dividend of 2^63 or more that is divided by 2^32 unless its low word is 0 (`math.cc:407` allows a
shift of 30, `math.cc:318` of 31), and shifts words by 32 for such a dividend and the divisor 1
(`math.cc:378`): `Misdivided`. In formatted output `%hu` and `%hhu` print a value with its highest
bit set as a long long (it is sign-extended at `widestr.cc:953`, and `WriteIntegerValue` leaves
unsigned values as they come: `Overextended`); `%g` of one digit that carries to two is one
character too wide (`CarriesPastPrecision`), as is `%a` with an exponent of exactly 10, 100 or 1000
(`widestr.cc:2619`, `HexShown`); on i686 `%b` takes a long long out of the arguments
(`widestr.cc:805`) and `%n$` counts in long longs (`widestr.cc:1177`). `CopyWideString` writes a terminator
behind the length it was given.

`TextsKept` states what the comments of the string routines say, and leaves out by name three places
where the code does otherwise. `CutShort`: `CompareWideStringInsensitive` takes a string for equal
to its own beginnings (`widestr.cc:91`), with or without a limit, where its comment has whole strings
compared without one (`widestr.cc:65`). `StrayDelimiter`: only one delimiter behind a token is
stepped over, so a token may begin with a delimiter or be one (`widestr.cc:1312`), where delimiters
are to separate tokens (`widestr.cc:1281`). `EndsBlank`: `TrimRightWideString` begins at the
terminator and so removes nothing (`widestr.cc:1451`), where trimming is to work at both ends
(`widestr.cc:1435`, `1453`, `1469`).

Boot loader: names are compared by `CompareWideStringInsensitive`, for which a name equals one that
begins with it (`rtl/widestr.cc:91`), so that a module whose name begins like that of a loaded one
counts as loaded; a request for part of a mapping of its own type keeps the old virtual address
(`memory.cc:545`); with more than 32 GB of memory the identity mapping reaches the addresses of the
kernel (`xtos.cc:691`); a circle of dependencies would recurse without end.

Images: `(PUINT)Address + Offset` multiplies the offset by four in the checks against the end of the
image and against the relocations (`PeSound` allows for the pointers that are left out); `FreePages`
at the end of `LoadImage` has its arguments swapped (`pecoff.cc:610`), which keeps the headers alive
that are used later, but leaves the file's pages (`pecoff.cc:471`) allocated: those of the kernel are
taken after the memory map was read and are handed over as free memory, the one exception of
`HandoverSound` (`kernelFile`), harmless because the kernel reads the image and not the file; `GetFileSize` and `GetImageSize` return `NOT_FOUND` on success; a failed
allocation of the image leaks the file's pages and a failed relocation all of them;
`FreePool(&FileInfo)` passes the address of a variable; `GetSection` adds a file offset to the image
in memory and compares names by their beginning; nothing calls `RelocateImage`.

Disks: partitions listed out of order or without a first one are counted to the wrong disk, or to
disk -1 as a `ULONG` (`volume.cc:172`); floppies, memory disks and ATAPI drives without a block
device above them are left out, so that their ARC names find nothing; `ReadFile` ignores the status
of its first `GetInfo`; `DissectArcPath` writes a terminator behind the name, ignores the status of
its allocation and runs past the string at a number without `)`; `FindDevicePath` truncates a length
to a byte; `BootSystem` appends to the entry's path in place (`xtos.cc:124`), so that a second
attempt looks in another directory; `ChainLoad` overwrites the status of `ReadFile` and loads what
was never read; `CloseVolume(&DiskHandle)` passes the address of the handle; a failed enumeration
ends the loader with part of a list; without memory for the copy of a path that `LocateDevicePath`
is given, the partition booted from is not marked as ESP (`volume.cc:180`, `EspUnmarked`), and
without memory for an entry's own copy the entry has no path (`PathsCopied`); GUID paths are not supported.

Configuration and menus: for the same reason an option `Parameters` is found under `Parameter`, and
a command under its first letters, whichever was registered first; `OptionsKept` leaves out entries
with such names (`Ambiguous`). `GetBooleanValue` compares through a null pointer when its option is
missing (`config.cc:25`), as `KEEPLASTBOOT` may be, so either answer is possible in the model. When
the file cannot be read `BootMenuList` stays null and is walked all the same (`config.cc:267`); an
option in front of the first section goes to the list of a null section (`config.cc:758`). The
second character from the end of a value is taken for a quote whether or not the value begins with
one, and the end of the last value is stepped over (`config.cc:711`, `746`); `ParseCommandLine` goes
on behind the argument after one without a value (`config.cc:524`). `SetBootOptionValue` leaves a
freed value when the allocation fails (`config.cc:869`). The boot menu creates a timer at each
redraw and closes none, and waits for an event that was never stored when the creation failed
(`textui.cc:245`); a dialog left with ESC keeps its buffer, and its field is written once before it
has a terminator (`textui.cc:1468`). `StartLoaderShell` empties the list of commands, so those that
modules have registered are lost (`shell.cc:885`).

Noticed in the pool: the last `VerifyPoolBlocks` of a fresh page (`mm/alloc.cc:536`) runs after the
lock is dropped and can panic over a sound page that another processor is just splitting
(`PanicsExplained` states that nothing else can); a free block of exactly the right size is never
used, because the search starts one list too high (`mm/alloc.cc:369`); the number of pages freed
that `FreePool` subtracts from `TotalBigAllocations` includes neighbours that were free already
(`mm/alloc.cc:968`); allocations of whole pages are registered with a number of pages and
unregistered with a number of bytes (`mm/alloc.cc:358`), so the byte counts of tags do not add up,
and `AllocationTracking` leaves them out.

## 8. What is not modelled

The state of each component is in `PROJECT.json`. In the modelled ones: the second pool of PTEs
(same code, same lock, `SystemSpaceLock`); release of blocks that are not whole reservations, which the shrinking pool
does when blocks of it have merged; how the layout of the address space is computed from the size of
memory (its results are parameters), attributes and caching of entries, the TLB, and read-only
memory in the loader's descriptors; the bad, zeroed and standby lists, which get no frame; the
run-time accounting of the tick; calibration that gives another frequency on another processor; the
counters of pool descriptors, and bytes in the tables of tags. In the loader: the self map, page map
limits of i686 and LA57, exhaustion of its own pool other than in modules, images and the list of disks, the conversion of the list when virtual
addresses are installed, the retry of `ExitBootServices`, and a second boot after a sequence that
failed; in its configuration and menus the characters of the file and the command line, allocations
that fail other than in `SetBootOptionValue`, a timer that cannot be created, sizes of boxes, what
shell commands do.

Not modelled at all, because there is no state that outlives a call, or nothing but input and
output: SHA-1, GUIDs, memory functions and the remaining arithmetic of `rtl/`; ports, the serial
port, the console of the loader; the font and its decoding; the set-up of the local APIC and the
legacy PIC; accessors of PE header fields and the device paths of files; descriptor tables, traps
and single instructions of `ar/`. Not modelled because it is `UNIMPLEMENTED` in this commit:
waiting, signalling, timers, deferred and asynchronous procedure calls, thread switching, the paged
pool, faults beyond a panic. A large part of the repository are declarations (the UEFI headers and a
font alone are more than 6700 lines), comments, or of these kinds, which is why the share of lines
that the models stand for stays low.
