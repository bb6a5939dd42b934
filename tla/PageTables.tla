----------------------------- MODULE PageTables -----------------------------
(***************************************************************************)
(* The page tables as the kernel builds them at boot: the page maps of     *)
(* both architectures (mm/amd64/pagemap.cc, mm/i686/pagemap.cc), the       *)
(* tables the boot loader hands over, every table the memory manager adds  *)
(* through the self-map with frames of AllocateBootstrapPages, and the PFN *)
(* records it makes for memory and page tables (mm/pfn.cc and pfn.cc,      *)
(* pte.cc, pool.cc and paging.cc under mm/amd64 and mm/i686).              *)
(*                                                                         *)
(* Level 0 is the PTE, 1 the PDE, 2 the PPE, 3 the PXE, 4 the P5E.  A      *)
(* format gives the number of levels, the bits of an index (and of the     *)
(* index of the root), the size of an entry and the width of an address as *)
(* powers of two, the base of the entries of each level, and the layout of *)
(* the address space.  An entry is the frame it holds, or Absent; what else  *)
(* is in it is left out.  Everything runs on one processor with interrupts *)
(* off, so the steps are in the order of InitializeMemoryManager.          *)
(***************************************************************************)
EXTENDS Integers, Sequences, FiniteSets

CONSTANTS PageFormats,      \* sequence of formats
          BootMemories,     \* sequence of the boot loader's descriptors, [base, count, type]
          RecordSize,       \* sizeof(MMPFN)
          ColorBytes,       \* size of the colour tables
          HyperPages,       \* MM_HYPERSPACE_PAGE_COUNT
          LowPages,         \* pages that real mode can address
          ZeroPtes          \* MM_RESERVED_ZERO_PTES

ASSUME TablesAssumption ==
    {RecordSize, ColorBytes, HyperPages, LowPages, ZeroPtes} \subseteq Nat \ {0}

VARIABLES pageFormat, bootMemory,       \* which of them
          pageTables,       \* memory and the PFN database, a record
          pageStep          \* what the boot does next

tablesVars == <<pageFormat, bootMemory, pageTables, pageStep>>

Absent == -1

Is64(f) == f.levels >= 4
TopLevel(f) == IF Is64(f) THEN f.levels - 1 ELSE 1
PageBytes(f) == 2^(f.index + f.entry)
LevelShift(f, k) == f.index + f.entry + k * f.index
TableSlots(f) == 0..(2^f.index - 1)
IndexOf(f, k, a) ==
    (a \div 2^LevelShift(f, k)) % 2^(IF k = f.levels - 1 THEN f.root ELSE f.index)

----------------------------------------------------------------------------
(* The page map: GetPteAddress, GetPdeAddress... and their inverses.       *)

EntryAddress(f, k, a) ==
    (f.base[k + 1] + ((a % 2^f.va) \div 2^LevelShift(f, k)) * 2^f.entry) % 2^f.word

ShiftLeft(f, p, n) == (p % 2^(f.word - n)) * 2^n
ShiftRight(f, p, n) ==
    p \div 2^n + (IF p >= 2^(f.word - 1) THEN 2^f.word - 2^(f.word - n) ELSE 0)
\* mutant: the self-map is undone one level short
VirtualOfTable(f, k, p) ==
    ShiftRight(f, ShiftLeft(f, p, f.word - f.va + k * f.index), f.word - f.va)

VirtualOf(f, k, p) ==
    ShiftRight(f, ShiftLeft(f, p, f.word - f.va + (k + 1) * f.index), f.word - f.va)

CanonicalAddress(f, a) ==
    Is64(f) => ShiftRight(f, ShiftLeft(f, a, f.word - f.va), f.word - f.va) = a

----------------------------------------------------------------------------
(* Memory as the processor sees it: what the entries hold on the way to an *)
(* address, from the root down; level 0 holds the frame of its page.       *)
OnTheWay(f, t, a) ==
    LET way[k \in 0..f.levels] ==
            IF k = f.levels THEN t.root
            ELSE IF way[k + 1] = Absent THEN Absent
            ELSE t.mem[way[k + 1]][IndexOf(f, k, a)]
    IN  way
FrameAt(f, t, a) == OnTheWay(f, t, a)[0]
SlotAt(f, p) == (p % PageBytes(f)) \div 2^f.entry

Alive(t) == t.status = "ok"
Failed(t, how) == [t EXCEPT !.status = how]

(* Reading and writing an entry at its address; without a frame behind it  *)
(* the access faults.                                                      *)
ReadEntry(f, t, p) ==
    LET x == FrameAt(f, t, p) IN IF x = Absent THEN Absent ELSE t.mem[x][SlotAt(f, p)]
WriteEntry(f, t, p, v) ==
    LET x == FrameAt(f, t, p)
    IN  IF ~Alive(t) THEN t
        ELSE IF x = Absent THEN Failed(t, "fault")
        ELSE [t EXCEPT !.mem[x][SlotAt(f, p)] = v]
Touch(f, t, a) ==
    IF Alive(t) /\ FrameAt(f, t, a) = Absent THEN Failed(t, "fault") ELSE t
ZeroPage(f, t, a) ==
    LET x == FrameAt(f, t, a)
    IN  IF x = Absent THEN Failed(t, "fault")
        ELSE [t EXCEPT !.mem[x] = [i \in TableSlots(f) |-> Absent]]

(* Op for the entries of a level from that of address lo to that of hi.    *)
EntryRange(f, k, lo, hi) ==
    LET first == EntryAddress(f, k, lo)
        last == EntryAddress(f, k, hi)
    IN  [i \in 1..((last - first) \div 2^f.entry + 1) |-> first + (i - 1) * 2^f.entry]
OverEntries(Op(_, _), t, entries) ==
    LET done[i \in 0..Len(entries)] == IF i = 0 THEN t ELSE Op(done[i - 1], entries[i])
    IN  done[Len(entries)]

(* AllocateBootstrapPages(1), and late for a frame first taken after the   *)
(* rest of the free block was linked as free.                              *)
Take(t) ==
    IF t.count < 1 THEN Failed(t, "panic")
    ELSE [t EXCEPT !.base = @ + 1, !.count = @ - 1, !.given[t.base] = @ + 1,
                   !.late = IF t.rest /\ t.given[t.base] = 0 THEN @ \cup {t.base} ELSE @]

(* An entry that is not valid gets a new table or page, which is zeroed    *)
(* through the self-map.                                                   *)
\* mutant: the new table is not zeroed
MapEntryUncleared(f, t, p) ==
    IF ~Alive(t) THEN t
    ELSE IF FrameAt(f, t, p) = Absent THEN Failed(t, "fault")
    ELSE IF ReadEntry(f, t, p) # Absent THEN t
    ELSE IF Alive(Take(t)) THEN WriteEntry(f, Take(t), p, t.base) ELSE Take(t)
\* mutant: an entry that is valid already is mapped again
MapEntryAgain(f, t, p) ==
    IF ~Alive(t) THEN t
    ELSE IF FrameAt(f, t, p) = Absent THEN Failed(t, "fault")
    ELSE LET u == Take(t)
         IN  IF Alive(u) THEN ZeroPage(f, WriteEntry(f, u, p, t.base), VirtualOf(f, 0, p))
             ELSE u

MapEntry(f, t, p) ==
    IF ~Alive(t) THEN t
    ELSE IF FrameAt(f, t, p) = Absent THEN Failed(t, "fault")
    ELSE IF ReadEntry(f, t, p) # Absent THEN t
    ELSE LET u == Take(t)
         IN  IF Alive(u) THEN ZeroPage(f, WriteEntry(f, u, p, t.base), VirtualOf(f, 0, p))
             ELSE u

MapRange(f, t, k, lo, hi) ==
    OverEntries(LAMBDA u, p : MapEntry(f, u, p), t, EntryRange(f, k, lo, hi))
ClearRange(f, t, k, lo, hi) ==
    OverEntries(LAMBDA u, p : WriteEntry(f, u, p, Absent), t, EntryRange(f, k, lo, hi))

(* On i686 the page directories come with the boot loader.                 *)
MapPPE(f, t, lo, hi) == IF Is64(f) THEN MapRange(f, t, 2, lo, hi) ELSE t
MapPDE(f, t, lo, hi) == MapRange(f, t, 1, lo, hi)
MapPTE(f, t, lo, hi) == MapRange(f, t, 0, lo, hi)
MapDirectories(f, t, lo, hi) == MapPDE(f, MapPPE(f, t, lo, hi), lo, hi)

AddressValid(f, t, a) ==
    \A k \in 0..TopLevel(f) : ReadEntry(f, t, EntryAddress(f, k, a)) # Absent

----------------------------------------------------------------------------
(* The boot loader's tables, built in physical memory with frames of its   *)
(* own: the root, the self-map, the tables of the hardware pool, and what  *)
(* CommitPageMap maps.                                                     *)

LoaderTake(t) == [t EXCEPT !.next = @ + 1]

GetNextPageTable(f, t, a, k) ==
    LET x == OnTheWay(f, t, a)[k + 1]
    IN  IF t.mem[x][IndexOf(f, k, a)] # Absent THEN t
        ELSE LoaderTake([t EXCEPT !.mem[x][IndexOf(f, k, a)] = t.next])

TablesTo(f, t, a) ==
    LET down[k \in 1..f.levels] ==
            IF k = f.levels THEN t ELSE GetNextPageTable(f, down[k + 1], a, k)
    IN  down[1]

MapPage(f, t, a, frame, pages) ==
    LET mapped[i \in 0..pages] ==
            IF i = 0 THEN t
            ELSE LET b == a + (i - 1) * PageBytes(f)
                     u == TablesTo(f, mapped[i - 1], b)
                 IN  [u EXCEPT !.mem[OnTheWay(f, u, b)[1]][IndexOf(f, 0, b)] = frame + i - 1]
    IN  mapped[pages]

(* The root, and on i686 with PAE its four directories.                    *)
Directories(f, t) ==
    LET made[i \in 0..4] ==
            IF i = 0 THEN t
            ELSE LoaderTake([made[i - 1] EXCEPT !.mem[t.root][i - 1] = made[i - 1].next])
    IN  IF f.levels = 3 THEN made[4] ELSE t

SelfMapPml(f, t) ==
    LET d == t.mem[t.root][IndexOf(f, 2, f.base[1])]
        seen[i \in 0..4] ==
            IF i = 0 THEN t
            ELSE [seen[i - 1] EXCEPT !.mem[d][f.self + i - 1] = t.mem[t.root][i - 1]]
    IN  IF f.levels = 3 THEN seen[4] ELSE [t EXCEPT !.mem[t.root][f.self] = t.root]

HardwareDirectories(f) == IF Is64(f) THEN 2 ELSE 1
MapHardwareMemoryPool(f, t) ==
    LET made[i \in 0..HardwareDirectories(f)] ==
            IF i = 0 THEN t
            ELSE TablesTo(f, made[i - 1], f.hardware + (i - 1) * 2^LevelShift(f, 1))
    IN  made[HardwareDirectories(f)]

(* Loaded memory is mapped in KSEG0, what the loader runs on where it is.  *)
MappedAt(f, d) ==
    CASE d.type = "system" -> f.kseg0 + d.base * PageBytes(f)
      [] d.type = "temporary" -> d.base * PageBytes(f)
      [] OTHER -> Absent
CommitPageMap(f, t, memory) ==
    LET done[i \in 0..Len(memory)] ==
            IF i = 0 THEN t
            ELSE LET d == memory[i]
                 IN  IF MappedAt(f, d) = Absent THEN done[i - 1]
                     ELSE MapPage(f, done[i - 1], MappedAt(f, d), d.base, d.count)
    IN  done[Len(memory)]

(* ScanMemoryDescriptors: the largest free descriptor, the last of several *)
(* of a size, and the highest page; invisible memory is not looked at.     *)
FreeTypes == {"free", "temporary"}      \* VerifyMemoryTypeFree
Invisible == {"permanent"}              \* VerifyMemoryTypeInvisible
Visible(memory) == {i \in DOMAIN memory : memory[i].type \notin Invisible}
Measured(memory) == {i \in Visible(memory) : memory[i].type # "hardware"}
FreeDescriptor(memory) ==
    CHOOSE i \in DOMAIN memory :
        /\ memory[i].type \in FreeTypes
        /\ \A j \in DOMAIN memory : memory[j].type \in FreeTypes =>
                IF j > i THEN memory[j].count < memory[i].count
                ELSE memory[j].count <= memory[i].count
PagesIn(d) == d.base..(d.base + d.count - 1)
HighestPhysicalPage(memory) ==
    CHOOSE n \in UNION {PagesIn(memory[i]) : i \in Measured(memory)} :
        \A i \in Measured(memory) : n >= memory[i].base + memory[i].count - 1
FramesOf(memory) == 0..HighestPhysicalPage(memory)

Leftover == 0       \* what a free frame happens to hold
NoRecord == [at |-> "none", ref |-> 0, share |-> 0, pte |-> Absent, parent |-> 0]

HandedOver(f, memory) ==
    LET free == memory[FreeDescriptor(memory)]
        own == CHOOSE i \in DOMAIN memory : memory[i].type = "data"
        raw == [mem |-> [x \in FramesOf(memory) |-> [i \in TableSlots(f) |->
                            IF x \in PagesIn(free) THEN Leftover ELSE Absent]],
                root |-> memory[own].base, next |-> memory[own].base + 1,
                base |-> free.base, count |-> free.count, rest |-> FALSE,
                given |-> [x \in FramesOf(memory) |-> 0], late |-> {}, status |-> "ok",
                pfn |-> [x \in FramesOf(memory) |-> NoRecord]]
        started == MapHardwareMemoryPool(f, SelfMapPml(f, Directories(f, raw)))
    IN  CommitPageMap(f, started, memory)
----------------------------------------------------------------------------
(* Where things are.                                                       *)
PfnDatabasePages(f, memory) ==
    ((HighestPhysicalPage(memory) + 1) * RecordSize + ColorBytes + PageBytes(f) - 1)
        \div PageBytes(f)
PoolStart(f, memory) == f.pfn + PfnDatabasePages(f, memory) * PageBytes(f)
PoolEnd(f, memory) == PoolStart(f, memory) + f.poolPages * PageBytes(f)
ExpansionStart(f, memory) == IF Is64(f) THEN PoolEnd(f, memory) ELSE f.expansion
ExpansionEnd(f, memory) == ExpansionStart(f, memory) + f.expansionPages * PageBytes(f)
PfnAddress(f, x) == f.pfn + x * RecordSize
KsegAddress(f, x) == f.kseg0 + x * PageBytes(f)
HighestAddress(f) == 2^f.word - 1

(* MapKernelSharedData: the page, from the hardware pool, is mapped with a *)
(* table of the boot loader.                                               *)
MapKernelSharedData(f, t, memory) ==
    LET i == CHOOSE i \in DOMAIN memory : memory[i].type = "hardware"
    IN  WriteEntry(f, t, EntryAddress(f, 0, f.shared), memory[i].base)

(* The lower half is dropped, the entries of the root for what is above it *)
(* are filled, then the tables of the paged pool and of hyperspace; its    *)
(* first PTE gets a count where the frame number is, and is valid.         *)
\* mutant: the first entry of the root is left
ClearedAfterFirst(f, t) ==
    ClearRange(f, t, TopLevel(f), 2^LevelShift(f, TopLevel(f)), f.userEnd)

Cleared(f, t) == ClearRange(f, t, TopLevel(f), 0, f.userEnd)
Roots(f, t) ==
    LET u == IF f.levels = 5 THEN MapRange(f, t, 4, f.hyper, HighestAddress(f)) ELSE t
    IN  MapRange(f, u, 3, f.hyper, HighestAddress(f))
LongTables(f, t) ==
    LET u == MapPPE(f, Roots(f, t), f.paged, f.pagedEnd)
        v == MapPDE(f, MapPPE(f, u, f.hyper, f.hyperEnd),
                    f.hyper, f.hyper + HyperPages * PageBytes(f))
    IN  WriteEntry(f, v, EntryAddress(f, 0, f.hyper), HyperPages)
InitializePageTable(f, t) ==
    IF Is64(f) THEN LongTables(f, Cleared(f, t))
    ELSE MapPDE(f, Cleared(f, t), f.systemPtes, HighestAddress(f))

(* The tables of the system PTEs, the pool of them, and the last of them,  *)
(* taken for zeroing, with a count in a valid entry again.                 *)
InitializeSystemPteSpace(f, t) ==
    LET end == f.systemPtes + f.ptes * PageBytes(f)
        u == ClearRange(f, MapDirectories(f, t, f.systemPtes, end), 0,
                        f.systemPtes, end - PageBytes(f))
        zeroing == end - (ZeroPtes + 1) * PageBytes(f)
    IN  WriteEntry(f, u, EntryAddress(f, 0, zeroing), ZeroPtes)

\* mutant: the last page of the pool is not mapped
MapNonPagedPoolShort(f, t, memory) ==
    LET start == PoolStart(f, memory)
        last == PoolEnd(f, memory) - PageBytes(f) - 1
        u == IF Is64(f) THEN MapDirectories(f, t, start, ExpansionEnd(f, memory))
             ELSE MapPDE(f, t, start, last)
    IN  MapPTE(f, u, start, last)

MapNonPagedPool(f, t, memory) ==
    LET start == PoolStart(f, memory)
        last == PoolEnd(f, memory) - 1
        u == IF Is64(f) THEN MapDirectories(f, t, start, ExpansionEnd(f, memory))
             ELSE MapPDE(f, t, start, last)
    IN  MapPTE(f, u, start, last)

(* The owner is written to every page, the PTE after the last one is read, *)
(* and the PTEs of the expansion are cleared but for the first and last.   *)
InitializeNonPagedPool(f, t, memory) ==
    LET u == MapNonPagedPool(f, t, memory)
        owned[i \in 0..f.poolPages] ==
            IF i = 0 THEN u
            ELSE Touch(f, owned[i - 1], PoolStart(f, memory) + (i - 1) * PageBytes(f))
        read == Touch(f, owned[f.poolPages], EntryAddress(f, 0, PoolEnd(f, memory)))
    IN  ClearRange(f, read, 0, ExpansionStart(f, memory) + PageBytes(f),
                   ExpansionEnd(f, memory) - 2 * PageBytes(f))

(* The pages of the PFN database are mapped and zeroed, and those of the   *)
(* colour tables after it.                                                 *)
InitializeColorTables(f, t, memory) ==
    LET first == PfnAddress(f, HighestPhysicalPage(memory) + 1)
    IN  MapPTE(f, t, first, first + ColorBytes - 1)
MapPfnDatabase(f, t, memory) ==
    LET end == f.pfn + PfnDatabasePages(f, memory) * PageBytes(f) - 1
        u == MapPTE(f, MapDirectories(f, t, f.pfn, end), f.pfn, end)
        zeroed[i \in 0..PfnDatabasePages(f, memory)] ==
            IF i = 0 THEN u ELSE Touch(f, zeroed[i - 1], f.pfn + (i - 1) * PageBytes(f))
    IN  InitializeColorTables(f, zeroed[PfnDatabasePages(f, memory)], memory)

----------------------------------------------------------------------------
(* The PFN records of a memory descriptor.                                 *)

(* InitializePageDirectory, on amd64: at the first entry, and where a page *)
(* of entries begins, the tables above it come first.                      *)
Parents(f, t, p) ==
    LET u == IF f.levels = 5 THEN MapEntry(f, t, EntryAddress(f, 2, p)) ELSE t
    IN  MapEntry(f, MapEntry(f, u, EntryAddress(f, 1, p)), EntryAddress(f, 0, p))
InitializePageDirectory(f, t, lo, hi) ==
    LET entries == EntryRange(f, 1, lo, hi)
        Directory(u, p) ==
            MapEntry(f, IF p = entries[1] \/ p % PageBytes(f) = 0 THEN Parents(f, u, p) ELSE u, p)
    IN  IF Is64(f) THEN OverEntries(Directory, t, entries) ELSE t

FrameNumber(v) == IF v = Absent THEN 0 ELSE v     \* of an entry that is 0
DirectoryOf(f, t, a) == FrameNumber(ReadEntry(f, t, EntryAddress(f, 1, a)))

InUse(f, t, x) ==
    [t.pfn[x] EXCEPT !.at = "active", !.ref = 1, !.share = @ + 1,
                     !.pte = EntryAddress(f, 0, KsegAddress(f, x)),
                     !.parent = DirectoryOf(f, t, KsegAddress(f, x))]
WithRecords(t, pages, Record(_)) ==
    [t EXCEPT !.pfn = [x \in DOMAIN @ |->
        IF x \in pages /\ @[x].ref = 0 THEN Record(x) ELSE @[x]]]

(* Free memory is linked free, bad memory goes to the list of bad pages;   *)
(* the boot loader describes no ROM.                                       *)
ProcessMemoryDescriptor(f, t, d) ==
    CASE ~Alive(t) -> t
      [] d.type \in FreeTypes ->
            WithRecords(t, PagesIn(d), LAMBDA x : [t.pfn[x] EXCEPT !.at = "free"])
      [] d.type = "bad" ->
            [t EXCEPT !.pfn = [x \in DOMAIN @ |->
                IF x \in PagesIn(d) THEN [@[x] EXCEPT !.at = "bad"] ELSE @[x]]]
      [] OTHER ->
            LET u == InitializePageDirectory(f, t, KsegAddress(f, d.base),
                                             KsegAddress(f, d.base + d.count))
            IN  WithRecords(u, PagesIn(d), LAMBDA x : InUse(f, u, x))

(* InitializePfnDatabase: the descriptors but for invisible memory and the *)
(* free block the frames come from; of that first what is left is linked   *)
(* free, then what was used is described.                                  *)
Block(b, n, type) == [base |-> b, count |-> n, type |-> type]
ProcessDescriptors(f, t, memory) ==
    LET done[i \in 0..Len(memory)] ==
            IF i = 0 THEN t
            ELSE IF i \notin Visible(memory) \/ i = FreeDescriptor(memory) THEN done[i - 1]
            ELSE ProcessMemoryDescriptor(f, done[i - 1], memory[i])
    IN  done[Len(memory)]
LinkRest(f, t) ==
    [ProcessMemoryDescriptor(f, t, Block(t.base, t.count, "free")) EXCEPT !.rest = TRUE]
\* mutant: one page more than was used is described
DescribeUsedAndNext(f, t, memory) ==
    LET free == memory[FreeDescriptor(memory)]
    IN  ProcessMemoryDescriptor(f, t, Block(free.base, t.base - free.base + 1, "data"))

DescribeUsed(f, t, memory) ==
    LET free == memory[FreeDescriptor(memory)]
    IN  ProcessMemoryDescriptor(f, t, Block(free.base, t.base - free.base, "data"))

----------------------------------------------------------------------------
(* The PFN records of page tables, found by a walk of the self-map.        *)

\* mutant: the table that holds the entry is not counted
LinkPfnOnly(f, t, x, p) ==
    IF x \in DOMAIN t.pfn /\ t.pfn[x].at = "active"
    THEN [t EXCEPT !.pfn[x].pte = p, !.pfn[x].share = @ + 1, !.pfn[x].ref = 1,
              !.pfn[x].parent = FrameNumber(ReadEntry(f, t, EntryAddress(f, 0, p)))]
    ELSE t

LinkPfnForPageTable(f, t, x, p) ==
    LET managed ==
            /\ x \in DOMAIN t.pfn
            /\ AddressValid(f, t, PfnAddress(f, x))
            /\ AddressValid(f, t, PfnAddress(f, x + 1) - 1)
            /\ t.pfn[x].at = "active"
        linked == IF ~managed THEN t
                  ELSE [t EXCEPT !.pfn[x].pte = p, !.pfn[x].share = @ + 1, !.pfn[x].ref = 1,
                            !.pfn[x].parent = FrameNumber(ReadEntry(f, t, EntryAddress(f, 0, p)))]
    IN  [linked EXCEPT !.pfn[DirectoryOf(f, t, VirtualOf(f, 0, p))].share = @ + 1]

(* ScanPageTable calls itself for the table that an entry refers to: one   *)
(* operator for each level, each with the one below it.                    *)
ScanEntries(f, t, first, k, ScanBelow(_, _, _)) ==
    LET Entry(i) == first + i * 2^f.entry
        scanned[i \in 0..2^f.index] ==
            IF i = 0 THEN t
            ELSE LET p == Entry(i - 1)
                     x == ReadEntry(f, t, p)
                 IN  IF x = Absent THEN scanned[i - 1]
                     ELSE ScanBelow(f, LinkPfnForPageTable(f, scanned[i - 1], x, p), p)
    IN  scanned[2^f.index]

Below(f, k, p) == EntryAddress(f, k - 1, VirtualOf(f, k, p))

NothingBelow(f, t, p) == t
ScanPtes(f, t, p) == ScanEntries(f, t, Below(f, 1, p), 0, NothingBelow)
ScanPdes(f, t, p) == ScanEntries(f, t, Below(f, 2, p), 1, ScanPtes)
ScanPpes(f, t, p) == ScanEntries(f, t, Below(f, 3, p), 2, ScanPdes)
ScanPxes(f, t, p) == ScanEntries(f, t, Below(f, 4, p), 3, ScanPpes)

ScanPageTable(f, t, first, k) ==
    CASE k = 1 -> ScanEntries(f, t, first, k, ScanPtes)
      [] k = 2 -> ScanEntries(f, t, first, k, ScanPdes)
      [] k = 3 -> ScanEntries(f, t, first, k, ScanPpes)
      [] k = 4 -> ScanEntries(f, t, first, k, ScanPxes)

(* The root has a record without an entry.  With PAE GetPpeAddress has     *)
(* nothing to scan from.                                                   *)
\* mutant: the scan starts from the PDEs at every number of levels
InitializePageTablePfnsAtPdes(f, t) ==
    LET rooted == [t EXCEPT !.pfn[t.root].pte = Absent, !.pfn[t.root].share = 1,
                            !.pfn[t.root].ref = 1, !.pfn[t.root].parent = 0,
                            !.pfn[t.root].at = IF Is64(f) THEN @ ELSE "active"]
    IN  IF f.levels = 3 THEN rooted
        ELSE ScanPageTable(f, rooted, EntryAddress(f, TopLevel(f), 0), 1)

InitializePageTablePfns(f, t) ==
    LET rooted == [t EXCEPT !.pfn[t.root].pte = Absent, !.pfn[t.root].share = 1,
                            !.pfn[t.root].ref = 1, !.pfn[t.root].parent = 0,
                            !.pfn[t.root].at = IF Is64(f) THEN @ ELSE "active"]
    IN  IF f.levels = 3 THEN rooted
        ELSE ScanPageTable(f, rooted, EntryAddress(f, TopLevel(f), 0), TopLevel(f))

RestoreFreeDescriptor(t, memory) ==
    LET free == memory[FreeDescriptor(memory)]
    IN  [t EXCEPT !.base = free.base, !.count = free.count]

(* MapVirtualAddress, for the page that starts the other processors.       *)
MapVirtualAddress(f, t, a, frame) ==
    LET u == IF f.levels = 5 THEN MapRange(f, t, 4, a, a) ELSE t
        v == IF Is64(f) THEN MapRange(f, u, 3, a, a) ELSE u
    IN  WriteEntry(f, MapDirectories(f, v, a, a), EntryAddress(f, 0, a), frame)

(* AllocateRealModeMemory takes a page of the last free descriptor that    *)
(* fits under its limit; HardwarePool has the whole of AllocateHardwareMemory. *)
RealModePage(memory) ==
    LET fits == {i \in DOMAIN memory : /\ memory[i].type = "free" /\ memory[i].base # 0
                                       /\ memory[i].base + 1 < LowPages}
    IN  memory[CHOOSE i \in fits : \A j \in fits : j <= i].base

----------------------------------------------------------------------------
(* The boot, step by step.                                                 *)

NoTables == [status |-> "ok"]

TablesInit ==
    /\ pageFormat \in DOMAIN PageFormats
    /\ bootMemory \in DOMAIN BootMemories
    /\ pageTables = NoTables
    /\ pageStep = "reset"

BootStep(now, then, result) ==
    /\ pageStep = now /\ pageTables.status = "ok"
    /\ pageStep' = then
    /\ pageTables' = result
    /\ UNCHANGED <<pageFormat, bootMemory>>

TablesNext ==
    LET f == PageFormats[pageFormat]
        t == pageTables
        memory == BootMemories[bootMemory]
    IN  \/ BootStep("reset", "loaded", HandedOver(f, memory))
        \/ BootStep("loaded", "shared", MapKernelSharedData(f, t, memory))
        \/ BootStep("shared", "tables", InitializePageTable(f, t))
        \/ BootStep("tables", "ptes", InitializeSystemPteSpace(f, t))
        \/ BootStep("ptes", "pool", InitializeNonPagedPool(f, t, memory))
        \/ BootStep("pool", "database", MapPfnDatabase(f, t, memory))
        \/ BootStep("database", "described", ProcessDescriptors(f, t, memory))
        \/ BootStep("described", "free", LinkRest(f, t))
        \/ BootStep("free", "used", DescribeUsed(f, t, memory))
        \/ BootStep("used", "linked",
                    InitializePageTablePfns(f, RestoreFreeDescriptor(t, memory)))
        \/ BootStep("linked", "started",
                    MapVirtualAddress(f, t, RealModePage(memory) * PageBytes(f),
                                      RealModePage(memory)))

----------------------------------------------------------------------------
(* The entries in use, from the root, as the table and the slot of each;   *)
(* the self-map is not followed.  A count is in the place of the frame in  *)
(* two of them, those of hyperspace and of the zeroing PTEs.               *)

SelfSlots(f, t) ==
    IF f.levels = 3 THEN {t.mem[t.root][IndexOf(f, 2, f.base[1])]} \X (f.self..(f.self + 3))
    ELSE {<<t.root, f.self>>}
EntriesInUse(f, t) ==
    LET at[k \in 0..f.levels] ==
            IF k = f.levels THEN {<<t.root, 0>>}
            ELSE LET tables == IF k = f.levels - 1 THEN {t.root}
                               ELSE {t.mem[e[1]][e[2]] : e \in at[k + 1] \ SelfSlots(f, t)}
                 IN  {e \in tables \X TableSlots(f) : t.mem[e[1]][e[2]] # Absent}
    IN  [k \in 0..(f.levels - 1) |-> at[k]]
Zeroing(f) == f.systemPtes + (f.ptes - ZeroPtes - 1) * PageBytes(f)
CountSlots(f, t) ==
    {<<OnTheWay(f, t, a)[1], IndexOf(f, 0, a)>> : a \in {f.hyper, Zeroing(f)}}
HeldBy(f, t, x) ==
    {e \in UNION {EntriesInUse(f, t)[k] : k \in 0..(f.levels - 1)}
           \ (SelfSlots(f, t) \cup CountSlots(f, t)) : t.mem[e[1]][e[2]] = x}

Steps == <<"reset", "loaded", "shared", "tables", "ptes", "pool", "database", "described",
           "free", "used", "linked", "started">>
Since(step) ==
    \E i, j \in DOMAIN Steps : i <= j /\ Steps[i] = step /\ Steps[j] = pageStep
PageStarts(f, lo, hi) ==
    {lo + i * PageBytes(f) : i \in 0..((hi - lo) \div PageBytes(f))}

(* Addresses to try: one for every table of the space, and every page of   *)
(* the regions that are in use.                                            *)
Addresses(f, memory) ==
    LET tables == {i * 2^LevelShift(f, 1) + 2 * PageBytes(f) + 5 :
                      i \in 0..(2^(f.va - LevelShift(f, 1)) - 1)}
    IN  {IF Is64(f) /\ a >= 2^(f.va - 1) THEN 2^f.word - 2^f.va + a ELSE a : a \in tables}
        \cup PageStarts(f, f.pfn, PoolEnd(f, memory))
        \cup PageStarts(f, f.systemPtes, f.systemPtes + f.ptes * PageBytes(f))
        \cup {f.hyper, f.shared, HighestAddress(f)}

(* The self-map: at every step and for every address the functions of the  *)
(* page map give the addresses at which the processor's own walk finds the *)
(* entries of each level, these give the address back, and AddressValid    *)
(* says whether the walk reaches a page.                                   *)
SelfMapExact(f, t, memory) ==
    \A a \in Addresses(f, memory) :
        /\ \A k \in 0..TopLevel(f) :
              LET p == EntryAddress(f, k, a)
              IN  /\ FrameAt(f, t, p) = OnTheWay(f, t, a)[k + 1]
                  /\ SlotAt(f, p) = IndexOf(f, k, a)
                  /\ VirtualOf(f, k, p) = a - (a % 2^LevelShift(f, k))
        /\ AddressValid(f, t, a) <=> FrameAt(f, t, a) # Absent
        /\ CanonicalAddress(f, a)

InLowerHalf(f, t, e) ==
    IF f.levels = 3 THEN e[1] \in {t.mem[t.root][0], t.mem[t.root][1]}
    ELSE e[2] < 2^(f.root - 1)

(* What each step has to leave mapped: loaded memory, the shared page, the *)
(* tables of the PTE pools, hyperspace and paged pool, the pages of the    *)
(* pool and a record for every frame; and nothing of the loader's in the   *)
(* lower half.                                                             *)
Tabled(f, t, k, lo, hi) ==
    \A p \in {EntryRange(f, k, lo, hi)[i] : i \in DOMAIN EntryRange(f, k, lo, hi)} :
        ReadEntry(f, t, p) # Absent
RegionsBacked(f, t, memory) ==
    /\ \A i \in DOMAIN memory : memory[i].type = "system" =>
           \A x \in PagesIn(memory[i]) : FrameAt(f, t, KsegAddress(f, x)) = x
    /\ Since("shared") =>
           \E i \in DOMAIN memory : memory[i].type = "hardware"
                                    /\ FrameAt(f, t, f.shared) = memory[i].base
    /\ Since("tables") =>
           /\ \A e \in EntriesInUse(f, t)[TopLevel(f)] : ~InLowerHalf(f, t, e)
           /\ Is64(f) => /\ Tabled(f, t, 2, f.paged, f.pagedEnd)
                         /\ FrameAt(f, t, f.hyper) = HyperPages
    /\ Since("ptes") =>
           /\ Tabled(f, t, 1, f.systemPtes, f.systemPtes + f.ptes * PageBytes(f))
           /\ FrameAt(f, t, Zeroing(f)) = ZeroPtes
    /\ Since("pool") =>
           /\ \A a \in PageStarts(f, PoolStart(f, memory), PoolEnd(f, memory) - 1) :
                 FrameAt(f, t, a) # Absent
           /\ Tabled(f, t, 1, ExpansionStart(f, memory), ExpansionEnd(f, memory))
    /\ Since("database") =>
           \A x \in FramesOf(memory) : FrameAt(f, t, PfnAddress(f, x)) # Absent

(* A frame given for a table or a page has one entry that holds it, until  *)
(* the free block is restored: the frames given after that were given      *)
(* before, and are zeroed although they are in use.                        *)
GivenFramesHeld(f, t, memory) ==
    LET free == memory[FreeDescriptor(memory)]
        twice == {x \in PagesIn(free) : t.given[x] > 1}
    IN  /\ pageStep # "started" =>
               \A x \in PagesIn(free) : t.given[x] = Cardinality(HeldBy(f, t, x))
        /\ twice = IF pageStep = "started" THEN free.base..(t.base - 1) ELSE {}

(* Records: memory is filed by its type, and no free frame is held but the *)
(* ones taken after the free block was linked.                             *)
FramesFiled(f, t, memory) ==
    LET free == memory[FreeDescriptor(memory)]
        used == {x \in PagesIn(free) : t.given[x] > 0} \ t.late
        Expected(x, d) ==
            CASE d.type \in FreeTypes -> t.pfn[x].at = (IF x \in used THEN "active" ELSE "free")
              [] d.type = "bad" -> t.pfn[x].at = "bad"
              [] OTHER -> t.pfn[x].at = "active"
    IN  Since("used") =>
            /\ \A i \in Visible(memory) : \A x \in PagesIn(memory[i]) : Expected(x, memory[i])
            /\ pageStep # "started" =>
                   {x \in FramesOf(memory) : t.pfn[x].at = "free" /\ HeldBy(f, t, x) # {}} = t.late
            /\ pageStep = "started" => FrameAt(f, t, RealModePage(memory) * PageBytes(f))
                                         = RealModePage(memory)

(* After the scan the record of an active frame that an entry holds names  *)
(* such an entry and the table it is in.  A share count is one, for a      *)
(* descriptor or the root, and one for every time the scan sees an entry   *)
(* that holds the frame or that is in it: an entry of level k is seen at   *)
(* its level and, through the self-map, at every level below.              *)
RecordsLinked(f, t) ==
    LET entries == EntriesInUse(f, t)
        Seen(P(_)) ==
            LET sum[k \in 0..f.levels] ==
                    IF k = 0 THEN 0 ELSE sum[k - 1] + k * Cardinality({e \in entries[k - 1] : P(e)})
            IN  sum[f.levels]
        At(e) == t.mem[e[1]][e[2]]
    IN  pageStep = "linked" /\ f.levels # 3 =>
            \A x \in DOMAIN t.pfn :
                LET r == t.pfn[x]
                    held == \E k \in 0..(f.levels - 1) : \E e \in entries[k] : At(e) = x
                IN  /\ r.at = "active" =>
                           IF held THEN /\ ReadEntry(f, t, r.pte) = x
                                        /\ r.parent = FrameAt(f, t, r.pte)
                           ELSE /\ r.pte = EntryAddress(f, 0, KsegAddress(f, x))
                                /\ r.ref = 1
                    /\ r.share = (IF r.at = "active" THEN 1 + Seen(LAMBDA e : At(e) = x) ELSE 0)
                                 + Seen(LAMBDA e : e[1] = x)

(* The boot faults in one case only: the pool ends where a page table ends *)
(* on i686, and the PTE of the page after it is read.                      *)
FaultsAtPoolEnd(f, t, memory) ==
    LET edge == ~Is64(f) /\ PoolEnd(f, memory) % 2^LevelShift(f, 1) = 0
    IN  /\ t.status = "fault" => pageStep = "pool" /\ edge
        /\ t.status = "ok" => ~(Since("pool") /\ edge)

(* The page tables and the PFN database that the boot makes are sound at   *)
(* every step, but for the frames and the fault named above                *)
(* (InitializeMemoryManager, PageMap, ScanPageTable).                      *)
TablesSound ==
    LET f == PageFormats[pageFormat]
        memory == BootMemories[bootMemory]
        t == pageTables
    IN  pageStep # "reset" =>
            /\ FaultsAtPoolEnd(f, t, memory)
            /\ Alive(t) => /\ SelfMapExact(f, t, memory)
                             /\ (pageStep # "started" => RegionsBacked(f, t, memory))
                             /\ GivenFramesHeld(f, t, memory)
                             /\ FramesFiled(f, t, memory)
                             /\ RecordsLinked(f, t)
=============================================================================
