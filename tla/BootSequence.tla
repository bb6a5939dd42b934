---------------------------- MODULE BootSequence ----------------------------
(***************************************************************************)
(* How the XTOS boot module prepares memory for the kernel and hands over, *)
(* RunBootSequence of modules/xtos_o/xtos.cc with the page map of          *)
(* arch/amd64/memory.cc: the firmware's memory map is mapped, then the     *)
(* kernel image, the local APIC and what the loader itself runs on; page   *)
(* tables are built from the list twice, before and after the pages of the *)
(* kernel initialization block; the list is handed over as descriptors.    *)
(*                                                                         *)
(* Page tables are abstracted to one table page for each TableSpan pages   *)
(* of addresses, below a root page.                                        *)
(***************************************************************************)
EXTENDS LoaderMemory, FiniteSets

CONSTANTS EfiMaps,      \* the memory maps firmware may give
          Trampoline,   \* page of MM_TRAMPOLINE_ADDRESS
          ApicPage, ApicVa,     \* the page of the local APIC, that of APIC_BASE
          KernelVa,     \* KSEG0_BASE + 0x800000000, where the kernel is put
          KernelPages,  \* pages of its image
          FilePages,    \* pages of the file it is in
          LoaderImage,  \* [start, pages], the loader
          FrameBuffers, \* set of [start, pages]; 0 pages: no frame buffer
          HardwareTables, \* regions MapHardwareMemoryPool gives tables
          TableSpan,    \* pages that one table maps
          PerPage       \* memory descriptors that fit in a page

VARIABLES efiMap,       \* the memory map at the time of MapEfiMemory
          fromTop,      \* where the firmware takes pages first
          frameBuffer,  \* the frame buffer it has
          phase,        \* how far RunBootSequence has come
          list,         \* PageMap->MemoryMap
          taken,        \* pages that AllocatePages has returned
          kernelFile,   \* those of them that the kernel's file was read into
          tables,       \* regions that have a page table
          ptes,         \* the page table entries: address page -> page
          cursor,       \* where CommitPageMap is: the mapping's start, pages done
          virtual,      \* VirtualAddress, the next free address
          block,        \* the pages for block, resources and descriptors
          ignored       \* history: a failure went unnoticed

firmware == <<efiMap, fromTop, frameBuffer>>
bootVars == <<firmware, phase, list, taken, kernelFile, tables, ptes, cursor,
              virtual, block, ignored>>

NoBlock == [block |-> 0, resources |-> 0, descriptors |-> 0, pages |-> 0]
NoCursor == [start |-> -1, done |-> 0]

BootInit ==
    /\ efiMap \in EfiMaps /\ fromTop \in BOOLEAN /\ frameBuffer \in FrameBuffers
    /\ phase = "idle" /\ list = <<>> /\ taken = {} /\ kernelFile = {}
    /\ tables = {} /\ ptes = <<>>
    /\ cursor = NoCursor /\ virtual = 0 /\ block = NoBlock /\ ignored = FALSE

(* AllocatePages takes pages that the firmware has as conventional memory, *)
(* from the top or from the bottom, and never takes page 0.                *)
Conventional ==
    UNION {efiMap[i].start..(efiMap[i].start + efiMap[i].pages - 1) :
            i \in {j \in DOMAIN efiMap : efiMap[j].type = "conventional"}} \ {0}
RunsOf(n, used) == {p \in Conventional : p..(p + n - 1) \subseteq Conventional \ used}
AllocateBeside(n, used) ==
    LET runs == RunsOf(n, used)
    IN  {p \in runs : \A q \in runs : IF fromTop THEN p >= q ELSE p <= q}
AllocatePages(n) == AllocateBeside(n, taken)
Take(p, n) == taken' = taken \cup p..(p + n - 1)

Fail ==
    /\ phase' = "failed"
    /\ UNCHANGED <<firmware, list, taken, kernelFile, tables, ptes, cursor, virtual, block, ignored>>

(* MapEfiMemory, then the addresses above all that is mapped to KSEG0.     *)
MapFirmwareMemory ==
    /\ phase = "idle"
    /\ LET r == MapEfiMemory(efiMap)
       IN  \/ r.status # "ok" /\ Fail
           \/ /\ r.status = "ok" /\ list' = r.list
              /\ phase' = "kernel" /\ virtual' = KernelVa
              /\ UNCHANGED <<firmware, taken, kernelFile, tables, ptes, cursor, block, ignored>>

(* LoadImage takes pages for the kernel's file, then those of its image,   *)
(* which is mapped.  It tries to give back the pages of the file and does  *)
(* not, for it passes their number for the address: they stay allocated,   *)
(* while the list, which is older, has them as free memory.  Then the      *)
(* local APIC, whose mapping nobody asks about.                            *)
ImageRequest(p) == <<Mapping(virtual, p, KernelPages, "code")>>
ApicRequest == <<Mapping(ApicVa, ApicPage, 1, "permanent")>>
FileAt(f) == f..(f + FilePages - 1)
Loadings ==
    UNION {{[file |-> f, image |-> p] : p \in AllocateBeside(KernelPages, taken \cup FileAt(f))} :
            f \in AllocatePages(FilePages)}

MapKernelImage ==
    /\ phase = "kernel"
    /\ \/ Loadings = {} /\ Fail
       \/ \E l \in Loadings :
            LET r == MapEach(list, ImageRequest(l.image))
                apic == MapEach(r.list, ApicRequest)
            IN  \/ r.status # "ok" /\ Fail
                \/ /\ r.status = "ok"
                   /\ kernelFile' = FileAt(l.file)
                   /\ taken' = taken \cup kernelFile' \cup l.image..(l.image + KernelPages - 1)
                   /\ list' = apic.list
                   /\ ignored' = (apic.status # "ok")
                   /\ virtual' = virtual + KernelPages
                   /\ phase' = "tables"
                   /\ UNCHANGED <<firmware, tables, ptes, cursor, block>>

(* BuildPageMap: the root page, and what has to stay where it is: the      *)
(* trampoline, the images of the modules, and the loader.                  *)
Identity(r) == Mapping(r.start, r.start, r.pages, "temporary")
BuildRequests(p, images) ==
    <<Mapping(0, p, 1, "data"), Identity([start |-> Trampoline, pages |-> 1])>>
    \o [i \in DOMAIN images |-> Identity(images[i])] \o <<Identity(LoaderImage)>>

BuildPageMap(images) ==
    /\ phase = "tables"
    /\ \/ AllocatePages(1) = {} /\ Fail
       \/ \E p \in AllocatePages(1) :
            LET r == MapEach(list, BuildRequests(p, images))
            IN  \/ r.status # "ok" /\ Fail
                \/ /\ r.status = "ok"
                   /\ Take(p, 1) /\ list' = r.list
                   /\ phase' = "hardware"
                   /\ UNCHANGED <<firmware, kernelFile, tables, ptes, cursor, virtual, block, ignored>>

(* MapHardwareMemoryPool: tables for the hardware pool; whether they get   *)
(* into the list is not asked.                                             *)
Unbacked == HardwareTables \ tables
MapHardwareMemoryPool ==
    /\ phase = "hardware" /\ Unbacked # {}
    /\ \/ AllocatePages(1) = {} /\ Fail
       \/ \E p \in AllocatePages(1) :
            LET r == MapVirtualMemory(list, 0, p, 1, "data")
                region == CHOOSE t \in Unbacked : \A u \in Unbacked : t <= u
            IN  /\ Take(p, 1) /\ list' = r.list
                /\ ignored' = (ignored \/ r.status # "ok")
                /\ tables' = tables \cup {region}
                /\ UNCHANGED <<firmware, kernelFile, phase, ptes, cursor, virtual, block>>

HardwareMapped ==
    /\ phase = "hardware" /\ Unbacked = {}
    /\ phase' = "commit1"
    /\ UNCHANGED <<firmware, list, taken, kernelFile, tables, ptes, cursor, virtual, block, ignored>>

----------------------------------------------------------------------------
(* CommitPageMap walks the list, which its own tables change under way.    *)
Committing == phase \in {"commit1", "commit2"}
AfterCommit == IF phase = "commit1" THEN "block" ELSE "descriptors"
Position(s) == CHOOSE i \in DOMAIN list : list[i].start = s
Passed(i) == IF cursor.start = -1 THEN FALSE ELSE i <= Position(cursor.start)
Later == {i \in DOMAIN list : list[i].va # 0 /\ ~Passed(i)}
Current == list[Position(cursor.start)]
CurrentDone == IF cursor.start = -1 THEN TRUE ELSE cursor.done = Current.end - Current.start

NextMapping ==
    /\ Committing /\ CurrentDone
    /\ \/ /\ Later # {}
          /\ LET i == CHOOSE x \in Later : \A y \in Later : x <= y
             IN  cursor' = [start |-> list[i].start, done |-> 0]
          /\ UNCHANGED phase
       \/ Later = {} /\ cursor' = NoCursor /\ phase' = AfterCommit
    /\ UNCHANGED <<firmware, list, taken, kernelFile, tables, ptes, virtual, block, ignored>>

(* MapPage: the pages of the mapping that one table holds.                 *)
NextVa == Current.va + cursor.done
Region == NextVa \div TableSpan
InRegion == {k \in cursor.done..(Current.end - Current.start - 1) :
                (Current.va + k) \div TableSpan = Region}

MapPages ==
    /\ Committing /\ ~CurrentDone /\ Region \in tables
    /\ LET new == [v \in {Current.va + k : k \in InRegion} |-> Current.start + (v - Current.va)]
       IN  ptes' = [v \in DOMAIN ptes \cup DOMAIN new |->
                        IF v \in DOMAIN new THEN new[v] ELSE ptes[v]]
    /\ cursor' = [cursor EXCEPT !.done = @ + Cardinality(InRegion)]
    /\ UNCHANGED <<firmware, phase, list, taken, kernelFile, tables, virtual, block, ignored>>

(* GetNextPageTable: a page for a table that is missing, noted in the      *)
(* list; when that fails CommitPageMap stops, and nobody asks.             *)
Unclaimed(p) == Success(list)
Claimed(p) == MapVirtualMemory(list, 0, p, 1, "data")

GetNextPageTable ==
    /\ Committing /\ ~CurrentDone /\ Region \notin tables
    /\ \E p \in AllocatePages(1) :
        /\ Take(p, 1)
        /\ list' = Claimed(p).list
        /\ IF Claimed(p).status = "ok"
           THEN tables' = tables \cup {Region} /\ UNCHANGED <<phase, cursor, ignored>>
           ELSE phase' = AfterCommit /\ cursor' = NoCursor /\ ignored' = TRUE /\ UNCHANGED tables
    /\ UNCHANGED <<firmware, kernelFile, ptes, virtual, block>>

CommitFails ==
    /\ Committing /\ ~CurrentDone /\ Region \notin tables
    /\ AllocatePages(1) = {}
    /\ phase' = AfterCommit /\ cursor' = NoCursor /\ ignored' = TRUE
    /\ UNCHANGED <<firmware, list, taken, kernelFile, tables, ptes, virtual, block>>

----------------------------------------------------------------------------
(* InitializeLoaderBlock between the two commits: a page for the block,    *)
(* one for the resources, and pages for twice the descriptors there are.   *)
DescriptorPages == (2 * Len(list) + PerPage - 1) \div PerPage
Blocks ==
    UNION {UNION {{[block |-> p, resources |-> q, descriptors |-> d, pages |-> DescriptorPages] :
                    d \in AllocateBeside(DescriptorPages, taken \cup {p, q})} :
                q \in AllocateBeside(1, taken \cup {p})} : p \in AllocatePages(1)}
BlockPages(b) == {b.block, b.resources} \cup b.descriptors..(b.descriptors + b.pages - 1)

AllocateBlock ==
    /\ phase = "block" /\ block.pages = 0
    /\ \/ Blocks = {} /\ Fail
       \/ \E b \in Blocks :
            /\ block' = b
            /\ taken' = taken \cup BlockPages(b)
            /\ UNCHANGED <<firmware, kernelFile, phase, list, tables, ptes, cursor, virtual, ignored>>

BlockRequests ==
    <<Mapping(virtual, block.block, 1, "block"),
      Mapping(virtual + 1, block.resources, 1, "permanent")>>
    \o (IF frameBuffer.pages = 0 THEN <<>>
        ELSE <<Mapping(virtual + 2, frameBuffer.start, frameBuffer.pages, "permanent")>>)
    \o <<Mapping(virtual + 2 + frameBuffer.pages, block.descriptors, block.pages, "data")>>

(* Each request is made whatever became of the one before.                 *)
RECURSIVE MapAll(_, _)
MapAll(r, requests) ==
    IF requests = <<>> THEN r
    ELSE LET one == Place(r.list, 1, Head(requests))
         IN  MapAll([status |-> IF one.status = "ok" THEN r.status ELSE "invalid",
                     list |-> one.list], Tail(requests))

MapBlock ==
    /\ phase = "block" /\ block.pages # 0
    /\ LET r == MapAll(Success(list), BlockRequests)
       IN  list' = r.list /\ ignored' = (ignored \/ r.status # "ok")
    /\ virtual' = virtual + 2 + frameBuffer.pages + block.pages
    /\ phase' = "commit2"
    /\ UNCHANGED <<firmware, taken, kernelFile, tables, ptes, cursor, block>>

(* GetSystemResourcesList fails without a frame buffer; otherwise the      *)
(* descriptors are written, linked at their virtual addresses, and the     *)
(* kernel is entered.                                                      *)
DescriptorsVa == GetVirtualAddress(list, block.descriptors)
HandOver ==
    /\ phase = "descriptors"
    /\ phase' = IF frameBuffer.pages = 0 THEN "failed" ELSE "kernel entered"
    /\ UNCHANGED <<firmware, list, taken, kernelFile, tables, ptes, cursor, virtual, block, ignored>>

BootNext(images) ==
    \/ MapFirmwareMemory \/ MapKernelImage \/ BuildPageMap(images)
    \/ MapHardwareMemoryPool \/ HardwareMapped
    \/ NextMapping \/ MapPages \/ GetNextPageTable \/ CommitFails
    \/ AllocateBlock \/ MapBlock \/ HandOver

----------------------------------------------------------------------------
Prepared == phase \notin {"idle", "failed"}
EfiPages(P(_)) ==
    UNION {efiMap[i].start..(efiMap[i].start + efiMap[i].pages - 1) :
            i \in {j \in DOMAIN efiMap : P(efiMap[j].type)}}

(* However ranges are cut out of one another, the list stays in order and  *)
(* without overlaps, has every page the firmware described, and what is in *)
(* use by the firmware keeps the type it had.                              *)
ListSound ==
    Prepared =>
        /\ ListSorted(list)
        /\ EfiPages(LAMBDA t : t # "reserved") \subseteq AllPages(list)
        /\ \A type \in {"special", "permanent", "temporary"} :
              EfiPages(LAMBDA t : t # "reserved" /\ GetLoaderMemoryType(t) = type)
                \subseteq PagesOfType(list, type)

(* When the kernel is entered and no failure went unnoticed: no page that  *)
(* AllocatePages returned is handed over as free memory, except those of   *)
(* the kernel's file, which are allocated to the end and free in the list  *)
(* and which nobody reads any more; the descriptors fit in their pages,    *)
(* and the page tables have every mapping of the list, which the second    *)
(* commit has to complete with what the first one and the block changed,   *)
(* and with it all that runs while paging is switched on.                  *)
HandoverSound(images) ==
    phase = "kernel entered" /\ ~ignored =>
        /\ (taken \ kernelFile) \cap PagesOfType(list, "free") = {}
        /\ Len(list) <= block.pages * PerPage
        /\ \A i \in DOMAIN list :
              list[i].va # 0 =>
                \A k \in 0..(list[i].end - list[i].start - 1) :
                    /\ list[i].va + k \in DOMAIN ptes
                    /\ ptes[list[i].va + k] = list[i].start + k
        /\ \A p \in UNION {r.start..(r.start + r.pages - 1) : r \in images \cup {LoaderImage}}
                \cup {Trampoline} : p \in DOMAIN ptes /\ ptes[p] = p
        /\ DescriptorsVa \in DOMAIN ptes /\ ptes[DescriptorsVa] = block.descriptors
=============================================================================
