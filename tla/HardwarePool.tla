---------------------------- MODULE HardwarePool ----------------------------
(***************************************************************************)
(* The hardware pool, mm/hlpool.cc: physical pages taken from the boot     *)
(* loader's memory descriptors, and a range of addresses at the top of the *)
(* address space in which device memory and ACPI tables are mapped.        *)
(*                                                                         *)
(* Pages of the range are numbered from MM_HARDWARE_HEAP_START_ADDRESS on; *)
(* the address after the last one is 0.                                    *)
(***************************************************************************)
EXTENDS Integers, Sequences

CONSTANTS Memory,       \* sequence of the loader's descriptors
          Align,        \* pages an aligned request is aligned to, 16
          Descriptors,  \* MM_HARDWARE_ALLOCATION_DESCRIPTORS
          Requests,     \* set of [count, aligned, max], what is asked for
          HeapPages,    \* pages from the start of the range to its end
          Fixed,        \* those mapped by other code: APIC, shared data
          Sizes         \* pages that callers map

ASSUME HardwareAssumption ==
    /\ Align \in Nat \ {0} /\ Descriptors \in Nat /\ HeapPages \in Nat
    /\ Fixed \subseteq 0..(HeapPages - 1) /\ Sizes \subseteq Nat \ {0}
    /\ \A q \in Requests : q.count \in Nat /\ q.aligned \in BOOLEAN

(* The boot loader sorts its descriptors, and has no hardware memory.      *)
ASSUME MemoryAssumption ==
    /\ Memory \in Seq([base : Nat, count : Nat, type : {"free", "used"}])
    /\ \A i, j \in 1..Len(Memory) : i < j => Memory[i].base + Memory[i].count <= Memory[j].base

VARIABLES descriptors,  \* LoaderMemoryDescriptors, in the order of their addresses
          usedDescriptors, \* UsedHardwareAllocationDescriptors
          buffers,      \* the ranges handed out, sequence of
                        \* [base, count, aligned]
          heapStart,    \* HardwareHeapStart
          mappings,     \* the mappings callers hold, set of [base, count]
          wrapped       \* history: a mapping went past the end of the range

hardwareVars == <<descriptors, usedDescriptors, buffers, heapStart, mappings, wrapped>>

HardwareInit ==
    /\ descriptors = Memory
    /\ usedDescriptors = 0 /\ buffers = <<>>
    /\ heapStart = 0 /\ mappings = {} /\ wrapped = FALSE

PagesOf(r) == r.base..(r.base + r.count - 1)
Extent(b, n, t) == [base |-> b, count |-> n, type |-> t]

(* What has to be skipped to align a descriptor; the search goes from the  *)
(* last descriptor to the first and never takes page 0.                    *)
Skip(d, q) == IF q.aligned THEN (0 - d.base) % Align ELSE 0
Usable(q) ==
    {i \in DOMAIN descriptors :
        LET d == descriptors[i]
        IN  /\ d.type = "free" /\ d.base # 0
            /\ d.base + q.count + Skip(d, q) < q.max
            /\ d.count >= q.count + Skip(d, q)}

(* The descriptors that take the place of d: what is skipped, the buffer,  *)
(* and the rest, which shrinks in place when nothing is skipped.           *)
PiecesUnskipped(d, q) ==
    <<Extent(d.base, q.count, "hardware")>> \o
    (IF d.count = q.count THEN <<>> ELSE <<Extent(d.base + q.count, d.count - q.count, "free")>>)

RestOf(d, q) == d.count - Skip(d, q) - q.count
RestAfter(d, q) ==
    IF RestOf(d, q) = 0 THEN <<>>
    ELSE <<Extent(d.base + Skip(d, q) + q.count, RestOf(d, q), "free")>>

Pieces(d, q) ==
    IF Skip(d, q) = 0 THEN PiecesUnskipped(d, q)
    ELSE <<Extent(d.base, Skip(d, q), "free"),
           Extent(d.base + Skip(d, q), q.count, "hardware")>> \o RestAfter(d, q)

ReplaceBy(s, i, pieces) == SubSeq(s, 1, i - 1) \o pieces \o SubSeq(s, i + 1, Len(s))

AllocateHardwareMemory(q) ==
    /\ usedDescriptors + 2 <= Descriptors
    /\ Usable(q) # {}
    /\ LET i == CHOOSE x \in Usable(q) : \A y \in Usable(q) : y <= x
           d == descriptors[i]
       IN  /\ descriptors' = ReplaceBy(descriptors, i, Pieces(d, q))
           /\ usedDescriptors' = usedDescriptors +
                  (IF Skip(d, q) # 0 /\ RestOf(d, q) # 0 THEN 2 ELSE 1)
           /\ buffers' = Append(buffers, [base |-> d.base + Skip(d, q), count |-> q.count,
                                              aligned |-> q.aligned])
    /\ UNCHANGED <<heapStart, mappings, wrapped>>

----------------------------------------------------------------------------
(* The range.  PteValid of a page; what lies past its end is not mapped.   *)
Valid(p) == p \in Fixed \/ \E r \in mappings : p \in PagesOf(r)

(* MapHardwareMemory looks, from the start noted, for the first run of     *)
(* pages that are not mapped.  It fails when the run would begin at the    *)
(* address after the last one, which is 0, but a run that has begun goes   *)
(* on past it.                                                             *)
Runs(n) == {b \in heapStart..(HeapPages - 1) : \A p \in b..(b + n - 1) : ~Valid(p)}

MapHardwareMemory(n) ==
    /\ ~wrapped
    /\ Runs(n) # {}
    /\ LET b == CHOOSE x \in Runs(n) : \A y \in Runs(n) : x <= y
       IN  /\ mappings' = mappings \cup {[base |-> b, count |-> n]}
           /\ heapStart' = IF b = heapStart THEN b + n ELSE heapStart
           /\ wrapped' = (b + n > HeapPages)
    /\ UNCHANGED <<descriptors, usedDescriptors, buffers>>

(* UnmapHardwareMemory lowers the start again.  When the range has been    *)
(* used up to its very end the start is 0, below every address.            *)
LoweredNever(b) == heapStart
Lowered(b) == IF heapStart # HeapPages /\ heapStart > b THEN b ELSE heapStart

UnmapHardwareMemory(r) ==
    /\ ~wrapped
    /\ mappings' = mappings \ {r}
    /\ heapStart' = Lowered(r.base)
    /\ UNCHANGED <<descriptors, usedDescriptors, buffers, wrapped>>

HardwareNext ==
    \/ \E q \in Requests : AllocateHardwareMemory(q)
    \/ \E n \in Sizes : MapHardwareMemory(n)
    \/ \E r \in mappings : UnmapHardwareMemory(r)

HardwareSpec == HardwareInit /\ [][HardwareNext]_hardwareVars

----------------------------------------------------------------------------
(* The pages of the loader's descriptors of a type.                        *)
Covered(ds, t) == UNION {PagesOf(ds[i]) : i \in {j \in DOMAIN ds : ds[j].type = t}}

(* The descriptors stay in the order of their addresses, do not overlap    *)
(* and describe the same pages as before, however they are split: what was *)
(* handed out is hardware memory, never free, aligned if asked, and never  *)
(* begins at page 0.                                                       *)
DescriptorsTile ==
    /\ \A i \in 1..(Len(descriptors) - 1) :
          descriptors[i].base + descriptors[i].count <= descriptors[i + 1].base
    /\ Covered(descriptors, "used") = Covered(Memory, "used")
    /\ Covered(descriptors, "hardware") = UNION {PagesOf(buffers[i]) : i \in DOMAIN buffers}
    /\ Covered(descriptors, "free") = Covered(Memory, "free") \ Covered(descriptors, "hardware")
    /\ \A i, j \in DOMAIN buffers : i # j => PagesOf(buffers[i]) \cap PagesOf(buffers[j]) = {}
    /\ \A i \in DOMAIN buffers :
          /\ buffers[i].base # 0
          /\ buffers[i].aligned => buffers[i].base % Align = 0
    /\ usedDescriptors <= Descriptors

(* No two mappings overlap, or go over what other code has mapped, and no  *)
(* page below the start noted is forgotten: until the range has been used  *)
(* up to its end, everything below the start is mapped.  A mapping goes    *)
(* past the end only if no run within the range was long enough.           *)
MappingsExact ==
    /\ \A r \in mappings : PagesOf(r) \cap Fixed = {}
    /\ \A r, t \in mappings : r # t => PagesOf(r) \cap PagesOf(t) = {}
    /\ heapStart < HeapPages => \A p \in 0..(heapStart - 1) : Valid(p)
    /\ wrapped =>
         \A r \in {m \in mappings : m.base + m.count > HeapPages} :
            \A b \in 0..(HeapPages - r.count) :
                \E p \in b..(b + r.count - 1) : p \in PagesOf(r) \/ Valid(p)

HardwarePoolSound == DescriptorsTile /\ MappingsExact
=============================================================================
