---------------------------- MODULE LoaderMemory ----------------------------
(***************************************************************************)
(* The page map of the boot loader, memory.cc: a list of mappings in the   *)
(* order of their physical addresses, made from the firmware's memory map  *)
(* and then refined by every range the loader claims.                      *)
(*                                                                         *)
(* A mapping is [start, end, type, va]: pages start..end-1 at the pages    *)
(* from va on, where 0 is the null address and means not mapped.  An edit  *)
(* of the list yields [status, list]: a request that is refused halfway    *)
(* leaves the list as far as it was edited.  EFI_PAGE_SIZE is 1.           *)
(***************************************************************************)
EXTENDS Integers, Sequences

CONSTANTS Kseg0,        \* page of KSEG0_BASE
          HolePage, HolePages   \* the legacy range at 0xA0000, 0x60 pages

Mapping(va, first, pages, type) ==
    [start |-> first, end |-> first + pages, type |-> type, va |-> va]
Success(l) == [status |-> "ok", list |-> l]
Refused(l) == [status |-> "invalid", list |-> l]

(* How the new range m lies to the mapping b: in it, ending in it,         *)
(* starting inside it, covering it.                                        *)
Inside(m, b) == m.start >= b.start /\ m.end <= b.end
EndsIn(m, b) == m.end > b.start /\ m.end <= b.end
StartsIn(m, b) == m.start > b.start /\ m.start < b.end
Covers(m, b) == (b.start >= m.start /\ b.end <= m.end) \/ b.start = b.end

(* Free memory is cut where the new range begins and ends.                 *)
FreePiece(a, z) == IF a < z THEN <<Mapping(0, a, z - a, "free")>> ELSE <<>>
CutEnd(m, b) == IF EndsIn(m, b) THEN m.end ELSE b.end
Kept(m, b) == [b EXCEPT !.end = IF StartsIn(m, b) THEN m.start ELSE CutEnd(m, b)]
CutOffShort(m, b) == IF StartsIn(m, b) THEN FreePiece(m.start, CutEnd(m, b)) ELSE <<>>
CutOff(m, b) ==
    (IF StartsIn(m, b) THEN FreePiece(m.start, CutEnd(m, b)) ELSE <<>>)
    \o (IF EndsIn(m, b) THEN FreePiece(m.end, b.end) ELSE <<>>)

Before(l, i) == SubSeq(l, 1, i - 1)
From(l, i) == SubSeq(l, i, Len(l))
Split(l, i, m) == Before(l, i) \o <<Kept(m, l[i])>> \o CutOff(m, l[i]) \o From(l, i + 1)

(* The loop of MapVirtualMemory from the i-th mapping on.                  *)
RECURSIVE Place(_, _, _)
Place(l, i, m) ==
    IF i > Len(l) THEN Success(Append(l, m))
    ELSE IF Inside(m, l[i]) /\ m.type = l[i].type THEN Success(l)
    ELSE IF (EndsIn(m, l[i]) \/ StartsIn(m, l[i]) \/ Covers(m, l[i])) /\ l[i].type # "free"
         THEN Refused(l)
    ELSE LET cut == Split(l, i, m)
         IN  IF Covers(m, cut[i]) THEN Place(Before(cut, i) \o From(cut, i + 1), i, m)
             ELSE IF cut[i].start > m.start THEN Success(Before(cut, i) \o <<m>> \o From(cut, i))
             ELSE Place(cut, i + 1, m)

MapVirtualMemory(l, va, first, pages, type) == Place(l, 1, Mapping(va, first, pages, type))

(* A series of requests, given as mappings, up to the first one refused.   *)
RECURSIVE MapEach(_, _)
MapEach(l, requests) ==
    IF requests = <<>> THEN Success(l)
    ELSE LET r == Place(l, 1, Head(requests))
         IN  IF r.status = "ok" THEN MapEach(r.list, Tail(requests)) ELSE r

----------------------------------------------------------------------------
GetLoaderMemoryType(t) ==
    CASE t \in {"nvs", "acpi", "pal", "reserved"} -> "special"
      [] t \in {"rtcode", "rtdata", "mmio"} -> "permanent"
      [] t \in {"bsdata", "ldcode", "lddata"} -> "temporary"
      [] t = "unusable" -> "bad"
      [] OTHER -> "free"

(* What is mapped of a firmware descriptor [type, start, pages]: reserved  *)
(* memory is not; what the loader runs on stays where it is, the rest goes *)
(* to KSEG0 (IdentityMapping, which amd64 uses; page map levels 4 and 5    *)
(* have no highest address); free memory is not mapped.                    *)
Address(d, t) ==
    CASE t = "temporary" -> d.start
      [] t = "free" -> 0
      [] OTHER -> d.start + Kseg0
Request(d) ==
    LET t == GetLoaderMemoryType(d.type) IN Mapping(Address(d, t), d.start, d.pages, t)
NotReserved(d) == d.type # "reserved"

FirmwareRequests(memoryMap) ==
    LET described == SelectSeq(memoryMap, NotReserved)
    IN  [i \in DOMAIN described |-> Request(described[i])]

(* MapEfiMemory: the descriptors in the order the firmware has them, then  *)
(* page 0 and the legacy range, which are never free.                      *)
LowRequests == <<Mapping(0, 0, 1, "permanent"), Mapping(0, HolePage, HolePages, "permanent")>>
MapEfiMemory(memoryMap) == MapEach(<<>>, FirmwareRequests(memoryMap) \o LowRequests)

----------------------------------------------------------------------------
(* GetVirtualAddress: through the first mapping that has the page.         *)
GetVirtualAddress(l, p) ==
    LET has == {i \in DOMAIN l : l[i].va # 0 /\ p >= l[i].start /\ p < l[i].end}
        first == CHOOSE i \in has : \A j \in has : i <= j
    IN  IF has = {} THEN 0 ELSE p - l[first].start + l[first].va

PagesIn(b) == b.start..(b.end - 1)
PagesOfType(l, t) == UNION {PagesIn(l[i]) : i \in {j \in DOMAIN l : l[j].type = t}}
AllPages(l) == UNION {PagesIn(l[i]) : i \in DOMAIN l}

(* The list is sorted, and no page is in two mappings.                     *)
ListSorted(l) ==
    /\ \A i \in DOMAIN l : l[i].start < l[i].end
    /\ \A i \in DOMAIN l \ {Len(l)} : l[i].end <= l[i + 1].start

(* What a request promises, page by page: a range of one type in one       *)
(* mapping stays; any other range must be free or unknown, becomes one     *)
(* mapping, and nothing else changes.  A refused one changes no page that  *)
(* lies outside the range.                                                 *)
At(l, p) ==
    LET i == CHOOSE i \in DOMAIN l : p \in PagesIn(l[i])
    IN  IF p \in AllPages(l)
        THEN [type |-> l[i].type, va |-> IF l[i].va = 0 THEN 0 ELSE l[i].va + p - l[i].start]
        ELSE [type |-> "none", va |-> 0]

Present(l, m) == \E i \in DOMAIN l : Inside(m, l[i]) /\ l[i].type = m.type
Claimable(l, m) == \A p \in PagesIn(m) : At(l, p).type \in {"free", "none"}

ClaimKept(l, m) ==
    LET r == Place(l, 1, m)
    IN  /\ (r.status = "ok") = (Present(l, m) \/ Claimable(l, m))
        /\ Present(l, m) => r.list = l
        /\ \A p \in AllPages(l) \ PagesIn(m) : At(r.list, p) = At(l, p)
        /\ ~Present(l, m) /\ Claimable(l, m) => m \in {r.list[i] : i \in DOMAIN r.list}
        /\ ListSorted(r.list)
=============================================================================
