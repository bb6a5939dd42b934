---------------------------- MODULE NonPagedPages ----------------------------
(***************************************************************************)
(* The pages of the non-paged pool, xtoskrnl/mm/alloc.cc and mm/pool.cc:   *)
(* lists of runs of free pages by size, and the flags in the PFN entries   *)
(* that mark the first and the last page of an allocation.                 *)
(*                                                                         *)
(* Pages are numbered by address.  Page 0 is the last of the PFN database, *)
(* mapped but not of the pool; then come the initial pool, a page that is  *)
(* never mapped, and the expansion pool, whose PTEs are reserved and       *)
(* mapped on demand and ends before a page that is never mapped either     *)
(* (the layout of mm/amd64/mmgr.cc).  A flag is kept with the page, which  *)
(* has the same frame as long as it is mapped.                             *)
(*                                                                         *)
(* The header of a run (its size) and the owner of each page are stored in *)
(* the free pages themselves: whoever gets a page writes over them (Junk). *)
(* Each step is what happens under one hold of NonPagedPoolLock, or before *)
(* it is taken; the PTEs come from the pool that PteSpace describes.       *)
(***************************************************************************)
EXTENDS Integers, Sequences, SequencesExt, FiniteSets, TLC

CONSTANTS
  Cpus,           (* Processors.                                           *)
  InitialSize,    (* Pages of the initial pool.                            *)
  ExpansionSize,  (* PTEs of the expansion pool.                           *)
  Frames,         (* Frames the pool may take in all.                      *)
  Heads,          (* MM_MAX_FREE_PAGE_LIST_HEADS.                          *)
  Kept,           (* Longest expansion block that is not given back.       *)
  Requests        (* Sizes of allocations, in pages.                       *)

ASSUME SizesAssumption ==
  /\ InitialSize \in Nat \ {0} /\ ExpansionSize \in Nat /\ Frames \in Nat
  /\ Heads \in Nat \ {0} /\ Kept \in Nat
  /\ Requests \subseteq Nat \ {0}

VARIABLES
  lists,          (* NonPagedPoolFreeList: first pages of runs, by size.   *)
  size,           (* MMFREE_POOL_ENTRY.Size of each page.                  *)
  owner,          (* MMFREE_POOL_ENTRY.Owner of each page.                 *)
  starts,         (* Pages with ReadInProgress: allocations start there.   *)
  ends,           (* Pages with WriteInProgress: allocations end there.    *)
  mapped,         (* Pages with a valid PTE.                               *)
  ptes,           (* Free PTEs of the expansion pool.                      *)
  available,      (* AvailablePages.                                       *)
  blocks,         (* What callers hold: first page and length.             *)
  op              (* What each processor is doing.                         *)

runs == <<lists, size, owner>>
marks == <<starts, ends>>
space == <<mapped, ptes, available>>
vars == <<runs, marks, space, blocks, op>>

Initial == 1 .. InitialSize
Expansion == InitialSize + 2 .. InitialSize + 1 + ExpansionSize
Pages == 0 .. InitialSize + 2 + ExpansionSize

Junk == -1

Block(first, n) == first .. first + n - 1

(* The list for a run of n pages.                                          *)
ListFor(n) == IF n < Heads THEN n ELSE Heads

Idle == [pc |-> "idle", first |-> 0, n |-> 0]

(* InitializeNonPagedPool: one run.                                        *)
Init ==
  /\ lists = [h \in 1 .. Heads |-> IF h = ListFor(InitialSize) THEN <<1>> ELSE <<>>]
  /\ size = [p \in Pages |-> IF p = 1 THEN InitialSize ELSE Junk]
  /\ owner = [p \in Pages |-> IF p \in Initial THEN 1 ELSE Junk]
  /\ starts = {} /\ ends = {}
  /\ mapped = {0} \cup Initial
  /\ ptes = Expansion
  /\ available = Frames
  /\ blocks = {}
  /\ op = [c \in Cpus |-> Idle]

-----------------------------------------------------------------------------
(* AllocateNonPagedPoolPages                                               *)

(* Where the lists from h on hold a run of n pages or more: list and       *)
(* position.                                                               *)
FitsFrom(h, n) ==
  UNION {{<<l, i>> : i \in {j \in DOMAIN lists[l] : size[lists[l][j]] >= n}} : l \in h .. Heads}

FitsAbove(n) == FitsFrom(ListFor(n) + 1, n)
Fits(n) == FitsFrom(ListFor(n), n)

FirstFit(n) ==
  CHOOSE f \in Fits(n) : \A g \in Fits(n) : f[1] < g[1] \/ (f[1] = g[1] /\ f[2] <= g[2])

Scribbled(field, block) == [p \in Pages |-> IF p \in block THEN Junk ELSE field[p]]

(* The first run that is long enough gives away its end, and what is left  *)
(* goes to the end of the list for its size.                               *)
TakeFromList(c, n) ==
  LET f     == FirstFit(n)
      run   == lists[f[1]][f[2]]
      left  == size[run] - n
      taken == Block(run + left, n)
      without == [lists EXCEPT ![f[1]] = RemoveAt(@, f[2])]
  IN
  /\ op[c] = Idle
  /\ Fits(n) # {}
  /\ lists' = IF left = 0 THEN without
              ELSE [without EXCEPT ![ListFor(left)] = Append(@, run)]
  /\ size' = Scribbled([size EXCEPT ![run] = left], taken)
  /\ owner' = Scribbled(owner, taken)
  /\ starts' = starts \cup {run + left}
  /\ ends' = ends \cup {run + left + n - 1}
  /\ blocks' = blocks \cup {<<run + left, n>>}
  /\ UNCHANGED <<space, op>>

(* No list has a run; the lock is given up.                                *)
SearchFails(c, n) ==
  /\ op[c] = Idle
  /\ Fits(n) = {}
  /\ op' = [op EXCEPT ![c] = [pc |-> "reserve", first |-> 0, n |-> n]]
  /\ UNCHANGED <<runs, marks, space, blocks>>

(* ReserveSystemPtes, which picks some run of free PTEs.                   *)
ReservePtes(c) ==
  LET found == {p \in ptes : Block(p, op[c].n) \subseteq ptes} IN
  /\ op[c].pc = "reserve"
  /\ \/ /\ found = {}
        /\ op' = [op EXCEPT ![c] = Idle]
        /\ UNCHANGED ptes
     \/ \E p \in found :
          /\ op' = [op EXCEPT ![c] = [@ EXCEPT !.pc = "map", !.first = p]]
          /\ ptes' = ptes \ Block(p, op[c].n)
  /\ UNCHANGED <<runs, marks, mapped, available, blocks>>

(* Under NonPagedPoolLock and PfnLock: the PTEs go back when the pages     *)
(* would not leave one available.  UnlinkFreePage clears the flags of the  *)
(* frames.                                                                 *)
MapWhen(c, enough, returned) ==
  LET block == Block(op[c].first, op[c].n) IN
  /\ op[c].pc = "map"
  /\ op' = [op EXCEPT ![c] = Idle]
  /\ \/ /\ ~enough
        /\ ptes' = ptes \cup returned
        /\ UNCHANGED <<marks, mapped, available, blocks>>
     \/ /\ enough
        /\ mapped' = mapped \cup block
        /\ available' = available - op[c].n
        /\ starts' = (starts \ block) \cup {op[c].first}
        /\ ends' = (ends \ block) \cup {op[c].first + op[c].n - 1}
        /\ blocks' = blocks \cup {<<op[c].first, op[c].n>>}
        /\ UNCHANGED ptes
  /\ UNCHANGED runs

MapUnchecked(c) == MapWhen(c, TRUE, {})
MapForgetsPtes(c) == MapWhen(c, op[c].n < available, {})
MapPages(c) == MapWhen(c, op[c].n < available, Block(op[c].first, op[c].n))

-----------------------------------------------------------------------------
(* FreeNonPagedPoolPages                                                   *)

(* Before the lock is taken: a block starts where it is marked (anything   *)
(* else is a panic, which BlocksMarked excludes), and its pages are        *)
(* counted up to the mark of its end.                                      *)
CountPages(c, b) ==
  LET last == {p \in ends : p >= b[1]} IN
  /\ op[c] = Idle
  /\ b[1] \in starts
  /\ \E e \in last :
       /\ \A p \in last : e <= p
       /\ op' = [op EXCEPT ![c] = [pc |-> "free", first |-> b[1], n |-> e - b[1] + 1]]
  /\ blocks' = blocks \ {b}
  /\ UNCHANGED <<runs, marks, space>>

(* The marks at both ends go.                                              *)
Unmark(c, last) ==
  /\ op[c].pc = "free"
  /\ starts' = starts \ {op[c].first}
  /\ ends' = ends \ {last}
  /\ op' = [op EXCEPT ![c] = Idle]
  /\ UNCHANGED blocks

UnmarkFirst(c) == Unmark(c, op[c].first)
UnmarkBlock(c) == Unmark(c, op[c].first + op[c].n - 1)

(* Longer blocks of the expansion pool give up their frames and PTEs.      *)
GoesBack(c) == op[c].first \in Expansion /\ op[c].n > Kept

GiveBack(c) ==
  LET block == Block(op[c].first, op[c].n) IN
  /\ GoesBack(c)
  /\ mapped' = mapped \ block
  /\ ptes' = ptes \cup block
  /\ available' = available + op[c].n
  /\ UNCHANGED runs

Position(s, p) == CHOOSE i \in DOMAIN s : s[i] = p
Without(s, p) == IF \E i \in DOMAIN s : s[i] = p THEN RemoveAt(s, Position(s, p)) ELSE s
RemoveEntry(all, p) == [h \in 1 .. Heads |-> Without(all[h], p)]
InsertHead(all, p, n) == [all EXCEPT ![ListFor(n)] = <<p>> \o @]

(* The page after the block is free.  NonPagedPoolFrameEnd is the frame of *)
(* a page that is not mapped, and excludes nothing.                        *)
FreeAfter(first, n) == first + n \in mapped \ starts

(* The page before it is free; what is before the pool does not count.     *)
FreeBeforeNever(first) == FALSE
FreeBefore(first) == first # 1 /\ first - 1 \in mapped \ ends

(* Pages of the block and of the run after it, which is absorbed.          *)
Gathered(c) ==
  LET next == op[c].first + op[c].n IN
  op[c].n + (IF FreeAfter(op[c].first, op[c].n) THEN size[next] ELSE 0)

(* The block and what it absorbed join the run before it, if any; its      *)
(* entry moves when the list for its size may be another one.  The first   *)
(* owned pages learn who their owner is.                                   *)
CoalesceInto(c, absorbed, owned) ==
  LET first == op[c].first
      head  == IF FreeBefore(first) THEN owner[first - 1] ELSE first
      left  == IF FreeAfter(first, op[c].n) THEN RemoveEntry(lists, absorbed) ELSE lists
      grown == Gathered(c) + (IF FreeBefore(first) THEN size[head] ELSE 0)
  IN
  /\ lists' = IF FreeBefore(first) /\ size[head] >= Heads THEN left
              ELSE InsertHead(RemoveEntry(left, head), head, grown)
  /\ size' = [size EXCEPT ![head] = grown]
  /\ owner' = [p \in Pages |-> IF p \in Block(first, owned) THEN head ELSE owner[p]]
  /\ UNCHANGED space

CoalesceTwice(c) == ~GoesBack(c) /\ CoalesceInto(c, Junk, Gathered(c))
CoalesceOwnsFreed(c) == ~GoesBack(c) /\ CoalesceInto(c, op[c].first + op[c].n, op[c].n)
Coalesce(c) == ~GoesBack(c) /\ CoalesceInto(c, op[c].first + op[c].n, Gathered(c))

FreePages(c) == UnmarkBlock(c) /\ (GiveBack(c) \/ Coalesce(c))

-----------------------------------------------------------------------------
Next ==
  \E c \in Cpus :
    \/ \E n \in Requests : TakeFromList(c, n)
    \/ \E n \in Requests : SearchFails(c, n)
    \/ ReservePtes(c)
    \/ MapPages(c)
    \/ \E b \in blocks : CountPages(c, b)
    \/ FreePages(c)

Spec == Init /\ [][Next]_vars

-----------------------------------------------------------------------------
(* Properties                                                              *)

Headers == UNION {{lists[h][i] : i \in DOMAIN lists[h]} : h \in 1 .. Heads}
Run(p) == Block(p, size[p])

(* Blocks that callers hold, or that are being freed.                      *)
Allocated == blocks \cup {<<op[c].first, op[c].n>> : c \in {d \in Cpus : op[d].pc = "free"}}
Extent(b) == Block(b[1], b[2])

TypeOK ==
  /\ lists \in [1 .. Heads -> Seq(Pages)]
  /\ size \in [Pages -> Pages \cup {Junk}]
  /\ owner \in [Pages -> Pages \cup {Junk}]
  /\ starts \subseteq Pages /\ ends \subseteq Pages
  /\ mapped \subseteq Pages /\ ptes \subseteq Expansion
  /\ available \in 0 .. Frames
  /\ blocks \subseteq Pages \X (Pages \ {0})
  /\ op \in [Cpus -> [pc : {"idle", "reserve", "map", "free"}, first : Pages,
                      n : Pages \cup Requests]]

(* Free runs and allocations tile the mapped pages of the pool: nothing is *)
(* lost, allocated twice, or both free and in use, over any sequence of    *)
(* splits in AllocateNonPagedPoolPages and merges in FreeNonPagedPoolPages.*)
(* The invariant includes the types of the variables.                      *)
RunsTile ==
  /\ TypeOK
  /\ mapped \ {0} = (UNION {Run(p) : p \in Headers}) \cup (UNION {Extent(b) : b \in Allocated})
  /\ \A p, q \in Headers : p # q => Run(p) \cap Run(q) = {}
  /\ \A a, b \in Allocated : a # b => Extent(a) \cap Extent(b) = {}
  /\ \A p \in Headers, b \in Allocated : Run(p) \cap Extent(b) = {}

(* Each run has one entry, in the list for its size, and each of its pages *)
(* leads to its header: a free that looks back from the page after the run *)
(* finds it through whatever page is the last.  Two free runs never touch: *)
(* a free merges in both directions, across blocks of the expansion pool   *)
(* that were mapped at different times too.                                *)
RunsFiled ==
  /\ \A h, l \in 1 .. Heads : \A i \in DOMAIN lists[h], j \in DOMAIN lists[l] :
       lists[h][i] = lists[l][j] => h = l /\ i = j
  /\ \A h \in 1 .. Heads : \A i \in DOMAIN lists[h] :
       LET p == lists[h][i] IN
       h = ListFor(size[p]) /\ \A q \in Run(p) : owner[q] = p
  /\ \A p, q \in Headers : p + size[p] # q

(* The flags in the PFN database are at the two ends of each allocation    *)
(* and nowhere else.  Frees read them of pages they do not hold, and       *)
(* CountPages reads them before it has the lock.                           *)
BlocksMarked ==
  /\ starts = {b[1] : b \in Allocated}
  /\ ends = {b[1] + b[2] - 1 : b \in Allocated}

(* PTEs and frames of the expansion pool are neither lost nor counted      *)
(* twice, also when an expansion fails half way.                           *)
ExpansionAccounted ==
  LET reserved == {c \in Cpus : op[c].pc = "map"} IN
  /\ available + Cardinality(mapped \cap Expansion) = Frames
  /\ Expansion = ptes \cup (mapped \cap Expansion)
                   \cup UNION {Block(op[c].first, op[c].n) : c \in reserved}
  /\ ptes \cap mapped = {}
  /\ \A c \in reserved : Block(op[c].first, op[c].n) \cap (ptes \cup mapped) = {}

(* The pool takes more memory only when no neighbouring pages of its own   *)
(* would do, whatever lists they are in.                                   *)
ExpandsOnlyWhenNeeded ==
  [][\A c \in Cpus : op[c].pc = "idle" /\ op'[c].pc = "reserve" =>
       LET free == (mapped \ {0}) \ UNION {Extent(b) : b \in Allocated} IN
       ~\E p \in free : Block(p, op'[c].n) \subseteq free]_vars

(* Processors are interchangeable.                                         *)
CpuSymmetry == Permutations(Cpus)
=============================================================================
