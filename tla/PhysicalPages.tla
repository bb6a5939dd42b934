---------------------------- MODULE PhysicalPages ----------------------------
(***************************************************************************)
(* Physical page frames, xtoskrnl/mm/pfn.cc and mm/colors.cc, with the two *)
(* users they have: the non-paged pool, which grows and shrinks by whole   *)
(* blocks of frames (mm/alloc.cc), and kernel stacks (mm/kpool.cc).        *)
(*                                                                         *)
(* The PFN database is kept with its unions: u2 is the back link of a free *)
(* frame and the share count of an active one, prev (u4.PteFrame) is the   *)
(* back link in the colour list and the page table of an active frame,     *)
(* next (OriginalPte) the link in the colour list, which stays behind in   *)
(* an active frame.  No code path asks for the removal of a frame, zeroes  *)
(* one, or leaves one clean when its stack goes, so the bad, the zeroed    *)
(* and the standby list get no frame from here and are left out.           *)
(*                                                                         *)
(* Each processor runs one allocation or free at a time, in steps; the     *)
(* pool works under NonPagedPoolLock and PfnLock, stacks are made and torn *)
(* down under SystemSpaceLock.                                             *)
(***************************************************************************)
EXTENDS Integers, Sequences, SequencesExt, FiniteSets, TLC

CONSTANTS
  Cpus,           (* Processors.                                           *)
  Blocks,         (* Names for what is allocated at one time.              *)
  LastFrame,      (* Frames 1 .. LastFrame are free at boot.               *)
  Colors,         (* Number of page colours.                               *)
  Ambiguous,      (* Frames whose numbers, read as an entry, have the      *)
                  (* transition bit and not the prototype bit.             *)
  PoolRequests,   (* Sizes, in pages, by which the pool grows.             *)
  StackRequests   (* Sizes of kernel stacks, in pages.                     *)

ASSUME FramesAssumption == LastFrame \in Nat \ {0} /\ Colors \in Nat \ {0}
ASSUME SizesAssumption == PoolRequests \subseteq Nat \ {0} /\ StackRequests \subseteq Nat \ {0}

VARIABLES
  pfn,            (* The PFN database.                                     *)
  freeList,       (* FreePagesList.                                        *)
  colors,         (* FreePages[FreePageList], by colour.                   *)
  available,      (* AvailablePages.                                       *)
  nextColor,      (* PagingColors, reduced by the mask.                    *)
  boot,           (* Next frame ProcessMemoryDescriptor links.             *)
  held,           (* Frames behind each block handed out.                  *)
  op,             (* What each processor is doing.                         *)
  panicked        (* KE::Crash::Panic was called.                          *)

lists == <<freeList, colors, available>>
vars == <<pfn, lists, nextColor, boot, held, op, panicked>>

(* Frame 0 belongs to the firmware, and a last one holds the page table    *)
(* that maps the kernel stacks.                                            *)
Table == LastFrame + 1
Frames == 0 .. Table

NoFrame == -1           (* MAXULONG_PTR                                    *)
NoPrev == -2            (* MM_PFN_PTE_FRAME                                *)
Cast(n) == -10 - n      (* A frame number stored where a pointer belongs.  *)

Color(f) == f % Colors

Nothing == [kind |-> "none", frames |-> <<>>]
Idle == [pc |-> "idle", kind |-> "none", left |-> 0, page |-> 0, frames |-> <<>>]

InUse(share) == [flink |-> 0, u2 |-> share, prev |-> 0, next |-> 0, at |-> "active",
                 refs |-> 1, removable |-> FALSE]
Unused == [InUse(0) EXCEPT !.at = "zeroed", !.refs = 0]

Init ==
  /\ pfn = [f \in Frames |-> IF f \in {0, Table} THEN InUse(1) ELSE Unused]
  /\ freeList = [flink |-> NoFrame, blink |-> NoFrame, total |-> 0]
  /\ colors = [c \in 0 .. Colors - 1 |-> [flink |-> NoFrame, blink |-> NoFrame, count |-> 0]]
  /\ available = 0
  /\ nextColor = 0
  /\ boot = 1
  /\ held = [b \in Blocks |-> Nothing]
  /\ op = [c \in Cpus |-> Idle]
  /\ panicked = FALSE

-----------------------------------------------------------------------------
(* The lists of free frames.                                               *)

(* Frame p goes to the end of the free list and of its colour list; db is  *)
(* the database as the caller leaves it.                                   *)
LinkAt(db, p, tail) ==
  LET last  == freeList.blink
      table == colors[Color(p)]
      first == table.flink = NoFrame
      db1   == IF last = NoFrame THEN db ELSE [db EXCEPT ![last].flink = p]
      db2   == IF first THEN db1 ELSE [db1 EXCEPT ![table.blink].next = p]
  IN
  /\ pfn' = [db2 EXCEPT ![p].flink = NoFrame, ![p].u2 = last, ![p].at = "free",
                        ![p].prev = IF first THEN NoPrev ELSE table.blink,
                        ![p].next = NoFrame]
  /\ freeList' = [flink |-> IF last = NoFrame THEN p ELSE freeList.flink,
                  blink |-> p,
                  total |-> freeList.total + 1]
  /\ colors' = [colors EXCEPT ![Color(p)] = [flink |-> IF first THEN p ELSE table.flink,
                                             blink |-> tail,
                                             count |-> table.count + 1]]
  /\ available' = available + 1

LinkKeepsTail(db, p) == LinkAt(db, p, colors[Color(p)].blink)
LinkFreePage(db, p) == LinkAt(db, p, p)

(* The colour list of a frame it takes out, and its neighbours there; the  *)
(* tail is left as a frame number, not as a pointer.                       *)
UnlinkColor(p) ==
  LET e == pfn[p] IN
  colors' = [colors EXCEPT ![Color(p)].flink = IF e.prev = NoPrev THEN e.next ELSE @,
                           ![Color(p)].blink = IF e.next = NoFrame THEN Cast(e.prev) ELSE @,
                           ![Color(p)].count = @ - 1]

(* The database without frame p in its lists, and p's flags cleared; the   *)
(* frame before p in the free list is followed by after.                   *)
UnlinkedBefore(p, after) ==
  LET e   == pfn[p]
      db1 == IF e.u2 = NoFrame THEN pfn ELSE [pfn EXCEPT ![e.u2].flink = after]
      db2 == IF e.flink = NoFrame THEN db1 ELSE [db1 EXCEPT ![e.flink].u2 = e.u2]
      db3 == IF e.prev = NoPrev THEN db2 ELSE [db2 EXCEPT ![e.prev].next = e.next]
      db4 == IF e.next = NoFrame THEN db3 ELSE [db3 EXCEPT ![e.next].prev = e.prev]
  IN [db4 EXCEPT ![p].flink = 0, ![p].u2 = 0, ![p].at = "zeroed"]

UnlinkedCutsList(p) == UnlinkedBefore(p, NoFrame)
Unlinked(p) == UnlinkedBefore(p, pfn[p].flink)

UnlinkFreePage(p) ==
  /\ pfn[p].at = "free"
  /\ freeList' = [flink |-> IF pfn[p].u2 = NoFrame THEN pfn[p].flink ELSE freeList.flink,
                  blink |-> IF pfn[p].flink = NoFrame THEN pfn[p].u2 ELSE freeList.blink,
                  total |-> freeList.total - 1]
  /\ UnlinkColor(p)
  /\ available' = available - 1

(* ProcessMemoryDescriptor links the frames of free memory one by one.     *)
ProcessMemoryDescriptor ==
  /\ boot <= LastFrame
  /\ pfn[boot].refs = 0
  /\ boot' = boot + 1
  /\ LinkFreePage(pfn, boot)
  /\ UNCHANGED <<nextColor, held, op, panicked>>

-----------------------------------------------------------------------------
(* Allocation.                                                             *)

(* The lock a kind of work is done under is free.  FreeNonPagedPoolPages   *)
(* holds NonPagedPoolLock only, but so does every other user of PfnLock.   *)
LockFree(kind) == \A d \in Cpus : op[d].kind # kind

Spare(b) == held[b] = Nothing

Begin(c, kind, n) ==
  /\ boot > LastFrame
  /\ ~panicked
  /\ op[c] = Idle
  /\ LockFree(kind)
  /\ op' = [op EXCEPT ![c] = [pc |-> "pick", kind |-> kind, left |-> n,
                              page |-> 0, frames |-> <<>>]]
  /\ UNCHANGED <<pfn, lists, nextColor, boot, held, panicked>>

(* The pool checks that frames would be left, a kernel stack does not.     *)
ExpandUnchecked(c, n) == Begin(c, "pool", n)
ExpandPool(c, n) == n < available /\ Begin(c, "pool", n)

AllocateKernelStack(c, n) == Begin(c, "stack", n)

(* The frame AllocatePhysicalPage decides on: the first one of the colour, *)
(* else the first one of all; frame 0 when there is none.                  *)
PickIgnoringColor(c) == IF available = 0 THEN 0 ELSE freeList.flink
PickUnguarded(c) == IF colors[c].flink # NoFrame THEN colors[c].flink ELSE freeList.flink
PickFrame(c) == IF available = 0 THEN 0 ELSE PickUnguarded(c)

AllocatePhysicalPage(c) ==
  /\ op[c].pc = "pick"
  /\ ~panicked
  /\ nextColor' = (nextColor + 1) % Colors
  /\ op' = [op EXCEPT ![c].pc = "take", ![c].page = PickFrame(nextColor')]
  /\ UNCHANGED <<pfn, lists, boot, held, panicked>>

(* The entry of a frame that is put to use: LinkPfn for a stack, the end   *)
(* of the loop of AllocateNonPagedPoolPages for the pool.  A stack frame   *)
(* pins the page table that maps it.                                       *)
ActivatedAs(db, p, kind, location) ==
  [db EXCEPT ![p].u2 = 1, ![p].at = location, ![p].refs = 1, ![p].removable = FALSE,
             ![p].prev = Table,
             ![Table].u2 = IF kind = "stack" THEN @ + 1 ELSE @]

ActivatedNowhere(db, p, kind) == ActivatedAs(db, p, kind, db[p].at)
Activated(db, p, kind) == ActivatedAs(db, p, kind, "active")

(* The frame leaves the lists and is mapped; the last one ends the call.   *)
TakeFrame(c, b) ==
  LET o    == op[c]
      p    == o.page
      all  == Append(o.frames, p)
      done == o.left = 1
  IN
  /\ o.pc = "take"
  /\ ~panicked
  /\ Spare(b)
  /\ IF p = 0 THEN UNCHANGED lists ELSE UnlinkFreePage(p)
  /\ pfn' = Activated(IF p = 0 THEN pfn ELSE Unlinked(p), p, o.kind)
  /\ held' = IF done THEN [held EXCEPT ![b] = [kind |-> o.kind, frames |-> all]] ELSE held
  /\ op' = [op EXCEPT ![c] = IF done THEN Idle
                             ELSE [o EXCEPT !.pc = "pick", !.left = o.left - 1, !.frames = all]]
  /\ UNCHANGED <<nextColor, boot, panicked>>

-----------------------------------------------------------------------------
(* Release.                                                                *)

(* FreeNonPagedPoolPages and FreeKernelStack take their lock and go over   *)
(* the frames of the block, a stack from its top down.  Pool blocks of up  *)
(* to three pages stay in the pool.                                        *)
StartFree(c, b) ==
  LET kind == held[b].kind IN
  /\ ~panicked
  /\ op[c] = Idle
  /\ kind = "stack" \/ (kind = "pool" /\ Len(held[b].frames) > 3)
  /\ LockFree(kind)
  /\ op' = [op EXCEPT ![c] = [pc |-> "free", kind |-> kind, left |-> 0, page |-> 0,
                              frames |-> IF kind = "stack" THEN Reverse(held[b].frames)
                                         ELSE held[b].frames]]
  /\ held' = [held EXCEPT ![b] = Nothing]
  /\ UNCHANGED <<pfn, lists, nextColor, boot, panicked>>

Store(db, panic) == pfn' = db /\ panicked' = panic /\ UNCHANGED lists

(* A frame without references goes to the free list when its PTE address   *)
(* is marked; otherwise LinkPage takes it for the list of modified pages,  *)
(* unless what the colour list left in its entry looks like a transition.  *)
DecrementReferenceCount(db, p) ==
  LET d == [db EXCEPT ![p].refs = @ - 1] IN
  \/ /\ d[p].refs # 0
     /\ Store(d, FALSE)
  \/ /\ d[p].refs = 0 /\ d[p].removable
     /\ LinkFreePage(d, p) /\ panicked' = FALSE
  \/ /\ d[p].refs = 0 /\ ~d[p].removable
     /\ IF d[p].next \in Ambiguous THEN Store(d, TRUE)
        ELSE Store([d EXCEPT ![p].at = "modified"], FALSE)

FreePoolFrame(c) ==
  LET o == op[c]
      p == Head(o.frames)
  IN
  /\ o.pc = "free" /\ o.kind = "pool"
  /\ ~panicked
  /\ DecrementReferenceCount([pfn EXCEPT ![p].u2 = 0, ![p].removable = TRUE], p)
  /\ op' = [op EXCEPT ![c] = IF Len(o.frames) = 1 THEN Idle
                             ELSE [o EXCEPT !.frames = Tail(o.frames)]]
  /\ UNCHANGED <<nextColor, boot, held>>

(* DecrementShareCount insists on an active frame.                         *)
DecrementShareCount(db, p) ==
  LET d == [db EXCEPT ![p].u2 = @ - 1] IN
  \/ /\ db[p].at # "active"
     /\ Store(db, TRUE)
  \/ /\ db[p].at = "active" /\ d[p].u2 # 0
     /\ Store(d, FALSE)
  \/ /\ db[p].at = "active" /\ d[p].u2 = 0
     /\ DecrementReferenceCount([d EXCEPT ![p].at = "transition"], p)

(* FreePhysicalPage: the page table loses a user, then the frame.  The     *)
(* mark for removal is set in the PTE and not in PteAddress, so the frame  *)
(* still looks unmarked.  A panic stops the system there.                  *)
FreeSharing(c, share) ==
  LET o == op[c]
      p == Head(o.frames)
  IN
  /\ o.pc = "free" /\ o.kind = "stack"
  /\ ~panicked
  /\ DecrementShareCount([pfn EXCEPT ![Table].u2 = @ - share], p)
  /\ op' = [op EXCEPT ![c] = IF Len(o.frames) = 1 THEN Idle
                             ELSE [o EXCEPT !.frames = Tail(o.frames)]]
  /\ UNCHANGED <<nextColor, boot, held>>

FreeKeepsTable(c) == FreeSharing(c, 0)
FreePhysicalPage(c) == FreeSharing(c, 1)

-----------------------------------------------------------------------------
Next ==
  \/ ProcessMemoryDescriptor
  \/ \E c \in Cpus :
       \/ \E n \in PoolRequests : ExpandPool(c, n)
       \/ \E n \in StackRequests : AllocateKernelStack(c, n)
       \/ AllocatePhysicalPage(c)
       \/ \E b \in Blocks : TakeFrame(c, b)
       \/ \E b \in Blocks : StartFree(c, b)
       \/ FreePoolFrame(c)
       \/ FreePhysicalPage(c)

Spec == Init /\ [][Next]_vars

-----------------------------------------------------------------------------
(* Properties                                                              *)

(* The frames reached from first by a function that gives the next one.    *)
Follow(first, link) ==
  LET next == [f \in Frames \cup {NoFrame} |-> IF f = NoFrame THEN NoFrame ELSE link[f]]
      nth[n \in 1 .. Table] == IF n = 1 THEN first ELSE next[nth[n - 1]]
      length == Cardinality({n \in 1 .. Table : nth[n] # NoFrame})
  IN [n \in 1 .. length |-> nth[n]]

FreeFrames == Follow(freeList.flink, [f \in Frames |-> pfn[f].flink])
ColorFrames(c) == Follow(colors[c].flink, [f \in Frames |-> pfn[f].next])

FramesOf(s) == {s[i] : i \in DOMAIN s}
Precedes(s, f, g) == \E i, j \in DOMAIN s : i < j /\ s[i] = f /\ s[j] = g
Held == UNION {FramesOf(held[b].frames) : b \in Blocks}
Moving == UNION {FramesOf(op[c].frames) : c \in Cpus}
Modified == {f \in Frames : pfn[f].at = "modified"}

TypeOK ==
  /\ pfn \in [Frames -> [flink : Frames \cup {NoFrame}, u2 : Int, prev : Frames \cup {NoPrev},
                         next : Frames \cup {NoFrame}, refs : 0 .. 1, removable : BOOLEAN,
                         at : {"zeroed", "free", "modified", "active", "transition"}]]
  /\ freeList \in [flink : Frames \cup {NoFrame}, blink : Frames \cup {NoFrame},
                   total : 0 .. LastFrame]
  /\ colors \in [0 .. Colors - 1 -> [flink : Frames \cup {NoFrame}, blink : Int,
                                     count : 0 .. LastFrame]]
  /\ available \in 0 .. LastFrame
  /\ nextColor \in 0 .. Colors - 1
  /\ boot \in 1 .. LastFrame + 1
  /\ held \in [Blocks -> [kind : {"none", "pool", "stack"}, frames : Seq(Frames)]]
  /\ op \in [Cpus -> [pc : {"idle", "pick", "take", "free"}, kind : {"none", "pool", "stack"},
                      left : Nat, page : Frames, frames : Seq(Frames)]]
  /\ panicked \in BOOLEAN

(* The colour lists thread the free list: each holds exactly its free      *)
(* frames, in the same order, with back links, counts and a tail that can  *)
(* be followed.  It is why a frame is only ever unlinked from the head of  *)
(* its colour list, and why the tail UnlinkFreePage leaves as a frame      *)
(* number is never used as a pointer.                                      *)
ColorsThreadFreeList ==
  LET free == FreeFrames IN
  /\ \A i \in DOMAIN free : pfn[free[i]].u2 = IF i = 1 THEN NoFrame ELSE free[i - 1]
  /\ Len(free) = freeList.total
  /\ \A c \in DOMAIN colors :
       LET L == ColorFrames(c) IN
       /\ FramesOf(L) = {f \in FramesOf(free) : Color(f) = c}
       /\ \A i, j \in DOMAIN L : i < j => Precedes(free, L[i], L[j])
       /\ colors[c].count = Len(L)
       /\ \A i \in DOMAIN L : pfn[L[i]].prev = IF i = 1 THEN NoPrev ELSE L[i - 1]
       /\ L # <<>> => colors[c].blink = Last(L)

(* No frame is lost or in two places: each is still to be linked at boot, *)
(* free, behind one block, in the hands of a processor or, once a stack    *)
(* gave it up, on the list of modified pages.  (Frame 0 stands for "none"  *)
(* and is handed to every stack that finds no frame.)  The invariant       *)
(* includes the types of the variables.                                    *)
FramesConserved ==
  LET places == <<FramesOf(FreeFrames), Held, Moving, Modified, boot .. LastFrame>> IN
  /\ TypeOK
  /\ ~panicked =>
       /\ UNION {places[i] \ {0} : i \in 1 .. 5} = 1 .. LastFrame
       /\ \A i, j \in 1 .. 5 : i # j => places[i] \cap places[j] \subseteq {0}
       /\ \A a, b \in Blocks :
            a # b => FramesOf(held[a].frames) \cap FramesOf(held[b].frames) \subseteq {0}

(* The pages that are mapped: those of a block, or of a block that is      *)
(* being built or torn down.                                               *)
Pages(where, x, s) == {<<where, x, i>> : i \in DOMAIN s}
Mapped(kind) ==
  (UNION {Pages("held", b, held[b].frames) : b \in {x \in Blocks : held[x].kind = kind}})
  \cup (UNION {Pages("op", c, op[c].frames) : c \in {x \in Cpus : op[x].kind = kind}})

(* The counts in the database agree with the mappings: a frame in use is   *)
(* active with one user and one reference, and the page table of the       *)
(* stacks has one user for each mapped stack page besides its own.         *)
CountsAgree ==
  ~panicked =>
    /\ \A p \in (Held \cup Moving) \ {0} :
         pfn[p].at = "active" /\ pfn[p].u2 = 1 /\ pfn[p].refs = 1
    /\ pfn[Table].u2 = 1 + Cardinality(Mapped("stack"))

(* AllocateNonPagedPoolPages compares its request with AvailablePages      *)
(* before it takes frames one at a time: it never runs out half way, so    *)
(* frame 0 never backs the pool.                                           *)
PoolFramesReal ==
  /\ \A b \in Blocks : held[b].kind = "pool" => \A i \in DOMAIN held[b].frames : held[b].frames[i] # 0
  /\ \A c \in Cpus : op[c].kind = "pool" => \A i \in DOMAIN op[c].frames : op[c].frames[i] # 0

(* Tearing down a stack stops the system only over frame 0, which several  *)
(* stacks may share, or over a frame in which a neighbour of the colour    *)
(* list left a number that reads as a transition; the location and the     *)
(* counts of a frame never do.                                             *)
PanicsExplained ==
  [][~panicked /\ panicked' =>
       \E c \in Cpus :
         LET p == Head(op[c].frames) IN
         op[c].pc = "free" /\ (p = 0 \/ pfn[p].next \in Ambiguous)]_vars

(* The free frames behave as one queue served by colour in turn.  The turn *)
(* is used up when the frame leaves the queue.                             *)
Queue == INSTANCE FrameQueue
           WITH queue <- FreeFrames,
                turn <- IF \E c \in Cpus : op[c].pc = "take" THEN (nextColor - 1) % Colors
                        ELSE nextColor
ImplementsQueue == Queue!Spec

(* Two processors that hold "the PFN database lock" never take the same    *)
(* frame.                                                                  *)
PicksExclusive ==
  \A c, d \in Cpus : c # d /\ op[c].pc = "take" /\ op[d].pc = "take"
                       => op[c].page # op[d].page \/ op[c].page = 0

(* A physical page that is freed can be allocated again.                   *)
FreedFramesReturn ==
  [][\A c \in Cpus :
       op[c].pc = "free" /\ op'[c] # op[c] /\ ~panicked' =>
         pfn'[Head(op[c].frames)].at = "free"]_vars

(* A block is only a name for what was allocated together.                 *)
BlockSymmetry == Permutations(Blocks)
=============================================================================
