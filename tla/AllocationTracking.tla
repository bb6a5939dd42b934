------------------------- MODULE AllocationTracking -------------------------
(***************************************************************************)
(* The books of the pool, mm/alloc.cc: how many allocations each tag has,  *)
(* in a hash table, an expansion table that grows by a page, and an        *)
(* overflow bucket; and which allocations of whole pages exist, in a hash  *)
(* table by address that doubles.                                          *)
(*                                                                         *)
(* TagTables is only filled for processor 0, so one processor keeps the    *)
(* books.  An entry holds the allocations less the frees of its tag; bytes *)
(* are left out, for they do not add up (see the README).                  *)
(***************************************************************************)
EXTENDS Integers, Sequences, FiniteSets, FiniteSetsExt, SequencesExt

CONSTANTS Tags,         \* the tags of callers, and
          Mgr, BigA,    \* those the allocator uses itself
          TagHash,      \* [tags -> 0..Mask], ComputeHash of a tag
          Mask,         \* AllocationsTrackingTableMask
          PageEntries,  \* entries of the expansion table that a page adds
          MaxExpansion, \* and a bound on its size
          Pages,        \* addresses of allocations of whole pages
          FirstSize,    \* initial size of the table of big allocations
          MaxSize,      \* and a bound on it
          MaxSmall      \* a bound on the allocations of blocks with one tag

AllTags == Tags \cup {Mgr, BigA}
NoTag == "no tag"

(* Callers have tags of their own: big allocations that could not be       *)
(* entered are told from theirs by BigA.  A tag of zero is none.           *)
ASSUME TrackingAssumption ==
    /\ IsFiniteSet(Tags) /\ IsFiniteSet(Pages)
    /\ NoTag \notin AllTags /\ BigA \notin Tags
    /\ Mask \in Nat /\ TagHash \in [AllTags -> 0..Mask]
    /\ PageEntries \in Nat \ {0} /\ FirstSize \in Nat \ {0}
    /\ Pages \subseteq Nat

VARIABLES books,        \* the tables of tags
          big,          \* BigAllocationsTrackingTable, a sequence of entries
          inUse,        \* BigAllocationsInUse
          small,        \* [Tags -> Nat], blocks allocated with the tag
          charged,      \* [Pages -> tags or NoTag], the tag that each big
                        \* allocation was registered with
          ready         \* whether InitializeBigAllocationsTracking has run

trackVars == <<books, big, inUse, small, charged, ready>>

NoPage == -1
Unused == [tag |-> NoTag, count |-> 0]
Vacant == [address |-> NoPage, tag |-> NoTag]

TrackInit ==
    /\ books = [main |-> [h \in 0..Mask |-> Unused], expansion |-> <<>>,
                overflow |-> 0, overflowing |-> FALSE, stuck |-> FALSE]
    /\ big = <<>> /\ inUse = 0
    /\ small = [t \in Tags |-> 0]
    /\ charged = [a \in Pages |-> NoTag]
    /\ ready = FALSE

----------------------------------------------------------------------------
(* The k-th slot probed for a tag, and the first that has the tag or none. *)
Slot(t, k) == (TagHash[t] + k) % (Mask + 1)
Probes(B, t) == {k \in 0..Mask : B.main[Slot(t, k)].tag \in {t, NoTag}}
FirstProbe(B, t) == CHOOSE k \in Probes(B, t) : \A j \in Probes(B, t) : k <= j

CountMain(B, h, t, d) ==
    [B EXCEPT !.main[h].tag = t, !.main[h].count = @ + d]

(* The first entry of the expansion table with the tag or with none.       *)
Place(B, t) == SelectInSeq(B.expansion, LAMBDA e : e.tag \in {t, NoTag})

CountExpansion(B, t, d) ==
    [B EXCEPT !.expansion[Place(B, t)] = [tag |-> t, count |-> @.count + d]]

UnregisterAllocationTagExpansion(B, t) ==
    IF Place(B, t) # 0 /\ B.expansion[Place(B, t)].tag = t
    THEN CountExpansion(B, t, -1)
    ELSE [B EXCEPT !.overflow = @ - 1]

(* A slot without a tag does not end the search.                           *)
UnregisterAllocationTag(B, t) ==
    LET at == {k \in 0..Mask : B.main[Slot(t, k)].tag = t}
    IN  IF at = {} THEN UnregisterAllocationTagExpansion(B, t)
        ELSE CountMain(B, Slot(t, Min(at)), t, -1)

(* The expansion table is grown with AllocationsTrackingTableLock held,    *)
(* and the growth registered.  Unless the first slot probed already has    *)
(* the tag, that takes the lock a second time and never returns.           *)
RegisterLocked(B) ==
    IF Probes(B, Mgr) # {} /\ B.main[Slot(Mgr, FirstProbe(B, Mgr))].tag = Mgr
    THEN CountMain(B, Slot(Mgr, FirstProbe(B, Mgr)), Mgr, 1)
    ELSE [B EXCEPT !.stuck = TRUE]

Grown(B) ==
    LET G == RegisterLocked([B EXCEPT !.expansion = @ \o [i \in 1..PageEntries |-> Unused]])
    IN  IF B.expansion = <<>> THEN G ELSE UnregisterAllocationTag(G, Mgr)

(* Once memory for the table ran out, it is never grown again.             *)
RegisterAllocationTagExpansion(B, t, grow) ==
    IF Place(B, t) # 0 THEN CountExpansion(B, t, 1)
    ELSE IF B.overflowing \/ ~grow \/ Len(B.expansion) >= MaxExpansion
    THEN [B EXCEPT !.overflowing = TRUE, !.overflow = @ + 1]
    ELSE CountExpansion(Grown(B), t, 1)

RegisterTwice(B, t, grow) ==
    LET k == FirstProbe(B, t)
    IN  IF Probes(B, t) = {} THEN RegisterAllocationTagExpansion(B, t, grow)
        ELSE IF k = 0 /\ B.main[Slot(t, k)].tag = NoTag
        THEN RegisterAllocationTagExpansion(CountMain(B, Slot(t, k), t, 1), t, grow)
        ELSE CountMain(B, Slot(t, k), t, 1)

(* After a slot was claimed the loop goes on with the same one, and counts *)
(* in it, unless it is the slot the search began with: then the loop ends. *)
RegisterAllocationTag(B, t, grow) ==
    IF Probes(B, t) = {} THEN RegisterAllocationTagExpansion(B, t, grow)
    ELSE LET k == FirstProbe(B, t)
             h == Slot(t, k)
         IN  IF k = 0 /\ B.main[h].tag = NoTag
             THEN RegisterAllocationTagExpansion(CountMain(B, h, t, 0), t, grow)
             ELSE CountMain(B, h, t, 1)

----------------------------------------------------------------------------
(* The table of big allocations, T, is searched from the hash of the       *)
(* address on, around its end; entries are numbered from 1.                *)
BigSlot(T, a, k) == 1 + ((a + k) % Len(T))
FreeProbes(T, a) == {k \in 0..(Len(T) - 1) : T[BigSlot(T, a, k)] = Vacant}
Insert(T, e) == [T EXCEPT ![BigSlot(T, e.address, Min(FreeProbes(T, e.address)))] = e]

Rehashed(T) ==
    FoldSeq(LAMBDA e, N : IF e = Vacant THEN N ELSE Insert(N, e),
            [i \in 1..(2 * Len(T)) |-> Vacant], T)

(* The new table and the books after ExpandBigAllocationsTable, which may  *)
(* fail to get pages.                                                      *)
CanExpand(T, grow) == grow /\ 2 * Len(T) <= MaxSize
ExpandedBooks(B, grow) == RegisterAllocationTag(UnregisterAllocationTag(B, Mgr), Mgr, grow)

(* RegisterBigAllocationTag: insert, and expand when three quarters are    *)
(* used; or expand to be able to insert.                                   *)
RegisterBigAllocationTag(a, t, grow) ==
    LET e == [address |-> a, tag |-> t]
        room == FreeProbes(big, a) # {}
        expand == (room => 4 * (inUse + 1) > 4 * ((Len(big) * 3) \div 4)) /\ CanExpand(big, grow)
        T == IF room THEN Insert(big, e) ELSE big
    IN  [ok |-> room \/ expand,
         table |-> IF ~expand THEN T
                   ELSE IF room THEN Rehashed(T) ELSE Insert(Rehashed(T), e),
         books |-> IF expand THEN ExpandedBooks(books, grow) ELSE books]

(* Mgr is charged for the first table; the expansion table gets its first  *)
(* page at once, since the claimed slot is the first one probed.           *)
FirstBooksEmpty(grow) == books
FirstBooks(grow) == RegisterAllocationTag(books, Mgr, grow)

InitializeBigAllocationsTracking(grow) ==
    /\ ~ready
    /\ ready' = TRUE
    /\ big' = [i \in 1..FirstSize |-> Vacant]
    /\ books' = FirstBooks(grow)
    /\ UNCHANGED <<inUse, small, charged>>

Bookable == ready /\ ~books.stuck

AllocateBlock(t, grow) ==
    /\ Bookable /\ small[t] < MaxSmall
    /\ small' = [small EXCEPT ![t] = @ + 1]
    /\ books' = RegisterAllocationTag(books, t, grow)
    /\ UNCHANGED <<big, inUse, charged, ready>>

FreeBlock(t) ==
    /\ Bookable /\ small[t] > 0
    /\ small' = [small EXCEPT ![t] = @ - 1]
    /\ books' = UnregisterAllocationTag(books, t)
    /\ UNCHANGED <<big, inUse, charged, ready>>

(* AllocatePool for whole pages.  What cannot be entered is charged to     *)
(* BigA.                                                                   *)
AllocatePages(a, t, grow) ==
    /\ Bookable /\ charged[a] = NoTag
    /\ LET r == RegisterBigAllocationTag(a, t, grow)
           tag == IF r.ok THEN t ELSE BigA
       IN  /\ big' = r.table
           /\ inUse' = IF r.ok THEN inUse + 1 ELSE inUse
           /\ books' = RegisterAllocationTag(r.books, tag, grow)
           /\ charged' = [charged EXCEPT ![a] = tag]
    /\ UNCHANGED <<small, ready>>

EntriesBeforeFree(a) ==
    {i \in DOMAIN big : big[i].address = a /\
        \E k \in 0..(Len(big) - 1) : i = BigSlot(big, a, k) /\
            \A j \in 0..k : big[BigSlot(big, a, j)] # Vacant}

(* UnregisterBigAllocationTag looks at every entry until it finds one.     *)
BigEntries(a) == {i \in DOMAIN big : big[i].address = a}
FreePages(a) ==
    /\ Bookable /\ charged[a] # NoTag
    /\ LET found == BigEntries(a)
           i == CHOOSE x \in found : TRUE
       IN  IF found = {}
           THEN /\ books' = UnregisterAllocationTag(books, BigA)
                /\ UNCHANGED <<big, inUse>>
           ELSE /\ books' = UnregisterAllocationTag(books, big[i].tag)
                /\ big' = [big EXCEPT ![i] = Vacant]
                /\ inUse' = inUse - 1
    /\ charged' = [charged EXCEPT ![a] = NoTag]
    /\ UNCHANGED <<small, ready>>

TrackNext ==
    \/ \E grow \in BOOLEAN :
        \/ InitializeBigAllocationsTracking(grow)
        \/ \E t \in Tags : AllocateBlock(t, grow) \/ \E a \in Pages : AllocatePages(a, t, grow)
    \/ \E t \in Tags : FreeBlock(t)
    \/ \E a \in Pages : FreePages(a)

TrackSpec == TrackInit /\ [][TrackNext]_trackVars

----------------------------------------------------------------------------
CountOf(entries, t) ==
    MapThenSumSet(LAMBDA i : entries[i].count, {i \in DOMAIN entries : entries[i].tag = t})
Booked(t) == CountOf(books.main, t) + CountOf(books.expansion, t)

(* The allocations there are with a tag; Mgr has the table of big          *)
(* allocations and, once it has a page, the expansion table.               *)
Allocated(t) ==
    Cardinality({a \in Pages : charged[a] = t})
    + (IF t \in Tags THEN small[t] ELSE 0)
    + (IF t = Mgr /\ ready THEN (IF books.expansion = <<>> THEN 1 ELSE 2) ELSE 0)

(* However the entries of a tag are split between the table and its        *)
(* expansion, and whichever of its frees find which entry, they add up to  *)
(* the allocations that exist; when the overflow bucket has come into use, *)
(* all entries together still do.                                          *)
TagsBalanced ==
    /\ ~books.overflowing => \A t \in AllTags : Booked(t) = Allocated(t)
    /\ books.overflow + MapThenSumSet(Booked, AllTags) = MapThenSumSet(Allocated, AllTags)

(* Growing the expansion table registers an allocation while it holds the  *)
(* lock that registering may take: it never comes to wait for itself,      *)
(* since Mgr owns a slot from the start.                                   *)
NeverStuck == ~books.stuck

(* The table of big allocations has each of them once, with its tag, but   *)
(* for those it had no room for, whatever was freed from the middle of a   *)
(* run of colliding entries and however often the table was rehashed.      *)
BigTableExact ==
    /\ inUse = Cardinality({i \in DOMAIN big : big[i] # Vacant})
    /\ \A a \in Pages :
         LET at == BigEntries(a)
         IN  IF charged[a] \in Tags
             THEN Cardinality(at) = 1 /\ \A i \in at : big[i].tag = charged[a]
             ELSE at = {}

(* The books are right and keeping them never blocks.                      *)
TrackingSound == TagsBalanced /\ NeverStuck /\ BigTableExact
=============================================================================
