------------------------------ MODULE PoolBlocks ------------------------------
(***************************************************************************)
(* Small allocations, AllocatePool and FreePool of xtoskrnl/mm/alloc.cc    *)
(* with the lists of mm/pool.cc.  A page of the pool is cut into blocks,   *)
(* whose headers give their size and that of the block before them, in     *)
(* units of MM_POOL_BLOCK_SIZE.  A free block of s units is in the list    *)
(* s - 1; one of a single unit has no room for links and is in no list.    *)
(*                                                                         *)
(* Pages come from AllocatePages and go back to FreePages (NonPagedPages). *)
(* What happens under the pool lock is one step; the search for a list     *)
(* that is not empty, and the last check of a fresh page, happen outside   *)
(* of it, one list and one header at a time.  Whoever gets a block writes  *)
(* over all of it but its header.  Counters and tags are left out.         *)
(***************************************************************************)
EXTENDS Integers, Sequences, SequencesExt, FiniteSets, TLC

CONSTANTS
  Cpus,           (* Processors.                                           *)
  Pages,          (* Pages that may come to the pool.                      *)
  Units,          (* Units in a page.                                      *)
  Requests        (* Sizes of blocks in units, with their header.          *)

ASSUME UnitsAssumption ==
  /\ Units \in Nat /\ Units > 2
  /\ Requests \subseteq 2 .. Units - 1

VARIABLES
  header,         (* POOL_HEADER at each unit of each page.                *)
  lists,          (* PoolDescriptor->ListHeads: page and unit.             *)
  spare,          (* Pages the pool does not have.                         *)
  held,           (* Blocks that callers hold.                             *)
  op,             (* What each processor is doing.                         *)
  panicked        (* KE::Crash::Panic was called.                          *)

vars == <<header, lists, spare, held, op, panicked>>

NoHeader == [size |-> 0, prev |-> 0, used |-> TRUE]
Header(size, prev, used) == [size |-> size, prev |-> prev, used |-> used]

Idle == [pc |-> "idle", n |-> 0, list |-> 0, page |-> 0, unit |-> 0, touched |-> FALSE]

Init ==
  /\ header = [p \in Pages |-> [u \in 0 .. Units - 1 |-> NoHeader]]
  /\ lists = [l \in 0 .. Units - 1 |-> <<>>]
  /\ spare = Pages
  /\ held = {}
  /\ op = [c \in Cpus |-> Idle]
  /\ panicked = FALSE

-----------------------------------------------------------------------------
(* Checks                                                                  *)

(* VerifyPoolHeader: a block has a size, and agrees with the blocks before *)
(* and after it in the page.                                               *)
HeaderVerified(h, u) ==
  LET next == u + h[u].size IN
  /\ h[u].size # 0
  /\ IF h[u].prev = 0 THEN u = 0
     ELSE h[u].prev <= u /\ h[u - h[u].prev].size = h[u].prev
  /\ next = Units \/ (next < Units /\ h[next].prev = h[u].size)

(* The headers met on the way through a page, from its start.              *)
Met(h) ==
  LET after == [u \in 0 .. Units |->
                  IF u < Units /\ u + h[u].size <= Units THEN u + h[u].size ELSE Units]
      nth[i \in 0 .. Units - 1] == IF i = 0 THEN 0 ELSE after[nth[i - 1]]
  IN {nth[i] : i \in 0 .. Units - 1} \ {Units}

(* VerifyPoolBlocks(block)                                                 *)
PageVerified(h, block) ==
  LET met == Met(h) IN block \in met /\ \A u \in met : HeaderVerified(h, u)

(* Processor c goes on with next; who checks page p at the moment, outside *)
(* the lock, may be in for a surprise.                                     *)
Going(c, p, next) ==
  op' = [d \in Cpus |->
           IF d = c THEN next
           ELSE IF op[d].pc = "verify" /\ op[d].page = p THEN [op[d] EXCEPT !.touched = TRUE]
           ELSE op[d]]

Panic == panicked' = TRUE /\ UNCHANGED <<header, lists, spare, held, op>>

-----------------------------------------------------------------------------
(* AllocatePool                                                            *)

AllocatePool(c, n) ==
  /\ ~panicked /\ op[c] = Idle
  /\ op' = [op EXCEPT ![c] = [Idle EXCEPT !.pc = "search", !.n = n, !.list = n]]
  /\ UNCHANGED <<header, lists, spare, held, panicked>>

NextList(c) ==
  /\ ~panicked /\ op[c].pc = "search"
  /\ op[c].list < Units
  /\ lists[op[c].list] = <<>>
  /\ op' = [op EXCEPT ![c].list = @ + 1]
  /\ UNCHANGED <<header, lists, spare, held, panicked>>

(* The header of the block after the one at u is told the size of that.    *)
InformedNever(h, u) == h
Informed(h, u) ==
  LET next == u + h[u].size IN
  IF next < Units THEN [h EXCEPT ![next].prev = h[u].size] ELSE h

(* A free block of which n units are taken: from its start when it is the  *)
(* first of the page, else from its end.  The header of the block after    *)
(* both is adjusted.                                                       *)
SplitFront(h, u, n) ==
  LET rest == h[u].size - n IN
  [[h EXCEPT ![u].size = n] EXCEPT ![u + n] = Header(rest, n, FALSE)]

SplitBack(h, u, n) ==
  LET rest == h[u].size - n IN
  [[h EXCEPT ![u].size = rest] EXCEPT ![u + rest] = Header(n, rest, FALSE)]

SplitForgetsNext(h, u, n) == IF h[u].prev = 0 THEN SplitFront(h, u, n) ELSE SplitBack(h, u, n)
Split(h, u, n) ==
  IF h[u].prev = 0 THEN Informed(SplitFront(h, u, n), u + n)
  ELSE Informed(SplitBack(h, u, n), u + h[u].size - n)

(* A caller's block, written over by its caller.                           *)
Given(h, u) ==
  [v \in 0 .. Units - 1 |->
     IF v = u THEN [h[u] EXCEPT !.used = TRUE]
     ELSE IF u < v /\ v < u + h[u].size THEN NoHeader
     ELSE h[v]]

RemainderListed(all, p, u, size) == [all EXCEPT ![size - 1] = Append(@, <<p, u>>)]
InsertRemainder(all, p, u, size) ==
  IF size = 1 THEN all ELSE RemainderListed(all, p, u, size)

(* Under the lock.  Lists are searched from the one for blocks of one unit *)
(* more, so the block is always split.                                     *)
TakeBlock(c) ==
  /\ ~panicked /\ op[c].pc = "search"
  /\ op[c].list < Units
  /\ lists[op[c].list] # <<>>
  /\ LET b     == Head(lists[op[c].list])
         p     == b[1]
         u     == b[2]
         n     == op[c].n
         rest  == header[p][u].size - n
         front == header[p][u].prev = 0
         mine  == IF front THEN u ELSE u + rest
         cut   == Split(header[p], u, n)
     IN
     IF ~PageVerified(header[p], u) \/ ~PageVerified(cut, mine) THEN Panic
     ELSE /\ header' = [header EXCEPT ![p] = Given(cut, mine)]
          /\ lists' = InsertRemainder([lists EXCEPT ![op[c].list] = Tail(@)],
                                      p, IF front THEN u + n ELSE u, rest)
          /\ held' = held \cup {<<p, mine>>}
          /\ Going(c, p, Idle)
          /\ UNCHANGED <<spare, panicked>>

(* No list had a block: a page is allocated, if there is one, and cut.     *)
AllocatePage(c) ==
  LET n == op[c].n IN
  /\ ~panicked /\ op[c].pc = "search"
  /\ op[c].list = Units
  /\ \/ /\ spare = {}
        /\ op' = [op EXCEPT ![c] = Idle]
        /\ UNCHANGED <<header, spare>>
     \/ \E p \in spare :
          /\ spare' = spare \ {p}
          /\ header' = [header EXCEPT ![p][0] = Header(n, 0, TRUE),
                                      ![p][n] = Header(Units - n, n, FALSE)]
          /\ op' = [op EXCEPT ![c] = [@ EXCEPT !.pc = "insert", !.page = p]]
  /\ UNCHANGED <<lists, held, panicked>>

(* The rest of the fresh page is listed under the lock, and checked there. *)
ListFreshPage(c) ==
  LET p == op[c].page IN
  /\ ~panicked /\ op[c].pc = "insert"
  /\ IF ~PageVerified(header[p], 0) THEN Panic
     ELSE /\ lists' = InsertRemainder(lists, p, op[c].n, Units - op[c].n)
          /\ op' = [op EXCEPT ![c].pc = "verify"]
          /\ UNCHANGED <<header, spare, held, panicked>>

(* The page is checked once more, without the lock, header by header; what *)
(* a caller wrote where a header was met before is taken to fail.          *)
VerifyFreshPage(c) ==
  LET h    == header[op[c].page]
      u    == op[c].unit
      next == u + h[u].size
  IN
  /\ ~panicked /\ op[c].pc = "verify"
  /\ \/ /\ ~HeaderVerified(h, u)
        /\ Panic
     \/ /\ HeaderVerified(h, u) /\ next < Units
        /\ op' = [op EXCEPT ![c].unit = next]
        /\ UNCHANGED <<header, lists, spare, held, panicked>>
     \/ /\ HeaderVerified(h, u) /\ next = Units
        /\ held' = held \cup {<<op[c].page, 0>>}
        /\ header' = [header EXCEPT ![op[c].page] = Given(@, 0)]
        /\ op' = [op EXCEPT ![c] = Idle]
        /\ UNCHANGED <<lists, spare, panicked>>

-----------------------------------------------------------------------------
(* FreePool                                                                *)

FreeAfter(h, u) ==
  LET next == u + h[u].size IN
  IF next < Units /\ ~h[next].used THEN {next} ELSE {}

NothingBefore(h, u) == {}
FreeBefore(h, u) ==
  IF h[u].prev # 0 /\ ~h[u - h[u].prev].used THEN {u - h[u].prev} ELSE {}

(* RemovePoolEntryList takes a block out of whatever list it is in, and    *)
(* FreePool the free neighbours of a block, of which there is at most one  *)
(* on each side; a block of one unit is in no list.                        *)
Position(list, b) == CHOOSE i \in DOMAIN list : list[i] = b
Without(list, b) == IF \E i \in DOMAIN list : list[i] = b THEN RemoveAt(list, Position(list, b))
                    ELSE list
RemoveEntry(all, b) == [l \in 0 .. Units - 1 |-> Without(all[l], b)]

UnlistEach(all, p, units) ==
  IF units = {} THEN all ELSE RemoveEntry(all, <<p, CHOOSE u \in units : TRUE>>)
UnlistBefore(all, p, after, before) == UnlistEach(all, p, before)
Unlist(all, p, after, before) == UnlistEach(UnlistEach(all, p, after), p, before)

(* Headers after the block at u has absorbed what is free after it, and    *)
(* was absorbed by what is free before it.                                 *)
Merged(h, u) ==
  LET size == h[u].size + (IF FreeAfter(h, u) = {} THEN 0 ELSE h[u + h[u].size].size)
      h1   == [h EXCEPT ![u].size = size]
  IN IF FreeBefore(h, u) = {} THEN h1 ELSE [h1 EXCEPT ![u - h[u].prev].size = @ + size]

WholeNever(h, u) == FALSE
WholePage(h, u) == u = 0 /\ h[u].size = Units

(* Under the lock.  A page that is free from end to end is given back      *)
(* after the lock is dropped.                                              *)
FreePool(c, b) ==
  LET p      == b[1]
      u      == b[2]
      h      == header[p]
      before == FreeBefore(h, u)
      after  == FreeAfter(h, u)
      first  == IF before = {} THEN u ELSE u - h[u].prev
      merged == Merged(h, u)
      rest   == Unlist(lists, p, after, before)
  IN
  /\ ~panicked /\ op[c] = Idle
  /\ IF ~PageVerified(h, u) THEN Panic
     ELSE /\ held' = held \ {b}
          /\ \/ /\ WholePage(merged, first)
                /\ header' = [header EXCEPT ![p] = merged]
                /\ lists' = rest
                /\ Going(c, p, [Idle EXCEPT !.pc = "release", !.page = p])
             \/ /\ ~WholePage(merged, first)
                /\ header' = [header EXCEPT ![p] =
                                Informed([merged EXCEPT ![first].used = FALSE], first)]
                /\ lists' = [rest EXCEPT ![merged[first].size - 1] = <<<<p, first>>>> \o @]
                /\ Going(c, p, Idle)
          /\ UNCHANGED <<spare, panicked>>

(* FreePages, outside the lock.                                            *)
ReleasePage(c) ==
  /\ ~panicked /\ op[c].pc = "release"
  /\ spare' = spare \cup {op[c].page}
  /\ header' = [header EXCEPT ![op[c].page] = [u \in 0 .. Units - 1 |-> NoHeader]]
  /\ op' = [op EXCEPT ![c] = Idle]
  /\ UNCHANGED <<lists, held, panicked>>

-----------------------------------------------------------------------------
Next ==
  \E c \in Cpus :
    \/ \E n \in Requests : AllocatePool(c, n)
    \/ NextList(c)
    \/ TakeBlock(c)
    \/ AllocatePage(c)
    \/ ListFreshPage(c)
    \/ VerifyFreshPage(c)
    \/ \E b \in held : FreePool(c, b)
    \/ ReleasePage(c)

Spec == Init /\ [][Next]_vars

-----------------------------------------------------------------------------
(* Properties                                                              *)

InPool == Pages \ spare
Leaving == {op[c].page : c \in {d \in Cpus : op[d].pc = "release"}}
Fresh == {<<op[c].page, 0>> : c \in {d \in Cpus : op[d].pc \in {"insert", "verify"}}}
Pending == {<<op[c].page, op[c].n>> : c \in {d \in Cpus : op[d].pc = "insert"}}

UsedUnits(p) == {u \in Met(header[p]) : header[p][u].used}
FreeUnits(p) == {u \in Met(header[p]) : ~header[p][u].used}

Listed(l) == {lists[l][i] : i \in DOMAIN lists[l]}

(* A free block of one unit has no place for links and a free page goes    *)
(* back, so the first and the last list stay empty.                        *)
TypeOK ==
  /\ header \in [Pages -> [0 .. Units - 1 ->
                   [size : 0 .. Units, prev : 0 .. Units - 1, used : BOOLEAN]]]
  /\ lists \in [0 .. Units - 1 -> Seq(Pages \X (0 .. Units - 1))]
  /\ lists[0] = <<>> /\ lists[Units - 1] = <<>>
  /\ spare \subseteq Pages
  /\ held \subseteq Pages \X (0 .. Units - 1)
  /\ op \in [Cpus -> [pc : {"idle", "search", "insert", "verify", "release"},
                      n : {0} \cup Requests, list : 0 .. Units, page : {0} \cup Pages,
                      unit : 0 .. Units - 1, touched : BOOLEAN]]
  /\ panicked \in BOOLEAN

(* The blocks of a page tile it and agree with their neighbours about      *)
(* sizes, and the blocks in use are those that somebody holds: no sequence *)
(* of splits and merges gives the same units to two callers, or loses any. *)
(* The invariant includes the types of the variables.                      *)
BlocksTile ==
  /\ TypeOK
  /\ \A p \in InPool :
       /\ PageVerified(header[p], 0)
       /\ p \notin Leaving =>
            UsedUnits(p) = {u \in 0 .. Units - 1 : <<p, u>> \in held \cup Fresh}

(* Each free block with room for links is in the list for its size, once,  *)
(* and nothing else is in a list.  FreePool takes neighbours out of lists  *)
(* it does not look for, by the sizes in their headers.                    *)
ListsComplete ==
  /\ \A l \in DOMAIN lists : Cardinality(Listed(l)) = Len(lists[l])
  /\ \A l \in DOMAIN lists : \A b \in Listed(l) : header[b[1]][b[2]].size = l + 1
  /\ UNION {Listed(l) : l \in DOMAIN lists} =
       (UNION {{<<p, u>> : u \in {v \in FreeUnits(p) : header[p][v].size > 1}} :
                 p \in InPool \ Leaving}) \ Pending

(* No two free blocks touch, the one-unit blocks that are in no list       *)
(* included: FreePool finds both neighbours by their sizes alone.          *)
FreeCoalesced ==
  \A p \in InPool :
    LET free == FreeUnits(p) IN \A u \in free : u + header[p][u].size \notin free

(* A page stays in the pool only while part of it is in use.               *)
PagesReturned == \A p \in InPool \ Leaving : UsedUnits(p) # {}

(* The checks made under the lock never stop the system.  The last check   *)
(* of a fresh page, made after AllocatePool has given up the lock, may:    *)
(* but only when another processor has worked on the page meanwhile.       *)
PanicsExplained ==
  [][~panicked /\ panicked' => \E c \in Cpus : op[c].pc = "verify" /\ op[c].touched]_vars

(* Processors and pages are names only.                                    *)
NameSymmetry == Permutations(Cpus) \cup Permutations(Pages)
=============================================================================
