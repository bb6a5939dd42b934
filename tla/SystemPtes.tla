----------------------------- MODULE SystemPtes -----------------------------
(***************************************************************************)
(* The allocator of system page table entries, xtoskrnl/mm/pte.cc.         *)
(*                                                                         *)
(* A pool of PTEs is a contiguous run of PoolSize entries, numbered from 0 *)
(* here.  Its free entries form clusters, linked in a list that is kept    *)
(* sorted by size; the link, and the size of a cluster of more than one    *)
(* entry, are stored in the first two entries of the cluster itself.       *)
(* The list is shown as the sequence of its clusters in link order, and of *)
(* an entry's contents only what tells apart who wrote it.                 *)
(*                                                                         *)
(* Each processor runs ReserveSystemPtes and ReleaseSystemPtes.  Both work *)
(* on the list under SystemSpaceLock; a release zeroes its entries before  *)
(* it takes the lock, and owners map their entries without any lock.       *)
(***************************************************************************)
EXTENDS Integers, FiniteSets, SequencesExt

CONSTANTS
  Cpus,       (* Processors that call the allocator.                       *)
  NoCpu,      (* Holder of a lock that nobody holds.                       *)
  PoolSize,   (* Number of PTEs InitializeSystemPtePool formats.           *)
  Requests    (* Sizes, in PTEs, that callers ask for.                     *)

ASSUME NoCpuAssumption == NoCpu \notin Cpus
(* The pool is formatted as one cluster with a separate size entry.        *)
ASSUME PoolSizeAssumption == PoolSize \in Nat /\ PoolSize >= 2
ASSUME RequestsAssumption == Requests \subseteq Nat \ {0}

VARIABLES
  pte,        (* Contents of each entry, and of the one after the pool.    *)
  freeList,   (* Clusters in the order FirstSystemFreePte links them.      *)
  total,      (* TotalSystemFreePtes.                                      *)
  lock,       (* Holder of SystemSpaceLock.                                *)
  reserved,   (* Blocks handed to callers and not given back.              *)
  op          (* Progress of each processor through ReleaseSystemPtes.     *)

vars == <<pte, freeList, total, lock, reserved, op>>

Index == 0 .. PoolSize
Contents == {"zero", "list", "map"}
Block == [start : 0 .. PoolSize - 1, size : 1 .. PoolSize]

Ptes(b) == b.start .. b.start + b.size - 1
End(b) == b.start + b.size

(* A released block touches a free cluster.  A merge that looked only at   *)
(* the clusters below the block would be AdjacentBelow.                    *)
AdjacentBelow(a, b) == End(a) = b.start
Adjacent(a, b) == End(a) = b.start \/ End(b) = a.start

(* The entries of a cluster that hold its link and, past one, its size.    *)
Metadata(b) == IF b.size = 1 THEN {b.start} ELSE {b.start, b.start + 1}

Write(S, value) == [i \in Index |-> IF i \in S THEN value ELSE pte[i]]

Idle == [pc |-> "idle", start |-> 0, size |-> 1, pos |-> 1, insert |-> 0]
Released(c) == [start |-> op[c].start, size |-> op[c].size]

Init ==
  /\ \E after \in {"zero", "map"} :
       pte = [i \in Index |-> CASE i \in {0, 1}   -> "list"
                                [] i = PoolSize -> after
                                [] OTHER        -> "zero"]
  /\ freeList = <<[start |-> 0, size |-> PoolSize]>>
  /\ total = PoolSize
  /\ lock = NoCpu
  /\ reserved = {}
  /\ op = [c \in Cpus |-> Idle]

-----------------------------------------------------------------------------
(* ReserveSystemPtes                                                       *)

LockFree == lock = NoCpu

(* FindFreeCluster stops at the first cluster that is large enough (a      *)
(* search from the other end would be FindLastCluster).                    *)
FindLastCluster(n, i) ==
  /\ i \in DOMAIN freeList
  /\ freeList[i].size >= n
  /\ \A j \in i + 1 .. Len(freeList) : freeList[j].size < n

FindFreeCluster(n, i) ==
  /\ i \in DOMAIN freeList
  /\ freeList[i].size >= n
  /\ \A j \in 1 .. i - 1 : freeList[j].size < n

(* Where a cluster of k entries goes in the list L to keep it sorted.      *)
SortedPosition(L, k, p) ==
  /\ p \in 1 .. Len(L) + 1
  /\ \A j \in 1 .. p - 1 : L[j].size < k
  /\ p <= Len(L) => L[p].size >= k

(* The whole cluster is taken.  For a cluster of one entry both the entry  *)
(* and the one after it are cleared; otherwise the first entry alone is.   *)
TakeCluster(n, i, rest) ==
  LET b == freeList[i] IN
  /\ b.size = n
  /\ freeList' = rest
  /\ pte' = Write(IF n = 1 THEN {b.start, b.start + 1} ELSE {b.start}, "zero")
  /\ reserved' = reserved \cup {b}

ReserveStaysLinked(n, i) == TakeCluster(n, i, freeList)
ReserveExact(n, i) == TakeCluster(n, i, RemoveAt(freeList, i))

(* The tail of a larger cluster is taken and the rest is linked again.     *)
ReserveSplit(n, i) ==
  LET b    == freeList[i]
      left == [start |-> b.start, size |-> b.size - n]
      L    == RemoveAt(freeList, i)
  IN
  /\ b.size > n
  /\ \E p \in 1 .. Len(L) + 1 :
       /\ SortedPosition(L, left.size, p)
       /\ freeList' = InsertAt(L, p, left)
  /\ pte' = IF left.size = 1 THEN Write({End(left)}, "zero") ELSE pte
  /\ reserved' = reserved \cup {[start |-> End(left), size |-> n]}

ReserveSystemPtes(c, n) ==
  /\ op[c].pc = "idle"
  /\ LockFree
  /\ \E i \in DOMAIN freeList :
       /\ FindFreeCluster(n, i)
       /\ ReserveExact(n, i) \/ ReserveSplit(n, i)
  /\ total' = total - n
  /\ UNCHANGED <<lock, op>>

(* The owner of a block writes a valid entry: the callers in alloc.cc and  *)
(* kpool.cc do so without SystemSpaceLock.                                 *)
MapPte(i) ==
  /\ \E b \in reserved : i \in Ptes(b)
  /\ pte' = Write({i}, "map")
  /\ UNCHANGED <<freeList, total, lock, reserved, op>>

-----------------------------------------------------------------------------
(* ReleaseSystemPtes                                                       *)

(* The entries are zeroed before the lock is taken.                        *)
ClearReleased(c, b) ==
  /\ op[c].pc = "idle"
  /\ pte' = Write(Ptes(b), "zero")
  /\ reserved' = reserved \ {b}
  /\ op' = [op EXCEPT ![c] = [pc |-> "clear", start |-> b.start,
                              size |-> b.size, pos |-> 1, insert |-> 0]]
  /\ UNCHANGED <<freeList, total, lock>>

AcquireCounting(c, n) ==
  /\ op[c].pc = "clear"
  /\ LockFree
  /\ lock' = c
  /\ total' = total + n
  /\ op' = [op EXCEPT ![c].pc = "walk"]
  /\ UNCHANGED <<pte, freeList, reserved>>

AcquireUncounted(c) == AcquireCounting(c, 0)
AcquireSpaceLock(c) == AcquireCounting(c, op[c].size)

(* One turn of the loop, at a cluster adjacent to the block: the cluster   *)
(* is unlinked and joins the block, and the insertion point is forgotten.  *)
MergeInto(c, insert) ==
  LET cur == freeList[op[c].pos] IN
  /\ op[c].pc = "walk"
  /\ op[c].pos <= Len(freeList)
  /\ Adjacent(cur, Released(c))
  /\ op' = [op EXCEPT ![c].start = IF cur.start < @ THEN cur.start ELSE @,
                      ![c].size = @ + cur.size,
                      ![c].insert = insert]
  /\ freeList' = RemoveAt(freeList, op[c].pos)
  /\ pte' = Write(Metadata(cur), "zero")
  /\ UNCHANGED <<total, lock, reserved>>

MergeKeepsPosition(c) == MergeInto(c, op[c].insert)
MergeCluster(c) == MergeInto(c, 0)

(* One turn of the loop, at any other cluster: the first one that is large *)
(* enough is remembered as the insertion point.                            *)
PassTo(c, next) ==
  LET cur == freeList[op[c].pos] IN
  /\ op[c].pc = "walk"
  /\ op[c].pos <= Len(freeList)
  /\ ~Adjacent(cur, Released(c))
  /\ op' = [op EXCEPT ![c].pos = next,
                      ![c].insert = IF @ = 0 /\ op[c].size <= cur.size
                                    THEN op[c].pos ELSE @]
  /\ UNCHANGED <<pte, freeList, total, lock, reserved>>

PassStays(c) == PassTo(c, op[c].pos)
PassCluster(c) == PassTo(c, op[c].pos + 1)

(* After the loop the block is marked and linked, and the lock released.   *)
LinkWhen(c, done) ==
  LET at == IF op[c].insert = 0 THEN op[c].pos ELSE op[c].insert IN
  /\ op[c].pc = "walk"
  /\ done
  /\ freeList' = InsertAt(freeList, at, Released(c))
  /\ pte' = Write(Metadata(Released(c)), "list")
  /\ lock' = NoCpu
  /\ op' = [op EXCEPT ![c] = Idle]
  /\ UNCHANGED <<total, reserved>>

LinkAtFirstFit(c) == LinkWhen(c, op[c].pos > Len(freeList) \/ op[c].insert # 0)
LinkReleased(c) == LinkWhen(c, op[c].pos > Len(freeList))

-----------------------------------------------------------------------------
Walk(c) == MergeCluster(c) \/ PassCluster(c) \/ LinkReleased(c)

Next ==
  \/ \E c \in Cpus, n \in Requests : ReserveSystemPtes(c, n)
  \/ \E i \in Index : MapPte(i)
  \/ \E c \in Cpus : \E b \in reserved : ClearReleased(c, b)
  \/ \E c \in Cpus : AcquireSpaceLock(c)
  \/ \E c \in Cpus : Walk(c)

(* A processor that holds SystemSpaceLock runs at DISPATCH_LEVEL and is    *)
(* not preempted, so its loop keeps going.                                 *)
Fairness == \A c \in Cpus : WF_vars(Walk(c))

Spec == Init /\ [][Next]_vars
FairSpec == Spec /\ Fairness

-----------------------------------------------------------------------------
(* Properties                                                              *)

Clusters == {freeList[i] : i \in DOMAIN freeList}
InState(s) == {Released(c) : c \in {d \in Cpus : op[d].pc = s}}
PtesOf(S) == UNION {Ptes(b) : b \in S}

TypeOK ==
  /\ pte \in [Index -> Contents]
  /\ freeList \in Seq(Block)
  /\ total \in 0 .. PoolSize
  /\ lock \in Cpus \cup {NoCpu}
  /\ reserved \subseteq Block
  /\ op \in [Cpus -> [pc : {"idle", "clear", "walk"}, start : 0 .. PoolSize - 1,
                     size : 1 .. PoolSize, pos : Nat \ {0}, insert : Nat]]

(* No entry is handed out twice or lost: each entry of the pool is in one  *)
(* free cluster, in one reserved block, or in one block on its way back.   *)
PtePartition ==
  LET Parts == Clusters \cup reserved \cup InState("clear") \cup InState("walk") IN
  /\ PtesOf(Parts) = 0 .. PoolSize - 1
  /\ \A a, b \in Parts : a # b => Ptes(a) \cap Ptes(b) = {}
  /\ \A i, j \in DOMAIN freeList : i # j => freeList[i] # freeList[j]

(* FindFreeCluster takes the first cluster that fits, and a reservation    *)
(* and a release both look for the place of a cluster by its size: the     *)
(* list is in order of size, whatever was merged on the way.               *)
FreeListSorted ==
  \A i, j \in DOMAIN freeList : i < j => freeList[i].size <= freeList[j].size

(* A release merges every neighbour, so no two clusters touch, and a       *)
(* request fails only when no run of free entries could have met it.       *)
FreeListCoalesced ==
  \A i, j \in DOMAIN freeList : i # j => ~Adjacent(freeList[i], freeList[j])

(* The entries in which the list keeps its links and sizes are intact: no  *)
(* write of an owner, and none of the clears of a reservation or a merge,  *)
(* hits them.                                                              *)
MetadataIntact ==
  \A b \in Clusters : \A i \in Metadata(b) : pte[i] = "list"

(* The list implements the abstract pool: reservations are the tails of    *)
(* best-fitting runs, and TotalSystemFreePtes is the number of free PTEs.  *)
Pool == INSTANCE PteSpace
          WITH free <- PtesOf(Clusters \cup InState("walk")),
               available <- total,
               leaving <- InState("clear")
ImplementsPool == Pool!Spec

(* The loop of a release, which edits the list it walks, comes to an end   *)
(* and gives SystemSpaceLock back.                                         *)
ReleaseTerminates == \A c \in Cpus : (lock = c) ~> (lock = NoCpu)

(* The entries a reservation clears are those that held the metadata of    *)
(* the cluster it takes ("Clear the PTE that held the list metadata",      *)
(* "Clear the PTE that held the cluster size"): it never clears a mapping. *)
ReserveKeepsMappings ==
  [][(\E n \in Requests : total' = total - n) =>
       \A i \in Index : pte[i] = "map" => pte'[i] = "map"]_vars

=============================================================================
