-------------------------- MODULE SystemPtesProofs --------------------------
(***************************************************************************)
(* Proofs about the system PTE allocator, for every number of processors,  *)
(* pool size and set of request sizes.                                     *)
(*                                                                         *)
(* The inductive invariant says where the entries are in terms of the ends *)
(* of blocks (Apart, Within) rather than of sets of entries, and what the  *)
(* loop of a release has established about the clusters it passed.         *)
(*                                                                         *)
(* The last section shows that the sorted, coalesced list implements the   *)
(* abstract pool of PteSpace: a first fit is a best fit, and a cluster is  *)
(* a maximal run of free entries.                                          *)
(***************************************************************************)
EXTENDS SystemPtes, SequenceEdits, FiniteSetTheorems

Apart(a, b) == End(a) <= b.start \/ End(b) <= a.start
Busy(c) == op[c].pc # "idle"

ClustersApart ==
  \A i, j \in DOMAIN freeList : i # j => Apart(freeList[i], freeList[j])

OwnersApart ==
  /\ \A a, b \in reserved : a # b => Apart(a, b)
  /\ \A c, d \in Cpus : c # d /\ Busy(c) /\ Busy(d) => Apart(Released(c), Released(d))
  /\ \A b \in reserved, c \in Cpus : Busy(c) => Apart(b, Released(c))

FreeApart ==
  \A i \in DOMAIN freeList :
    /\ \A b \in reserved : Apart(freeList[i], b)
    /\ \A c \in Cpus : Busy(c) => Apart(freeList[i], Released(c))

Within ==
  /\ \A i \in DOMAIN freeList : End(freeList[i]) <= PoolSize
  /\ \A b \in reserved : End(b) <= PoolSize
  /\ \A c \in Cpus : End(Released(c)) <= PoolSize

Covered ==
  \A i \in 0 .. PoolSize - 1 :
    \/ \E j \in DOMAIN freeList : i \in Ptes(freeList[j])
    \/ \E b \in reserved : i \in Ptes(b)
    \/ \E c \in Cpus : Busy(c) /\ i \in Ptes(Released(c))

LockHeld == \A c \in Cpus : (op[c].pc = "walk") <=> (lock = c)

(* The locals of the loop are set before the walk starts.                  *)
Fresh == \A c \in Cpus : op[c].pc = "clear" => op[c].pos = 1 /\ op[c].insert = 0

(* What the loop knows: no cluster behind it touches the block, and the    *)
(* clusters that stay in front of the insertion point are smaller.         *)
Walked ==
  \A c \in Cpus : op[c].pc = "walk" =>
    /\ op[c].pos <= Len(freeList) + 1
    /\ \A j \in 1 .. op[c].pos - 1 : ~Adjacent(freeList[j], Released(c))
    /\ op[c].insert = 0 =>
         \A j \in 1 .. op[c].pos - 1 : freeList[j].size < op[c].size
    /\ op[c].insert # 0 =>
         /\ op[c].insert < op[c].pos
         /\ \A j \in 1 .. op[c].insert - 1 : freeList[j].size < op[c].size
         /\ freeList[op[c].insert].size >= op[c].size

FreePtes == PtesOf(Clusters \cup InState("walk"))
Counted == total = Cardinality(FreePtes)

Types ==
  /\ pte \in [Index -> Contents]
  /\ freeList \in Seq(Block)
  /\ total \in Int
  /\ lock \in Cpus \cup {NoCpu}
  /\ reserved \subseteq Block
  /\ op \in [Cpus -> [pc : {"idle", "clear", "walk"}, start : 0 .. PoolSize - 1,
                      size : 1 .. PoolSize, pos : Nat \ {0}, insert : Nat]]

MetadataInv == \A i \in DOMAIN freeList : \A k \in Metadata(freeList[i]) : pte[k] = "list"

IInv ==
  /\ Types /\ LockHeld /\ Fresh /\ Within /\ Covered
  /\ ClustersApart /\ OwnersApart /\ FreeApart
  /\ FreeListCoalesced /\ FreeListSorted /\ Walked /\ MetadataInv /\ Counted

-----------------------------------------------------------------------------
USE NoCpuAssumption, PoolSizeAssumption, RequestsAssumption

(* The metadata of a cluster lies in the cluster.                          *)
LEMMA MetadataInside ==
  ASSUME NEW b \in Block, NEW k \in Metadata(b)
  PROVE  k \in Int /\ b.start <= k /\ k < End(b)
<1>1. b.start \in Nat /\ b.size \in Nat /\ b.size >= 1
  BY DEF Block
<1>2. CASE b.size = 1
  BY <1>1, <1>2 DEF Metadata, End
<1>3. CASE b.size # 1
  BY <1>1, <1>3 DEF Metadata, End
<1> QED BY <1>2, <1>3

FreeAt(k) ==
  \/ \E j \in DOMAIN freeList : k \in Ptes(freeList[j])
  \/ \E c \in Cpus : op[c].pc = "walk" /\ k \in Ptes(Released(c))

(* An entry is free when it is in a cluster or in the block of a release   *)
(* that holds the lock.                                                    *)
LEMMA FreeMembers ==
  /\ \A k : k \in FreePtes <=> FreeAt(k)
  /\ (\A k : k \in FreePtes <=> FreeAt(k))'
<1>1. \A k : k \in FreePtes <=> FreeAt(k)
  BY DEF FreePtes, FreeAt, PtesOf, Clusters, InState
<1>2. (\A k : k \in FreePtes <=> FreeAt(k))'
  BY DEF FreePtes, FreeAt, PtesOf, Clusters, InState
<1> QED BY <1>1, <1>2

(* Blocks that are apart share no entry.                                   *)
LEMMA ApartDisjoint ==
  ASSUME NEW a \in Block, NEW b \in Block, Apart(a, b)
  PROVE  \A k : ~(k \in Ptes(a) /\ k \in Ptes(b))
<1>1. /\ a.start \in Int /\ a.size \in Int
      /\ b.start \in Int /\ b.size \in Int
  BY DEF Block
<1> QED BY <1>1 DEF Apart, Ptes, End

(* A step of the search moves its position and its insertion point.        *)
LEMMA WalkEdits ==
  ASSUME NEW o, o = [pc |-> o.pc, start |-> o.start, size |-> o.size, pos |-> o.pos, insert |-> o.insert],
         NEW q, NEW i, NEW w, w = [o EXCEPT !.pos = q, !.insert = i]
  PROVE  w = [pc |-> o.pc, start |-> o.start, size |-> o.size, pos |-> q, insert |-> i]
<1>1. DOMAIN o = {"pc", "start", "size", "pos", "insert"}
  OBVIOUS
<1>2. /\ DOMAIN w = {"pc", "start", "size", "pos", "insert"} /\ w = [x \in DOMAIN w |-> w[x]]
      /\ w.pc = o.pc /\ w.start = o.start /\ w.size = o.size /\ w.pos = q /\ w.insert = i
  BY <1>1
<1>3. PICK z : z = [pc |-> o.pc, start |-> o.start, size |-> o.size, pos |-> q, insert |-> i]
  OBVIOUS
<1>4. /\ DOMAIN z = {"pc", "start", "size", "pos", "insert"} /\ z = [x \in DOMAIN z |-> z[x]]
      /\ z.pc = o.pc /\ z.start = o.start /\ z.size = o.size /\ z.pos = q /\ z.insert = i
  BY <1>3
<1>5. \A x \in DOMAIN w : w[x] = z[x]
  BY <1>2, <1>4
<1> QED BY <1>2, <1>3, <1>4, <1>5

(* The entries of a block are as many as its size says.                    *)
LEMMA BlockCardinality ==
  ASSUME NEW b \in Block
  PROVE  IsFiniteSet(Ptes(b)) /\ Cardinality(Ptes(b)) = b.size
<1>1. b.start \in Int /\ b.size \in Int /\ b.size >= 1
  BY DEF Block
<1>2. b.start <= b.start + b.size - 1 /\ b.start + b.size - 1 - b.start + 1 = b.size
  BY <1>1
<1>3. PICK m \in Int, n \in Int : m = b.start /\ n = b.start + b.size - 1
  BY <1>1
<1>4. IsFiniteSet(m .. n) /\ Cardinality(m .. n) = IF m > n THEN 0 ELSE n - m + 1
  BY FS_Interval
<1>5. Ptes(b) = m .. n
  BY <1>3 DEF Ptes
<1>6. ~(m > n) /\ n - m + 1 = b.size
  BY <1>1, <1>3
<1> QED BY <1>4, <1>5, <1>6

(* The free entries are finitely many.                                     *)
LEMMA FreeFinite ==
  ASSUME Types, Within
  PROVE  FreePtes \subseteq 0 .. PoolSize - 1 /\ IsFiniteSet(FreePtes)
<1>1. ASSUME NEW k \in FreePtes PROVE k \in 0 .. PoolSize - 1
  <2>1. CASE \E j \in DOMAIN freeList : k \in Ptes(freeList[j])
    <3>1. PICK j \in DOMAIN freeList : k \in Ptes(freeList[j])
      BY <2>1
    <3>2. freeList[j] \in Block /\ End(freeList[j]) <= PoolSize
      BY ElementOfSeq, LenProperties DEF Types, Within
    <3> QED BY <3>1, <3>2 DEF Block, Ptes, End
  <2>2. CASE \E c \in Cpus : op[c].pc = "walk" /\ k \in Ptes(Released(c))
    <3>1. PICK c \in Cpus : k \in Ptes(Released(c))
      BY <2>2
    <3>2. Released(c) \in Block /\ End(Released(c)) <= PoolSize
      BY DEF Types, Within, Released, Block
    <3> QED BY <3>1, <3>2 DEF Block, Ptes, End
  <2> QED BY <1>1, <2>1, <2>2, FreeMembers DEF FreeAt
<1>2. IsFiniteSet(0 .. PoolSize - 1)
  BY FS_Interval
<1> QED BY <1>1, <1>2, FS_Subset

(* The count stays exact when a block leaves the free entries, ...         *)
LEMMA CountTake ==
  ASSUME Types, Within, Counted, NEW b \in Block, Ptes(b) \subseteq FreePtes,
         FreePtes' = FreePtes \ Ptes(b), total' = total - b.size
  PROVE  Counted'
<1>1. IsFiniteSet(FreePtes)
  BY FreeFinite
<1>2. FreePtes \cap Ptes(b) = Ptes(b)
  OBVIOUS
<1>3. Cardinality(FreePtes \ Ptes(b)) = Cardinality(FreePtes) - Cardinality(Ptes(b))
  BY <1>1, <1>2, FS_Difference
<1> QED BY <1>3, BlockCardinality DEF Counted

(* ... and when one joins them.                                            *)
LEMMA CountGive ==
  ASSUME Types, Within, Counted, NEW b \in Block, Ptes(b) \cap FreePtes = {},
         FreePtes' = FreePtes \cup Ptes(b), total' = total + b.size
  PROVE  Counted'
<1>1. IsFiniteSet(FreePtes) /\ IsFiniteSet(Ptes(b)) /\ Cardinality(Ptes(b)) = b.size
  BY FreeFinite, BlockCardinality
<1>2. FreePtes \cap Ptes(b) = {} /\ Cardinality({}) = 0
  BY FS_EmptySet
<1>3. Cardinality(FreePtes \cup Ptes(b)) = Cardinality(FreePtes) + b.size - 0
  BY <1>1, <1>2, FS_Union
<1>4. Cardinality(FreePtes) \in Int /\ b.size \in Int
  BY <1>1, FS_CardinalityType DEF Block
<1> QED BY <1>3, <1>4 DEF Counted

(* While nobody holds the lock, a reservation that takes a whole cluster   *)
(* keeps the invariant: the stray clear hits no link of the list because   *)
(* no other cluster starts right behind the one taken.                     *)
LEMMA ReserveExactStep ==
  ASSUME IInv, NEW n \in Requests, NEW p \in DOMAIN freeList, LockFree,
         ReserveExact(n, p), total' = total - n, UNCHANGED <<lock, op>>
  PROVE  IInv' /\ FreePtes' = FreePtes \ Ptes(freeList[p])
<1> DEFINE b == freeList[p]
           L == freeList
<1>1. Types /\ LockHeld /\ Fresh /\ Within /\ Covered
  BY DEF IInv
<1>2. ClustersApart /\ OwnersApart /\ FreeApart
  BY DEF IInv
<1>3. FreeListCoalesced /\ FreeListSorted /\ Walked /\ MetadataInv /\ Counted
  BY DEF IInv
<1>4. L \in Seq(Block) /\ Len(L) \in Nat /\ DOMAIN L = 1 .. Len(L) /\ p \in 1 .. Len(L)
  BY <1>1, LenProperties DEF Types
<1>5. b \in Block /\ \A i \in 1 .. Len(L) : L[i] \in Block
  BY <1>4, ElementOfSeq
<1>6. /\ freeList' \in Seq(Block)
      /\ Len(freeList') = Len(L) - 1
      /\ DOMAIN freeList' = 1 .. Len(L) - 1
      /\ \A i \in 1 .. Len(L) - 1 : freeList'[i] = IF i < p THEN L[i] ELSE L[i + 1]
  <2>1. freeList' = RemoveAt(L, p)
    BY DEF ReserveExact, TakeCluster
  <2>2. freeList' \in Seq(Block) /\ Len(freeList') = Len(L) - 1
    BY <1>4, <2>1, RemoveAtProperties
  <2>3. DOMAIN freeList' = 1 .. Len(L) - 1
    BY <2>2, LenProperties
  <2> QED BY <1>4, <2>1, <2>2, <2>3, RemoveAtProperties
<1>7. \A i \in DOMAIN freeList' :
        \E k \in 1 .. Len(L) : k # p /\ freeList'[i] = L[k]
  BY <1>4, <1>6
<1>8. reserved' = reserved \cup {b} /\ op' = op /\ lock' = lock /\ b.size = n
  BY DEF ReserveExact, TakeCluster
<1>9. \A c \in Cpus : op[c].pc # "walk"
  BY <1>1 DEF LockHeld, LockFree
<1>10. Types'
  <2>1. pte' \in [Index -> Contents]
    BY <1>1 DEF Types, ReserveExact, TakeCluster, Write, Contents
  <2>2. reserved' \subseteq Block
    BY <1>1, <1>5, <1>8 DEF Types
  <2>3. total' \in Int
    BY <1>1 DEF Types
  <2> QED BY <1>1, <1>6, <1>8, <2>1, <2>2, <2>3 DEF Types
<1>11. LockHeld' /\ Fresh'
  BY <1>1, <1>8 DEF LockHeld, Fresh
<1>12. Within'
  BY <1>1, <1>4, <1>7, <1>8 DEF Within, End, Released
<1>13. ClustersApart'
  <2> SUFFICES ASSUME NEW i \in DOMAIN freeList', NEW j \in DOMAIN freeList', i # j
               PROVE  Apart(freeList'[i], freeList'[j])
    BY DEF ClustersApart, Apart, End
  <2>1. PICK k \in 1 .. Len(L), m \in 1 .. Len(L) :
          k # m /\ freeList'[i] = L[k] /\ freeList'[j] = L[m]
    BY <1>4, <1>6, SMTT(30)
  <2> QED BY <1>2, <1>4, <2>1 DEF ClustersApart
<1>14. OwnersApart'
  <2>1. \A a \in reserved : Apart(a, b) /\ Apart(b, a)
    BY <1>2, <1>4 DEF FreeApart, Apart
  <2>2. \A c \in Cpus : Busy(c) => Apart(b, Released(c))
    BY <1>2, <1>4 DEF FreeApart
  <2> QED BY <1>2, <1>8, <2>1, <2>2 DEF OwnersApart, Busy, Released, Apart, End
<1>15. FreeApart'
  <2>1. ASSUME NEW i \in DOMAIN freeList' PROVE Apart(freeList'[i], b)
    BY <1>2, <1>4, <1>7 DEF ClustersApart
  <2> QED BY <1>2, <1>4, <1>7, <1>8, <2>1 DEF FreeApart, Busy, Released, Apart, End
<1>16. FreeListCoalesced'
  <2> SUFFICES ASSUME NEW i \in DOMAIN freeList', NEW j \in DOMAIN freeList', i # j
               PROVE  ~Adjacent(freeList'[i], freeList'[j])
    BY DEF FreeListCoalesced, Adjacent, End
  <2>1. PICK k \in 1 .. Len(L), m \in 1 .. Len(L) :
          k # m /\ freeList'[i] = L[k] /\ freeList'[j] = L[m]
    BY <1>4, <1>6, SMTT(30)
  <2> QED BY <1>3, <1>4, <2>1 DEF FreeListCoalesced
<1>17. FreeListSorted'
  <2> SUFFICES ASSUME NEW i \in DOMAIN freeList', NEW j \in DOMAIN freeList', i < j
               PROVE  freeList'[i].size <= freeList'[j].size
    BY DEF FreeListSorted
  <2>1. PICK k \in 1 .. Len(L), m \in 1 .. Len(L) :
          k < m /\ freeList'[i] = L[k] /\ freeList'[j] = L[m]
    BY <1>4, <1>6, SMTT(30)
  <2> QED BY <1>3, <1>4, <2>1 DEF FreeListSorted
<1>18. Walked'
  BY <1>8, <1>9 DEF Walked
<1>19. Covered'
  <2> SUFFICES ASSUME NEW i \in 0 .. PoolSize - 1
               PROVE  \/ \E j \in DOMAIN freeList' : i \in Ptes(freeList'[j])
                      \/ \E a \in reserved' : i \in Ptes(a)
                      \/ \E c \in Cpus : Busy(c)' /\ i \in Ptes(Released(c)')
    BY DEF Covered, Ptes
  <2>1. CASE \E a \in reserved : i \in Ptes(a)
    BY <1>8, <2>1
  <2>2. CASE \E c \in Cpus : Busy(c) /\ i \in Ptes(Released(c))
    BY <1>8, <2>2 DEF Busy, Released
  <2>3. ASSUME NEW j \in DOMAIN L, i \in Ptes(L[j])
        PROVE  (\E a \in reserved' : i \in Ptes(a)) \/
               (\E k \in DOMAIN freeList' : i \in Ptes(freeList'[k]))
    <3>1. CASE j = p
      BY <1>8, <2>3, <3>1
    <3>2. CASE j < p
      BY <1>4, <1>6, <2>3, <3>2
    <3>3. CASE j > p
      <4>1. j - 1 \in DOMAIN freeList' /\ freeList'[j - 1] = L[j]
        BY <1>4, <1>6, <3>3
      <4> QED BY <2>3, <4>1
    <3> QED BY <1>4, <3>1, <3>2, <3>3
  <2> QED BY <1>1, <2>1, <2>2, <2>3 DEF Covered
<1>20. MetadataInv'
  <2> SUFFICES ASSUME NEW i \in DOMAIN freeList', NEW k \in Metadata(freeList'[i])
               PROVE  pte'[k] = "list"
    BY DEF MetadataInv, Metadata
  <2>1. PICK m \in 1 .. Len(L) : m # p /\ freeList'[i] = L[m]
    BY <1>7
  <2>2. /\ k \in Int /\ L[m].start <= k /\ k < End(L[m]) /\ End(L[m]) <= PoolSize
    BY <1>1, <1>4, <1>5, <2>1, MetadataInside DEF Within
  <2>3. Apart(b, L[m]) /\ ~Adjacent(b, L[m])
    BY <1>2, <1>3, <1>4, <2>1 DEF ClustersApart, FreeListCoalesced
  <2>4. k # b.start /\ (b.size = 1 => k # b.start + 1)
    BY <1>5, <2>1, <2>2, <2>3, SMTT(30) DEF Apart, Adjacent, End, Block
  <2>5. pte[k] = "list"
    BY <1>3, <1>4, <2>1 DEF MetadataInv
  <2>6. k \in Index /\ k \notin (IF n = 1 THEN {b.start, b.start + 1} ELSE {b.start})
    <3>1. b.start \in Int /\ L[m].start \in Nat /\ End(L[m]) \in Int
      BY <1>5 DEF Block, End
    <3>2. k \in Index
      BY <2>2, <3>1 DEF Index
    <3> QED BY <1>8, <2>4, <3>2
  <2> QED BY <2>5, <2>6 DEF ReserveExact, TakeCluster, Write
<1>21. Counted' /\ FreePtes' = FreePtes \ Ptes(b)
  <2>1. Ptes(b) \subseteq FreePtes
    BY <1>4, FreeMembers DEF FreeAt
  <2>2. ASSUME NEW k PROVE k \in FreePtes' <=> k \in FreePtes \ Ptes(b)
    <3>1. FreeAt(k)' <=> \E j \in DOMAIN freeList' : k \in Ptes(freeList'[j])
      BY <1>8, <1>9 DEF FreeAt, Released, Ptes
    <3>2. FreeAt(k) <=> \E j \in DOMAIN L : k \in Ptes(L[j])
      BY <1>9 DEF FreeAt
    <3>3. ASSUME NEW j \in DOMAIN freeList', k \in Ptes(freeList'[j])
          PROVE  FreeAt(k) /\ k \notin Ptes(b)
      <4>1. PICK m \in 1 .. Len(L) : m # p /\ freeList'[j] = L[m]
        BY <1>7, <3>3
      <4>2. Apart(b, L[m]) /\ L[m] \in Block
        BY <1>2, <1>4, <1>5, <4>1 DEF ClustersApart
      <4>3. k \notin Ptes(b)
        BY <1>5, <3>3, <4>1, <4>2, SMTT(30) DEF Apart, Ptes, End, Block
      <4> QED BY <1>4, <3>2, <3>3, <4>1, <4>3
    <3>4. ASSUME NEW j \in DOMAIN L, k \in Ptes(L[j]), k \notin Ptes(b)
          PROVE  \E m \in DOMAIN freeList' : k \in Ptes(freeList'[m])
      <4>1. CASE j < p
        BY <1>4, <1>6, <3>4, <4>1
      <4>2. CASE j > p
        <5>1. j - 1 \in DOMAIN freeList' /\ freeList'[j - 1] = L[j]
          BY <1>4, <1>6, <4>2
        <5> QED BY <3>4, <5>1
      <4> QED BY <1>4, <3>4, <4>1, <4>2
    <3> QED BY <3>1, <3>2, <3>3, <3>4, FreeMembers
  <2>3. FreePtes' = FreePtes \ Ptes(b)
    BY <2>2
  <2> QED BY <1>1, <1>3, <1>5, <1>8, <2>1, <2>3, CountTake
<1> QED BY <1>10, <1>11, <1>12, <1>13, <1>14, <1>15, <1>16, <1>17, <1>18, <1>19, <1>20, <1>21 DEF IInv

(* A reservation that takes the tail of a larger cluster keeps the         *)
(* invariant: what is left is linked again at its place by size.           *)
LEMMA ReserveSplitStep ==
  ASSUME IInv, NEW n \in Requests, NEW p \in DOMAIN freeList, LockFree,
         ReserveSplit(n, p), total' = total - n, UNCHANGED <<lock, op>>
  PROVE  IInv' /\ FreePtes' = FreePtes \ Ptes([start |-> freeList[p].start + (freeList[p].size - n), size |-> n])
<1> DEFINE b == freeList[p]
           L == freeList
           R == RemoveAt(freeList, p)
           left == [start |-> b.start, size |-> b.size - n]
           new == [start |-> End(left), size |-> n]
<1>1. Types /\ LockHeld /\ Fresh /\ Within /\ Covered
  BY DEF IInv
<1>2. ClustersApart /\ OwnersApart /\ FreeApart
  BY DEF IInv
<1>3. FreeListCoalesced /\ FreeListSorted /\ Walked /\ MetadataInv /\ Counted
  BY DEF IInv
<1>4. L \in Seq(Block) /\ Len(L) \in Nat /\ DOMAIN L = 1 .. Len(L) /\ p \in 1 .. Len(L)
  BY <1>1, LenProperties DEF Types
<1>5. b \in Block /\ \A i \in 1 .. Len(L) : L[i] \in Block
  BY <1>4, ElementOfSeq
<1>6. n \in Nat /\ n >= 1 /\ b.size > n
  <2>1. n \in Nat /\ n >= 1
    OBVIOUS
  <2>2. b.size > n
    BY DEF ReserveSplit
  <2> QED BY <2>1, <2>2
<1>7. left \in Block /\ new \in Block /\ End(left) = new.start /\ End(new) = End(b)
  <2>1. b.start \in Nat /\ b.size \in Nat /\ End(b) <= PoolSize
    BY <1>1, <1>4, <1>5 DEF Block, Within
  <2> QED BY <1>6, <2>1 DEF Block, End
<1>8. /\ R \in Seq(Block) /\ Len(R) = Len(L) - 1
      /\ \A i \in 1 .. Len(L) - 1 : R[i] = IF i < p THEN L[i] ELSE L[i + 1]
  BY <1>4, RemoveAtProperties
<1>9. PICK q \in 1 .. Len(R) + 1 : SortedPosition(R, left.size, q) /\ freeList' = InsertAt(R, q, left)
  BY DEF ReserveSplit
<1>10. /\ freeList' \in Seq(Block) /\ DOMAIN freeList' = 1 .. Len(L)
       /\ \A i \in 1 .. Len(L) :
            freeList'[i] = IF i < q THEN R[i] ELSE IF i = q THEN left ELSE R[i - 1]
  <2> HIDE DEF R, left, new, b, L
  <2>1. left \in Block /\ R \in Seq(Block) /\ q \in 1 .. Len(R) + 1
    BY <1>7, <1>8, <1>9
  <2>2. InsertAt(R, q, left) \in Seq(Block) /\ Len(InsertAt(R, q, left)) = Len(R) + 1
    BY <2>1, InsertAtProperties
  <2>3. \A i \in 1 .. Len(R) + 1 :
       InsertAt(R, q, left)[i] = IF i < q THEN R[i] ELSE IF i = q THEN left ELSE R[i - 1]
    BY <2>1, InsertAtProperties
  <2>4. DOMAIN freeList' = 1 .. Len(L) /\ freeList' = InsertAt(R, q, left)
    BY <1>4, <1>8, <1>9, <2>2, LenProperties
  <2> QED BY <1>4, <1>8, <2>2, <2>3, <2>4
<1>11. reserved' = reserved \cup {new} /\ op' = op /\ lock' = lock
  BY DEF ReserveSplit
<1>12. pte' = IF left.size = 1 THEN Write({End(left)}, "zero") ELSE pte
  BY DEF ReserveSplit
<1>13. \A c \in Cpus : op[c].pc # "walk"
  BY <1>1 DEF LockHeld, LockFree
<1> HIDE DEF left, new, R
<1>14. q \in 1 .. Len(L) /\ q \in DOMAIN freeList' /\ freeList'[q] = left
  BY <1>4, <1>8, <1>10
<1>15. ASSUME NEW i \in DOMAIN freeList', i # q
       PROVE  \E k \in 1 .. Len(L) : k # p /\ freeList'[i] = L[k]
  <2>1. PICK r \in 1 .. Len(L) - 1 : freeList'[i] = R[r]
    <3>1. CASE i < q
      <4>1. i \in 1 .. Len(L) - 1 /\ freeList'[i] = R[i]
        BY <1>4, <1>8, <1>9, <1>10, <3>1
      <4> QED BY <4>1
    <3>2. CASE i > q
      <4>1. i - 1 \in 1 .. Len(L) - 1 /\ freeList'[i] = R[i - 1]
        BY <1>4, <1>8, <1>9, <1>10, <3>2
      <4> QED BY <4>1
    <3> QED BY <1>4, <1>10, <1>15, <3>1, <3>2
  <2>2. CASE r < p
    BY <1>4, <1>8, <2>1, <2>2
  <2>3. CASE r >= p
    <3>1. r + 1 \in 1 .. Len(L) /\ r + 1 # p /\ R[r] = L[r + 1]
      BY <1>4, <1>8, <2>3
    <3> QED BY <2>1, <3>1
  <2> QED BY <1>4, <2>2, <2>3
<1>16. ASSUME NEW i \in DOMAIN freeList', NEW j \in DOMAIN freeList', i < j, i # q, j # q
       PROVE  \E k, m \in 1 .. Len(L) :
                k # p /\ m # p /\ k < m /\ freeList'[i] = L[k] /\ freeList'[j] = L[m]
  <2>1. PICK r \in 1 .. Len(L) - 1, t \in 1 .. Len(L) - 1 :
          r < t /\ freeList'[i] = R[r] /\ freeList'[j] = R[t]
    <3> DEFINE r == IF i < q THEN i ELSE i - 1
               t == IF j < q THEN j ELSE j - 1
    <3>1. r \in 1 .. Len(L) - 1 /\ t \in 1 .. Len(L) - 1 /\ r < t
      BY <1>4, <1>8, <1>9, <1>10, <1>16
    <3>2. freeList'[i] = R[r] /\ freeList'[j] = R[t]
      BY <1>4, <1>10, <1>16
    <3> QED BY <3>1, <3>2
  <2> QED BY <1>4, <1>8, <2>1, SMTT(30)
<1>17. ASSUME NEW k \in 1 .. Len(L), k # p
       PROVE  \E i \in DOMAIN freeList' : i # q /\ freeList'[i] = L[k]
  <2>1. PICK r \in 1 .. Len(L) - 1 : R[r] = L[k]
    <3>1. CASE k < p
      BY <1>4, <1>8, <3>1
    <3>2. CASE k > p
      <4>1. k - 1 \in 1 .. Len(L) - 1 /\ R[k - 1] = L[k]
        BY <1>4, <1>8, <3>2
      <4> QED BY <4>1
    <3> QED BY <1>4, <1>17, <3>1, <3>2
  <2>2. CASE r < q
    BY <1>4, <1>10, <2>1, <2>2
  <2>3. CASE r >= q
    <3>1. r + 1 \in DOMAIN freeList' /\ r + 1 # q /\ freeList'[r + 1] = R[r]
      BY <1>4, <1>10, <2>3
    <3> QED BY <2>1, <3>1
  <2> QED BY <1>4, <2>2, <2>3
<1>18. ASSUME NEW a \in Block, Apart(b, a)
       PROVE  Apart(left, a) /\ Apart(a, left) /\ Apart(new, a) /\ Apart(a, new)
  BY <1>5, <1>6, <1>7, <1>18, SMTT(30) DEF Apart, End, Block, left, new
<1>19. Apart(left, new)
  <2>1. End(left) = new.start /\ new.start \in Nat
    BY <1>7 DEF Block
  <2> QED BY <2>1 DEF Apart
<1>20. Types'
  <2>1. pte' \in [Index -> Contents]
    BY <1>1, <1>12 DEF Types, Write, Contents
  <2>2. reserved' \subseteq Block /\ total' \in Int
    BY <1>1, <1>6, <1>7, <1>11 DEF Types
  <2> QED BY <1>1, <1>10, <1>11, <2>1, <2>2 DEF Types
<1>21. LockHeld' /\ Fresh'
  BY <1>1, <1>11 DEF LockHeld, Fresh
<1>22. Within'
  <2>1. End(left) <= PoolSize /\ End(new) <= PoolSize
    <3>1. End(b) <= PoolSize /\ new.start \in 0 .. PoolSize - 1
      BY <1>1, <1>4, <1>7 DEF Within, Block
    <3> QED BY <1>7, <3>1
  <2>2. \A i \in DOMAIN freeList' : End(freeList'[i]) <= PoolSize
    BY <1>1, <1>4, <1>14, <1>15, <2>1 DEF Within
  <2> QED BY <1>1, <1>11, <2>1, <2>2 DEF Within, End, Released
<1>23. ASSUME NEW i \in DOMAIN freeList', i # q
       PROVE  Apart(left, freeList'[i]) /\ Apart(freeList'[i], left) /\ Apart(freeList'[i], new)
  BY <1>2, <1>4, <1>5, <1>15, <1>18, <1>23 DEF ClustersApart
<1>24. ClustersApart'
  <2> SUFFICES ASSUME NEW i \in DOMAIN freeList', NEW j \in DOMAIN freeList', i # j
               PROVE  Apart(freeList'[i], freeList'[j])
    BY DEF ClustersApart, Apart, End
  <2>1. CASE i = q \/ j = q
    BY <1>14, <1>23, <2>1
  <2>2. CASE i # q /\ j # q
    <3>1. PICK k \in 1 .. Len(L), m \in 1 .. Len(L) :
          k # m /\ freeList'[i] = L[k] /\ freeList'[j] = L[m]
      <4>1. CASE i < j
        BY <1>16, <2>2, <4>1
      <4>2. CASE j < i
        BY <1>16, <2>2, <4>2
      <4> QED BY <1>4, <1>10, <4>1, <4>2
    <3> QED BY <1>2, <1>4, <3>1 DEF ClustersApart
  <2> QED BY <2>1, <2>2
<1>25. OwnersApart'
  <2>1. \A a \in reserved : Apart(a, new) /\ Apart(new, a)
    BY <1>1, <1>2, <1>4, <1>18 DEF FreeApart, Types
  <2>2. \A c \in Cpus : Busy(c) => Apart(new, Released(c))
    <3>1. \A c \in Cpus : Released(c) \in Block
      BY <1>1 DEF Types, Released, Block
    <3> QED BY <1>2, <1>4, <1>18, <3>1 DEF FreeApart
  <2> QED BY <1>2, <1>11, <2>1, <2>2 DEF OwnersApart, Busy, Released, Apart, End
<1>26. FreeApart'
  <2>1. \A a \in reserved : Apart(left, a)
    BY <1>1, <1>2, <1>4, <1>18 DEF FreeApart, Types
  <2>2. \A c \in Cpus : Busy(c) => Apart(left, Released(c))
    <3>1. \A c \in Cpus : Released(c) \in Block
      BY <1>1 DEF Types, Released, Block
    <3> QED BY <1>2, <1>4, <1>18, <3>1 DEF FreeApart
  <2>3. ASSUME NEW i \in DOMAIN freeList'
        PROVE  /\ \A a \in reserved' : Apart(freeList'[i], a)
               /\ \A c \in Cpus : Busy(c) => Apart(freeList'[i], Released(c))
    <3>1. CASE i = q
      BY <1>11, <1>14, <1>19, <2>1, <2>2, <3>1
    <3>2. CASE i # q
      BY <1>2, <1>4, <1>11, <1>15, <1>23, <3>2 DEF FreeApart
    <3> QED BY <3>1, <3>2
  <2> QED BY <1>11, <2>3 DEF FreeApart, Busy, Released, Apart, End
<1>27. ASSUME NEW i \in DOMAIN freeList', i # q
       PROVE  ~Adjacent(left, freeList'[i]) /\ ~Adjacent(freeList'[i], left)
  <2>1. PICK k \in 1 .. Len(L) : k # p /\ freeList'[i] = L[k]
    BY <1>15, <1>27
  <2>2. ~Adjacent(b, L[k]) /\ Apart(b, L[k]) /\ L[k] \in Block
    BY <1>2, <1>3, <1>4, <1>5, <2>1 DEF FreeListCoalesced, ClustersApart
  <2> QED BY <1>5, <1>6, <2>1, <2>2, SMTT(30) DEF Adjacent, Apart, End, Block, left
<1>28. FreeListCoalesced'
  <2> SUFFICES ASSUME NEW i \in DOMAIN freeList', NEW j \in DOMAIN freeList', i # j
               PROVE  ~Adjacent(freeList'[i], freeList'[j])
    BY DEF FreeListCoalesced, Adjacent, End
  <2>1. CASE i = q \/ j = q
    BY <1>14, <1>27, <2>1
  <2>2. CASE i # q /\ j # q
    <3>1. PICK k \in 1 .. Len(L), m \in 1 .. Len(L) :
          k # m /\ freeList'[i] = L[k] /\ freeList'[j] = L[m]
      <4>1. CASE i < j
        BY <1>16, <2>2, <4>1
      <4>2. CASE j < i
        BY <1>16, <2>2, <4>2
      <4> QED BY <1>4, <1>10, <4>1, <4>2
    <3> QED BY <1>3, <1>4, <3>1 DEF FreeListCoalesced
  <2> QED BY <2>1, <2>2
<1>29. FreeListSorted'
  <2> SUFFICES ASSUME NEW i \in DOMAIN freeList', NEW j \in DOMAIN freeList', i < j
               PROVE  freeList'[i].size <= freeList'[j].size
    BY DEF FreeListSorted
  <2>1. ASSUME NEW r \in 1 .. Len(R), NEW t \in 1 .. Len(R), r < t
        PROVE  R[r].size <= R[t].size
    <3>1. PICK k \in 1 .. Len(L) : R[r] = L[k] /\ k = IF r < p THEN r ELSE r + 1
      BY <1>4, <1>8
    <3>2. PICK m \in 1 .. Len(L) : R[t] = L[m] /\ m = IF t < p THEN t ELSE t + 1
      BY <1>4, <1>8
    <3>3. k < m
      BY <1>4, <1>8, <2>1, <3>1, <3>2
    <3> QED BY <1>3, <1>4, <3>1, <3>2, <3>3 DEF FreeListSorted
  <2>2. \A r \in 1 .. Len(R) : R[r].size \in Nat
    <3>1. \A r \in 1 .. Len(R) : R[r] \in Block
      BY <1>8, ElementOfSeq
    <3> QED BY <3>1 DEF Block
  <2>3. left.size \in Nat
    BY <1>7 DEF Block
  <2>4. CASE j = q
    <3>1. i \in 1 .. q - 1 /\ i \in 1 .. Len(R) /\ freeList'[i] = R[i]
      BY <1>4, <1>8, <1>9, <1>10, <2>4
    <3>2. R[i].size < left.size
      BY <1>9, <3>1 DEF SortedPosition
    <3> QED BY <1>14, <2>2, <2>3, <2>4, <3>1, <3>2
  <2>5. CASE i = q
    <3>1. j - 1 \in 1 .. Len(R) /\ q \in 1 .. Len(R) /\ q <= j - 1 /\ freeList'[j] = R[j - 1]
      BY <1>4, <1>8, <1>10, <2>5
    <3>2. left.size <= R[q].size
      BY <1>9, <2>2, <2>3, <3>1 DEF SortedPosition
    <3>3. R[q].size <= R[j - 1].size
      BY <2>1, <2>2, <3>1
    <3> QED BY <1>14, <2>2, <2>3, <2>5, <3>1, <3>2, <3>3
  <2>6. CASE i # q /\ j # q
    BY <1>3, <1>4, <1>16, <2>6 DEF FreeListSorted
  <2> QED BY <2>4, <2>5, <2>6
<1>30. Walked'
  BY <1>11, <1>13 DEF Walked
<1>31. ASSUME NEW k PROVE k \in Ptes(b) <=> k \in Ptes(left) \/ k \in Ptes(new)
  BY <1>5, <1>6, SMTT(30) DEF Ptes, End, Block, left, new
<1>32. Covered'
  <2> SUFFICES ASSUME NEW i \in 0 .. PoolSize - 1
               PROVE  \/ \E j \in DOMAIN freeList' : i \in Ptes(freeList'[j])
                      \/ \E a \in reserved' : i \in Ptes(a)
                      \/ \E c \in Cpus : Busy(c)' /\ i \in Ptes(Released(c)')
    BY DEF Covered, Ptes
  <2>1. CASE \E a \in reserved : i \in Ptes(a)
    BY <1>11, <2>1
  <2>2. CASE \E c \in Cpus : Busy(c) /\ i \in Ptes(Released(c))
    BY <1>11, <2>2 DEF Busy, Released
  <2>3. ASSUME NEW j \in DOMAIN L, i \in Ptes(L[j])
        PROVE  (\E a \in reserved' : i \in Ptes(a)) \/
               (\E k \in DOMAIN freeList' : i \in Ptes(freeList'[k]))
    <3>1. CASE j = p
      BY <1>11, <1>14, <1>31, <2>3, <3>1
    <3>2. CASE j # p
      BY <1>4, <1>17, <2>3, <3>2
    <3> QED BY <3>1, <3>2
  <2> QED BY <1>1, <2>1, <2>2, <2>3 DEF Covered
<1>33. MetadataInv'
  <2> SUFFICES ASSUME NEW i \in DOMAIN freeList', NEW k \in Metadata(freeList'[i])
               PROVE  pte'[k] = "list"
    BY DEF MetadataInv, Metadata
  <2>1. CASE i = q
    <3>1. k \in Metadata(b)
      BY <1>5, <1>6, <1>14, <2>1 DEF Metadata, left, Block
    <3>2. left.size = 1 => k # End(left)
      BY <1>7, <1>14, <2>1 DEF Metadata, End, Block
    <3>3. k \in Index
      BY <1>1, <1>4, <1>5, <3>1, MetadataInside, SMTT(30) DEF Index, Within, End, Block
    <3> QED BY <1>3, <1>4, <1>12, <3>1, <3>2, <3>3 DEF MetadataInv, Write
  <2>2. CASE i # q
    <3>1. PICK m \in 1 .. Len(L) : m # p /\ freeList'[i] = L[m]
      BY <1>15, <2>2
    <3>2. k \in Int /\ L[m].start <= k /\ k < End(L[m]) /\ End(L[m]) <= PoolSize
      BY <1>1, <1>4, <1>5, <3>1, MetadataInside DEF Within
    <3>3. Apart(freeList'[i], new) /\ L[m] \in Block
      BY <1>5, <1>23, <2>2, <3>1
    <3>4. k # End(left) /\ k \in Index
      <4>1. /\ new.start \in Nat /\ new.size \in Nat /\ new.size >= 1
            /\ L[m].start \in Nat /\ End(L[m]) \in Int /\ End(new) = new.start + new.size
        <5> HIDE DEF L
        <5>1. new \in Block /\ L[m] \in Block
          BY <1>7, <3>3
        <5>2. new.start \in Nat /\ new.size \in Nat /\ new.size >= 1
          BY <5>1 DEF Block
        <5>3. L[m].start \in Nat /\ L[m].size \in Nat
          BY <5>1 DEF Block
        <5> QED BY <5>2, <5>3 DEF End
      <4>2. End(L[m]) <= new.start \/ End(new) <= L[m].start
        BY <3>1, <3>3 DEF Apart
      <4>3. k # new.start
        BY <3>2, <4>1, <4>2
      <4> QED BY <1>7, <3>2, <4>1, <4>3, SMTT(30) DEF Index
    <3>5. pte[k] = "list"
      BY <1>3, <1>4, <3>1 DEF MetadataInv
    <3> QED BY <1>12, <3>4, <3>5 DEF Write
  <2> QED BY <2>1, <2>2
<1>34. Counted' /\ FreePtes' = FreePtes \ Ptes(new)
  <2>1. ASSUME NEW k PROVE k \in FreePtes' <=> k \in FreePtes \ Ptes(new)
    <3>1. FreeAt(k)' <=> \E j \in DOMAIN freeList' : k \in Ptes(freeList'[j])
      BY <1>11, <1>13 DEF FreeAt, Released, Ptes
    <3>2. FreeAt(k) <=> \E j \in DOMAIN L : k \in Ptes(L[j])
      BY <1>13 DEF FreeAt
    <3>3. ASSUME NEW j \in DOMAIN freeList', k \in Ptes(freeList'[j])
          PROVE  FreeAt(k) /\ k \notin Ptes(new)
      <4>1. freeList'[j] \in Block /\ Apart(freeList'[j], new)
        BY <1>10, <1>14, <1>19, <1>23, ElementOfSeq, LenProperties
      <4>2. k \notin Ptes(new)
        BY <1>7, <3>3, <4>1, ApartDisjoint
      <4>3. CASE j = q
        BY <1>4, <1>14, <1>31, <3>2, <3>3, <4>2, <4>3
      <4>4. CASE j # q
        BY <1>4, <1>15, <3>2, <3>3, <4>2, <4>4
      <4> QED BY <4>2, <4>3, <4>4
    <3>4. ASSUME NEW j \in DOMAIN L, k \in Ptes(L[j]), k \notin Ptes(new)
          PROVE  \E m \in DOMAIN freeList' : k \in Ptes(freeList'[m])
      <4>1. CASE j = p
        BY <1>14, <1>31, <3>4, <4>1
      <4>2. CASE j # p
        BY <1>4, <1>17, <3>4, <4>2
      <4> QED BY <4>1, <4>2
    <3> QED BY <3>1, <3>2, <3>3, <3>4, FreeMembers
  <2>2. FreePtes' = FreePtes \ Ptes(new)
    BY <2>1
  <2>3. Ptes(new) \subseteq FreePtes
    BY <1>4, <1>31, FreeMembers DEF FreeAt
  <2>4. new.size = n
    BY DEF new
  <2> QED BY <1>1, <1>3, <1>7, <2>2, <2>3, <2>4, CountTake
<1>35. new = [start |-> b.start + (b.size - n), size |-> n]
  BY DEF new, left, End
<1> QED
  BY <1>20, <1>21, <1>22, <1>24, <1>25, <1>26, <1>28, <1>29, <1>30, <1>32, <1>33, <1>34, <1>35
  DEF IInv

(* The list's links lie outside every block that is reserved or on its way *)
(* back, so a write to such a block leaves them alone.                     *)
LEMMA MetadataElsewhere ==
  ASSUME Types, Within, MetadataInv, NEW b \in Block, NEW v \in Contents,
         \A i \in DOMAIN freeList : Apart(freeList[i], b),
         NEW S \in SUBSET Ptes(b), pte' = Write(S, v), freeList' = freeList
  PROVE  MetadataInv' /\ pte' \in [Index -> Contents]
<1>1. pte' \in [Index -> Contents]
  BY DEF Types, Write
<1>2. MetadataInv'
  <2> SUFFICES ASSUME NEW i \in DOMAIN freeList, NEW k \in Metadata(freeList[i])
               PROVE  pte'[k] = "list"
    BY DEF MetadataInv, Metadata
  <2>1. freeList[i] \in Block /\ End(freeList[i]) <= PoolSize
    BY ElementOfSeq, LenProperties DEF Types, Within
  <2>2. k \in Int /\ freeList[i].start <= k /\ k < End(freeList[i])
    BY <2>1, MetadataInside
  <2>3. k \in Ptes(freeList[i]) /\ k \in Index
    BY <2>1, <2>2 DEF Ptes, End, Index, Block
  <2>4. k \notin Ptes(b)
    BY <2>1, <2>3, ApartDisjoint
  <2> QED BY <2>3, <2>4 DEF MetadataInv, Write
<1> QED BY <1>1, <1>2

(* An owner's write to an entry of its block.                              *)
LEMMA MapStep ==
  ASSUME IInv, NEW i \in Index, MapPte(i)
  PROVE  IInv' /\ FreePtes' = FreePtes
<1>1. PICK b \in reserved : i \in Ptes(b)
  BY DEF MapPte
<1>2. /\ pte' = Write({i}, "map") /\ freeList' = freeList /\ total' = total
      /\ lock' = lock /\ reserved' = reserved /\ op' = op
  BY DEF MapPte
<1>3. MetadataInv' /\ pte' \in [Index -> Contents]
  <2>1. b \in Block /\ \A j \in DOMAIN freeList : Apart(freeList[j], b)
    BY DEF IInv, Types, FreeApart
  <2>2. "map" \in Contents /\ {i} \in SUBSET Ptes(b)
    BY <1>1 DEF Contents
  <2> QED BY <1>2, <2>1, <2>2, MetadataElsewhere DEF IInv
<1>4. Types' /\ LockHeld' /\ Fresh' /\ Within' /\ Covered'
  BY <1>2, <1>3 DEF IInv, Types, LockHeld, Fresh, Within, Covered, Released, Busy, End, Ptes
<1>5. ClustersApart' /\ OwnersApart' /\ FreeApart'
  BY <1>2 DEF IInv, ClustersApart, OwnersApart, FreeApart, Released, Busy, End, Apart
<1>6. FreeListCoalesced' /\ FreeListSorted' /\ Walked'
  BY <1>2 DEF IInv, FreeListCoalesced, FreeListSorted, Walked, Released, Adjacent, End
<1>7. Counted' /\ FreePtes' = FreePtes
  BY <1>2 DEF IInv, Counted, FreePtes, PtesOf, Clusters, InState, Released, Ptes
<1> QED BY <1>3, <1>4, <1>5, <1>6, <1>7 DEF IInv

(* Zeroing a block on its way back, before the lock is taken.              *)
LEMMA ClearStep ==
  ASSUME IInv, NEW c \in Cpus, NEW b \in reserved, ClearReleased(c, b)
  PROVE  IInv' /\ FreePtes' = FreePtes
<1>1. /\ pte' = Write(Ptes(b), "zero") /\ freeList' = freeList /\ total' = total
      /\ lock' = lock /\ reserved' = reserved \ {b} /\ op[c].pc = "idle"
      /\ op' = [op EXCEPT ![c] = [pc |-> "clear", start |-> b.start,
                                  size |-> b.size, pos |-> 1, insert |-> 0]]
  BY DEF ClearReleased
<1>2. b \in Block /\ b = [start |-> b.start, size |-> b.size]
  BY DEF IInv, Types, Block
<1>3. /\ op'[c] = [pc |-> "clear", start |-> b.start, size |-> b.size, pos |-> 1, insert |-> 0]
      /\ \A d \in Cpus \ {c} : op'[d] = op[d]
      /\ Released(c)' = b
      /\ \A d \in Cpus \ {c} : Released(d)' = Released(d)
      /\ ~Busy(c) /\ Busy(c)' /\ \A d \in Cpus \ {c} : Busy(d)' = Busy(d)
  BY <1>1, <1>2 DEF IInv, Types, Released, Busy
<1>4. MetadataInv' /\ pte' \in [Index -> Contents]
  <2>1. \A j \in DOMAIN freeList : Apart(freeList[j], b)
    BY DEF IInv, FreeApart
  <2>2. "zero" \in Contents
    BY DEF Contents
  <2> QED BY <1>1, <1>2, <2>1, <2>2, MetadataElsewhere DEF IInv
<1>5. Types'
  BY <1>1, <1>2, <1>4 DEF IInv, Types, Block
<1>6. LockHeld' /\ Fresh'
  BY <1>1, <1>3 DEF IInv, LockHeld, Fresh
<1>7. Within'
  BY <1>1, <1>3 DEF IInv, Within, End
<1>8. Covered'
  BY <1>1, <1>3 DEF IInv, Covered, Ptes
<1>9. ClustersApart' /\ FreeListCoalesced' /\ FreeListSorted'
  BY <1>1 DEF IInv, ClustersApart, FreeListCoalesced, FreeListSorted, Apart, Adjacent, End
<1>10. OwnersApart'
  <2>1. \A d \in Cpus \ {c} : Busy(d) => Apart(Released(d), b) /\ Apart(b, Released(d))
    BY DEF IInv, OwnersApart, Apart
  <2>2. \A a \in reserved \ {b} : Apart(a, b)
    BY DEF IInv, OwnersApart
  <2>3. \A x, y \in reserved' : x # y => Apart(x, y)
    BY <1>1 DEF IInv, OwnersApart
  <2>4. ASSUME NEW d \in Cpus, NEW e \in Cpus, d # e, Busy(d)', Busy(e)'
        PROVE  Apart(Released(d)', Released(e)')
    BY <1>3, <2>1, <2>4 DEF IInv, OwnersApart
  <2>5. ASSUME NEW a \in reserved', NEW d \in Cpus, Busy(d)'
        PROVE  Apart(a, Released(d)')
    BY <1>1, <1>3, <2>2, <2>5 DEF IInv, OwnersApart
  <2> QED BY <2>3, <2>4, <2>5 DEF OwnersApart, Apart, End
<1>11. FreeApart'
  <2>1. ASSUME NEW i \in DOMAIN freeList, NEW d \in Cpus, Busy(d)'
        PROVE  Apart(freeList[i], Released(d)')
    BY <1>3, <2>1 DEF IInv, FreeApart
  <2>2. \A i \in DOMAIN freeList : \A a \in reserved' : Apart(freeList[i], a)
    BY <1>1 DEF IInv, FreeApart
  <2> QED BY <1>1, <2>1, <2>2 DEF FreeApart, Apart, End
<1>12. Walked'
  BY <1>1, <1>3 DEF IInv, Walked, Adjacent, End
<1>13. Counted' /\ FreePtes' = FreePtes
  <2>1. \A k : FreeAt(k)' <=> FreeAt(k)
    BY <1>1, <1>3 DEF FreeAt, Ptes
  <2>2. FreePtes' = FreePtes
    BY <2>1, FreeMembers
  <2> QED BY <1>1, <2>2 DEF IInv, Counted
<1> QED BY <1>4, <1>5, <1>6, <1>7, <1>8, <1>9, <1>10, <1>11, <1>12, <1>13 DEF IInv

(* Taking the lock: the block counts as free from here on.                 *)
LEMMA AcquireStep ==
  ASSUME IInv, NEW c \in Cpus, AcquireSpaceLock(c)
  PROVE  IInv' /\ FreePtes' = FreePtes \cup Ptes(Released(c))
<1>1. /\ pte' = pte /\ freeList' = freeList /\ total' = total + op[c].size /\ lock = NoCpu
      /\ lock' = c /\ reserved' = reserved /\ op[c].pc = "clear"
      /\ op' = [op EXCEPT ![c].pc = "walk"]
  BY DEF AcquireSpaceLock, AcquireCounting, LockFree
<1>2. /\ op'[c] = [op[c] EXCEPT !.pc = "walk"]
      /\ \A d \in Cpus \ {c} : op'[d] = op[d] /\ op[d].pc # "walk"
      /\ \A d \in Cpus : Released(d)' = Released(d) /\ Busy(d)' = Busy(d)
  BY <1>1 DEF IInv, Types, LockHeld, Released, Busy
<1>3. Types'
  <2>1. op[c].size \in Int /\ total \in Int
    BY DEF IInv, Types
  <2>2. op' \in [Cpus -> [pc : {"idle", "clear", "walk"}, start : 0 .. PoolSize - 1,
                          size : 1 .. PoolSize, pos : Nat \ {0}, insert : Nat]]
    BY <1>1 DEF IInv, Types
  <2> QED BY <1>1, <2>1, <2>2 DEF IInv, Types
<1>4. LockHeld' /\ Fresh' /\ MetadataInv'
  BY <1>1, <1>2 DEF IInv, Types, LockHeld, Fresh, MetadataInv, Metadata
<1>5. Within' /\ Covered'
  BY <1>1, <1>2 DEF IInv, Within, Covered, End, Ptes
<1>6. ClustersApart' /\ OwnersApart' /\ FreeApart'
  BY <1>1, <1>2 DEF IInv, ClustersApart, OwnersApart, FreeApart, Apart, End
<1>7. FreeListCoalesced' /\ FreeListSorted'
  BY <1>1 DEF IInv, FreeListCoalesced, FreeListSorted, Adjacent, End
<1>8. Walked'
  <2>1. op'[c].pos = 1 /\ op'[c].insert = 0 /\ Len(freeList) \in Nat
    BY <1>1, <1>2, LenProperties DEF IInv, Types, Fresh
  <2> QED BY <1>1, <1>2, <2>1 DEF Walked
<1>9. Counted' /\ FreePtes' = FreePtes \cup Ptes(Released(c))
  <2> DEFINE b == Released(c)
  <2>1. b \in Block /\ b.size = op[c].size
    BY DEF IInv, Types, Released, Block
  <2>2. \A k : FreeAt(k)' <=> FreeAt(k) \/ k \in Ptes(b)
    <3>1. op'[c].pc = "walk" /\ \A d \in Cpus \ {c} : op'[d].pc = op[d].pc
      BY <1>1, <1>2 DEF IInv, Types
    <3> QED BY <1>1, <1>2, <3>1 DEF FreeAt, Ptes
  <2>3. FreePtes' = FreePtes \cup Ptes(b)
    BY <2>2, FreeMembers
  <2>4. ASSUME NEW k \in FreePtes PROVE k \notin Ptes(b)
    <3>1. PICK j \in DOMAIN freeList : k \in Ptes(freeList[j])
      BY <1>1, <1>2, FreeMembers DEF FreeAt
    <3>2. freeList[j] \in Block /\ Apart(freeList[j], b)
      BY <1>1, ElementOfSeq, LenProperties DEF IInv, Types, FreeApart, Busy
    <3> QED BY <2>1, <3>1, <3>2, ApartDisjoint
  <2>5. Ptes(b) \cap FreePtes = {}
    BY <2>4
  <2> QED BY <1>1, <2>1, <2>3, <2>5, CountGive DEF IInv
<1> QED BY <1>3, <1>4, <1>5, <1>6, <1>7, <1>8, <1>9 DEF IInv

(* One merge: the block grows over a cluster that touched it.              *)
LEMMA MergeStep ==
  ASSUME IInv, NEW c \in Cpus, MergeCluster(c)
  PROVE  IInv' /\ FreePtes' = FreePtes
<1> DEFINE L == freeList
           p == op[c].pos
           cur == freeList[p]
           old == Released(c)
           new == Released(c)'
<1>1. Types /\ LockHeld /\ Fresh /\ Within /\ Covered
  BY DEF IInv
<1>2. ClustersApart /\ OwnersApart /\ FreeApart
  BY DEF IInv
<1>3. FreeListCoalesced /\ FreeListSorted /\ Walked /\ MetadataInv /\ Counted
  BY DEF IInv
<1>4. L \in Seq(Block) /\ Len(L) \in Nat /\ DOMAIN L = 1 .. Len(L)
      /\ \A i \in 1 .. Len(L) : L[i] \in Block
  BY <1>1, LenProperties, ElementOfSeq DEF Types
<1>5. /\ op[c].pc = "walk" /\ p <= Len(L) /\ Adjacent(cur, old)
      /\ freeList' = RemoveAt(L, p) /\ pte' = Write(Metadata(cur), "zero")
      /\ total' = total /\ lock' = lock /\ reserved' = reserved
      /\ op' = [op EXCEPT ![c].start = IF cur.start < @ THEN cur.start ELSE @,
                          ![c].size = @ + cur.size, ![c].insert = 0]
  BY DEF MergeCluster, MergeInto
<1>6. p \in 1 .. Len(L) /\ cur \in Block /\ old \in Block
  BY <1>1, <1>4, <1>5, SMTT(30) DEF Types, Released, Block
<1>7. Apart(cur, old) /\ End(cur) <= PoolSize /\ End(old) <= PoolSize
  BY <1>1, <1>2, <1>4, <1>5, <1>6 DEF FreeApart, Within, Busy
<1>8. /\ op'[c].pc = "walk" /\ op'[c].pos = p /\ op'[c].insert = 0
      /\ op'[c].start = (IF cur.start < op[c].start THEN cur.start ELSE op[c].start)
      /\ op'[c].size = op[c].size + cur.size
      /\ \A d \in Cpus \ {c} : op'[d] = op[d]
  BY <1>1, <1>5 DEF Types
<1>9. /\ new.start = (IF cur.start < old.start THEN cur.start ELSE old.start)
      /\ new.size = old.size + cur.size
      /\ \A d \in Cpus \ {c} : Released(d)' = Released(d)
      /\ \A d \in Cpus : Busy(d)' <=> Busy(d)
  BY <1>5, <1>8 DEF Released, Busy
<1>10. /\ freeList' \in Seq(Block) /\ DOMAIN freeList' = 1 .. Len(L) - 1 /\ Len(freeList') = Len(L) - 1
       /\ \A i \in 1 .. Len(L) - 1 : freeList'[i] = IF i < p THEN L[i] ELSE L[i + 1]
  <2>1. freeList' \in Seq(Block) /\ Len(freeList') = Len(L) - 1
    BY <1>4, <1>5, <1>6, RemoveAtProperties
  <2>2. DOMAIN freeList' = 1 .. Len(L) - 1
    BY <2>1, LenProperties
  <2> QED BY <1>4, <1>5, <1>6, <2>1, <2>2, RemoveAtProperties
<1>11. ASSUME NEW i \in DOMAIN freeList'
       PROVE  \E k \in 1 .. Len(L) : k # p /\ freeList'[i] = L[k]
  BY <1>4, <1>6, <1>10
<1>12. ASSUME NEW i \in DOMAIN freeList', NEW j \in DOMAIN freeList', i < j
       PROVE  \E k, m \in 1 .. Len(L) : k < m /\ freeList'[i] = L[k] /\ freeList'[j] = L[m]
  BY <1>4, <1>6, <1>10, <1>12
<1>13. ASSUME NEW k \in 1 .. Len(L), k # p
       PROVE  \E i \in DOMAIN freeList' : freeList'[i] = L[k]
  <2>1. CASE k < p
    BY <1>4, <1>6, <1>10, <2>1
  <2>2. CASE k > p
    <3>1. k - 1 \in DOMAIN freeList' /\ freeList'[k - 1] = L[k]
      BY <1>4, <1>6, <1>10, <2>2
    <3> QED BY <3>1
  <2> QED BY <1>4, <1>6, <1>13, <2>1, <2>2
<1>14. new \in Block /\ End(new) <= PoolSize
       /\ \A k : k \in Ptes(new) <=> k \in Ptes(old) \/ k \in Ptes(cur)
  <2>1. /\ cur.start \in Nat /\ cur.size \in Nat /\ cur.size >= 1 /\ cur.start <= PoolSize - 1
        /\ old.start \in Nat /\ old.size \in Nat /\ old.size >= 1 /\ old.start <= PoolSize - 1
        /\ cur.start + cur.size <= PoolSize /\ old.start + old.size <= PoolSize
        /\ cur.start + cur.size = old.start \/ old.start + old.size = cur.start
    BY <1>5, <1>6, <1>7, SMTT(30) DEF Block, End, Adjacent
  <2>2. new = [start |-> new.start, size |-> new.size]
    BY DEF Released
  <2>3. new.start \in 0 .. PoolSize - 1 /\ new.size \in 1 .. PoolSize
        /\ new.start + new.size <= PoolSize
    BY <1>9, <2>1
  <2>4. new \in Block
    BY <2>2, <2>3 DEF Block
  <2>5. \A k : k \in Ptes(new) <=> k \in Ptes(old) \/ k \in Ptes(cur)
    BY <1>9, <2>1 DEF Ptes
  <2> QED BY <2>3, <2>4, <2>5 DEF End
<1>29. /\ cur.start \in Nat /\ cur.size \in Nat /\ cur.size >= 1
       /\ old.start \in Nat /\ old.size \in Nat /\ old.size >= 1
       /\ cur.start + cur.size = old.start \/ old.start + old.size = cur.start
  BY <1>5, <1>6, SMTT(30) DEF Block, End, Adjacent
<1> HIDE DEF new, old, cur
<1>15. ASSUME NEW a \in Block, Apart(a, cur), Apart(a, old)
       PROVE  Apart(a, new) /\ Apart(new, a)
  <2>1. a.start \in Nat /\ a.size \in Nat /\ a.size >= 1
    BY DEF Block
  <2>2. a.start + a.size <= cur.start \/ cur.start + cur.size <= a.start
    BY <1>15 DEF Apart, End
  <2>3. a.start + a.size <= old.start \/ old.start + old.size <= a.start
    BY <1>15 DEF Apart, End
  <2>4. a.start + a.size <= new.start \/ new.start + new.size <= a.start
    BY <1>9, <1>29, <2>1, <2>2, <2>3
  <2> QED BY <2>4 DEF Apart, End
<1>16. ASSUME NEW a \in Block, ~Adjacent(a, cur), ~Adjacent(a, old)
       PROVE  ~Adjacent(a, new)
  <2>1. a.start \in Nat /\ a.size \in Nat /\ a.size >= 1
    BY DEF Block
  <2>2. a.start + a.size # cur.start /\ cur.start + cur.size # a.start
    BY <1>16 DEF Adjacent, End
  <2>3. a.start + a.size # old.start /\ old.start + old.size # a.start
    BY <1>16 DEF Adjacent, End
  <2>4. a.start + a.size # new.start /\ new.start + new.size # a.start
    BY <1>9, <1>29, <2>1, <2>2, <2>3
  <2> QED BY <2>4 DEF Adjacent, End
<1> USE DEF old, cur
<1>17. Types'
  <2>1. pte' \in [Index -> Contents]
    BY <1>1, <1>5 DEF Types, Write, Contents
  <2>2. op' \in [Cpus -> [pc : {"idle", "clear", "walk"}, start : 0 .. PoolSize - 1,
                          size : 1 .. PoolSize, pos : Nat \ {0}, insert : Nat]]
    <3> DEFINE first == op'[c].start
               count == op'[c].size
               Local == [pc : {"idle", "clear", "walk"}, start : 0 .. PoolSize - 1,
                         size : 1 .. PoolSize, pos : Nat \ {0}, insert : Nat]
    <3>1. new.start = first /\ new.size = count
      BY DEF new, Released
    <3>2. first \in 0 .. PoolSize - 1 /\ count \in 1 .. PoolSize
      BY <1>14, <3>1 DEF Block
    <3>3. op'[c] = [op[c] EXCEPT !.start = first, !.size = count, !.insert = 0]
      BY <1>1, <1>5 DEF Types
    <3>4. op \in [Cpus -> Local]
      BY <1>1 DEF Types
    <3>5. op' = [op EXCEPT ![c] = op'[c]]
      BY <1>1, <1>5 DEF Types
    <3> HIDE DEF first, count
    <3>6. [op[c] EXCEPT !.start = first, !.size = count, !.insert = 0] \in Local
      BY <3>2, <3>4
    <3> HIDE DEF Local, cur, old
    <3>7. op' \in [Cpus -> Local]
      BY <3>3, <3>4, <3>5, <3>6
    <3> QED BY <3>7 DEF Local
  <2> QED BY <1>1, <1>5, <1>10, <2>1, <2>2 DEF Types
<1>18. LockHeld' /\ Fresh'
  BY <1>1, <1>5, <1>8 DEF LockHeld, Fresh
<1>19. Within'
  <2>1. \A i \in DOMAIN freeList' : End(freeList'[i]) <= PoolSize
    BY <1>1, <1>4, <1>11 DEF Within
  <2>2. \A d \in Cpus : End(Released(d)') <= PoolSize
    BY <1>1, <1>9, <1>14 DEF Within, new
  <2> QED BY <1>1, <1>5, <2>1, <2>2 DEF Within, End
<1>20. ClustersApart'
  <2> SUFFICES ASSUME NEW i \in DOMAIN freeList', NEW j \in DOMAIN freeList', i # j
               PROVE  Apart(freeList'[i], freeList'[j])
    BY DEF ClustersApart, Apart, End
  <2>1. PICK k \in 1 .. Len(L), m \in 1 .. Len(L) :
          k # m /\ freeList'[i] = L[k] /\ freeList'[j] = L[m]
    BY <1>4, <1>6, <1>10
  <2> QED BY <1>2, <1>4, <2>1 DEF ClustersApart
<1>21. OwnersApart'
  <2>1. \A a \in reserved : Apart(a, new)
    <3> SUFFICES ASSUME NEW a \in reserved PROVE Apart(a, new)
      OBVIOUS
    <3>1. a \in Block /\ Apart(a, old) /\ Apart(cur, a)
      BY <1>1, <1>2, <1>4, <1>5, <1>6 DEF Types, OwnersApart, FreeApart, Busy
    <3> QED BY <1>15, <3>1 DEF Apart
  <2>2. \A d \in Cpus \ {c} : Busy(d) => Apart(Released(d), new) /\ Apart(new, Released(d))
    <3> SUFFICES ASSUME NEW d \in Cpus \ {c}, Busy(d)
                 PROVE  Apart(Released(d), new) /\ Apart(new, Released(d))
      OBVIOUS
    <3>1. Released(d) \in Block /\ Apart(Released(d), old) /\ Apart(cur, Released(d))
      BY <1>1, <1>2, <1>4, <1>5, <1>6 DEF Types, OwnersApart, FreeApart, Busy, Released, Block
    <3> QED BY <1>15, <3>1 DEF Apart
  <2>3. \A x, y \in reserved' : x # y => Apart(x, y)
    BY <1>2, <1>5 DEF OwnersApart
  <2>4. ASSUME NEW d \in Cpus, NEW e \in Cpus, d # e, Busy(d)', Busy(e)'
        PROVE  Apart(Released(d)', Released(e)')
    <3>1. CASE d = c
      BY <1>9, <2>2, <2>4, <3>1 DEF new
    <3>2. CASE e = c
      BY <1>9, <2>2, <2>4, <3>2 DEF new
    <3>3. CASE d # c /\ e # c
      BY <1>2, <1>9, <2>4, <3>3 DEF OwnersApart
    <3> QED BY <3>1, <3>2, <3>3
  <2>5. ASSUME NEW a \in reserved', NEW d \in Cpus, Busy(d)'
        PROVE  Apart(a, Released(d)')
    <3>1. CASE d = c
      BY <1>5, <2>1, <3>1 DEF new
    <3>2. CASE d # c
      BY <1>2, <1>5, <1>9, <2>5, <3>2 DEF OwnersApart
    <3> QED BY <3>1, <3>2
  <2> QED BY <2>3, <2>4, <2>5 DEF OwnersApart, Apart, End
<1>22. FreeApart'
  <2>1. ASSUME NEW i \in DOMAIN freeList', NEW d \in Cpus, Busy(d)'
        PROVE  Apart(freeList'[i], Released(d)')
    <3>1. PICK k \in 1 .. Len(L) : k # p /\ freeList'[i] = L[k]
      BY <1>11
    <3>2. CASE d = c
      <4>1. L[k] \in Block /\ Apart(L[k], cur) /\ Apart(L[k], old)
        BY <1>2, <1>4, <1>5, <1>6, <3>1 DEF ClustersApart, FreeApart, Busy
      <4> QED BY <1>15, <3>1, <3>2, <4>1 DEF new
    <3>3. CASE d # c
      BY <1>2, <1>4, <1>9, <2>1, <3>1, <3>3 DEF FreeApart
    <3> QED BY <3>2, <3>3
  <2>2. ASSUME NEW i \in DOMAIN freeList', NEW a \in reserved'
        PROVE  Apart(freeList'[i], a)
    BY <1>2, <1>4, <1>5, <1>11 DEF FreeApart
  <2> QED BY <2>1, <2>2 DEF FreeApart, Apart, End
<1>23. FreeListCoalesced'
  <2> SUFFICES ASSUME NEW i \in DOMAIN freeList', NEW j \in DOMAIN freeList', i # j
               PROVE  ~Adjacent(freeList'[i], freeList'[j])
    BY DEF FreeListCoalesced, Adjacent, End
  <2>1. PICK k \in 1 .. Len(L), m \in 1 .. Len(L) :
          k # m /\ freeList'[i] = L[k] /\ freeList'[j] = L[m]
    BY <1>4, <1>6, <1>10
  <2> QED BY <1>3, <1>4, <2>1 DEF FreeListCoalesced
<1>24. FreeListSorted'
  BY <1>3, <1>4, <1>12 DEF FreeListSorted
<1>25. Walked'
  <2>1. \A d \in Cpus : op'[d].pc = "walk" => d = c
    BY <1>1, <1>5, <1>8 DEF LockHeld
  <2>2. op'[c].pos <= Len(freeList') + 1
    BY <1>4, <1>6, <1>8, <1>10
  <2>3. ASSUME NEW j \in 1 .. p - 1
        PROVE  ~Adjacent(freeList'[j], new) /\ freeList'[j].size < op'[c].size
    <3>1. j \in 1 .. Len(L) /\ j < p /\ freeList'[j] = L[j] /\ L[j] \in Block
      BY <1>4, <1>6, <1>10
    <3>2. ~Adjacent(L[j], cur) /\ ~Adjacent(L[j], old)
      BY <1>3, <1>4, <1>5, <1>6, <3>1 DEF FreeListCoalesced, Walked
    <3>3. L[j].size <= cur.size
      BY <1>3, <1>4, <1>6, <3>1 DEF FreeListSorted
    <3>4. L[j].size \in Nat /\ cur.size \in Nat /\ op[c].size \in Nat /\ op[c].size >= 1
      <4>1. \A b \in Block : b.size \in Nat
        BY DEF Block
      <4>2. op[c].size \in Nat /\ op[c].size >= 1
        BY <1>1 DEF Types
      <4> QED BY <1>6, <3>1, <4>1, <4>2
    <3> QED BY <1>8, <1>16, <3>1, <3>2, <3>3, <3>4
  <2> QED BY <1>8, <2>1, <2>2, <2>3 DEF Walked, new, Adjacent, End
<1>26. Covered'
  <2> SUFFICES ASSUME NEW i \in 0 .. PoolSize - 1
               PROVE  \/ \E j \in DOMAIN freeList' : i \in Ptes(freeList'[j])
                      \/ \E a \in reserved' : i \in Ptes(a)
                      \/ \E d \in Cpus : Busy(d)' /\ i \in Ptes(Released(d)')
    BY DEF Covered, Ptes
  <2>1. CASE \E a \in reserved : i \in Ptes(a)
    BY <1>5, <2>1
  <2>2. Busy(c)' /\ (i \in Ptes(Released(c)') <=> i \in Ptes(old) \/ i \in Ptes(cur))
    BY <1>5, <1>9, <1>14 DEF new, Busy
  <2>3. ASSUME NEW d \in Cpus, Busy(d), i \in Ptes(Released(d))
        PROVE  \E e \in Cpus : Busy(e)' /\ i \in Ptes(Released(e)')
    <3>1. CASE d = c
      BY <2>2, <2>3, <3>1
    <3>2. CASE d # c
      BY <1>9, <2>3, <3>2
    <3> QED BY <3>1, <3>2
  <2>4. ASSUME NEW j \in DOMAIN L, i \in Ptes(L[j])
        PROVE  (\E d \in Cpus : Busy(d)' /\ i \in Ptes(Released(d)')) \/
               (\E k \in DOMAIN freeList' : i \in Ptes(freeList'[k]))
    <3>1. CASE j = p
      BY <2>2, <2>4, <3>1
    <3>2. CASE j # p
      BY <1>4, <1>13, <2>4, <3>2
    <3> QED BY <3>1, <3>2
  <2> QED BY <1>1, <2>1, <2>3, <2>4 DEF Covered
<1>27. MetadataInv'
  <2> SUFFICES ASSUME NEW i \in DOMAIN freeList', NEW k \in Metadata(freeList'[i])
               PROVE  pte'[k] = "list"
    BY DEF MetadataInv, Metadata
  <2>1. PICK m \in 1 .. Len(L) : m # p /\ freeList'[i] = L[m]
    BY <1>11
  <2>2. L[m] \in Block /\ End(L[m]) <= PoolSize /\ Apart(cur, L[m])
    BY <1>1, <1>2, <1>4, <1>6, <2>1 DEF Within, ClustersApart
  <2>3. k \in Int /\ L[m].start <= k /\ k < End(L[m])
    BY <2>1, <2>2, MetadataInside
  <2>4. k \in Ptes(L[m]) /\ k \in Index
    BY <2>2, <2>3 DEF Ptes, End, Index, Block
  <2>5. k \notin Metadata(cur)
    <3> SUFFICES ASSUME k \in Metadata(cur) PROVE FALSE
      OBVIOUS
    <3>1. cur.start <= k /\ k < End(cur)
      BY <1>6, MetadataInside
    <3>2. k \in Ptes(cur)
      BY <1>6, <2>3, <3>1, SMTT(30) DEF Ptes, End, Block
    <3> QED BY <1>6, <2>2, <2>4, <3>2, ApartDisjoint
  <2> QED BY <1>3, <1>4, <1>5, <2>1, <2>4, <2>5 DEF MetadataInv, Write
<1>28. Counted' /\ FreePtes' = FreePtes
  <2>1. \A d \in Cpus : op'[d].pc = op[d].pc
    BY <1>5, <1>8
  <2>2. ASSUME NEW k PROVE FreeAt(k)' <=> FreeAt(k)
    <3>1. FreeAt(k)' <=> \/ \E j \in DOMAIN freeList' : k \in Ptes(freeList'[j])
                         \/ \E d \in Cpus : op[d].pc = "walk" /\ k \in Ptes(Released(d)')
      BY <2>1 DEF FreeAt, Ptes
    <3>2. ASSUME NEW d \in Cpus, op[d].pc = "walk" PROVE d = c
      BY <1>1, <1>5, <3>2 DEF LockHeld
    <3>3. FreeAt(k) <=> \/ \E j \in DOMAIN L : k \in Ptes(L[j])
                        \/ k \in Ptes(old)
      BY <1>5, <3>2 DEF FreeAt
    <3>4. FreeAt(k)' <=> \/ \E j \in DOMAIN freeList' : k \in Ptes(freeList'[j])
                         \/ k \in Ptes(old) \/ k \in Ptes(cur)
      BY <1>5, <1>14, <3>1, <3>2 DEF new
    <3>5. ASSUME NEW j \in DOMAIN freeList', k \in Ptes(freeList'[j])
          PROVE  \E m \in DOMAIN L : k \in Ptes(L[m])
      BY <1>4, <1>11, <3>5
    <3>6. ASSUME NEW j \in DOMAIN L, k \in Ptes(L[j])
          PROVE  k \in Ptes(cur) \/ \E m \in DOMAIN freeList' : k \in Ptes(freeList'[m])
      BY <1>4, <1>13, <3>6
    <3> QED BY <1>4, <1>6, <3>3, <3>4, <3>5, <3>6
  <2>3. FreePtes' = FreePtes
    BY <2>2, FreeMembers
  <2> QED BY <1>3, <1>5, <2>3 DEF Counted
<1> QED BY <1>17, <1>18, <1>19, <1>20, <1>21, <1>22, <1>23, <1>24, <1>25, <1>26, <1>27, <1>28 DEF IInv

(* One turn past a cluster that is not adjacent.                           *)
LEMMA PassStep ==
  ASSUME IInv, NEW c \in Cpus, PassCluster(c)
  PROVE  IInv' /\ FreePtes' = FreePtes
<1> DEFINE p == op[c].pos
           cur == freeList[p]
           in == IF op[c].insert = 0 /\ op[c].size <= cur.size THEN p ELSE op[c].insert
<1>1. Types /\ LockHeld /\ Fresh /\ Walked
  BY DEF IInv
<1>2. /\ op[c].pc = "walk" /\ p <= Len(freeList) /\ ~Adjacent(cur, Released(c))
      /\ pte' = pte /\ freeList' = freeList /\ total' = total
      /\ lock' = lock /\ reserved' = reserved
      /\ op' = [op EXCEPT ![c].pos = p + 1, ![c].insert = in]
  BY DEF PassCluster, PassTo
<1>3. /\ freeList \in Seq(Block) /\ Len(freeList) \in Nat
      /\ p \in Nat \ {0} /\ op[c].insert \in Nat /\ op[c].size \in Nat
      /\ p \in DOMAIN freeList /\ cur.size \in Nat
  <2>1. /\ freeList \in Seq(Block) /\ Len(freeList) \in Nat
        /\ p \in Nat \ {0} /\ op[c].insert \in Nat /\ op[c].size \in Nat
    BY <1>1, LenProperties DEF Types
  <2>2. p \in 1 .. Len(freeList) /\ p \in DOMAIN freeList
    BY <1>2, <2>1, LenProperties
  <2>3. cur \in Block
    BY <2>1, <2>2, ElementOfSeq
  <2> QED BY <2>1, <2>2, <2>3 DEF Block
<1>4. op[c] = [pc |-> op[c].pc, start |-> op[c].start, size |-> op[c].size,
               pos |-> op[c].pos, insert |-> op[c].insert]
  BY <1>1 DEF Types
<1> HIDE DEF in, cur
<1>5. op'[c] = [pc |-> "walk", start |-> op[c].start, size |-> op[c].size,
                pos |-> p + 1, insert |-> in]
  <2>1. op'[c] = [op[c] EXCEPT !.pos = p + 1, !.insert = in]
    BY <1>1, <1>2 DEF Types
  <2>2. op'[c] = [pc |-> op[c].pc, start |-> op[c].start, size |-> op[c].size,
                  pos |-> p + 1, insert |-> in]
    BY <1>4, <2>1, WalkEdits, Zenon
  <2> QED BY <1>2, <2>2
<1>6. \A d \in Cpus \ {c} : op'[d] = op[d] /\ op[d].pc # "walk"
  BY <1>1, <1>2 DEF Types, LockHeld
<1>7. \A d \in Cpus : Released(d)' = Released(d) /\ Busy(d)' = Busy(d) /\ op'[d].pc = op[d].pc
  <2>1. op'[c].pc = op[c].pc /\ op'[c].start = op[c].start /\ op'[c].size = op[c].size
    BY <1>2, <1>5
  <2>2. \A d \in Cpus : /\ op'[d].pc = op[d].pc /\ op'[d].start = op[d].start
                        /\ op'[d].size = op[d].size
    BY <1>6, <2>1
  <2> QED BY <2>2 DEF Released, Busy
<1>8. Types'
  <2>1. in \in Nat
    BY <1>3 DEF in
  <2>2. op'[c] \in [pc : {"idle", "clear", "walk"}, start : 0 .. PoolSize - 1,
                    size : 1 .. PoolSize, pos : Nat \ {0}, insert : Nat]
    BY <1>1, <1>3, <1>5, <2>1, SMTT(30) DEF Types
  <2>3. op' = [op EXCEPT ![c] = op'[c]]
    BY <1>1, <1>2 DEF Types
  <2> QED BY <1>1, <1>2, <2>2, <2>3 DEF Types
<1>9. LockHeld' /\ Fresh' /\ MetadataInv'
  <2>1. LockHeld'
    BY <1>1, <1>2, <1>7 DEF LockHeld
  <2>2. \A d \in Cpus : op[d].pc = "clear" => op'[d] = op[d]
    BY <1>2, <1>6
  <2>3. Fresh'
    BY <1>1, <1>7, <2>2 DEF Fresh
  <2>4. MetadataInv'
    BY <1>2 DEF IInv, MetadataInv, Metadata
  <2> QED BY <2>1, <2>3, <2>4
<1>10. Within' /\ Covered'
  BY <1>2, <1>7 DEF IInv, Within, Covered, End, Ptes
<1>11. ClustersApart' /\ OwnersApart' /\ FreeApart'
  BY <1>2, <1>7 DEF IInv, ClustersApart, OwnersApart, FreeApart, Apart, End
<1>12. FreeListCoalesced' /\ FreeListSorted'
  BY <1>2 DEF IInv, FreeListCoalesced, FreeListSorted, Adjacent, End
<1>13. Walked'
  <2> DEFINE r == Released(c)
             n == op[c].size
  <2>1. /\ op'[c].pos = p + 1 /\ op'[c].insert = in /\ op'[c].size = n
        /\ \A d \in Cpus : op'[d].pc = "walk" => d = c
    BY <1>5, <1>6
  <2>2. /\ \A j \in 1 .. p - 1 : ~Adjacent(freeList[j], r)
        /\ op[c].insert = 0 => \A j \in 1 .. p - 1 : freeList[j].size < n
        /\ op[c].insert # 0 =>
             /\ op[c].insert < p
             /\ \A j \in 1 .. op[c].insert - 1 : freeList[j].size < n
             /\ freeList[op[c].insert].size >= n
    BY <1>1, <1>2 DEF Walked
  <2>3. cur = freeList[p] /\ ~Adjacent(cur, r)
    BY <1>2 DEF cur
  <2>4. n \in Nat /\ cur.size \in Nat /\ p \in Nat \ {0} /\ op[c].insert \in Nat
        /\ p + 1 <= Len(freeList) + 1
    BY <1>2, <1>3
  <2>5. Released(c)' = r /\ freeList' = freeList
    BY <1>2, <1>7
  <2> HIDE DEF p, r, n
  <2>6. \A j \in 1 .. p : j = p \/ j \in 1 .. p - 1
    BY <2>4
  <2>7. \A j \in 1 .. p : ~Adjacent(freeList[j], r)
    BY <2>2, <2>3, <2>6
  <2>8. in = 0 => \A j \in 1 .. p : freeList[j].size < n
    <3>1. in = 0 => op[c].insert = 0 /\ cur.size < n
      BY <2>4 DEF in, p, n
    <3> QED BY <2>2, <2>3, <2>6, <3>1
  <2>9. in # 0 => /\ in < p + 1
                  /\ \A j \in 1 .. in - 1 : freeList[j].size < n
                  /\ freeList[in].size >= n
    <3>1. in # 0 => (in = p /\ n <= cur.size /\ op[c].insert = 0)
                    \/ (in = op[c].insert /\ op[c].insert # 0)
      BY <2>4 DEF in, p, n
    <3> QED BY <2>2, <2>3, <2>4, <3>1
  <2>10. p + 1 - 1 = p
    BY <2>4
  <2>11. /\ op'[c].pos <= Len(freeList') + 1
         /\ \A j \in 1 .. op'[c].pos - 1 : ~Adjacent(freeList'[j], Released(c)')
         /\ op'[c].insert = 0 => \A j \in 1 .. op'[c].pos - 1 : freeList'[j].size < op'[c].size
         /\ op'[c].insert # 0 =>
              /\ op'[c].insert < op'[c].pos
              /\ \A j \in 1 .. op'[c].insert - 1 : freeList'[j].size < op'[c].size
              /\ freeList'[op'[c].insert].size >= op'[c].size
    BY <2>1, <2>4, <2>5, <2>7, <2>8, <2>9, <2>10
  <2> QED BY <2>1, <2>11 DEF Walked, Adjacent, End
<1>14. Counted' /\ FreePtes' = FreePtes
  <2>1. \A k : FreeAt(k)' <=> FreeAt(k)
    BY <1>2, <1>7 DEF FreeAt, Ptes
  <2>2. FreePtes' = FreePtes
    BY <2>1, FreeMembers
  <2> QED BY <1>2, <2>2 DEF IInv, Counted
<1> QED BY <1>8, <1>9, <1>10, <1>11, <1>12, <1>13, <1>14 DEF IInv

(* Linking: the block goes where the walk decided, behind every smaller    *)
(* cluster and in front of one that is not smaller.                        *)
LEMMA LinkStep ==
  ASSUME IInv, NEW c \in Cpus, LinkReleased(c)
  PROVE  IInv' /\ FreePtes' = FreePtes
<1> DEFINE L == freeList
           p == op[c].pos
           b == Released(c)
           at == IF op[c].insert = 0 THEN p ELSE op[c].insert
<1>1. Types /\ LockHeld /\ Fresh /\ Within /\ Covered
  BY DEF IInv
<1>2. ClustersApart /\ OwnersApart /\ FreeApart
  BY DEF IInv
<1>3. FreeListCoalesced /\ FreeListSorted /\ Walked /\ MetadataInv /\ Counted
  BY DEF IInv
<1>4. L \in Seq(Block) /\ Len(L) \in Nat /\ DOMAIN L = 1 .. Len(L)
      /\ \A i \in 1 .. Len(L) : L[i] \in Block
  BY <1>1, LenProperties, ElementOfSeq DEF Types
<1>5. /\ op[c].pc = "walk" /\ p > Len(L) /\ freeList' = InsertAt(L, at, b)
      /\ pte' = Write(Metadata(b), "list") /\ lock' = NoCpu
      /\ op' = [op EXCEPT ![c] = Idle] /\ total' = total /\ reserved' = reserved
  BY DEF LinkReleased, LinkWhen
<1>6. b \in Block /\ b.size = op[c].size /\ op[c].size \in Nat
      /\ p \in Nat \ {0} /\ op[c].insert \in Nat
  BY <1>1 DEF Types, Released, Block
<1>7. /\ p = Len(L) + 1
      /\ \A j \in 1 .. Len(L) : ~Adjacent(L[j], b)
  BY <1>3, <1>4, <1>5, <1>6 DEF Walked
<1>8. /\ at \in 1 .. Len(L) + 1
      /\ \A j \in 1 .. at - 1 : L[j].size < b.size
      /\ at <= Len(L) => L[at].size >= b.size
  <2>1. CASE op[c].insert = 0
    BY <1>3, <1>4, <1>5, <1>6, <1>7, <2>1 DEF Walked
  <2>2. CASE op[c].insert # 0
    BY <1>3, <1>4, <1>5, <1>6, <1>7, <2>2 DEF Walked
  <2> QED BY <2>1, <2>2
<1>9. b.size \in Nat /\ \A i \in 1 .. Len(L) : L[i].size \in Nat
  BY <1>4, <1>6 DEF Block
<1> HIDE DEF at, b
<1>10. /\ freeList' \in Seq(Block) /\ Len(freeList') = Len(L) + 1
       /\ DOMAIN freeList' = 1 .. Len(L) + 1
       /\ \A i \in 1 .. Len(L) + 1 :
            freeList'[i] = IF i < at THEN L[i] ELSE IF i = at THEN b ELSE L[i - 1]
  <2>0. L \in Seq(Block) /\ b \in Block /\ at \in 1 .. Len(L) + 1
    BY <1>4, <1>6, <1>8
  <2> HIDE DEF L
  <2>1. freeList' \in Seq(Block) /\ Len(freeList') = Len(L) + 1
    BY <1>5, <2>0, InsertAtProperties
  <2>2. DOMAIN freeList' = 1 .. Len(L) + 1
    BY <2>1, LenProperties
  <2>3. \A i \in 1 .. Len(L) + 1 :
          InsertAt(L, at, b)[i] = IF i < at THEN L[i] ELSE IF i = at THEN b ELSE L[i - 1]
    BY <2>0, InsertAtProperties
  <2> QED BY <1>5, <2>1, <2>2, <2>3
<1>11. ASSUME NEW i \in DOMAIN freeList'
       PROVE  freeList'[i] = b \/ \E k \in 1 .. Len(L) : freeList'[i] = L[k]
  <2>1. CASE i < at
    BY <1>4, <1>8, <1>10, <2>1
  <2>2. CASE i > at
    <3>1. i - 1 \in 1 .. Len(L) /\ freeList'[i] = L[i - 1]
      BY <1>4, <1>8, <1>10, <2>2
    <3> QED BY <3>1
  <2>3. CASE i = at
    BY <1>10, <2>3
  <2>4. at \in Int /\ i \in Int
    BY <1>4, <1>8, <1>10
  <2> QED BY <2>1, <2>2, <2>3, <2>4
<1>12. at \in DOMAIN freeList' /\ freeList'[at] = b
  BY <1>8, <1>10
<1>13. ASSUME NEW k \in 1 .. Len(L)
       PROVE  \E i \in DOMAIN freeList' : freeList'[i] = L[k]
  <2>1. CASE k < at
    BY <1>4, <1>8, <1>10, <2>1
  <2>2. CASE k >= at
    <3>1. k + 1 \in DOMAIN freeList' /\ freeList'[k + 1] = L[k]
      BY <1>4, <1>8, <1>10, <2>2
    <3> QED BY <3>1
  <2> QED BY <1>8, <2>1, <2>2
<1>14. ASSUME NEW i \in DOMAIN freeList', NEW j \in DOMAIN freeList', i < j
       PROVE  \/ \E k, m \in 1 .. Len(L) : k < m /\ freeList'[i] = L[k] /\ freeList'[j] = L[m]
              \/ \E k \in 1 .. Len(L) : k >= at /\ freeList'[i] = b /\ freeList'[j] = L[k]
              \/ \E k \in 1 .. Len(L) : k < at /\ freeList'[i] = L[k] /\ freeList'[j] = b
  <2>0. at \in Int /\ i \in 1 .. Len(L) + 1 /\ j \in 1 .. Len(L) + 1
    BY <1>4, <1>8, <1>10
  <2>1. CASE i = at
    <3>1. j - 1 \in 1 .. Len(L) /\ j - 1 >= at /\ freeList'[j] = L[j - 1]
      BY <1>4, <1>8, <1>10, <1>14, <2>0, <2>1
    <3> QED BY <1>12, <2>1, <3>1
  <2>2. CASE j = at
    <3>1. i \in 1 .. Len(L) /\ i < at /\ freeList'[i] = L[i]
      BY <1>4, <1>8, <1>10, <1>14, <2>0, <2>2
    <3> QED BY <1>12, <2>2, <3>1
  <2>3. CASE i # at /\ j # at
    <3>1. \E k \in 1 .. Len(L) : freeList'[i] = L[k] /\ (k = i \/ k = i - 1)
                                 /\ (k = i => i < at) /\ (k = i - 1 => i > at)
      <4>1. CASE i < at
        BY <1>4, <1>8, <1>10, <2>0, <4>1
      <4>2. CASE i > at
        <5>1. i - 1 \in 1 .. Len(L) /\ freeList'[i] = L[i - 1]
          BY <1>4, <1>8, <1>10, <2>0, <4>2
        <5> QED BY <2>0, <4>2, <5>1
      <4> QED BY <2>0, <2>3, <4>1, <4>2
    <3>2. \E k \in 1 .. Len(L) : freeList'[j] = L[k] /\ (k = j \/ k = j - 1)
                                 /\ (k = j => j < at) /\ (k = j - 1 => j > at)
      <4>1. CASE j < at
        BY <1>4, <1>8, <1>10, <2>0, <4>1
      <4>2. CASE j > at
        <5>1. j - 1 \in 1 .. Len(L) /\ freeList'[j] = L[j - 1]
          BY <1>4, <1>8, <1>10, <2>0, <4>2
        <5> QED BY <2>0, <4>2, <5>1
      <4> QED BY <2>0, <2>3, <4>1, <4>2
    <3>3. PICK k \in 1 .. Len(L) : freeList'[i] = L[k] /\ (k = i \/ k = i - 1)
                                   /\ (k = i => i < at) /\ (k = i - 1 => i > at)
      BY <3>1
    <3>4. PICK m \in 1 .. Len(L) : freeList'[j] = L[m] /\ (m = j \/ m = j - 1)
                                   /\ (m = j => j < at) /\ (m = j - 1 => j > at)
      BY <3>2
    <3>5. k < m
      BY <1>14, <2>0, <3>3, <3>4
    <3> QED BY <3>3, <3>4, <3>5
  <2> QED BY <2>1, <2>2, <2>3
<1>15. /\ \A d \in Cpus \ {c} : op'[d] = op[d] /\ op[d].pc # "walk"
       /\ op'[c] = Idle /\ ~Busy(c)' /\ Busy(c)
       /\ \A d \in Cpus \ {c} : Released(d)' = Released(d) /\ Busy(d)' = Busy(d)
  BY <1>1, <1>5 DEF Types, LockHeld, Released, Busy, Idle
<1>16. /\ \A k \in 1 .. Len(L) : Apart(L[k], b) /\ Apart(b, L[k]) /\ ~Adjacent(b, L[k])
       /\ \A a \in reserved : Apart(b, a)
       /\ \A d \in Cpus \ {c} : Busy(d) => Apart(b, Released(d))
       /\ End(b) <= PoolSize
  BY <1>1, <1>2, <1>4, <1>7, <1>15 DEF FreeApart, OwnersApart, Within, Apart, Adjacent, b
<1>17. Types'
  <2>1. Idle \in [pc : {"idle", "clear", "walk"}, start : 0 .. PoolSize - 1,
                  size : 1 .. PoolSize, pos : Nat \ {0}, insert : Nat]
    BY DEF Idle
  <2>2. op' \in [Cpus -> [pc : {"idle", "clear", "walk"}, start : 0 .. PoolSize - 1,
                          size : 1 .. PoolSize, pos : Nat \ {0}, insert : Nat]]
    BY <1>1, <1>5, <2>1 DEF Types
  <2>3. pte' \in [Index -> Contents]
    BY <1>1, <1>5 DEF Types, Write, Contents
  <2> QED BY <1>1, <1>5, <1>10, <2>2, <2>3 DEF Types
<1>18. LockHeld' /\ Fresh'
  BY <1>1, <1>5, <1>15 DEF LockHeld, Fresh, Idle
<1>19. Within'
  <2>1. \A i \in DOMAIN freeList' : End(freeList'[i]) <= PoolSize
    BY <1>1, <1>4, <1>11, <1>16 DEF Within
  <2>2. End(Released(c)') <= PoolSize
    BY <1>15 DEF Released, Idle, End
  <2>3. \A d \in Cpus : End(Released(d)') <= PoolSize
    BY <1>1, <1>15, <2>2 DEF Within
  <2> QED BY <1>1, <1>5, <2>1, <2>3 DEF Within, End
<1>20. ClustersApart'
  <2>1. ASSUME NEW i \in DOMAIN freeList', NEW j \in DOMAIN freeList', i < j
        PROVE  Apart(freeList'[i], freeList'[j]) /\ Apart(freeList'[j], freeList'[i])
    <3>1. CASE \E k, m \in 1 .. Len(L) : k < m /\ freeList'[i] = L[k] /\ freeList'[j] = L[m]
      BY <1>2, <1>4, <3>1 DEF ClustersApart, Apart
    <3> QED BY <1>14, <1>16, <2>1, <3>1
  <2>2. \A i, j \in DOMAIN freeList' : i # j => i < j \/ j < i
    BY <1>4, <1>10
  <2>3. \A i, j \in DOMAIN freeList' : i # j => Apart(freeList'[i], freeList'[j])
    BY <2>1, <2>2
  <2> QED BY <2>3 DEF ClustersApart, Apart, End
<1>21. OwnersApart'
  BY <1>2, <1>5, <1>15 DEF OwnersApart, Apart, End
<1>22. FreeApart'
  <2>1. ASSUME NEW i \in DOMAIN freeList', NEW d \in Cpus, Busy(d)'
        PROVE  Apart(freeList'[i], Released(d)')
    <3>1. d \in Cpus \ {c} /\ Busy(d) /\ Released(d)' = Released(d)
      BY <1>15, <2>1
    <3>2. \A k \in 1 .. Len(L) : Apart(L[k], Released(d))
      BY <1>2, <1>4, <3>1 DEF FreeApart
    <3> QED BY <1>11, <1>16, <3>1, <3>2
  <2>2. ASSUME NEW i \in DOMAIN freeList', NEW a \in reserved'
        PROVE  Apart(freeList'[i], a)
    BY <1>2, <1>4, <1>5, <1>11, <1>16 DEF FreeApart
  <2> QED BY <2>1, <2>2 DEF FreeApart, Apart, End
<1>23. FreeListCoalesced'
  <2>1. ASSUME NEW i \in DOMAIN freeList', NEW j \in DOMAIN freeList', i < j
        PROVE  ~Adjacent(freeList'[i], freeList'[j]) /\ ~Adjacent(freeList'[j], freeList'[i])
    <3>1. CASE \E k, m \in 1 .. Len(L) : k < m /\ freeList'[i] = L[k] /\ freeList'[j] = L[m]
      BY <1>3, <1>4, <3>1 DEF FreeListCoalesced, Adjacent
    <3> QED BY <1>7, <1>14, <1>16, <2>1, <3>1
  <2>2. \A i, j \in DOMAIN freeList' : i # j => i < j \/ j < i
    BY <1>4, <1>10
  <2>3. \A i, j \in DOMAIN freeList' : i # j => ~Adjacent(freeList'[i], freeList'[j])
    BY <2>1, <2>2
  <2> QED BY <2>3 DEF FreeListCoalesced, Adjacent, End
<1>24. FreeListSorted'
  <2> SUFFICES ASSUME NEW i \in DOMAIN freeList', NEW j \in DOMAIN freeList', i < j
               PROVE  freeList'[i].size <= freeList'[j].size
    BY DEF FreeListSorted
  <2>1. CASE \E k, m \in 1 .. Len(L) : k < m /\ freeList'[i] = L[k] /\ freeList'[j] = L[m]
    BY <1>3, <1>4, <2>1 DEF FreeListSorted
  <2>2. ASSUME NEW k \in 1 .. Len(L), k >= at PROVE b.size <= L[k].size
    <3>1. at \in 1 .. Len(L) /\ L[at].size >= b.size
      BY <1>4, <1>8, <2>2
    <3>2. L[at].size <= L[k].size
      BY <1>3, <1>4, <1>8, <1>9, <2>2, <3>1, SMTT(30) DEF FreeListSorted
    <3> QED BY <1>9, <3>1, <3>2
  <2>3. ASSUME NEW k \in 1 .. Len(L), k < at PROVE L[k].size <= b.size
    BY <1>4, <1>8, <1>9, <2>3
  <2> QED BY <1>14, <2>1, <2>2, <2>3
<1>25. Walked'
  <2>1. \A d \in Cpus : op'[d].pc # "walk"
    BY <1>15 DEF Idle
  <2> QED BY <2>1 DEF Walked
<1>26. Covered'
  <2> SUFFICES ASSUME NEW i \in 0 .. PoolSize - 1
               PROVE  \/ \E j \in DOMAIN freeList' : i \in Ptes(freeList'[j])
                      \/ \E a \in reserved' : i \in Ptes(a)
                      \/ \E d \in Cpus : Busy(d)' /\ i \in Ptes(Released(d)')
    BY DEF Covered, Ptes
  <2>1. CASE \E a \in reserved : i \in Ptes(a)
    BY <1>5, <2>1
  <2>2. ASSUME NEW d \in Cpus, Busy(d), i \in Ptes(Released(d))
        PROVE  \/ \E j \in DOMAIN freeList' : i \in Ptes(freeList'[j])
               \/ \E e \in Cpus : Busy(e)' /\ i \in Ptes(Released(e)')
    <3>1. CASE d = c
      BY <1>12, <2>2, <3>1 DEF b
    <3>2. CASE d # c
      BY <1>15, <2>2, <3>2
    <3> QED BY <3>1, <3>2
  <2>3. ASSUME NEW j \in DOMAIN L, i \in Ptes(L[j])
        PROVE  \E k \in DOMAIN freeList' : i \in Ptes(freeList'[k])
    BY <1>4, <1>13, <2>3
  <2> QED BY <1>1, <2>1, <2>2, <2>3 DEF Covered
<1>27. MetadataInv'
  <2> SUFFICES ASSUME NEW i \in DOMAIN freeList', NEW k \in Metadata(freeList'[i])
               PROVE  pte'[k] = "list"
    BY DEF MetadataInv, Metadata
  <2>1. CASE freeList'[i] = b
    <3>1. k \in Int /\ b.start <= k /\ k < End(b) /\ b.start \in Nat
      BY <1>6, <2>1, MetadataInside DEF Block
    <3>2. k \in Index
      BY <1>6, <1>16, <3>1 DEF Index, End, Block
    <3> QED BY <1>5, <2>1, <3>2 DEF Write
  <2>2. ASSUME NEW m \in 1 .. Len(L), freeList'[i] = L[m] PROVE pte'[k] = "list"
    <3>1. L[m] \in Block /\ End(L[m]) <= PoolSize
      BY <1>1, <1>4 DEF Within
    <3>2. k \in Int /\ L[m].start <= k /\ k < End(L[m])
      BY <2>2, <3>1, MetadataInside
    <3>3. k \in Index
      BY <3>1, <3>2 DEF Index, End, Block
    <3>4. pte[k] = "list"
      BY <1>3, <1>4, <2>2 DEF MetadataInv
    <3> QED BY <1>5, <3>3, <3>4 DEF Write
  <2> QED BY <1>11, <2>1, <2>2
<1>28. Counted' /\ FreePtes' = FreePtes
  <2>1. ASSUME NEW k PROVE FreeAt(k)' <=> FreeAt(k)
    <3>1. FreeAt(k)' <=> \E j \in DOMAIN freeList' : k \in Ptes(freeList'[j])
      BY <1>15 DEF FreeAt, Ptes, Idle
    <3>2. FreeAt(k) <=> \/ \E j \in DOMAIN L : k \in Ptes(L[j])
                        \/ k \in Ptes(b)
      BY <1>5, <1>15 DEF FreeAt, b
    <3>3. ASSUME NEW j \in DOMAIN freeList', k \in Ptes(freeList'[j])
          PROVE  k \in Ptes(b) \/ \E m \in DOMAIN L : k \in Ptes(L[m])
      BY <1>4, <1>11, <3>3
    <3>4. ASSUME NEW j \in DOMAIN L, k \in Ptes(L[j])
          PROVE  \E m \in DOMAIN freeList' : k \in Ptes(freeList'[m])
      BY <1>4, <1>13, <3>4
    <3> QED BY <1>12, <3>1, <3>2, <3>3, <3>4
  <2>2. FreePtes' = FreePtes
    BY <2>1, FreeMembers
  <2> QED BY <1>3, <1>5, <2>2 DEF Counted
<1> QED BY <1>17, <1>18, <1>19, <1>20, <1>21, <1>22, <1>23, <1>24, <1>25, <1>26, <1>27, <1>28 DEF IInv

(* The pool starts as one cluster that nobody has touched.                 *)
LEMMA InitEstablishes == Init => IInv
<1> SUFFICES ASSUME Init PROVE IInv
  OBVIOUS
<1> DEFINE b == [start |-> 0, size |-> PoolSize]
<1>1. b \in Block /\ Ptes(b) = 0 .. PoolSize - 1 /\ End(b) = PoolSize
  BY DEF Block, Ptes, End
<1>2. /\ freeList = <<b>> /\ freeList \in Seq(Block) /\ Len(freeList) = 1
      /\ DOMAIN freeList = {1} /\ freeList[1] = b
  BY <1>1 DEF Init
<1>3. /\ total = PoolSize /\ lock = NoCpu /\ reserved = {} /\ op = [c \in Cpus |-> Idle]
      /\ \A c \in Cpus : op[c] = Idle
  BY DEF Init
<1>4. pte \in [Index -> Contents] /\ pte[0] = "list" /\ pte[1] = "list"
  <2>1. PICK after \in {"zero", "map"} :
          pte = [i \in Index |-> CASE i \in {0, 1}   -> "list"
                                   [] i = PoolSize -> after
                                   [] OTHER        -> "zero"]
    BY DEF Init
  <2>2. ASSUME NEW i \in Index PROVE pte[i] \in Contents
    <3>1. CASE i \in {0, 1}
      BY <2>1, <3>1 DEF Contents
    <3>2. CASE i \notin {0, 1} /\ i = PoolSize
      BY <2>1, <3>2 DEF Contents
    <3>3. CASE i \notin {0, 1} /\ i # PoolSize
      BY <2>1, <3>3 DEF Contents
    <3> QED BY <3>1, <3>2, <3>3
  <2>3. 0 \in Index /\ 1 \in Index
    BY DEF Index
  <2> QED BY <2>1, <2>2, <2>3
<1>5. Idle \in [pc : {"idle", "clear", "walk"}, start : 0 .. PoolSize - 1,
                size : 1 .. PoolSize, pos : Nat \ {0}, insert : Nat]
  BY DEF Idle
<1>6. Types
  BY <1>2, <1>3, <1>4, <1>5 DEF Types
<1>7. LockHeld /\ Fresh /\ Walked
  BY <1>3 DEF LockHeld, Fresh, Walked, Idle
<1>8. Within
  BY <1>1, <1>2, <1>3 DEF Within, Released, Idle, End
<1>9. Covered
  BY <1>1, <1>2 DEF Covered
<1>10. ClustersApart /\ OwnersApart /\ FreeApart
  BY <1>2, <1>3 DEF ClustersApart, OwnersApart, FreeApart, Busy, Idle
<1>11. FreeListCoalesced /\ FreeListSorted
  BY <1>2 DEF FreeListCoalesced, FreeListSorted
<1>12. MetadataInv
  BY <1>2, <1>4 DEF MetadataInv, Metadata
<1>13. Counted
  <2>1. \A k : k \in FreePtes <=> k \in Ptes(b)
    BY <1>2, <1>3, FreeMembers DEF FreeAt, Idle
  <2>2. FreePtes = Ptes(b)
    BY <2>1
  <2>3. Cardinality(Ptes(b)) = b.size
    BY <1>1, BlockCardinality
  <2> QED BY <1>3, <2>2, <2>3 DEF Counted
<1> QED BY <1>6, <1>7, <1>8, <1>9, <1>10, <1>11, <1>12, <1>13 DEF IInv

(* Every step keeps the invariant.                                         *)
LEMMA NextPreserves == IInv /\ [Next]_vars => IInv'
<1> SUFFICES ASSUME IInv, [Next]_vars PROVE IInv'
  OBVIOUS
<1>1. ASSUME NEW c \in Cpus, NEW n \in Requests, ReserveSystemPtes(c, n)
      PROVE  IInv'
  <2>1. PICK i \in DOMAIN freeList : ReserveExact(n, i) \/ ReserveSplit(n, i)
    BY <1>1 DEF ReserveSystemPtes
  <2>2. LockFree /\ total' = total - n /\ UNCHANGED <<lock, op>>
    BY <1>1 DEF ReserveSystemPtes
  <2> QED BY <2>1, <2>2, ReserveExactStep, ReserveSplitStep
<1>2. ASSUME NEW i \in Index, MapPte(i) PROVE IInv'
  BY <1>2, MapStep
<1>3. ASSUME NEW c \in Cpus, NEW b \in reserved, ClearReleased(c, b) PROVE IInv'
  BY <1>3, ClearStep
<1>4. ASSUME NEW c \in Cpus, AcquireSpaceLock(c) PROVE IInv'
  BY <1>4, AcquireStep
<1>5. ASSUME NEW c \in Cpus, Walk(c) PROVE IInv'
  BY <1>5, MergeStep, PassStep, LinkStep DEF Walk
<1>6. CASE UNCHANGED vars
  <2>1. /\ pte' = pte /\ freeList' = freeList /\ total' = total
        /\ lock' = lock /\ reserved' = reserved /\ op' = op
    BY <1>6 DEF vars
  <2>2. Types' /\ LockHeld' /\ Fresh' /\ Within' /\ Covered'
    BY <2>1 DEF IInv, Types, LockHeld, Fresh, Within, Covered, Released, Busy, End, Ptes
  <2>3. ClustersApart' /\ OwnersApart' /\ FreeApart'
    BY <2>1 DEF IInv, ClustersApart, OwnersApart, FreeApart, Released, Busy, End, Apart
  <2>4. FreeListCoalesced' /\ FreeListSorted' /\ Walked' /\ MetadataInv'
    BY <2>1 DEF IInv, FreeListCoalesced, FreeListSorted, Walked, MetadataInv, Metadata,
                Released, Adjacent, End
  <2>5. Counted'
    BY <2>1 DEF IInv, Counted, FreePtes, PtesOf, Clusters, InState, Released, Ptes
  <2> QED BY <2>2, <2>3, <2>4, <2>5 DEF IInv
<1> QED BY <1>1, <1>2, <1>3, <1>4, <1>5, <1>6 DEF Next

(* The strengthened invariant holds of every reachable state.              *)
THEOREM Invariance == Spec => []IInv
<1> QED BY InitEstablishes, NextPreserves, PTL DEF Spec

(* Types are kept, and the count of free PTEs stays between zero and the   *)
(* size of the pool although it is a plain unsigned counter.               *)
THEOREM TypeCorrect == Spec => []TypeOK
<1>1. IInv => TypeOK
  <2> SUFFICES ASSUME IInv PROVE TypeOK
    OBVIOUS
  <2>1. Types /\ Within /\ Counted
    BY DEF IInv
  <2>2. FreePtes \subseteq 0 .. PoolSize - 1
    BY <2>1, FreeFinite
  <2>3. IsFiniteSet(0 .. PoolSize - 1) /\ Cardinality(0 .. PoolSize - 1) = PoolSize
    BY FS_Interval
  <2>4. Cardinality(FreePtes) <= PoolSize /\ Cardinality(FreePtes) \in Nat
    <3> DEFINE all == 0 .. PoolSize - 1
    <3>1. IsFiniteSet(all) /\ Cardinality(all) = PoolSize /\ FreePtes \subseteq all
      BY <2>2, <2>3
    <3> HIDE DEF all
    <3>2. IsFiniteSet(FreePtes) /\ Cardinality(FreePtes) <= Cardinality(all)
      BY <3>1, FS_Subset
    <3>3. Cardinality(FreePtes) \in Nat
      BY <3>2, FS_CardinalityType
    <3> QED BY <3>1, <3>2, <3>3
  <2>5. total \in 0 .. PoolSize
    BY <2>1, <2>4 DEF Counted
  <2> QED BY <2>1, <2>5 DEF Types, TypeOK
<1> QED BY <1>1, Invariance, PTL

(* Every PTE of the pool belongs to exactly one free cluster, reserved     *)
(* block or block on its way back: none is handed out twice or lost.       *)
THEOREM NoPteSharedOrLost == Spec => []PtePartition
<1>1. IInv => PtePartition
  <2> SUFFICES ASSUME IInv PROVE PtePartition
    OBVIOUS
  <2> DEFINE Parts == Clusters \cup reserved \cup InState("clear") \cup InState("walk")
  <2>1. \A b : b \in Parts <=> \/ \E i \in DOMAIN freeList : b = freeList[i]
                               \/ b \in reserved
                               \/ \E c \in Cpus : Busy(c) /\ b = Released(c)
    <3>1. \A c \in Cpus : Busy(c) <=> op[c].pc = "clear" \/ op[c].pc = "walk"
      BY DEF IInv, Types, Busy
    <3> QED BY <3>1 DEF Clusters, InState
  <2>2. ASSUME NEW b \in Parts PROVE b \in Block /\ End(b) <= PoolSize
    <3>1. CASE \E i \in DOMAIN freeList : b = freeList[i]
      BY <3>1, ElementOfSeq, LenProperties DEF IInv, Types, Within
    <3>2. CASE b \in reserved
      BY <3>2 DEF IInv, Types, Within
    <3>3. CASE \E c \in Cpus : b = Released(c)
      BY <3>3 DEF IInv, Types, Within, Released, Block
    <3> QED BY <2>1, <3>1, <3>2, <3>3
  <2>3. ASSUME NEW a \in Parts, NEW b \in Parts, a # b PROVE Apart(a, b)
    <3>1. CASE \E i \in DOMAIN freeList : a = freeList[i]
      BY <2>1, <2>3, <3>1 DEF IInv, ClustersApart, FreeApart
    <3>2. CASE a \in reserved
      BY <2>1, <2>3, <3>2 DEF IInv, OwnersApart, FreeApart, Apart
    <3>3. CASE \E c \in Cpus : Busy(c) /\ a = Released(c)
      BY <2>1, <2>3, <3>3 DEF IInv, OwnersApart, FreeApart, Apart
    <3> QED BY <2>1, <3>1, <3>2, <3>3
  <2>4. \A a, b \in Parts : a # b => Ptes(a) \cap Ptes(b) = {}
    BY <2>2, <2>3, ApartDisjoint
  <2>5. PtesOf(Parts) = 0 .. PoolSize - 1
    <3>1. ASSUME NEW k \in 0 .. PoolSize - 1 PROVE \E b \in Parts : k \in Ptes(b)
      BY <2>1 DEF IInv, Covered
    <3>2. ASSUME NEW b \in Parts, NEW k \in Ptes(b) PROVE k \in 0 .. PoolSize - 1
      BY <2>2 DEF Ptes, End, Block
    <3> HIDE DEF Parts
    <3>3. \A k : k \in PtesOf(Parts) <=> \E b \in Parts : k \in Ptes(b)
      BY DEF PtesOf
    <3> QED BY <3>1, <3>2, <3>3
  <2>6. \A i, j \in DOMAIN freeList : i # j => freeList[i] # freeList[j]
    <3> SUFFICES ASSUME NEW i \in DOMAIN freeList, NEW j \in DOMAIN freeList, i # j,
                        freeList[i] = freeList[j]
                 PROVE  FALSE
      OBVIOUS
    <3>1. freeList[i] \in Block
      BY <2>1, <2>2
    <3>2. Apart(freeList[i], freeList[i])
      BY DEF IInv, ClustersApart
    <3> QED BY <3>1, <3>2 DEF Apart, End, Block
  <2> QED BY <2>4, <2>5, <2>6 DEF PtePartition
<1> QED BY <1>1, Invariance, PTL

(* The list stays in order of size, also while a release walks it.         *)
THEOREM ListStaysSorted == Spec => []FreeListSorted
<1>1. IInv => FreeListSorted
  BY DEF IInv
<1> QED BY <1>1, Invariance, PTL

(* No two free clusters ever touch.                                        *)
THEOREM ListStaysCoalesced == Spec => []FreeListCoalesced
<1>1. IInv => FreeListCoalesced
  BY DEF IInv
<1> QED BY <1>1, Invariance, PTL

(* Links and sizes kept in free PTEs survive every write, the stray clear  *)
(* of a one-entry reservation included.                                    *)
THEOREM LinksSurvive == Spec => []MetadataIntact
<1>1. IInv => MetadataIntact
  BY DEF IInv, MetadataInv, MetadataIntact, Clusters
<1> QED BY <1>1, Invariance, PTL

-----------------------------------------------------------------------------
(* The list implements the abstract pool of PteSpace: its free entries are *)
(* those of the clusters and of the block that a release has counted.      *)

(* The blocks on their way back, one by one.                               *)
LEMMA LeavingMembers ==
  /\ \A b : b \in InState("clear") <=> \E c \in Cpus : op[c].pc = "clear" /\ b = Released(c)
  /\ (\A b : b \in InState("clear") <=> \E c \in Cpus : op[c].pc = "clear" /\ b = Released(c))'
<1>1. \A b : b \in InState("clear") <=> \E c \in Cpus : op[c].pc = "clear" /\ b = Released(c)
  BY DEF InState
<1>2. (\A b : b \in InState("clear") <=> \E c \in Cpus : op[c].pc = "clear" /\ b = Released(c))'
  BY DEF InState
<1> QED BY <1>1, <1>2

(* While nobody holds the lock, the maximal runs of free entries are just  *)
(* the clusters: a cluster is one because no cluster touches another, ...  *)
LEMMA ClusterIsRun ==
  ASSUME IInv, LockFree, NEW i \in DOMAIN freeList
  PROVE  Pool!IsRun(freeList[i])
<1> DEFINE b == freeList[i]
<1>1. freeList \in Seq(Block) /\ \A j \in DOMAIN freeList : freeList[j] \in Block
  BY ElementOfSeq, LenProperties DEF IInv, Types
<1>2. \A k : k \in FreePtes <=> \E j \in DOMAIN freeList : k \in Ptes(freeList[j])
  BY FreeMembers DEF IInv, LockHeld, LockFree, FreeAt
<1>3. b \in Block /\ b.start \in Int /\ b.size \in Int /\ b.size >= 1
  BY <1>1 DEF Block
<1> HIDE DEF b
<1>4. ASSUME NEW k \in {b.start - 1, b.start + b.size} PROVE k \notin FreePtes
  <2> SUFFICES ASSUME k \in FreePtes PROVE FALSE
    OBVIOUS
  <2>1. PICK j \in DOMAIN freeList : k \in Ptes(freeList[j])
    BY <1>2
  <2>2. PICK a \in Block : a = freeList[j]
    BY <1>1
  <2>3. a.start \in Int /\ a.size \in Int /\ a.size >= 1
    BY <2>2 DEF Block
  <2>4. k \in a.start .. a.start + a.size - 1 /\ (k = b.start - 1 \/ k = b.start + b.size)
    BY <2>1, <2>2 DEF Ptes
  <2>5. CASE j = i
    <3>1. a = b
      BY <2>2, <2>5 DEF b
    <3> QED BY <1>3, <2>4, <3>1
  <2>6. CASE j # i
    <3>1. (a.start + a.size <= b.start \/ b.start + b.size <= a.start)
          /\ a.start + a.size # b.start /\ b.start + b.size # a.start
      BY <2>2, <2>6 DEF IInv, ClustersApart, FreeListCoalesced, Apart, Adjacent, End, b
    <3> QED BY <1>3, <2>3, <2>4, <3>1
  <2> QED BY <2>5, <2>6
<1>5. \A k : k \in Pool!Ptes(b) => k \in FreePtes
  BY <1>2 DEF b, Ptes, Pool!Ptes
<1>6. Pool!IsRun(b)
  BY <1>4, <1>5 DEF Pool!IsRun, FreePtes
<1> QED BY <1>6 DEF b

(* ... and every run is a cluster as large, because a cluster whose end is *)
(* not that of the run would go on.                                        *)
LEMMA RunIsCluster ==
  ASSUME IInv, LockFree, NEW s \in Block, Pool!IsRun(s)
  PROVE  \E j \in DOMAIN freeList : freeList[j].size = s.size
<1>1. freeList \in Seq(Block) /\ \A j \in DOMAIN freeList : freeList[j] \in Block
  BY ElementOfSeq, LenProperties DEF IInv, Types
<1>2. \A k : k \in FreePtes <=> \E j \in DOMAIN freeList : k \in Ptes(freeList[j])
  BY FreeMembers DEF IInv, LockHeld, LockFree, FreeAt
<1>3. s.start \in Int /\ s.size \in Int /\ s.size >= 1
  BY DEF Block
<1>4. /\ \A k \in s.start .. s.start + s.size - 1 : k \in FreePtes
      /\ s.start - 1 \notin FreePtes /\ s.start + s.size \notin FreePtes
  BY DEF Pool!IsRun, Pool!Ptes, FreePtes
<1>5. s.start \in FreePtes
  BY <1>3, <1>4
<1>6. PICK j \in DOMAIN freeList : s.start \in Ptes(freeList[j])
  BY <1>2, <1>5
<1>7. PICK f \in Block : f = freeList[j]
  BY <1>1
<1>8. f.start \in Int /\ f.size \in Int /\ f.size >= 1
  BY <1>7 DEF Block
<1>9. /\ \A k \in f.start .. f.start + f.size - 1 : k \in FreePtes
      /\ f.start - 1 \notin FreePtes /\ f.start + f.size \notin FreePtes
  <2>1. Pool!IsRun(f)
    BY <1>7, ClusterIsRun
  <2> QED BY <2>1 DEF Pool!IsRun, Pool!Ptes, FreePtes
<1>10. s.start \in f.start .. f.start + f.size - 1
  BY <1>6, <1>7 DEF Ptes
<1>11. s.start = f.start
  <2>1. s.start > f.start => s.start - 1 \in FreePtes
    BY <1>3, <1>8, <1>9, <1>10
  <2> QED BY <1>3, <1>4, <1>8, <1>10, <2>1
<1>12. s.size = f.size
  <2>1. s.size < f.size => s.start + s.size \in FreePtes
    BY <1>3, <1>8, <1>9, <1>11
  <2>2. f.size < s.size => f.start + f.size \in FreePtes
    BY <1>3, <1>4, <1>8, <1>11
  <2> QED BY <1>3, <1>4, <1>8, <1>9, <2>1, <2>2
<1> QED BY <1>7, <1>12

(* The first cluster that is large enough is a best fit, as the list is in *)
(* order of size.                                                          *)
LEMMA FirstIsBest ==
  ASSUME IInv, LockFree, NEW n \in Requests, NEW i, FindFreeCluster(n, i)
  PROVE  Pool!BestFit(freeList[i], n)
<1>1. freeList \in Seq(Block) /\ \A j \in DOMAIN freeList : freeList[j] \in Block
  BY ElementOfSeq, LenProperties DEF IInv, Types
<1>2. i \in DOMAIN freeList /\ DOMAIN freeList = 1 .. Len(freeList) /\ Len(freeList) \in Nat
      /\ freeList[i].size >= n /\ \A j \in 1 .. i - 1 : freeList[j].size < n
  BY <1>1, LenProperties DEF FindFreeCluster
<1>3. Pool!IsRun(freeList[i])
  BY <1>2, ClusterIsRun
<1>4. ASSUME NEW s \in Block, Pool!IsRun(s), s.size >= n PROVE freeList[i].size <= s.size
  <2>1. PICK j \in DOMAIN freeList : freeList[j].size = s.size
    BY <1>4, RunIsCluster
  <2>2. /\ s.size \in Int /\ n \in Int /\ i \in Int /\ j \in Int /\ j >= 1
        /\ freeList[i].size \in Int
    BY <1>1, <1>2 DEF Block
  <2>3. ~(j < i)
    <3> SUFFICES ASSUME j < i PROVE FALSE
      OBVIOUS
    <3>1. j \in 1 .. i - 1
      BY <2>2
    <3>2. freeList[j].size < n
      BY <1>2, <3>1
    <3> QED BY <1>4, <2>1, <2>2, <3>2
  <2>4. CASE j = i
    BY <2>1, <2>2, <2>4
  <2>5. CASE i < j
    BY <1>2, <2>1, <2>5 DEF IInv, FreeListSorted
  <2> QED BY <2>2, <2>3, <2>4, <2>5
<1>5. Pool!Block = Block
  BY DEF Pool!Block, Block
<1> QED BY <1>2, <1>3, <1>4, <1>5 DEF Pool!BestFit

(* A step of the list is a step of the pool, or none: a merge, a turn past *)
(* a cluster and the final link move no entry in or out of the free ones.  *)
LEMMA ReserveRefines ==
  ASSUME IInv, NEW c \in Cpus, NEW n \in Requests, ReserveSystemPtes(c, n)
  PROVE  Pool!Reserve(n)
<1>1. PICK i \in DOMAIN freeList :
        FindFreeCluster(n, i) /\ (ReserveExact(n, i) \/ ReserveSplit(n, i))
  BY DEF ReserveSystemPtes
<1>2. LockFree /\ total' = total - n /\ UNCHANGED <<lock, op>>
  BY DEF ReserveSystemPtes
<1>3. PICK r \in Block : r = freeList[i]
  BY ElementOfSeq, LenProperties DEF IInv, Types
<1>4. Pool!BestFit(r, n)
  BY <1>1, <1>2, <1>3, FirstIsBest
<1> DEFINE b == [start |-> r.start + r.size - n, size |-> n]
<1>5. r.start \in Int /\ r.size \in Int /\ n \in Int
  <2>1. r.start \in 0 .. PoolSize - 1 /\ r.size \in 1 .. PoolSize
    BY DEF Block
  <2>2. n \in Nat
    BY RequestsAssumption
  <2> QED BY <2>1, <2>2
<1>6. FreePtes' = FreePtes \ Ptes(b) /\ reserved' = reserved \cup {b}
  <2>1. CASE ReserveExact(n, i)
    <3>1. r.size = n /\ reserved' = reserved \cup {r}
      BY <1>3, <2>1 DEF ReserveExact, TakeCluster
    <3>2. b = r
      BY <1>5, <3>1 DEF Block
    <3>3. FreePtes' = FreePtes \ Ptes(r)
      BY <1>2, <1>3, <2>1, ReserveExactStep
    <3> QED BY <3>1, <3>2, <3>3
  <2>2. CASE ReserveSplit(n, i)
    <3>1. b = [start |-> r.start + (r.size - n), size |-> n]
      BY <1>5
    <3>2. reserved' = reserved \cup {[start |-> r.start + (r.size - n), size |-> n]}
      BY <1>3, <2>2 DEF ReserveSplit, End
    <3>3. FreePtes' = FreePtes \ Ptes([start |-> r.start + (r.size - n), size |-> n])
      BY <1>2, <1>3, <2>2, ReserveSplitStep
    <3> QED BY <3>1, <3>2, <3>3
  <2> QED BY <1>1, <2>1, <2>2
<1>7. InState("clear")' = InState("clear")
  BY <1>2 DEF InState, Released
<1>8. Pool!Block = Block /\ Pool!Ptes(b) = Ptes(b)
  BY DEF Pool!Block, Block, Pool!Ptes, Ptes
<1>9. FreePtes' = FreePtes \ Pool!Ptes(b)
  BY <1>6, <1>8
<1> QED BY <1>2, <1>4, <1>6, <1>7, <1>8, <1>9 DEF Pool!Reserve, FreePtes

(* Zeroing a block on its way back hands it back to the pool.              *)
LEMMA ClearRefines ==
  ASSUME IInv, NEW c \in Cpus, NEW b \in reserved, ClearReleased(c, b)
  PROVE  Pool!GiveBack(b)
<1>1. /\ total' = total /\ reserved' = reserved \ {b} /\ op[c].pc = "idle"
      /\ op' = [op EXCEPT ![c] = [pc |-> "clear", start |-> b.start,
                                  size |-> b.size, pos |-> 1, insert |-> 0]]
  BY DEF ClearReleased
<1>2. b = [start |-> b.start, size |-> b.size]
  BY DEF IInv, Types, Block
<1>3. /\ op'[c].pc = "clear" /\ Released(c)' = b
      /\ \A d \in Cpus \ {c} : op'[d] = op[d] /\ Released(d)' = Released(d)
  BY <1>1, <1>2 DEF IInv, Types, Released
<1>4. \A a : a \in InState("clear")' <=> a \in InState("clear") \/ a = b
  <2> SUFFICES ASSUME NEW a PROVE a \in InState("clear")' <=> a \in InState("clear") \/ a = b
    OBVIOUS
  <2>1. a \in InState("clear")' <=> \E d \in Cpus : op'[d].pc = "clear" /\ a = Released(d)'
    BY LeavingMembers
  <2>2. a \in InState("clear") <=> \E d \in Cpus : op[d].pc = "clear" /\ a = Released(d)
    BY LeavingMembers
  <2> QED BY <1>1, <1>3, <2>1, <2>2
<1>5. InState("clear")' = InState("clear") \cup {b}
  BY <1>4
<1>6. FreePtes' = FreePtes
  BY ClearStep
<1> QED BY <1>1, <1>5, <1>6 DEF Pool!GiveBack, FreePtes

(* Taking the lock is where the pool counts the entries as free.           *)
LEMMA AcquireRefines ==
  ASSUME IInv, NEW c \in Cpus, AcquireSpaceLock(c)
  PROVE  \E b \in InState("clear") : Pool!Free(b)
<1> DEFINE b == Released(c)
<1>1. /\ total' = total + op[c].size /\ reserved' = reserved /\ op[c].pc = "clear"
      /\ op' = [op EXCEPT ![c].pc = "walk"]
  BY DEF AcquireSpaceLock, AcquireCounting
<1>2. /\ op'[c].pc = "walk"
      /\ \A d \in Cpus \ {c} : op'[d] = op[d]
      /\ \A d \in Cpus : Released(d)' = Released(d)
  BY <1>1 DEF IInv, Types, Released
<1>3. b \in InState("clear") /\ b \in Block /\ b.size = op[c].size
  BY <1>1, LeavingMembers DEF IInv, Types, Released, Block
<1>4. ASSUME NEW d \in Cpus \ {c}, op[d].pc = "clear" PROVE Released(d) # b
  <2>1. Apart(Released(d), b)
    BY <1>1, <1>4 DEF IInv, OwnersApart, Busy
  <2> QED BY <1>3, <2>1 DEF Apart, End, Block
<1>5. \A a : a \in InState("clear")' <=> a \in InState("clear") /\ a # b
  <2> SUFFICES ASSUME NEW a PROVE a \in InState("clear")' <=> a \in InState("clear") /\ a # b
    OBVIOUS
  <2>1. a \in InState("clear")' <=> \E d \in Cpus : op'[d].pc = "clear" /\ a = Released(d)
    BY <1>2, LeavingMembers
  <2>2. a \in InState("clear") <=> \E d \in Cpus : op[d].pc = "clear" /\ a = Released(d)
    BY LeavingMembers
  <2> HIDE DEF b
  <2>3. a \in InState("clear")' => a \in InState("clear") /\ a # b
    BY <1>2, <1>4, <2>1, <2>2
  <2>4. a \in InState("clear") /\ a # b => a \in InState("clear")'
    BY <1>2, <2>1, <2>2 DEF b
  <2> QED BY <2>3, <2>4
<1>6. InState("clear")' = InState("clear") \ {b}
  BY <1>5
<1>7. FreePtes' = FreePtes \cup Ptes(b)
  BY AcquireStep
<1>8. Pool!Ptes(b) = Ptes(b)
  BY DEF Pool!Ptes, Ptes
<1>9. FreePtes' = FreePtes \cup Pool!Ptes(b)
  BY <1>7, <1>8
<1> HIDE DEF b
<1>10. total' = total + b.size
  BY <1>1, <1>3
<1>11. Pool!Free(b)
  BY <1>1, <1>6, <1>9, <1>10 DEF Pool!Free, FreePtes
<1> QED BY <1>3, <1>11

(* The walk of a release is invisible to the pool.                         *)
LEMMA WalkRefines ==
  ASSUME IInv, NEW c \in Cpus, Walk(c)
  PROVE  UNCHANGED Pool!vars
<1>1. FreePtes' = FreePtes
  BY MergeStep, PassStep, LinkStep DEF Walk
<1>2. /\ total' = total /\ reserved' = reserved /\ op[c].pc = "walk" /\ op'[c].pc # "clear"
      /\ \A d \in Cpus \ {c} : op'[d] = op[d]
  <2>1. CASE MergeCluster(c)
    BY <2>1 DEF MergeCluster, MergeInto, IInv, Types
  <2>2. CASE PassCluster(c)
    BY <2>2 DEF PassCluster, PassTo, IInv, Types
  <2>3. CASE LinkReleased(c)
    BY <2>3 DEF LinkReleased, LinkWhen, IInv, Types, Idle
  <2> QED BY <2>1, <2>2, <2>3 DEF Walk
<1>3. \A a : a \in InState("clear")' <=> a \in InState("clear")
  <2> SUFFICES ASSUME NEW a PROVE a \in InState("clear")' <=> a \in InState("clear")
    OBVIOUS
  <2>1. a \in InState("clear")' <=> \E d \in Cpus : op'[d].pc = "clear" /\ a = Released(d)'
    BY LeavingMembers
  <2>2. a \in InState("clear") <=> \E d \in Cpus : op[d].pc = "clear" /\ a = Released(d)
    BY LeavingMembers
  <2>3. \A d \in Cpus \ {c} : Released(d)' = Released(d)
    BY <1>2 DEF Released
  <2> QED BY <1>2, <2>1, <2>2, <2>3
<1>4. InState("clear")' = InState("clear")
  BY <1>3
<1> QED BY <1>1, <1>2, <1>4 DEF Pool!vars, FreePtes

(* The list starts as one cluster: a pool with every entry free.           *)
LEMMA InitRefines == Init => Pool!Init
<1> SUFFICES ASSUME Init PROVE Pool!Init
  OBVIOUS
<1>1. \A c \in Cpus : op[c].pc = "idle"
  BY DEF Init, Idle
<1>2. freeList = <<[start |-> 0, size |-> PoolSize]>>
  BY DEF Init
<1>3. \A k : k \in FreePtes <=> k \in 0 .. PoolSize - 1
  <2>1. DOMAIN freeList = {1} /\ freeList[1] = [start |-> 0, size |-> PoolSize]
    BY <1>2
  <2>2. Ptes(freeList[1]) = 0 .. PoolSize - 1
    BY <2>1 DEF Ptes
  <2> QED BY <1>1, <2>1, <2>2, FreeMembers DEF FreeAt
<1>4. FreePtes = 0 .. PoolSize - 1
  BY <1>3
<1>5. InState("clear") = {}
  BY <1>1, LeavingMembers
<1> QED BY <1>4, <1>5 DEF Pool!Init, Init, FreePtes

(* The allocator implements the pool: every reservation is the upper end   *)
(* of a best-fitting run of free entries, and the published count is exact *)
(* at every moment, whatever other processors release meanwhile.           *)
THEOREM ListImplementsPool == Spec => ImplementsPool
<1>1. Init => Pool!Init
  BY InitRefines
<1>2. IInv /\ [Next]_vars => [Pool!Next]_(Pool!vars)
  <2> SUFFICES ASSUME IInv, [Next]_vars PROVE Pool!Next \/ UNCHANGED Pool!vars
    OBVIOUS
  <2>1. ASSUME NEW c \in Cpus, NEW n \in Requests, ReserveSystemPtes(c, n) PROVE Pool!Next
    BY <2>1, ReserveRefines DEF Pool!Next
  <2>2. ASSUME NEW i \in Index, MapPte(i) PROVE UNCHANGED Pool!vars
    <3>1. FreePtes' = FreePtes
      BY <2>2, MapStep
    <3>2. total' = total /\ reserved' = reserved /\ op' = op
      BY <2>2 DEF MapPte
    <3> QED BY <3>1, <3>2 DEF Pool!vars, FreePtes, InState, Released
  <2>3. ASSUME NEW c \in Cpus, NEW b \in reserved, ClearReleased(c, b) PROVE Pool!Next
    BY <2>3, ClearRefines DEF Pool!Next
  <2>4. ASSUME NEW c \in Cpus, AcquireSpaceLock(c) PROVE Pool!Next
    BY <2>4, AcquireRefines DEF Pool!Next
  <2>5. ASSUME NEW c \in Cpus, Walk(c) PROVE UNCHANGED Pool!vars
    BY <2>5, WalkRefines
  <2>6. CASE UNCHANGED vars
    BY <2>6 DEF vars, Pool!vars, PtesOf, Clusters, InState, Released, Ptes
  <2> QED BY <2>1, <2>2, <2>3, <2>4, <2>5, <2>6 DEF Next
<1> QED BY <1>1, <1>2, Invariance, PTL DEF Spec, ImplementsPool, Pool!Spec
=============================================================================
