--------------------------- MODULE PoolBlocksProofs ---------------------------
(***************************************************************************)
(* Proofs about the blocks of the pool, for every number of processors,    *)
(* pages and units, and every set of requests.                             *)
(***************************************************************************)
EXTENDS PoolBlocks, SequenceEdits, FiniteSetTheorems

-----------------------------------------------------------------------------
(* The blocks of a page.                                                   *)

(* The starts M of the blocks tile a page whose headers are h.             *)
BlockIn(h, M, u) ==
  /\ u \in 0 .. Units - 1
  /\ h[u].size \in 1 .. Units
  /\ u + h[u].size = Units \/ (u + h[u].size \in M /\ h[u + h[u].size].prev = h[u].size)
BlockBefore(h, M, u) ==
  /\ h[u].prev \in 1 .. Units
  /\ u - h[u].prev \in M
  /\ h[u - h[u].prev].size = h[u].prev
Tiled(h, M) ==
  /\ 0 \in M /\ h[0].prev = 0
  /\ \A u \in M : BlockIn(h, M, u)
  /\ \A u \in M : u # 0 => BlockBefore(h, M, u)

(* A function defined by its value before: step k follows from step k - 1. *)
LEMMA StepsExist ==
  ASSUME NEW a, NEW n \in Nat
  PROVE  \E f : f = [i \in 0 .. n |-> IF i = 0 THEN 0 ELSE a[f[i - 1]]]
<1> DEFINE Steps(k) == \E f : f = [i \in 0 .. k |-> IF i = 0 THEN 0 ELSE a[f[i - 1]]]
           S == {k \in Nat : ~Steps(k)}
<1>1. S = {}
  <2> SUFFICES ASSUME S # {} PROVE FALSE
    OBVIOUS
  <2>1. PICK m \in S : \A k \in S : m <= k
    BY LeastNumber
  <2>2. m # 0
    <3>1. [i \in 0 .. 0 |-> 0] = [i \in 0 .. 0 |-> IF i = 0 THEN 0 ELSE a[[j \in 0 .. 0 |-> 0][i - 1]]]
      OBVIOUS
    <3>2. Steps(0)
      BY <3>1
    <3> QED BY <3>2
  <2>3. m - 1 \in Nat /\ m - 1 \notin S
    <3>1. m \in Nat /\ m - 1 \in Nat /\ ~(m <= m - 1)
      BY <2>1, <2>2
    <3> HIDE DEF S
    <3> QED BY <2>1, <3>1
  <2>4. PICK f : f = [i \in 0 .. m - 1 |-> IF i = 0 THEN 0 ELSE a[f[i - 1]]]
    BY <2>3
  <2>5. PICK g : g = [i \in 0 .. m |-> IF i < m THEN f[i] ELSE a[f[m - 1]]]
    OBVIOUS
  <2>6. \A i \in 0 .. m : g[i] = IF i = 0 THEN 0 ELSE a[g[i - 1]]
    <3> SUFFICES ASSUME NEW i \in 0 .. m PROVE g[i] = IF i = 0 THEN 0 ELSE a[g[i - 1]]
      OBVIOUS
    <3>1. CASE i < m
      <4>1. g[i] = f[i] /\ f[i] = (IF i = 0 THEN 0 ELSE a[f[i - 1]])
        BY <2>1, <2>4, <2>5, <3>1
      <4>2. i # 0 => g[i - 1] = f[i - 1]
        BY <2>5, <3>1
      <4> QED BY <4>1, <4>2
    <3>2. CASE i = m
      BY <2>2, <2>3, <2>5, <3>2
    <3> QED BY <3>1, <3>2
  <2>7. g = [i \in 0 .. m |-> IF i = 0 THEN 0 ELSE a[g[i - 1]]]
    BY <2>5, <2>6
  <2>8. Steps(m)
    BY <2>7
  <2> QED BY <2>1, <2>8
<1> QED BY <1>1

(* The blocks that tile a page are those that Met meets, and their headers *)
(* pass every check.                                                       *)
AfterIn(h) ==
  [u \in 0 .. Units |-> IF u < Units /\ u + h[u].size <= Units THEN u + h[u].size ELSE Units]

Steps(n, after) == n = [i \in 0 .. Units - 1 |-> IF i = 0 THEN 0 ELSE after[n[i - 1]]]

LEMMA MetIs ==
  ASSUME NEW h, NEW M, Tiled(h, M)
  PROVE  Met(h) = M
<1> USE UnitsAssumption
<1>1. PICK after : after = AfterIn(h)
  OBVIOUS
<1>2. PICK nth : nth = [i \in 0 .. Units - 1 |-> IF i = 0 THEN 0 ELSE after[nth[i - 1]]]
  <2>1. Units - 1 \in Nat
    OBVIOUS
  <2> QED BY <2>1, StepsExist
<1>3. PICK n : /\ Steps(n, after)
               /\ \A u : u \in Met(h) <=> u # Units /\ \E i \in 0 .. Units - 1 : u = n[i]
  <2>1. \E f : f = [i \in 0 .. Units - 1 |-> IF i = 0 THEN 0 ELSE AfterIn(h)[f[i - 1]]]
    BY <1>1, <1>2 DEF AfterIn
  <2>2. \E f : /\ f = [i \in 0 .. Units - 1 |-> IF i = 0 THEN 0 ELSE AfterIn(h)[f[i - 1]]]
               /\ Met(h) = {f[i] : i \in 0 .. Units - 1} \ {Units}
    BY <2>1, Zenon DEF Met, AfterIn
  <2>3. PICK f : /\ f = [i \in 0 .. Units - 1 |-> IF i = 0 THEN 0 ELSE AfterIn(h)[f[i - 1]]]
                 /\ Met(h) = {f[i] : i \in 0 .. Units - 1} \ {Units}
    BY <2>2
  <2>4. Steps(f, after)
    BY <1>1, <2>3 DEF Steps
  <2>5. \A u : u \in Met(h) <=> u # Units /\ \E i \in 0 .. Units - 1 : u = f[i]
    BY <2>3
  <2> QED BY <2>4, <2>5
<1>4. /\ n[0] = 0
      /\ \A i \in 1 .. Units - 1 : n[i] = after[n[i - 1]]
  BY <1>3 DEF Steps
<1>5. /\ after[Units] = Units
      /\ \A u \in M : after[u] \in M \cup {Units} /\ after[u] = u + h[u].size /\ after[u] >= u + 1
             /\ after[u] \in 1 .. Units /\ u \in 0 .. Units - 1
  <2> SUFFICES ASSUME NEW u \in M
               PROVE  /\ after[u] \in M \cup {Units} /\ after[u] = u + h[u].size /\ after[u] >= u + 1
                      /\ after[u] \in 1 .. Units /\ u \in 0 .. Units - 1
    BY <1>1 DEF AfterIn
  <2>1. BlockIn(h, M, u)
    BY DEF Tiled
  <2>2. \A v \in M : v < Units
    <3>1. \A v \in M : BlockIn(h, M, v)
      BY DEF Tiled
    <3>2. \A v \in M : v \in 0 .. Units - 1
      BY <3>1 DEF BlockIn
    <3> QED BY <3>2
  <2>3. u + h[u].size <= Units /\ u + h[u].size >= u + 1 /\ u + h[u].size \in M \cup {Units}
    BY <2>1, <2>2 DEF BlockIn
  <2> QED BY <1>1, <2>1, <2>3 DEF AfterIn, BlockIn
<1>6. \A i \in 0 .. Units - 1 : n[i] \in M \cup {Units} /\ n[i] >= i
  <2> DEFINE S == {i \in 0 .. Units - 1 : ~(n[i] \in M \cup {Units} /\ n[i] >= i)}
  <2> SUFFICES ASSUME S # {} PROVE FALSE
    OBVIOUS
  <2>1. PICK m \in S : \A k \in S : m <= k
    <3>1. S \in SUBSET Nat
      OBVIOUS
    <3> QED BY <3>1, LeastNumber
  <2>2. m # 0
    BY <1>4 DEF Tiled
  <2>3. m - 1 \in 0 .. Units - 1 /\ m - 1 \notin S
    BY <2>1, <2>2
  <2>4. n[m - 1] \in M \cup {Units} /\ n[m - 1] >= m - 1 /\ n[m] = after[n[m - 1]] /\ m \in 1 .. Units - 1
    BY <1>4, <2>1, <2>2, <2>3
  <2>5. after[n[m - 1]] \in M \cup {Units} /\ after[n[m - 1]] >= m
    <3>1. CASE n[m - 1] = Units
      BY <1>5, <2>4, <3>1
    <3>2. CASE n[m - 1] \in M
      <4>1. PICK u \in 0 .. Units - 1 : u = n[m - 1] /\ u \in M /\ u >= m - 1
        BY <1>5, <2>4, <3>2
      <4> QED BY <1>5, <2>1, <2>4, <4>1
    <3> QED BY <2>4, <3>1, <3>2
  <2> QED BY <2>4, <2>5
<1>7. Units \notin M
  BY DEF Tiled, BlockIn
<1>8. Met(h) \subseteq M
  BY <1>3, <1>6
<1>9. M \subseteq Met(h)
  <2> DEFINE S == M \ Met(h)
  <2> SUFFICES ASSUME S # {} PROVE FALSE
    OBVIOUS
  <2>1. PICK m \in S : \A k \in S : m <= k
    <3>1. S \in SUBSET Nat
      BY DEF Tiled, BlockIn
    <3> QED BY <3>1, LeastNumber
  <2>2. m # 0
    BY <1>3, <1>4, <1>7 DEF Tiled
  <2>3. PICK u \in M : after[u] = m /\ u < m
    <3>1. BlockBefore(h, M, m) /\ m \in 0 .. Units - 1
      BY <2>1, <2>2 DEF Tiled, BlockIn
    <3>2. PICK u \in M : u = m - h[m].prev /\ h[u].size = h[m].prev /\ h[m].prev \in 1 .. Units
      BY <3>1 DEF BlockBefore
    <3> QED BY <1>5, <3>1, <3>2
  <2>4. u \in Met(h)
    <3>1. u \in Nat /\ m \in Nat /\ ~(m <= u)
      BY <1>5, <2>1, <2>3
    <3> QED BY <2>1, <2>3, <3>1
  <2>5. PICK i \in 0 .. Units - 1 : u = n[i]
    BY <1>3, <2>4
  <2>6. i + 1 \in 1 .. Units - 1
    BY <1>5, <1>6, <2>1, <2>3, <2>5
  <2>7. n[i + 1] = after[n[(i + 1) - 1]] /\ (i + 1) - 1 = i
    BY <1>4, <2>6
  <2>8. m = n[i + 1] /\ m # Units /\ m \notin Met(h)
    BY <1>7, <2>1, <2>3, <2>5, <2>7
  <2>9. i + 1 \in 0 .. Units - 1
    BY <2>6
  <2> QED BY <1>3, <2>8, <2>9
<1> QED BY <1>8, <1>9

LEMMA TiledVerified ==
  ASSUME NEW h, NEW M, Tiled(h, M), NEW u \in M
  PROVE  HeaderVerified(h, u) /\ PageVerified(h, u)
<1> USE UnitsAssumption
<1>1. ASSUME NEW v \in M PROVE HeaderVerified(h, v)
  <2>1. v \in 0 .. Units - 1 /\ h[v].size \in 1 .. Units /\ BlockIn(h, M, v)
    BY DEF Tiled, BlockIn
  <2>2. v + h[v].size = Units \/ (v + h[v].size < Units /\ h[v + h[v].size].prev = h[v].size)
    BY <2>1 DEF Tiled, BlockIn
  <2>3. IF h[v].prev = 0 THEN v = 0 ELSE h[v].prev <= v /\ h[v - h[v].prev].size = h[v].prev
    <3>1. CASE v = 0
      BY <3>1 DEF Tiled
    <3>2. CASE v # 0
      <4>1. BlockBefore(h, M, v)
        BY <3>2 DEF Tiled
      <4>2. v - h[v].prev \in 0 .. Units - 1
        BY <4>1 DEF Tiled, BlockIn, BlockBefore
      <4> QED BY <2>1, <4>1, <4>2 DEF BlockBefore
    <3> QED BY <3>1, <3>2
  <2> QED BY <2>1, <2>2, <2>3 DEF HeaderVerified
<1>2. Met(h) = M
  BY MetIs
<1> QED BY <1>1, <1>2 DEF PageVerified

(* Blocks do not overlap.                                                  *)
LEMMA BlocksApart ==
  ASSUME NEW h, NEW M, Tiled(h, M), NEW u \in M, NEW v \in M, u < v
  PROVE  u + h[u].size <= v
<1> USE UnitsAssumption
<1> DEFINE Over(a, b) == a < b /\ b < a + h[a].size
           S == {b \in M : \E a \in M : Over(a, b)}
<1>1. S = {}
  <2> SUFFICES ASSUME S # {} PROVE FALSE
    OBVIOUS
  <2>1. PICK b \in S : \A k \in S : b <= k
    <3>1. S \in SUBSET Nat
      BY DEF Tiled, BlockIn
    <3> QED BY <3>1, LeastNumber
  <2>2. PICK a \in M : Over(a, b)
    BY <2>1
  <2>3. \A w \in M : w \in 0 .. Units - 1 /\ h[w].size \in 1 .. Units
    BY DEF Tiled, BlockIn
  <2>4. BlockBefore(h, M, b)
    BY <2>1, <2>2, <2>3 DEF Tiled
  <2>5. PICK c \in M : c + h[c].size = b /\ c < b
    <3>1. PICK c \in M : c = b - h[b].prev /\ h[c].size = h[b].prev
      BY <2>4 DEF BlockBefore
    <3> QED BY <2>1, <2>3, <2>4, <3>1 DEF BlockBefore
  <2>6. CASE c > a
    <3>1. Over(a, c)
      BY <2>2, <2>3, <2>5, <2>6, <2>1
    <3>2. b <= c
      BY <2>1, <3>1
    <3> QED BY <2>1, <2>3, <2>5, <3>2
  <2>7. CASE c = a
    BY <2>1, <2>2, <2>3, <2>5, <2>7
  <2>8. CASE c < a
    <3>1. Over(c, a) 
      BY <2>1, <2>2, <2>3, <2>5, <2>8
    <3>2. b <= a
      BY <2>1, <3>1
    <3> QED BY <2>1, <2>2, <2>3, <3>2
  <2> QED BY <2>1, <2>3, <2>5, <2>6, <2>7, <2>8
<1>2. ~Over(u, v)
  BY <1>1
<1> QED BY <1>2 DEF Tiled, BlockIn

-----------------------------------------------------------------------------
(* Splitting and merging.                                                  *)

(* Sizes and back sizes of h and g agree at v.                             *)
Same(h, g, v) == g[v].size = h[v].size /\ g[v].prev = h[v].prev

(* Facts about a block and its neighbours, for citing.                     *)
LEMMA BlockFacts ==
  ASSUME NEW h, NEW M, Tiled(h, M), NEW u \in M
  PROVE  /\ u \in 0 .. Units - 1 /\ h[u].size \in 1 .. Units /\ u + h[u].size \in 1 .. Units
         /\ u + h[u].size # Units => u + h[u].size \in M /\ h[u + h[u].size].prev = h[u].size
         /\ \A v \in M : v = u + h[u].size => h[v].prev = h[u].size
         /\ u # 0 => \E w \in M : w + h[w].size = u /\ w = u - h[u].prev /\ w < u /\ h[u].prev # 0
         /\ u = 0 => h[u].prev = 0
<1> USE UnitsAssumption
<1>1. \A v \in M : BlockIn(h, M, v)
  BY DEF Tiled
<1>2. \A v \in M : v \in 0 .. Units - 1 /\ h[v].size \in 1 .. Units
  BY <1>1 DEF BlockIn
<1>3. u + h[u].size = Units \/ (u + h[u].size \in M /\ h[u + h[u].size].prev = h[u].size)
  BY <1>1 DEF BlockIn
<1>4. Units \notin M
  BY <1>2
<1>5. ASSUME u # 0
      PROVE  \E w \in M : w + h[w].size = u /\ w = u - h[u].prev /\ w < u /\ h[u].prev # 0
  <2>1. BlockBefore(h, M, u)
    BY <1>5 DEF Tiled
  <2>2. PICK w \in M : w = u - h[u].prev /\ h[w].size = h[u].prev /\ h[u].prev \in 1 .. Units
    BY <2>1 DEF BlockBefore
  <2> QED BY <1>2, <2>2
<1>6. u + h[u].size \in 1 .. Units
  BY <1>2, <1>3
<1>7. u = 0 => h[u].prev = 0
  BY DEF Tiled
<1> QED BY <1>2, <1>3, <1>4, <1>5, <1>6, <1>7

(* Only the headers of the blocks matter.                                  *)
LEMMA SameTiles ==
  ASSUME NEW h, NEW M, Tiled(h, M), NEW g, \A v \in M : Same(h, g, v)
  PROVE  Tiled(g, M)
<1> USE UnitsAssumption
<1>1. ASSUME NEW u \in M PROVE BlockIn(g, M, u)
  BY BlockFacts DEF BlockIn, Same
<1>2. ASSUME NEW u \in M, u # 0 PROVE BlockBefore(g, M, u)
  <2>1. PICK w \in M : w + h[w].size = u /\ w = u - h[u].prev /\ w < u
    BY <1>2, BlockFacts
  <2>2. w \in 0 .. Units - 1 /\ h[w].size \in 1 .. Units /\ u \in 0 .. Units - 1 /\ h[u].prev = h[w].size
    BY <2>1, BlockFacts
  <2> QED BY <2>1, <2>2 DEF BlockBefore, Same
<1> QED BY <1>1, <1>2 DEF Tiled, Same

(* The block at u is cut at x.                                             *)
CutAt(h, M, u, x, g) ==
  /\ u \in M /\ x \in Int /\ u < x /\ x < u + h[u].size
  /\ g[u].size = x - u /\ g[u].prev = h[u].prev
  /\ g[x].size = u + h[u].size - x /\ g[x].prev = x - u
  /\ \A v \in M : v # u => /\ g[v].size = h[v].size
                           /\ g[v].prev = IF v = u + h[u].size THEN v - x ELSE h[v].prev

LEMMA CutTiles ==
  ASSUME NEW h, NEW M, NEW u, NEW x, NEW g, Tiled(h, M) /\ CutAt(h, M, u, x, g)
  PROVE  Tiled(g, M \cup {x}) /\ x \notin M
<1> USE UnitsAssumption
<1>1. PICK end \in 1 .. Units : end = u + h[u].size
  BY BlockFacts DEF CutAt
<1>2. /\ u \in M /\ u \in 0 .. Units - 1 /\ x \in Int /\ u < x /\ x < end /\ h[u].size = end - u
      /\ g[u].size = x - u /\ g[u].prev = h[u].prev /\ g[x].size = end - x /\ g[x].prev = x - u
      /\ \A v \in M : v # u => g[v].size = h[v].size /\ g[v].prev = IF v = end THEN v - x ELSE h[v].prev
      /\ end # Units => end \in M
  BY <1>1, BlockFacts DEF CutAt
<1>3. \A v \in M : v \in 0 .. Units - 1 /\ (v <= u \/ v >= end)
  BY <1>1, <1>2, BlockFacts, BlocksApart
<1>4. x \notin M
  BY <1>2, <1>3
<1>5. ASSUME NEW v \in M \cup {x} PROVE BlockIn(g, M \cup {x}, v)
  <2>1. CASE v = u
    BY <1>2, <2>1 DEF BlockIn
  <2>2. CASE v = x
    BY <1>2, <1>4, <2>2 DEF BlockIn
  <2>3. CASE v # u /\ v # x
    <3>1. v \in M /\ v + h[v].size # x /\ v + h[v].size # end
      <4>1. v < u => v + h[v].size <= u
        BY <2>3, <1>2, BlocksApart
      <4> QED BY <1>2, <1>3, <2>3, <4>1, BlockFacts
    <3>2. /\ h[v].size \in 1 .. Units /\ v + h[v].size \in 1 .. Units
          /\ v + h[v].size # Units => v + h[v].size \in M /\ h[v + h[v].size].prev = h[v].size
      BY <3>1, BlockFacts
    <3>3. g[v].size = h[v].size
      BY <1>2, <2>3, <3>1
    <3>4. v + h[v].size # Units => g[v + h[v].size].prev = h[v].size
      BY <1>2, <3>1, <3>2
    <3> QED BY <1>3, <2>3, <3>2, <3>3, <3>4 DEF BlockIn
  <2> QED BY <2>1, <2>2, <2>3
<1>6. ASSUME NEW v \in M \cup {x}, v # 0 PROVE BlockBefore(g, M \cup {x}, v)
  <2>1. CASE v = x
    BY <1>2, <2>1 DEF BlockBefore
  <2>2. CASE v = end
    BY <1>2, <1>4, <1>6, <2>2 DEF BlockBefore
  <2>3. CASE v # x /\ v # end
    <3>1. PICK w \in M : w + h[w].size = v /\ w = v - h[v].prev /\ w < v
      BY <1>6, <2>3, BlockFacts
    <3>2. w \in 0 .. Units - 1 /\ h[w].size \in 1 .. Units /\ v \in 0 .. Units - 1 /\ w # u /\ h[v].prev = h[w].size
      BY <1>1, <1>6, <2>3, <3>1, BlockFacts
    <3>3. g[w].size = h[w].size /\ g[v].prev = h[v].prev
      BY <1>2, <2>3, <1>6, <3>2
    <3> QED BY <3>1, <3>2, <3>3 DEF BlockBefore
  <2> QED BY <2>1, <2>2, <2>3
<1>7. 0 \in M \cup {x} /\ g[0].prev = 0
  <2>1. 0 \in M /\ h[0].prev = 0
    BY DEF Tiled
  <2>2. end # 0
    BY <1>1
  <2> QED BY <1>2, <2>1, <2>2
<1> QED BY <1>4, <1>5, <1>6, <1>7 DEF Tiled

(* The blocks from a to b become one.                                      *)
JoinedTo(h, M, a, b, g) ==
  /\ a \in M /\ b \in Int /\ a < b /\ (b = Units \/ b \in M)
  /\ g[a].size = b - a /\ g[a].prev = h[a].prev
  /\ \A v \in M : v < a \/ v >= b => /\ g[v].size = h[v].size
                                     /\ g[v].prev = IF v = b THEN b - a ELSE h[v].prev

LEMMA JoinTiles ==
  ASSUME NEW h, NEW M, NEW a, NEW b, NEW g, Tiled(h, M) /\ JoinedTo(h, M, a, b, g)
  PROVE  Tiled(g, {v \in M : v <= a \/ v >= b})
<1> USE UnitsAssumption
<1>1. PICK new : new = {v \in M : v <= a \/ v >= b}
  OBVIOUS
<1>2. /\ a \in M /\ a \in 0 .. Units - 1 /\ b \in 1 .. Units /\ a < b /\ (b = Units \/ b \in M)
      /\ g[a].size = b - a /\ g[a].prev = h[a].prev
      /\ \A v \in M : v < a \/ v >= b => g[v].size = h[v].size /\ g[v].prev = IF v = b THEN b - a ELSE h[v].prev
  BY BlockFacts DEF JoinedTo
<1>3. \A v \in M : v \in 0 .. Units - 1
  BY BlockFacts
<1>4. ASSUME NEW v \in new PROVE BlockIn(g, new, v)
  <2>1. CASE v = a
    BY <1>1, <1>2, <2>1 DEF BlockIn
  <2>2. CASE v # a
    <3>1. v \in M /\ v \in 0 .. Units - 1 /\ (v < a \/ v >= b)
      BY <1>1, <1>2, <1>3, <2>2
    <3>2. /\ h[v].size \in 1 .. Units /\ v + h[v].size \in 1 .. Units
          /\ v + h[v].size # Units => v + h[v].size \in M /\ h[v + h[v].size].prev = h[v].size
      BY <3>1, BlockFacts
    <3>3. v < a => v + h[v].size <= a
      BY <1>2, <3>1, BlocksApart
    <3>4. v + h[v].size <= a \/ v + h[v].size > b
      BY <1>2, <3>1, <3>2, <3>3
    <3>5. v + h[v].size # Units => g[v + h[v].size].prev = h[v].size
      <4> SUFFICES ASSUME v + h[v].size # Units PROVE g[v + h[v].size].prev = h[v].size
        OBVIOUS
      <4>1. PICK w \in M : w = v + h[v].size /\ h[w].prev = h[v].size
        BY <3>2
      <4>2. w = a \/ w < a \/ w > b
        BY <1>2, <1>3, <3>4, <4>1
      <4> QED BY <1>2, <1>3, <4>1, <4>2
    <3>6. g[v].size = h[v].size
      BY <1>2, <3>1
    <3>7. v + h[v].size # Units => v + h[v].size \in new
      BY <1>1, <1>2, <3>2, <3>4
    <3> QED BY <3>1, <3>2, <3>5, <3>6, <3>7 DEF BlockIn
  <2> QED BY <2>1, <2>2
<1>5. ASSUME NEW v \in new, v # 0 PROVE BlockBefore(g, new, v)
  <2>1. v \in M /\ v \in 0 .. Units - 1 /\ (v <= a \/ v >= b)
    BY <1>1, <1>3
  <2>2. CASE v = b
    BY <1>1, <1>2, <2>1, <2>2 DEF BlockBefore
  <2>3. CASE v # b
    <3>1. PICK w \in M : w + h[w].size = v /\ w = v - h[v].prev /\ w < v
      BY <1>5, <2>1, BlockFacts
    <3>2. w \in 0 .. Units - 1 /\ h[w].size \in 1 .. Units /\ h[v].prev = h[w].size
      BY <1>5, <2>1, <3>1, BlockFacts
    <3>3. w < a \/ w >= b
      <4>1. CASE v <= a
        BY <1>2, <2>1, <3>1, <3>2, <4>1
      <4>2. CASE v > b
        <5>1. b \in M
          BY <1>2, <2>1, <4>2
        <5>2. w < b => w + h[w].size <= b
          BY <5>1, BlocksApart
        <5> QED BY <1>2, <2>1, <3>1, <3>2, <4>2, <5>2
      <4> QED BY <1>2, <2>1, <2>3, <4>1, <4>2
    <3>4. g[w].size = h[w].size /\ w \in new
      BY <1>1, <1>2, <3>2, <3>3
    <3>5. g[v].prev = h[v].prev
      BY <1>2, <2>1, <2>3
    <3> QED BY <3>1, <3>2, <3>4, <3>5 DEF BlockBefore
  <2> QED BY <2>2, <2>3
<1>6. 0 \in new /\ g[0].prev = 0
  <2>1. 0 \in M /\ h[0].prev = 0
    BY DEF Tiled
  <2> QED BY <1>1, <1>2, <2>1
<1> QED BY <1>1, <1>4, <1>5, <1>6 DEF Tiled

-----------------------------------------------------------------------------
(* What TakeBlock and FreePool do to a page.                               *)

BlockHeaders == [size : 0 .. Units, prev : 0 .. Units - 1, used : BOOLEAN]
Headers == [0 .. Units - 1 -> BlockHeaders]

(* No two free blocks touch.                                               *)
Coalesced(h, M) ==
  \A u \in M : ~h[u].used => u + h[u].size \notin M \/ h[u + h[u].size].used

(* What a cut does to the headers, from either end.                        *)
Cut(h, u, k) ==
  Informed([[h EXCEPT ![u].size = k] EXCEPT ![u + k] = Header(h[u].size - k, k, FALSE)], u + k)

LEMMA SplitIsCut ==
  ASSUME NEW h \in Headers, NEW u \in 0 .. Units - 1, NEW n \in Int
  PROVE  Split(h, u, n) = Cut(h, u, IF h[u].prev = 0 THEN n ELSE h[u].size - n)
<1>1. PICK size \in Int : size = h[u].size
  BY DEF Headers, BlockHeaders
<1>2. size - (size - n) = n
  BY <1>1
<1> QED BY <1>1, <1>2 DEF Split, SplitFront, SplitBack, Cut

(* Only the back size changes when a block is told about the one before.   *)
Told(h, g, v, n) ==
  /\ h \in Headers /\ v \in Int /\ v >= 0 /\ n \in 0 .. Units - 1
  /\ g = IF v < Units THEN [h EXCEPT ![v].prev = n] ELSE h

LEMMA ToldIs ==
  ASSUME NEW h, NEW g, NEW v, NEW n,
         Told(h, g, v, n)
  PROVE  /\ g \in Headers
         /\ \A w \in 0 .. Units - 1 :
              /\ g[w].size = h[w].size /\ g[w].used = h[w].used
              /\ g[w].prev = IF w = v THEN n ELSE h[w].prev
<1> USE UnitsAssumption DEF Told
<1>1. CASE v < Units
  <2>1. PICK e : e = [h[v] EXCEPT !.prev = n]
    OBVIOUS
  <2>2. h[v] \in BlockHeaders /\ v \in 0 .. Units - 1
    BY <1>1 DEF Headers
  <2>3. e \in BlockHeaders /\ e.size = h[v].size /\ e.prev = n /\ e.used = h[v].used
    BY <2>1, <2>2 DEF BlockHeaders
  <2>4. g = [h EXCEPT ![v] = e]
    BY <1>1, <2>1
  <2> QED BY <2>2, <2>3, <2>4 DEF Headers
<1>2. CASE ~(v < Units)
  BY <1>2
<1> QED BY <1>1, <1>2

(* Only the size changes.                                                  *)
ResizedTo(h, g, v, n) ==
  h \in Headers /\ v \in 0 .. Units - 1 /\ n \in 0 .. Units /\ g = [h EXCEPT ![v].size = n]

LEMMA ResizedIs ==
  ASSUME NEW h, NEW g, NEW v, NEW n, ResizedTo(h, g, v, n)
  PROVE  /\ g \in Headers /\ g[v].size = n
         /\ \A w \in 0 .. Units - 1 : g[w].prev = h[w].prev /\ g[w].used = h[w].used
         /\ \A w \in 0 .. Units - 1 : w # v => g[w].size = h[w].size
<1> USE UnitsAssumption DEF ResizedTo
<1>1. PICK e : e = [h[v] EXCEPT !.size = n]
  OBVIOUS
<1>2. h[v] \in BlockHeaders
  BY DEF Headers
<1>3. e \in BlockHeaders /\ e.size = n /\ e.prev = h[v].prev /\ e.used = h[v].used
  BY <1>1, <1>2 DEF BlockHeaders
<1>4. g = [h EXCEPT ![v] = e]
  BY <1>1
<1> QED BY <1>3, <1>4 DEF Headers

CutBy(h, M, u, k, x, g) ==
  /\ Tiled(h, M) /\ h \in Headers /\ u \in M /\ k \in 1 .. h[u].size - 1 /\ x = u + k
  /\ g = Cut(h, u, k)

LEMMA CutCuts ==
  ASSUME NEW h, NEW M, NEW u, NEW k, NEW x, NEW g,
         CutBy(h, M, u, k, x, g)
  PROVE  /\ CutAt(h, M, u, x, g) /\ g \in Headers
         /\ ~g[x].used /\ \A v \in M : g[v].used = h[v].used
<1> USE UnitsAssumption DEF CutBy
<1>1. PICK end \in 1 .. Units : end = u + h[u].size
  BY BlockFacts
<1>2. /\ u \in 0 .. Units - 1 /\ x \in 0 .. Units - 1 /\ u < x /\ x < end /\ h[u].size = end - u
      /\ k \in Int /\ end - x \in 0 .. Units - 1 /\ x - u \in 0 .. Units - 1 /\ k = x - u
      /\ end - u - k = end - x
  BY <1>1, BlockFacts
<1>3. \A v \in M : v \in 0 .. Units - 1 /\ v # x
  <2> SUFFICES ASSUME NEW v \in M PROVE v \in 0 .. Units - 1 /\ v # x
    OBVIOUS
  <2>1. v \in 0 .. Units - 1
    BY BlockFacts
  <2>2. v > u => v >= end
    BY <1>1, BlocksApart
  <2> QED BY <1>2, <2>1, <2>2
<1>4. PICK g1 : g1 = [[h EXCEPT ![u].size = k] EXCEPT ![x] = Header(end - x, k, FALSE)]
  OBVIOUS
<1>5. g = IF end < Units THEN [g1 EXCEPT ![end].prev = end - x] ELSE g1
  <2>1. g = Informed(g1, x)
    BY <1>2, <1>4 DEF Cut
  <2>2. g1[x].size = end - x
    BY <1>2, <1>4 DEF Headers, Header
  <2>3. x + g1[x].size = end
    BY <1>2, <2>2
  <2> QED BY <2>1, <2>2, <2>3 DEF Informed
<1>6. /\ g1 \in Headers
      /\ g1[u].size = k /\ g1[u].prev = h[u].prev /\ g1[u].used = h[u].used
      /\ g1[x].size = end - x /\ g1[x].prev = k /\ g1[x].used = FALSE
      /\ \A v \in 0 .. Units - 1 : v # u /\ v # x => g1[v] = h[v]
  <2>1. PICK hu : hu = [h[u] EXCEPT !.size = k]
    OBVIOUS
  <2>2. h[u] \in BlockHeaders /\ k \in 0 .. Units
    BY <1>2 DEF Headers
  <2>3. hu \in BlockHeaders /\ hu.size = k /\ hu.prev = h[u].prev /\ hu.used = h[u].used
    BY <2>1, <2>2 DEF BlockHeaders
  <2>4. PICK hx : hx = Header(end - x, k, FALSE)
    OBVIOUS
  <2>5. hx \in BlockHeaders /\ hx.size = end - x /\ hx.prev = k /\ hx.used = FALSE
    BY <1>2, <2>4 DEF BlockHeaders, Header
  <2>6. g1 = [[h EXCEPT ![u] = hu] EXCEPT ![x] = hx]
    BY <1>4, <2>1, <2>4
  <2> QED BY <1>2, <2>3, <2>5, <2>6 DEF Headers
<1>7. /\ g \in Headers
      /\ \A v \in 0 .. Units - 1 :
           /\ g[v].size = g1[v].size /\ g[v].used = g1[v].used
           /\ g[v].prev = IF v = end THEN end - x ELSE g1[v].prev
  <2>1. PICK n : n = end - x
    OBVIOUS
  <2>2. Told(g1, g, end, n)
    <3>1. g = IF end < Units THEN [g1 EXCEPT ![end].prev = n] ELSE g1
      BY <1>5, <2>1, Zenon
    <3>2. g1 \in Headers /\ n \in 0 .. Units - 1
      BY <1>2, <1>6, <2>1, Zenon
    <3>3. end \in Int /\ end >= 0
      OBVIOUS
    <3> QED BY <3>1, <3>2, <3>3, Zenon DEF Told
  <2> QED BY <2>1, <2>2, ToldIs
<1>9. CutAt(h, M, u, x, g)
  <2>1. ASSUME NEW v \in M, v # u
        PROVE  g[v].size = h[v].size /\ g[v].prev = IF v = end THEN v - x ELSE h[v].prev
    BY <1>3, <1>6, <1>7, <2>1
  <2>2. /\ g[u].size = x - u /\ g[u].prev = h[u].prev
        /\ g[x].size = end - x /\ g[x].prev = x - u
    BY <1>2, <1>6, <1>7
  <2> QED BY <1>1, <1>2, <2>1, <2>2 DEF CutAt
<1>10. ~g[x].used /\ \A v \in M : g[v].used = h[v].used
  BY <1>2, <1>3, <1>6, <1>7
<1> QED BY <1>7, <1>9, <1>10

(* Who gets a block writes between the headers only.                       *)
GivenTo(h, M, u, g) == Tiled(h, M) /\ h \in Headers /\ u \in M /\ g = Given(h, u)

LEMMA GivenKeeps ==
  ASSUME NEW h, NEW M, NEW u, NEW g,
         GivenTo(h, M, u, g)
  PROVE  /\ Tiled(g, M) /\ g \in Headers /\ g[u].used
         /\ \A v \in M : Same(h, g, v) /\ (v # u => g[v].used = h[v].used)
<1> USE UnitsAssumption DEF GivenTo
<1>1. \A v \in M : v \in 0 .. Units - 1 /\ ~(u < v /\ v < u + h[u].size)
  <2> SUFFICES ASSUME NEW v \in M PROVE v \in 0 .. Units - 1 /\ ~(u < v /\ v < u + h[u].size)
    OBVIOUS
  <2>1. v \in 0 .. Units - 1 /\ u + h[u].size \in Int
    BY BlockFacts
  <2>2. v > u => v >= u + h[u].size
    BY BlocksApart
  <2> QED BY <2>1, <2>2
<1>a. PICK e : e = [h[u] EXCEPT !.used = TRUE]
  OBVIOUS
<1>b. h[u] \in BlockHeaders
  BY <1>1 DEF Headers
<1>c. e \in BlockHeaders /\ e.size = h[u].size /\ e.prev = h[u].prev /\ e.used = TRUE
  BY <1>a, <1>b DEF BlockHeaders
<1>d. NoHeader \in BlockHeaders
  BY DEF BlockHeaders, NoHeader
<1>e. g = [v \in 0 .. Units - 1 |-> IF v = u THEN e
                                    ELSE IF u < v /\ v < u + h[u].size THEN NoHeader ELSE h[v]]
  BY <1>a DEF Given
<1>2. g \in Headers
  BY <1>c, <1>d, <1>e DEF Headers
<1>3. \A v \in M : Same(h, g, v) /\ (v # u => g[v].used = h[v].used)
  BY <1>1, <1>c, <1>e DEF Same
<1>4. g[u].used
  BY <1>1, <1>c, <1>e
<1> QED BY <1>2, <1>3, <1>4, SameTiles

(* A block in use and what is left of the free block it was cut from.      *)
Taken(h, M, u, n, g, new, mine, left) ==
  /\ Tiled(g, new) /\ g \in Headers /\ Coalesced(g, new)
  /\ new = M \cup {mine, left} /\ mine # left
  /\ \E x : x \notin M /\ {mine, left} = {u, x}
  /\ g[mine].used /\ g[mine].size = n /\ ~g[left].used /\ g[left].size = h[u].size - n
  /\ \A v \in M : v # u => g[v].size = h[v].size /\ g[v].used = h[v].used

TakenBy(h, M, u, n, mine, left, cut, g) ==
  /\ Tiled(h, M) /\ h \in Headers /\ Coalesced(h, M)
  /\ u \in M /\ ~h[u].used /\ n \in 1 .. h[u].size - 1
  /\ mine = IF h[u].prev = 0 THEN u ELSE u + (h[u].size - n)
  /\ left = IF h[u].prev = 0 THEN u + n ELSE u
  /\ cut = Split(h, u, n) /\ g = Given(cut, mine)

LEMMA TakePage ==
  ASSUME NEW h, NEW M, NEW u, NEW n, NEW mine, NEW left, NEW cut, NEW g,
         TakenBy(h, M, u, n, mine, left, cut, g)
  PROVE  Taken(h, M, u, n, g, M \cup {mine, left}, mine, left) /\ PageVerified(cut, mine)
<1> USE UnitsAssumption DEF TakenBy
<1>1. PICK size \in 1 .. Units : size = h[u].size /\ u \in 0 .. Units - 1 /\ u + size \in 1 .. Units /\ n \in Int
  BY BlockFacts
<1>2. PICK k \in 1 .. size - 1 : k = IF h[u].prev = 0 THEN n ELSE size - n
  BY <1>1
<1>3. PICK x : x = u + k
  OBVIOUS
<1>4. cut = Cut(h, u, k) /\ k \in 1 .. h[u].size - 1
  BY <1>1, <1>2, SplitIsCut
<1>5. /\ CutAt(h, M, u, x, cut) /\ cut \in Headers
      /\ ~cut[x].used /\ \A v \in M : cut[v].used = h[v].used
  <2>1. CutBy(h, M, u, k, x, cut)
    BY <1>3, <1>4 DEF CutBy
  <2> QED BY <2>1, CutCuts
<1>6. Tiled(cut, M \cup {x}) /\ x \notin M
  BY <1>5, CutTiles
<1>7. /\ mine \in {u, x} /\ left \in {u, x} /\ mine # left
      /\ mine = u => n = k /\ left = x
      /\ left = u => size - n = k /\ mine = x
  BY <1>1, <1>2, <1>3, <1>6
<1>8. PICK new : new = M \cup {x}
  OBVIOUS
<1>9. new = M \cup {mine, left} /\ {mine, left} = {u, x} /\ mine \in new /\ left \in new
  BY <1>7, <1>8
<1>10. /\ Tiled(g, new) /\ g \in Headers /\ g[mine].used
       /\ \A v \in new : Same(cut, g, v) /\ (v # mine => g[v].used = cut[v].used)
  <2>1. GivenTo(cut, new, mine, g)
    BY <1>5, <1>6, <1>8, <1>9 DEF GivenTo
  <2> QED BY <2>1, GivenKeeps
<1>11. PageVerified(cut, mine)
  BY <1>6, <1>8, <1>9, TiledVerified
<1>12. ~g[left].used /\ g[left].size = size - n /\ g[left].size \in Int
  <2>1. ~cut[left].used
    BY <1>5, <1>7
  <2>2. cut[u].size = x - u /\ cut[x].size = u + size - x
    BY <1>1, <1>5 DEF CutAt
  <2>3. cut[left].size = size - n
    BY <1>1, <1>2, <1>3, <1>7, <2>2
  <2> QED BY <1>1, <1>7, <1>9, <1>10, <2>1, <2>3 DEF Same
<1>15. g[mine].size = n
  <2>1. cut[u].size = x - u /\ cut[x].size = u + size - x
    BY <1>1, <1>5 DEF CutAt
  <2>2. cut[mine].size = n
    BY <1>1, <1>2, <1>3, <1>7, <2>1
  <2> QED BY <1>9, <1>10, <2>2 DEF Same
<1>13. \A v \in M : v # u => g[v].size = h[v].size /\ g[v].used = h[v].used
  BY <1>5, <1>6, <1>7, <1>8, <1>10 DEF CutAt, Same
<1>14. Coalesced(g, new)
  <2> SUFFICES ASSUME NEW v \in new, ~g[v].used, v + g[v].size \in new
               PROVE  g[v + g[v].size].used
    BY DEF Coalesced
  <2>1. CASE v = u
    <3>1. left = u /\ mine = x /\ g[u].size = x - u
      BY <1>5, <1>7, <1>8, <1>10, <2>1 DEF CutAt, Same
    <3>2. u + g[u].size = x
      BY <1>1, <1>2, <1>3, <3>1
    <3> QED BY <1>10, <2>1, <3>1, <3>2
  <2>2. CASE v = x
    <3>1. left = x /\ mine = u /\ g[x].size = u + size - x
      BY <1>1, <1>5, <1>7, <1>8, <1>10, <2>2 DEF CutAt, Same
    <3>2. v + g[v].size = u + size
      BY <1>1, <1>2, <1>3, <2>2, <3>1
    <3>3. u + size # x /\ u + size # u
      BY <1>1, <1>2, <1>3
    <3>4. u + size \in M
      BY <1>8, <3>2, <3>3
    <3>5. h[u + size].used
      BY <1>1, <3>4 DEF Coalesced
    <3> QED BY <1>13, <3>2, <3>3, <3>4, <3>5
  <2>3. CASE v # u /\ v # x
    <3>1. v \in M /\ g[v].size = h[v].size /\ ~h[v].used
      BY <1>8, <1>13, <2>3
    <3>2. v + h[v].size # u
      <4> SUFFICES ASSUME v + h[v].size = u PROVE FALSE
        OBVIOUS
      <4>1. v + h[v].size \in M
        OBVIOUS
      <4> QED BY <3>1, <4>1 DEF Coalesced
    <3>3. v + h[v].size # x
      <4> SUFFICES ASSUME v + h[v].size = x PROVE FALSE
        OBVIOUS
      <4>1. v + h[v].size # Units
        BY <1>1, <1>2, <1>3
      <4> QED BY <1>6, <3>1, <4>1, BlockFacts
    <3>4. v + h[v].size \in M
      BY <1>8, <3>1, <3>3
    <3> QED BY <1>13, <3>1, <3>2, <3>4 DEF Coalesced
  <2> QED BY <2>1, <2>2, <2>3
<1> QED BY <1>1, <1>6, <1>7, <1>8, <1>9, <1>10, <1>11, <1>12, <1>13, <1>14, <1>15 DEF Taken

(* What FreePool makes of a page, and what is meant to come out.           *)
FreedBy(h, M, u, merged, first, end, g) ==
  /\ Tiled(h, M) /\ h \in Headers /\ Coalesced(h, M) /\ u \in M /\ h[u].used
  /\ merged = Merged(h, u)
  /\ first = IF FreeBefore(h, u) = {} THEN u ELSE u - h[u].prev
  /\ end = first + merged[first].size
  /\ g = IF WholePage(merged, first) THEN merged
         ELSE Informed([merged EXCEPT ![first].used = FALSE], first)
Outer(M, first, end) == {v \in M : v <= first \/ v >= end}
Freed(h, M, u, merged, first, end, g) ==
  /\ Tiled(g, Outer(M, first, end)) /\ g \in Headers /\ Coalesced(g, Outer(M, first, end))
  /\ first \in M /\ first <= u /\ u < end /\ end \in 1 .. Units /\ (end = Units \/ end \in M)
  /\ \A v \in M : first <= v /\ v < end <=> v = u \/ v \in FreeBefore(h, u) \/ v \in FreeAfter(h, u)
  /\ \A v \in M : v < first \/ v >= end => g[v].size = h[v].size /\ g[v].used = h[v].used
  /\ g[first].size = end - first /\ merged[first].size = end - first
  /\ WholePage(merged, first) <=> first = 0 /\ end = Units
  /\ ~WholePage(merged, first) => ~g[first].used /\ \E v \in Outer(M, first, end) : g[v].used

(* A block's free neighbours, of which there is at most one on each side.  *)
LEMMA Neighbours ==
  ASSUME NEW h, NEW M, Tiled(h, M), NEW u \in M
  PROVE  /\ FreeAfter(h, u) = {} \/
              (FreeAfter(h, u) = {u + h[u].size} /\ u + h[u].size \in M /\ ~h[u + h[u].size].used)
         /\ FreeAfter(h, u) = {} /\ u + h[u].size \in M => h[u + h[u].size].used
         /\ FreeBefore(h, u) = {} \/
              (\E w \in M : FreeBefore(h, u) = {w} /\ w = u - h[u].prev /\ w + h[w].size = u /\ w < u /\ ~h[w].used)
         /\ \A w \in M : FreeBefore(h, u) = {} /\ w + h[w].size = u => h[w].used
<1> USE UnitsAssumption
<1>1. /\ u \in 0 .. Units - 1 /\ h[u].size \in 1 .. Units /\ u + h[u].size \in 1 .. Units
      /\ u + h[u].size # Units => u + h[u].size \in M
      /\ u # 0 => \E w \in M : w + h[w].size = u /\ w = u - h[u].prev /\ w < u /\ h[u].prev # 0
      /\ u = 0 => h[u].prev = 0
  BY BlockFacts
<1>2. \A w \in M : w \in 0 .. Units - 1 /\ h[w].size \in 1 .. Units
  BY BlockFacts
<1>3. u + h[u].size \in M => u + h[u].size < Units
  BY <1>1, <1>2
<1>4. FreeAfter(h, u) = {} \/
              (FreeAfter(h, u) = {u + h[u].size} /\ u + h[u].size \in M /\ ~h[u + h[u].size].used)
  BY <1>1 DEF FreeAfter
<1>5. FreeAfter(h, u) = {} /\ u + h[u].size \in M => h[u + h[u].size].used
  BY <1>3 DEF FreeAfter
<1>6. FreeBefore(h, u) = {} \/
              (\E w \in M : FreeBefore(h, u) = {w} /\ w = u - h[u].prev /\ w + h[w].size = u /\ w < u /\ ~h[w].used)
  BY <1>1 DEF FreeBefore
<1>7. ASSUME NEW w \in M, FreeBefore(h, u) = {}, w + h[w].size = u PROVE h[w].used
  <2>1. u # 0 /\ w < u
    BY <1>2, <1>7
  <2>2. PICK x \in M : x + h[x].size = u /\ x = u - h[u].prev /\ x < u /\ h[u].prev # 0
    BY <1>1, <2>1
  <2>3. h[x].used
    BY <1>7, <2>2 DEF FreeBefore
  <2>4. w = x
    <3>1. w < x => w + h[w].size <= x
      BY BlocksApart
    <3>2. x < w => x + h[x].size <= w
      BY BlocksApart
    <3> QED BY <1>2, <1>7, <2>1, <2>2, <3>1, <3>2
  <2> QED BY <2>3, <2>4
<1> QED BY <1>4, <1>5, <1>6, <1>7

(* The sizes and back sizes of a merged page.                              *)
MergedBy(h, M, u, first, end, merged) ==
  /\ Tiled(h, M) /\ h \in Headers /\ u \in M /\ merged = Merged(h, u)
  /\ first = IF FreeBefore(h, u) = {} THEN u ELSE u - h[u].prev
  /\ end = IF FreeAfter(h, u) = {} THEN u + h[u].size
           ELSE (u + h[u].size) + h[u + h[u].size].size

LEMMA MergedIs ==
  ASSUME NEW h, NEW M, NEW u, NEW first, NEW end, NEW merged,
         MergedBy(h, M, u, first, end, merged)
  PROVE  /\ first \in M /\ end \in 1 .. Units /\ first <= u /\ u < end /\ (end = Units \/ end \in M)
         /\ merged \in Headers /\ merged[first].size = end - first
         /\ \A v \in 0 .. Units - 1 : merged[v].prev = h[v].prev /\ merged[v].used = h[v].used
         /\ \A v \in 0 .. Units - 1 : v < first \/ v >= end => merged[v].size = h[v].size
<1> USE UnitsAssumption DEF MergedBy
<1>1. /\ u \in 0 .. Units - 1 /\ h[u].size \in 1 .. Units /\ u + h[u].size \in 1 .. Units
      /\ u + h[u].size = Units \/ u + h[u].size \in M
  BY BlockFacts
<1>2. PICK next \in 1 .. Units : next = u + h[u].size /\ u < next /\ h[u].size = next - u
  BY <1>1
<1>3. PICK more \in Int : more = IF FreeAfter(h, u) = {} THEN 0 ELSE h[next].size
  <2>1. FreeAfter(h, u) # {} => next \in M
    BY <1>2, Neighbours
  <2>2. FreeAfter(h, u) # {} => h[next].size \in 1 .. Units
    BY <2>1, BlockFacts
  <2> QED BY <2>2
<1>4. end \in 1 .. Units /\ next <= end /\ (end = Units \/ end \in M) /\ end = next + more
  <2>1. CASE FreeAfter(h, u) = {}
    BY <1>1, <1>2, <1>3, <2>1
  <2>2. CASE FreeAfter(h, u) # {}
    <3>1. next \in M
      BY <1>2, <2>2, Neighbours
    <3>2. next + h[next].size \in 1 .. Units /\ h[next].size \in 1 .. Units
          /\ (next + h[next].size = Units \/ next + h[next].size \in M)
      BY <3>1, BlockFacts
    <3>3. end = next + h[next].size /\ more = h[next].size
      BY <1>2, <1>3, <2>2
    <3> QED BY <3>2, <3>3
  <2> QED BY <2>1, <2>2
<1>5. /\ first \in M /\ first \in 0 .. Units - 1 /\ first <= u
      /\ FreeBefore(h, u) # {} => first = u - h[u].prev /\ first < u /\ h[first].size = u - first
      /\ FreeBefore(h, u) = {} => first = u
  <2>1. CASE FreeBefore(h, u) = {}
    BY <1>1, <2>1
  <2>2. CASE FreeBefore(h, u) # {}
    <3>1. PICK w \in M : w = u - h[u].prev /\ w + h[w].size = u /\ w < u
      BY <2>2, Neighbours
    <3>2. w \in 0 .. Units - 1 /\ h[w].size \in 1 .. Units
      BY BlockFacts
    <3> QED BY <1>1, <2>2, <3>1, <3>2
  <2> QED BY <2>1, <2>2
<1>6. PICK size \in 0 .. Units : size = h[u].size + more /\ size = end - u /\ (end - first) \in 0 .. Units
  BY <1>1, <1>2, <1>4, <1>5
<1>7. PICK h1 : h1 = [h EXCEPT ![u].size = size]
  OBVIOUS
<1>8. merged = IF FreeBefore(h, u) = {} THEN h1 ELSE [h1 EXCEPT ![u - h[u].prev].size = @ + size]
  BY <1>2, <1>3, <1>6, <1>7, Zenon DEF Merged
<1>9. /\ h1 \in Headers /\ h1[u].size = size
      /\ \A v \in 0 .. Units - 1 : h1[v].prev = h[v].prev /\ h1[v].used = h[v].used
      /\ \A v \in 0 .. Units - 1 : v # u => h1[v].size = h[v].size
  <2>1. ResizedTo(h, h1, u, size)
    BY <1>1, <1>6, <1>7 DEF ResizedTo
  <2> QED BY <2>1, ResizedIs
<1>10. CASE FreeBefore(h, u) = {}
  <2>1. merged = h1 /\ first = u
    BY <1>5, <1>8, <1>10
  <2>2. first <= u /\ u < end /\ merged[first].size = end - first
    BY <1>1, <1>2, <1>4, <1>6, <1>9, <2>1
  <2>3. /\ merged \in Headers
        /\ \A v \in 0 .. Units - 1 : merged[v].prev = h[v].prev /\ merged[v].used = h[v].used
    BY <1>9, <2>1
  <2>4. ASSUME NEW v \in 0 .. Units - 1, v < first \/ v >= end PROVE merged[v].size = h[v].size
    <3>1. v # u
      BY <2>1, <2>2, <2>4
    <3> QED BY <1>9, <2>1, <3>1
  <2> QED BY <1>4, <1>5, <2>2, <2>3, <2>4
<1>11. CASE FreeBefore(h, u) # {}
  <2>1. first = u - h[u].prev /\ first < u /\ h[first].size = u - first
    BY <1>5, <1>11
  <2>2. merged = [h1 EXCEPT ![first].size = @ + size]
    BY <1>8, <1>11, <2>1
  <2>3. h1[first].size + size = end - first /\ h1[first].size = u - first
    BY <1>1, <1>4, <1>5, <1>6, <1>9, <2>1
  <2>4. PICK total : total = end - first
    OBVIOUS
  <2>5. merged = [h1 EXCEPT ![first].size = total]
    BY <2>2, <2>3, <2>4
  <2>6. ResizedTo(h1, merged, first, total)
    BY <1>5, <1>6, <1>9, <2>4, <2>5 DEF ResizedTo
  <2>7. /\ merged \in Headers /\ merged[first].size = total
        /\ \A v \in 0 .. Units - 1 : merged[v].prev = h1[v].prev /\ merged[v].used = h1[v].used
        /\ \A v \in 0 .. Units - 1 : v # first => merged[v].size = h1[v].size
    BY <2>6, ResizedIs
  <2>8. /\ first \in M /\ end \in 1 .. Units /\ first <= u /\ u < end /\ (end = Units \/ end \in M)
    BY <1>1, <1>2, <1>4, <1>5
  <2>9. \A v \in 0 .. Units - 1 : v < first \/ v >= end => v # first /\ v # u
    BY <1>5, <2>8, <1>1
  <2> QED BY <1>9, <2>4, <2>7, <2>8, <2>9
<1> QED BY <1>10, <1>11

LEMMA MergePage ==
  ASSUME NEW h, NEW M, NEW u, NEW merged, NEW first, NEW end, NEW g,
         FreedBy(h, M, u, merged, first, end, g)
  PROVE  Freed(h, M, u, merged, first, end, g)
<1> USE UnitsAssumption
<1>1. /\ Tiled(h, M) /\ h \in Headers /\ Coalesced(h, M) /\ u \in M /\ h[u].used
      /\ merged = Merged(h, u)
      /\ first = IF FreeBefore(h, u) = {} THEN u ELSE u - h[u].prev
      /\ end = first + merged[first].size
      /\ g = IF WholePage(merged, first) THEN merged
             ELSE Informed([merged EXCEPT ![first].used = FALSE], first)
  BY DEF FreedBy
<1>2. PICK e : e = IF FreeAfter(h, u) = {} THEN u + h[u].size
                   ELSE (u + h[u].size) + h[u + h[u].size].size
  OBVIOUS
<1>3. /\ first \in M /\ e \in 1 .. Units /\ first <= u /\ u < e /\ (e = Units \/ e \in M)
      /\ merged \in Headers /\ merged[first].size = e - first
      /\ \A v \in 0 .. Units - 1 : merged[v].prev = h[v].prev /\ merged[v].used = h[v].used
      /\ \A v \in 0 .. Units - 1 : v < first \/ v >= e => merged[v].size = h[v].size
  <2>1. MergedBy(h, M, u, first, e, merged)
    BY <1>1, <1>2 DEF MergedBy
  <2> QED BY <2>1, MergedIs
<1>4. \A v \in M : v \in 0 .. Units - 1 /\ h[v].size \in 1 .. Units /\ v + h[v].size \in 1 .. Units
  BY <1>1, BlockFacts
<1>5. end = e
  BY <1>1, <1>3, <1>4
<1>6. WholePage(merged, first) <=> first = 0 /\ end = Units
  BY <1>3, <1>4, <1>5 DEF WholePage
<1>7. \A v, w \in M : v < w => v + h[v].size <= w
  BY <1>1, BlocksApart
<1>8. \A v \in M : first <= v /\ v < end <=> v = u \/ v \in FreeBefore(h, u) \/ v \in FreeAfter(h, u)
  <2>1. PICK next \in 1 .. Units : next = u + h[u].size /\ u < next
    BY <1>1, <1>4
  <2>2. \A v \in M : first <= v /\ v < u <=> v \in FreeBefore(h, u)
    <3>1. CASE FreeBefore(h, u) = {}
      BY <1>1, <1>4, <3>1
    <3>2. CASE FreeBefore(h, u) # {}
      <4>1. PICK w \in M : FreeBefore(h, u) = {w} /\ w = u - h[u].prev /\ w + h[w].size = u /\ w < u
        BY <1>1, <3>2, Neighbours
      <4>2. first = w
        BY <1>1, <3>2, <4>1
      <4>3. \A v \in M : w < v => v >= u
        BY <1>4, <1>7, <4>1
      <4>4. w \in Int /\ u \in Int /\ \A v \in M : v \in Int
        BY <1>1, <1>4
      <4>5. \A v \in M : w <= v /\ v < u <=> v = w
        BY <4>1, <4>3, <4>4
      <4> QED BY <4>1, <4>2, <4>5
    <3> QED BY <3>1, <3>2
  <2>3. \A v \in M : u < v => v >= next
    BY <1>1, <1>4, <1>7, <2>1
  <2>4. \A v \in M : next <= v /\ v < end <=> v \in FreeAfter(h, u)
    <3>1. CASE FreeAfter(h, u) = {}
      BY <1>2, <1>4, <1>5, <2>1, <3>1
    <3>2. CASE FreeAfter(h, u) # {}
      <4>1. FreeAfter(h, u) = {next} /\ next \in M
        BY <1>1, <2>1, <3>2, Neighbours
      <4>2. end = next + h[next].size
        BY <1>2, <1>5, <2>1, <3>2
      <4>3. \A v \in M : next < v => v >= end
        BY <1>4, <1>7, <4>1, <4>2
      <4>4. next < end /\ end \in Int /\ \A v \in M : v \in Int
        BY <1>4, <4>1, <4>2
      <4>5. \A v \in M : next <= v /\ v < end <=> v = next
        BY <2>1, <4>3, <4>4
      <4> QED BY <4>1, <4>5
    <3> QED BY <3>1, <3>2
  <2>5. \A v \in M : first <= v /\ v < end <=> (first <= v /\ v < u) \/ v = u \/ (next <= v /\ v < end)
    <3>1. next <= end
      <4>1. e \in Int /\ next \in Int /\ e # next => e = next + h[next].size /\ next \in M
        BY <1>1, <1>2, <2>1, Neighbours
      <4> QED BY <1>3, <1>4, <1>5, <2>1, <4>1
    <3> QED BY <1>1, <1>3, <1>4, <1>5, <2>1, <2>3, <3>1
  <2> QED BY <2>2, <2>4, <2>5
<1>9. /\ g \in Headers /\ JoinedTo(h, M, first, end, g)
      /\ \A v \in M : v < first \/ v >= end => g[v].used = h[v].used
      /\ ~WholePage(merged, first) => ~g[first].used
  <2>1. CASE WholePage(merged, first)
    <3>1. g = merged /\ first = 0 /\ end = Units
      BY <1>1, <1>6, <2>1
    <3>2. \A v \in M : ~(v < first \/ v >= end)
      BY <1>4, <3>1
    <3> QED BY <1>3, <1>4, <1>5, <2>1, <3>1, <3>2 DEF JoinedTo
  <2>2. CASE ~WholePage(merged, first)
    <3>1. PICK m : m = [merged EXCEPT ![first].used = FALSE]
      OBVIOUS
    <3>2. first \in 0 .. Units - 1 /\ end \in 1 .. Units /\ first < end
      BY <1>1, <1>3, <1>4, <1>5
    <3>3. /\ m \in Headers /\ ~m[first].used
          /\ \A v \in 0 .. Units - 1 : m[v].size = merged[v].size /\ m[v].prev = merged[v].prev
          /\ \A v \in 0 .. Units - 1 : v # first => m[v].used = merged[v].used
      <4>1. PICK x : x = [merged[first] EXCEPT !.used = FALSE]
        OBVIOUS
      <4>2. merged[first] \in BlockHeaders
        BY <1>3, <3>2 DEF Headers
      <4>3. x \in BlockHeaders /\ x.size = merged[first].size /\ x.prev = merged[first].prev /\ x.used = FALSE
        BY <4>1, <4>2 DEF BlockHeaders
      <4>4. m = [merged EXCEPT ![first] = x]
        BY <3>1, <4>1
      <4> QED BY <1>3, <3>2, <4>3, <4>4 DEF Headers
    <3>4. PICK n : n = end - first
      OBVIOUS
    <3>5. n \in 0 .. Units - 1 /\ m[first].size = n /\ first + n = end
      BY <1>3, <1>5, <1>6, <2>2, <3>2, <3>3, <3>4
    <3>6. Told(m, g, end, n)
      <4>1. g = Informed(m, first)
        BY <1>1, <2>2, <3>1
      <4>2. g = IF end < Units THEN [m EXCEPT ![end].prev = n] ELSE m
        BY <3>5, <4>1 DEF Informed
      <4>3. end \in Int /\ end >= 0
        BY <3>2
      <4> QED BY <3>3, <3>5, <4>2, <4>3, Zenon DEF Told
    <3>7. /\ g \in Headers
          /\ \A w \in 0 .. Units - 1 :
               /\ g[w].size = m[w].size /\ g[w].used = m[w].used
               /\ g[w].prev = IF w = end THEN n ELSE m[w].prev
      BY <3>6, ToldIs
    <3>8. JoinedTo(h, M, first, end, g)
      <4>1. g[first].size = end - first /\ g[first].prev = h[first].prev
        BY <1>3, <3>2, <3>3, <3>4, <3>5, <3>7
      <4>2. ASSUME NEW v \in M, v < first \/ v >= end
            PROVE  g[v].size = h[v].size /\ g[v].prev = IF v = end THEN end - first ELSE h[v].prev
        BY <1>3, <1>4, <1>5, <3>3, <3>4, <3>7, <4>2
      <4>3. end \in Int /\ first < end /\ (end = Units \/ end \in M)
        BY <1>3, <1>5, <3>2
      <4> QED BY <1>3, <4>1, <4>2, <4>3 DEF JoinedTo
    <3>9. \A v \in M : v < first \/ v >= end => g[v].used = h[v].used
      BY <1>3, <1>4, <3>2, <3>3, <3>7
    <3> QED BY <3>2, <3>3, <3>7, <3>8, <3>9
  <2> QED BY <2>1, <2>2
<1>10. Tiled(g, Outer(M, first, end))
  <2>1. Tiled(h, M) /\ JoinedTo(h, M, first, end, g)
    BY <1>1, <1>9
  <2>2. Tiled(g, {v \in M : v <= first \/ v >= end})
    BY <2>1, JoinTiles
  <2> QED BY <2>2 DEF Outer
<1>11. /\ \A v \in M : v < first \/ v >= end => g[v].size = h[v].size /\ g[v].used = h[v].used
       /\ g[first].size = end - first
  BY <1>9 DEF JoinedTo
<1>12. PICK new : new = Outer(M, first, end) /\ first \in new /\ \A v \in new : v \in M /\ (v <= first \/ v >= end)
  <2>1. first \in M /\ first <= first
    BY <1>3, <1>4
  <2>2. PICK new : new = Outer(M, first, end)
    OBVIOUS
  <2>3. \A v : v \in new <=> v \in M /\ (v <= first \/ v >= end)
    BY <2>2 DEF Outer
  <2> QED BY <2>1, <2>2, <2>3
<1>13. end \in M => h[end].used
  <2>1. CASE FreeAfter(h, u) = {}
    <3>1. Tiled(h, M) /\ u \in M
      BY <1>1
    <3>2. u + h[u].size \in M => h[u + h[u].size].used
      BY <2>1, <3>1, Neighbours
    <3>3. end = u + h[u].size
      BY <1>2, <1>5, <2>1
    <3> QED BY <3>2, <3>3
  <2>2. CASE FreeAfter(h, u) # {}
    <3>1. u + h[u].size \in M /\ ~h[u + h[u].size].used
      <4>1. Tiled(h, M) /\ u \in M
        BY <1>1
      <4> QED BY <2>2, <4>1, Neighbours
    <3>2. end = (u + h[u].size) + h[u + h[u].size].size
      BY <1>2, <1>5, <2>2
    <3>3. PICK w : w = u + h[u].size
      OBVIOUS
    <3>4. w \in M /\ ~h[w].used /\ end = w + h[w].size
      BY <3>1, <3>2, <3>3
    <3> QED BY <1>1, <3>4 DEF Coalesced
  <2> QED BY <2>1, <2>2
<1>14. \A w \in M : w + h[w].size = first => h[w].used
  <2>1. CASE FreeBefore(h, u) = {}
    <3>1. Tiled(h, M) /\ u \in M /\ first = u
      BY <1>1, <2>1
    <3>2. \A w \in M : w + h[w].size = u => h[w].used
      BY <2>1, <3>1, Neighbours
    <3> QED BY <3>1, <3>2
  <2>2. CASE FreeBefore(h, u) # {}
    <3>1. first \in M /\ ~h[first].used
      <4>1. Tiled(h, M) /\ u \in M /\ first = u - h[u].prev
        BY <1>1, <2>2
      <4>2. \E w \in M : w = u - h[u].prev /\ ~h[w].used
        BY <2>2, <4>1, Neighbours
      <4> QED BY <4>1, <4>2
    <3> QED BY <1>1, <3>1 DEF Coalesced
  <2> QED BY <2>1, <2>2
<1>15. Coalesced(g, new)
  <2> SUFFICES ASSUME NEW v \in new, ~g[v].used, v + g[v].size \in new PROVE g[v + g[v].size].used
    BY DEF Coalesced
  <2>1. CASE v = first
    <3>1. v + g[v].size = end
      BY <1>3, <1>4, <1>5, <1>11, <2>1
    <3> QED BY <1>3, <1>4, <1>5, <1>11, <1>12, <1>13, <3>1
  <2>2. CASE v # first
    <3>1. v \in M /\ (v < first \/ v >= end) /\ v \in 0 .. Units - 1 /\ first \in 0 .. Units - 1
      BY <1>3, <1>4, <1>12, <2>2
    <3>2. g[v].size = h[v].size /\ ~h[v].used
      BY <1>11, <3>1
    <3>3. v + h[v].size # first
      BY <1>14, <3>1, <3>2
    <3>4. v + h[v].size \in M /\ (v + h[v].size < first \/ v + h[v].size >= end)
      BY <1>4, <1>12, <3>1, <3>2, <3>3
    <3>5. h[v + h[v].size].used
      BY <1>1, <3>1, <3>2, <3>4 DEF Coalesced
    <3> QED BY <1>11, <3>2, <3>4, <3>5
  <2> QED BY <2>1, <2>2
<1>16. ASSUME ~WholePage(merged, first) PROVE \E v \in new : g[v].used
  <2>1. CASE end # Units
    <3>1. end \in M /\ h[end].used
      BY <1>3, <1>5, <1>13, <2>1
    <3>2. end \in new /\ g[end].used
      BY <1>3, <1>4, <1>5, <1>11, <1>12, <3>1 DEF Outer
    <3> QED BY <3>2
  <2>2. CASE first # 0
    <3>1. PICK w \in M : w + h[w].size = first /\ w < first
      BY <1>1, <1>3, <2>2, BlockFacts
    <3>2. h[w].used
      BY <1>14, <3>1
    <3>3. w \in new /\ g[w].used
      BY <1>3, <1>4, <1>11, <1>12, <3>1, <3>2 DEF Outer
    <3> QED BY <3>3
  <2> QED BY <1>6, <1>16, <2>1, <2>2
<1> QED BY <1>3, <1>5, <1>6, <1>8, <1>9, <1>10, <1>11, <1>12, <1>15, <1>16 DEF Freed

-----------------------------------------------------------------------------
(* The lists of free blocks.                                               *)

Blocks == Pages \X (0 .. Units - 1)
Entries(all) == UNION {Elements(all[l]) : l \in 0 .. Units - 1}

(* Every block in a list is there once, and the list is the one for its    *)
(* size.                                                                   *)
Filed(all, sizes) ==
  /\ all \in [0 .. Units - 1 -> Seq(Blocks)]
  /\ \A h \in 0 .. Units - 1 : Once(all[h]) /\ \A p \in Elements(all[h]) : sizes[p] = h + 1

(* Unlinking an entry that may or may not be there.                        *)
LEMMA WithoutOnce ==
  ASSUME NEW S, NEW s \in Seq(S), Once(s), NEW e
  PROVE  /\ Without(s, e) \in Seq(S) /\ Once(Without(s, e))
         /\ Elements(Without(s, e)) = Elements(s) \ {e}
<1>1. CASE \E i \in DOMAIN s : s[i] = e
  <2>1. Position(s, e) \in DOMAIN s /\ s[Position(s, e)] = e
    BY <1>1 DEF Position
  <2>2. Without(s, e) = RemoveAt(s, Position(s, e))
    BY <1>1 DEF Without
  <2> QED BY <2>1, <2>2, RemoveAtOnce
<1>2. CASE ~ \E i \in DOMAIN s : s[i] = e
  <2>1. Without(s, e) = s
    BY <1>2 DEF Without
  <2>2. e \notin Elements(s)
    BY <1>2 DEF Elements
  <2> QED BY <2>1, <2>2
<1> QED BY <1>1, <1>2

(* An entry is an element of some list.                                    *)
LEMMA EntriesAre ==
  ASSUME NEW all, NEW p
  PROVE  p \in Entries(all) <=> \E h \in 0 .. Units - 1 : p \in Elements(all[h])
BY DEF Entries

(* List h has more entries, without others; the other lists stay.          *)
Edited(all, sizes, new, h, more, less, others) ==
  /\ h \in 0 .. Units - 1
  /\ new \in [0 .. Units - 1 -> Seq(Blocks)] /\ \A l \in 0 .. Units - 1 : l # h => new[l] = all[l]
  /\ Once(new[h]) /\ Elements(new[h]) = (Elements(all[h]) \cup more) \ less /\ more \cap less = {}
  /\ \A p \in more : others[p] = h + 1
  /\ \A p \in less : p \in Entries(all) => p \in Elements(all[h])
  /\ \A p \in Entries(all) : p \notin less => others[p] = sizes[p]

(* What is in the other lists is not in it, and stays.                     *)
LEMMA OneList ==
  ASSUME NEW all, NEW sizes, NEW h, NEW more, NEW less, NEW new, NEW others,
         Filed(all, sizes) /\ Edited(all, sizes, new, h, more, less, others)
  PROVE  Filed(new, others) /\ Entries(new) = (Entries(all) \cup more) \ less
<1> USE DEF Edited
<1>1. PICK s : s = new[h]
  OBVIOUS
<1>2. /\ new \in [0 .. Units - 1 -> Seq(Blocks)] /\ new[h] = s
      /\ \A l \in 0 .. Units - 1 \ {h} : new[l] = all[l]
  BY <1>1
<1>3. ASSUME NEW l \in 0 .. Units - 1
      PROVE  Once(new[l]) /\ \A p \in Elements(new[l]) : others[p] = l + 1
  <2>1. CASE l = h
    <3>1. \A p \in Elements(s) : p \in more \/ (p \in Elements(all[h]) /\ p \notin less)
      BY <1>2
    <3>2. \A p \in Elements(all[h]) \ less : others[p] = h + 1
      BY EntriesAre DEF Filed
    <3> QED BY <1>2, <2>1, <3>1, <3>2
  <2>2. CASE l # h
    <3>1. \A p \in Elements(all[l]) : p \notin less
      <4> SUFFICES ASSUME NEW p \in Elements(all[l]), p \in less PROVE FALSE
        OBVIOUS
      <4>1. p \in Elements(all[h])
        BY EntriesAre
      <4> QED BY <2>2, <4>1 DEF Filed
    <3>2. \A p \in Elements(all[l]) : others[p] = sizes[p]
      BY <3>1, EntriesAre
    <3> QED BY <1>2, <2>2, <3>2 DEF Filed
  <2> QED BY <2>1, <2>2
<1>4. ASSUME NEW p PROVE p \in Entries(new) <=> p \in (Entries(all) \cup more) \ less
  <2>1. ASSUME p \in Entries(new) PROVE p \in (Entries(all) \cup more) \ less
    <3>1. PICK l \in 0 .. Units - 1 : p \in Elements(new[l])
      BY <2>1, EntriesAre
    <3>2. CASE l = h
      BY <1>2, <3>1, <3>2, EntriesAre
    <3>3. CASE l # h
      <4>1. p \in Elements(all[l]) /\ p \in Entries(all)
        BY <1>2, <3>1, <3>3, EntriesAre
      <4>2. p \notin less
        <5> SUFFICES ASSUME p \in less PROVE FALSE
          OBVIOUS
        <5>1. p \in Elements(all[h])
          BY <4>1
        <5> QED BY <3>3, <4>1, <5>1 DEF Filed
      <4> QED BY <4>1, <4>2
    <3> QED BY <3>2, <3>3
  <2>2. ASSUME p \in (Entries(all) \cup more) \ less PROVE p \in Entries(new)
    <3>1. CASE p \in more \/ p \in Elements(all[h])
      BY <1>2, <2>2, <3>1, EntriesAre
    <3>2. CASE p \notin more /\ p \notin Elements(all[h])
      <4>1. PICK l \in 0 .. Units - 1 : p \in Elements(all[l])
        BY <2>2, <3>2, EntriesAre
      <4> QED BY <1>2, <3>2, <4>1, EntriesAre
    <3> QED BY <3>1, <3>2
  <2> QED BY <2>1, <2>2
<1> QED BY <1>2, <1>3, <1>4 DEF Filed


PutIn(all, new, p, n) ==
  new \in {[all EXCEPT ![n - 1] = Append(@, p)], [all EXCEPT ![n - 1] = <<p>> \o @]}

(* The first block of a list is taken out.                                 *)
LEMMA TailOnce ==
  ASSUME NEW S, NEW s \in Seq(S), Once(s), s # <<>>
  PROVE  /\ Tail(s) \in Seq(S) /\ Once(Tail(s)) /\ Head(s) \in Elements(s)
         /\ Elements(Tail(s)) = Elements(s) \ {Head(s)}
<1>1. PICK t : t = Tail(s)
  OBVIOUS
<1>2. /\ t \in Seq(S) /\ Len(t) = Len(s) - 1 /\ Head(s) = s[1]
      /\ \A i \in 1 .. Len(t) : t[i] = s[i + 1]
  BY <1>1, HeadTailProperties
<1>3. DOMAIN s = 1 .. Len(s) /\ Len(s) \in Nat /\ DOMAIN t = 1 .. Len(t) /\ 1 \in DOMAIN s
  BY <1>2, LenProperties, EmptySeq
<1>4. /\ \A i \in DOMAIN t : i + 1 \in DOMAIN s /\ t[i] = s[i + 1] /\ i + 1 # 1 /\ i \in Int
      /\ \A j \in DOMAIN s : j # 1 => j - 1 \in DOMAIN t /\ t[j - 1] = s[j]
  BY <1>2, <1>3
<1>5. Once(t)
  <2> SUFFICES ASSUME NEW i \in DOMAIN t, NEW j \in DOMAIN t, t[i] = t[j] PROVE i = j
    BY DEF Once
  <2>1. i + 1 = j + 1
    BY <1>4 DEF Once
  <2> QED BY <1>4, <2>1
<1>6. ASSUME NEW e PROVE e \in Elements(t) <=> e \in Elements(s) \ {Head(s)}
  <2>1. ASSUME e \in Elements(t) PROVE e \in Elements(s) \ {Head(s)}
    <3>1. PICK i \in DOMAIN t : e = t[i]
      BY <2>1 DEF Elements
    <3>2. e = s[i + 1] /\ i + 1 \in DOMAIN s /\ i + 1 # 1
      BY <1>4, <3>1
    <3> QED BY <1>2, <1>3, <3>2 DEF Elements, Once
  <2>2. ASSUME e \in Elements(s), e # Head(s) PROVE e \in Elements(t)
    <3>1. PICK j \in DOMAIN s : e = s[j] /\ j # 1
      BY <1>2, <2>2 DEF Elements
    <3> QED BY <1>4, <3>1 DEF Elements
  <2> QED BY <2>1, <2>2
<1>7. Head(s) \in Elements(s)
  BY <1>2, <1>3 DEF Elements
<1> QED BY <1>1, <1>2, <1>5, <1>6, <1>7

TakenOff(all, sizes, h, new, others) ==
  /\ Filed(all, sizes)
  /\ h \in 0 .. Units - 1 /\ all[h] # <<>> /\ new = [all EXCEPT ![h] = Tail(@)]
  /\ \A p \in Entries(all) : p # Head(all[h]) => others[p] = sizes[p]

LEMMA TakeFiled ==
  ASSUME NEW all, NEW sizes, NEW h, NEW new, NEW others,
         TakenOff(all, sizes, h, new, others)
  PROVE  /\ Filed(new, others) /\ Entries(new) = Entries(all) \ {Head(all[h])}
         /\ Head(all[h]) \in Entries(all) /\ sizes[Head(all[h])] = h + 1
<1>1. all[h] \in Seq(Blocks) /\ Once(all[h]) /\ h \in 0 .. Units - 1 /\ all[h] # <<>>
  BY DEF Filed, TakenOff
<1>2. PICK s : s = Tail(all[h])
  OBVIOUS
<1>3. PICK x : x = Head(all[h])
  OBVIOUS
<1>4. s \in Seq(Blocks) /\ Once(s) /\ Elements(s) = Elements(all[h]) \ {x} /\ x \in Elements(all[h])
  BY <1>1, <1>2, <1>3, TailOnce
<1>5. PICK less : less = {x}
  OBVIOUS
<1>6. PICK more : more = {}
  OBVIOUS
<1>7. new = [all EXCEPT ![h] = s]
  BY <1>2 DEF TakenOff
<1>8. Edited(all, sizes, new, h, more, less, others)
  BY <1>1, <1>3, <1>4, <1>5, <1>6, <1>7 DEF Edited, Filed, TakenOff
<1>9. Filed(new, others) /\ Entries(new) = (Entries(all) \cup more) \ less
  <2>1. Filed(all, sizes)
    BY DEF TakenOff
  <2> QED BY <1>8, <2>1, OneList
<1>10. x \in Entries(all) /\ sizes[x] = h + 1
  BY <1>1, <1>4, EntriesAre DEF Filed, TakenOff
<1> QED BY <1>3, <1>5, <1>6, <1>9, <1>10

(* A block is added to the list for its size.                                *)
AddedTo(all, sizes, p, n, new, others) ==
  /\ Filed(all, sizes) /\ PutIn(all, new, p, n) /\ p \in Blocks /\ p \notin Entries(all)
  /\ n \in 1 .. Units /\ others[p] = n
  /\ \A q \in Entries(all) : others[q] = sizes[q]

LEMMA AddFiled ==
  ASSUME NEW all, NEW sizes, NEW p, NEW n, NEW new, NEW others,
         AddedTo(all, sizes, p, n, new, others)
  PROVE  Filed(new, others) /\ Entries(new) = Entries(all) \cup {p}
<1> USE DEF AddedTo
<1>1. PICK h \in 0 .. Units - 1 : h = n - 1 /\ h + 1 = n
  BY UnitsAssumption
<1>2. all[h] \in Seq(Blocks) /\ Once(all[h]) /\ p \notin Elements(all[h])
  BY EntriesAre DEF Filed
<1>3. PICK s : new = [all EXCEPT ![h] = s] /\ s \in {Append(all[h], p), <<p>> \o all[h]}
  BY <1>1 DEF PutIn
<1>4. s \in Seq(Blocks) /\ Once(s) /\ Elements(s) = Elements(all[h]) \cup {p}
  <2>1. CASE s = Append(all[h], p)
    BY <1>2, <2>1, AppendOnce
  <2>2. CASE s = <<p>> \o all[h]
    BY <1>2, <2>2, PrependOnce
  <2> QED BY <1>3, <2>1, <2>2
<1>5. PICK less : less = {}
  OBVIOUS
<1>6. PICK more : more = {p}
  OBVIOUS
<1>7. Edited(all, sizes, new, h, more, less, others)
  BY <1>1, <1>3, <1>4, <1>5, <1>6 DEF Edited, Filed
<1>8. Filed(new, others) /\ Entries(new) = (Entries(all) \cup more) \ less
  BY <1>7, OneList
<1> QED BY <1>5, <1>6, <1>8

(* A block is unlinked from whatever list it is in.                          *)
LEMMA RemoveFiled ==
  ASSUME NEW all, NEW sizes, Filed(all, sizes), NEW p, NEW others,
         \A q \in Entries(all) \ {p} : others[q] = sizes[q]
  PROVE  /\ Filed(RemoveEntry(all, p), others)
         /\ Entries(RemoveEntry(all, p)) = Entries(all) \ {p}
<1>1. PICK new : new = RemoveEntry(all, p)
  OBVIOUS
<1>2. ASSUME NEW h \in 0 .. Units - 1
      PROVE  /\ new[h] \in Seq(Blocks) /\ Once(new[h])
             /\ Elements(new[h]) = Elements(all[h]) \ {p}
  <2>1. all[h] \in Seq(Blocks) /\ Once(all[h]) /\ new[h] = Without(all[h], p)
    BY <1>1 DEF Filed, RemoveEntry
  <2> QED BY <2>1, WithoutOnce
<1>3. new \in [0 .. Units - 1 -> Seq(Blocks)]
  BY <1>1, <1>2 DEF RemoveEntry
<1>4. \A h \in 0 .. Units - 1 : \A q \in Elements(new[h]) : others[q] = h + 1
  BY <1>2, EntriesAre DEF Filed
<1>5. ASSUME NEW q PROVE q \in Entries(new) <=> q \in Entries(all) \ {p}
  <2>1. q \in Entries(new) <=> \E h \in 0 .. Units - 1 : q \in Elements(new[h])
    BY EntriesAre
  <2>2. q \in Entries(all) <=> \E h \in 0 .. Units - 1 : q \in Elements(all[h])
    BY EntriesAre
  <2> QED BY <1>2, <2>1, <2>2
<1> QED BY <1>1, <1>2, <1>3, <1>4, <1>5 DEF Filed

(* Sizes of blocks that are in no list do not matter.                      *)
LEMMA ResizeFiled ==
  ASSUME NEW all, NEW sizes, NEW others,
         Filed(all, sizes) /\ \A q \in Entries(all) : others[q] = sizes[q]
  PROVE  Filed(all, others)
BY EntriesAre DEF Filed

-----------------------------------------------------------------------------
(* The invariant.                                                          *)

Starts(p) == Met(header[p])
Sizes == [b \in Blocks |-> header[b[1]][b[2]].size]
Occupied == held \cup Fresh
Staying == InPool \ Leaving
Working == {"insert", "verify", "release"}

Operations ==
  [pc : {"idle", "search", "insert", "verify", "release"},
   n : {0} \cup Requests, list : 0 .. Units, page : {0} \cup Pages,
   unit : 0 .. Units - 1, touched : BOOLEAN]

Types ==
  /\ header \in [Pages -> Headers]
  /\ spare \subseteq Pages
  /\ held \subseteq Blocks
  /\ op \in [Cpus -> Operations]
  /\ panicked \in BOOLEAN

(* The blocks of every page tile it, and no two free ones touch.           *)
PagesInv ==
  \A p \in InPool : Tiled(header[p], Starts(p)) /\ Coalesced(header[p], Starts(p))

(* The blocks in use are those that somebody has, and no page is without.  *)
UsesInv ==
  /\ \A b \in Occupied :
       b[1] \in Staying /\ b[2] \in Starts(b[1]) /\ header[b[1]][b[2]].size \in Requests
  /\ \A p \in Staying : \A u \in Starts(p) : header[p][u].used <=> <<p, u>> \in Occupied
  /\ held \cap Fresh = {}
  /\ \A p \in Staying : \E u \in Starts(p) : header[p][u].used

(* What the processors hold on to between two steps.                       *)
Fragment(o) ==
  /\ o.n \in Requests /\ o.unit = 0 /\ o.n \in Starts(o.page)
  /\ header[o.page][0].size = o.n
  /\ header[o.page][o.n].size = Units - o.n /\ ~header[o.page][o.n].used
WorkInv ==
  /\ \A c \in Cpus : op[c].pc \in Working => op[c].page \in InPool
  /\ \A c, d \in Cpus : op[c].pc \in Working /\ op[d].pc \in Working /\ op[c].page = op[d].page => c = d
  /\ \A c \in Cpus : op[c].pc = "search" =>
       op[c].n \in Requests /\ op[c].n <= op[c].list /\ op[c].unit = 0 /\ ~op[c].touched
  /\ \A c \in Cpus : op[c].pc = "insert" => Fragment(op[c])
  /\ \A c \in Cpus : op[c].pc = "verify" /\ ~op[c].touched => op[c].unit \in Starts(op[c].page)

(* The lists hold the free blocks with room for links.                     *)
Wanted(b) ==
  /\ b[1] \in Staying /\ b[2] \in Starts(b[1])
  /\ ~header[b[1]][b[2]].used /\ header[b[1]][b[2]].size > 1
  /\ b \notin Pending
ListsInv ==
  /\ Filed(lists, Sizes)
  /\ \A b \in Blocks : b \in Entries(lists) <=> Wanted(b)

PoolInv == Types /\ PagesInv /\ UsesInv /\ WorkInv /\ ListsInv

LEMMA SizesAre ==
  /\ \A p \in Pages, u \in 0 .. Units - 1 : <<p, u>> \in Blocks /\ Sizes[<<p, u>>] = header[p][u].size
  /\ \A b \in Blocks : b[1] \in Pages /\ b[2] \in 0 .. Units - 1 /\ b = <<b[1], b[2]>>
                       /\ Sizes[b] = header[b[1]][b[2]].size
BY DEF Sizes, Blocks

(* The starts of the blocks of a page in the pool.                         *)
LEMMA StartsAre ==
  ASSUME PagesInv, NEW p \in InPool
  PROVE  /\ Tiled(header[p], Starts(p)) /\ Coalesced(header[p], Starts(p))
         /\ \A u \in Starts(p) : u \in 0 .. Units - 1 /\ header[p][u].size \in 1 .. Units
<1>1. Tiled(header[p], Starts(p)) /\ Coalesced(header[p], Starts(p))
  BY DEF PagesInv
<1> QED BY <1>1, BlockFacts

LEMMA EntriesTyped ==
  ASSUME NEW all, NEW sizes, Filed(all, sizes)
  PROVE  Entries(all) \subseteq Blocks
<1> SUFFICES ASSUME NEW b \in Entries(all) PROVE b \in Blocks
  OBVIOUS
<1>1. PICK l \in 0 .. Units - 1 : b \in Elements(all[l])
  BY EntriesAre
<1>2. PICK i \in DOMAIN all[l] : b = all[l][i]
  BY <1>1 DEF Elements
<1>3. all[l] \in Seq(Blocks)
  BY DEF Filed
<1> QED BY <1>2, <1>3, ElementOfSeq, LenProperties

(* The properties follow from the invariant.                               *)
LEMMA InvTypes ==
  ASSUME PoolInv
  PROVE  TypeOK
<1> USE UnitsAssumption DEF PoolInv
<1>1. lists \in [0 .. Units - 1 -> Seq(Blocks)]
  BY DEF ListsInv, Filed
<1>2. ASSUME NEW b \in Entries(lists) PROVE Sizes[b] # 1 /\ Sizes[b] # Units
  <2>1. b \in Blocks /\ Wanted(b)
    BY EntriesTyped DEF ListsInv
  <2>2. PICK p, u : p = b[1] /\ u = b[2]
    OBVIOUS
  <2>3. /\ p \in InPool /\ p \in Staying /\ u \in Starts(p) /\ ~header[p][u].used
        /\ header[p][u].size > 1 /\ Sizes[b] = header[p][u].size
    BY <2>1, <2>2, SizesAre DEF Wanted, Staying
  <2>4. header[p][u].size # Units
    <3> SUFFICES ASSUME header[p][u].size = Units PROVE FALSE
      OBVIOUS
    <3>1. Tiled(header[p], Starts(p)) /\ \A v \in Starts(p) : v \in 0 .. Units - 1 /\ header[p][v].size \in 1 .. Units
      BY <2>3, StartsAre
    <3>2. u + header[p][u].size \in 1 .. Units
      BY <2>3, <3>1, BlockFacts
    <3>3. u = 0
      BY <2>3, <3>1, <3>2
    <3>4. ASSUME NEW v \in Starts(p) PROVE v = 0
      <4>1. 0 < v => 0 + header[p][0].size <= v
        BY <2>3, <3>1, <3>3, BlocksApart
      <4> QED BY <3>1, <3>3, <4>1
    <3> QED BY <2>3, <3>3, <3>4 DEF UsesInv
  <2> QED BY <2>3, <2>4
<1>3. ASSUME NEW l \in {0, Units - 1} PROVE lists[l] = <<>>
  <2> SUFFICES ASSUME lists[l] # <<>> PROVE FALSE
    OBVIOUS
  <2>1. l \in 0 .. Units - 1 /\ lists[l] \in Seq(Blocks) /\ Once(lists[l])
    BY <1>1 DEF ListsInv, Filed
  <2>2. PICK b : b = Head(lists[l])
    OBVIOUS
  <2>3. b \in Elements(lists[l])
    BY <2>1, <2>2, TailOnce
  <2>4. b \in Entries(lists) /\ Sizes[b] = l + 1
    BY <2>1, <2>3, EntriesAre DEF ListsInv, Filed
  <2> QED BY <1>2, <2>4
<1>4. /\ lists \in [0 .. Units - 1 -> Seq(Pages \X (0 .. Units - 1))]
      /\ lists[0] = <<>> /\ lists[Units - 1] = <<>>
  BY <1>1, <1>3 DEF Blocks
<1>5. header \in [Pages -> [0 .. Units - 1 ->
                   [size : 0 .. Units, prev : 0 .. Units - 1, used : BOOLEAN]]]
  BY DEF Types, Headers, BlockHeaders
<1>6. op \in [Cpus -> [pc : {"idle", "search", "insert", "verify", "release"},
                      n : {0} \cup Requests, list : 0 .. Units, page : {0} \cup Pages,
                      unit : 0 .. Units - 1, touched : BOOLEAN]]
  BY DEF Types, Operations
<1> QED BY <1>4, <1>5, <1>6 DEF TypeOK, Types, Blocks

-----------------------------------------------------------------------------
(* What a step that works on no page, or on one page, leaves alone.        *)

OpsSame ==
  /\ op' \in [Cpus -> Operations]
  /\ \A d \in Cpus : op[d].pc \in Working \/ op'[d].pc \in Working =>
       op'[d].pc = op[d].pc /\ op'[d].page = op[d].page /\ op'[d].n = op[d].n /\ op'[d].unit = op[d].unit
  /\ \A d \in Cpus : op'[d].pc = "search" =>
       /\ op'[d].n \in Requests /\ op'[d].n <= op'[d].list
       /\ op'[d].unit = 0 /\ ~op'[d].touched

LEMMA SameSets ==
  ASSUME OpsSame
  PROVE  Fresh' = Fresh /\ Pending' = Pending /\ Leaving' = Leaving
<1>1. \A d \in Cpus :
        /\ op[d].pc \in {"insert", "verify"} <=> op'[d].pc \in {"insert", "verify"}
        /\ op[d].pc = "insert" <=> op'[d].pc = "insert"
        /\ op[d].pc = "release" <=> op'[d].pc = "release"
        /\ op[d].pc \in Working => op'[d].page = op[d].page /\ op'[d].n = op[d].n
  BY DEF OpsSame, Working
<1>2. \A d \in Cpus : op[d].pc \in {"insert", "verify"} \/ op[d].pc = "insert" \/ op[d].pc = "release"
        => op[d].pc \in Working
  BY DEF Working
<1>3. ASSUME NEW b PROVE b \in Fresh' <=> b \in Fresh
  BY <1>1, <1>2 DEF Fresh
<1>4. ASSUME NEW b PROVE b \in Pending' <=> b \in Pending
  BY <1>1, <1>2 DEF Pending
<1>5. ASSUME NEW b PROVE b \in Leaving' <=> b \in Leaving
  BY <1>1, <1>2 DEF Leaving
<1> QED BY <1>3, <1>4, <1>5

(* Processor c goes on with another operation, none of them at a page.     *)
LEMMA GoingSame ==
  ASSUME PoolInv, NEW c \in Cpus, NEW p, op[c].pc \notin Working, Going(c, p, Idle)
  PROVE  OpsSame /\ \A d \in Cpus : op'[d].pc = "verify" /\ ~op'[d].touched =>
                      op[d].pc = "verify" /\ ~op[d].touched /\ op[d].page # p
<1> USE UnitsAssumption DEF PoolInv
<1>1. Idle \in Operations /\ Idle.pc = "idle" /\ "idle" \notin Working
  BY DEF Idle, Operations, Working
<1>2. ASSUME NEW d \in Cpus
      PROVE  /\ op'[d] \in Operations
             /\ d = c => op'[d] = Idle
             /\ d # c => /\ op'[d].pc = op[d].pc /\ op'[d].page = op[d].page /\ op'[d].n = op[d].n
                         /\ op'[d].unit = op[d].unit /\ op'[d].list = op[d].list
                         /\ op'[d].touched = IF op[d].pc = "verify" /\ op[d].page = p THEN TRUE
                                             ELSE op[d].touched
  <2>1. PICK o : o = op[d] /\ o \in Operations
    BY DEF Types
  <2>2. PICK t : t = [o EXCEPT !.touched = TRUE]
    OBVIOUS
  <2>3. /\ t \in Operations /\ t.pc = o.pc /\ t.page = o.page /\ t.n = o.n /\ t.unit = o.unit
        /\ t.list = o.list /\ t.touched = TRUE
    BY <2>1, <2>2 DEF Operations
  <2>4. op'[d] = IF d = c THEN Idle ELSE IF o.pc = "verify" /\ o.page = p THEN t ELSE o
    BY <2>1, <2>2 DEF Going
  <2> QED BY <1>1, <2>1, <2>3, <2>4
<1>3. op' \in [Cpus -> Operations]
  BY <1>2 DEF Going
<1>4. \A d \in Cpus : op[d].pc \in Working \/ op'[d].pc \in Working =>
        op'[d].pc = op[d].pc /\ op'[d].page = op[d].page /\ op'[d].n = op[d].n /\ op'[d].unit = op[d].unit
  BY <1>1, <1>2
<1>5. ASSUME NEW d \in Cpus, op'[d].pc = "search"
      PROVE  op'[d].n \in Requests /\ op'[d].n <= op'[d].list /\ op'[d].unit = 0 /\ ~op'[d].touched
  <2>1. d # c
    BY <1>1, <1>2, <1>5
  <2>2. op[d].pc = "search" /\ ~(op[d].pc = "verify" /\ op[d].page = p)
    BY <1>2, <1>5, <2>1
  <2>3. op[d].n \in Requests /\ op[d].n <= op[d].list /\ op[d].unit = 0 /\ ~op[d].touched
    BY <2>2 DEF WorkInv
  <2> QED BY <1>2, <2>1, <2>2, <2>3
<1>6. \A d \in Cpus : op'[d].pc = "verify" /\ ~op'[d].touched =>
                      op[d].pc = "verify" /\ ~op[d].touched /\ op[d].page # p
  BY <1>1, <1>2
<1> QED BY <1>3, <1>4, <1>5, <1>6 DEF OpsSame

(* No page is touched.                                                     *)
LEMMA QuietKeeps ==
  ASSUME PoolInv, UNCHANGED <<header, lists, spare, held>>, panicked' \in BOOLEAN, OpsSame,
         \A d \in Cpus : op'[d].pc = "verify" => op'[d].touched = op[d].touched
  PROVE  PoolInv'
<1> USE DEF PoolInv
<1>1. Fresh' = Fresh /\ Pending' = Pending /\ Leaving' = Leaving
  BY SameSets
<1>2. InPool' = InPool /\ Staying' = Staying /\ Occupied' = Occupied /\ Sizes' = Sizes
  BY <1>1 DEF InPool, Staying, Occupied, Sizes
<1>3. \A p : Starts(p)' = Starts(p)
  BY DEF Starts
<1>4. Types'
  BY DEF Types, OpsSame
<1>5. PagesInv'
  BY <1>2, <1>3 DEF PagesInv
<1>6. UsesInv'
  BY <1>1, <1>2, <1>3 DEF UsesInv
<1>7. ListsInv'
  BY <1>1, <1>2, <1>3 DEF ListsInv, Wanted
<1>8. WorkInv'
  <2>1. \A c \in Cpus : op'[c].pc \in Working => op'[c].page \in InPool' /\ op[c].pc \in Working /\ op'[c].page = op[c].page
    BY <1>2 DEF WorkInv, OpsSame
  <2>2. \A c, d \in Cpus : op'[c].pc \in Working /\ op'[d].pc \in Working /\ op'[c].page = op'[d].page => c = d
    BY <2>1 DEF WorkInv
  <2>3. ASSUME NEW c \in Cpus, op'[c].pc = "insert" PROVE Fragment(op[c])'
    <3>1. op[c].pc = "insert" /\ op'[c].page = op[c].page /\ op'[c].n = op[c].n /\ op'[c].unit = op[c].unit
      BY <2>3 DEF OpsSame, Working
    <3>2. Fragment(op[c])
      BY <3>1 DEF WorkInv
    <3> QED BY <1>3, <3>1, <3>2 DEF Fragment
  <2>4. ASSUME NEW c \in Cpus, op'[c].pc = "verify", ~op'[c].touched
        PROVE  op'[c].unit \in Starts(op[c].page)'
    <3>1. op[c].pc = "verify" /\ ~op[c].touched /\ op'[c].page = op[c].page /\ op'[c].unit = op[c].unit
      BY <2>4 DEF OpsSame, Working
    <3>2. op[c].unit \in Starts(op[c].page)
      BY <3>1 DEF WorkInv
    <3> QED BY <3>1, <3>2 DEF Starts
  <2> QED BY <2>1, <2>2, <2>3, <2>4 DEF WorkInv, OpsSame
<1> QED BY <1>4, <1>5, <1>6, <1>7, <1>8

(* Page p has other headers; no page comes or goes.                        *)
Edits(p, g, new) ==
  /\ p \in Staying
  /\ header' = [header EXCEPT ![p] = g] /\ g \in Headers
  /\ Tiled(g, new) /\ Coalesced(g, new)
  /\ UNCHANGED spare /\ panicked' \in BOOLEAN
  /\ OpsSame
  /\ \A d \in Cpus : op'[d].pc = "verify" /\ ~op'[d].touched =>
                       op[d].pc = "verify" /\ ~op[d].touched /\ op[d].page # p
  /\ \A d \in Cpus : op[d].pc = "insert" /\ op[d].page = p =>
       /\ op[d].n \in new /\ g[0].size = header[p][0].size
       /\ g[op[d].n].size = header[p][op[d].n].size /\ g[op[d].n].used = header[p][op[d].n].used

LEMMA EditKeeps ==
  ASSUME PoolInv, NEW p, NEW g, NEW new, Edits(p, g, new)
  PROVE  /\ header' \in [Pages -> Headers] /\ p \in Pages
         /\ header'[p] = g /\ Starts(p)' = new
         /\ \A q \in Pages : q # p => header'[q] = header[q] /\ Starts(q)' = Starts(q)
         /\ InPool' = InPool /\ Staying' = Staying
         /\ Fresh' = Fresh /\ Pending' = Pending
         /\ PagesInv' /\ WorkInv'
<1> USE DEF PoolInv
<1>1. Fresh' = Fresh /\ Pending' = Pending /\ Leaving' = Leaving
  BY SameSets DEF Edits
<1>2. InPool' = InPool /\ Staying' = Staying
  BY <1>1 DEF InPool, Staying, Edits
<1>3. p \in InPool /\ p \in Pages
  BY DEF Edits, Staying, InPool
<1>4. header' \in [Pages -> Headers] /\ header'[p] = g /\ \A q \in Pages : q # p => header'[q] = header[q]
  BY <1>3 DEF Edits, Types
<1>5. Starts(p)' = new
  <2>1. Met(g) = new
    BY MetIs DEF Edits
  <2> QED BY <1>4, <2>1 DEF Starts
<1>6. \A q \in Pages : q # p => Starts(q)' = Starts(q)
  BY <1>4 DEF Starts
<1>7. PagesInv'
  <2> SUFFICES ASSUME NEW q \in InPool
               PROVE  Tiled(header'[q], Starts(q)') /\ Coalesced(header'[q], Starts(q)')
    BY <1>2 DEF PagesInv
  <2>1. CASE q = p
    BY <1>4, <1>5, <2>1 DEF Edits
  <2>2. CASE q # p
    <3>1. q \in Pages
      BY DEF InPool
    <3> QED BY <1>4, <1>6, <2>2, <3>1 DEF PagesInv
  <2> QED BY <2>1, <2>2
<1>8. WorkInv'
  <2>a. OpsSame
    BY DEF Edits
  <2>1. \A c \in Cpus : op'[c].pc \in Working => op'[c].page \in InPool' /\ op[c].pc \in Working /\ op'[c].page = op[c].page
    BY <1>2, <2>a DEF WorkInv, OpsSame
  <2>2. \A c, d \in Cpus : op'[c].pc \in Working /\ op'[d].pc \in Working /\ op'[c].page = op'[d].page => c = d
    BY <2>1 DEF WorkInv
  <2>3. ASSUME NEW c \in Cpus, op'[c].pc = "insert" PROVE Fragment(op[c])'
    <3>1. op[c].pc = "insert" /\ op'[c].page = op[c].page /\ op'[c].n = op[c].n /\ op'[c].unit = op[c].unit
      BY <2>3, <2>a DEF OpsSame, Working
    <3>2. Fragment(op[c]) /\ op[c].page \in InPool
      BY <3>1 DEF WorkInv, Working
    <3>3. PICK q : q = op[c].page
      OBVIOUS
    <3>4. q \in Pages
      BY <3>2, <3>3 DEF InPool
    <3>5. CASE q = p
      <4>1. /\ op[c].n \in new /\ g[0].size = header[p][0].size
            /\ g[op[c].n].size = header[p][op[c].n].size /\ g[op[c].n].used = header[p][op[c].n].used
        BY <3>1, <3>3, <3>5 DEF Edits
      <4>2. op'[c].page = p /\ op[c].page = p
        BY <3>1, <3>3, <3>5
      <4> QED BY <1>4, <1>5, <3>1, <3>2, <4>1, <4>2 DEF Fragment
    <3>6. CASE q # p
      <4>1. header'[q] = header[q] /\ Starts(q)' = Starts(q)
        BY <1>4, <1>6, <3>4, <3>6
      <4>2. op'[c].page = q /\ op[c].page = q
        BY <3>1, <3>3
      <4> QED BY <3>1, <3>2, <4>1, <4>2 DEF Fragment
    <3> QED BY <3>5, <3>6
  <2>4. ASSUME NEW c \in Cpus, op'[c].pc = "verify", ~op'[c].touched
        PROVE  op'[c].unit \in Starts(op[c].page)'
    <3>1. op[c].pc = "verify" /\ ~op[c].touched /\ op[c].page # p
      BY <2>4 DEF Edits
    <3>2. op'[c].page = op[c].page /\ op'[c].unit = op[c].unit /\ op[c].page \in InPool
      BY <2>a, <3>1 DEF OpsSame, Working, WorkInv
    <3>3. op[c].unit \in Starts(op[c].page) /\ op[c].page \in Pages
      BY <3>1, <3>2 DEF WorkInv, InPool
    <3>4. header'[op'[c].page] = header[op[c].page]
      BY <1>4, <3>1, <3>2, <3>3
    <3> QED BY <3>2, <3>3, <3>4 DEF Starts
  <2> QED BY <2>1, <2>2, <2>3, <2>4, <2>a DEF WorkInv, OpsSame
<1> QED BY <1>1, <1>2, <1>3, <1>4, <1>5, <1>6, <1>7, <1>8

(* Blocks that somebody has are blocks.                                    *)
LEMMA OccupiedTyped ==
  ASSUME PoolInv
  PROVE  Occupied \subseteq Blocks /\ \A b \in Occupied : b = <<b[1], b[2]>>
<1> USE UnitsAssumption DEF PoolInv
<1>1. held \subseteq Blocks
  BY DEF Types
<1>2. Fresh \subseteq Blocks
  <2>1. \A d \in Cpus : op[d].pc \in {"insert", "verify"} => op[d].page \in Pages
    BY DEF WorkInv, Working, InPool
  <2> QED BY <2>1 DEF Fresh, Blocks
<1> QED BY <1>1, <1>2, SizesAre DEF Occupied

-----------------------------------------------------------------------------
(* TakeBlock                                                               *)

(* The first block of list l, at u in page p, becomes a block for the      *)
(* caller and a smaller free one.                                          *)
BlockTaken(c, l, p, u, n, g, new, mine, left) ==
  /\ n \in Requests
  /\ p \in Staying /\ u \in Starts(p) /\ ~header[p][u].used /\ <<p, u>> \notin Pending
  /\ lists[l] # <<>> /\ <<p, u>> = Head(lists[l]) /\ l \in 0 .. Units - 1 /\ header[p][u].size = l + 1
  /\ n \in 1 .. l
  /\ Taken(header[p], Starts(p), u, n, g, new, mine, left)
  /\ header' = [header EXCEPT ![p] = g]
  /\ lists' = InsertRemainder([lists EXCEPT ![l] = Tail(@)], p, left, header[p][u].size - n)
  /\ held' = held \cup {<<p, mine>>}
  /\ Going(c, p, Idle) /\ spare' = spare /\ panicked' = panicked

LEMMA TakeEffect ==
  ASSUME PoolInv, NEW c \in Cpus, TakeBlock(c)
  PROVE  /\ \E l, p, u, n, g, new, mine, left : BlockTaken(c, l, p, u, n, g, new, mine, left)
         /\ op[c].pc = "search" /\ panicked' = panicked
<1> USE UnitsAssumption DEF PoolInv
<1>1. op[c].pc = "search" /\ op[c].list < Units /\ lists[op[c].list] # <<>>
  BY DEF TakeBlock
<1>2. PICK l \in 0 .. Units - 1 : l = op[c].list /\ lists[l] # <<>> /\ op[c].n \in Requests /\ op[c].n <= l
  BY <1>1 DEF WorkInv, Types, Operations
<1>3. PICK b : b = Head(lists[l])
  OBVIOUS
<1>4. lists[l] \in Seq(Blocks) /\ Once(lists[l])
  BY DEF ListsInv, Filed
<1>5. b \in Elements(lists[l])
  BY <1>2, <1>3, <1>4, TailOnce
<1>6. b \in Entries(lists) /\ b \in Blocks /\ Sizes[b] = l + 1
  BY <1>2, <1>5, EntriesAre, EntriesTyped DEF ListsInv, Filed
<1>7. PICK p, u : p = b[1] /\ u = b[2]
  OBVIOUS
<1>8. /\ b = <<p, u>> /\ p \in Pages /\ u \in 0 .. Units - 1
      /\ p \in Staying /\ u \in Starts(p) /\ ~header[p][u].used /\ b \notin Pending
      /\ header[p][u].size = l + 1
  BY <1>6, <1>7, SizesAre DEF ListsInv, Wanted
<1>9. p \in InPool
  BY <1>8 DEF Staying
<1>10. PICK n \in 1 .. l : n = op[c].n /\ n \in Requests
  <2>1. PICK m \in 2 .. Units - 1 : m = op[c].n
    BY <1>2
  <2> QED BY <1>2, <2>1
<1>11. PICK h : h = header[p]
  OBVIOUS
<1>12. /\ Tiled(h, Starts(p)) /\ Coalesced(h, Starts(p)) /\ h \in Headers
  BY <1>8, <1>9, <1>11, StartsAre DEF Types
<1>13. PICK rest \in Int : rest = h[u].size - n
  BY <1>8, <1>10, <1>11
<1>14. PICK mine : mine = IF h[u].prev = 0 THEN u ELSE u + rest
  OBVIOUS
<1>15. PICK left : left = IF h[u].prev = 0 THEN u + n ELSE u
  OBVIOUS
<1>16. PICK cut : cut = Split(h, u, n)
  OBVIOUS
<1>17. PICK g : g = Given(cut, mine)
  OBVIOUS
<1>18. Taken(h, Starts(p), u, n, g, Starts(p) \cup {mine, left}, mine, left) /\ PageVerified(cut, mine)
  <2>1. TakenBy(h, Starts(p), u, n, mine, left, cut, g)
    BY <1>8, <1>10, <1>11, <1>12, <1>13, <1>14, <1>15, <1>16, <1>17 DEF TakenBy
  <2> QED BY <2>1, TakePage
<1>19. PageVerified(h, u)
  BY <1>8, <1>12, TiledVerified
<1>20. /\ header' = [header EXCEPT ![p] = Given(cut, mine)]
       /\ lists' = InsertRemainder([lists EXCEPT ![l] = Tail(@)], p, left, rest)
       /\ held' = held \cup {<<p, mine>>}
       /\ Going(c, p, Idle) /\ spare' = spare /\ panicked' = panicked
  BY <1>2, <1>3, <1>7, <1>10, <1>11, <1>13, <1>14, <1>15, <1>16, <1>18, <1>19 DEF TakeBlock
<1>21. BlockTaken(c, l, p, u, n, g, Starts(p) \cup {mine, left}, mine, left)
  BY <1>2, <1>3, <1>8, <1>10, <1>11, <1>13, <1>17, <1>18, <1>20 DEF BlockTaken
<1> QED BY <1>1, <1>20, <1>21

(* The rest of a block goes to the list for its size, unless it has none.  *)
RestListed(all, new, p, u, size) == new = InsertRemainder(all, p, u, size)
LEMMA RemainderFiled ==
  ASSUME NEW all, NEW sizes, NEW p, NEW u, NEW n, NEW new,
         Filed(all, sizes) /\ RestListed(all, new, p, u, n) /\ <<p, u>> \in Blocks
           /\ <<p, u>> \notin Entries(all) /\ n \in 1 .. Units /\ sizes[<<p, u>>] = n
  PROVE  /\ Filed(new, sizes)
         /\ \A b : b \in Entries(new) <=> b \in Entries(all) \/ (b = <<p, u>> /\ n > 1)
<1> USE UnitsAssumption
<1>1. CASE n = 1
  <2>1. new = all
    BY <1>1 DEF InsertRemainder, RestListed
  <2> QED BY <1>1, <2>1
<1>2. CASE n # 1
  <2>1. PICK b : b = <<p, u>>
    OBVIOUS
  <2>2. new = [all EXCEPT ![n - 1] = Append(@, b)]
    BY <1>2, <2>1 DEF InsertRemainder, RemainderListed, RestListed
  <2>3. PutIn(all, new, b, n)
    BY <2>2 DEF PutIn
  <2>a. PICK others : others = sizes
    OBVIOUS
  <2>4. AddedTo(all, sizes, b, n, new, others)
    BY <2>1, <2>3, <2>a DEF AddedTo
  <2>5. Filed(new, others) /\ Entries(new) = Entries(all) \cup {b}
    BY <2>4, AddFiled
  <2> QED BY <1>2, <2>1, <2>5, <2>a
<1> QED BY <1>1, <1>2

LEMMA TakeKeeps ==
  ASSUME PoolInv, NEW c \in Cpus, TakeBlock(c)
  PROVE  PoolInv'
<1> USE UnitsAssumption DEF PoolInv
<1>a. \E l, p, u, n, g, new, mine, left : BlockTaken(c, l, p, u, n, g, new, mine, left)
  BY TakeEffect
<1>1. PICK l, p, u, n, g, new, mine, left : BlockTaken(c, l, p, u, n, g, new, mine, left)
  BY <1>a
<1>2. PICK h, M : h = header[p] /\ M = Starts(p)
  OBVIOUS
<1>3. /\ p \in Staying /\ u \in M /\ ~h[u].used /\ <<p, u>> \notin Pending
      /\ lists[l] # <<>> /\ <<p, u>> = Head(lists[l]) /\ l \in 0 .. Units - 1 /\ h[u].size = l + 1
      /\ n \in 1 .. l /\ n \in Requests
      /\ Taken(h, M, u, n, g, new, mine, left)
      /\ header' = [header EXCEPT ![p] = g]
      /\ lists' = InsertRemainder([lists EXCEPT ![l] = Tail(@)], p, left, h[u].size - n)
      /\ held' = held \cup {<<p, mine>>}
      /\ Going(c, p, Idle) /\ spare' = spare /\ panicked' = panicked
  BY <1>1, <1>2 DEF BlockTaken
<1>4. /\ Tiled(g, new) /\ g \in Headers /\ Coalesced(g, new)
      /\ new = M \cup {mine, left} /\ mine # left
      /\ g[mine].used /\ g[mine].size = n /\ ~g[left].used /\ g[left].size = h[u].size - n
      /\ \A v \in M : v # u => g[v].size = h[v].size /\ g[v].used = h[v].used
  BY <1>3 DEF Taken
<1>5. PICK x : x \notin M /\ {mine, left} = {u, x}
  BY <1>3 DEF Taken
<1>6. p \in InPool /\ p \in Pages
  BY <1>3 DEF Staying, InPool
<1>7. /\ Tiled(h, M) /\ \A v \in M : v \in 0 .. Units - 1 /\ h[v].size \in 1 .. Units
      /\ \A v \in new : v \in 0 .. Units - 1 /\ g[v].size \in 1 .. Units
  BY <1>2, <1>4, <1>6, StartsAre, BlockFacts
<1>8. op[c].pc = "search" /\ op[c].pc \notin Working
  BY TakeEffect DEF Working
<1>9. /\ OpsSame
      /\ \A d \in Cpus : op'[d].pc = "verify" /\ ~op'[d].touched =>
                           op[d].pc = "verify" /\ ~op[d].touched /\ op[d].page # p
  BY <1>3, <1>8, GoingSame
<1>10. ASSUME NEW d \in Cpus, op[d].pc = "insert", op[d].page = p
       PROVE  /\ op[d].n \in new /\ g[0].size = h[0].size
              /\ g[op[d].n].size = h[op[d].n].size /\ g[op[d].n].used = h[op[d].n].used
  <2>1. op[d].n \in M
    BY <1>2, <1>10 DEF WorkInv, Fragment
  <2>2. <<p, op[d].n>> \in Pending
    BY <1>10 DEF Pending
  <2>3. op[d].n # u
    BY <1>3, <2>2
  <2>4. <<p, 0>> \in Fresh
    BY <1>10 DEF Fresh
  <2>5. 0 \in M /\ h[0].used
    BY <1>2, <1>3, <2>4 DEF UsesInv, Occupied
  <2> QED BY <1>3, <1>4, <2>1, <2>3, <2>5
<1>11. Edits(p, g, new)
  <2>1. panicked' \in BOOLEAN
    BY <1>3 DEF Types
  <2> QED BY <1>2, <1>3, <1>4, <1>9, <1>10, <2>1 DEF Edits
<1>12. /\ header' \in [Pages -> Headers]
       /\ header'[p] = g /\ Starts(p)' = new
       /\ \A q \in Pages : q # p => header'[q] = header[q] /\ Starts(q)' = Starts(q)
       /\ InPool' = InPool /\ Staying' = Staying
       /\ Fresh' = Fresh /\ Pending' = Pending
       /\ PagesInv' /\ WorkInv'
  BY <1>11, EditKeeps
<1>13. \A b \in Occupied : b # <<p, mine>> /\ b # <<p, left>>
  <2> SUFFICES ASSUME NEW b \in Occupied, b[1] = p, b[2] \in {mine, left} PROVE FALSE
    OBVIOUS
  <2>1. b[2] \in M /\ <<p, b[2]>> = b /\ h[b[2]].used
    <3>1. b \in Blocks
      <4>1. held \subseteq Blocks
        BY DEF Types
      <4>2. Fresh \subseteq Blocks
        <5>1. \A d \in Cpus : op[d].pc \in {"insert", "verify"} => op[d].page \in Pages
          BY DEF WorkInv, Working, InPool
        <5> QED BY <5>1 DEF Fresh, Blocks
      <4> QED BY <4>1, <4>2 DEF Occupied
    <3>2. b = <<b[1], b[2]>>
      BY <3>1, SizesAre
    <3> QED BY <1>2, <1>3, <3>2 DEF UsesInv
  <2> QED BY <1>3, <1>5, <2>1
<1>14. Occupied' = Occupied \cup {<<p, mine>>}
  BY <1>3, <1>12 DEF Occupied
<1>15. Types'
  BY <1>3, <1>4, <1>6, <1>7, <1>9, <1>12 DEF Types, OpsSame, Blocks
<1>16. UsesInv'
  <2>1. ASSUME NEW b \in Occupied'
        PROVE  b[1] \in Staying' /\ b[2] \in Starts(b[1])' /\ header'[b[1]][b[2]].size \in Requests
    <3>1. CASE b = <<p, mine>>
      BY <1>3, <1>4, <1>12, <3>1
    <3>2. CASE b # <<p, mine>>
      <4>1. b \in Occupied /\ b[1] \in Staying /\ b[2] \in Starts(b[1]) /\ b[1] \in Pages
        BY <1>14, <3>2 DEF UsesInv, Staying, InPool
      <4>2. /\ header[b[1]][b[2]].size \in Requests /\ header[b[1]][b[2]].used
            /\ b = <<b[1], b[2]>>
        BY <4>1, OccupiedTyped DEF UsesInv
      <4>3. CASE b[1] = p
        <5>1. b[2] \in M /\ b[2] # u /\ b[2] \in new
          BY <1>2, <1>3, <1>4, <4>1, <4>2, <4>3
        <5> QED BY <1>2, <1>4, <1>12, <4>1, <4>2, <4>3, <5>1
      <4>4. CASE b[1] # p
        BY <1>12, <4>1, <4>2, <4>4
      <4> QED BY <4>3, <4>4
    <3> QED BY <3>1, <3>2
  <2>2. ASSUME NEW q \in Staying, NEW v \in Starts(q)'
        PROVE  header'[q][v].used <=> <<q, v>> \in Occupied'
    <3>1. CASE q = p
      <4>1. v \in new /\ header'[q][v] = g[v]
        BY <1>12, <3>1
      <4>2. CASE v = mine
        BY <1>4, <1>14, <3>1, <4>1, <4>2
      <4>3. CASE v = left
        BY <1>4, <1>13, <1>14, <3>1, <4>1, <4>3
      <4>4. CASE v # mine /\ v # left
        <5>1. v \in M /\ v # u
          BY <1>4, <1>5, <4>1, <4>4
        <5>2. h[v].used <=> <<p, v>> \in Occupied
          BY <1>2, <1>3, <5>1 DEF UsesInv
        <5> QED BY <1>4, <1>14, <3>1, <4>1, <4>4, <5>1, <5>2
      <4> QED BY <4>2, <4>3, <4>4
    <3>2. CASE q # p
      <4>1. q \in Pages
        BY DEF Staying, InPool
      <4>2. header'[q] = header[q] /\ v \in Starts(q)
        BY <1>12, <3>2, <4>1
      <4> QED BY <1>14, <3>2, <4>2 DEF UsesInv
    <3> QED BY <3>1, <3>2
  <2>3. held' \cap Fresh' = {}
    <3>1. <<p, mine>> \notin Fresh
      BY <1>13 DEF Occupied
    <3> QED BY <1>3, <1>12, <3>1 DEF UsesInv
  <2>4. ASSUME NEW q \in Staying PROVE \E v \in Starts(q)' : header'[q][v].used
    <3>1. CASE q = p
      BY <1>4, <1>12, <3>1
    <3>2. CASE q # p
      <4>1. q \in Pages
        BY DEF Staying, InPool
      <4> QED BY <1>12, <3>2, <4>1 DEF UsesInv
    <3> QED BY <3>1, <3>2
  <2> QED BY <1>12, <2>1, <2>2, <2>3, <2>4 DEF UsesInv
<1>17. PICK sizes : sizes = Sizes'
  OBVIOUS
<1>18. /\ \A q \in Pages, v \in 0 .. Units - 1 : sizes[<<q, v>>] = header'[q][v].size
       /\ \A b \in Blocks : sizes[b] = header'[b[1]][b[2]].size
  BY <1>17 DEF Sizes, Blocks
<1>19. PICK taken : taken = [lists EXCEPT ![l] = Tail(@)]
  OBVIOUS
<1>20. Filed(taken, sizes) /\ Entries(taken) = Entries(lists) \ {<<p, u>>}
  <2>1. Filed(lists, Sizes)
    BY DEF ListsInv
  <2>2. ASSUME NEW b \in Entries(lists), b # <<p, u>> PROVE sizes[b] = Sizes[b]
    <3>1. b \in Blocks
      BY <2>1, EntriesTyped
    <3>2. PICK q, v : q = b[1] /\ v = b[2]
      OBVIOUS
    <3>3. q \in Pages /\ b = <<q, v>> /\ Sizes[b] = header[q][v].size /\ sizes[b] = header'[q][v].size
      BY <1>18, <3>1, <3>2, SizesAre
    <3>4. v \in Starts(q)
      BY <3>1, <3>2 DEF ListsInv, Wanted
    <3>5. CASE q = p
      BY <1>2, <1>4, <1>12, <2>2, <3>3, <3>4, <3>5
    <3>6. CASE q # p
      BY <1>12, <3>3, <3>6
    <3> QED BY <3>5, <3>6
  <2>3. \A b \in Entries(lists) : b # Head(lists[l]) => sizes[b] = Sizes[b]
    BY <1>3, <2>2
  <2>4. PICK old : old = Sizes
    OBVIOUS
  <2>5. TakenOff(lists, old, l, taken, sizes)
    BY <1>3, <1>19, <2>1, <2>3, <2>4 DEF TakenOff
  <2>6. Filed(taken, sizes) /\ Entries(taken) = Entries(lists) \ {Head(lists[l])}
    BY <2>5, TakeFiled
  <2> QED BY <1>3, <2>6
<1>21. /\ Filed(lists', sizes)
       /\ \A b : b \in Entries(lists') <=> (b \in Entries(lists) /\ b # <<p, u>>) \/ (b = <<p, left>> /\ g[left].size > 1)
  <2>1. <<p, left>> \in Blocks /\ sizes[<<p, left>>] = g[left].size /\ g[left].size \in 1 .. Units
    BY <1>4, <1>6, <1>7, <1>12, <1>18 DEF Blocks
  <2>2. RestListed(taken, lists', p, left, g[left].size)
    BY <1>3, <1>4, <1>19 DEF RestListed
  <2>3. <<p, left>> \notin Entries(taken)
    <3> SUFFICES ASSUME <<p, left>> \in Entries(lists), left # u PROVE FALSE
      BY <1>20
    <3>1. left \in M
      BY <1>2, <2>1 DEF ListsInv, Wanted
    <3> QED BY <1>5, <3>1
  <2>4. PICK all : all = lists'
    OBVIOUS
  <2>5. PICK r : r = g[left].size
    OBVIOUS
  <2>6. Filed(taken, sizes) /\ RestListed(taken, all, p, left, r) /\ <<p, left>> \in Blocks
           /\ <<p, left>> \notin Entries(taken) /\ r \in 1 .. Units /\ sizes[<<p, left>>] = r
    BY <1>20, <2>1, <2>2, <2>3, <2>4, <2>5
  <2>7. /\ Filed(all, sizes)
        /\ \A b : b \in Entries(all) <=> b \in Entries(taken) \/ (b = <<p, left>> /\ r > 1)
    BY <2>6, RemainderFiled
  <2> QED BY <1>20, <2>4, <2>5, <2>7
<1>22. ASSUME NEW b \in Blocks PROVE b \in Entries(lists') <=> Wanted(b)'
  <2>1. PICK q, v : q = b[1] /\ v = b[2]
    OBVIOUS
  <2>2. q \in Pages /\ v \in 0 .. Units - 1 /\ b = <<q, v>>
    BY <2>1, SizesAre
  <2>3. Wanted(b) <=> /\ q \in Staying /\ v \in Starts(q) /\ ~header[q][v].used
                      /\ header[q][v].size > 1 /\ b \notin Pending
    BY <2>1 DEF Wanted
  <2>4. Wanted(b)' <=> /\ q \in Staying /\ v \in Starts(q)' /\ ~header'[q][v].used
                       /\ header'[q][v].size > 1 /\ b \notin Pending
    BY <1>12, <2>1 DEF Wanted
  <2>5. b \in Entries(lists) <=> Wanted(b)
    BY DEF ListsInv
  <2>6. CASE q # p
    <3>1. b # <<p, u>> /\ b # <<p, left>>
      BY <2>2, <2>6
    <3> QED BY <1>12, <1>21, <2>2, <2>3, <2>4, <2>5, <2>6, <3>1
  <2>7. CASE q = p
    <3>1. /\ v \in Starts(q)' <=> v \in new
          /\ header'[q][v] = g[v] /\ header[q][v] = h[v] /\ (v \in Starts(q) <=> v \in M)
      BY <1>2, <1>12, <2>7
    <3>2. CASE v = mine
      <4>1. ~Wanted(b)'
        BY <1>4, <2>4, <3>1, <3>2
      <4>2. mine # u => mine \notin M
        BY <1>5
      <4>3. ~(b \in Entries(lists) /\ b # <<p, u>>)
        BY <2>2, <2>3, <2>5, <2>7, <3>1, <3>2, <4>2
      <4>4. b # <<p, left>>
        BY <1>4, <2>2, <3>2
      <4> QED BY <1>21, <4>1, <4>3, <4>4
    <3>3. CASE v = left
      <4>1. b \notin Pending
        <5> SUFFICES ASSUME b \in Pending PROVE FALSE
          OBVIOUS
        <5>1. PICK d \in Cpus : op[d].pc = "insert" /\ b = <<op[d].page, op[d].n>>
          BY DEF Pending
        <5>2. op[d].page = p /\ op[d].n = left
          BY <2>2, <2>7, <3>3, <5>1
        <5>3. left \in M /\ left # u
          <6>1. Fragment(op[d])
            BY <5>1 DEF WorkInv
          <6>2. left # u
            BY <1>3, <2>2, <2>7, <3>3
          <6> QED BY <1>2, <5>2, <6>1, <6>2 DEF Fragment
        <5> QED BY <1>5, <5>3
      <4>2. Wanted(b)' <=> g[left].size > 1
        BY <1>3, <1>4, <2>4, <2>7, <3>1, <3>3, <4>1
      <4>3. b = <<p, left>>
        BY <2>2, <2>7, <3>3
      <4>4. ~(b \in Entries(lists) /\ b # <<p, u>>)
        <5>1. left # u => left \notin M
          BY <1>5
        <5> QED BY <2>3, <2>5, <3>1, <3>3, <4>3, <5>1
      <4> QED BY <1>21, <4>2, <4>3, <4>4
    <3>4. CASE v # mine /\ v # left
      <4>1. v # u /\ (v \in new <=> v \in M)
        BY <1>4, <1>5, <3>4
      <4>2. b # <<p, left>> /\ b # <<p, u>>
        BY <2>2, <3>4, <4>1
      <4>3. v \in M => g[v].size = h[v].size /\ g[v].used = h[v].used
        BY <1>4, <4>1
      <4> QED BY <1>21, <2>3, <2>4, <2>5, <3>1, <4>1, <4>2, <4>3
    <3> QED BY <3>2, <3>3, <3>4
  <2> QED BY <2>6, <2>7
<1>23. ListsInv'
  BY <1>17, <1>21, <1>22 DEF ListsInv, Blocks
<1> QED BY <1>12, <1>15, <1>16, <1>23

-----------------------------------------------------------------------------
(* FreePool                                                                *)

AtMostOne(S) == S = {} \/ \E w : S = {w}

LEMMA UnlistEachFiled ==
  ASSUME NEW all, NEW sizes, NEW p, NEW units, Filed(all, sizes) /\ AtMostOne(units)
  PROVE  /\ Filed(UnlistEach(all, p, units), sizes)
         /\ \A b : b \in Entries(UnlistEach(all, p, units)) <=>
                     b \in Entries(all) /\ \A w \in units : b # <<p, w>>
<1>1. CASE units = {}
  BY <1>1 DEF UnlistEach
<1>2. CASE units # {}
  <2>1. PICK w : units = {w}
    BY <1>2 DEF AtMostOne
  <2>2. UnlistEach(all, p, units) = RemoveEntry(all, <<p, w>>)
    <3>1. (CHOOSE v \in units : TRUE) = w
      BY <2>1
    <3> QED BY <1>2, <3>1 DEF UnlistEach
  <2>3. PICK b : b = <<p, w>>
    OBVIOUS
  <2>4. /\ Filed(RemoveEntry(all, b), sizes)
        /\ Entries(RemoveEntry(all, b)) = Entries(all) \ {b}
    BY RemoveFiled
  <2> QED BY <2>1, <2>2, <2>3, <2>4
<1> QED BY <1>1, <1>2

LEMMA UnlistFiled ==
  ASSUME NEW all, NEW sizes, NEW p, NEW after, NEW before,
         Filed(all, sizes) /\ AtMostOne(after) /\ AtMostOne(before)
  PROVE  /\ Filed(Unlist(all, p, after, before), sizes)
         /\ \A b : b \in Entries(Unlist(all, p, after, before)) <=>
                     b \in Entries(all) /\ \A w \in after \cup before : b # <<p, w>>
<1>1. PICK mid : mid = UnlistEach(all, p, after)
  OBVIOUS
<1>2. /\ Filed(mid, sizes)
      /\ \A b : b \in Entries(mid) <=> b \in Entries(all) /\ \A w \in after : b # <<p, w>>
  BY <1>1, UnlistEachFiled
<1>3. PICK new : new = UnlistEach(mid, p, before)
  OBVIOUS
<1>4. /\ Filed(new, sizes)
      /\ \A b : b \in Entries(new) <=> b \in Entries(mid) /\ \A w \in before : b # <<p, w>>
  BY <1>2, <1>3, UnlistEachFiled
<1>5. Unlist(all, p, after, before) = new
  BY <1>1, <1>3 DEF Unlist
<1> QED BY <1>2, <1>4, <1>5

(* The block at u in page p becomes part of a free one from first to end,  *)
(* with its neighbours out of their lists.                                 *)
BlockFreed(c, p, u, merged, first, end, g, rest) ==
  /\ p \in Staying /\ u \in Starts(p) /\ <<p, u>> \in held
  /\ Freed(header[p], Starts(p), u, merged, first, end, g)
  /\ rest = Unlist(lists, p, FreeAfter(header[p], u), FreeBefore(header[p], u))
  /\ header' = [header EXCEPT ![p] = g]
  /\ held' = held \ {<<p, u>>} /\ spare' = spare /\ panicked' = panicked
  /\ \/ /\ first = 0 /\ end = Units
        /\ lists' = rest
        /\ Going(c, p, [Idle EXCEPT !.pc = "release", !.page = p])
     \/ /\ ~(first = 0 /\ end = Units) /\ ~g[first].used
        /\ \E v \in Outer(Starts(p), first, end) : g[v].used
        /\ lists' = [rest EXCEPT ![(end - first) - 1] = <<<<p, first>>>> \o @]
        /\ Going(c, p, Idle)

LEMMA FreeEffect ==
  ASSUME PoolInv, NEW c \in Cpus, NEW b \in held, FreePool(c, b)
  PROVE  /\ \E p, u, merged, first, end, g, rest : BlockFreed(c, p, u, merged, first, end, g, rest)
         /\ op[c] = Idle /\ panicked' = panicked
<1> USE UnitsAssumption DEF PoolInv
<1>1. op[c] = Idle
  BY DEF FreePool
<1>2. PICK p, u : p = b[1] /\ u = b[2]
  OBVIOUS
<1>3. b \in Blocks /\ b = <<p, u>> /\ p \in Pages /\ u \in 0 .. Units - 1
  BY <1>2, SizesAre DEF Types
<1>4. p \in Staying /\ u \in Starts(p) /\ header[p][u].used /\ p \in InPool
  BY <1>2, <1>3 DEF UsesInv, Occupied, Staying
<1>5. PICK h, M : h = header[p] /\ M = Starts(p)
  OBVIOUS
<1>6. Tiled(h, M) /\ Coalesced(h, M) /\ h \in Headers
  BY <1>3, <1>4, <1>5, StartsAre DEF Types
<1>7. PageVerified(h, u)
  BY <1>4, <1>5, <1>6, TiledVerified
<1>8. PICK merged : merged = Merged(h, u)
  OBVIOUS
<1>9. PICK first : first = IF FreeBefore(h, u) = {} THEN u ELSE u - h[u].prev
  OBVIOUS
<1>10. PICK end : end = first + merged[first].size
  OBVIOUS
<1>11. PICK g : g = IF WholePage(merged, first) THEN merged
                    ELSE Informed([merged EXCEPT ![first].used = FALSE], first)
  OBVIOUS
<1>12. Freed(h, M, u, merged, first, end, g)
  <2>1. FreedBy(h, M, u, merged, first, end, g)
    BY <1>4, <1>5, <1>6, <1>8, <1>9, <1>10, <1>11 DEF FreedBy
  <2> QED BY <2>1, MergePage
<1>13. PICK rest : rest = Unlist(lists, p, FreeAfter(h, u), FreeBefore(h, u))
  OBVIOUS
<1>14. /\ held' = held \ {b} /\ spare' = spare /\ panicked' = panicked
       /\ \/ /\ WholePage(merged, first)
             /\ header' = [header EXCEPT ![p] = merged]
             /\ lists' = rest
             /\ Going(c, p, [Idle EXCEPT !.pc = "release", !.page = p])
          \/ /\ ~WholePage(merged, first)
             /\ header' = [header EXCEPT ![p] =
                             Informed([merged EXCEPT ![first].used = FALSE], first)]
             /\ lists' = [rest EXCEPT ![merged[first].size - 1] = <<<<p, first>>>> \o @]
             /\ Going(c, p, Idle)
  BY <1>2, <1>5, <1>7, <1>8, <1>9, <1>13 DEF FreePool
<1>15. /\ WholePage(merged, first) <=> first = 0 /\ end = Units
       /\ merged[first].size = end - first
       /\ ~WholePage(merged, first) => ~g[first].used /\ \E v \in Outer(M, first, end) : g[v].used
  BY <1>12 DEF Freed
<1>16. BlockFreed(c, p, u, merged, first, end, g, rest)
  <2>1. CASE WholePage(merged, first)
    <3>1. g = merged
      BY <1>11, <2>1
    <3> QED BY <1>3, <1>4, <1>5, <1>12, <1>13, <1>14, <1>15, <2>1, <3>1 DEF BlockFreed
  <2>2. CASE ~WholePage(merged, first)
    <3>1. g = Informed([merged EXCEPT ![first].used = FALSE], first)
      BY <1>11, <2>2
    <3> QED BY <1>3, <1>4, <1>5, <1>12, <1>13, <1>14, <1>15, <2>2, <3>1 DEF BlockFreed
  <2> QED BY <2>1, <2>2
<1> QED BY <1>1, <1>14, <1>16

(* A page that is being cut up is not freed from.                          *)
LEMMA NotBeingCut ==
  ASSUME PoolInv, NEW p \in Staying, NEW u \in Starts(p), <<p, u>> \in held,
         NEW d \in Cpus, op[d].pc = "insert"
  PROVE  op[d].page # p
<1> USE UnitsAssumption DEF PoolInv
<1> SUFFICES ASSUME op[d].page = p PROVE FALSE
  OBVIOUS
<1>1. p \in InPool
  BY DEF Staying
<1>a. Fragment(op[d])
  BY DEF WorkInv
<1>b. op[d].n \in 2 .. Units - 1
  BY <1>a DEF Fragment
<1>2. PICK n \in 2 .. Units - 1 : n = op[d].n
  BY <1>b
<1>3. n \in Starts(p) /\ header[p][0].size = n /\ header[p][n].size = Units - n /\ ~header[p][n].used
  BY <1>a, <1>2 DEF Fragment
<1>4. Tiled(header[p], Starts(p)) /\ \A v \in Starts(p) : v \in 0 .. Units - 1
  BY <1>1, StartsAre
<1>5. 0 \in Starts(p)
  BY <1>4 DEF Tiled
<1>6. u = 0 \/ u = n
  <2>1. 0 < u => 0 + header[p][0].size <= u
    BY <1>4, <1>5, BlocksApart
  <2>2. n < u => n + header[p][n].size <= u
    BY <1>3, <1>4, BlocksApart
  <2> QED BY <1>3, <1>4, <2>1, <2>2
<1>7. <<p, 0>> \in Fresh
  BY DEF Fresh
<1>8. header[p][u].used
  BY DEF UsesInv, Occupied
<1> QED BY <1>3, <1>6, <1>7, <1>8 DEF UsesInv

(* What a free block of page p has to do with the one that is freed.       *)
LEMMA FreedRest ==
  ASSUME PoolInv, NEW c, NEW p, NEW u, NEW merged, NEW first, NEW end, NEW g, NEW rest,
         BlockFreed(c, p, u, merged, first, end, g, rest)
  PROVE  /\ p \in Pages /\ p \in InPool
         /\ Tiled(g, Outer(Starts(p), first, end)) /\ g \in Headers
         /\ Coalesced(g, Outer(Starts(p), first, end))
         /\ first \in Starts(p) /\ first \in 0 .. Units - 1 /\ first <= u /\ u < end /\ end \in 1 .. Units
         /\ end = Units \/ end \in Starts(p)
         /\ \A v \in Starts(p) : v \in 0 .. Units - 1
         /\ \A v \in Starts(p) : v < first \/ v >= end =>
              g[v].size = header[p][v].size /\ g[v].used = header[p][v].used
         /\ g[first].size = end - first
         /\ \A v \in Starts(p) : first <= v /\ v < end /\ v # u => ~header[p][v].used
         /\ header[p][u].used
         /\ Filed(rest, Sizes)
         /\ \A b \in Blocks : b \in Entries(rest) <=>
              b \in Entries(lists) /\ ~(b[1] = p /\ first <= b[2] /\ b[2] < end)
<1> USE UnitsAssumption DEF PoolInv
<1>1. PICK h, M : h = header[p] /\ M = Starts(p)
  OBVIOUS
<1>2. /\ p \in Staying /\ u \in M /\ <<p, u>> \in held
      /\ Freed(h, M, u, merged, first, end, g)
      /\ rest = Unlist(lists, p, FreeAfter(h, u), FreeBefore(h, u))
  BY <1>1 DEF BlockFreed
<1>3. p \in InPool /\ p \in Pages
  BY <1>2 DEF Staying, InPool
<1>4. Tiled(h, M) /\ \A v \in M : v \in 0 .. Units - 1
  BY <1>1, <1>3, StartsAre
<1>5. /\ Tiled(g, Outer(M, first, end)) /\ g \in Headers /\ Coalesced(g, Outer(M, first, end))
      /\ first \in M /\ first <= u /\ u < end /\ end \in 1 .. Units /\ (end = Units \/ end \in M)
      /\ \A v \in M : first <= v /\ v < end <=> v = u \/ v \in FreeBefore(h, u) \/ v \in FreeAfter(h, u)
      /\ \A v \in M : v < first \/ v >= end => g[v].size = h[v].size /\ g[v].used = h[v].used
      /\ g[first].size = end - first
  BY <1>2 DEF Freed
<1>6. /\ \A v \in FreeBefore(h, u) \cup FreeAfter(h, u) : v \in M /\ ~h[v].used
      /\ AtMostOne(FreeBefore(h, u)) /\ AtMostOne(FreeAfter(h, u))
  <2>1. FreeAfter(h, u) = {} \/
          (FreeAfter(h, u) = {u + h[u].size} /\ u + h[u].size \in M /\ ~h[u + h[u].size].used)
    BY <1>2, <1>4, Neighbours
  <2>2. FreeBefore(h, u) = {} \/
          (\E w \in M : FreeBefore(h, u) = {w} /\ w = u - h[u].prev /\ w + h[w].size = u /\ w < u /\ ~h[w].used)
    BY <1>2, <1>4, Neighbours
  <2>3. AtMostOne(FreeAfter(h, u)) /\ \A v \in FreeAfter(h, u) : v \in M /\ ~h[v].used
    <3>1. CASE FreeAfter(h, u) = {}
      BY <3>1 DEF AtMostOne
    <3>2. CASE FreeAfter(h, u) # {}
      <4>1. PICK w : FreeAfter(h, u) = {w} /\ w \in M /\ ~h[w].used
        BY <2>1, <3>2
      <4> QED BY <4>1 DEF AtMostOne
    <3> QED BY <3>1, <3>2
  <2>4. AtMostOne(FreeBefore(h, u)) /\ \A v \in FreeBefore(h, u) : v \in M /\ ~h[v].used
    <3>1. CASE FreeBefore(h, u) = {}
      BY <3>1 DEF AtMostOne
    <3>2. CASE FreeBefore(h, u) # {}
      <4>1. PICK w \in M : FreeBefore(h, u) = {w} /\ ~h[w].used
        BY <2>2, <3>2
      <4> QED BY <4>1 DEF AtMostOne
    <3> QED BY <3>1, <3>2
  <2> QED BY <2>3, <2>4
<1>7. h[u].used
  BY <1>1, <1>2 DEF UsesInv, Occupied
<1>8. \A v \in M : first <= v /\ v < end /\ v # u => ~h[v].used
  BY <1>5, <1>6
<1>9. /\ Filed(rest, Sizes)
      /\ \A b : b \in Entries(rest) <=>
           b \in Entries(lists) /\ \A w \in FreeAfter(h, u) \cup FreeBefore(h, u) : b # <<p, w>>
  BY <1>2, <1>6, UnlistFiled DEF ListsInv
<1>10. ASSUME NEW b \in Blocks
       PROVE  b \in Entries(rest) <=> b \in Entries(lists) /\ ~(b[1] = p /\ first <= b[2] /\ b[2] < end)
  <2>1. PICK q, v : q = b[1] /\ v = b[2] /\ b = <<q, v>>
    BY SizesAre
  <2>2. b \in Entries(rest) <=> b \in Entries(lists) /\ ~(q = p /\ v \in FreeAfter(h, u) \cup FreeBefore(h, u))
    BY <1>9, <2>1
  <2>3. b \in Entries(lists) /\ q = p => v \in M /\ v # u
    BY <1>1, <1>7, <2>1 DEF ListsInv, Wanted
  <2>4. v \in M /\ v # u => (first <= v /\ v < end <=> v \in FreeAfter(h, u) \cup FreeBefore(h, u))
    BY <1>5
  <2> QED BY <2>1, <2>2, <2>3, <2>4
<1> QED BY <1>1, <1>3, <1>4, <1>5, <1>7, <1>8, <1>9, <1>10


(* Neighbours join the block, which is listed for what it has become.      *)
LEMMA FreePartKeeps ==
  ASSUME PoolInv, NEW c \in Cpus, op[c] = Idle,
         NEW p, NEW u, NEW merged, NEW first, NEW end, NEW g, NEW rest,
         BlockFreed(c, p, u, merged, first, end, g, rest), ~(first = 0 /\ end = Units)
  PROVE  PoolInv'
<1> USE UnitsAssumption DEF PoolInv
<1>1. PICK h, M : h = header[p] /\ M = Starts(p)
  OBVIOUS
<1>2. PICK new : new = Outer(M, first, end)
  OBVIOUS
<1>3. /\ p \in Staying /\ u \in M /\ <<p, u>> \in held
      /\ header' = [header EXCEPT ![p] = g]
      /\ held' = held \ {<<p, u>>} /\ spare' = spare /\ panicked' = panicked
      /\ ~g[first].used /\ \E v \in new : g[v].used
      /\ lists' = [rest EXCEPT ![(end - first) - 1] = <<<<p, first>>>> \o @]
      /\ Going(c, p, Idle)
  BY <1>1, <1>2 DEF BlockFreed
<1>4. /\ p \in Pages /\ p \in InPool
      /\ Tiled(g, new) /\ g \in Headers /\ Coalesced(g, new)
      /\ first \in M /\ first \in 0 .. Units - 1 /\ first <= u /\ u < end /\ end \in 1 .. Units
      /\ \A v \in M : v \in 0 .. Units - 1
      /\ \A v \in M : v < first \/ v >= end => g[v].size = h[v].size /\ g[v].used = h[v].used
      /\ g[first].size = end - first
      /\ \A v \in M : first <= v /\ v < end /\ v # u => ~h[v].used
      /\ h[u].used
      /\ Filed(rest, Sizes)
  BY <1>1, <1>2, FreedRest
<1>5. \A b \in Blocks : b \in Entries(rest) <=>
          b \in Entries(lists) /\ ~(b[1] = p /\ first <= b[2] /\ b[2] < end)
  BY FreedRest
<1>6. /\ first \in new /\ new \subseteq M
      /\ \A v \in M : v \in new <=> v <= first \/ v >= end
  BY <1>2, <1>4 DEF Outer
<1>t. u \in 0 .. Units - 1 /\ first \in Int /\ end \in Int /\ u \in Int /\ \A v \in M : v \in Int
  BY <1>3, <1>4
<1>n. h[u].size \in 2 .. Units - 1
  BY <1>1, <1>3 DEF UsesInv, Occupied
<1>7. op[c].pc \notin Working
  BY DEF Idle, Working
<1>8. /\ OpsSame
      /\ \A d \in Cpus : op'[d].pc = "verify" /\ ~op'[d].touched =>
                           op[d].pc = "verify" /\ ~op[d].touched /\ op[d].page # p
  BY <1>3, <1>7, GoingSame
<1>9. Edits(p, g, new)
  <2>1. panicked' \in BOOLEAN
    BY <1>3 DEF Types
  <2>2. \A d \in Cpus : op[d].pc = "insert" => op[d].page # p
    BY <1>1, <1>3, NotBeingCut
  <2> QED BY <1>3, <1>4, <1>8, <2>1, <2>2 DEF Edits
<1>10. /\ header' \in [Pages -> Headers]
       /\ header'[p] = g /\ Starts(p)' = new
       /\ \A q \in Pages : q # p => header'[q] = header[q] /\ Starts(q)' = Starts(q)
       /\ InPool' = InPool /\ Staying' = Staying
       /\ Fresh' = Fresh /\ Pending' = Pending
       /\ PagesInv' /\ WorkInv'
  BY <1>9, EditKeeps
<1>11. Types'
  <2>1. op' \in [Cpus -> Operations]
    BY <1>8 DEF OpsSame
  <2> QED BY <1>3, <1>10, <2>1 DEF Types
<1>12. Occupied' = Occupied \ {<<p, u>>}
  BY <1>3, <1>10 DEF Occupied, UsesInv
<1>13. UsesInv'
  <2>1. ASSUME NEW b \in Occupied'
        PROVE  b[1] \in Staying' /\ b[2] \in Starts(b[1])' /\ header'[b[1]][b[2]].size \in Requests
    <3>1. PICK q, v : q = b[1] /\ v = b[2]
      OBVIOUS
    <3>2. b \in Occupied /\ b # <<p, u>> /\ b = <<q, v>> /\ q \in Staying /\ v \in Starts(q)
          /\ header[q][v].size \in Requests
      BY <1>12, <2>1, <3>1, OccupiedTyped DEF UsesInv
    <3>3. q \in Pages
      BY <3>2 DEF Staying, InPool
    <3>4. CASE q = p
      <4>1. v \in M /\ v # u /\ h[v].used
        BY <1>1, <1>3, <3>2, <3>4 DEF UsesInv
      <4>2. v < first \/ v >= end
        BY <1>4, <1>t, <4>1
      <4>3. v \in new /\ g[v].size = h[v].size
        BY <1>4, <1>6, <1>t, <4>1, <4>2
      <4> QED BY <1>1, <1>3, <1>10, <3>1, <3>2, <3>4, <4>3 DEF Starts
    <3>5. CASE q # p
      <4>1. Starts(q)' = Starts(q) /\ header'[q] = header[q]
        BY <1>10, <3>3, <3>5
      <4> QED BY <1>10, <3>1, <3>2, <4>1 DEF Starts
    <3> QED BY <3>4, <3>5
  <2>2. ASSUME NEW q \in Staying, NEW v \in Starts(q)'
        PROVE  header'[q][v].used <=> <<q, v>> \in Occupied'
    <3>1. q \in Pages
      BY DEF Staying, InPool
    <3>2. CASE q = p
      <4>1. v \in new /\ header'[q][v] = g[v] /\ v \in M
        BY <1>6, <1>10, <2>2, <3>2
      <4>2. h[v].used <=> <<p, v>> \in Occupied
        BY <1>1, <1>3, <4>1 DEF UsesInv
      <4>3. CASE v = first
        <5>1. first # u => ~h[first].used
          BY <1>4, <1>t
        <5>2. <<p, first>> \notin Occupied'
          BY <1>12, <4>2, <4>3, <5>1
        <5> QED BY <1>3, <3>2, <4>1, <4>3, <5>2
      <4>4. CASE v # first
        <5>1. v < first \/ v >= end
          BY <1>4, <1>6, <4>1, <4>4
        <5>2. v # u
          BY <1>4, <4>1, <5>1
        <5>3. g[v].used = h[v].used
          BY <1>4, <4>1, <5>1
        <5> QED BY <1>12, <3>2, <4>1, <4>2, <5>2, <5>3
      <4> QED BY <4>3, <4>4
    <3>3. CASE q # p
      <4>1. v \in Starts(q) /\ header'[q] = header[q]
        BY <1>10, <2>2, <3>1, <3>3
      <4> QED BY <1>12, <3>3, <4>1 DEF UsesInv
    <3> QED BY <3>2, <3>3
  <2>3. held' \cap Fresh' = {}
    BY <1>3, <1>10 DEF UsesInv
  <2>4. ASSUME NEW q \in Staying PROVE \E v \in Starts(q)' : header'[q][v].used
    <3>1. q \in Pages
      BY DEF Staying, InPool
    <3>2. CASE q = p
      BY <1>3, <1>10, <3>2
    <3>3. CASE q # p
      BY <1>10, <3>1, <3>3 DEF UsesInv
    <3> QED BY <3>2, <3>3
  <2> QED BY <1>10, <2>1, <2>2, <2>3, <2>4 DEF UsesInv
<1>14. PICK sizes : sizes = Sizes'
  OBVIOUS
<1>15. /\ \A q \in Pages, v \in 0 .. Units - 1 : sizes[<<q, v>>] = header'[q][v].size
       /\ <<p, first>> \in Blocks
  BY <1>4, <1>14 DEF Sizes, Blocks
<1>16. ASSUME NEW b \in Entries(rest) PROVE sizes[b] = Sizes[b]
  <2>1. b \in Blocks
    BY <1>4, EntriesTyped
  <2>2. PICK q, v : q = b[1] /\ v = b[2]
    OBVIOUS
  <2>3. /\ q \in Pages /\ v \in 0 .. Units - 1 /\ b = <<q, v>> /\ Sizes[b] = header[q][v].size
        /\ sizes[b] = header'[q][v].size
    BY <1>15, <2>1, <2>2, SizesAre
  <2>4. v \in Starts(q) /\ ~(q = p /\ first <= v /\ v < end)
    BY <1>5, <2>1, <2>2 DEF ListsInv, Wanted
  <2>5. CASE q = p
    BY <1>1, <1>4, <1>10, <2>3, <2>4, <2>5
  <2>6. CASE q # p
    BY <1>10, <2>3, <2>6
  <2> QED BY <2>5, <2>6
<1>17. Filed(lists', sizes) /\ Entries(lists') = Entries(rest) \cup {<<p, first>>}
  <2>1. PICK b : b = <<p, first>>
    OBVIOUS
  <2>2. PICK n \in 1 .. Units : n = end - first
    BY <1>4, <1>t
  <2>3. PICK all : all = lists'
    OBVIOUS
  <2>4. PutIn(rest, all, b, n)
    BY <1>3, <2>1, <2>2, <2>3 DEF PutIn
  <2>5. b \notin Entries(rest)
    BY <1>4, <1>5, <1>t, <1>15, <2>1
  <2>6. sizes[b] = n
    BY <1>4, <1>10, <1>15, <2>1, <2>2
  <2>7. PICK old : old = Sizes
    OBVIOUS
  <2>8. AddedTo(rest, old, b, n, all, sizes)
    BY <1>4, <1>15, <1>16, <2>1, <2>2, <2>4, <2>5, <2>6, <2>7 DEF AddedTo
  <2>9. Filed(all, sizes) /\ Entries(all) = Entries(rest) \cup {b}
    BY <2>8, AddFiled
  <2> QED BY <2>1, <2>3, <2>9
<1>18. ASSUME NEW b \in Blocks PROVE b \in Entries(lists') <=> Wanted(b)'
  <2>1. PICK q, v : q = b[1] /\ v = b[2]
    OBVIOUS
  <2>2. q \in Pages /\ v \in 0 .. Units - 1 /\ b = <<q, v>>
    BY <2>1, SizesAre
  <2>3. Wanted(b) <=> /\ q \in Staying /\ v \in Starts(q) /\ ~header[q][v].used
                      /\ header[q][v].size > 1 /\ b \notin Pending
    BY <2>1 DEF Wanted
  <2>4. Wanted(b)' <=> /\ q \in Staying /\ v \in Starts(q)' /\ ~header'[q][v].used
                       /\ header'[q][v].size > 1 /\ b \notin Pending
    BY <1>10, <2>1 DEF Wanted
  <2>5. b \in Entries(lists) <=> Wanted(b)
    BY DEF ListsInv
  <2>6. b \in Entries(rest) <=> b \in Entries(lists) /\ ~(q = p /\ first <= v /\ v < end)
    BY <1>5, <2>1
  <2>7. b \in Entries(lists') <=> b \in Entries(rest) \/ (q = p /\ v = first)
    BY <1>17, <2>2
  <2>8. CASE q # p
    BY <1>10, <2>2, <2>3, <2>4, <2>5, <2>6, <2>7, <2>8
  <2>9. CASE q = p
    <3>1. /\ v \in Starts(q)' <=> v \in new
          /\ header'[q][v] = g[v] /\ header[q][v] = h[v] /\ (v \in Starts(q) <=> v \in M)
      BY <1>1, <1>10, <2>9
    <3>2. CASE v = first
      <4>1. b \notin Pending
        <5>1. ASSUME NEW d \in Cpus, op[d].pc = "insert" PROVE op[d].page # p
          BY <1>1, <1>3, <5>1, NotBeingCut
        <5> QED BY <2>2, <2>9, <5>1 DEF Pending
      <4>2. g[first].size > 1
        <5>1. u + h[u].size <= end
          <6>1. Tiled(h, M)
            BY <1>1, <1>4, StartsAre
          <6>2. CASE end = Units
            <7>1. u + h[u].size \in 1 .. Units
              BY <1>3, <6>1, BlockFacts
            <7> QED BY <6>2, <7>1
          <6>3. CASE end # Units
            <7>1. end \in M
              BY <1>1, <6>3, FreedRest
            <7> QED BY <1>3, <1>4, <6>1, <7>1, BlocksApart
          <6> QED BY <6>2, <6>3
        <5> QED BY <1>4, <1>t, <1>n, <5>1
      <4> QED BY <1>3, <1>6, <2>4, <2>7, <2>9, <3>1, <3>2, <4>1, <4>2
    <3>3. CASE v # first /\ v >= first /\ v < end
      BY <1>4, <1>6, <1>t, <2>2, <2>4, <2>6, <2>7, <2>9, <3>1, <3>3
    <3>4. CASE v < first \/ v >= end
      BY <1>4, <1>6, <1>t, <2>2, <2>3, <2>4, <2>5, <2>6, <2>7, <3>1, <3>4
    <3> QED BY <1>4, <2>2, <3>2, <3>3, <3>4
  <2> QED BY <2>8, <2>9
<1>19. ListsInv'
  BY <1>14, <1>17, <1>18 DEF ListsInv, Blocks
<1> QED BY <1>10, <1>11, <1>13, <1>19

(* The processor that frees the last block of a page is the only one with  *)
(* business there, and gives the page back.                                *)
LEMMA FreePageKeeps ==
  ASSUME PoolInv, NEW c \in Cpus, op[c] = Idle,
         NEW p, NEW u, NEW merged, NEW first, NEW end, NEW g, NEW rest,
         BlockFreed(c, p, u, merged, first, end, g, rest), first = 0, end = Units
  PROVE  PoolInv'
<1> USE UnitsAssumption DEF PoolInv
<1>1. PICK h, M : h = header[p] /\ M = Starts(p)
  OBVIOUS
<1>2. PICK new : new = Outer(M, first, end)
  OBVIOUS
<1>3. PICK next : next = [Idle EXCEPT !.pc = "release", !.page = p]
  OBVIOUS
<1>4. /\ p \in Staying /\ u \in M /\ <<p, u>> \in held
      /\ header' = [header EXCEPT ![p] = g]
      /\ held' = held \ {<<p, u>>} /\ spare' = spare /\ panicked' = panicked
      /\ lists' = rest
      /\ Going(c, p, next)
  BY <1>1, <1>2, <1>3 DEF BlockFreed
<1>5. /\ p \in Pages /\ p \in InPool
      /\ Tiled(g, new) /\ g \in Headers /\ Coalesced(g, new)
      /\ 0 \in M /\ \A v \in M : v \in 0 .. Units - 1
      /\ \A v \in M : 0 <= v /\ v < Units /\ v # u => ~h[v].used
      /\ Filed(rest, Sizes)
  BY <1>1, <1>2, FreedRest
<1>6. \A b \in Blocks : b \in Entries(rest) <=> b \in Entries(lists) /\ ~(b[1] = p /\ 0 <= b[2] /\ b[2] < Units)
  BY FreedRest
<1>7. \A v \in M : v # u => ~h[v].used
  BY <1>5
<1>8. \A d \in Cpus : op[d].pc \in Working => op[d].page # p
  <2> SUFFICES ASSUME NEW d \in Cpus, op[d].pc \in Working, op[d].page = p PROVE FALSE
    OBVIOUS
  <2>1. op[d].pc # "release"
    BY <1>4 DEF Staying, Leaving
  <2>2. <<p, 0>> \in Fresh
    BY <2>1 DEF Fresh, Working
  <2>3. h[0].used
    BY <1>1, <1>4, <1>5, <2>2 DEF UsesInv, Occupied
  <2>4. u = 0
    BY <1>5, <1>7, <2>3
  <2> QED BY <1>4, <2>2, <2>4 DEF UsesInv
<1>9. next \in Operations /\ next.pc = "release" /\ next.page = p
  <2>1. next = [pc |-> "release", n |-> 0, list |-> 0, page |-> p, unit |-> 0, touched |-> FALSE]
    BY <1>3 DEF Idle
  <2>2. p \in {0} \cup Pages /\ 0 \in 0 .. Units - 1 /\ 0 \in 0 .. Units /\ 0 \in {0} \cup Requests
    BY <1>5
  <2> QED BY <2>1, <2>2 DEF Operations
<1>10. op' \in [Cpus -> Operations] /\ op'[c] = next /\ \A d \in Cpus : d # c => op'[d] = op[d]
  <2>1. \A d \in Cpus : op'[d] = IF d = c THEN next ELSE op[d]
    BY <1>4, <1>8 DEF Going, Working
  <2>2. DOMAIN op' = Cpus /\ op' = [d \in Cpus |-> op'[d]]
    BY <1>4 DEF Going
  <2> QED BY <1>9, <2>1, <2>2 DEF Types
<1>11. op[c].pc = "idle" /\ "idle" \notin Working /\ "idle" \notin {"insert", "verify", "release", "search"}
  BY DEF Idle, Working
<1>12. Fresh' = Fresh /\ Pending' = Pending /\ Leaving' = Leaving \cup {p}
  <2>1. ASSUME NEW b PROVE b \in Fresh' <=> b \in Fresh
    BY <1>9, <1>10, <1>11 DEF Fresh
  <2>2. ASSUME NEW b PROVE b \in Pending' <=> b \in Pending
    BY <1>9, <1>10, <1>11 DEF Pending
  <2>3. ASSUME NEW b PROVE b \in Leaving' <=> b \in Leaving \cup {p}
    BY <1>9, <1>10, <1>11 DEF Leaving
  <2> QED BY <2>1, <2>2, <2>3
<1>13. InPool' = InPool /\ Staying' = Staying \ {p}
  BY <1>4, <1>12 DEF InPool, Staying
<1>14. header' \in [Pages -> Headers] /\ header'[p] = g /\ \A q \in Pages : q # p => header'[q] = header[q]
  BY <1>4, <1>5 DEF Types
<1>15. Starts(p)' = new /\ \A q \in Pages : q # p => Starts(q)' = Starts(q)
  <2>1. Met(g) = new
    BY <1>5, MetIs
  <2> QED BY <1>14, <2>1 DEF Starts
<1>16. Types'
  BY <1>4, <1>10, <1>14 DEF Types
<1>17. PagesInv'
  <2> SUFFICES ASSUME NEW q \in InPool
               PROVE  Tiled(header'[q], Starts(q)') /\ Coalesced(header'[q], Starts(q)')
    BY <1>13 DEF PagesInv
  <2>1. CASE q = p
    BY <1>5, <1>14, <1>15, <2>1
  <2>2. CASE q # p
    <3>1. q \in Pages
      BY DEF InPool
    <3> QED BY <1>14, <1>15, <2>2, <3>1 DEF PagesInv
  <2> QED BY <2>1, <2>2
<1>18. \A q \in Staying \ {p} : q \in Pages /\ Starts(q)' = Starts(q) /\ header'[q] = header[q]
  BY <1>14, <1>15 DEF Staying, InPool
<1>19. Occupied' = Occupied \ {<<p, u>>}
  BY <1>4, <1>12 DEF Occupied, UsesInv
<1>20. UsesInv'
  <2>1. ASSUME NEW b \in Occupied'
        PROVE  b[1] \in Staying' /\ b[2] \in Starts(b[1])' /\ header'[b[1]][b[2]].size \in Requests
    <3>1. PICK q, v : q = b[1] /\ v = b[2]
      OBVIOUS
    <3>2. b \in Occupied /\ b # <<p, u>> /\ b = <<q, v>> /\ q \in Staying /\ v \in Starts(q)
          /\ header[q][v].size \in Requests /\ header[q][v].used
      BY <1>19, <2>1, <3>1, OccupiedTyped DEF UsesInv
    <3>3. q # p
      BY <1>1, <1>7, <3>2
    <3>4. Starts(q)' = Starts(q) /\ header'[q] = header[q]
      BY <1>18, <3>2, <3>3
    <3> QED BY <1>13, <3>1, <3>2, <3>3, <3>4 DEF Starts
  <2>2. ASSUME NEW q \in Staying \ {p}, NEW v \in Starts(q)'
        PROVE  header'[q][v].used <=> <<q, v>> \in Occupied'
    <3>1. v \in Starts(q) /\ header'[q] = header[q]
      BY <1>18, <2>2
    <3> QED BY <1>19, <3>1 DEF UsesInv
  <2>3. held' \cap Fresh' = {}
    BY <1>4, <1>12 DEF UsesInv
  <2>4. ASSUME NEW q \in Staying \ {p} PROVE \E v \in Starts(q)' : header'[q][v].used
    BY <1>18 DEF UsesInv
  <2> QED BY <1>13, <2>1, <2>2, <2>3, <2>4 DEF UsesInv
<1>21. WorkInv'
  <2>1. \A d \in Cpus : op'[d].pc \in Working => op'[d].page \in InPool'
    BY <1>5, <1>9, <1>10, <1>13 DEF WorkInv
  <2>2. ASSUME NEW d \in Cpus, NEW e \in Cpus, op'[d].pc \in Working, op'[e].pc \in Working,
               op'[d].page = op'[e].page
        PROVE  d = e
    <3>1. CASE d = c \/ e = c
      BY <1>8, <1>9, <1>10, <2>2, <3>1
    <3>2. CASE d # c /\ e # c
      BY <1>10, <2>2, <3>2 DEF WorkInv
    <3> QED BY <3>1, <3>2
  <2>3. ASSUME NEW d \in Cpus, op'[d].pc = "search"
        PROVE  op'[d].n \in Requests /\ op'[d].n <= op'[d].list /\ op'[d].unit = 0 /\ ~op'[d].touched
    <3>1. d # c /\ op'[d] = op[d]
      BY <1>9, <1>10, <2>3
    <3> QED BY <2>3, <3>1 DEF WorkInv
  <2>4. ASSUME NEW d \in Cpus, op'[d].pc \in {"insert", "verify"}
        PROVE  /\ op'[d] = op[d] /\ op[d].page \in Pages
               /\ header'[op[d].page] = header[op[d].page]
               /\ Starts(op[d].page)' = Met(header'[op[d].page])
               /\ Met(header'[op'[d].page]) = Starts(op[d].page)
    <3>1. op'[d] = op[d] /\ op[d].pc \in Working
      BY <1>9, <1>10, <2>4 DEF Working
    <3>2. op[d].page \in InPool /\ op[d].page # p
      BY <1>8, <3>1 DEF WorkInv
    <3>3. header'[op[d].page] = header[op[d].page] /\ op[d].page \in Pages
      BY <1>14, <3>2 DEF InPool
    <3> QED BY <3>1, <3>3 DEF Starts
  <2>5. ASSUME NEW d \in Cpus, op'[d].pc = "insert" PROVE Fragment(op[d])'
    <3>1. op'[d] = op[d] /\ header'[op[d].page] = header[op[d].page]
          /\ Met(header'[op'[d].page]) = Starts(op[d].page)
      BY <2>4, <2>5
    <3>2. Fragment(op[d])
      BY <2>5, <3>1 DEF WorkInv
    <3> QED BY <3>1, <3>2 DEF Fragment, Starts
  <2>6. ASSUME NEW d \in Cpus, op'[d].pc = "verify", ~op'[d].touched
        PROVE  op'[d].unit \in Starts(op[d].page)'
    <3>1. op'[d] = op[d] /\ Met(header'[op'[d].page]) = Starts(op[d].page)
      BY <2>4, <2>6
    <3>2. op[d].unit \in Starts(op[d].page)
      BY <2>6, <3>1 DEF WorkInv
    <3> QED BY <3>1, <3>2 DEF Starts
  <2> QED BY <2>1, <2>2, <2>3, <2>5, <2>6 DEF WorkInv
<1>22. \A b \in Blocks : b \in Entries(rest) <=> b \in Entries(lists) /\ b[1] # p
  BY <1>6, SizesAre
<1>23. PICK sizes : sizes = Sizes'
  OBVIOUS
<1>24. Filed(lists', sizes)
  <2>1. ASSUME NEW b \in Entries(rest) PROVE sizes[b] = Sizes[b]
    <3>1. b \in Blocks
      BY <1>5, EntriesTyped
    <3>2. b[1] # p /\ b[1] \in Pages /\ Sizes[b] = header[b[1]][b[2]].size
      BY <1>22, <3>1, SizesAre
    <3>3. sizes[b] = header'[b[1]][b[2]].size
      BY <1>23, <3>1 DEF Sizes
    <3> QED BY <1>14, <3>2, <3>3
  <2>2. PICK old : old = Sizes
    OBVIOUS
  <2>3. Filed(rest, old) /\ \A b \in Entries(rest) : sizes[b] = old[b]
    BY <1>5, <2>1, <2>2
  <2>4. Filed(rest, sizes)
    BY <2>3, ResizeFiled
  <2> QED BY <1>4, <2>4
<1>25. ASSUME NEW b \in Blocks PROVE b \in Entries(lists') <=> Wanted(b)'
  <2>1. b \in Entries(lists) <=> Wanted(b)
    BY DEF ListsInv
  <2>2. b \in Entries(lists') <=> Wanted(b) /\ b[1] # p
    BY <1>4, <1>22, <2>1
  <2>3. CASE b[1] = p
    BY <1>13, <2>2, <2>3 DEF Wanted
  <2>4. CASE b[1] # p
    <3>1. b[1] \in Pages
      BY SizesAre
    <3>2. header'[b[1]] = header[b[1]] /\ Starts(b[1])' = Starts(b[1])
      BY <1>14, <1>15, <2>4, <3>1
    <3>3. Wanted(b)' <=> Wanted(b)
      BY <1>12, <1>13, <2>4, <3>2 DEF Wanted, Starts
    <3> QED BY <2>2, <2>4, <3>3
  <2> QED BY <2>3, <2>4
<1>26. ListsInv'
  BY <1>23, <1>24, <1>25 DEF ListsInv, Blocks
<1> QED BY <1>16, <1>17, <1>20, <1>21, <1>26

LEMMA FreeKeeps ==
  ASSUME PoolInv, NEW c \in Cpus, NEW b \in held, FreePool(c, b)
  PROVE  PoolInv'
<1>a. /\ \E p, u, merged, first, end, g, rest : BlockFreed(c, p, u, merged, first, end, g, rest)
      /\ op[c] = Idle
  BY FreeEffect
<1>1. PICK p, u, merged, first, end, g, rest : BlockFreed(c, p, u, merged, first, end, g, rest)
  BY <1>a
<1>2. CASE first = 0 /\ end = Units
  BY <1>a, <1>1, <1>2, FreePageKeeps
<1>3. CASE ~(first = 0 /\ end = Units)
  BY <1>a, <1>1, <1>3, FreePartKeeps
<1> QED BY <1>2, <1>3

-----------------------------------------------------------------------------
(* The steps of AllocatePool outside of a block, and of FreePages.         *)

LEMMA SearchKeeps ==
  ASSUME PoolInv, NEW c \in Cpus,
         NextList(c) \/ (\E n \in Requests : AllocatePool(c, n)) \/ (AllocatePage(c) /\ UNCHANGED <<header, spare>>)
  PROVE  PoolInv'
<1> USE UnitsAssumption DEF PoolInv
<1>1. op[c] \in Operations /\ op \in [Cpus -> Operations]
  BY DEF Types
<1>2. UNCHANGED <<header, lists, spare, held, panicked>>
  BY DEF NextList, AllocatePool, AllocatePage
<1>3. op[c].pc \in {"idle", "search"} /\ op[c].pc \notin Working
  <2>1. op[c] = Idle \/ op[c].pc = "search"
    BY DEF NextList, AllocatePool, AllocatePage
  <2>2. Idle.pc = "idle"
    BY DEF Idle
  <2> QED BY <2>1, <2>2 DEF Working
<1>4. \E o \in Operations :
        /\ op' = [op EXCEPT ![c] = o]
        /\ o.pc \in {"idle", "search"}
        /\ o.pc = "search" => o.n \in Requests /\ o.n <= o.list /\ o.unit = 0 /\ ~o.touched
  <2>1. CASE \E n \in Requests : AllocatePool(c, n)
    <3>1. PICK n \in Requests : AllocatePool(c, n)
      BY <2>1
    <3>2. PICK o : o = [Idle EXCEPT !.pc = "search", !.n = n, !.list = n]
      OBVIOUS
    <3>3. o = [pc |-> "search", n |-> n, list |-> n, page |-> 0, unit |-> 0, touched |-> FALSE]
      BY <3>2 DEF Idle
    <3>4. n \in 0 .. Units /\ n <= n /\ 0 \in 0 .. Units - 1
      <4>1. n \in 2 .. Units - 1
        OBVIOUS
      <4> QED BY <4>1
    <3>5. o \in Operations
      BY <3>3, <3>4 DEF Operations
    <3>6. op' = [op EXCEPT ![c] = o]
      BY <3>1, <3>2 DEF AllocatePool
    <3> QED BY <3>3, <3>4, <3>5, <3>6
  <2>2. CASE NextList(c)
    <3>1. PICK o : o = [op[c] EXCEPT !.list = op[c].list + 1]
      OBVIOUS
    <3>2. /\ op[c].pc = "search" /\ op[c].list < Units /\ op[c].list \in 0 .. Units
          /\ op[c].n \in Requests /\ op[c].n <= op[c].list /\ op[c].unit = 0 /\ ~op[c].touched
      BY <1>1, <2>2 DEF NextList, WorkInv, Operations
    <3>3. /\ o \in Operations /\ o.pc = "search" /\ o.n = op[c].n /\ o.list = op[c].list + 1
          /\ o.unit = op[c].unit /\ o.touched = op[c].touched
      <4>1. op[c].list + 1 \in 0 .. Units
        BY <3>2
      <4> QED BY <1>1, <3>1, <3>2, <4>1 DEF Operations
    <3>4. op[c].n \in Int
      <4>1. op[c].n \in 2 .. Units - 1
        BY <3>2
      <4> QED BY <4>1
    <3>5. o.n <= o.list
      BY <3>2, <3>3, <3>4
    <3>6. op' = [op EXCEPT ![c] = o]
      BY <2>2, <3>1 DEF NextList
    <3> QED BY <3>2, <3>3, <3>5, <3>6
  <2>3. CASE AllocatePage(c) /\ UNCHANGED <<header, spare>>
    <3>1. op' = [op EXCEPT ![c] = Idle]
      <4> SUFFICES ASSUME NEW p \in spare, spare' = spare \ {p} PROVE FALSE
        BY <2>3 DEF AllocatePage
      <4> QED BY <2>3
    <3>2. Idle \in Operations /\ Idle.pc = "idle"
      BY DEF Idle, Operations
    <3> QED BY <3>1, <3>2
  <2> QED BY <2>1, <2>2, <2>3
<1>5. PICK o \in Operations :
        /\ op' = [op EXCEPT ![c] = o]
        /\ o.pc \in {"idle", "search"}
        /\ o.pc = "search" => o.n \in Requests /\ o.n <= o.list /\ o.unit = 0 /\ ~o.touched
  BY <1>4
<1>6. op'[c] = o /\ \A d \in Cpus : d # c => op'[d] = op[d]
  BY <1>1, <1>5
<1>7. o.pc \notin Working /\ o.pc # "verify"
  BY <1>5 DEF Working
<1>8. OpsSame
  <2>1. op' \in [Cpus -> Operations]
    BY <1>1, <1>5
  <2>2. \A d \in Cpus : op'[d].pc = "search" =>
       /\ op'[d].n \in Requests /\ op'[d].n <= op'[d].list
       /\ op'[d].unit = 0 /\ ~op'[d].touched
    BY <1>5, <1>6 DEF WorkInv
  <2> QED BY <1>3, <1>6, <1>7, <2>1, <2>2 DEF OpsSame
<1>9. panicked' \in BOOLEAN /\ \A d \in Cpus : op'[d].pc = "verify" => op'[d].touched = op[d].touched
  BY <1>2, <1>6, <1>7 DEF Types
<1> QED BY <1>2, <1>8, <1>9, QuietKeeps

(* The check of a fresh page goes on, or fails.                            *)
LEMMA VerifyGoesOn ==
  ASSUME PoolInv, NEW c \in Cpus, op[c].pc = "verify", HeaderVerified(header[op[c].page], op[c].unit),
         op[c].unit + header[op[c].page][op[c].unit].size < Units,
         op' = [op EXCEPT ![c].unit = op[c].unit + header[op[c].page][op[c].unit].size],
         UNCHANGED <<header, lists, spare, held, panicked>>
  PROVE  PoolInv'
<1> USE UnitsAssumption DEF PoolInv
<1>1. PICK p, u : p = op[c].page /\ u = op[c].unit
  OBVIOUS
<1>2. p \in InPool /\ p \in Pages /\ u \in 0 .. Units - 1
  BY <1>1 DEF WorkInv, Working, InPool, Types, Operations
<1>3. header[p][u] \in BlockHeaders
  BY <1>2 DEF Types, Headers
<1>4. PICK next \in 0 .. Units - 1 : next = u + header[p][u].size
  <2>1. header[p][u].size \in 0 .. Units
    BY <1>3 DEF BlockHeaders
  <2> QED BY <1>1, <1>2, <2>1
<1>5. PICK o : o = [op[c] EXCEPT !.unit = next]
  OBVIOUS
<1>6. /\ op[c] \in Operations /\ o \in Operations /\ o.pc = "verify" /\ o.page = p
      /\ o.unit = next /\ o.touched = op[c].touched
  BY <1>1, <1>5 DEF Types, Operations
<1>7. op' = [op EXCEPT ![c] = o]
  BY <1>1, <1>4, <1>5
<1>8. op' \in [Cpus -> Operations] /\ op'[c] = o /\ \A d \in Cpus : d # c => op'[d] = op[d]
  BY <1>6, <1>7 DEF Types
<1>9. \A d \in Cpus : op'[d].pc = op[d].pc /\ op'[d].page = op[d].page /\ op'[d].touched = op[d].touched
  BY <1>1, <1>6, <1>8
<1>10. Fresh' = Fresh /\ Leaving' = Leaving
  BY <1>9 DEF Fresh, Leaving
<1>11. Pending' = Pending
  <2>1. ASSUME NEW b PROVE b \in Pending' <=> b \in Pending
    BY <1>6, <1>8 DEF Pending
  <2> QED BY <2>1
<1>12. InPool' = InPool /\ Staying' = Staying /\ Occupied' = Occupied /\ Sizes' = Sizes
  BY <1>10 DEF InPool, Staying, Occupied, Sizes
<1>13. \A q : Starts(q)' = Starts(q)
  BY DEF Starts
<1>14. Types' /\ PagesInv' /\ UsesInv'
  BY <1>8, <1>10, <1>12, <1>13 DEF Types, PagesInv, UsesInv
<1>15. ListsInv'
  BY <1>11, <1>12, <1>13 DEF ListsInv, Wanted
<1>16. WorkInv'
  <2>1. \A d \in Cpus : op'[d].pc \in Working => op'[d].page \in InPool'
    BY <1>9, <1>12 DEF WorkInv
  <2>2. \A d, e \in Cpus : op'[d].pc \in Working /\ op'[e].pc \in Working /\ op'[d].page = op'[e].page => d = e
    BY <1>9 DEF WorkInv
  <2>3. \A d \in Cpus : op'[d].pc = "search" =>
          op'[d].n \in Requests /\ op'[d].n <= op'[d].list /\ op'[d].unit = 0 /\ ~op'[d].touched
    BY <1>6, <1>8 DEF WorkInv
  <2>4. ASSUME NEW d \in Cpus, op'[d].pc = "insert" PROVE Fragment(op[d])'
    <3>1. op'[d] = op[d]
      BY <1>6, <1>8, <2>4
    <3>2. Fragment(op[d])
      BY <2>4, <3>1 DEF WorkInv
    <3> QED BY <1>13, <3>1, <3>2 DEF Fragment
  <2>5. ASSUME NEW d \in Cpus, op'[d].pc = "verify", ~op'[d].touched
        PROVE  op'[d].unit \in Starts(op[d].page)'
    <3>1. CASE d = c
      <4>1. u \in Starts(p)
        BY <1>1, <1>9, <2>5, <3>1 DEF WorkInv
      <4>2. Tiled(header[p], Starts(p))
        BY <1>2, StartsAre
      <4>3. next \in Starts(p)
        BY <1>2, <1>4, <4>1, <4>2, BlockFacts
      <4> QED BY <1>6, <1>8, <3>1, <4>3 DEF Starts
    <3>2. CASE d # c
      <4>1. op'[d] = op[d] /\ op[d].unit \in Starts(op[d].page)
        BY <1>8, <2>5, <3>2 DEF WorkInv
      <4> QED BY <4>1 DEF Starts
    <3> QED BY <3>1, <3>2
  <2> QED BY <2>1, <2>2, <2>3, <2>4, <2>5 DEF WorkInv
<1> QED BY <1>14, <1>15, <1>16

-----------------------------------------------------------------------------
(* Steps of the one processor that works on a page.                        *)

(* Processor c, and no other, works on p, which it takes, keeps or gives   *)
(* up, to go on with o.                                                    *)
Alone(c, p, o, new) ==
  /\ p \in Pages /\ o \in Operations /\ op' = [op EXCEPT ![c] = o]
  /\ spare' \subseteq Pages /\ held' \subseteq Blocks /\ panicked' \in BOOLEAN
  /\ header' \in [Pages -> Headers] /\ \A q \in Pages : q # p => header'[q] = header[q]
  /\ \A q \in Pages : q # p => (q \in spare' <=> q \in spare)
  /\ \A d \in Cpus : d # c /\ op[d].pc \in Working => op[d].page # p
  /\ op[c].pc \in Working => op[c].page = p
  /\ o.pc # "search" /\ (o.pc \in Working => o.page = p /\ p \notin spare')
  /\ p \notin spare' => Tiled(header'[p], new) /\ Coalesced(header'[p], new)
  /\ o.pc = "insert" =>
       /\ o.n \in Requests /\ o.unit = 0 /\ o.n \in new
       /\ header'[p][0].size = o.n
       /\ header'[p][o.n].size = Units - o.n /\ ~header'[p][o.n].used
  /\ o.pc = "verify" => o.unit \in new

LEMMA AloneKeeps ==
  ASSUME PoolInv, NEW c \in Cpus, NEW p, NEW o, NEW new, Alone(c, p, o, new)
  PROVE  /\ Types' /\ PagesInv' /\ WorkInv'
         /\ \A q \in Pages : q # p => Starts(q)' = Starts(q) /\ (q \in InPool' <=> q \in InPool)
         /\ p \in InPool' <=> p \notin spare'
         /\ p \notin spare' => Starts(p)' = new
         /\ \A b : b \in Fresh' <=> (b \in Fresh /\ b[1] # p) \/ (o.pc \in {"insert", "verify"} /\ b = <<p, 0>>)
         /\ \A b : b \in Pending' <=> (b \in Pending /\ b[1] # p) \/ (o.pc = "insert" /\ b = <<p, o.n>>)
         /\ \A q : q \in Leaving' <=> (q \in Leaving /\ q # p) \/ (o.pc = "release" /\ q = p)
<1> USE UnitsAssumption DEF PoolInv
<1>1. /\ p \in Pages /\ o \in Operations
      /\ op' = [op EXCEPT ![c] = o]
      /\ spare' \subseteq Pages /\ held' \subseteq Blocks /\ panicked' \in BOOLEAN
      /\ header' \in [Pages -> Headers] /\ \A q \in Pages : q # p => header'[q] = header[q]
      /\ \A q \in Pages : q # p => (q \in spare' <=> q \in spare)
      /\ \A d \in Cpus : d # c /\ op[d].pc \in Working => op[d].page # p
      /\ op[c].pc \in Working => op[c].page = p
      /\ o.pc # "search" /\ (o.pc \in Working => o.page = p /\ p \notin spare')
      /\ p \notin spare' => Tiled(header'[p], new) /\ Coalesced(header'[p], new)
      /\ o.pc = "insert" =>
           /\ o.n \in Requests /\ o.unit = 0 /\ o.n \in new
           /\ header'[p][0].size = o.n
           /\ header'[p][o.n].size = Units - o.n /\ ~header'[p][o.n].used
      /\ o.pc = "verify" => o.unit \in new
  BY DEF Alone
<1>2. op' \in [Cpus -> Operations] /\ op'[c] = o /\ \A d \in Cpus : d # c => op'[d] = op[d]
  BY <1>1 DEF Types
<1>3. Types'
  BY <1>1, <1>2 DEF Types
<1>4. \A q \in Pages : q # p => Starts(q)' = Starts(q) /\ (q \in InPool' <=> q \in InPool)
  BY <1>1 DEF Starts, InPool
<1>5. (p \in InPool' <=> p \notin spare') /\ InPool' \subseteq Pages
  BY <1>1 DEF InPool
<1>6. ASSUME p \notin spare' PROVE Starts(p)' = new
  <2>1. Met(header'[p]) = new
    BY <1>1, <1>6, MetIs
  <2> QED BY <2>1 DEF Starts
<1>7. PagesInv'
  <2> SUFFICES ASSUME NEW q \in InPool'
               PROVE  Tiled(header'[q], Starts(q)') /\ Coalesced(header'[q], Starts(q)')
    BY DEF PagesInv
  <2>1. CASE q = p
    BY <1>1, <1>5, <1>6, <2>1
  <2>2. CASE q # p
    <3>1. q \in Pages /\ q \in InPool
      BY <1>4, <1>5, <2>2
    <3> QED BY <1>1, <1>4, <2>2, <3>1 DEF PagesInv
  <2> QED BY <2>1, <2>2
<1>8. "insert" \in Working /\ "verify" \in Working /\ "release" \in Working
  BY DEF Working
<1>9. ASSUME NEW b
      PROVE  b \in Fresh' <=> (b \in Fresh /\ b[1] # p) \/ (o.pc \in {"insert", "verify"} /\ b = <<p, 0>>)
  <2>1. b \in Fresh' <=> \/ \E d \in Cpus : d # c /\ op[d].pc \in {"insert", "verify"} /\ b = <<op[d].page, 0>>
                         \/ o.pc \in {"insert", "verify"} /\ b = <<o.page, 0>>
    BY <1>2 DEF Fresh
  <2>2. b \in Fresh <=> \E d \in Cpus : op[d].pc \in {"insert", "verify"} /\ b = <<op[d].page, 0>>
    BY DEF Fresh
  <2> QED BY <1>1, <1>8, <2>1, <2>2
<1>10. ASSUME NEW b
       PROVE  b \in Pending' <=> (b \in Pending /\ b[1] # p) \/ (o.pc = "insert" /\ b = <<p, o.n>>)
  <2>1. b \in Pending' <=> \/ \E d \in Cpus : d # c /\ op[d].pc = "insert" /\ b = <<op[d].page, op[d].n>>
                           \/ o.pc = "insert" /\ b = <<o.page, o.n>>
    BY <1>2 DEF Pending
  <2>2. b \in Pending <=> \E d \in Cpus : op[d].pc = "insert" /\ b = <<op[d].page, op[d].n>>
    BY DEF Pending
  <2> QED BY <1>1, <1>8, <2>1, <2>2
<1>11. ASSUME NEW q PROVE q \in Leaving' <=> (q \in Leaving /\ q # p) \/ (o.pc = "release" /\ q = p)
  <2>1. q \in Leaving' <=> \/ \E d \in Cpus : d # c /\ op[d].pc = "release" /\ q = op[d].page
                           \/ o.pc = "release" /\ q = o.page
    BY <1>2 DEF Leaving
  <2>2. q \in Leaving <=> \E d \in Cpus : op[d].pc = "release" /\ q = op[d].page
    BY DEF Leaving
  <2> QED BY <1>1, <1>8, <2>1, <2>2
<1>12. WorkInv'
  <2>1. ASSUME NEW d \in Cpus, op'[d].pc \in Working PROVE op'[d].page \in InPool'
    <3>1. CASE d = c
      BY <1>1, <1>2, <1>5, <2>1, <3>1
    <3>2. CASE d # c
      <4>1. op'[d] = op[d] /\ op[d].page # p /\ op[d].page \in InPool /\ op[d].page \in Pages
        BY <1>1, <1>2, <2>1, <3>2 DEF WorkInv, InPool
      <4> QED BY <1>4, <4>1
    <3> QED BY <3>1, <3>2
  <2>2. ASSUME NEW d \in Cpus, NEW e \in Cpus, op'[d].pc \in Working, op'[e].pc \in Working,
               op'[d].page = op'[e].page
        PROVE  d = e
    <3>1. CASE d = c \/ e = c
      BY <1>1, <1>2, <2>2, <3>1
    <3>2. CASE d # c /\ e # c
      BY <1>2, <2>2, <3>2 DEF WorkInv
    <3> QED BY <3>1, <3>2
  <2>3. ASSUME NEW d \in Cpus, op'[d].pc = "search"
        PROVE  op'[d].n \in Requests /\ op'[d].n <= op'[d].list /\ op'[d].unit = 0 /\ ~op'[d].touched
    <3>1. op'[d] = op[d]
      BY <1>1, <1>2, <2>3
    <3> QED BY <2>3, <3>1 DEF WorkInv
  <2>4. ASSUME NEW d \in Cpus, op'[d].pc = "insert" \/ op'[d].pc = "verify", d # c
        PROVE  /\ op'[d] = op[d] /\ header'[op[d].page] = header[op[d].page]
               /\ Met(header'[op'[d].page]) = Starts(op[d].page)
    <3>1. op'[d] = op[d] /\ op[d].pc \in Working
      BY <1>2, <1>8, <2>4
    <3>2. op[d].page \in Pages /\ op[d].page # p
      BY <1>1, <2>4, <3>1 DEF WorkInv, InPool
    <3>3. header'[op[d].page] = header[op[d].page]
      BY <1>1, <3>2
    <3> QED BY <3>1, <3>3 DEF Starts
  <2>5. ASSUME NEW d \in Cpus, op'[d].pc = "insert" PROVE Fragment(op[d])'
    <3>1. CASE d = c
      <4>1. op'[d] = o /\ o.pc = "insert" /\ o.page = p /\ Starts(p)' = new
        BY <1>1, <1>2, <1>6, <1>8, <2>5, <3>1
      <4>2. Met(header'[p]) = new
        BY <4>1 DEF Starts
      <4> QED BY <1>1, <4>1, <4>2 DEF Fragment, Starts
    <3>2. CASE d # c
      <4>1. op'[d] = op[d] /\ header'[op[d].page] = header[op[d].page]
            /\ Met(header'[op'[d].page]) = Starts(op[d].page)
        BY <2>4, <2>5, <3>2
      <4>2. Fragment(op[d])
        BY <2>5, <4>1 DEF WorkInv
      <4> QED BY <4>1, <4>2 DEF Fragment, Starts
    <3> QED BY <3>1, <3>2
  <2>6. ASSUME NEW d \in Cpus, op'[d].pc = "verify", ~op'[d].touched
        PROVE  op'[d].unit \in Starts(op[d].page)'
    <3>1. CASE d = c
      <4>1. op'[d] = o /\ o.pc = "verify" /\ o.page = p /\ Starts(p)' = new
        BY <1>1, <1>2, <1>6, <1>8, <2>6, <3>1
      <4>2. Met(header'[p]) = new
        BY <4>1 DEF Starts
      <4> QED BY <1>1, <4>1, <4>2 DEF Starts
    <3>2. CASE d # c
      <4>1. op'[d] = op[d] /\ Met(header'[op'[d].page]) = Starts(op[d].page)
        BY <2>4, <2>6, <3>2
      <4>2. op[d].unit \in Starts(op[d].page)
        BY <2>6, <4>1 DEF WorkInv
      <4> QED BY <4>1, <4>2 DEF Starts
    <3> QED BY <3>1, <3>2
  <2> QED BY <2>1, <2>2, <2>3, <2>5, <2>6 DEF WorkInv
<1> QED BY <1>3, <1>4, <1>5, <1>6, <1>7, <1>9, <1>10, <1>11, <1>12

(* The blocks of the page are used by those who have them, as before on    *)
(* the other pages.                                                        *)
AloneUsed(p, new) ==
  /\ \A b \in Blocks : b[1] # p => (b \in held' <=> b \in held)
  /\ p \in Staying' =>
       /\ \A u \in new : header'[p][u].used <=> <<p, u>> \in Occupied'
       /\ \E u \in new : header'[p][u].used
  /\ \A u \in 0 .. Units - 1 : <<p, u>> \in Occupied' =>
       p \in Staying' /\ u \in new /\ header'[p][u].size \in Requests
  /\ \A u \in 0 .. Units - 1 : ~(<<p, u>> \in held' /\ <<p, u>> \in Fresh')

LEMMA AloneUses ==
  ASSUME PoolInv, NEW c \in Cpus, NEW p, NEW o, NEW new, Alone(c, p, o, new), AloneUsed(p, new)
  PROVE  UsesInv'
<1> USE UnitsAssumption DEF PoolInv
<1>1. /\ Types'
      /\ \A q \in Pages : q # p => Starts(q)' = Starts(q) /\ (q \in InPool' <=> q \in InPool)
      /\ p \in InPool' <=> p \notin spare'
      /\ p \notin spare' => Starts(p)' = new
      /\ \A b : b \in Fresh' <=> (b \in Fresh /\ b[1] # p) \/ (o.pc \in {"insert", "verify"} /\ b = <<p, 0>>)
      /\ \A q : q \in Leaving' <=> (q \in Leaving /\ q # p) \/ (o.pc = "release" /\ q = p)
  BY AloneKeeps
<1>2. /\ p \in Pages /\ (o.pc \in Working => p \notin spare')
      /\ \A q \in Pages : q # p => header'[q] = header[q]
      /\ \A d \in Cpus : d # c /\ op[d].pc \in Working => op[d].page # p
      /\ held' \subseteq Blocks
  BY DEF Alone
<1>3. /\ \A b \in Blocks : b[1] # p => (b \in held' <=> b \in held)
      /\ p \in Staying' =>
           /\ \A u \in new : header'[p][u].used <=> <<p, u>> \in Occupied'
           /\ \E u \in new : header'[p][u].used
      /\ \A u \in 0 .. Units - 1 : <<p, u>> \in Occupied' =>
           p \in Staying' /\ u \in new /\ header'[p][u].size \in Requests
      /\ \A u \in 0 .. Units - 1 : ~(<<p, u>> \in held' /\ <<p, u>> \in Fresh')
  BY DEF AloneUsed
<1>4. \A q \in Pages : q # p => (q \in Staying' <=> q \in Staying)
  BY <1>1 DEF Staying
<1>5. Staying' \subseteq Pages /\ (p \in Staying' => p \notin spare')
  BY <1>1 DEF Staying, InPool
<1>6. Fresh' \subseteq Blocks
  <2>1. Fresh \subseteq Blocks
    BY OccupiedTyped DEF Occupied
  <2>2. <<p, 0>> \in Blocks
    BY <1>2 DEF Blocks
  <2> QED BY <1>1, <2>1, <2>2
<1>7. \A b \in Blocks : b[1] # p => (b \in Occupied' <=> b \in Occupied) /\ (b \in Fresh' <=> b \in Fresh)
  <2>1. \A b \in Blocks : b[1] # p => b # <<p, 0>>
    OBVIOUS
  <2> QED BY <1>1, <1>3, <2>1 DEF Occupied
<1>8. Occupied' \subseteq Blocks
  BY <1>2, <1>6 DEF Occupied
<1>9. ASSUME NEW b \in Occupied'
      PROVE  b[1] \in Staying' /\ b[2] \in Starts(b[1])' /\ header'[b[1]][b[2]].size \in Requests
  <2>1. PICK q, v : q = b[1] /\ v = b[2]
    OBVIOUS
  <2>2. b \in Blocks /\ b = <<q, v>> /\ q \in Pages /\ v \in 0 .. Units - 1
    BY <1>8, <2>1, SizesAre
  <2>3. CASE q = p
    <3>1. p \in Staying' /\ v \in new /\ header'[p][v].size \in Requests
      BY <1>3, <2>2, <2>3
    <3>2. Met(header'[p]) = new
      BY <1>1, <1>5, <3>1 DEF Starts
    <3> QED BY <2>1, <2>3, <3>1, <3>2 DEF Starts
  <2>4. CASE q # p
    <3>1. b \in Occupied
      BY <1>7, <2>1, <2>2, <2>4
    <3>2. q \in Staying /\ v \in Starts(q) /\ header[q][v].size \in Requests
      BY <2>1, <3>1 DEF UsesInv
    <3>3. q \in Staying' /\ header'[q] = header[q]
      BY <1>2, <1>4, <2>2, <2>4, <3>2
    <3> QED BY <2>1, <3>2, <3>3 DEF Starts
  <2> QED BY <2>3, <2>4
<1>10. ASSUME NEW q \in Staying', NEW v \in Starts(q)'
       PROVE  header'[q][v].used <=> <<q, v>> \in Occupied'
  <2>1. q \in Pages
    BY <1>5
  <2>2. CASE q = p
    <3>1. v \in new
      BY <1>1, <1>5, <1>10, <2>2
    <3> QED BY <1>3, <1>10, <2>2, <3>1
  <2>3. CASE q # p
    <3>1. q \in Staying /\ v \in Starts(q) /\ header'[q] = header[q]
      BY <1>1, <1>2, <1>4, <1>10, <2>1, <2>3
    <3>2. q \in InPool
      BY <3>1 DEF Staying
    <3>3. v \in 0 .. Units - 1
      BY <3>1, <3>2, StartsAre
    <3>4. <<q, v>> \in Blocks
      BY <2>1, <3>3 DEF Blocks
    <3>5. <<q, v>> \in Occupied' <=> <<q, v>> \in Occupied
      <4>1. <<q, v>>[1] # p
        BY <2>3
      <4> QED BY <1>7, <3>4, <4>1
    <3> QED BY <3>1, <3>5 DEF UsesInv
  <2> QED BY <2>2, <2>3
<1>11. held' \cap Fresh' = {}
  <2> SUFFICES ASSUME NEW b \in held', b \in Fresh' PROVE FALSE
    OBVIOUS
  <2>1. PICK q, v : q = b[1] /\ v = b[2]
    OBVIOUS
  <2>2. b \in Blocks /\ b = <<q, v>> /\ q \in Pages /\ v \in 0 .. Units - 1
    BY <1>6, <2>1, SizesAre
  <2>3. q # p
    BY <1>3, <2>2
  <2>4. b \in held /\ b \in Fresh
    BY <1>3, <1>7, <2>1, <2>2, <2>3
  <2> QED BY <2>4 DEF UsesInv
<1>12. ASSUME NEW q \in Staying' PROVE \E v \in Starts(q)' : header'[q][v].used
  <2>1. CASE q = p
    BY <1>1, <1>3, <1>5, <1>12, <2>1
  <2>2. CASE q # p
    <3>1. q \in Pages /\ q \in Staying
      BY <1>4, <1>5, <2>2
    <3> QED BY <1>1, <1>2, <2>2, <3>1 DEF UsesInv
  <2> QED BY <2>1, <2>2
<1> QED BY <1>9, <1>10, <1>11, <1>12 DEF UsesInv

(* The lists have what they should have of the page, and what they had of  *)
(* the others.                                                             *)
AloneListed(p, new) ==
  /\ Filed(lists', Sizes')
  /\ \A b \in Blocks : b[1] # p => (b \in Entries(lists') <=> b \in Entries(lists))
  /\ \A u \in 0 .. Units - 1 : <<p, u>> \in Entries(lists') <=>
       /\ p \in Staying' /\ u \in new /\ ~header'[p][u].used /\ header'[p][u].size > 1
       /\ <<p, u>> \notin Pending'

LEMMA AloneLists ==
  ASSUME PoolInv, NEW c \in Cpus, NEW p, NEW o, NEW new, Alone(c, p, o, new), AloneListed(p, new)
  PROVE  ListsInv'
<1> USE UnitsAssumption DEF PoolInv
<1>1. /\ \A q \in Pages : q # p => Starts(q)' = Starts(q) /\ (q \in InPool' <=> q \in InPool)
      /\ p \in InPool' <=> p \notin spare'
      /\ p \notin spare' => Starts(p)' = new
      /\ \A b : b \in Pending' <=> (b \in Pending /\ b[1] # p) \/ (o.pc = "insert" /\ b = <<p, o.n>>)
      /\ \A q : q \in Leaving' <=> (q \in Leaving /\ q # p) \/ (o.pc = "release" /\ q = p)
  BY AloneKeeps
<1>2. \A q \in Pages : q # p => header'[q] = header[q]
  BY DEF Alone
<1>3. \A q \in Pages : q # p => (q \in Staying' <=> q \in Staying)
  BY <1>1 DEF Staying
<1>4. p \in Staying' => p \notin spare'
  BY DEF Staying, InPool
<1>5. ASSUME NEW b \in Blocks PROVE b \in Entries(lists') <=> Wanted(b)'
  <2>1. PICK q, v : q = b[1] /\ v = b[2]
    OBVIOUS
  <2>2. q \in Pages /\ v \in 0 .. Units - 1 /\ b = <<q, v>>
    BY <2>1, SizesAre
  <2>3. Wanted(b)' <=> /\ q \in Staying' /\ v \in Starts(q)' /\ ~header'[q][v].used
                       /\ header'[q][v].size > 1 /\ b \notin Pending'
    BY <2>1 DEF Wanted, Starts
  <2>4. CASE q = p
    <3>1. p \in Staying' => Starts(p)' = new
      BY <1>1, <1>4
    <3>2. <<p, v>> \in Entries(lists') <=>
            /\ p \in Staying' /\ v \in new /\ ~header'[p][v].used /\ header'[p][v].size > 1
            /\ <<p, v>> \notin Pending'
      BY <2>2 DEF AloneListed
    <3> QED BY <2>2, <2>3, <2>4, <3>1, <3>2
  <2>5. CASE q # p
    <3>1. b \in Entries(lists') <=> b \in Entries(lists)
      BY <2>1, <2>5 DEF AloneListed
    <3>2. b \in Entries(lists) <=> Wanted(b)
      BY DEF ListsInv
    <3>3. Wanted(b) <=> /\ q \in Staying /\ v \in Starts(q) /\ ~header[q][v].used
                        /\ header[q][v].size > 1 /\ b \notin Pending
      BY <2>1 DEF Wanted
    <3>4. b \in Pending' <=> b \in Pending
      BY <1>1, <2>2, <2>5
    <3> QED BY <1>1, <1>2, <1>3, <2>2, <2>3, <2>5, <3>1, <3>2, <3>3, <3>4
  <2> QED BY <2>4, <2>5
<1> QED BY <1>5 DEF ListsInv, AloneListed, Blocks

LEMMA AloneSizes ==
  ASSUME PoolInv, NEW c \in Cpus, NEW p, NEW o, NEW new, Alone(c, p, o, new),
         \A u \in 0 .. Units - 1 : <<p, u>> \in Entries(lists) => header'[p][u].size = header[p][u].size
  PROVE  Filed(lists, Sizes')
<1> USE DEF PoolInv
<1>1. PICK sizes : sizes = Sizes'
  OBVIOUS
<1>2. PICK old : old = Sizes
  OBVIOUS
<1>3. Filed(lists, old)
  BY <1>2 DEF ListsInv
<1>4. ASSUME NEW b \in Entries(lists) PROVE sizes[b] = old[b]
  <2>1. b \in Blocks
    BY <1>3, EntriesTyped
  <2>2. PICK q, v : q = b[1] /\ v = b[2]
    OBVIOUS
  <2>3. q \in Pages /\ v \in 0 .. Units - 1 /\ b = <<q, v>> /\ old[b] = header[q][v].size
    BY <1>2, <2>1, <2>2, SizesAre
  <2>4. sizes[b] = header'[q][v].size
    BY <1>1, <2>1, <2>2 DEF Sizes
  <2>5. q # p => header'[q] = header[q]
    BY <2>3 DEF Alone
  <2> QED BY <2>3, <2>4, <2>5
<1>5. Filed(lists, sizes)
  BY <1>3, <1>4, ResizeFiled
<1> QED BY <1>1, <1>5

(* A page whose processor is the only one with business there.             *)
LEMMA OnlyWorker ==
  ASSUME PoolInv, NEW c \in Cpus, op[c].pc \in Working
  PROVE  /\ op[c].page \in Pages /\ op[c].page \in InPool
         /\ \A d \in Cpus : d # c /\ op[d].pc \in Working => op[d].page # op[c].page
BY DEF PoolInv, WorkInv, InPool

(* AllocatePage: a page is cut in two.                                     *)
LEMMA PageComes ==
  ASSUME PoolInv, NEW c \in Cpus, NEW p \in spare, op[c].pc = "search",
         spare' = spare \ {p},
         header' = [header EXCEPT ![p][0] = Header(op[c].n, 0, TRUE),
                                  ![p][op[c].n] = Header(Units - op[c].n, op[c].n, FALSE)],
         op' = [op EXCEPT ![c] = [op[c] EXCEPT !.pc = "insert", !.page = p]],
         UNCHANGED <<lists, held, panicked>>
  PROVE  PoolInv'
<1> USE UnitsAssumption DEF PoolInv
<1>1. PICK n \in 2 .. Units - 1 : n = op[c].n /\ n \in Requests
  <2>1. op[c].n \in Requests
    BY DEF WorkInv
  <2> QED BY <2>1
<1>2. p \in Pages /\ p \notin InPool
  BY DEF Types, InPool
<1>3. PICK first, second : first = Header(n, 0, TRUE) /\ second = Header(Units - n, n, FALSE)
  OBVIOUS
<1>4. /\ first \in BlockHeaders /\ first.size = n /\ first.prev = 0 /\ first.used = TRUE
      /\ second \in BlockHeaders /\ second.size = Units - n /\ second.prev = n /\ second.used = FALSE
  BY <1>3 DEF Header, BlockHeaders
<1>5. PICK h : h = header[p] /\ h \in Headers
  BY <1>2 DEF Types
<1>6. PICK g : g = [[h EXCEPT ![0] = first] EXCEPT ![n] = second]
  OBVIOUS
<1>7. g \in Headers /\ g[0] = first /\ g[n] = second
  <2>1. PICK e : e = [h EXCEPT ![0] = first]
    OBVIOUS
  <2>2. e \in Headers /\ e[0] = first
    BY <1>4, <1>5, <2>1 DEF Headers
  <2>3. g = [e EXCEPT ![n] = second]
    BY <1>6, <2>1
  <2> QED BY <1>1, <1>4, <2>2, <2>3 DEF Headers
<1>8. header' = [header EXCEPT ![p] = g]
  BY <1>1, <1>2, <1>3, <1>5, <1>6 DEF Types
<1>9. header' \in [Pages -> Headers] /\ header'[p] = g /\ \A q \in Pages : q # p => header'[q] = header[q]
  BY <1>2, <1>7, <1>8 DEF Types
<1>10. PICK o : o = [op[c] EXCEPT !.pc = "insert", !.page = p]
  OBVIOUS
<1>11. o \in Operations /\ o.pc = "insert" /\ o.page = p /\ o.n = n /\ o.unit = 0
  <2>1. op[c] \in Operations /\ op[c].unit = 0
    BY DEF Types, WorkInv
  <2> QED BY <1>1, <1>2, <1>10, <2>1 DEF Operations
<1>12. PICK new : new = {0, n}
  OBVIOUS
<1>13. Tiled(g, new) /\ Coalesced(g, new)
  <2>1. BlockIn(g, new, 0)
    BY <1>4, <1>7, <1>12 DEF BlockIn
  <2>2. BlockIn(g, new, n)
    BY <1>4, <1>7, <1>12 DEF BlockIn
  <2>3. BlockBefore(g, new, n)
    BY <1>4, <1>7, <1>12 DEF BlockBefore
  <2>4. Tiled(g, new)
    BY <1>4, <1>7, <1>12, <2>1, <2>2, <2>3 DEF Tiled
  <2>5. Coalesced(g, new)
    BY <1>4, <1>7, <1>12 DEF Coalesced
  <2> QED BY <2>4, <2>5
<1>14. op[c].pc \notin Working /\ \A d \in Cpus : op[d].pc \in Working => op[d].page # p
  BY <1>2 DEF Working, WorkInv
<1>15. Alone(c, p, o, new)
  <2>1. op' = [op EXCEPT ![c] = o] /\ o.pc # "search" /\ o.pc # "verify"
    BY <1>10, <1>11
  <2>2. /\ spare' \subseteq Pages /\ held' \subseteq Blocks /\ panicked' \in BOOLEAN
        /\ p \notin spare' /\ \A q \in Pages : q # p => (q \in spare' <=> q \in spare)
    BY DEF Types
  <2>3. /\ o.n \in Requests /\ o.unit = 0 /\ o.n \in new
        /\ header'[p][0].size = o.n
        /\ header'[p][o.n].size = Units - o.n /\ ~header'[p][o.n].used
    BY <1>1, <1>4, <1>7, <1>9, <1>11, <1>12
  <2>4. Tiled(header'[p], new) /\ Coalesced(header'[p], new)
    BY <1>9, <1>13
  <2> QED BY <1>2, <1>9, <1>11, <1>14, <2>1, <2>2, <2>3, <2>4 DEF Alone
<1>16. /\ Types' /\ PagesInv' /\ WorkInv'
       /\ p \in InPool' <=> p \notin spare'
       /\ \A b : b \in Fresh' <=> (b \in Fresh /\ b[1] # p) \/ (o.pc \in {"insert", "verify"} /\ b = <<p, 0>>)
       /\ \A b : b \in Pending' <=> (b \in Pending /\ b[1] # p) \/ (o.pc = "insert" /\ b = <<p, o.n>>)
       /\ \A q : q \in Leaving' <=> (q \in Leaving /\ q # p) \/ (o.pc = "release" /\ q = p)
  BY <1>15, AloneKeeps
<1>17. p \in Staying' /\ p \notin Staying
  BY <1>2, <1>11, <1>16 DEF Staying
<1>18. \A b \in Occupied : b[1] # p
  BY <1>17 DEF UsesInv
<1>19. \A u \in 0 .. Units - 1 : /\ <<p, u>> \notin held'
                                 /\ <<p, u>> \in Occupied' <=> u = 0
  <2>1. \A u : <<p, u>> \notin held /\ <<p, u>> \notin Fresh
    <3> SUFFICES ASSUME NEW u, <<p, u>> \in Occupied PROVE FALSE
      BY DEF Occupied
    <3>1. <<p, u>>[1] = p
      OBVIOUS
    <3> QED BY <1>18, <3>1
  <2> QED BY <1>11, <1>16, <2>1 DEF Occupied
<1>20. AloneUsed(p, new)
  <2>1. \A u \in new : u \in 0 .. Units - 1 /\ (g[u].used <=> u = 0)
    BY <1>1, <1>4, <1>7, <1>12
  <2>2. 0 \in new /\ g[0].used /\ g[0].size \in Requests
    BY <1>1, <1>4, <1>7, <1>12
  <2>3. \A u \in new : header'[p][u].used <=> <<p, u>> \in Occupied'
    BY <1>9, <1>19, <2>1
  <2>4. \A b \in Blocks : b[1] # p => (b \in held' <=> b \in held)
    OBVIOUS
  <2> QED BY <1>9, <1>17, <1>19, <2>2, <2>3, <2>4 DEF AloneUsed
<1>21. UsesInv'
  BY <1>15, <1>20, AloneUses
<1>22. \A u \in 0 .. Units - 1 : <<p, u>> \notin Entries(lists)
  <2> SUFFICES ASSUME NEW u \in 0 .. Units - 1, <<p, u>> \in Entries(lists) PROVE FALSE
    OBVIOUS
  <2>1. <<p, u>> \in Blocks /\ <<p, u>>[1] = p
    BY <1>2 DEF Blocks
  <2> QED BY <1>17, <2>1 DEF ListsInv, Wanted
<1>23. Filed(lists, Sizes')
  BY <1>15, <1>22, AloneSizes
<1>24. \A u \in new : ~g[u].used => <<p, u>> \in Pending'
  BY <1>4, <1>7, <1>11, <1>12, <1>16
<1>25. AloneListed(p, new)
  BY <1>9, <1>22, <1>23, <1>24 DEF AloneListed
<1>26. ListsInv'
  BY <1>15, <1>25, AloneLists
<1> QED BY <1>16, <1>21, <1>26

(* ListFreshPage: the rest of the page is listed.                          *)
LEMMA RestComes ==
  ASSUME PoolInv, NEW c \in Cpus, ListFreshPage(c)
  PROVE  PoolInv' /\ panicked' = panicked
<1> USE UnitsAssumption DEF PoolInv
<1>1. PICK p : p = op[c].page
  OBVIOUS
<1>2. op[c].pc = "insert" /\ op[c].pc \in Working
  BY DEF ListFreshPage, Working
<1>3. /\ p \in Pages /\ p \in InPool
      /\ \A d \in Cpus : d # c /\ op[d].pc \in Working => op[d].page # p
  BY <1>1, <1>2, OnlyWorker
<1>4. PICK h, M : h = header[p] /\ M = Starts(p)
  OBVIOUS
<1>5. Tiled(h, M) /\ Coalesced(h, M) /\ 0 \in M /\ \A v \in M : v \in 0 .. Units - 1
  BY <1>3, <1>4, StartsAre DEF Tiled
<1>6. Fragment(op[c])
  BY <1>2 DEF WorkInv
<1>b. op[c].n \in 2 .. Units - 1
  BY <1>6 DEF Fragment
<1>7. PICK n \in 2 .. Units - 1 : n = op[c].n
  BY <1>b
<1>8. n \in Requests /\ op[c].unit = 0 /\ n \in M /\ h[0].size = n /\ h[n].size = Units - n /\ ~h[n].used
  BY <1>1, <1>4, <1>6, <1>7 DEF Fragment
<1>9. PageVerified(h, 0)
  BY <1>5, TiledVerified
<1>10. PICK o : o = [op[c] EXCEPT !.pc = "verify"]
  OBVIOUS
<1>11. /\ lists' = InsertRemainder(lists, p, n, Units - n)
       /\ op' = [op EXCEPT ![c] = o]
       /\ UNCHANGED <<header, spare, held, panicked>>
  BY <1>1, <1>4, <1>7, <1>9, <1>10 DEF ListFreshPage
<1>12. o \in Operations /\ o.pc = "verify" /\ o.page = p /\ o.unit = 0
  BY <1>1, <1>8, <1>10 DEF Types, Operations
<1>13. Alone(c, p, o, M)
  <2>1. /\ spare' \subseteq Pages /\ held' \subseteq Blocks /\ panicked' \in BOOLEAN
        /\ header' \in [Pages -> Headers] /\ header' = header /\ spare' = spare /\ p \notin spare'
    BY <1>3, <1>11 DEF Types, InPool
  <2> QED BY <1>1, <1>3, <1>4, <1>5, <1>11, <1>12, <2>1 DEF Alone
<1>14. /\ Types' /\ PagesInv' /\ WorkInv'
       /\ \A b : b \in Fresh' <=> (b \in Fresh /\ b[1] # p) \/ (o.pc \in {"insert", "verify"} /\ b = <<p, 0>>)
       /\ \A b : b \in Pending' <=> (b \in Pending /\ b[1] # p) \/ (o.pc = "insert" /\ b = <<p, o.n>>)
       /\ \A q : q \in Leaving' <=> (q \in Leaving /\ q # p) \/ (o.pc = "release" /\ q = p)
  BY <1>13, AloneKeeps
<1>15. p \in Staying /\ p \in Staying'
  <2>1. p \notin Leaving
    BY <1>2, <1>3 DEF Leaving, Working
  <2> QED BY <1>3, <1>11, <1>12, <1>14, <2>1 DEF Staying, InPool
<1>16. \A u : <<p, u>> \in Fresh <=> u = 0
  BY <1>1, <1>2, <1>3 DEF Fresh, Working
<1>17. \A u : <<p, u>> \in Fresh' <=> u = 0
  BY <1>12, <1>14
<1>18. AloneUsed(p, M)
  <2>1. \A u : <<p, u>> \in Occupied' <=> <<p, u>> \in Occupied
    BY <1>11, <1>16, <1>17 DEF Occupied
  <2>2. /\ \A u \in M : h[u].used <=> <<p, u>> \in Occupied
        /\ \E u \in M : h[u].used
    BY <1>4, <1>15 DEF UsesInv
  <2>3. ASSUME NEW u, <<p, u>> \in Occupied PROVE u \in M /\ h[u].size \in Requests
    <3>1. <<p, u>>[1] = p /\ <<p, u>>[2] = u
      OBVIOUS
    <3> QED BY <1>4, <2>3, <3>1 DEF UsesInv
  <2>4. \A u : ~(<<p, u>> \in held' /\ <<p, u>> \in Fresh')
    BY <1>11, <1>16, <1>17 DEF UsesInv
  <2> QED BY <1>4, <1>11, <1>15, <2>1, <2>2, <2>3, <2>4 DEF AloneUsed
<1>19. UsesInv'
  BY <1>13, <1>18, AloneUses
<1>20. \A u : <<p, u>> \in Pending <=> u = n
  BY <1>1, <1>2, <1>3, <1>7 DEF Pending, Working
<1>21. \A u : <<p, u>> \notin Pending'
  BY <1>12, <1>14
<1>22. /\ Filed(lists', Sizes')
       /\ \A b : b \in Entries(lists') <=> b \in Entries(lists) \/ (b = <<p, n>> /\ Units - n > 1)
  <2>1. PICK sizes : sizes = Sizes'
    OBVIOUS
  <2>2. PICK all : all = lists'
    OBVIOUS
  <2>3. PICK m \in 1 .. Units : m = Units - n
    OBVIOUS
  <2>4. <<p, n>> \in Blocks
    BY <1>3 DEF Blocks
  <2>5. Filed(lists, sizes)
    <3>1. Filed(lists, Sizes')
      BY <1>11, <1>13, AloneSizes
    <3> QED BY <2>1, <3>1
  <2>6. sizes[<<p, n>>] = m
    <3>1. Sizes' = Sizes
      BY <1>11 DEF Sizes
    <3> QED BY <1>3, <1>4, <1>8, <2>1, <2>3, <3>1, SizesAre
  <2>7. <<p, n>> \notin Entries(lists)
    BY <1>20, <2>4 DEF ListsInv, Wanted
  <2>8. RestListed(lists, all, p, n, m)
    BY <1>11, <2>2, <2>3 DEF RestListed
  <2>9. Filed(lists, sizes) /\ RestListed(lists, all, p, n, m) /\ <<p, n>> \in Blocks
           /\ <<p, n>> \notin Entries(lists) /\ m \in 1 .. Units /\ sizes[<<p, n>>] = m
    BY <2>3, <2>4, <2>5, <2>6, <2>7, <2>8
  <2>10. PICK old : old = lists
    OBVIOUS
  <2>11. Filed(all, sizes) /\ \A b : b \in Entries(all) <=> b \in Entries(old) \/ (b = <<p, n>> /\ m > 1)
    BY <2>9, <2>10, RemainderFiled
  <2> QED BY <2>1, <2>2, <2>3, <2>10, <2>11
<1>23. AloneListed(p, M)
  <2>1. \A b \in Blocks : b[1] # p => (b \in Entries(lists') <=> b \in Entries(lists))
    BY <1>22
  <2>2. ASSUME NEW u \in 0 .. Units - 1
        PROVE  <<p, u>> \in Entries(lists') <=>
                 /\ p \in Staying' /\ u \in M /\ ~header'[p][u].used /\ header'[p][u].size > 1
                 /\ <<p, u>> \notin Pending'
    <3>1. <<p, u>> \in Blocks /\ <<p, u>>[1] = p /\ <<p, u>>[2] = u
      BY <1>3 DEF Blocks
    <3>2. <<p, u>> \in Entries(lists) <=> u \in M /\ ~h[u].used /\ h[u].size > 1 /\ u # n
      BY <1>4, <1>15, <1>20, <3>1 DEF ListsInv, Wanted
    <3>3. <<p, u>> \in Entries(lists') <=> u \in M /\ ~h[u].used /\ h[u].size > 1
      BY <1>8, <1>22, <3>2
    <3> QED BY <1>4, <1>11, <1>15, <1>21, <3>3
  <2> QED BY <1>22, <2>1, <2>2 DEF AloneListed
<1>24. ListsInv'
  BY <1>13, <1>23, AloneLists
<1> QED BY <1>11, <1>14, <1>19, <1>24

(* VerifyFreshPage: the block of the fresh page goes to its caller.        *)
LEMMA FreshGiven ==
  ASSUME PoolInv, NEW c \in Cpus, op[c].pc = "verify",
         held' = held \cup {<<op[c].page, 0>>},
         header' = [header EXCEPT ![op[c].page] = Given(header[op[c].page], 0)],
         op' = [op EXCEPT ![c] = Idle],
         UNCHANGED <<lists, spare, panicked>>
  PROVE  PoolInv'
<1> USE UnitsAssumption DEF PoolInv
<1>1. PICK p : p = op[c].page
  OBVIOUS
<1>2. op[c].pc \in Working
  BY DEF Working
<1>3. /\ p \in Pages /\ p \in InPool
      /\ \A d \in Cpus : d # c /\ op[d].pc \in Working => op[d].page # p
  BY <1>1, <1>2, OnlyWorker
<1>4. PICK h, M : h = header[p] /\ M = Starts(p)
  OBVIOUS
<1>5. /\ Tiled(h, M) /\ Coalesced(h, M) /\ 0 \in M /\ \A v \in M : v \in 0 .. Units - 1
      /\ h \in Headers
  BY <1>3, <1>4, StartsAre DEF Tiled, Types
<1>6. p \in Staying
  <2>1. p \notin Leaving
    BY <1>3 DEF Leaving, Working
  <2> QED BY <1>3, <2>1 DEF Staying
<1>7. \A u : <<p, u>> \in Fresh <=> u = 0
  BY <1>1, <1>3 DEF Fresh, Working
<1>8. h[0].used
  BY <1>4, <1>5, <1>6, <1>7 DEF UsesInv, Occupied
<1>9. PICK g : g = Given(h, 0)
  OBVIOUS
<1>10. /\ Tiled(g, M) /\ g \in Headers
       /\ \A v \in M : g[v].size = h[v].size /\ g[v].used = h[v].used
  <2>1. PICK u : u = 0
    OBVIOUS
  <2>2. GivenTo(h, M, u, g)
    BY <1>5, <1>9, <2>1 DEF GivenTo
  <2>3. /\ Tiled(g, M) /\ g \in Headers /\ g[u].used
        /\ \A v \in M : Same(h, g, v) /\ (v # u => g[v].used = h[v].used)
    BY <2>2, GivenKeeps
  <2>4. h[0].used \in BOOLEAN /\ g[0].used \in BOOLEAN
    BY <1>5, <2>3 DEF Headers, BlockHeaders
  <2> QED BY <1>8, <2>1, <2>3, <2>4 DEF Same
<1>11. Coalesced(g, M)
  BY <1>5, <1>10 DEF Coalesced
<1>12. header' \in [Pages -> Headers] /\ header'[p] = g /\ \A q \in Pages : q # p => header'[q] = header[q]
  BY <1>1, <1>3, <1>4, <1>9, <1>10 DEF Types
<1>13. PICK o : o = Idle
  OBVIOUS
<1>14. o \in Operations /\ o.pc = "idle" /\ o.pc \notin Working
  BY <1>13 DEF Idle, Operations, Working
<1>15. Alone(c, p, o, M)
  <2>1. <<p, 0>> \in Blocks
    BY <1>3 DEF Blocks
  <2>2. spare' \subseteq Pages /\ held' \subseteq Blocks /\ panicked' \in BOOLEAN /\ spare' = spare
    BY <1>1, <2>1 DEF Types
  <2> QED BY <1>1, <1>3, <1>10, <1>11, <1>12, <1>13, <1>14, <2>2 DEF Alone
<1>16. /\ Types' /\ PagesInv' /\ WorkInv'
       /\ \A b : b \in Fresh' <=> (b \in Fresh /\ b[1] # p) \/ (o.pc \in {"insert", "verify"} /\ b = <<p, 0>>)
       /\ \A b : b \in Pending' <=> (b \in Pending /\ b[1] # p) \/ (o.pc = "insert" /\ b = <<p, o.n>>)
       /\ \A q : q \in Leaving' <=> (q \in Leaving /\ q # p) \/ (o.pc = "release" /\ q = p)
  BY <1>15, AloneKeeps
<1>17. p \in Staying'
  BY <1>3, <1>14, <1>16 DEF Staying, InPool
<1>18. \A u : <<p, u>> \notin Fresh'
  BY <1>14, <1>16
<1>19. \A u : <<p, u>> \in Occupied' <=> <<p, u>> \in Occupied
  BY <1>1, <1>7, <1>18 DEF Occupied
<1>20. AloneUsed(p, M)
  <2>2. /\ \A u \in M : h[u].used <=> <<p, u>> \in Occupied
        /\ \E u \in M : h[u].used
    BY <1>4, <1>6 DEF UsesInv
  <2>3. ASSUME NEW u, <<p, u>> \in Occupied PROVE u \in M /\ h[u].size \in Requests
    <3>1. <<p, u>>[1] = p /\ <<p, u>>[2] = u
      OBVIOUS
    <3> QED BY <1>4, <2>3, <3>1 DEF UsesInv
  <2>4. \A b \in Blocks : b[1] # p => (b \in held' <=> b \in held)
    <3>1. \A b \in Blocks : b[1] # p => b # <<p, 0>>
      OBVIOUS
    <3> QED BY <1>1, <3>1
  <2> QED BY <1>10, <1>12, <1>17, <1>18, <1>19, <2>2, <2>3, <2>4 DEF AloneUsed
<1>21. UsesInv'
  BY <1>15, <1>20, AloneUses
<1>22. ASSUME NEW u \in 0 .. Units - 1
       PROVE  <<p, u>> \in Entries(lists) <=> u \in M /\ ~h[u].used /\ h[u].size > 1
  <2>1. <<p, u>> \in Blocks /\ <<p, u>>[1] = p /\ <<p, u>>[2] = u
    BY <1>3 DEF Blocks
  <2>2. <<p, u>> \notin Pending
    BY <1>1, <1>3 DEF Pending, Working
  <2> QED BY <1>4, <1>6, <2>1, <2>2 DEF ListsInv, Wanted
<1>23. Filed(lists, Sizes')
  <2>1. \A u \in 0 .. Units - 1 : <<p, u>> \in Entries(lists) => header'[p][u].size = header[p][u].size
    BY <1>4, <1>10, <1>12, <1>22
  <2> QED BY <1>15, <2>1, AloneSizes
<1>24. AloneListed(p, M)
  <2>1. \A u : <<p, u>> \notin Pending'
    BY <1>14, <1>16
  <2> QED BY <1>10, <1>12, <1>17, <1>22, <1>23, <2>1 DEF AloneListed
<1>25. ListsInv'
  BY <1>15, <1>24, AloneLists
<1> QED BY <1>16, <1>21, <1>25

(* ReleasePage: the page leaves.                                           *)
LEMMA PageGoes ==
  ASSUME PoolInv, NEW c \in Cpus, ReleasePage(c)
  PROVE  PoolInv' /\ panicked' = panicked
<1> USE UnitsAssumption DEF PoolInv
<1>1. PICK p : p = op[c].page
  OBVIOUS
<1>2. op[c].pc = "release" /\ op[c].pc \in Working
  BY DEF ReleasePage, Working
<1>3. /\ p \in Pages /\ p \in InPool
      /\ \A d \in Cpus : d # c /\ op[d].pc \in Working => op[d].page # p
  BY <1>1, <1>2, OnlyWorker
<1>4. PICK g : g = [u \in 0 .. Units - 1 |-> NoHeader]
  OBVIOUS
<1>5. g \in Headers
  BY <1>4 DEF NoHeader, Headers, BlockHeaders
<1>6. PICK o : o = Idle
  OBVIOUS
<1>7. /\ spare' = spare \cup {p} /\ header' = [header EXCEPT ![p] = g]
      /\ op' = [op EXCEPT ![c] = o] /\ UNCHANGED <<lists, held, panicked>>
  BY <1>1, <1>4, <1>6 DEF ReleasePage
<1>8. o \in Operations /\ o.pc = "idle" /\ o.pc \notin Working
  BY <1>6 DEF Idle, Operations, Working
<1>9. header' \in [Pages -> Headers] /\ \A q \in Pages : q # p => header'[q] = header[q]
  BY <1>3, <1>5, <1>7 DEF Types
<1>10. PICK none : none = {}
  OBVIOUS
<1>11. Alone(c, p, o, none)
  <2>1. spare' \subseteq Pages /\ held' \subseteq Blocks /\ panicked' \in BOOLEAN
    BY <1>3, <1>7 DEF Types
  <2> QED BY <1>1, <1>3, <1>7, <1>8, <1>9, <2>1 DEF Alone
<1>12. /\ Types' /\ PagesInv' /\ WorkInv'
       /\ p \in InPool' <=> p \notin spare'
       /\ \A b : b \in Fresh' <=> (b \in Fresh /\ b[1] # p) \/ (o.pc \in {"insert", "verify"} /\ b = <<p, 0>>)
  BY <1>11, AloneKeeps
<1>13. p \notin Staying /\ p \notin Staying'
  BY <1>1, <1>2, <1>7, <1>12 DEF Staying, Leaving
<1>14. \A u : <<p, u>> \notin Occupied /\ <<p, u>> \notin Occupied'
  <2>1. ASSUME NEW u, <<p, u>> \in Occupied PROVE FALSE
    <3>1. <<p, u>>[1] = p
      OBVIOUS
    <3> QED BY <1>13, <2>1, <3>1 DEF UsesInv
  <2>2. \A u : <<p, u>> \notin Fresh'
    BY <1>8, <1>12
  <2> QED BY <1>7, <2>1, <2>2 DEF Occupied
<1>15. AloneUsed(p, none)
  BY <1>7, <1>13, <1>14 DEF AloneUsed, Occupied
<1>16. UsesInv'
  BY <1>11, <1>15, AloneUses
<1>17. \A u \in 0 .. Units - 1 : <<p, u>> \notin Entries(lists)
  <2> SUFFICES ASSUME NEW u \in 0 .. Units - 1, <<p, u>> \in Entries(lists) PROVE FALSE
    OBVIOUS
  <2>1. <<p, u>> \in Blocks /\ <<p, u>>[1] = p
    BY <1>3 DEF Blocks
  <2> QED BY <1>13, <2>1 DEF ListsInv, Wanted
<1>18. Filed(lists, Sizes')
  BY <1>11, <1>17, AloneSizes
<1>19. AloneListed(p, none)
  BY <1>7, <1>13, <1>17, <1>18 DEF AloneListed
<1>20. ListsInv'
  BY <1>11, <1>19, AloneLists
<1> QED BY <1>7, <1>12, <1>16, <1>20

-----------------------------------------------------------------------------
(* Every step.                                                             *)

(* The invariant holds at the start, where no page is in the pool.         *)
LEMMA InitHolds ==
  ASSUME Init
  PROVE  PoolInv
<1> USE UnitsAssumption DEF Init
<1>1. Idle.pc = "idle" /\ Idle \in Operations
  BY DEF Idle, Operations
<1>2. Types
  <2>1. NoHeader \in BlockHeaders
    BY DEF NoHeader, BlockHeaders
  <2> QED BY <1>1, <2>1 DEF Types, Headers
<1>3. InPool = {} /\ Staying = {}
  BY DEF InPool, Staying
<1>4. \A c \in Cpus : op[c].pc = "idle"
  BY <1>1
<1>5. Fresh = {} /\ Pending = {}
  BY <1>4 DEF Fresh, Pending
<1>6. PagesInv
  BY <1>3 DEF PagesInv
<1>7. UsesInv
  BY <1>3, <1>5 DEF UsesInv, Occupied
<1>8. WorkInv
  BY <1>4 DEF WorkInv, Working
<1>9. \A l \in 0 .. Units - 1 : lists[l] = << >> /\ Elements(lists[l]) = {} /\ Once(lists[l])
  BY DEF Elements, Once
<1>10. Filed(lists, Sizes) /\ Entries(lists) = {}
  <2>1. lists \in [0 .. Units - 1 -> Seq(Blocks)]
    OBVIOUS
  <2>2. Filed(lists, Sizes)
    BY <1>9, <2>1 DEF Filed
  <2> QED BY <1>9, <2>2 DEF Entries
<1>11. ListsInv
  BY <1>3, <1>10 DEF ListsInv, Wanted
<1> QED BY <1>2, <1>6, <1>7, <1>8, <1>11 DEF PoolInv

(* A panic changes nothing else.                                           *)
LEMMA PanicKeeps ==
  ASSUME PoolInv, Panic
  PROVE  PoolInv'
<1>1. UNCHANGED <<header, lists, spare, held>> /\ op' = op /\ panicked' \in BOOLEAN
  BY DEF Panic
<1>2. OpsSame
  BY <1>1 DEF OpsSame, PoolInv, Types, WorkInv
<1> QED BY <1>1, <1>2, QuietKeeps

LEMMA PageKeeps ==
  ASSUME PoolInv, NEW c \in Cpus, AllocatePage(c)
  PROVE  PoolInv' /\ panicked' = panicked
<1>1. panicked' = panicked /\ op[c].pc = "search"
  BY DEF AllocatePage
<1>2. CASE UNCHANGED <<header, spare>>
  BY <1>1, <1>2, SearchKeeps
<1>3. CASE ~UNCHANGED <<header, spare>>
  <2>1. PICK p \in spare :
          /\ spare' = spare \ {p}
          /\ header' = [header EXCEPT ![p][0] = Header(op[c].n, 0, TRUE),
                                      ![p][op[c].n] = Header(Units - op[c].n, op[c].n, FALSE)]
          /\ op' = [op EXCEPT ![c] = [op[c] EXCEPT !.pc = "insert", !.page = p]]
    BY <1>3 DEF AllocatePage
  <2>2. UNCHANGED <<lists, held, panicked>>
    BY DEF AllocatePage
  <2> QED BY <1>1, <2>1, <2>2, PageComes
<1> QED BY <1>2, <1>3

(* The last check of a fresh page fails only after somebody else's work on *)
(* the page: without that, the processor is at the start of a block.       *)
LEMMA VerifyKeeps ==
  ASSUME PoolInv, NEW c \in Cpus, VerifyFreshPage(c)
  PROVE  PoolInv' /\ (panicked' = panicked \/ (op[c].pc = "verify" /\ op[c].touched))
<1> DEFINE h == header[op[c].page]
           u == op[c].unit
<1>1. op[c].pc = "verify"
  BY DEF VerifyFreshPage
<1>2. CASE ~HeaderVerified(h, u) /\ Panic
  <2>1. op[c].touched
    <3> SUFFICES ASSUME ~op[c].touched PROVE FALSE
      OBVIOUS
    <3>1. u \in Starts(op[c].page) /\ op[c].page \in InPool
      BY <1>1 DEF PoolInv, WorkInv, Working
    <3>2. Tiled(h, Starts(op[c].page))
      BY <3>1, StartsAre DEF PoolInv
    <3> QED BY <1>2, <3>1, <3>2, TiledVerified
  <2> QED BY <1>1, <1>2, <2>1, PanicKeeps
<1>3. CASE /\ HeaderVerified(h, u) /\ u + h[u].size < Units
           /\ op' = [op EXCEPT ![c].unit = u + h[u].size]
           /\ UNCHANGED <<header, lists, spare, held, panicked>>
  BY <1>1, <1>3, VerifyGoesOn
<1>4. CASE /\ held' = held \cup {<<op[c].page, 0>>}
           /\ header' = [header EXCEPT ![op[c].page] = Given(header[op[c].page], 0)]
           /\ op' = [op EXCEPT ![c] = Idle]
           /\ UNCHANGED <<lists, spare, panicked>>
  BY <1>1, <1>4, FreshGiven
<1> QED BY <1>2, <1>3, <1>4 DEF VerifyFreshPage

LEMMA StepKeeps ==
  ASSUME PoolInv, [Next]_vars
  PROVE  /\ PoolInv'
         /\ ~panicked /\ panicked' => \E c \in Cpus : op[c].pc = "verify" /\ op[c].touched
<1>1. CASE UNCHANGED vars
  <2>1. UNCHANGED <<header, lists, spare, held>> /\ op' = op /\ panicked' = panicked
    BY <1>1 DEF vars
  <2>2. OpsSame /\ panicked' \in BOOLEAN
    BY <2>1 DEF OpsSame, PoolInv, Types, WorkInv
  <2> QED BY <2>1, <2>2, QuietKeeps
<1>2. ASSUME NEW c \in Cpus, NEW n \in Requests, AllocatePool(c, n)
      PROVE  PoolInv' /\ panicked' = panicked
  BY <1>2, SearchKeeps DEF AllocatePool
<1>3. ASSUME NEW c \in Cpus, NextList(c) PROVE PoolInv' /\ panicked' = panicked
  BY <1>3, SearchKeeps DEF NextList
<1>4. ASSUME NEW c \in Cpus, TakeBlock(c) PROVE PoolInv' /\ panicked' = panicked
  BY <1>4, TakeEffect, TakeKeeps
<1>5. ASSUME NEW c \in Cpus, AllocatePage(c) PROVE PoolInv' /\ panicked' = panicked
  BY <1>5, PageKeeps
<1>6. ASSUME NEW c \in Cpus, ListFreshPage(c) PROVE PoolInv' /\ panicked' = panicked
  BY <1>6, RestComes
<1>7. ASSUME NEW c \in Cpus, VerifyFreshPage(c)
      PROVE  PoolInv' /\ (panicked' = panicked \/ (op[c].pc = "verify" /\ op[c].touched))
  BY <1>7, VerifyKeeps
<1>8. ASSUME NEW c \in Cpus, NEW b \in held, FreePool(c, b) PROVE PoolInv' /\ panicked' = panicked
  BY <1>8, FreeEffect, FreeKeeps
<1>9. ASSUME NEW c \in Cpus, ReleasePage(c) PROVE PoolInv' /\ panicked' = panicked
  BY <1>9, PageGoes
<1> QED BY <1>1, <1>2, <1>3, <1>4, <1>5, <1>6, <1>7, <1>8, <1>9 DEF Next

(* The invariant holds throughout, for every number of processors, pages   *)
(* and units, and every set of requests.                                   *)
THEOREM PoolKept == Spec => []PoolInv
<1>1. Init => PoolInv
  BY InitHolds
<1>2. PoolInv /\ [Next]_vars => PoolInv'
  BY StepKeeps
<1> QED BY <1>1, <1>2, PTL DEF Spec

-----------------------------------------------------------------------------
(* What it says of the pool.                                               *)

(* The blocks of every page tile it, agree with their neighbours, and are  *)
(* in use exactly when a caller has them.                                  *)
THEOREM BlocksTiled == Spec => []BlocksTile
<1>1. ASSUME PoolInv PROVE BlocksTile
  <2> USE DEF PoolInv
  <2>1. TypeOK
    BY <1>1, InvTypes
  <2>2. ASSUME NEW p \in InPool PROVE PageVerified(header[p], 0)
    <3>1. Tiled(header[p], Starts(p)) /\ 0 \in Starts(p)
      BY <1>1, StartsAre DEF Tiled
    <3> QED BY <3>1, TiledVerified
  <2>3. ASSUME NEW p \in InPool, p \notin Leaving
        PROVE  UsedUnits(p) = {u \in 0 .. Units - 1 : <<p, u>> \in held \cup Fresh}
    <3>1. p \in Staying
      BY <2>3 DEF Staying
    <3>2. \A u \in Starts(p) : u \in 0 .. Units - 1
      BY <1>1, StartsAre
    <3>3. \A u \in Starts(p) : header[p][u].used <=> <<p, u>> \in held \cup Fresh
      BY <1>1, <3>1 DEF UsesInv, Occupied
    <3>4. ASSUME NEW u, <<p, u>> \in held \cup Fresh PROVE u \in Starts(p)
      <4>1. <<p, u>>[1] = p /\ <<p, u>>[2] = u
        OBVIOUS
      <4> QED BY <1>1, <3>4, <4>1 DEF UsesInv, Occupied
    <3>5. UsedUnits(p) = {u \in Starts(p) : header[p][u].used}
      BY DEF UsedUnits, Starts
    <3> QED BY <3>2, <3>3, <3>4, <3>5
  <2> QED BY <2>1, <2>2, <2>3 DEF BlocksTile
<1> QED BY <1>1, PoolKept, PTL

(* A list without repetition has as many elements as entries.              *)
LEMMA OnceCounts ==
  ASSUME NEW S, NEW s \in Seq(S), Once(s)
  PROVE  Cardinality(Elements(s)) = Len(s)
<1>1. PICK n \in Nat : n = Len(s)
  OBVIOUS
<1>2. s \in [1 .. n -> Elements(s)]
  BY <1>1 DEF Elements
<1>3. DOMAIN s = 1 .. n
  BY <1>1
<1>4. s \in Injection(1 .. n, Elements(s)) /\ s \in Surjection(1 .. n, Elements(s))
  <2>1. \A i, j \in 1 .. n : s[i] = s[j] => i = j
    BY <1>3 DEF Once
  <2>2. \A e \in Elements(s) : \E i \in 1 .. n : s[i] = e
    BY <1>3 DEF Elements
  <2> QED BY <1>2, <2>1, <2>2 DEF Injection, Surjection, IsInjective
<1>5. IsFiniteSet(1 .. n) /\ Cardinality(1 .. n) = n
  BY FS_Interval
<1>6. Cardinality(Elements(s)) = Cardinality(1 .. n)
  BY <1>4, <1>5, FS_Surjection
<1> QED BY <1>1, <1>5, <1>6

(* Every free block with room for links is listed once, under its size,    *)
(* and nothing else is: what FreePool merges it finds and unlinks, and no  *)
(* list keeps a block that is gone.                                        *)
THEOREM ListsKept == Spec => []ListsComplete
<1>1. ASSUME PoolInv PROVE ListsComplete
  <2> USE DEF PoolInv
  <2>1. /\ lists \in [0 .. Units - 1 -> Seq(Blocks)]
        /\ \A l \in 0 .. Units - 1 : Once(lists[l]) /\ \A b \in Elements(lists[l]) : Sizes[b] = l + 1
    BY <1>1 DEF ListsInv, Filed
  <2>2. DOMAIN lists = 0 .. Units - 1 /\ \A l : Listed(l) = Elements(lists[l])
    BY <2>1 DEF Listed, Elements
  <2>3. ASSUME NEW l \in 0 .. Units - 1 PROVE Cardinality(Listed(l)) = Len(lists[l])
    <3>1. PICK s : s = lists[l]
      OBVIOUS
    <3>2. s \in Seq(Blocks) /\ Once(s)
      BY <2>1, <3>1
    <3>3. Cardinality(Elements(s)) = Len(s)
      BY <3>2, OnceCounts
    <3> QED BY <2>2, <3>1, <3>3
  <2>4. Entries(lists) \subseteq Blocks
    BY <1>1, EntriesTyped DEF ListsInv
  <2>5. ASSUME NEW l \in 0 .. Units - 1, NEW b \in Listed(l) PROVE header[b[1]][b[2]].size = l + 1
    <3>1. b \in Elements(lists[l])
      BY <2>2, <2>5
    <3>2. b \in Blocks
      BY <2>4, <3>1, EntriesAre
    <3> QED BY <2>1, <3>1, <3>2, SizesAre
  <2>6. ASSUME NEW b PROVE b \in (UNION {Listed(l) : l \in DOMAIN lists}) <=> b \in Entries(lists)
    BY <2>2 DEF Entries
  <2>7. PICK all : all = (UNION {{<<p, u>> : u \in {v \in FreeUnits(p) : header[p][v].size > 1}} :
                                   p \in InPool \ Leaving}) \ Pending
    OBVIOUS
  <2>8. ASSUME NEW b PROVE b \in all <=> b \in Entries(lists)
    <3>1. b \in all <=> /\ b \notin Pending
                        /\ \E p \in Staying : \E u \in FreeUnits(p) : header[p][u].size > 1 /\ b = <<p, u>>
      BY <2>7 DEF Staying
    <3>2. \A p \in Staying : \A u : u \in FreeUnits(p) <=> u \in Starts(p) /\ ~header[p][u].used
      BY DEF FreeUnits, Starts
    <3>3. ASSUME b \in all PROVE b \in Blocks /\ Wanted(b)
      <4>a. PICK p \in Staying : \E u \in FreeUnits(p) : header[p][u].size > 1 /\ b = <<p, u>>
        BY <3>1, <3>3
      <4>1. PICK u \in FreeUnits(p) : header[p][u].size > 1 /\ b = <<p, u>>
        BY <4>a
      <4>2. u \in Starts(p) /\ ~header[p][u].used
        BY <3>2
      <4>3. p \in InPool /\ p \in Pages
        BY DEF Staying, InPool
      <4>4. u \in 0 .. Units - 1
        BY <1>1, <4>2, <4>3, StartsAre
      <4> QED BY <3>1, <3>3, <4>1, <4>2, <4>3, <4>4 DEF Blocks, Wanted
    <3>4. ASSUME b \in Blocks, Wanted(b) PROVE b \in all
      <4>1. b = <<b[1], b[2]>>
        BY <3>4, SizesAre
      <4> QED BY <3>1, <3>2, <3>4, <4>1 DEF Wanted
    <3> QED BY <1>1, <2>4, <3>3, <3>4 DEF ListsInv
  <2>9. UNION {Listed(l) : l \in DOMAIN lists} = all
    BY <2>6, <2>8
  <2> QED BY <2>2, <2>3, <2>5, <2>7, <2>9 DEF ListsComplete
<1> QED BY <1>1, PoolKept, PTL

(* No two free blocks touch.                                               *)
THEOREM Coalescing == Spec => []FreeCoalesced
<1>1. ASSUME PoolInv PROVE FreeCoalesced
  BY <1>1 DEF PoolInv, PagesInv, Coalesced, FreeCoalesced, FreeUnits, Starts
<1> QED BY <1>1, PoolKept, PTL

(* A page of the pool has a block in use, unless it is on its way out.     *)
THEOREM PagesKept == Spec => []PagesReturned
<1>1. ASSUME PoolInv PROVE PagesReturned
  BY <1>1 DEF PoolInv, UsesInv, Staying, PagesReturned, UsedUnits, Starts
<1> QED BY <1>1, PoolKept, PTL

(* The checks of the pool stop the system only in VerifyFreshPage, after   *)
(* another processor has worked on the page.                               *)
THEOREM PanicsRare == Spec => PanicsExplained
<1>1. PoolInv /\ [Next]_vars =>
        [~panicked /\ panicked' => \E c \in Cpus : op[c].pc = "verify" /\ op[c].touched]_vars
  BY StepKeeps
<1> QED BY <1>1, PoolKept, PTL DEF Spec, PanicsExplained
=============================================================================
