------------------------- MODULE NonPagedPagesProofs -------------------------
(***************************************************************************)
(* Proofs about the pages of the non-paged pool, for every size of the     *)
(* pool, number of lists and of processors, and set of requests.           *)
(***************************************************************************)
EXTENDS NonPagedPages, SequenceEdits, FiniteSetTheorems

(* Unlinking an entry that may or may not be there.                        *)
LEMMA WithoutOnce ==
  ASSUME NEW S, NEW s \in Seq(S), Once(s), NEW e
  PROVE  /\ Without(s, e) \in Seq(S) /\ Once(Without(s, e))
         /\ Elements(Without(s, e)) = Elements(s) \ {e}
<1>1. CASE \E i \in DOMAIN s : s[i] = e
  <2>1. Position(s, e) \in DOMAIN s /\ s[Position(s, e)] = e
    BY <1>1 DEF Position
  <2>2. Without(s, e) = RemoveAt(s, Position(s, e))
    BY <1>1 DEF Without
  <2> QED BY <2>1, <2>2, RemoveAtOnce
<1>2. CASE ~ \E i \in DOMAIN s : s[i] = e
  <2>1. Without(s, e) = s
    BY <1>2 DEF Without
  <2>2. e \notin Elements(s)
    BY <1>2 DEF Elements
  <2> QED BY <2>1, <2>2
<1> QED BY <1>1, <1>2


-----------------------------------------------------------------------------
(* The lists of free runs.                                                 *)

Entries(all) == UNION {Elements(all[h]) : h \in 1 .. Heads}
Filed(all, sizes) ==
  /\ all \in [1 .. Heads -> Seq(Pages)]
  /\ \A h \in 1 .. Heads : Once(all[h]) /\ \A p \in Elements(all[h]) : ListFor(sizes[p]) = h

(* Every run has a list.                                                   *)
LEMMA ListExists == \A n \in Nat \ {0} : ListFor(n) \in 1 .. Heads
BY SizesAssumption DEF ListFor

(* An entry is an element of some list.                                    *)
LEMMA EntriesAre ==
  ASSUME NEW all, NEW p
  PROVE  p \in Entries(all) <=> \E h \in 1 .. Heads : p \in Elements(all[h])
BY DEF Entries

(* List h has more entries, without others; the other lists stay.          *)
Edited(all, sizes, new, h, more, less, others) ==
  /\ h \in 1 .. Heads
  /\ new \in [1 .. Heads -> Seq(Pages)] /\ \A l \in 1 .. Heads : l # h => new[l] = all[l]
  /\ Once(new[h]) /\ Elements(new[h]) = (Elements(all[h]) \cup more) \ less /\ more \cap less = {}
  /\ \A p \in more : ListFor(others[p]) = h
  /\ \A p \in less : p \in Entries(all) => p \in Elements(all[h])
  /\ \A p \in Entries(all) : p \notin less => others[p] = sizes[p]

(* What is in the other lists is not in it, and stays.                     *)
LEMMA OneList ==
  ASSUME NEW all, NEW sizes, NEW h, NEW more, NEW less, NEW new, NEW others,
         Filed(all, sizes) /\ Edited(all, sizes, new, h, more, less, others)
  PROVE  Filed(new, others) /\ Entries(new) = (Entries(all) \cup more) \ less
<1> USE DEF Edited
<1>1. PICK s : s = new[h]
  OBVIOUS
<1>2. /\ new \in [1 .. Heads -> Seq(Pages)] /\ new[h] = s
      /\ \A l \in 1 .. Heads \ {h} : new[l] = all[l]
  BY <1>1
<1>3. ASSUME NEW l \in 1 .. Heads
      PROVE  Once(new[l]) /\ \A p \in Elements(new[l]) : ListFor(others[p]) = l
  <2>1. CASE l = h
    <3>1. \A p \in Elements(s) : p \in more \/ (p \in Elements(all[h]) /\ p \notin less)
      BY <1>2
    <3>2. \A p \in Elements(all[h]) \ less : ListFor(others[p]) = h
      BY EntriesAre DEF Filed
    <3> QED BY <1>2, <2>1, <3>1, <3>2
  <2>2. CASE l # h
    <3>1. \A p \in Elements(all[l]) : p \notin less
      <4> SUFFICES ASSUME NEW p \in Elements(all[l]), p \in less PROVE FALSE
        OBVIOUS
      <4>1. p \in Elements(all[h])
        BY EntriesAre
      <4> QED BY <2>2, <4>1 DEF Filed
    <3>2. \A p \in Elements(all[l]) : others[p] = sizes[p]
      BY <3>1, EntriesAre
    <3> QED BY <1>2, <2>2, <3>2 DEF Filed
  <2> QED BY <2>1, <2>2
<1>4. ASSUME NEW p PROVE p \in Entries(new) <=> p \in (Entries(all) \cup more) \ less
  <2>1. ASSUME p \in Entries(new) PROVE p \in (Entries(all) \cup more) \ less
    <3>1. PICK l \in 1 .. Heads : p \in Elements(new[l])
      BY <2>1, EntriesAre
    <3>2. CASE l = h
      BY <1>2, <3>1, <3>2, EntriesAre
    <3>3. CASE l # h
      <4>1. p \in Elements(all[l]) /\ p \in Entries(all)
        BY <1>2, <3>1, <3>3, EntriesAre
      <4>2. p \notin less
        <5> SUFFICES ASSUME p \in less PROVE FALSE
          OBVIOUS
        <5>1. p \in Elements(all[h])
          BY <4>1
        <5> QED BY <3>3, <4>1, <5>1 DEF Filed
      <4> QED BY <4>1, <4>2
    <3> QED BY <3>2, <3>3
  <2>2. ASSUME p \in (Entries(all) \cup more) \ less PROVE p \in Entries(new)
    <3>1. CASE p \in more \/ p \in Elements(all[h])
      BY <1>2, <2>2, <3>1, EntriesAre
    <3>2. CASE p \notin more /\ p \notin Elements(all[h])
      <4>1. PICK l \in 1 .. Heads : p \in Elements(all[l])
        BY <2>2, <3>2, EntriesAre
      <4> QED BY <1>2, <3>2, <4>1, EntriesAre
    <3> QED BY <3>1, <3>2
  <2> QED BY <2>1, <2>2
<1> QED BY <1>2, <1>3, <1>4 DEF Filed

TakenOut(all, new, h, i) == new = [all EXCEPT ![h] = RemoveAt(@, i)]
PutIn(all, new, p, n) ==
  new \in {[all EXCEPT ![ListFor(n)] = Append(@, p)], [all EXCEPT ![ListFor(n)] = <<p>> \o @]}

(* A run is taken out of its list by position.                             *)
LEMMA TakeFiled ==
  ASSUME NEW all, NEW sizes, NEW h, NEW i, NEW new, NEW others,
         Filed(all, sizes) /\ TakenOut(all, new, h, i) /\ h \in 1 .. Heads /\ i \in DOMAIN all[h]
           /\ \A p \in Entries(all) : p # all[h][i] => others[p] = sizes[p]
  PROVE  Filed(new, others) /\ Entries(new) = Entries(all) \ {all[h][i]}
<1>1. all[h] \in Seq(Pages) /\ Once(all[h])
  BY DEF Filed
<1>2. PICK s : s = RemoveAt(all[h], i)
  OBVIOUS
<1>3. s \in Seq(Pages) /\ Once(s) /\ Elements(s) = Elements(all[h]) \ {all[h][i]}
  BY <1>1, <1>2, RemoveAtOnce
<1>4. all[h][i] \in Elements(all[h])
  BY DEF Elements
<1>5. PICK less : less = {all[h][i]}
  OBVIOUS
<1>6. PICK more : more = {}
  OBVIOUS
<1>7. new = [all EXCEPT ![h] = s]
  BY <1>2 DEF TakenOut
<1>8. Edited(all, sizes, new, h, more, less, others)
  BY <1>3, <1>4, <1>5, <1>6, <1>7 DEF Edited, Filed
<1>9. Filed(new, others) /\ Entries(new) = (Entries(all) \cup more) \ less
  BY <1>8, OneList
<1> QED BY <1>5, <1>6, <1>9

(* `new' is `all' with the run p, of n pages, put into the list for n.      *)
Adds(all, sizes, p, n, new, others) ==
  /\ Filed(all, sizes) /\ PutIn(all, new, p, n) /\ p \in Pages /\ p \notin Entries(all)
  /\ n \in Nat \ {0} /\ others[p] = n
  /\ \A q \in Entries(all) : others[q] = sizes[q]

(* A run is added to the list for its size.                                *)
LEMMA AddFiled ==
  ASSUME NEW all, NEW sizes, NEW p, NEW n, NEW new, NEW others,
         Adds(all, sizes, p, n, new, others)
  PROVE  Filed(new, others) /\ Entries(new) = Entries(all) \cup {p}
<1>0. /\ Filed(all, sizes) /\ PutIn(all, new, p, n) /\ p \in Pages /\ p \notin Entries(all)
      /\ n \in Nat \ {0} /\ others[p] = n
      /\ \A q \in Entries(all) : others[q] = sizes[q]
  BY DEF Adds
<1>1. PICK h \in 1 .. Heads : h = ListFor(n)
  BY <1>0, ListExists
<1>2. all[h] \in Seq(Pages) /\ Once(all[h]) /\ p \notin Elements(all[h])
  BY <1>0, EntriesAre DEF Filed
<1>3. PICK s : new = [all EXCEPT ![h] = s] /\ s \in {Append(all[h], p), <<p>> \o all[h]}
  BY <1>0, <1>1 DEF PutIn
<1>4. s \in Seq(Pages) /\ Once(s) /\ Elements(s) = Elements(all[h]) \cup {p}
  <2>1. CASE s = Append(all[h], p)
    BY <1>0, <1>2, <2>1, AppendOnce
  <2>2. CASE s = <<p>> \o all[h]
    BY <1>0, <1>2, <2>2, PrependOnce
  <2> QED BY <1>3, <2>1, <2>2
<1>5. PICK less : less = {}
  OBVIOUS
<1>6. PICK more : more = {p}
  OBVIOUS
<1>7. Edited(all, sizes, new, h, more, less, others)
  BY <1>0, <1>1, <1>3, <1>4, <1>5, <1>6 DEF Edited, Filed
<1>8. Filed(new, others) /\ Entries(new) = (Entries(all) \cup more) \ less
  BY <1>0, <1>7, OneList
<1> QED BY <1>5, <1>6, <1>8

(* A run is unlinked from whatever list it is in.                          *)
LEMMA RemoveFiled ==
  ASSUME NEW all, NEW sizes, Filed(all, sizes), NEW p, NEW others,
         \A q \in Entries(all) \ {p} : others[q] = sizes[q]
  PROVE  /\ Filed(RemoveEntry(all, p), others)
         /\ Entries(RemoveEntry(all, p)) = Entries(all) \ {p}
<1>1. PICK new : new = RemoveEntry(all, p)
  OBVIOUS
<1>2. ASSUME NEW h \in 1 .. Heads
      PROVE  /\ new[h] \in Seq(Pages) /\ Once(new[h])
             /\ Elements(new[h]) = Elements(all[h]) \ {p}
  <2>1. all[h] \in Seq(Pages) /\ Once(all[h]) /\ new[h] = Without(all[h], p)
    BY <1>1 DEF Filed, RemoveEntry
  <2> QED BY <2>1, WithoutOnce
<1>3. new \in [1 .. Heads -> Seq(Pages)]
  BY <1>1, <1>2 DEF RemoveEntry
<1>4. \A h \in 1 .. Heads : \A q \in Elements(new[h]) : ListFor(others[q]) = h
  BY <1>2, EntriesAre DEF Filed
<1>5. ASSUME NEW q PROVE q \in Entries(new) <=> q \in Entries(all) \ {p}
  <2>1. q \in Entries(new) <=> \E h \in 1 .. Heads : q \in Elements(new[h])
    BY EntriesAre
  <2>2. q \in Entries(all) <=> \E h \in 1 .. Heads : q \in Elements(all[h])
    BY EntriesAre
  <2> QED BY <1>2, <2>1, <2>2
<1> QED BY <1>1, <1>2, <1>3, <1>4, <1>5 DEF Filed

(* Sizes may change as long as the list is the same one.                   *)
LEMMA ResizeFiled ==
  ASSUME NEW all, NEW sizes, Filed(all, sizes), NEW others,
         \A q \in Entries(all) : ListFor(others[q]) = ListFor(sizes[q])
  PROVE  Filed(all, others)
BY EntriesAre DEF Filed

-----------------------------------------------------------------------------
(* Runs and allocations tile the pages of the pool.  `owners' leads from   *)
(* each page of a run to its header, so that runs are disjoint; no two     *)
(* runs touch.                                                             *)

RunsIn(heads, sizes, owners, pool) ==
  \A p \in heads : /\ p \in Int /\ sizes[p] \in Int /\ sizes[p] >= 1
                   /\ \A q \in Block(p, sizes[p]) : q \in pool /\ owners[q] = p
NoneTouch(heads, sizes) == \A p, q \in heads : p + sizes[p] # q
ExtentsIn(held, pool) ==
  \A b \in held : /\ b[1] \in Int /\ b[2] \in Int /\ b[2] >= 1
                  /\ \A q \in Extent(b) : q \in pool
ExtentsApart(held) == \A a, b \in held : \A q : q \in Extent(a) /\ q \in Extent(b) => a = b
FreeApart(heads, sizes, held) ==
  \A p \in heads, b \in held : \A q : ~(q \in Block(p, sizes[p]) /\ q \in Extent(b))
Covered(heads, sizes, held, pool) ==
  \A q \in pool : (\E p \in heads : q \in Block(p, sizes[p])) \/ (\E b \in held : q \in Extent(b))

Tiling(heads, sizes, owners, held, pool) ==
  /\ RunsIn(heads, sizes, owners, pool) /\ NoneTouch(heads, sizes)
  /\ ExtentsIn(held, pool) /\ ExtentsApart(held)
  /\ FreeApart(heads, sizes, held) /\ Covered(heads, sizes, held, pool)

Tiled(heads, sizes, owners, held, pool) ==
  /\ Tiling(heads, sizes, owners, held, pool)
  /\ pool \subseteq Int

(* Run r gives its last n pages to an allocation.                          *)
Taken(heads, sizes, owners, pool, r, n, heads2, sizes2, owners2) ==
  LET left == sizes[r] - n IN
  /\ r \in heads /\ n \in Int /\ 1 <= n /\ n <= sizes[r]
  /\ heads2 = {p \in heads : p # r \/ left # 0}
  /\ \A p \in heads : p # r => sizes2[p] = sizes[p]
  /\ left # 0 => sizes2[r] = left
  /\ \A q \in pool : q \notin Block(r + left, n) => owners2[q] = owners[q]

(* What is left of the run and the allocation still tile the pool.         *)
LEMMA TakeTiles ==
  ASSUME NEW heads, NEW sizes, NEW owners, NEW held, NEW pool, NEW r, NEW n,
         NEW heads2, NEW sizes2, NEW owners2, NEW x,
         Tiled(heads, sizes, owners, held, pool)
           /\ Taken(heads, sizes, owners, pool, r, n, heads2, sizes2, owners2)
           /\ x = <<r + (sizes[r] - n), n>>
  PROVE  Tiled(heads2, sizes2, owners2, held \cup {x}, pool)
<1> USE DEF Tiled, Tiling
<1>1. PICK whole \in Int : whole = sizes[r] /\ whole >= 1 /\ r \in heads /\ r \in Int
  BY DEF RunsIn, Taken
<1>2. PICK left \in Int : left = whole - n /\ n \in Int /\ 1 <= n /\ n <= whole
  BY <1>1 DEF Taken
<1>3. PICK first \in Int : first = r + left
  BY <1>1, <1>2
<1>4. x[1] = first /\ x[2] = n /\ \A q : q \in Extent(x) <=> q \in Block(first, n)
  BY <1>1, <1>2, <1>3 DEF Extent
<1>5. /\ \A q : q \in Block(first, n) <=> q \in Int /\ first <= q /\ q < r + whole
      /\ \A q : q \in Block(r, sizes[r]) <=> q \in Int /\ r <= q /\ q < r + whole
  BY <1>1, <1>2, <1>3 DEF Block
<1>6. /\ \A p : p \in heads2 <=> p \in heads /\ (p # r \/ left # 0)
      /\ \A p \in heads : p # r => sizes2[p] = sizes[p]
      /\ left # 0 => sizes2[r] = left
      /\ \A q \in pool : q \notin Block(first, n) => owners2[q] = owners[q]
  BY <1>1, <1>2, <1>3 DEF Taken
<1>7. \A q : left # 0 => (q \in Block(r, sizes2[r]) <=> q \in Int /\ r <= q /\ q < first)
  BY <1>1, <1>2, <1>3, <1>6 DEF Block
<1>8. \A p \in heads : \A q : p # r /\ q \in Block(p, sizes[p]) => q \notin Block(r, sizes[r])
  BY <1>1 DEF RunsIn
<1>9. \A q : q \in Block(first, n) => q \in Block(r, sizes[r])
  BY <1>1, <1>2, <1>3, <1>5
<1>10. \A q : left # 0 /\ q \in Block(r, sizes2[r]) => q \in Block(r, sizes[r]) /\ q \notin Block(first, n)
  BY <1>1, <1>2, <1>3, <1>5, <1>7
<1>11. RunsIn(heads2, sizes2, owners2, pool)
  <2> SUFFICES ASSUME NEW p \in heads2
               PROVE  /\ p \in Int /\ sizes2[p] \in Int /\ sizes2[p] >= 1
                      /\ \A q \in Block(p, sizes2[p]) : q \in pool /\ owners2[q] = p
    BY DEF RunsIn
  <2>1. CASE p = r
    <3>1. left # 0 /\ sizes2[p] = left
      BY <1>6, <2>1
    <3>2. \A q \in Block(p, sizes2[p]) : q \in pool /\ owners2[q] = p
      BY <1>1, <1>6, <1>10, <2>1, <3>1 DEF RunsIn
    <3> QED BY <1>1, <1>2, <2>1, <3>1, <3>2
  <2>2. CASE p # r
    <3>1. p \in heads /\ sizes2[p] = sizes[p]
      BY <1>6, <2>2
    <3>2. \A q \in Block(p, sizes[p]) : q \notin Block(first, n)
      BY <1>8, <1>9, <2>2, <3>1
    <3> QED BY <1>6, <3>1, <3>2 DEF RunsIn
  <2> QED BY <2>1, <2>2
<1>12. NoneTouch(heads2, sizes2)
  <2> SUFFICES ASSUME NEW p \in heads2, NEW q \in heads2 PROVE p + sizes2[p] # q
    BY DEF NoneTouch
  <2>0. p \in heads /\ q \in heads
    BY <1>6
  <2>1. CASE p = r
    <3>1. left # 0 /\ p + sizes2[p] = first
      BY <1>3, <1>6, <2>1
    <3>2. first \in Block(r, sizes[r]) /\ first # r
      BY <1>1, <1>2, <1>3, <1>5, <3>1
    <3>3. q \in Block(q, sizes[q])
      BY <2>0 DEF RunsIn, Block
    <3> QED BY <1>8, <2>0, <3>1, <3>2, <3>3
  <2>2. CASE p # r
    BY <1>6, <2>0, <2>2 DEF NoneTouch
  <2> QED BY <2>1, <2>2
<1>13. ExtentsIn(held \cup {x}, pool)
  <2>1. \A q \in Extent(x) : q \in pool
    BY <1>1, <1>4, <1>9 DEF RunsIn
  <2> QED BY <1>2, <1>3, <1>4, <2>1 DEF ExtentsIn
<1>14. ExtentsApart(held \cup {x})
  <2>1. \A b \in held : \A q : ~(q \in Extent(b) /\ q \in Extent(x))
    BY <1>1, <1>4, <1>9 DEF FreeApart
  <2> QED BY <2>1 DEF ExtentsApart
<1>15. FreeApart(heads2, sizes2, held \cup {x})
  <2> SUFFICES ASSUME NEW p \in heads2, NEW b \in held \cup {x}, NEW q,
                      q \in Block(p, sizes2[p]), q \in Extent(b)
               PROVE  FALSE
    BY DEF FreeApart
  <2>1. p \in heads /\ q \in Block(p, sizes[p])
    BY <1>6, <1>10
  <2>2. b = x
    BY <2>1 DEF FreeApart
  <2>3. q \in Block(first, n)
    BY <1>4, <2>2
  <2>4. p = r
    BY <1>8, <1>9, <2>1, <2>3
  <2> QED BY <1>6, <1>10, <2>3, <2>4
<1>16. Covered(heads2, sizes2, held \cup {x}, pool)
  <2> SUFFICES ASSUME NEW q \in pool
               PROVE  (\E p \in heads2 : q \in Block(p, sizes2[p]))
                        \/ \E b \in held \cup {x} : q \in Extent(b)
    BY DEF Covered
  <2>1. CASE \E b \in held : q \in Extent(b)
    BY <2>1
  <2>2. CASE \E p \in heads : q \in Block(p, sizes[p])
    <3>1. PICK p \in heads : q \in Block(p, sizes[p])
      BY <2>2
    <3>2. CASE p # r
      BY <1>6, <3>1, <3>2
    <3>3. CASE p = r /\ q \in Block(first, n)
      BY <1>4, <3>3
    <3>4. CASE p = r /\ q \notin Block(first, n)
      <4>1. q \in Int /\ r <= q /\ q < first
        BY <1>1, <1>2, <1>3, <1>5, <3>1, <3>4
      <4>2. left # 0
        BY <1>1, <1>3, <4>1
      <4> QED BY <1>6, <1>7, <3>1, <3>4, <4>1, <4>2
    <3> QED BY <3>2, <3>3, <3>4
  <2> QED BY <2>1, <2>2 DEF Covered
<1> QED BY <1>11, <1>12, <1>13, <1>14, <1>15, <1>16

(* An allocation on pages that the pool did not have.                      *)
LEMMA MapTiles ==
  ASSUME NEW heads, NEW sizes, NEW owners, NEW held, NEW pool, NEW x, NEW pool2,
         Tiled(heads, sizes, owners, held, pool)
           /\ x[1] \in Int /\ x[2] \in Int /\ x[2] >= 1
           /\ (\A q \in Extent(x) : q \notin pool)
           /\ pool2 = pool \cup Extent(x)
  PROVE  Tiled(heads, sizes, owners, held \cup {x}, pool2)
<1> USE DEF Tiled, Tiling
<1>1. \A q : q \in pool2 <=> q \in pool \/ q \in Extent(x)
  OBVIOUS
<1>2. RunsIn(heads, sizes, owners, pool2)
  BY <1>1 DEF RunsIn
<1>3. ExtentsIn(held \cup {x}, pool2)
  BY <1>1 DEF ExtentsIn
<1>4. ExtentsApart(held \cup {x})
  <2>1. \A b \in held : \A q : ~(q \in Extent(b) /\ q \in Extent(x))
    BY DEF ExtentsIn
  <2> QED BY <2>1 DEF ExtentsApart
<1>5. FreeApart(heads, sizes, held \cup {x})
  <2>1. \A p \in heads : \A q : ~(q \in Block(p, sizes[p]) /\ q \in Extent(x))
    BY DEF RunsIn
  <2> QED BY <2>1 DEF FreeApart
<1>6. Covered(heads, sizes, held \cup {x}, pool2)
  BY <1>1 DEF Covered
<1>7. ASSUME NEW q \in pool2 PROVE q \in Int
  <2>1. \A p \in Extent(x) : p \in Int
    BY DEF Extent, Block
  <2> QED BY <1>1, <2>1
<1> QED BY <1>2, <1>3, <1>4, <1>5, <1>6, <1>7

(* An allocation leaves the pool with its pages.                           *)
LEMMA DropTiles ==
  ASSUME NEW heads, NEW sizes, NEW owners, NEW held, NEW pool, NEW x, NEW pool2,
         Tiled(heads, sizes, owners, held, pool) /\ x \in held /\ pool2 = pool \ Extent(x)
  PROVE  Tiled(heads, sizes, owners, held \ {x}, pool2)
<1> USE DEF Tiled, Tiling
<1>1. \A q : q \in pool2 <=> q \in pool /\ q \notin Extent(x)
  OBVIOUS
<1>2. RunsIn(heads, sizes, owners, pool2)
  BY <1>1 DEF RunsIn, FreeApart
<1>3. ExtentsIn(held \ {x}, pool2)
  BY <1>1 DEF ExtentsIn, ExtentsApart
<1>4. ExtentsApart(held \ {x}) /\ FreeApart(heads, sizes, held \ {x})
  BY DEF ExtentsApart, FreeApart
<1>5. Covered(heads, sizes, held \ {x}, pool2)
  BY <1>1 DEF Covered
<1> QED BY <1>2, <1>3, <1>4, <1>5

(* The run after a block that is freed becomes a part of it.               *)
LEMMA AbsorbTiles ==
  ASSUME NEW heads, NEW sizes, NEW owners, NEW held, NEW pool, NEW x, NEW next, NEW y,
         Tiled(heads, sizes, owners, held, pool) /\ x \in held /\ next \in heads
           /\ next = x[1] + x[2] /\ y = <<x[1], x[2] + sizes[next]>>
  PROVE  /\ Tiled(heads \ {next}, sizes, owners, (held \ {x}) \cup {y}, pool)
         /\ y \notin held \ {x}
<1> USE DEF Tiled, Tiling
<1>1. PICK first \in Int : first = x[1]
  BY DEF ExtentsIn
<1>2. PICK n \in Int : n = x[2] /\ n >= 1
  BY DEF ExtentsIn
<1>3. PICK more \in Int : more = sizes[next] /\ more >= 1 /\ next = first + n
  BY <1>1, <1>2 DEF RunsIn
<1>4. y[1] = first /\ y[2] = n + more
  BY <1>1, <1>2, <1>3
<1>5. /\ \A q : q \in Extent(x) <=> q \in Int /\ first <= q /\ q < first + n
      /\ \A q : q \in Block(next, sizes[next]) <=> q \in Int /\ next <= q /\ q < next + more
      /\ \A q : q \in Extent(y) <=> q \in Int /\ first <= q /\ q < first + (n + more)
  BY <1>1, <1>2, <1>3, <1>4 DEF Extent, Block
<1>6. \A q : q \in Extent(y) <=> q \in Extent(x) \/ q \in Block(next, sizes[next])
  BY <1>1, <1>2, <1>3, <1>5
<1>7. \A p \in heads \ {next} : \A q : q \in Block(p, sizes[p]) => q \notin Block(next, sizes[next])
  BY DEF RunsIn
<1>8. RunsIn(heads \ {next}, sizes, owners, pool) /\ NoneTouch(heads \ {next}, sizes)
  BY DEF RunsIn, NoneTouch
<1>9. \A b \in held \ {x} : \A q : ~(q \in Extent(b) /\ q \in Extent(y))
  BY <1>6 DEF ExtentsApart, FreeApart
<1>10. ExtentsIn((held \ {x}) \cup {y}, pool)
  <2>1. \A q \in Extent(y) : q \in pool
    BY <1>6 DEF ExtentsIn, RunsIn
  <2>2. y[1] \in Int /\ y[2] \in Int /\ y[2] >= 1
    BY <1>1, <1>2, <1>3, <1>4
  <2> QED BY <2>1, <2>2 DEF ExtentsIn
<1>11. ExtentsApart((held \ {x}) \cup {y})
  BY <1>9 DEF ExtentsApart
<1>12. FreeApart(heads \ {next}, sizes, (held \ {x}) \cup {y})
  BY <1>6, <1>7 DEF FreeApart
<1>13. Covered(heads \ {next}, sizes, (held \ {x}) \cup {y}, pool)
  <2> SUFFICES ASSUME NEW q \in pool
               PROVE  (\E p \in heads \ {next} : q \in Block(p, sizes[p]))
                        \/ \E b \in (held \ {x}) \cup {y} : q \in Extent(b)
    BY DEF Covered
  <2>1. CASE \E p \in heads : q \in Block(p, sizes[p])
    BY <1>6, <2>1
  <2>2. CASE \E b \in held : q \in Extent(b)
    BY <1>6, <2>2
  <2> QED BY <2>1, <2>2 DEF Covered
<1>14. y \notin held \ {x}
  <2>1. first \in Extent(y)
    BY <1>1, <1>2, <1>3, <1>5
  <2> QED BY <1>9, <2>1
<1> QED BY <1>8, <1>10, <1>11, <1>12, <1>13, <1>14

(* A block without free neighbours becomes a run.                          *)
LEMMA SettleTiles ==
  ASSUME NEW heads, NEW sizes, NEW owners, NEW held, NEW pool, NEW x, NEW sizes2, NEW owners2,
         Tiled(heads, sizes, owners, held, pool) /\ x \in held
           /\ x[1] + x[2] \notin heads /\ (\A p \in heads : p + sizes[p] # x[1])
           /\ sizes2[x[1]] = x[2] /\ (\A p \in heads : p # x[1] => sizes2[p] = sizes[p])
           /\ (\A q \in pool : owners2[q] = IF q \in Extent(x) THEN x[1] ELSE owners[q])
  PROVE  Tiled(heads \cup {x[1]}, sizes2, owners2, held \ {x}, pool)
<1> USE DEF Tiled, Tiling
<1>1. PICK first \in Int : first = x[1]
  BY DEF ExtentsIn
<1>2. PICK n \in Int : n = x[2] /\ n >= 1
  BY DEF ExtentsIn
<1>3. /\ sizes2[first] = n /\ first + n \notin heads /\ \A p \in heads : p + sizes[p] # first
      /\ \A q \in Extent(x) : q \in pool /\ owners2[q] = first
      /\ \A q \in pool : q \notin Extent(x) => owners2[q] = owners[q]
  BY <1>1, <1>2 DEF ExtentsIn
<1>4. /\ \A q : q \in Extent(x) <=> q \in Block(first, sizes2[first])
      /\ first \in Extent(x)
  BY <1>1, <1>2, <1>3 DEF Extent, Block
<1>5. first \notin heads
  <2>1. \A p \in heads : p \in Block(p, sizes[p])
    BY DEF RunsIn, Block
  <2> QED BY <1>4, <2>1 DEF FreeApart
<1>6. \A p \in heads : sizes2[p] = sizes[p] /\ p # first
  BY <1>1, <1>5
<1>7. RunsIn(heads \cup {first}, sizes2, owners2, pool)
  <2>1. ASSUME NEW p \in heads
        PROVE  /\ p \in Int /\ sizes2[p] \in Int /\ sizes2[p] >= 1
               /\ \A q \in Block(p, sizes2[p]) : q \in pool /\ owners2[q] = p
    <3>1. \A q \in Block(p, sizes[p]) : q \notin Extent(x)
      BY DEF FreeApart
    <3> QED BY <1>3, <1>6, <3>1 DEF RunsIn
  <2>2. /\ first \in Int /\ sizes2[first] \in Int /\ sizes2[first] >= 1
        /\ \A q \in Block(first, sizes2[first]) : q \in pool /\ owners2[q] = first
    BY <1>2, <1>3, <1>4
  <2> QED BY <2>1, <2>2 DEF RunsIn
<1>8. NoneTouch(heads \cup {first}, sizes2)
  <2>1. first + sizes2[first] # first
    BY <1>2, <1>3
  <2> QED BY <1>3, <1>6, <2>1 DEF NoneTouch
<1>9. /\ ExtentsIn(held \ {x}, pool) /\ ExtentsApart(held \ {x})
  BY DEF ExtentsIn, ExtentsApart
<1>10. FreeApart(heads \cup {first}, sizes2, held \ {x})
  <2>1. \A b \in held \ {x} : \A q : ~(q \in Block(first, sizes2[first]) /\ q \in Extent(b))
    BY <1>4 DEF ExtentsApart
  <2> QED BY <1>6, <2>1 DEF FreeApart
<1>11. Covered(heads \cup {first}, sizes2, held \ {x}, pool)
  BY <1>4, <1>6 DEF Covered
<1> QED BY <1>1, <1>7, <1>8, <1>9, <1>10, <1>11

(* A block joins the run that ends where it starts.                        *)
LEMMA GrowTiles ==
  ASSUME NEW heads, NEW sizes, NEW owners, NEW held, NEW pool, NEW x, NEW r, NEW sizes2, NEW owners2,
         Tiled(heads, sizes, owners, held, pool) /\ x \in held
           /\ x[1] + x[2] \notin heads /\ r \in heads /\ r + sizes[r] = x[1]
           /\ sizes2[r] = sizes[r] + x[2] /\ (\A p \in heads : p # r => sizes2[p] = sizes[p])
           /\ (\A q \in pool : owners2[q] = IF q \in Extent(x) THEN r ELSE owners[q])
  PROVE  Tiled(heads, sizes2, owners2, held \ {x}, pool)
<1> USE DEF Tiled, Tiling
<1>1. PICK first \in Int : first = x[1]
  BY DEF ExtentsIn
<1>2. PICK n \in Int : n = x[2] /\ n >= 1
  BY DEF ExtentsIn
<1>3. PICK old \in Int : old = sizes[r] /\ old >= 1 /\ r \in Int /\ r + old = first
  BY <1>1 DEF RunsIn
<1>4. /\ sizes2[r] = old + n /\ first + n \notin heads
      /\ \A p \in heads : p # r => sizes2[p] = sizes[p]
      /\ \A q \in Extent(x) : q \in pool /\ owners2[q] = r
      /\ \A q \in pool : q \notin Extent(x) => owners2[q] = owners[q]
  BY <1>1, <1>2, <1>3 DEF ExtentsIn
<1>5. /\ \A q : q \in Extent(x) <=> q \in Int /\ first <= q /\ q < first + n
      /\ \A q : q \in Block(r, sizes[r]) <=> q \in Int /\ r <= q /\ q < first
      /\ \A q : q \in Block(r, sizes2[r]) <=> q \in Int /\ r <= q /\ q < first + n
  <2>1. r + (old + n) = first + n
    BY <1>3
  <2> QED BY <1>1, <1>2, <1>3, <1>4, <2>1 DEF Extent, Block
<1>6. \A q : q \in Block(r, sizes2[r]) <=> q \in Block(r, sizes[r]) \/ q \in Extent(x)
  BY <1>1, <1>2, <1>3, <1>5
<1>7. RunsIn(heads, sizes2, owners2, pool)
  <2> SUFFICES ASSUME NEW p \in heads
               PROVE  /\ p \in Int /\ sizes2[p] \in Int /\ sizes2[p] >= 1
                      /\ \A q \in Block(p, sizes2[p]) : q \in pool /\ owners2[q] = p
    BY DEF RunsIn
  <2>1. \A q \in Block(p, sizes[p]) : q \in pool /\ owners2[q] = p
    BY <1>4 DEF RunsIn, FreeApart
  <2>2. CASE p = r
    <3>1. sizes2[r] \in Int /\ sizes2[r] >= 1
      BY <1>2, <1>3, <1>4
    <3> QED BY <1>3, <1>4, <1>6, <2>1, <2>2, <3>1
  <2>3. CASE p # r
    BY <1>4, <2>1, <2>3 DEF RunsIn
  <2> QED BY <2>2, <2>3
<1>8. NoneTouch(heads, sizes2)
  <2>1. r + sizes2[r] = first + n
    BY <1>2, <1>3, <1>4
  <2> QED BY <1>4, <2>1 DEF NoneTouch
<1>9. /\ ExtentsIn(held \ {x}, pool) /\ ExtentsApart(held \ {x})
  BY DEF ExtentsIn, ExtentsApart
<1>10. FreeApart(heads, sizes2, held \ {x})
  <2>1. \A b \in held \ {x} : \A q : ~(q \in Block(r, sizes2[r]) /\ q \in Extent(b))
    BY <1>6 DEF ExtentsApart, FreeApart
  <2> QED BY <1>4, <2>1 DEF FreeApart
<1>11. Covered(heads, sizes2, held \ {x}, pool)
  <2> SUFFICES ASSUME NEW q \in pool
               PROVE  (\E p \in heads : q \in Block(p, sizes2[p])) \/ \E b \in held \ {x} : q \in Extent(b)
    BY DEF Covered
  <2>1. CASE \E p \in heads : q \in Block(p, sizes[p])
    BY <1>4, <1>6, <2>1
  <2>2. CASE \E b \in held : q \in Extent(b)
    BY <1>6, <2>2
  <2> QED BY <2>1, <2>2 DEF Covered
<1> QED BY <1>7, <1>8, <1>9, <1>10, <1>11

(* The page after an allocation is the header of a run, unless it is not   *)
(* of the pool or starts another allocation.                               *)
LEMMA RunAfter ==
  ASSUME NEW heads, NEW sizes, NEW owners, NEW held, NEW pool, NEW x,
         Tiled(heads, sizes, owners, held, pool) /\ x \in held
  PROVE  x[1] + x[2] \in heads <=>
           x[1] + x[2] \in pool /\ \A b \in held : b[1] # x[1] + x[2]
<1> USE DEF Tiled, Tiling
<1>1. PICK first \in Int : first = x[1]
  BY DEF ExtentsIn
<1>2. PICK n \in Int : n = x[2] /\ n >= 1
  BY DEF ExtentsIn
<1>3. PICK next \in Int : next = first + n
  BY <1>1, <1>2
<1>4. next - 1 \in Extent(x) /\ next \notin Extent(x)
  BY <1>1, <1>2, <1>3 DEF Extent, Block
<1>5. ASSUME next \in heads PROVE next \in pool /\ \A b \in held : b[1] # next
  <2>1. next \in Block(next, sizes[next]) /\ next \in pool
    BY <1>5 DEF RunsIn, Block
  <2>2. \A b \in held : b[1] \in Extent(b)
    BY DEF ExtentsIn, Extent, Block
  <2> QED BY <1>5, <2>1, <2>2 DEF FreeApart
<1>6. ASSUME next \in pool, \A b \in held : b[1] # next PROVE next \in heads
  <2>1. ASSUME NEW b \in held, next \in Extent(b) PROVE FALSE
    <3>1. b[1] \in Int /\ b[2] \in Int /\ b[1] # next
      BY <1>6 DEF ExtentsIn
    <3>2. next - 1 \in Extent(b)
      BY <2>1, <3>1 DEF Extent, Block
    <3> QED BY <1>4, <2>1, <3>2 DEF ExtentsApart
  <2>2. PICK p \in heads : next \in Block(p, sizes[p])
    BY <1>6, <2>1 DEF Covered
  <2>3. p \in Int /\ sizes[p] \in Int
    BY DEF RunsIn
  <2>4. CASE p # next
    <3>1. next - 1 \in Block(p, sizes[p])
      BY <2>2, <2>3, <2>4 DEF Block
    <3> QED BY <1>4, <3>1 DEF FreeApart
  <2> QED BY <2>4
<1> QED BY <1>1, <1>2, <1>3, <1>5, <1>6

PageBefore(b) == b[1] - 1
LastPage(b) == b[1] + b[2] - 1
AfterRun(sizes, p) == p + sizes[p]

(* A run that ends where an allocation starts: the page before it is of    *)
(* the pool and ends no allocation.                                        *)
LEMMA RunEnds ==
  ASSUME NEW heads, NEW sizes, NEW owners, NEW held, NEW pool, NEW x, NEW p,
         Tiled(heads, sizes, owners, held, pool) /\ x \in held
           /\ p \in heads /\ AfterRun(sizes, p) = x[1]
  PROVE  PageBefore(x) \in pool /\ \A b \in held : LastPage(b) # PageBefore(x)
<1> USE DEF Tiled, Tiling, PageBefore, LastPage, AfterRun
<1>1. PICK first \in Int : first = x[1]
  BY DEF ExtentsIn
<1>2. PICK n \in Int : n = x[2] /\ n >= 1
  BY DEF ExtentsIn
<1>3. PICK last \in Int : last = first - 1
  BY <1>1
<1>4. first \in Extent(x) /\ last \notin Extent(x)
  BY <1>1, <1>2, <1>3 DEF Extent, Block
<1>5. p \in Int /\ sizes[p] \in Int /\ sizes[p] >= 1
  BY DEF RunsIn
<1>6. last \in Block(p, sizes[p])
  BY <1>1, <1>3, <1>5 DEF Block
<1>7. \A b \in held : b[1] + b[2] - 1 \in Extent(b)
  BY DEF ExtentsIn, Extent, Block
<1> QED BY <1>1, <1>3, <1>6, <1>7 DEF RunsIn, FreeApart

(* Conversely such a page is the last of a run, and leads to its header.   *)
LEMMA RunBefore ==
  ASSUME NEW heads, NEW sizes, NEW owners, NEW held, NEW pool, NEW x,
         Tiled(heads, sizes, owners, held, pool) /\ x \in held
           /\ PageBefore(x) \in pool /\ \A b \in held : LastPage(b) # PageBefore(x)
  PROVE  /\ owners[PageBefore(x)] \in heads
         /\ AfterRun(sizes, owners[PageBefore(x)]) = x[1]
<1> USE DEF Tiled, Tiling, PageBefore, LastPage, AfterRun
<1>1. PICK first \in Int : first = x[1]
  BY DEF ExtentsIn
<1>2. PICK n \in Int : n = x[2] /\ n >= 1
  BY DEF ExtentsIn
<1>3. PICK last \in Int : last = first - 1
  BY <1>1
<1>4. first \in Extent(x) /\ last \notin Extent(x)
  BY <1>1, <1>2, <1>3 DEF Extent, Block
<1>5. last \in pool /\ \A b \in held : b[1] + b[2] - 1 # last
  BY <1>1, <1>3
<1>6. owners[last] \in heads /\ owners[last] + sizes[owners[last]] = first
  <2>1. ASSUME NEW b \in held, last \in Extent(b) PROVE FALSE
    <3>1. b[1] \in Int /\ b[2] \in Int /\ b[1] + b[2] - 1 # last
      BY <1>5 DEF ExtentsIn
    <3>2. first \in Extent(b)
      BY <1>3, <2>1, <3>1 DEF Extent, Block
    <3> QED BY <1>4, <2>1, <3>2 DEF ExtentsApart
  <2>2. PICK p \in heads : last \in Block(p, sizes[p])
    BY <1>5, <2>1 DEF Covered
  <2>3. p \in Int /\ sizes[p] \in Int /\ owners[last] = p
    BY <2>2 DEF RunsIn
  <2>4. CASE p + sizes[p] # first
    <3>1. first \in Block(p, sizes[p])
      BY <1>3, <2>2, <2>3, <2>4 DEF Block
    <3> QED BY <1>4, <3>1 DEF FreeApart
  <2> QED BY <2>3, <2>4
<1> QED BY <1>1, <1>3, <1>6

(* A block that is freed, with the runs that touch it.                     *)
Joined(heads, sizes, owners, held, pool, x, after, before, n, head, heads2, sizes2, owners2) ==
  LET next == x[1] + x[2] IN
  /\ x = <<x[1], x[2]>>
  /\ after \in BOOLEAN /\ before \in BOOLEAN
  /\ after <=> next \in pool /\ \A b \in held : b[1] # next
  /\ before <=> PageBefore(x) \in pool /\ \A b \in held : LastPage(b) # PageBefore(x)
  /\ n = x[2] + (IF after THEN sizes[next] ELSE 0)
  /\ head = IF before THEN owners[PageBefore(x)] ELSE x[1]
  /\ heads2 = (heads \ (IF after THEN {next} ELSE {})) \cup {head}
  /\ sizes2[head] = n + (IF before THEN sizes[head] ELSE 0)
  /\ \A p \in heads : p # head => sizes2[p] = sizes[p]
  /\ \A q \in pool : owners2[q] = IF q \in Block(x[1], n) THEN head ELSE owners[q]

(* The result is one run, whichever neighbours are free.                   *)
LEMMA JoinTiles ==
  ASSUME NEW heads, NEW sizes, NEW owners, NEW held, NEW pool, NEW x, NEW after, NEW before,
         NEW n, NEW head, NEW heads2, NEW sizes2, NEW owners2,
         Tiled(heads, sizes, owners, held, pool) /\ x \in held
           /\ Joined(heads, sizes, owners, held, pool, x, after, before, n, head,
                     heads2, sizes2, owners2)
  PROVE  Tiled(heads2, sizes2, owners2, held \ {x}, pool)
<1>1. PICK next : next = x[1] + x[2]
  OBVIOUS
<1>2. PICK y : y = <<x[1], n>>
  OBVIOUS
<1>3. PICK heads1 : heads1 = heads \ (IF after THEN {next} ELSE {})
  OBVIOUS
<1>4. x[1] \in Int /\ x[2] \in Int /\ x[2] >= 1
  BY DEF Tiled, Tiling, ExtentsIn
<1>5. PICK held1 : held1 = (held \ {x}) \cup {y}
  OBVIOUS
<1>6. /\ Tiled(heads1, sizes, owners, held1, pool)
      /\ y \in held1 /\ held1 \ {y} = held \ {x} /\ y[1] + y[2] \notin heads1
  <2>1. CASE after
    <3>1. next \in heads
      BY <1>1, <2>1, RunAfter DEF Joined
    <3>2. n = x[2] + sizes[next] /\ heads1 = heads \ {next} /\ y = <<x[1], x[2] + sizes[next]>>
      BY <1>1, <1>2, <1>3, <2>1 DEF Joined
    <3>3. Tiled(heads \ {next}, sizes, owners, (held \ {x}) \cup {y}, pool) /\ y \notin held \ {x}
      BY <1>1, <3>1, <3>2, AbsorbTiles
    <3>4. y[1] + y[2] = next + sizes[next]
      <4>1. sizes[next] \in Int /\ y[1] = x[1] /\ y[2] = x[2] + sizes[next]
        BY <3>1, <3>2 DEF Tiled, Tiling, RunsIn
      <4> QED BY <1>1, <1>4, <4>1
    <3>5. next + sizes[next] \notin heads
      BY <3>1 DEF Tiled, Tiling, NoneTouch
    <3> QED BY <1>5, <3>2, <3>3, <3>4, <3>5
  <2>2. CASE ~after
    <3>1. next \notin heads
      BY <1>1, <2>2, RunAfter DEF Joined
    <3>2. n = x[2] /\ heads1 = heads /\ y = x
      BY <1>1, <1>2, <1>3, <1>4, <2>2 DEF Joined
    <3>3. held1 = held
      BY <1>5, <3>2
    <3> QED BY <1>1, <3>1, <3>2, <3>3
  <2> QED BY <2>1, <2>2 DEF Joined
<1>7. n \in Int /\ n >= 1 /\ y[1] = x[1] /\ y[2] = n
  <2>1. y[1] = x[1] /\ y[2] = n
    BY <1>2
  <2> QED BY <1>6, <2>1 DEF Tiled, Tiling, ExtentsIn
<1>8. \A q : q \in Extent(y) <=> q \in Block(x[1], n)
  BY <1>7 DEF Extent
<1>9. /\ heads2 = heads1 \cup {head} /\ \A p \in heads1 : p \in heads
      /\ \A p \in heads1 : p # head => sizes2[p] = sizes[p]
      /\ \A q \in pool : owners2[q] = IF q \in Extent(y) THEN head ELSE owners[q]
  BY <1>1, <1>3, <1>8 DEF Joined
<1>10. CASE before
  <2>1. head \in heads /\ head + sizes[head] = x[1] /\ sizes2[head] = n + sizes[head]
    <3>1. PageBefore(x) \in pool /\ \A b \in held : LastPage(b) # PageBefore(x)
      BY <1>10 DEF Joined
    <3>2. head = owners[PageBefore(x)]
      BY <1>10 DEF Joined
    <3>3. head \in heads /\ AfterRun(sizes, head) = x[1]
      BY <3>1, <3>2, RunBefore
    <3>4. sizes2[head] = n + sizes[head]
      BY <1>10 DEF Joined
    <3> QED BY <3>3, <3>4 DEF AfterRun
  <2>2. head \in Int /\ sizes[head] \in Int /\ sizes[head] >= 1
    BY <2>1 DEF Tiled, Tiling, RunsIn
  <2>3. head # next
    BY <1>1, <1>4, <2>1, <2>2
  <2>4. head \in heads1 /\ heads2 = heads1
    BY <1>3, <1>9, <2>1, <2>3
  <2>5. sizes2[head] = sizes[head] + y[2] /\ head + sizes[head] = y[1]
    BY <1>7, <2>1, <2>2
  <2>6. Tiled(heads1, sizes2, owners2, held1 \ {y}, pool)
    BY <1>6, <1>9, <2>4, <2>5, GrowTiles
  <2> QED BY <1>6, <2>4, <2>6
<1>11. CASE ~before
  <2>1. head = y[1] /\ sizes2[y[1]] = y[2]
    BY <1>7, <1>11 DEF Joined
  <2>2. \A p \in heads1 : p + sizes[p] # y[1]
    <3>1. ~(PageBefore(x) \in pool /\ \A b \in held : LastPage(b) # PageBefore(x))
      BY <1>11 DEF Joined
    <3>2. \A p \in heads : AfterRun(sizes, p) # x[1]
      BY <3>1, RunEnds
    <3> QED BY <1>7, <1>9, <3>2 DEF AfterRun
  <2>3. Tiled(heads1 \cup {y[1]}, sizes2, owners2, held1 \ {y}, pool)
    BY <1>6, <1>9, <2>1, <2>2, SettleTiles
  <2> QED BY <1>6, <1>9, <2>1, <2>3
<1> QED BY <1>10, <1>11 DEF Joined

-----------------------------------------------------------------------------
(* The invariant that every action keeps.                                  *)

Pool == mapped \ {0}
Freeing == {c \in Cpus : op[c].pc = "free"}
Mapping == {c \in Cpus : op[c].pc = "map"}
BlockOf(c) == <<op[c].first, op[c].n>>

(* The lists and the allocations tile the pool.                            *)
RunsInv == Filed(lists, size) /\ Tiled(Entries(lists), size, owner, Allocated, Pool)

(* A block that is being freed is nobody's any more.                       *)
FreedOnce ==
  /\ \A c \in Freeing : BlockOf(c) \notin blocks
  /\ \A c, d \in Freeing : BlockOf(c) = BlockOf(d) => c = d

(* ExpansionAccounted, page by page.                                       *)
ExpansionIs ==
  /\ available + Cardinality(mapped \cap Expansion) = Frames
  /\ \A q : q \in Expansion <=> \/ q \in ptes \/ q \in mapped \cap Expansion
                               \/ \E c \in Mapping : q \in Extent(BlockOf(c))
  /\ \A q \in ptes : q \notin mapped
  /\ \A c \in Mapping : \A q \in Extent(BlockOf(c)) : q \notin ptes /\ q \notin mapped

(* Page 0 and the initial pool stay; PTEs are free, of a mapped page, or   *)
(* of one processor that is about to map them.                             *)
SpaceInv ==
  /\ {0} \cup Initial \subseteq mapped /\ mapped \subseteq {0} \cup Initial \cup Expansion
  /\ ExpansionIs
  /\ \A c, d \in Mapping : \A q : q \in Extent(BlockOf(c)) /\ q \in Extent(BlockOf(d)) => c = d
  /\ \A c \in Cpus : op[c].pc \in {"reserve", "map"} => op[c].n >= 1

PagesInv == TypeOK /\ RunsInv /\ BlocksMarked /\ FreedOnce /\ SpaceInv

(* The layout of the pages.                                                *)
LEMMA PagesAre ==
  \E top \in Nat :
    /\ Pages = 0 .. top /\ InitialSize \in Nat /\ InitialSize >= 1
    /\ Initial = 1 .. InitialSize /\ Expansion = InitialSize + 2 .. top - 1
<1>1. PICK top \in Nat : top = InitialSize + 2 + ExpansionSize
  BY SizesAssumption
<1>2. top - 1 = InitialSize + 1 + ExpansionSize
  BY <1>1, SizesAssumption
<1> QED BY <1>1, <1>2, SizesAssumption DEF Pages, Initial, Expansion

(* What is allocated, or being freed.                                      *)
LEMMA Held ==
  \A b : b \in Allocated <=> b \in blocks \/ \E c \in Freeing : b = BlockOf(c)
BY DEF Allocated, Freeing, BlockOf

(* Both forms say the same.                                                *)
LEMMA Accounted == ExpansionIs <=> ExpansionAccounted
<1>1. \A c \in Cpus : Extent(BlockOf(c)) = Block(op[c].first, op[c].n)
  BY DEF Extent, BlockOf
<1>2. Mapping = {c \in Cpus : op[c].pc = "map"}
  BY DEF Mapping
<1>3. ASSUME ExpansionIs PROVE ExpansionAccounted
  BY <1>1, <1>2, <1>3 DEF ExpansionIs, ExpansionAccounted
<1>4. ASSUME ExpansionAccounted PROVE ExpansionIs
  BY <1>1, <1>2, <1>4 DEF ExpansionIs, ExpansionAccounted
<1> QED BY <1>3, <1>4

(* Headers are the entries of the lists.                                   *)
LEMMA HeadersAre == Headers = Entries(lists)
BY DEF Headers, Entries, Elements

(* The runs that are long enough, and the first of them.                   *)
LEMMA FitsAre ==
  ASSUME NEW n \in Nat \ {0}, NEW f
  PROVE  f \in Fits(n) <=> \E l \in ListFor(n) .. Heads : \E i \in DOMAIN lists[l] :
                             f = <<l, i>> /\ size[lists[l][i]] >= n
BY DEF Fits, FitsFrom

(* The first fit exists when there is a fit at all.                        *)
LEMMA FirstFits ==
  ASSUME TypeOK, NEW n \in Nat \ {0}, Fits(n) # {}
  PROVE  \E l \in 1 .. Heads : \E i \in DOMAIN lists[l] :
           FirstFit(n) = <<l, i>> /\ size[lists[l][i]] >= n
<1>0. ListFor(n) \in 1 .. Heads /\ Heads \in Nat
  BY ListExists, SizesAssumption
<1>1. \A l \in 1 .. Heads : DOMAIN lists[l] \subseteq Nat
  BY LenProperties DEF TypeOK
<1>2. \A f \in Fits(n) : f = <<f[1], f[2]>> /\ f[1] \in 1 .. Heads /\ f[2] \in Nat
  BY <1>0, <1>1, FitsAre
<1>3. PICK l \in {f[1] : f \in Fits(n)} : \A k \in {f[1] : f \in Fits(n)} : l <= k
  <2>1. {f[1] : f \in Fits(n)} \in SUBSET Nat /\ {f[1] : f \in Fits(n)} # {}
    BY <1>0, <1>2
  <2> QED BY <2>1, LeastNumber
<1>4. l \in Nat /\ \A g \in Fits(n) : l <= g[1]
  BY <1>0, <1>2, <1>3
<1>5. PICK g \in Fits(n) : g[1] = l
  BY <1>3
<1>6. PICK i \in {f[2] : f \in {h \in Fits(n) : h[1] = l}} :
        \A k \in {f[2] : f \in {h \in Fits(n) : h[1] = l}} : i <= k
  <2>1. {f[2] : f \in {h \in Fits(n) : h[1] = l}} \in SUBSET Nat
    BY <1>2
  <2>2. {f[2] : f \in {h \in Fits(n) : h[1] = l}} # {}
    BY <1>5
  <2> QED BY <2>1, <2>2, LeastNumber
<1>7. PICK f \in Fits(n) : f[1] = l /\ f[2] = i
  BY <1>6
<1>8. \A h \in Fits(n) : f[1] < h[1] \/ (f[1] = h[1] /\ f[2] <= h[2])
  <2> SUFFICES ASSUME NEW h \in Fits(n) PROVE f[1] < h[1] \/ (f[1] = h[1] /\ f[2] <= h[2])
    OBVIOUS
  <2>1. h[1] \in Nat /\ l <= h[1] /\ l \in Nat
    BY <1>0, <1>2, <1>4
  <2>2. h[1] = l => i <= h[2]
    BY <1>6
  <2> QED BY <1>7, <2>1, <2>2
<1>9. FirstFit(n) \in Fits(n)
  BY <1>7, <1>8 DEF FirstFit
<1> QED BY <1>0, <1>9, FitsAre

-----------------------------------------------------------------------------
(* AllocateNonPagedPoolPages.                                              *)

(* A run lies within the pool.                                             *)
LEMMA RunTyped ==
  ASSUME TypeOK, RunsInv, NEW r \in Entries(lists)
  PROVE  /\ r \in Pages \ {0} /\ size[r] \in Pages \ {0}
         /\ \A q \in Run(r) : q \in Pages \ {0}
         /\ \A q : q \in Run(r) <=> q \in Int /\ r <= q /\ q < r + size[r]
<1>1. r \in Int /\ size[r] \in Int /\ size[r] >= 1 /\ \A q \in Run(r) : q \in Pool
  BY DEF RunsInv, Tiled, Tiling, RunsIn, Run
<1>2. \A q : q \in Run(r) <=> q \in Int /\ r <= q /\ q < r + size[r]
  BY <1>1 DEF Run, Block
<1>3. r \in Run(r)
  BY <1>1, <1>2
<1>4. \A q \in Run(r) : q \in Pages \ {0}
  BY <1>1 DEF Pool, TypeOK
<1>5. size[r] \in Pages \ {0}
  BY <1>1, <1>3, <1>4, PagesAre DEF TypeOK, Junk
<1> QED BY <1>2, <1>3, <1>4, <1>5

(* What is taken from the lists, and what stays.                           *)
TakenFrom(n, r, left) ==
  /\ r \in Entries(lists) /\ n \in Nat \ {0}
  /\ left \in Nat /\ left + n = size[r]
  /\ lists' \in [1 .. Heads -> Seq(Pages)]
  /\ Taken(Entries(lists), size, owner, Pool, r, n, Entries(lists'), size', owner')
  /\ Filed(lists', size')
  /\ size' \in [Pages -> Pages \cup {Junk}] /\ owner' \in [Pages -> Pages \cup {Junk}]

(* The step in terms of the run that gives its end.                        *)
LEMMA TakeEffect ==
  ASSUME TypeOK, RunsInv, NEW c \in Cpus, NEW n \in Requests, TakeFromList(c, n)
  PROVE  \E r \in Pages, left \in Nat :
           /\ TakenFrom(n, r, left)
           /\ starts' = starts \cup {r + left} /\ ends' = ends \cup {r + left + n - 1}
           /\ blocks' = blocks \cup {<<r + left, n>>}
<1>1. n \in Nat \ {0} /\ Fits(n) # {}
  BY SizesAssumption DEF TakeFromList
<1>a. PICK l \in 1 .. Heads : \E i \in DOMAIN lists[l] : FirstFit(n) = <<l, i>> /\ size[lists[l][i]] >= n
  BY <1>1, FirstFits
<1>2. PICK i \in DOMAIN lists[l] : FirstFit(n) = <<l, i>> /\ size[lists[l][i]] >= n
  BY <1>a
<1>3. PICK r : r = lists[l][i]
  OBVIOUS
<1>4. r \in Entries(lists) /\ FirstFit(n)[1] = l /\ FirstFit(n)[2] = i
  BY <1>2, <1>3 DEF Entries, Elements
<1>5. /\ r \in Pages \ {0} /\ size[r] \in Pages \ {0} /\ \A q \in Run(r) : q \in Pages \ {0}
      /\ \A q : q \in Run(r) <=> q \in Int /\ r <= q /\ q < r + size[r]
  BY <1>4, RunTyped
<1>6. r \in Int /\ size[r] \in Int /\ size[r] >= n
  BY <1>2, <1>3, <1>5, PagesAre
<1>7. PICK left \in Nat : left = size[r] - n /\ left + n = size[r]
  BY <1>1, <1>6
<1>8. PICK taken : taken = Block(r + left, n)
  OBVIOUS
<1>9. PICK without : without = [lists EXCEPT ![l] = RemoveAt(@, i)]
  OBVIOUS
<1>10. /\ lists' = IF left = 0 THEN without ELSE [without EXCEPT ![ListFor(left)] = Append(@, r)]
       /\ size' = Scribbled([size EXCEPT ![r] = left], taken)
       /\ owner' = Scribbled(owner, taken)
       /\ starts' = starts \cup {r + left} /\ ends' = ends \cup {r + left + n - 1}
       /\ blocks' = blocks \cup {<<r + left, n>>}
  BY <1>3, <1>4, <1>7, <1>8, <1>9 DEF TakeFromList
<1>11. /\ \A q : q \in taken => q \in Run(r)
       /\ left # 0 => r \notin taken
  <2>1. \A q : q \in taken <=> q \in Int /\ r + left <= q /\ q < r + size[r]
    <3>1. PICK first \in Int : first = r + left
      BY <1>6, <1>7
    <3>2. PICK after \in Int : after = r + size[r]
      BY <1>6
    <3>3. first + n = after /\ n \in Int
      BY <1>1, <1>6, <1>7, <3>1, <3>2
    <3>4. \A q : q \in first .. first + n - 1 <=> q \in Int /\ first <= q /\ q < after
      BY <3>3
    <3> QED BY <1>8, <3>1, <3>2, <3>4 DEF Block
  <2> QED BY <1>5, <1>6, <1>7, <2>1
<1>12. left \in Pages /\ left <= size[r]
  BY <1>1, <1>5, <1>6, <1>7, PagesAre
<1>13. /\ size' \in [Pages -> Pages \cup {Junk}] /\ owner' \in [Pages -> Pages \cup {Junk}]
       /\ \A p \in Pages : p \notin taken /\ p # r => size'[p] = size[p]
       /\ left # 0 => size'[r] = left
       /\ \A p \in Pages : p \notin taken => owner'[p] = owner[p]
  BY <1>5, <1>10, <1>11, <1>12 DEF Scribbled, TypeOK
<1>14. \A p \in Entries(lists) : p # r => size'[p] = size[p] /\ p \in Pages
  <2> SUFFICES ASSUME NEW p \in Entries(lists), p # r PROVE size'[p] = size[p] /\ p \in Pages
    OBVIOUS
  <2>1. p \in Pages /\ p \in Run(p)
    <3>1. p \in Int /\ size[p] \in Int /\ size[p] >= 1 /\ p \in Pages
      BY RunTyped, PagesAre
    <3> QED BY <3>1 DEF Run, Block
  <2>2. p \notin Run(r)
    BY <1>4, <2>1 DEF RunsInv, Tiled, Tiling, RunsIn, Run
  <2> QED BY <1>11, <1>13, <2>1, <2>2
<1>15. /\ Filed(without, size') /\ Entries(without) = Entries(lists) \ {r}
  <2>1. /\ Filed(lists, size) /\ TakenOut(lists, without, l, i)
        /\ \A p \in Entries(lists) : p # lists[l][i] => size'[p] = size[p]
    BY <1>3, <1>9, <1>14 DEF RunsInv, TakenOut
  <2>2. Filed(without, size') /\ Entries(without) = Entries(lists) \ {lists[l][i]}
    BY <1>a, <1>2, <2>1, TakeFiled
  <2> QED BY <1>3, <2>2
<1>16. /\ Filed(lists', size')
       /\ Entries(lists') = {p \in Entries(lists) : p # r \/ left # 0}
  <2>1. CASE left = 0
    BY <1>10, <1>15, <2>1
  <2>2. CASE left # 0
    <3>1. PutIn(without, lists', r, left)
      BY <1>10, <2>2 DEF PutIn
    <3>2. r \notin Entries(without) /\ \A q \in Entries(without) : size'[q] = size'[q]
      BY <1>15
    <3>3. left \in Nat \ {0} /\ size'[r] = left
      BY <1>13, <2>2
    <3>4. Adds(without, size', r, left, lists', size')
      BY <1>5, <1>15, <3>1, <3>2, <3>3, Zenon DEF Adds
    <3>5. Filed(lists', size') /\ Entries(lists') = Entries(without) \cup {r}
      BY <3>4, AddFiled
    <3> QED BY <1>4, <1>15, <2>2, <3>5
  <2> QED BY <2>1, <2>2
<1>17. Taken(Entries(lists), size, owner, Pool, r, n, Entries(lists'), size', owner')
  <2>1. \A q \in Pool : q \in Pages
    BY DEF Pool, TypeOK
  <2>2. Entries(lists') = {p \in Entries(lists) : p # r \/ size[r] - n # 0}
    BY <1>7, <1>16
  <2>3. size[r] - n # 0 => size'[r] = size[r] - n
    BY <1>7, <1>13
  <2>4. \A q \in Pool : q \notin Block(r + (size[r] - n), n) => owner'[q] = owner[q]
    BY <1>7, <1>8, <1>13, <2>1
  <2>5. n \in Int /\ 1 <= n /\ n <= size[r]
    BY <1>1, <1>6
  <2> QED BY <1>4, <1>14, <2>2, <2>3, <2>4, <2>5 DEF Taken
<1>18. TakenFrom(n, r, left)
  BY <1>1, <1>4, <1>7, <1>13, <1>16, <1>17 DEF TakenFrom, Filed
<1> QED BY <1>5, <1>10, <1>18

(* An allocation from the lists.                                           *)
LEMMA TakeKeeps ==
  ASSUME PagesInv, NEW c \in Cpus, NEW n \in Requests, TakeFromList(c, n)
  PROVE  PagesInv'
<1> USE DEF PagesInv
<1>1. PICK r \in Pages, left \in Nat :
        /\ TakenFrom(n, r, left)
        /\ starts' = starts \cup {r + left} /\ ends' = ends \cup {r + left + n - 1}
        /\ blocks' = blocks \cup {<<r + left, n>>}
  BY TakeEffect
<1>2. UNCHANGED <<mapped, ptes, available, op>>
  BY DEF TakeFromList, space
<1>3. PICK x : x = <<r + left, n>>
  OBVIOUS
<1>4. x[1] = r + left /\ x[2] = n
  BY <1>3
<1>5. Allocated' = Allocated \cup {x}
  BY <1>1, <1>2, <1>3 DEF Allocated
<1>6. RunsInv'
  <2>1. left = size[r] - n
    BY <1>1 DEF TakenFrom
  <2>2. /\ Tiled(Entries(lists), size, owner, Allocated, Pool)
        /\ Taken(Entries(lists), size, owner, Pool, r, n, Entries(lists'), size', owner')
        /\ x = <<r + (size[r] - n), n>>
    BY <1>1, <1>3, <2>1 DEF RunsInv, TakenFrom
  <2>3. Tiled(Entries(lists'), size', owner', Allocated \cup {x}, Pool)
    BY <2>2, TakeTiles
  <2>4. Pool' = Pool
    BY <1>2 DEF Pool
  <2> QED BY <1>1, <1>5, <2>3, <2>4 DEF RunsInv, TakenFrom
<1>7. /\ r + left \in Pages /\ r + left + n - 1 \in Pages /\ n \in Pages \ {0} /\ r + left \in Run(r)
  <2>1. /\ r \in Int /\ size[r] \in Pages \ {0} /\ \A q \in Run(r) : q \in Pages \ {0}
        /\ \A q : q \in Run(r) <=> q \in Int /\ r <= q /\ q < r + size[r]
    BY <1>1, RunTyped, PagesAre DEF TakenFrom
  <2>2. n \in Nat \ {0} /\ left + n = size[r]
    BY <1>1 DEF TakenFrom
  <2>3. r + left \in Run(r) /\ r + left + n - 1 \in Run(r)
    BY <2>1, <2>2
  <2>4. n \in Pages \ {0}
    BY <2>1, <2>2, PagesAre
  <2> QED BY <2>1, <2>3, <2>4
<1>8. TypeOK'
  <2>1. TakenFrom(n, r, left)
    BY <1>1
  <2>2. /\ lists' \in [1 .. Heads -> Seq(Pages)]
        /\ size' \in [Pages -> Pages \cup {Junk}] /\ owner' \in [Pages -> Pages \cup {Junk}]
    BY <2>1 DEF TakenFrom
  <2>3. starts' \subseteq Pages /\ ends' \subseteq Pages /\ blocks' \subseteq Pages \X (Pages \ {0})
    BY <1>1, <1>7 DEF TypeOK
  <2> QED BY <1>2, <2>2, <2>3 DEF TypeOK
<1>9. BlocksMarked'
  BY <1>1, <1>4, <1>5 DEF BlocksMarked
<1>10. FreedOnce'
  <2>1. x \notin Allocated
    <3>1. r + left \in Extent(x)
      <4>1. r + left \in Int /\ n \in Int /\ n >= 1
        BY <1>1, <1>7, PagesAre DEF TakenFrom
      <4> QED BY <1>4, <4>1 DEF Extent, Block
    <3>2. r \in Entries(lists)
      BY <1>1 DEF TakenFrom
    <3> QED BY <1>7, <3>1, <3>2 DEF RunsInv, Tiled, Tiling, FreeApart, Run
  <2> QED BY <1>1, <1>2, <1>3, <2>1, Held DEF FreedOnce, Freeing, BlockOf
<1>11. SpaceInv'
  BY <1>2 DEF SpaceInv, ExpansionIs, Mapping, BlockOf, Extent
<1> QED BY <1>6, <1>8, <1>9, <1>10, <1>11

-----------------------------------------------------------------------------
(* Processors that wait for memory, and expand the pool.                   *)

(* The work of one processor changes.                                      *)
LEMMA OpChanges ==
  ASSUME TypeOK, NEW c \in Cpus, NEW v, op' = [op EXCEPT ![c] = v]
  PROVE  /\ op'[c] = v /\ \A d \in Cpus \ {c} : op'[d] = op[d] /\ BlockOf(d)' = BlockOf(d)
         /\ BlockOf(c)' = <<v.first, v.n>>
         /\ \A d : d \in Freeing' <=> IF d = c THEN v.pc = "free" ELSE d \in Freeing
         /\ \A d : d \in Mapping' <=> IF d = c THEN v.pc = "map" ELSE d \in Mapping
BY DEF TypeOK, Freeing, Mapping, BlockOf

(* While nobody begins or ends a free, allocations are what callers hold.  *)
LEMMA NoFree ==
  ASSUME Freeing' = Freeing, \A d \in Freeing : BlockOf(d)' = BlockOf(d), blocks' = blocks
  PROVE  Allocated' = Allocated /\ (FreedOnce => FreedOnce')
BY DEF Allocated, FreedOnce, Freeing, BlockOf

(* Steps that touch no run keep the tiling.                                *)
LEMMA RunsStay ==
  ASSUME RunsInv, Allocated' = Allocated, UNCHANGED <<runs, mapped>>
  PROVE  RunsInv'
BY DEF RunsInv, Pool, runs

(* A search that finds nothing.                                            *)
LEMMA SearchKeeps ==
  ASSUME PagesInv, NEW c \in Cpus, NEW n \in Requests, SearchFails(c, n)
  PROVE  PagesInv'
<1> USE DEF PagesInv
<1>1. n \in Nat \ {0} /\ 0 \in Pages
  BY SizesAssumption, PagesAre
<1>2. PICK v : v = [pc |-> "reserve", first |-> 0, n |-> n]
  OBVIOUS
<1>3. op[c].pc = "idle" /\ op' = [op EXCEPT ![c] = v]
  BY <1>2 DEF SearchFails, Idle
<1>4. UNCHANGED <<runs, marks, space, blocks>>
  BY DEF SearchFails
<1>5. /\ op'[c] = v /\ \A d \in Cpus \ {c} : op'[d] = op[d] /\ BlockOf(d)' = BlockOf(d)
      /\ Freeing' = Freeing /\ Mapping' = Mapping /\ c \notin Freeing /\ c \notin Mapping
  <2>1. v.pc = "reserve" /\ c \notin Freeing /\ c \notin Mapping
    BY <1>2, <1>3 DEF Freeing, Mapping
  <2>2. /\ op'[c] = v /\ \A d \in Cpus \ {c} : op'[d] = op[d] /\ BlockOf(d)' = BlockOf(d)
        /\ \A d : d \in Freeing' <=> IF d = c THEN v.pc = "free" ELSE d \in Freeing
        /\ \A d : d \in Mapping' <=> IF d = c THEN v.pc = "map" ELSE d \in Mapping
    BY <1>3, OpChanges
  <2>3. \A d : (d \in Freeing' <=> d \in Freeing) /\ (d \in Mapping' <=> d \in Mapping)
    BY <2>1, <2>2
  <2> QED BY <2>1, <2>2, <2>3
<1>6. Allocated' = Allocated /\ FreedOnce'
  BY <1>4, <1>5, NoFree DEF Freeing
<1>7. RunsInv'
  BY <1>4, <1>6, RunsStay DEF space
<1>8. BlocksMarked'
  BY <1>4, <1>6 DEF BlocksMarked, marks
<1>9. TypeOK'
  <2>1. op' \in [Cpus -> [pc : {"idle", "reserve", "map", "free"}, first : Pages, n : Pages \cup Requests]]
    BY <1>1, <1>2, <1>3 DEF TypeOK
  <2> QED BY <1>4, <2>1 DEF TypeOK, runs, marks, space
<1>10. SpaceInv'
  <2>1. \A d \in Cpus : op'[d].pc \in {"reserve", "map"} => op'[d].n >= 1
    BY <1>1, <1>2, <1>5 DEF SpaceInv
  <2>2. \A d \in Mapping : Extent(BlockOf(d))' = Extent(BlockOf(d))
    BY <1>5 DEF Mapping, Extent
  <2> QED BY <1>4, <1>5, <2>1, <2>2 DEF SpaceInv, ExpansionIs, space
<1> QED BY <1>6, <1>7, <1>8, <1>9, <1>10

(* PTEs are reserved, or there are none.                                   *)
LEMMA ReserveKeeps ==
  ASSUME PagesInv, NEW c \in Cpus, ReservePtes(c)
  PROVE  PagesInv'
<1> USE DEF PagesInv
<1>1. op[c].pc = "reserve" /\ op[c].n >= 1 /\ op[c].n \in Int /\ 0 \in Pages
  <2>1. op[c].n \in Pages \cup Requests
    BY DEF TypeOK
  <2>2. Requests \subseteq Int /\ Pages \subseteq Int /\ 0 \in Pages
    BY SizesAssumption, PagesAre
  <2>3. op[c].pc = "reserve"
    BY DEF ReservePtes
  <2> QED BY <2>1, <2>2, <2>3 DEF SpaceInv
<1>2. PICK v : /\ op' = [op EXCEPT ![c] = v] /\ v.pc # "free"
               /\ v \in [pc : {"idle", "reserve", "map", "free"}, first : Pages, n : Pages \cup Requests]
               /\ \/ v.pc = "idle" /\ ptes' = ptes
                  \/ /\ v.pc = "map" /\ v.n = op[c].n /\ Block(v.first, v.n) \subseteq ptes
                     /\ ptes' = ptes \ Block(v.first, v.n)
  <2>1. CASE op' = [op EXCEPT ![c] = Idle] /\ ptes' = ptes
    <3>1. Idle.pc = "idle" /\ Idle \in [pc : {"idle", "reserve", "map", "free"}, first : Pages,
                                        n : Pages \cup Requests]
      BY <1>1 DEF Idle
    <3> QED BY <2>1, <3>1
  <2>2. ASSUME NEW p \in ptes, Block(p, op[c].n) \subseteq ptes,
               op' = [op EXCEPT ![c] = [@ EXCEPT !.pc = "map", !.first = p]],
               ptes' = ptes \ Block(p, op[c].n)
        PROVE  \E v : /\ op' = [op EXCEPT ![c] = v] /\ v.pc # "free"
                      /\ v \in [pc : {"idle", "reserve", "map", "free"}, first : Pages, n : Pages \cup Requests]
                      /\ \/ v.pc = "idle" /\ ptes' = ptes
                         \/ /\ v.pc = "map" /\ v.n = op[c].n /\ Block(v.first, v.n) \subseteq ptes
                            /\ ptes' = ptes \ Block(v.first, v.n)
    <3>1. PICK v : v = [op[c] EXCEPT !.pc = "map", !.first = p]
      OBVIOUS
    <3>2. op[c] \in [pc : {"idle", "reserve", "map", "free"}, first : Pages, n : Pages \cup Requests]
      BY DEF TypeOK
    <3>3. p \in Pages
      BY <2>2, PagesAre DEF TypeOK
    <3>4. /\ v \in [pc : {"idle", "reserve", "map", "free"}, first : Pages, n : Pages \cup Requests]
          /\ v.pc = "map" /\ v.first = p /\ v.n = op[c].n
      BY <3>1, <3>2, <3>3
    <3>5. op' = [op EXCEPT ![c] = v]
      BY <2>2, <3>1
    <3> QED BY <2>2, <3>4, <3>5
  <2> QED BY <2>1, <2>2 DEF ReservePtes
<1>3. UNCHANGED <<runs, marks, mapped, available, blocks>>
  BY DEF ReservePtes
<1>4. /\ op'[c] = v /\ \A d \in Cpus \ {c} : op'[d] = op[d] /\ BlockOf(d)' = BlockOf(d)
      /\ BlockOf(c)' = <<v.first, v.n>>
      /\ \A d : d \in Freeing' <=> IF d = c THEN v.pc = "free" ELSE d \in Freeing
      /\ \A d : d \in Mapping' <=> IF d = c THEN v.pc = "map" ELSE d \in Mapping
  BY <1>2, OpChanges
<1>5. c \notin Freeing /\ c \notin Mapping /\ Freeing' = Freeing
  <2>1. c \notin Freeing /\ c \notin Mapping
    BY <1>1 DEF Freeing, Mapping
  <2> QED BY <1>2, <1>4, <2>1
<1>6. Allocated' = Allocated /\ FreedOnce'
  BY <1>3, <1>4, <1>5, NoFree DEF Freeing
<1>7. RunsInv'
  BY <1>3, <1>6, RunsStay
<1>8. BlocksMarked'
  BY <1>3, <1>6 DEF BlocksMarked, marks
<1>9. TypeOK'
  <2>1. op' \in [Cpus -> [pc : {"idle", "reserve", "map", "free"}, first : Pages, n : Pages \cup Requests]]
    BY <1>2 DEF TypeOK
  <2>2. ptes' \subseteq Expansion
    BY <1>2 DEF TypeOK
  <2> QED BY <1>3, <2>1, <2>2 DEF TypeOK, runs, marks
<1>10. \A d \in Mapping : d # c /\ Extent(BlockOf(d))' = Extent(BlockOf(d))
  BY <1>4, <1>5 DEF Mapping, Extent
<1>11. SpaceInv'
  <2>1. \A d \in Cpus : op'[d].pc \in {"reserve", "map"} => op'[d].n >= 1
    BY <1>1, <1>2, <1>4 DEF SpaceInv
  <2>2. CASE v.pc = "idle" /\ ptes' = ptes
    <3>1. Mapping' = Mapping
      BY <1>4, <1>5, <2>2
    <3> QED BY <1>3, <1>10, <2>1, <2>2, <3>1 DEF SpaceInv, ExpansionIs
  <2>3. CASE /\ v.pc = "map" /\ v.n = op[c].n /\ Block(v.first, v.n) \subseteq ptes
             /\ ptes' = ptes \ Block(v.first, v.n)
    <3>1. PICK block : block = Block(v.first, v.n) /\ block \subseteq ptes /\ ptes' = ptes \ block
      BY <2>3
    <3>2. Mapping' = Mapping \cup {c} /\ Extent(BlockOf(c))' = block
      BY <1>4, <1>5, <2>3, <3>1 DEF Extent
    <3>3. \A d \in Mapping : \A q \in Extent(BlockOf(d)) : q \notin block
      BY <3>1 DEF SpaceInv, ExpansionIs
    <3>4. \A d, e \in Mapping' : \A q : q \in Extent(BlockOf(d))' /\ q \in Extent(BlockOf(e))' => d = e
      BY <1>10, <3>2, <3>3 DEF SpaceInv
    <3>5. \A q : q \in Expansion <=> \/ q \in ptes' \/ q \in mapped \cap Expansion
                                     \/ \E d \in Mapping' : q \in Extent(BlockOf(d))'
      <4> SUFFICES ASSUME NEW q
                   PROVE q \in Expansion <=> \/ q \in ptes' \/ q \in mapped \cap Expansion
                                             \/ \E d \in Mapping' : q \in Extent(BlockOf(d))'
        OBVIOUS
      <4>1. q \in ptes <=> q \in ptes' \/ q \in block
        BY <3>1
      <4>2. (\E d \in Mapping' : q \in Extent(BlockOf(d))') <=>
              q \in block \/ \E d \in Mapping : q \in Extent(BlockOf(d))
        BY <1>10, <3>2
      <4> QED BY <4>1, <4>2 DEF SpaceInv, ExpansionIs
    <3>6. \A q \in ptes' : q \notin mapped
      BY <3>1 DEF SpaceInv, ExpansionIs
    <3>7. \A d \in Mapping' : \A q \in Extent(BlockOf(d))' : q \notin ptes' /\ q \notin mapped
      BY <1>10, <3>1, <3>2 DEF SpaceInv, ExpansionIs
    <3>8. mapped' = mapped /\ available' = available
      BY <1>3
    <3> QED BY <2>1, <3>4, <3>5, <3>6, <3>7, <3>8 DEF SpaceInv, ExpansionIs
  <2> QED BY <1>2, <2>2, <2>3
<1> QED BY <1>6, <1>7, <1>8, <1>9, <1>11

(* Counting the pages of a block.                                          *)
LEMMA BlockCount ==
  ASSUME NEW p \in Int, NEW n \in Int, n >= 1
  PROVE  IsFiniteSet(Block(p, n)) /\ Cardinality(Block(p, n)) = n
<1>1. PICK e \in Int : e = p + n - 1 /\ e - p + 1 = n /\ p <= e
  OBVIOUS
<1>2. IsFiniteSet(p .. e) /\ Cardinality(p .. e) = IF p > e THEN 0 ELSE e - p + 1
  BY FS_Interval
<1> QED BY <1>1, <1>2 DEF Block

(* Disjoint blocks add up.                                                 *)
LEMMA AddBlock ==
  ASSUME NEW S, IsFiniteSet(S), NEW B, IsFiniteSet(B), S \cap B = {}
  PROVE  Cardinality(S \cup B) = Cardinality(S) + Cardinality(B)
<1>1. Cardinality(S \cup B) = Cardinality(S) + Cardinality(B) - Cardinality(S \cap B)
  BY FS_Union
<1>2. Cardinality(S \cap B) = 0
  BY FS_EmptySet
<1>3. Cardinality(S) \in Nat /\ Cardinality(B) \in Nat
  BY FS_CardinalityType
<1> QED BY <1>1, <1>2, <1>3

(* The mapped part of the expansion pool can be counted.                   *)
LEMMA ExpansionFinite == IsFiniteSet(mapped \cap Expansion)
<1>1. PICK top \in Nat : Expansion = InitialSize + 2 .. top - 1 /\ InitialSize \in Nat
  BY PagesAre
<1>2. IsFiniteSet(Expansion)
  BY <1>1, FS_Interval
<1> QED BY <1>2, FS_Subset

(* An allocation lies within the pool.                                     *)
LEMMA HeldInPool ==
  ASSUME RunsInv, NEW b \in Allocated
  PROVE  /\ b[1] \in Int /\ b[2] \in Int /\ b[2] >= 1 /\ \A q \in Extent(b) : q \in Pool
         /\ b[1] \in Extent(b) /\ b[1] + b[2] - 1 \in Extent(b)
<1>1. b[1] \in Int /\ b[2] \in Int /\ b[2] >= 1 /\ \A q \in Extent(b) : q \in Pool
  BY DEF RunsInv, Tiled, Tiling, ExtentsIn
<1> QED BY <1>1 DEF Extent, Block

(* Pages are mapped, or PTEs go back.                                      *)
LEMMA MapKeeps ==
  ASSUME PagesInv, NEW c \in Cpus, MapPages(c)
  PROVE  PagesInv'
<1> USE DEF PagesInv
<1>1. c \in Mapping /\ op' = [op EXCEPT ![c] = Idle] /\ UNCHANGED runs
  BY DEF MapPages, MapWhen, Mapping
<1>2. PICK b : b = BlockOf(c)
  OBVIOUS
<1>3. b[1] = op[c].first /\ b[2] = op[c].n /\ b = <<op[c].first, op[c].n>>
  BY <1>2 DEF BlockOf
<1>4. b[1] \in Pages /\ b[2] \in Int /\ b[2] >= 1 /\ b[1] \in Int
  <2>1. op[c] \in [pc : {"idle", "reserve", "map", "free"}, first : Pages, n : Pages \cup Requests]
    BY DEF TypeOK
  <2>2. Requests \subseteq Int /\ Pages \subseteq Int
    BY SizesAssumption, PagesAre
  <2>3. op[c].n >= 1
    BY <1>1 DEF SpaceInv, Mapping
  <2> QED BY <1>3, <2>1, <2>2, <2>3
<1>5. /\ Extent(b) = Block(op[c].first, op[c].n)
      /\ \A q \in Extent(b) : q \in Expansion /\ q \notin ptes /\ q \notin mapped
  BY <1>1, <1>2, <1>3 DEF SpaceInv, ExpansionIs, Extent
<1>6. /\ b[1] \in Extent(b) /\ b[1] + b[2] - 1 \in Extent(b)
      /\ \A q \in Extent(b) : q \in Pages \ {0}
      /\ b[1] + b[2] - 1 \in Pages /\ b[2] \in Pages \ {0}
  <2>1. b[1] \in Extent(b) /\ b[1] + b[2] - 1 \in Extent(b)
    BY <1>4 DEF Extent, Block
  <2>2. \A q \in Extent(b) : q \in Pages \ {0}
    BY <1>5, PagesAre
  <2>3. b[2] \in Pages \ {0}
    <3>1. b[1] + b[2] - 1 \in Pages /\ b[1] \in Pages /\ b[1] # 0
      BY <2>1, <2>2
    <3> QED BY <1>4, <3>1, PagesAre
  <2> QED BY <2>1, <2>2, <2>3
<1>7. /\ op'[c] = Idle /\ \A d \in Cpus \ {c} : op'[d] = op[d] /\ BlockOf(d)' = BlockOf(d)
      /\ Freeing' = Freeing /\ c \notin Freeing
      /\ Mapping' = Mapping \ {c}
  <2>1. Idle.pc = "idle" /\ c \notin Freeing
    BY <1>1 DEF Idle, Freeing, Mapping
  <2>2. /\ op'[c] = Idle /\ \A d \in Cpus \ {c} : op'[d] = op[d] /\ BlockOf(d)' = BlockOf(d)
        /\ \A d : d \in Freeing' <=> IF d = c THEN Idle.pc = "free" ELSE d \in Freeing
        /\ \A d : d \in Mapping' <=> IF d = c THEN Idle.pc = "map" ELSE d \in Mapping
    BY <1>1, OpChanges
  <2>3. \A d : (d \in Freeing' <=> d \in Freeing) /\ (d \in Mapping' <=> d # c /\ d \in Mapping)
    BY <2>1, <2>2
  <2> QED BY <2>1, <2>2, <2>3
<1>8. op' \in [Cpus -> [pc : {"idle", "reserve", "map", "free"}, first : Pages, n : Pages \cup Requests]]
  <2>1. Idle \in [pc : {"idle", "reserve", "map", "free"}, first : Pages, n : Pages \cup Requests]
    BY PagesAre DEF Idle
  <2> QED BY <1>1, <2>1 DEF TypeOK
<1>9. \A d \in Mapping : d # c => Extent(BlockOf(d))' = Extent(BlockOf(d)) /\ d \in Mapping'
  BY <1>7 DEF Mapping, Extent
<1>10. \A d \in Cpus : op'[d].pc \in {"reserve", "map"} => op'[d].n >= 1
  BY <1>7 DEF SpaceInv, Idle
<1>11. CASE /\ ptes' = ptes \cup Extent(b)
            /\ UNCHANGED <<marks, mapped, available, blocks>>
  <2>1. Allocated' = Allocated /\ FreedOnce'
    BY <1>7, <1>11, NoFree DEF Freeing
  <2>2. RunsInv'
    BY <1>1, <1>11, <2>1, RunsStay
  <2>3. BlocksMarked'
    BY <1>11, <2>1 DEF BlocksMarked, marks
  <2>4. TypeOK'
    BY <1>1, <1>5, <1>8, <1>11 DEF TypeOK, runs, marks
  <2>5. \A q : q \in Expansion <=> \/ q \in ptes' \/ q \in mapped \cap Expansion
                                   \/ \E d \in Mapping' : q \in Extent(BlockOf(d))'
    <3> SUFFICES ASSUME NEW q
                 PROVE q \in Expansion <=> \/ q \in ptes' \/ q \in mapped \cap Expansion
                                           \/ \E d \in Mapping' : q \in Extent(BlockOf(d))'
      OBVIOUS
    <3>1. q \in ptes' <=> q \in ptes \/ q \in Extent(b)
      BY <1>11
    <3>2. (\E d \in Mapping : q \in Extent(BlockOf(d))) <=>
            q \in Extent(b) \/ \E d \in Mapping' : q \in Extent(BlockOf(d))'
      BY <1>1, <1>2, <1>7, <1>9
    <3> QED BY <3>1, <3>2 DEF SpaceInv, ExpansionIs
  <2>6. /\ \A q \in ptes' : q \notin mapped
        /\ \A d \in Mapping' : \A q \in Extent(BlockOf(d))' : q \notin ptes' /\ q \notin mapped
    BY <1>1, <1>2, <1>5, <1>7, <1>9, <1>11 DEF SpaceInv, ExpansionIs
  <2>7. \A d, e \in Mapping' : \A q : q \in Extent(BlockOf(d))' /\ q \in Extent(BlockOf(e))' => d = e
    BY <1>7, <1>9 DEF SpaceInv
  <2>8. SpaceInv'
    BY <1>10, <1>11, <2>5, <2>6, <2>7 DEF SpaceInv, ExpansionIs
  <2> QED BY <2>1, <2>2, <2>3, <2>4, <2>8
<1>12. CASE /\ mapped' = mapped \cup Extent(b) /\ b[2] < available
            /\ available' = available - b[2] /\ ptes' = ptes
            /\ starts' = (starts \ Extent(b)) \cup {b[1]}
            /\ ends' = (ends \ Extent(b)) \cup {b[1] + b[2] - 1}
            /\ blocks' = blocks \cup {b}
  <2>1. Allocated' = Allocated \cup {b}
    BY <1>7, <1>12, Held DEF Allocated, Freeing, BlockOf
  <2>2. Pool' = Pool \cup Extent(b) /\ \A q \in Extent(b) : q \notin Pool
    BY <1>5, <1>6, <1>12 DEF Pool
  <2>3. RunsInv'
    <3>1. Tiled(Entries(lists), size, owner, Allocated \cup {b}, Pool')
      BY <1>4, <2>2, MapTiles DEF RunsInv
    <3> QED BY <1>1, <2>1, <3>1 DEF RunsInv, runs
  <2>4. \A a \in Allocated : /\ a # b /\ a[1] \notin Extent(b) /\ a[1] + a[2] - 1 \notin Extent(b)
    BY <1>6, <2>2, HeldInPool
  <2>5. BlocksMarked'
    BY <1>12, <2>1, <2>4 DEF BlocksMarked
  <2>6. FreedOnce'
    BY <1>7, <1>12, <2>4, Held DEF FreedOnce, Freeing
  <2>7. available \in Int /\ b[2] < available /\ available <= Frames /\ Frames \in Nat
    BY <1>12, SizesAssumption DEF TypeOK
  <2>8. TypeOK'
    <3>1. available' \in 0 .. Frames
      BY <1>4, <1>12, <2>7
    <3>2. mapped' \subseteq Pages /\ starts' \subseteq Pages /\ ends' \subseteq Pages
      BY <1>6, <1>12 DEF TypeOK
    <3>3. blocks' \subseteq Pages \X (Pages \ {0})
      BY <1>3, <1>4, <1>6, <1>12 DEF TypeOK
    <3> QED BY <1>1, <1>8, <1>12, <3>1, <3>2, <3>3 DEF TypeOK, runs
  <2>9. available' + Cardinality(mapped' \cap Expansion) = Frames
    <3>1. PICK S : S = mapped \cap Expansion /\ IsFiniteSet(S)
      BY ExpansionFinite
    <3>2. mapped' \cap Expansion = S \cup Extent(b) /\ S \cap Extent(b) = {}
      BY <1>5, <1>12, <3>1
    <3>3. IsFiniteSet(Extent(b)) /\ Cardinality(Extent(b)) = b[2]
      BY <1>4, BlockCount DEF Extent
    <3>4. Cardinality(mapped' \cap Expansion) = Cardinality(S) + b[2]
      BY <3>1, <3>2, <3>3, AddBlock
    <3>5. available + Cardinality(S) = Frames /\ Cardinality(S) \in Nat
      BY <3>1, FS_CardinalityType DEF SpaceInv, ExpansionIs
    <3> QED BY <1>4, <1>12, <2>7, <3>4, <3>5
  <2>10. \A q : q \in Expansion <=> \/ q \in ptes \/ q \in mapped' \cap Expansion
                                    \/ \E d \in Mapping' : q \in Extent(BlockOf(d))'
    <3> SUFFICES ASSUME NEW q
                 PROVE q \in Expansion <=> \/ q \in ptes \/ q \in mapped' \cap Expansion
                                           \/ \E d \in Mapping' : q \in Extent(BlockOf(d))'
      OBVIOUS
    <3>1. q \in mapped' \cap Expansion <=> q \in mapped \cap Expansion \/ q \in Extent(b)
      BY <1>5, <1>12
    <3>2. (\E d \in Mapping : q \in Extent(BlockOf(d))) <=>
            q \in Extent(b) \/ \E d \in Mapping' : q \in Extent(BlockOf(d))'
      BY <1>1, <1>2, <1>7, <1>9
    <3> QED BY <3>1, <3>2 DEF SpaceInv, ExpansionIs
  <2>11. /\ \A q \in ptes : q \notin mapped'
         /\ \A d \in Mapping' : \A q \in Extent(BlockOf(d))' : q \notin ptes /\ q \notin mapped'
    BY <1>1, <1>2, <1>5, <1>7, <1>9, <1>12 DEF SpaceInv, ExpansionIs
  <2>12. \A d, e \in Mapping' : \A q : q \in Extent(BlockOf(d))' /\ q \in Extent(BlockOf(e))' => d = e
    BY <1>7, <1>9 DEF SpaceInv
  <2>13. {0} \cup Initial \subseteq mapped' /\ mapped' \subseteq {0} \cup Initial \cup Expansion
    BY <1>5, <1>12 DEF SpaceInv
  <2>14. SpaceInv'
    BY <1>10, <1>12, <2>9, <2>10, <2>11, <2>12, <2>13 DEF SpaceInv, ExpansionIs
  <2> QED BY <2>3, <2>5, <2>6, <2>8, <2>14
<1> QED BY <1>3, <1>5, <1>11, <1>12 DEF MapPages, MapWhen

-----------------------------------------------------------------------------
(* FreeNonPagedPoolPages.                                                  *)

(* The count of pages finds the end of the block, as marked.               *)
LEMMA CountKeeps ==
  ASSUME PagesInv, NEW c \in Cpus, NEW b \in blocks, CountPages(c, b)
  PROVE  PagesInv'
<1> USE DEF PagesInv
<1>1. /\ op[c] = Idle /\ blocks' = blocks \ {b} /\ UNCHANGED <<runs, marks, space>>
      /\ op[c].pc = "idle"
  BY DEF CountPages, Idle
<1>2. /\ b \in Allocated /\ b = <<b[1], b[2]>> /\ b[1] \in Pages /\ b[2] \in Pages
      /\ b[1] \in Int /\ b[2] \in Int /\ b[2] >= 1
  <2>1. b \in Allocated
    BY Held
  <2> QED BY <2>1, HeldInPool DEF TypeOK
<1>3. PICK last \in Int : last = b[1] + b[2] - 1
  BY <1>2
<1>4. PICK e \in ends : /\ e >= b[1] /\ \A p \in ends : p >= b[1] => e <= p
                        /\ op' = [op EXCEPT ![c] = [pc |-> "free", first |-> b[1], n |-> e - b[1] + 1]]
  BY DEF CountPages
<1>5. e = last
  <2>1. last \in ends /\ last >= b[1]
    BY <1>2, <1>3 DEF BlocksMarked
  <2>2. PICK a \in Allocated : e = a[1] + a[2] - 1
    BY <1>4 DEF BlocksMarked
  <2>3. e \in Extent(a) /\ e \in Int
    <3>1. a[1] + a[2] - 1 \in Extent(a) /\ a[1] \in Int /\ a[2] \in Int
      BY HeldInPool
    <3> QED BY <2>2, <3>1
  <2>4. e <= last
    BY <1>4, <2>1
  <2>5. e \in Extent(b)
    BY <1>2, <1>3, <1>4, <2>3, <2>4 DEF Extent, Block
  <2>6. a = b
    BY <1>2, <2>3, <2>5 DEF RunsInv, Tiled, Tiling, ExtentsApart
  <2> QED BY <1>3, <2>2, <2>6
<1>6. PICK v : /\ v = [pc |-> "free", first |-> b[1], n |-> b[2]]
               /\ op' = [op EXCEPT ![c] = v]
  <2>1. e - b[1] + 1 = b[2]
    BY <1>2, <1>3, <1>5
  <2> QED BY <1>4, <2>1
<1>7. /\ op'[c] = v /\ \A d \in Cpus \ {c} : op'[d] = op[d] /\ BlockOf(d)' = BlockOf(d)
      /\ BlockOf(c)' = b
      /\ Freeing' = Freeing \cup {c} /\ Mapping' = Mapping /\ c \notin Freeing /\ c \notin Mapping
  <2>1. v.pc = "free" /\ c \notin Freeing /\ c \notin Mapping /\ v.first = b[1] /\ v.n = b[2]
    BY <1>1, <1>6 DEF Freeing, Mapping
  <2>2. /\ op'[c] = v /\ \A d \in Cpus \ {c} : op'[d] = op[d] /\ BlockOf(d)' = BlockOf(d)
        /\ BlockOf(c)' = <<v.first, v.n>>
        /\ \A d : d \in Freeing' <=> IF d = c THEN v.pc = "free" ELSE d \in Freeing
        /\ \A d : d \in Mapping' <=> IF d = c THEN v.pc = "map" ELSE d \in Mapping
    <3>1. op' = [op EXCEPT ![c] = v]
      BY <1>6
    <3> QED BY <3>1, OpChanges
  <2>3. \A d : (d \in Freeing' <=> d \in Freeing \/ d = c) /\ (d \in Mapping' <=> d \in Mapping)
    BY <2>1, <2>2
  <2> QED BY <1>2, <2>1, <2>2, <2>3
<1>8. \A d \in Freeing : BlockOf(d)' = BlockOf(d) /\ BlockOf(d) # b
  BY <1>7 DEF FreedOnce, Freeing
<1>9. Allocated' = Allocated
  <2>1. ASSUME NEW x PROVE x \in Allocated' <=> x \in Allocated
    <3>1. x \in Allocated' <=> x \in blocks' \/ \E d \in Freeing' : x = BlockOf(d)'
      BY DEF Allocated, Freeing, BlockOf
    <3>2. x \in Allocated <=> x \in blocks \/ \E d \in Freeing : x = BlockOf(d)
      BY Held
    <3> QED BY <1>1, <1>7, <1>8, <3>1, <3>2
  <2> QED BY <2>1
<1>10. RunsInv'
  BY <1>1, <1>9, RunsStay DEF space
<1>11. BlocksMarked'
  BY <1>1, <1>9 DEF BlocksMarked, marks
<1>12. FreedOnce'
  BY <1>1, <1>7, <1>8 DEF FreedOnce
<1>13. TypeOK'
  <2>1. v \in [pc : {"idle", "reserve", "map", "free"}, first : Pages, n : Pages \cup Requests]
    BY <1>2, <1>6
  <2> QED BY <1>1, <1>6, <2>1 DEF TypeOK, runs, marks, space
<1>14. SpaceInv'
  <2>1. \A d \in Cpus : op'[d].pc \in {"reserve", "map"} => op'[d].n >= 1
    <3>1. v.pc = "free"
      BY <1>6
    <3> QED BY <1>7, <3>1 DEF SpaceInv
  <2>2. \A d \in Mapping : Extent(BlockOf(d))' = Extent(BlockOf(d))
    BY <1>7 DEF Mapping, Extent
  <2> QED BY <1>1, <1>7, <2>1, <2>2 DEF SpaceInv, ExpansionIs, space
<1> QED BY <1>10, <1>11, <1>12, <1>13, <1>14

(* The marks of the block go, and it is nobody's any more.                 *)
LEMMA UnmarkEffect ==
  ASSUME PagesInv, NEW c \in Cpus, UnmarkBlock(c)
  PROVE  /\ BlockOf(c) \in Allocated /\ Allocated' = Allocated \ {BlockOf(c)}
         /\ BlocksMarked' /\ FreedOnce' /\ UNCHANGED blocks
         /\ op' \in [Cpus -> [pc : {"idle", "reserve", "map", "free"}, first : Pages,
                              n : Pages \cup Requests]]
         /\ starts' \subseteq starts /\ ends' \subseteq ends
         /\ Mapping' = Mapping /\ \A d \in Mapping : BlockOf(d)' = BlockOf(d)
         /\ \A d \in Cpus : op'[d].pc \in {"reserve", "map"} => op'[d].n >= 1
<1> USE DEF PagesInv
<1>1. /\ op' = [op EXCEPT ![c] = Idle] /\ blocks' = blocks
      /\ starts' = starts \ {op[c].first} /\ ends' = ends \ {op[c].first + op[c].n - 1}
      /\ c \in Freeing /\ c \notin Mapping
  BY DEF UnmarkBlock, Unmark, Freeing, Mapping
<1>2. PICK b : b = BlockOf(c)
  OBVIOUS
<1>3. b[1] = op[c].first /\ b[2] = op[c].n /\ b \in Allocated
  BY <1>1, <1>2, Held DEF BlockOf
<1>4. /\ op'[c] = Idle /\ \A d \in Cpus \ {c} : op'[d] = op[d] /\ BlockOf(d)' = BlockOf(d)
      /\ Freeing' = Freeing \ {c} /\ Mapping' = Mapping
  <2>1. Idle.pc = "idle"
    BY DEF Idle
  <2>2. /\ op'[c] = Idle /\ \A d \in Cpus \ {c} : op'[d] = op[d] /\ BlockOf(d)' = BlockOf(d)
        /\ \A d : d \in Freeing' <=> IF d = c THEN Idle.pc = "free" ELSE d \in Freeing
        /\ \A d : d \in Mapping' <=> IF d = c THEN Idle.pc = "map" ELSE d \in Mapping
    BY <1>1, OpChanges
  <2>3. \A d : (d \in Freeing' <=> d # c /\ d \in Freeing) /\ (d \in Mapping' <=> d \in Mapping)
    BY <1>1, <2>1, <2>2
  <2> QED BY <2>2, <2>3
<1>5. \A d \in Freeing : d # c => BlockOf(d)' = BlockOf(d) /\ BlockOf(d) # b
  BY <1>1, <1>2, <1>4 DEF FreedOnce, Freeing
<1>6. Allocated' = Allocated \ {b}
  <2>1. ASSUME NEW x PROVE x \in Allocated' <=> x \in Allocated /\ x # b
    <3>1. x \in Allocated' <=> x \in blocks' \/ \E d \in Freeing' : x = BlockOf(d)'
      BY DEF Allocated, Freeing, BlockOf
    <3>2. x \in Allocated <=> x \in blocks \/ \E d \in Freeing : x = BlockOf(d)
      BY Held
    <3>3. b \notin blocks
      BY <1>1, <1>2 DEF FreedOnce
    <3> QED BY <1>1, <1>2, <1>4, <1>5, <3>1, <3>2, <3>3
  <2> QED BY <2>1
<1>7. \A a \in Allocated : a # b => a[1] # b[1] /\ a[1] + a[2] - 1 # b[1] + b[2] - 1
  <2> SUFFICES ASSUME NEW a \in Allocated, a # b
               PROVE  a[1] # b[1] /\ a[1] + a[2] - 1 # b[1] + b[2] - 1
    OBVIOUS
  <2>1. /\ a[1] \in Extent(a) /\ a[1] + a[2] - 1 \in Extent(a)
        /\ b[1] \in Extent(b) /\ b[1] + b[2] - 1 \in Extent(b)
    BY <1>3, HeldInPool
  <2>2. \A q : ~(q \in Extent(a) /\ q \in Extent(b))
    BY <1>3 DEF RunsInv, Tiled, Tiling, ExtentsApart
  <2> QED BY <2>1, <2>2
<1>8. BlocksMarked'
  <2>1. starts' = starts \ {b[1]} /\ ends' = ends \ {b[1] + b[2] - 1}
    BY <1>1, <1>3
  <2> QED BY <1>3, <1>6, <1>7, <2>1 DEF BlocksMarked
<1>9. FreedOnce'
  BY <1>1, <1>4, <1>5 DEF FreedOnce
<1>10. op' \in [Cpus -> [pc : {"idle", "reserve", "map", "free"}, first : Pages, n : Pages \cup Requests]]
  <2>1. Idle \in [pc : {"idle", "reserve", "map", "free"}, first : Pages, n : Pages \cup Requests]
    BY PagesAre DEF Idle
  <2> QED BY <1>1, <2>1 DEF TypeOK
<1>11. \A d \in Mapping : BlockOf(d)' = BlockOf(d)
  BY <1>1, <1>4 DEF Mapping
<1>12. \A d \in Cpus : op'[d].pc \in {"reserve", "map"} => op'[d].n >= 1
  BY <1>4 DEF SpaceInv, Idle
<1> QED BY <1>1, <1>2, <1>3, <1>4, <1>6, <1>8, <1>9, <1>10, <1>11, <1>12

(* A long block of the expansion pool is unmapped.                         *)
LEMMA GiveBackKeeps ==
  ASSUME PagesInv, NEW c \in Cpus, UnmarkBlock(c), GiveBack(c)
  PROVE  PagesInv'
<1> USE DEF PagesInv
<1>0. PICK b : b = BlockOf(c)
  OBVIOUS
<1>1. b = BlockOf(c) /\ b[1] = op[c].first /\ b[2] = op[c].n
  BY <1>0 DEF BlockOf
<1>2. /\ b \in Allocated /\ Allocated' = Allocated \ {b} /\ BlocksMarked' /\ FreedOnce'
      /\ UNCHANGED blocks /\ starts' \subseteq starts /\ ends' \subseteq ends
      /\ op' \in [Cpus -> [pc : {"idle", "reserve", "map", "free"}, first : Pages,
                           n : Pages \cup Requests]]
      /\ Mapping' = Mapping /\ \A d \in Mapping : BlockOf(d)' = BlockOf(d)
      /\ \A d \in Cpus : op'[d].pc \in {"reserve", "map"} => op'[d].n >= 1
  BY <1>1, UnmarkEffect
<1>3. /\ mapped' = mapped \ Extent(b) /\ ptes' = ptes \cup Extent(b)
      /\ available' = available + b[2] /\ UNCHANGED runs /\ b[1] \in Expansion
  BY <1>1 DEF GiveBack, GoesBack, Extent
<1>4. /\ b[1] \in Int /\ b[2] \in Int /\ b[2] >= 1 /\ \A q \in Extent(b) : q \in Pool
  BY <1>2, HeldInPool
<1>5. \A q \in Extent(b) : q \in Expansion /\ q \in mapped /\ q \notin {0} \cup Initial
  <2> SUFFICES ASSUME NEW q \in Extent(b)
               PROVE q \in Expansion /\ q \in mapped /\ q \notin {0} \cup Initial
    OBVIOUS
  <2>1. q >= b[1] /\ q \in Int
    BY <1>4 DEF Extent, Block
  <2>2. q \notin {0} \cup Initial
    BY <1>3, <1>4, <2>1, PagesAre
  <2> QED BY <1>4, <2>2 DEF Pool, SpaceInv
<1>6. RunsInv'
  <2>1. Pool' = Pool \ Extent(b)
    BY <1>3 DEF Pool
  <2>2. Tiled(Entries(lists), size, owner, Allocated \ {b}, Pool')
    BY <1>2, <2>1, DropTiles DEF RunsInv
  <2> QED BY <1>2, <1>3, <2>2 DEF RunsInv, runs
<1>7. available' + Cardinality(mapped' \cap Expansion) = Frames /\ available' \in 0 .. Frames
  <2>1. PICK S : S = mapped' \cap Expansion /\ IsFiniteSet(S)
    <3>1. mapped' \cap Expansion \subseteq mapped \cap Expansion
      BY <1>3
    <3> QED BY <3>1, ExpansionFinite, FS_Subset
  <2>2. mapped \cap Expansion = S \cup Extent(b) /\ S \cap Extent(b) = {}
    BY <1>3, <1>5, <2>1
  <2>3. IsFiniteSet(Extent(b)) /\ Cardinality(Extent(b)) = b[2]
    BY <1>4, BlockCount DEF Extent
  <2>4. Cardinality(mapped \cap Expansion) = Cardinality(S) + b[2]
    BY <2>1, <2>2, <2>3, AddBlock
  <2>5. available + Cardinality(mapped \cap Expansion) = Frames /\ Cardinality(S) \in Nat
    BY <2>1, FS_CardinalityType DEF SpaceInv, ExpansionIs
  <2>6. available \in 0 .. Frames /\ Frames \in Nat
    BY SizesAssumption DEF TypeOK
  <2> QED BY <1>3, <1>4, <2>1, <2>4, <2>5, <2>6
<1>8. TypeOK'
  <2>1. mapped' \subseteq Pages /\ ptes' \subseteq Expansion /\ starts' \subseteq Pages /\ ends' \subseteq Pages
    BY <1>2, <1>3, <1>5 DEF TypeOK
  <2> QED BY <1>2, <1>3, <1>7, <2>1 DEF TypeOK, runs
<1>9. \A d \in Mapping : Extent(BlockOf(d))' = Extent(BlockOf(d))
  BY <1>2 DEF Extent
<1>10. \A q : q \in Expansion <=> \/ q \in ptes' \/ q \in mapped' \cap Expansion
                                  \/ \E d \in Mapping' : q \in Extent(BlockOf(d))'
  <2> SUFFICES ASSUME NEW q
               PROVE q \in Expansion <=> \/ q \in ptes' \/ q \in mapped' \cap Expansion
                                         \/ \E d \in Mapping' : q \in Extent(BlockOf(d))'
    OBVIOUS
  <2>1. q \in ptes' \/ q \in mapped' \cap Expansion <=> q \in ptes \/ q \in mapped \cap Expansion
    BY <1>3, <1>5
  <2>2. (\E d \in Mapping' : q \in Extent(BlockOf(d))') <=> \E d \in Mapping : q \in Extent(BlockOf(d))
    BY <1>2, <1>9
  <2> QED BY <2>1, <2>2 DEF SpaceInv, ExpansionIs
<1>11. /\ \A q \in ptes' : q \notin mapped'
       /\ \A d \in Mapping' : \A q \in Extent(BlockOf(d))' : q \notin ptes' /\ q \notin mapped'
  BY <1>2, <1>3, <1>5, <1>9 DEF SpaceInv, ExpansionIs
<1>12. \A d, e \in Mapping' : \A q : q \in Extent(BlockOf(d))' /\ q \in Extent(BlockOf(e))' => d = e
  BY <1>2, <1>9 DEF SpaceInv
<1>13. {0} \cup Initial \subseteq mapped' /\ mapped' \subseteq {0} \cup Initial \cup Expansion
  BY <1>3, <1>5 DEF SpaceInv
<1>14. SpaceInv'
  BY <1>2, <1>7, <1>10, <1>11, <1>12, <1>13 DEF SpaceInv, ExpansionIs
<1> QED BY <1>2, <1>6, <1>8, <1>14

(* The block and the free runs on both sides become one run.               *)
LEMMA CoalesceEffect ==
  ASSUME PagesInv, NEW c \in Cpus, UnmarkBlock(c), Coalesce(c)
  PROVE  \E x, after, before, n, head, heads2 :
           /\ x = BlockOf(c) /\ head \in Pages
           /\ Joined(Entries(lists), size, owner, Allocated, Pool, x, after, before, n, head,
                     heads2, size', owner')
           /\ LET left  == IF after THEN RemoveEntry(lists, x[1] + x[2]) ELSE lists
                  grown == n + (IF before THEN size[head] ELSE 0)
              IN
              /\ size' = [size EXCEPT ![head] = grown]
              /\ lists' = IF before /\ size[head] >= Heads THEN left
                          ELSE InsertHead(RemoveEntry(left, head), head, grown)
           /\ owner' \in [Pages -> Pages \cup {Junk}]
<1> USE DEF PagesInv
<1>0. PICK x : x = BlockOf(c)
  OBVIOUS
<1>1. x[1] = op[c].first /\ x[2] = op[c].n /\ x = <<x[1], x[2]>> /\ x \in Allocated
  BY <1>0, UnmarkEffect DEF BlockOf
<1>2. x[1] \in Int /\ x[2] \in Int /\ x[2] >= 1 /\ \A q \in Extent(x) : q \in Pool
  BY <1>1, HeldInPool
<1>3. PICK next \in Int : next = x[1] + x[2] /\ next = op[c].first + op[c].n
  BY <1>1, <1>2
<1>4. PICK after \in BOOLEAN : after <=> FreeAfter(x[1], x[2])
  BY Zenon
<1>5. PICK before \in BOOLEAN : before <=> FreeBefore(x[1])
  BY Zenon
<1>6. x[1] >= 1 /\ x[1] \in Pages
  <2>1. x[1] \in Extent(x)
    BY <1>2 DEF Extent, Block
  <2>2. x[1] \in Pages \ {0}
    BY <1>2, <2>1 DEF Pool, TypeOK
  <2> QED BY <2>2, PagesAre
<1>7. after <=> next \in Pool /\ \A b \in Allocated : b[1] # next
  <2>1. FreeAfter(x[1], x[2]) <=> next \in mapped /\ next \notin starts
    BY <1>3 DEF FreeAfter
  <2>2. next # 0
    BY <1>2, <1>3, <1>6
  <2>3. next \in starts <=> \E b \in Allocated : b[1] = next
    BY DEF BlocksMarked
  <2> QED BY <1>4, <2>1, <2>2, <2>3 DEF Pool
<1>8. before <=> PageBefore(x) \in Pool /\ \A b \in Allocated : LastPage(b) # PageBefore(x)
  <2>1. FreeBefore(x[1]) <=> x[1] # 1 /\ PageBefore(x) \in mapped /\ PageBefore(x) \notin ends
    BY DEF FreeBefore, PageBefore
  <2>2. x[1] # 1 <=> PageBefore(x) # 0
    BY <1>2 DEF PageBefore
  <2>3. PageBefore(x) \in ends <=> \E b \in Allocated : LastPage(b) = PageBefore(x)
    BY DEF BlocksMarked, LastPage
  <2> QED BY <1>5, <2>1, <2>2, <2>3 DEF Pool
<1>9. PICK n : n = x[2] + (IF after THEN size[next] ELSE 0)
  OBVIOUS
<1>10. PICK head : head = IF before THEN owner[PageBefore(x)] ELSE x[1]
  OBVIOUS
<1>11. head \in Pages
  <2>1. CASE before
    <3>1. owner[PageBefore(x)] \in Entries(lists)
      BY <1>1, <1>8, <2>1, RunBefore DEF RunsInv
    <3> QED BY <1>10, <2>1, <3>1, RunTyped
  <2>2. CASE ~before
    BY <1>6, <1>10, <2>2
  <2> QED BY <2>1, <2>2
<1>12. Gathered(c) = n
  BY <1>1, <1>3, <1>4, <1>9 DEF Gathered
<1>13. PICK grown : grown = n + (IF before THEN size[head] ELSE 0)
  OBVIOUS
<1>14. PICK left : left = IF after THEN RemoveEntry(lists, next) ELSE lists
  OBVIOUS
<1>15. /\ lists' = IF before /\ size[head] >= Heads THEN left
                   ELSE InsertHead(RemoveEntry(left, head), head, grown)
       /\ size' = [size EXCEPT ![head] = grown]
       /\ owner' = [p \in Pages |-> IF p \in Block(x[1], n) THEN head ELSE owner[p]]
  <2>1. head = IF FreeBefore(op[c].first) THEN owner[op[c].first - 1] ELSE op[c].first
    BY <1>1, <1>5, <1>10 DEF PageBefore
  <2>2. left = IF FreeAfter(op[c].first, op[c].n) THEN RemoveEntry(lists, op[c].first + op[c].n) ELSE lists
    BY <1>1, <1>3, <1>4, <1>14
  <2>3. grown = Gathered(c) + (IF FreeBefore(op[c].first) THEN size[head] ELSE 0)
    BY <1>1, <1>5, <1>12, <1>13
  <2>4. before <=> FreeBefore(op[c].first)
    BY <1>1, <1>5
  <2>5. CoalesceInto(c, op[c].first + op[c].n, Gathered(c))
    BY DEF Coalesce
  <2>6. /\ lists' = IF FreeBefore(op[c].first) /\ size[head] >= Heads THEN left
                    ELSE InsertHead(RemoveEntry(left, head), head, grown)
        /\ size' = [size EXCEPT ![head] = grown]
        /\ owner' = [p \in Pages |-> IF p \in Block(op[c].first, Gathered(c)) THEN head ELSE owner[p]]
    BY <2>1, <2>2, <2>3, <2>5, Zenon DEF CoalesceInto
  <2> QED BY <1>1, <1>12, <2>4, <2>6
<1>16. PICK heads2 : heads2 = (Entries(lists) \ (IF after THEN {next} ELSE {})) \cup {head}
  OBVIOUS
<1>17. size'[head] = grown /\ \A p \in Entries(lists) : p # head => size'[p] = size[p]
  BY <1>11, <1>15, RunTyped DEF TypeOK
<1>18. /\ owner' \in [Pages -> Pages \cup {Junk}]
       /\ \A q \in Pool : owner'[q] = IF q \in Block(x[1], n) THEN head ELSE owner[q]
  BY <1>11, <1>15 DEF TypeOK, Pool
<1>19. Joined(Entries(lists), size, owner, Allocated, Pool, x, after, before, n, head,
              heads2, size', owner')
  BY <1>1, <1>3, <1>7, <1>8, <1>9, <1>10, <1>13, <1>16, <1>17, <1>18 DEF Joined
<1> QED BY <1>0, <1>3, <1>11, <1>13, <1>14, <1>15, <1>18, <1>19

(* The merge keeps everything.                                             *)
LEMMA CoalesceKeeps ==
  ASSUME PagesInv, NEW c \in Cpus, UnmarkBlock(c), Coalesce(c)
  PROVE  PagesInv'
<1> USE DEF PagesInv
<1>1. PICK x, after, before, n, head, heads2 :
        /\ x = BlockOf(c) /\ head \in Pages
        /\ Joined(Entries(lists), size, owner, Allocated, Pool, x, after, before, n, head,
                  heads2, size', owner')
        /\ LET left  == IF after THEN RemoveEntry(lists, x[1] + x[2]) ELSE lists
               grown == n + (IF before THEN size[head] ELSE 0)
           IN
           /\ size' = [size EXCEPT ![head] = grown]
           /\ lists' = IF before /\ size[head] >= Heads THEN left
                       ELSE InsertHead(RemoveEntry(left, head), head, grown)
        /\ owner' \in [Pages -> Pages \cup {Junk}]
  BY CoalesceEffect
<1>2. /\ x \in Allocated /\ Allocated' = Allocated \ {x} /\ BlocksMarked' /\ FreedOnce'
      /\ UNCHANGED blocks /\ starts' \subseteq starts /\ ends' \subseteq ends
      /\ op' \in [Cpus -> [pc : {"idle", "reserve", "map", "free"}, first : Pages,
                           n : Pages \cup Requests]]
      /\ Mapping' = Mapping /\ \A d \in Mapping : BlockOf(d)' = BlockOf(d)
      /\ \A d \in Cpus : op'[d].pc \in {"reserve", "map"} => op'[d].n >= 1
  BY <1>1, UnmarkEffect
<1>3. UNCHANGED <<mapped, ptes, available>>
  BY DEF Coalesce, CoalesceInto, space
<1>4. Tiled(heads2, size', owner', Allocated \ {x}, Pool)
  BY <1>1, <1>2, JoinTiles DEF RunsInv
<1>5. PICK next : next = x[1] + x[2]
  OBVIOUS
<1>6. PICK left : left = IF after THEN RemoveEntry(lists, next) ELSE lists
  OBVIOUS
<1>7. PICK grown : grown = n + (IF before THEN size[head] ELSE 0)
  OBVIOUS
<1>8. /\ size' = [size EXCEPT ![head] = grown] /\ after \in BOOLEAN /\ before \in BOOLEAN
      /\ lists' = IF before /\ size[head] >= Heads THEN left
                  ELSE InsertHead(RemoveEntry(left, head), head, grown)
  <2>1. after \in BOOLEAN /\ before \in BOOLEAN
    BY <1>1 DEF Joined
  <2> QED BY <1>1, <1>5, <1>6, <1>7, <2>1
<1>9. /\ heads2 = (Entries(lists) \ (IF after THEN {next} ELSE {})) \cup {head}
      /\ size'[head] = grown /\ \A p \in Entries(lists) : p # head => size'[p] = size[p]
      /\ before => head = owner[PageBefore(x)]
      /\ before => PageBefore(x) \in Pool /\ \A b \in Allocated : LastPage(b) # PageBefore(x)
  BY <1>1, <1>5, <1>7 DEF Joined
<1>10. grown \in Pages \ {0} /\ grown \in Nat \ {0}
  <2>1. head \in heads2
    BY <1>9
  <2>2. head \in Int /\ grown \in Int /\ grown >= 1 /\ \A q \in Block(head, grown) : q \in Pool
    BY <1>4, <1>9, <2>1 DEF Tiled, Tiling, RunsIn
  <2>3. head \in Block(head, grown) /\ head + grown - 1 \in Block(head, grown)
    BY <2>2 DEF Block
  <2>4. head \in Pages \ {0} /\ head + grown - 1 \in Pages
    BY <2>2, <2>3 DEF Pool, TypeOK
  <2> QED BY <2>2, <2>4, PagesAre
<1>11. /\ Filed(left, size) /\ Entries(left) = Entries(lists) \ (IF after THEN {next} ELSE {})
  <2>1. CASE after
    <3>1. Filed(RemoveEntry(lists, next), size) /\ Entries(RemoveEntry(lists, next)) = Entries(lists) \ {next}
      BY RemoveFiled DEF RunsInv
    <3> QED BY <1>6, <2>1, <3>1
  <2>2. CASE ~after
    BY <1>6, <2>2 DEF RunsInv
  <2> QED BY <2>1, <2>2
<1>12. Entries(left) \subseteq Entries(lists) /\ heads2 = Entries(left) \cup {head}
  BY <1>9, <1>11
<1>13. Filed(lists', size') /\ Entries(lists') = heads2
  <2>1. CASE before /\ size[head] >= Heads
    <3>1. lists' = left
      BY <1>8, <2>1
    <3>2. head \in Entries(lists) /\ AfterRun(size, head) = x[1]
      <4>1. /\ Tiled(Entries(lists), size, owner, Allocated, Pool) /\ x \in Allocated
            /\ PageBefore(x) \in Pool /\ \A b \in Allocated : LastPage(b) # PageBefore(x)
        BY <1>2, <1>9, <2>1 DEF RunsInv
      <4>2. /\ owner[PageBefore(x)] \in Entries(lists)
            /\ AfterRun(size, owner[PageBefore(x)]) = x[1]
        BY <4>1, RunBefore
      <4> QED BY <1>9, <2>1, <4>2
    <3>3. head # next /\ size[head] \in Int /\ size[head] >= 1 /\ x[1] \in Int
      <4>1. /\ x[1] \in Int /\ x[2] \in Int /\ x[2] >= 1
        BY <1>2, HeldInPool
      <4>2. head \in Int /\ size[head] \in Int /\ size[head] >= 1
        BY <3>2 DEF RunsInv, Tiled, Tiling, RunsIn
      <4> QED BY <1>5, <3>2, <4>1, <4>2 DEF AfterRun
    <3>4. head \in Entries(left)
      BY <1>11, <3>2, <3>3
    <3>5. ListFor(grown) = ListFor(size[head])
      <4>1. n \in Int /\ n >= 0
        <5>1. n = x[2] + (IF after THEN size[next] ELSE 0)
          BY <1>1, <1>5 DEF Joined
        <5>2. x[2] \in Int /\ x[2] >= 1
          BY <1>2, HeldInPool
        <5>3. after => size[next] \in Int /\ size[next] >= 1
          <6>1. after => next \in Pool /\ \A b \in Allocated : b[1] # next
            BY <1>1, <1>5 DEF Joined
          <6>2. after => next \in Entries(lists)
            BY <1>2, <1>5, <6>1, RunAfter DEF RunsInv
          <6> QED BY <6>2 DEF RunsInv, Tiled, Tiling, RunsIn
        <5> QED BY <1>8, <5>1, <5>2, <5>3
      <4>2. grown = n + size[head]
        BY <1>7, <2>1
      <4> QED BY <2>1, <3>3, <4>1, <4>2, SizesAssumption DEF ListFor
    <3>6. \A q \in Entries(left) : ListFor(size'[q]) = ListFor(size[q])
      <4> SUFFICES ASSUME NEW q \in Entries(left) PROVE ListFor(size'[q]) = ListFor(size[q])
        OBVIOUS
      <4>1. q = head \/ size'[q] = size[q]
        BY <1>9, <1>12
      <4> QED BY <1>9, <3>5, <4>1
    <3> QED BY <1>11, <1>12, <3>1, <3>4, <3>6, ResizeFiled
  <2>2. CASE ~(before /\ size[head] >= Heads)
    <3>1. PICK rest : rest = RemoveEntry(left, head)
      OBVIOUS
    <3>2. Filed(rest, size') /\ Entries(rest) = Entries(left) \ {head}
      <4>1. \A q \in Entries(left) \ {head} : size'[q] = size[q]
        BY <1>9, <1>12
      <4> QED BY <1>11, <3>1, <4>1, RemoveFiled
    <3>3. PutIn(rest, lists', head, grown)
      BY <1>8, <2>2, <3>1 DEF PutIn, InsertHead
    <3>4. Filed(lists', size') /\ Entries(lists') = Entries(rest) \cup {head}
      <4>1. head \notin Entries(rest) /\ \A q \in Entries(rest) : size'[q] = size'[q]
        BY <3>2
      <4>2. head \in Pages /\ grown \in Nat \ {0} /\ size'[head] = grown
        BY <1>1, <1>9, <1>10
      <4>3. Adds(rest, size', head, grown, lists', size')
        BY <3>2, <3>3, <4>1, <4>2, Zenon DEF Adds
      <4> QED BY <4>3, AddFiled
    <3> QED BY <1>12, <3>2, <3>4
  <2> QED BY <2>1, <2>2
<1>14. RunsInv'
  <2>1. Pool' = Pool
    BY <1>3 DEF Pool
  <2> QED BY <1>2, <1>4, <1>13, <2>1 DEF RunsInv
<1>15. TypeOK'
  <2>1. size' \in [Pages -> Pages \cup {Junk}]
    BY <1>8, <1>10 DEF TypeOK
  <2>2. lists' \in [1 .. Heads -> Seq(Pages)]
    BY <1>13 DEF Filed
  <2>3. owner' \in [Pages -> Pages \cup {Junk}]
    BY <1>1
  <2>4. starts' \subseteq Pages /\ ends' \subseteq Pages
    BY <1>2 DEF TypeOK
  <2> QED BY <1>2, <1>3, <2>1, <2>2, <2>3, <2>4 DEF TypeOK
<1>16. SpaceInv'
  <2>1. \A d \in Mapping : Extent(BlockOf(d))' = Extent(BlockOf(d))
    BY <1>2 DEF Extent
  <2> QED BY <1>2, <1>3, <2>1 DEF SpaceInv, ExpansionIs
<1> QED BY <1>2, <1>14, <1>15, <1>16

-----------------------------------------------------------------------------
(* The theorems.                                                           *)

(* InitializeNonPagedPool establishes the invariant, ...                   *)
LEMMA InitHolds == Init => PagesInv
<1> SUFFICES ASSUME Init PROVE PagesInv
  OBVIOUS
<1>0. PICK top \in Nat :
        /\ Pages = 0 .. top /\ InitialSize \in Nat /\ InitialSize >= 1
        /\ Initial = 1 .. InitialSize /\ Expansion = InitialSize + 2 .. top - 1
  BY PagesAre
<1>1. InitialSize + 2 <= top
  <2>1. InitialSize + 2 + ExpansionSize \in Pages
    BY SizesAssumption DEF Pages
  <2> QED BY <1>0, <2>1, SizesAssumption
<1>2. 1 \in Pages /\ InitialSize \in Pages /\ 0 \in Pages /\ InitialSize \in Nat \ {0} /\ Initial \subseteq Pages
  BY <1>0, <1>1
<1>3. /\ lists \in [1 .. Heads -> Seq(Pages)]
      /\ \A h \in 1 .. Heads : Once(lists[h]) /\ Elements(lists[h]) = IF h = ListFor(InitialSize) THEN {1} ELSE {}
  <2>1. <<1>> \in Seq(Pages) /\ <<>> \in Seq(Pages)
    BY <1>2
  <2>2. Once(<<1>>) /\ Elements(<<1>>) = {1} /\ Once(<<>>) /\ Elements(<<>>) = {}
    BY DEF Once, Elements
  <2>3. lists = [h \in 1 .. Heads |-> IF h = ListFor(InitialSize) THEN <<1>> ELSE <<>>]
    BY DEF Init
  <2> QED BY <2>1, <2>2, <2>3
<1>4. /\ size = [p \in Pages |-> IF p = 1 THEN InitialSize ELSE Junk]
      /\ owner = [p \in Pages |-> IF p \in Initial THEN 1 ELSE Junk]
      /\ starts = {} /\ ends = {} /\ mapped = {0} \cup Initial /\ ptes = Expansion
      /\ available = Frames /\ blocks = {} /\ op = [c \in Cpus |-> Idle]
  BY DEF Init
<1>5. size[1] = InitialSize /\ \A q \in Initial : owner[q] = 1
  BY <1>2, <1>4
<1>6. Filed(lists, size) /\ Entries(lists) = {1}
  <2>1. ListFor(InitialSize) \in 1 .. Heads
    BY <1>2, ListExists
  <2>2. \A q : q \in Entries(lists) <=> q = 1
    BY <1>3, <2>1, EntriesAre
  <2> QED BY <1>3, <1>5, <2>2 DEF Filed
<1>7. Freeing = {} /\ Mapping = {} /\ Allocated = {} /\ \A c \in Cpus : op[c] = Idle /\ op[c].pc = "idle"
  BY <1>4 DEF Freeing, Mapping, Allocated, Idle
<1>8. Pool = Block(1, size[1]) /\ Pool = Initial
  BY <1>0, <1>2, <1>4, <1>5 DEF Pool, Block
<1>9. RunsInv
  <2>1. RunsIn({1}, size, owner, Pool) /\ NoneTouch({1}, size) /\ Pool \subseteq Int
    BY <1>0, <1>2, <1>5, <1>8 DEF RunsIn, NoneTouch
  <2>2. ExtentsIn({}, Pool) /\ ExtentsApart({}) /\ FreeApart({1}, size, {}) /\ Covered({1}, size, {}, Pool)
    BY <1>8 DEF ExtentsIn, ExtentsApart, FreeApart, Covered
  <2> QED BY <1>6, <1>7, <2>1, <2>2 DEF RunsInv, Tiled, Tiling
<1>10. TypeOK
  <2>1. size \in [Pages -> Pages \cup {Junk}] /\ owner \in [Pages -> Pages \cup {Junk}]
    BY <1>2, <1>4
  <2>2. Idle \in [pc : {"idle", "reserve", "map", "free"}, first : Pages, n : Pages \cup Requests]
    BY <1>2 DEF Idle
  <2>3. available \in 0 .. Frames
    BY <1>4, SizesAssumption
  <2> QED BY <1>2, <1>3, <1>4, <2>1, <2>2, <2>3 DEF TypeOK
<1>11. BlocksMarked /\ FreedOnce
  BY <1>4, <1>7 DEF BlocksMarked, FreedOnce
<1>12. SpaceInv
  <2>1. mapped \cap Expansion = {}
    BY <1>0, <1>1, <1>4
  <2>2. available + Cardinality(mapped \cap Expansion) = Frames
    <3>1. Cardinality(mapped \cap Expansion) = 0
      BY <2>1, FS_EmptySet
    <3> QED BY <1>4, <3>1, SizesAssumption
  <2> QED BY <1>4, <1>7, <2>1, <2>2 DEF SpaceInv, ExpansionIs
<1> QED BY <1>9, <1>10, <1>11, <1>12 DEF PagesInv

(* ... every step keeps it, ...                                            *)
LEMMA NextKeeps == PagesInv /\ [Next]_vars => PagesInv'
<1> SUFFICES ASSUME PagesInv, [Next]_vars PROVE PagesInv'
  OBVIOUS
<1>1. ASSUME NEW c \in Cpus, NEW n \in Requests, TakeFromList(c, n) PROVE PagesInv'
  BY <1>1, TakeKeeps
<1>2. ASSUME NEW c \in Cpus, NEW n \in Requests, SearchFails(c, n) PROVE PagesInv'
  BY <1>2, SearchKeeps
<1>3. ASSUME NEW c \in Cpus, ReservePtes(c) PROVE PagesInv'
  BY <1>3, ReserveKeeps
<1>4. ASSUME NEW c \in Cpus, MapPages(c) PROVE PagesInv'
  BY <1>4, MapKeeps
<1>5. ASSUME NEW c \in Cpus, NEW b \in blocks, CountPages(c, b) PROVE PagesInv'
  BY <1>5, CountKeeps
<1>6. ASSUME NEW c \in Cpus, FreePages(c) PROVE PagesInv'
  BY <1>6, GiveBackKeeps, CoalesceKeeps DEF FreePages
<1>7. CASE UNCHANGED vars
  <2>1. UNCHANGED <<lists, size, owner, starts, ends, mapped, ptes, available, blocks, op>>
    BY <1>7 DEF vars, runs, marks, space
  <2>2. Allocated' = Allocated /\ Mapping' = Mapping /\ Freeing' = Freeing /\ Pool' = Pool
    BY <2>1 DEF Allocated, Mapping, Freeing, Pool
  <2>3. \A c : BlockOf(c)' = BlockOf(c) /\ Extent(BlockOf(c))' = Extent(BlockOf(c))
    BY <2>1 DEF BlockOf, Extent
  <2>4. TypeOK' /\ RunsInv' /\ BlocksMarked' /\ FreedOnce'
    BY <2>1, <2>2, <2>3 DEF PagesInv, TypeOK, RunsInv, BlocksMarked, FreedOnce
  <2>5. SpaceInv'
    BY <2>1, <2>2, <2>3 DEF PagesInv, SpaceInv, ExpansionIs
  <2> QED BY <2>4, <2>5 DEF PagesInv
<1> QED BY <1>1, <1>2, <1>3, <1>4, <1>5, <1>6, <1>7 DEF Next

(* ... and so it always holds.                                             *)
LEMMA PagesAlways == Spec => []PagesInv
BY InitHolds, NextKeeps, PTL DEF Spec

(* RunsTile, from the tiling kept by the invariant.                        *)
LEMMA TilesRuns == PagesInv => RunsTile
<1> SUFFICES ASSUME PagesInv PROVE RunsTile
  OBVIOUS
<1> USE DEF PagesInv
<1>1. Tiled(Headers, size, owner, Allocated, Pool)
  BY HeadersAre DEF RunsInv
<1>2. ASSUME NEW q PROVE q \in Pool <=> (\E p \in Headers : q \in Run(p)) \/ \E b \in Allocated : q \in Extent(b)
  BY <1>1 DEF Tiled, Tiling, Covered, RunsIn, ExtentsIn, Run
<1>3. mapped \ {0} = (UNION {Run(p) : p \in Headers}) \cup (UNION {Extent(b) : b \in Allocated})
  <2>1. PICK free : free = UNION {Run(p) : p \in Headers}
    OBVIOUS
  <2>2. PICK used : used = UNION {Extent(b) : b \in Allocated}
    OBVIOUS
  <2>3. \A q : q \in free <=> \E p \in Headers : q \in Run(p)
    BY <2>1
  <2>4. \A q : q \in used <=> \E b \in Allocated : q \in Extent(b)
    BY <2>2
  <2>5. Pool = free \cup used
    BY <1>2, <2>3, <2>4
  <2>6. mapped \ {0} = free \cup used
    BY <2>5 DEF Pool
  <2> QED BY <2>1, <2>2, <2>6, Zenon
<1>4. \A p, q \in Headers : p # q => Run(p) \cap Run(q) = {}
  BY <1>1 DEF Tiled, Tiling, RunsIn, Run
<1>5. \A a, b \in Allocated : a # b => Extent(a) \cap Extent(b) = {}
  BY <1>1 DEF Tiled, Tiling, ExtentsApart
<1>6. \A p \in Headers, b \in Allocated : Run(p) \cap Extent(b) = {}
  BY <1>1 DEF Tiled, Tiling, FreeApart, Run
<1> QED BY <1>3, <1>4, <1>5, <1>6 DEF RunsTile

(* RunsFiled, likewise.                                                    *)
LEMMA FilesRuns == PagesInv => RunsFiled
<1> SUFFICES ASSUME PagesInv PROVE RunsFiled
  OBVIOUS
<1> USE DEF PagesInv
<1>1. Filed(lists, size) /\ Tiled(Headers, size, owner, Allocated, Pool)
  BY HeadersAre DEF RunsInv
<1>2. ASSUME NEW h \in 1 .. Heads, NEW i \in DOMAIN lists[h]
      PROVE  lists[h][i] \in Elements(lists[h]) /\ lists[h][i] \in Headers
  BY DEF Elements, Headers
<1>3. \A h, l \in 1 .. Heads : \A i \in DOMAIN lists[h], j \in DOMAIN lists[l] :
        lists[h][i] = lists[l][j] => h = l /\ i = j
  <2> SUFFICES ASSUME NEW h \in 1 .. Heads, NEW l \in 1 .. Heads, NEW i \in DOMAIN lists[h],
                      NEW j \in DOMAIN lists[l], lists[h][i] = lists[l][j]
               PROVE  h = l /\ i = j
    OBVIOUS
  <2>1. h = l
    BY <1>1, <1>2 DEF Filed
  <2> QED BY <1>1, <2>1 DEF Filed, Once
<1>4. \A h \in 1 .. Heads : \A i \in DOMAIN lists[h] :
        h = ListFor(size[lists[h][i]]) /\ \A q \in Run(lists[h][i]) : owner[q] = lists[h][i]
  BY <1>1, <1>2 DEF Filed, Tiled, Tiling, RunsIn, Run
<1>5. \A p, q \in Headers : p + size[p] # q
  BY <1>1 DEF Tiled, Tiling, NoneTouch
<1> QED BY <1>3, <1>4, <1>5 DEF RunsFiled

(* Free pages that follow each other are of one run, for runs do not touch;*)
(* so that a search through the lists finds a run wherever there is room.  *)
LEMMA RoomIsRun ==
  ASSUME PagesInv, NEW p, NEW n \in Nat \ {0},
         \A q \in Block(p, n) : q \in Pool /\ \A b \in Allocated : q \notin Extent(b), p \in Int
  PROVE  \E r \in Entries(lists) : size[r] >= n
<1> USE DEF PagesInv
<1>1. Tiled(Entries(lists), size, owner, Allocated, Pool)
  BY DEF RunsInv
<1>2. p \in Block(p, n)
  BY DEF Block
<1>3. PICK r \in Entries(lists) : p \in Block(r, size[r])
  BY <1>1, <1>2 DEF Tiled, Tiling, Covered
<1>4. r \in Int /\ size[r] \in Int /\ r <= p /\ p < r + size[r]
  BY <1>1, <1>3 DEF Tiled, Tiling, RunsIn, Block
<1>5. CASE size[r] < n
  <2>1. PICK e \in Int : e = r + size[r]
    BY <1>4
  <2>2. e \in Block(p, n) /\ e - 1 \in Block(r, size[r]) /\ e \notin Block(r, size[r])
    BY <1>4, <1>5, <2>1 DEF Block
  <2>3. PICK s \in Entries(lists) : e \in Block(s, size[s])
    BY <1>1, <2>2 DEF Tiled, Tiling, Covered
  <2>4. s \in Int /\ size[s] \in Int /\ s <= e /\ e < s + size[s]
    BY <1>1, <2>3 DEF Tiled, Tiling, RunsIn, Block
  <2>5. s # e
    BY <1>1, <2>1 DEF Tiled, Tiling, NoneTouch
  <2>6. e - 1 \in Block(s, size[s])
    BY <2>1, <2>4, <2>5 DEF Block
  <2>7. s = r
    BY <1>1, <2>2, <2>6 DEF Tiled, Tiling, RunsIn
  <2> QED BY <2>2, <2>3, <2>7
<1> QED BY <1>4, <1>5

(* A processor that gives up the search has seen all lists.                *)
LEMMA ExpandsStep ==
  PagesInv /\ [Next]_vars =>
    \A c \in Cpus : op[c].pc = "idle" /\ op'[c].pc = "reserve" =>
      LET free == (mapped \ {0}) \ UNION {Extent(b) : b \in Allocated} IN
      ~\E p \in free : Block(p, op'[c].n) \subseteq free
<1> SUFFICES ASSUME PagesInv, [Next]_vars, NEW c \in Cpus, op[c].pc = "idle", op'[c].pc = "reserve",
                    NEW free, free = (mapped \ {0}) \ UNION {Extent(b) : b \in Allocated},
                    NEW p \in free, Block(p, op'[c].n) \subseteq free
             PROVE  FALSE
  OBVIOUS
<1>0. op \in [Cpus -> [pc : {"idle", "reserve", "map", "free"}, first : Pages, n : Pages \cup Requests]]
  BY DEF PagesInv, TypeOK
<1>1. PICK n \in Requests : SearchFails(c, n)
  <2>1. Idle.pc = "idle"
    BY DEF Idle
  <2>2. ASSUME NEW d \in Cpus, NEW v, v.pc # "reserve", op' = [op EXCEPT ![d] = v] PROVE FALSE
    BY <1>0, <2>2
  <2>3. op' # op
    OBVIOUS
  <2>4. ASSUME NEW d \in Cpus, NEW n \in Requests, TakeFromList(d, n) PROVE FALSE
    BY <2>3, <2>4 DEF TakeFromList
  <2>5. ASSUME NEW d \in Cpus, ReservePtes(d) PROVE FALSE
    <3>1. d # c
      BY <2>5 DEF ReservePtes
    <3>2. op'[c] = op[c]
      BY <1>0, <2>5, <3>1 DEF ReservePtes
    <3> QED BY <3>2
  <2>6. ASSUME NEW d \in Cpus, MapPages(d) PROVE FALSE
    BY <2>1, <2>2, <2>6 DEF MapPages, MapWhen
  <2>7. ASSUME NEW d \in Cpus, NEW b \in blocks, CountPages(d, b) PROVE FALSE
    <3>1. PICK e : op' = [op EXCEPT ![d] = [pc |-> "free", first |-> b[1], n |-> e - b[1] + 1]]
      BY <2>7 DEF CountPages
    <3>2. PICK v : v = [pc |-> "free", first |-> b[1], n |-> e - b[1] + 1]
      OBVIOUS
    <3>3. v.pc = "free" /\ op' = [op EXCEPT ![d] = v]
      BY <3>1, <3>2
    <3> QED BY <2>2, <3>3
  <2>8. ASSUME NEW d \in Cpus, FreePages(d) PROVE FALSE
    BY <2>1, <2>2, <2>8 DEF FreePages, UnmarkBlock, Unmark
  <2>9. ASSUME NEW d \in Cpus, NEW n \in Requests, SearchFails(d, n), d # c PROVE FALSE
    <3>1. op'[c] = op[c]
      BY <1>0, <2>9 DEF SearchFails
    <3> QED BY <3>1
  <2>10. ~ UNCHANGED vars
    BY <2>3 DEF vars
  <2> QED BY <2>4, <2>5, <2>6, <2>7, <2>8, <2>9, <2>10 DEF Next
<1>2. n \in Nat \ {0} /\ Fits(n) = {} /\ op'[c].n = n
  <2>1. PICK v : v = [pc |-> "reserve", first |-> 0, n |-> n]
    OBVIOUS
  <2>2. op' = [op EXCEPT ![c] = v] /\ v.n = n /\ Fits(n) = {}
    BY <1>1, <2>1 DEF SearchFails
  <2> QED BY <1>0, <2>2, SizesAssumption
<1>3. \A q \in free : q \in Pool /\ \A b \in Allocated : q \notin Extent(b)
  BY DEF Pool
<1>4. p \in Int
  BY <1>3 DEF PagesInv, RunsInv, Tiled
<1>5. PICK r \in Entries(lists) : size[r] >= n
  BY <1>2, <1>3, <1>4, RoomIsRun
<1>6. size[r] \in Int /\ size[r] >= 1
  BY DEF PagesInv, RunsInv, Tiled, Tiling, RunsIn
<1>7. PICK h \in 1 .. Heads : r \in Elements(lists[h])
  BY EntriesAre
<1>8. h = ListFor(size[r])
  BY <1>7 DEF PagesInv, RunsInv, Filed
<1>9. h \in ListFor(n) .. Heads
  <2>1. ListFor(n) <= ListFor(size[r]) /\ ListFor(n) \in Int
    BY <1>2, <1>5, <1>6, SizesAssumption DEF ListFor
  <2> QED BY <1>7, <1>8, <2>1, SizesAssumption
<1>10. PICK i \in DOMAIN lists[h] : r = lists[h][i]
  BY <1>7 DEF Elements
<1>11. <<h, i>> \in Fits(n)
  BY <1>2, <1>5, <1>9, <1>10, FitsAre
<1> QED BY <1>2, <1>11

(* Free runs and allocations tile the pool, over any sequence of splits,   *)
(* merges, expansions and returns on any number of processors.             *)
THEOREM PoolTiled == Spec => []RunsTile
BY PagesAlways, TilesRuns, PTL

(* Every run is in the list for its size once, its pages lead to its       *)
(* header, and no two runs touch.                                          *)
THEOREM RunsListed == Spec => []RunsFiled
BY PagesAlways, FilesRuns, PTL

(* The flags that frees read are at the two ends of allocations only.      *)
THEOREM MarksKept == Spec => []BlocksMarked
<1>1. PagesInv => BlocksMarked
  BY DEF PagesInv
<1> QED BY <1>1, PagesAlways, PTL

(* No PTE and no frame of the expansion pool is lost or counted twice.     *)
THEOREM ExpansionKept == Spec => []ExpansionAccounted
<1>1. PagesInv => ExpansionAccounted
  BY Accounted DEF PagesInv, SpaceInv
<1> QED BY <1>1, PagesAlways, PTL

(* The pool asks for more memory only when no free pages of its own that   *)
(* follow each other would do: the search through the lists misses none.   *)
THEOREM ExpandsLast == Spec => ExpandsOnlyWhenNeeded
BY PagesAlways, ExpandsStep, PTL DEF Spec, ExpandsOnlyWhenNeeded
=============================================================================
