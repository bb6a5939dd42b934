------------------------ MODULE KernelServicesProofs ------------------------
(***************************************************************************)
(* Proofs about the kernel's services, for every value of the constants.   *)
(*                                                                         *)
(* First the books of allocation tracking, then what the services promise  *)
(* together: a step of another service leaves the one exercised alone, so  *)
(* each invariant follows from that of its own part.  The parts that       *)
(* processors share and those of the hardware are proved in                *)
(* KernelSyncProofs.                                                       *)
(***************************************************************************)
EXTENDS KernelServices, KernelSyncProofs, SequenceEdits

-----------------------------------------------------------------------------
(* Folds of finite sets, of which sums are one, take an element that       *)
(* CHOOSE picks, and go on with the rest.                                  *)
Chosen(s) == CHOOSE x \in s : TRUE
Others(s) == s \ {Chosen(s)}

LEMMA RestSmaller ==
  ASSUME NEW S, IsFiniteSet(S), NEW s \in SUBSET S, s # {}
  PROVE  /\ Chosen(s) \in s /\ Chosen(s) \in S /\ Others(s) \in SUBSET S
         /\ Cardinality(s) \in Nat /\ Cardinality(Others(s)) = Cardinality(s) - 1
<1>1. Chosen(s) \in s
  BY DEF Chosen
<1>2. IsFiniteSet(s) /\ Cardinality(s) \in Nat
  BY FS_Subset, FS_CardinalityType
<1>3. Cardinality(s \ {Chosen(s)}) = Cardinality(s) - 1
  BY <1>1, <1>2, FS_RemoveElement
<1> QED BY <1>1, <1>2, <1>3 DEF Others

(* What holds of the empty set, and of a set if it does of its rest, holds *)
(* of all subsets of a finite set.                                         *)
LEMMA RestInduction ==
  ASSUME NEW S, IsFiniteSet(S), NEW P, {} \in P,
         \A s \in SUBSET S : s # {} /\ Others(s) \in P => s \in P
  PROVE  SUBSET S \subseteq P
<1> DEFINE bad == {n \in Nat : \E s \in SUBSET S : s \notin P /\ Cardinality(s) = n}
<1>1. SUFFICES ASSUME bad # {} PROVE FALSE
  <2>1. SUFFICES ASSUME NEW s \in SUBSET S, s \notin P PROVE bad # {}
    BY <2>1, <1>1
  <2>2. Cardinality(s) \in Nat
    BY FS_Subset, FS_CardinalityType
  <2> QED BY <2>1, <2>2
<1>2. PICK n \in bad : \A k \in bad : n <= k
  BY <1>1, LeastNumber
<1>3. PICK s \in SUBSET S : s \notin P /\ Cardinality(s) = n
  OBVIOUS
<1>4. s # {}
  BY <1>3
<1>5. Others(s) \in SUBSET S /\ Cardinality(Others(s)) = n - 1 /\ n \in Nat
  BY <1>3, <1>4, RestSmaller
<1>6. Cardinality(Others(s)) \in Nat
  BY <1>5, FS_Subset, FS_CardinalityType
<1>7. Others(s) \notin P
  BY <1>3, <1>4
<1>8. n - 1 \in bad
  BY <1>5, <1>6, <1>7
<1> HIDE DEF bad
<1> QED BY <1>2, <1>5, <1>8

FoldOf(g, S, base, Op) ==
  g = [s \in SUBSET S |-> IF s = {} THEN base ELSE Op[Chosen(s)][g[Others(s)]]]

LEMMA FoldExists ==
  ASSUME NEW S, IsFiniteSet(S), NEW V, NEW base \in V, NEW Op \in [S -> [V -> V]]
  PROVE  \E g : FoldOf(g, S, base, Op)
<1> DEFINE Few(n) == {s \in SUBSET S : Cardinality(s) <= n}
           Folds(h, n) == /\ h \in [Few(n) -> V]
                          /\ \A s \in Few(n) :
                               h[s] = IF s = {} THEN base ELSE Op[Chosen(s)][h[Others(s)]]
           bad == {n \in Nat : ~ \E h : Folds(h, n)}
<1>1. \A s \in SUBSET S : Cardinality(s) \in Nat /\ (Cardinality(s) = 0 <=> s = {})
  BY FS_Subset, FS_CardinalityType, FS_EmptySet
<1>2. 0 \notin bad
  <2>1. Folds([s \in Few(0) |-> base], 0)
    <3>1. \A s \in Few(0) : s = {}
      BY <1>1
    <3> QED BY <3>1
  <2> QED BY <2>1
<1>3. ASSUME NEW n \in Nat, n \notin bad PROVE n + 1 \notin bad
  <2>1. PICK h : Folds(h, n)
    BY <1>3
  <2>2. PICK e : e = [s \in Few(n + 1) |-> IF s = {} THEN base ELSE Op[Chosen(s)][h[Others(s)]]]
    OBVIOUS
  <2>3. \A s \in Few(n + 1) : s # {} => Others(s) \in Few(n) /\ Chosen(s) \in S
    BY <1>1, RestSmaller
  <2>4. Few(n) \subseteq Few(n + 1)
    BY <1>1
  <2>5. \A s \in Few(n) : e[s] = h[s]
    BY <2>1, <2>2, <2>4
  <2>6. e \in [Few(n + 1) -> V]
    BY <2>1, <2>2, <2>3
  <2>7. ASSUME NEW s \in Few(n + 1), s # {} PROVE e[s] = Op[Chosen(s)][e[Others(s)]]
    BY <2>2, <2>3, <2>5, <2>7
  <2>8. Folds(e, n + 1)
    BY <2>2, <2>6, <2>7
  <2> HIDE DEF Folds
  <2> QED BY <2>8
<1> HIDE DEF Folds
<1>4. bad = {}
  <2>1. SUFFICES ASSUME bad # {} PROVE FALSE
    OBVIOUS
  <2>2. PICK n \in bad : \A k \in bad : n <= k
    BY <2>1, LeastNumber
  <2> HIDE DEF bad
  <2>3. n \in Nat /\ n # 0
    BY <1>2, <2>2 DEF bad
  <2>4. n - 1 \in Nat /\ n - 1 \notin bad
    BY <2>2, <2>3
  <2>5. (n - 1) + 1 \notin bad
    BY <1>3, <2>4
  <2> QED BY <2>2, <2>3, <2>5
<1>5. Cardinality(S) \in Nat /\ Few(Cardinality(S)) = SUBSET S
  BY FS_Subset, FS_CardinalityType
<1>6. PICK h : Folds(h, Cardinality(S))
  BY <1>4, <1>5
<1>7. /\ h \in [SUBSET S -> V]
      /\ \A s \in SUBSET S : h[s] = IF s = {} THEN base ELSE Op[Chosen(s)][h[Others(s)]]
  BY <1>5, <1>6 DEF Folds
<1> QED BY <1>7 DEF FoldOf

LEMMA FoldIn ==
  ASSUME NEW S, IsFiniteSet(S), NEW V, NEW base \in V, NEW Op \in [S -> [V -> V]],
         NEW g, FoldOf(g, S, base, Op)
  PROVE  g \in [SUBSET S -> V]
<1>1. PICK P : P = {s \in SUBSET S : g[s] \in V}
  OBVIOUS
<1>2. {} \in P
  BY <1>1 DEF FoldOf
<1>3. ASSUME NEW s \in SUBSET S, s # {}, Others(s) \in P PROVE s \in P
  <2>1. Chosen(s) \in S /\ g[Others(s)] \in V
    BY <1>1, <1>3, RestSmaller
  <2>2. g[s] = Op[Chosen(s)][g[Others(s)]]
    BY <1>3 DEF FoldOf
  <2> QED BY <1>1, <2>1, <2>2
<1>4. SUBSET S \subseteq P
  BY <1>2, <1>3, RestInduction
<1> QED BY <1>1, <1>4 DEF FoldOf

(* v is the sum of F over S.                                               *)
Sums(F, S, v) ==
  \E g : /\ g = [s \in SUBSET S |-> IF s = {} THEN 0 ELSE F[Chosen(s)] + g[Others(s)]]
         /\ v = g[S]

LEMMA SumsExist ==
  ASSUME NEW S, IsFiniteSet(S), NEW F \in [S -> Int]
  PROVE  \E v \in Int : Sums(F, S, v)
<1>1. PICK Op : Op = [x \in S |-> [v \in Int |-> F[x] + v]]
  OBVIOUS
<1>2. Op \in [S -> [Int -> Int]]
  BY <1>1
<1>z. 0 \in Int
  OBVIOUS
<1>3. PICK g : FoldOf(g, S, 0, Op)
  BY <1>z, <1>2, FoldExists, Zenon
<1>4. g \in [SUBSET S -> Int]
  BY <1>z, <1>2, <1>3, FoldIn, Zenon
<1>5. ASSUME NEW s \in SUBSET S PROVE g[s] = IF s = {} THEN 0 ELSE F[Chosen(s)] + g[Others(s)]
  <2>1. CASE s = {}
    BY <1>3, <2>1 DEF FoldOf
  <2>2. CASE s # {}
    <3>1. Chosen(s) \in S /\ Others(s) \in SUBSET S
      BY <2>2, RestSmaller
    <3>2. g[Others(s)] \in Int
      BY <1>4, <3>1
    <3>3. g[s] = Op[Chosen(s)][g[Others(s)]]
      BY <1>3, <2>2 DEF FoldOf
    <3> QED BY <1>1, <2>2, <3>1, <3>2, <3>3
  <2> QED BY <2>1, <2>2
<1>6. g = [s \in SUBSET S |-> IF s = {} THEN 0 ELSE F[Chosen(s)] + g[Others(s)]]
  BY <1>4, <1>5
<1> QED BY <1>4, <1>6 DEF Sums

(* Two sums differ by as much as their functions do.                       *)
Changed(F, x, d) == [F EXCEPT ![x] = F[x] + d]

LEMMA SumsChange ==
  ASSUME NEW S, IsFiniteSet(S), NEW F \in [S -> Int], NEW x \in S, NEW d \in Int,
         NEW v, Sums(F, S, v), NEW w, Sums(Changed(F, x, d), S, w)
  PROVE  v \in Int /\ w = v + d
<1>1. PICK G : G = [F EXCEPT ![x] = F[x] + d] /\ G = Changed(F, x, d)
  BY DEF Changed
<1>2. PICK g : /\ g = [s \in SUBSET S |-> IF s = {} THEN 0 ELSE F[Chosen(s)] + g[Others(s)]]
               /\ v = g[S]
  BY DEF Sums
<1>3. PICK h : /\ h = [s \in SUBSET S |-> IF s = {} THEN 0 ELSE G[Chosen(s)] + h[Others(s)]]
               /\ w = h[S]
  BY <1>1 DEF Sums
<1>4. PICK P : P = {s \in SUBSET S : g[s] \in Int /\ h[s] = g[s] + (IF x \in s THEN d ELSE 0)}
  OBVIOUS
<1>5. {} \in P
  BY <1>2, <1>3, <1>4
<1>6. ASSUME NEW s \in SUBSET S, s # {}, Others(s) \in P PROVE s \in P
  <2>1. PICK c \in S : c = Chosen(s) /\ c \in s
    BY <1>6, RestSmaller
  <2>2. g[Others(s)] \in Int /\ h[Others(s)] = g[Others(s)] + (IF x \in Others(s) THEN d ELSE 0)
    BY <1>4, <1>6
  <2>3. g[s] = F[c] + g[Others(s)] /\ h[s] = G[c] + h[Others(s)]
    BY <1>2, <1>3, <1>6, <2>1
  <2>4. F[c] \in Int /\ G[c] = F[c] + (IF x = c THEN d ELSE 0)
    BY <1>1, <2>1
  <2>5. x \in Others(s) <=> x \in s /\ x # c
    BY <2>1 DEF Others
  <2>6. g[s] \in Int /\ h[s] = g[s] + (IF x \in s THEN d ELSE 0)
    BY <2>1, <2>2, <2>3, <2>4, <2>5
  <2> QED BY <1>4, <2>6
<1>7. SUBSET S \subseteq P
  BY <1>5, <1>6, RestInduction
<1>8. S \in P
  BY <1>7
<1> QED BY <1>2, <1>3, <1>4, <1>8

-----------------------------------------------------------------------------
(* The counts of a table, whose entries have each tag at most once.        *)
TagEntries == [tag : AllTags \cup {NoTag}, count : Int]
TagOnce(T) == \A i, j \in DOMAIN T : T[i].tag = T[j].tag /\ T[i].tag \in AllTags => i = j

LEMMA NoCount ==
  ASSUME NEW T, NEW t, \A i \in DOMAIN T : T[i].tag # t
  PROVE  CountOf(T, t) = 0
<1> DEFINE S == {i \in DOMAIN T : T[i].tag = t}
           IsIt(g) == g = [s \in SUBSET S |->
             IF s = {} THEN 0
             ELSE T[CHOOSE x \in s : TRUE].count + g[s \ {CHOOSE x \in s : TRUE}]]
           it == CHOOSE g : IsIt(g)
<1>1. CountOf(T, t) = it[S]
  BY DEF CountOf, MapThenSumSet, MapThenFoldSet
<1>2. S = {}
  OBVIOUS
<1>3. IsIt([s \in SUBSET S |-> 0])
  BY <1>2
<1> HIDE DEF IsIt
<1>4. IsIt(it)
  BY <1>3, Zenon
<1>5. it[S] = 0
  BY <1>2, <1>4 DEF IsIt
<1> QED BY <1>1, <1>5, Zenon

LEMMA OneCount ==
  ASSUME NEW T, NEW t \in AllTags, NEW i \in DOMAIN T, T[i].tag = t, TagOnce(T),
         T[i].count \in Int
  PROVE  CountOf(T, t) = T[i].count
<1> DEFINE S == {j \in DOMAIN T : T[j].tag = t}
           IsIt(g) == g = [s \in SUBSET S |->
             IF s = {} THEN 0
             ELSE T[CHOOSE x \in s : TRUE].count + g[s \ {CHOOSE x \in s : TRUE}]]
           it == CHOOSE g : IsIt(g)
<1>1. CountOf(T, t) = it[S]
  BY DEF CountOf, MapThenSumSet, MapThenFoldSet
<1>2. S = {i}
  BY DEF TagOnce
<1>3. \A s \in SUBSET S : s # {} => (CHOOSE x \in s : TRUE) = i /\ s \ {CHOOSE x \in s : TRUE} = {}
  BY <1>2
<1>4. PICK h : h = [s \in SUBSET S |-> IF s = {} THEN 0 ELSE T[i].count]
  OBVIOUS
<1>5. {} \in SUBSET S /\ h[{}] = 0 /\ h \in [SUBSET S -> Int]
  BY <1>4
<1>6. ASSUME NEW s \in SUBSET S
      PROVE  h[s] = IF s = {} THEN 0
                    ELSE T[CHOOSE x \in s : TRUE].count + h[s \ {CHOOSE x \in s : TRUE}]
  <2>1. CASE s = {}
    BY <1>5, <2>1
  <2>2. CASE s # {}
    <3>1. PICK c : c = CHOOSE x \in s : TRUE
      OBVIOUS
    <3>2. c = i /\ s \ {c} = {}
      BY <1>3, <2>2, <3>1
    <3>3. h[s] = T[c].count + h[s \ {c}]
      BY <1>4, <1>5, <2>2, <3>2
    <3> QED BY <2>2, <3>1, <3>3
  <2> QED BY <2>1, <2>2
<1>7. IsIt(h)
  BY <1>4, <1>6
<1> HIDE DEF IsIt
<1>8. IsIt(it)
  BY <1>7, Zenon
<1> DEFINE c == CHOOSE x \in S : TRUE
<1>9. c = i /\ S \ {c} = {} /\ S # {} /\ {} \in SUBSET S
  BY <1>2, <1>3
<1>10. it[{}] = 0 /\ it[S] = T[c].count + it[S \ {c}]
  BY <1>8, <1>9 DEF IsIt
<1>11. it[S] = T[i].count
  <2>1. it[S \ {c}] = 0
    BY <1>9, <1>10
  <2>2. it[S] = T[c].count + 0 /\ T[c].count = T[i].count
    BY <1>9, <1>10, <2>1
  <2> QED BY <2>2
<1> QED BY <1>1, <1>11, Zenon

CountsZero(T) == \A i \in DOMAIN T : T[i].count \in Int /\ (T[i].tag = NoTag => T[i].count = 0)

(* N is T but for its entry i, which had the tag t or none, and has t and  *)
(* d more.                                                                 *)
Recounted(T, N, i, t, d) ==
  /\ i \in DOMAIN T /\ DOMAIN N = DOMAIN T /\ t \in AllTags /\ d \in Int
  /\ \A j \in DOMAIN T : j # i => N[j] = T[j]
  /\ T[i].tag \in {t, NoTag} /\ N[i].tag = t /\ N[i].count = T[i].count + d
  /\ CountsZero(T) /\ TagOnce(T) /\ TagOnce(N)

LEMMA CountMoves ==
  ASSUME NEW T, NEW N, NEW i, NEW t, NEW d, Recounted(T, N, i, t, d)
  PROVE  /\ CountsZero(N)
         /\ CountOf(N, t) = CountOf(T, t) + d
         /\ \A s \in AllTags : s # t => CountOf(N, s) = CountOf(T, s)
<1>1. /\ i \in DOMAIN T /\ DOMAIN N = DOMAIN T /\ t \in AllTags /\ d \in Int
      /\ \A j \in DOMAIN T : j # i => N[j] = T[j]
      /\ T[i].tag \in {t, NoTag} /\ N[i].tag = t /\ N[i].count = T[i].count + d
      /\ CountsZero(T) /\ TagOnce(T) /\ TagOnce(N) /\ t # NoTag
  BY TrackingAssumption DEF Recounted
<1>2. CountsZero(N)
  <2>1. N[i].count \in Int
    BY <1>1 DEF CountsZero
  <2> QED BY <1>1, <2>1 DEF CountsZero
<1>3. CountOf(N, t) = N[i].count
  BY <1>1, <1>2, OneCount DEF CountsZero
<1>4. CountOf(T, t) = T[i].count
  <2>1. CASE T[i].tag = t
    BY <1>1, <2>1, OneCount DEF CountsZero
  <2>2. CASE T[i].tag = NoTag
    <3>1. ASSUME NEW j \in DOMAIN T PROVE T[j].tag # t
      <4>1. CASE j = i
        BY <1>1, <2>2, <4>1
      <4>2. CASE j # i
        <5>1. N[j] = T[j]
          BY <1>1, <4>2
        <5> QED BY <1>1, <4>2, <5>1 DEF TagOnce
      <4> QED BY <4>1, <4>2
    <3>2. CountOf(T, t) = 0
      BY <3>1, NoCount
    <3> QED BY <1>1, <2>2, <3>2 DEF CountsZero
  <2> QED BY <1>1, <2>1, <2>2
<1>5. ASSUME NEW s \in AllTags, s # t PROVE CountOf(N, s) = CountOf(T, s)
  <2>1. s # NoTag /\ T[i].tag # s /\ N[i].tag # s
    BY <1>1, <1>5, TrackingAssumption
  <2>2. CASE \E j \in DOMAIN T : T[j].tag = s
    <3>1. PICK j \in DOMAIN T : T[j].tag = s
      BY <2>2
    <3>2. j # i /\ N[j] = T[j]
      BY <1>1, <2>1, <3>1
    <3>3. CountOf(T, s) = T[j].count
      BY <1>1, <3>1, OneCount DEF CountsZero
    <3>4. CountOf(N, s) = N[j].count
      BY <1>1, <1>2, <3>1, <3>2, OneCount DEF CountsZero
    <3> QED BY <3>2, <3>3, <3>4
  <2>3. CASE ~ \E j \in DOMAIN T : T[j].tag = s
    <3>1. \A j \in DOMAIN N : N[j].tag # s
      BY <1>1, <2>1, <2>3
    <3>2. CountOf(T, s) = 0 /\ CountOf(N, s) = 0
      BY <2>3, <3>1, NoCount
    <3> QED BY <3>2
  <2> QED BY <2>2, <2>3
<1> QED BY <1>1, <1>2, <1>3, <1>4, <1>5 DEF CountsZero

(* Entries without a tag do not count.                                     *)
LEMMA MoreCounts ==
  ASSUME NEW T \in Seq(TagEntries), NEW n \in Nat, TagOnce(T), CountsZero(T)
  PROVE  LET N == T \o [i \in 1..n |-> Unused]
         IN  /\ N \in Seq(TagEntries) /\ Len(N) = Len(T) + n /\ TagOnce(N) /\ CountsZero(N)
             /\ \A i \in DOMAIN T : N[i] = T[i]
             /\ \A i \in DOMAIN N : i \in DOMAIN T \/ N[i] = Unused
             /\ \A s \in AllTags : CountOf(N, s) = CountOf(T, s)
<1>1. PICK u : u = [i \in 1..n |-> Unused]
  OBVIOUS
<1>2. Unused \in TagEntries /\ Unused.tag = NoTag /\ Unused.count = 0
  BY DEF Unused, TagEntries
<1>3. u \in Seq(TagEntries) /\ Len(u) = n /\ \A i \in 1..n : u[i] = Unused
  BY <1>1, <1>2
<1>4. PICK N : N = T \o u
  OBVIOUS
<1>5. PICK l \in Nat : l = Len(T) /\ DOMAIN T = 1..l
  BY LenProperties
<1>6. /\ N \in Seq(TagEntries) /\ Len(N) = l + n
      /\ \A i \in 1..(l + n) : N[i] = IF i <= l THEN T[i] ELSE u[i - l]
  <2>1. PICK a \in Seq(TagEntries), b \in Seq(TagEntries) : a = T /\ b = u
    BY <1>3
  <2>2. PICK c : c = a \o b
    OBVIOUS
  <2>3. /\ c \in Seq(TagEntries) /\ Len(c) = Len(a) + Len(b)
        /\ \A i \in 1..(Len(a) + Len(b)) : c[i] = IF i <= Len(a) THEN a[i] ELSE b[i - Len(a)]
    BY <2>2, ConcatProperties
  <2> QED BY <1>3, <1>4, <1>5, <2>1, <2>2, <2>3
<1>7. DOMAIN N = 1..(l + n)
  BY <1>6, LenProperties
<1>8. \A i \in DOMAIN T : i \in DOMAIN N /\ N[i] = T[i]
  BY <1>5, <1>6, <1>7
<1>9. ASSUME NEW i \in DOMAIN N PROVE i \in DOMAIN T \/ N[i] = Unused
  <2>1. CASE i <= l
    BY <1>5, <1>7, <2>1
  <2>2. CASE ~(i <= l)
    <3>1. i - l \in 1..n
      BY <1>7, <2>2
    <3> QED BY <1>3, <1>6, <1>7, <2>2, <3>1
  <2> QED BY <2>1, <2>2
<1>10. TagOnce(N)
  <2> SUFFICES ASSUME NEW i \in DOMAIN N, NEW j \in DOMAIN N,
                      N[i].tag = N[j].tag, N[i].tag \in AllTags
               PROVE  i = j
    BY DEF TagOnce
  <2>1. N[i] # Unused /\ N[j] # Unused
    BY <1>2, TrackingAssumption
  <2>2. i \in DOMAIN T /\ j \in DOMAIN T
    BY <1>9, <2>1
  <2> QED BY <1>8, <2>2 DEF TagOnce
<1>11. CountsZero(N)
  BY <1>2, <1>8, <1>9 DEF CountsZero
<1>12. ASSUME NEW s \in AllTags PROVE CountOf(N, s) = CountOf(T, s)
  <2>1. CASE \E j \in DOMAIN T : T[j].tag = s
    <3>1. PICK j \in DOMAIN T : T[j].tag = s
      BY <2>1
    <3>2. j \in DOMAIN N /\ N[j] = T[j]
      BY <1>8
    <3>3. CountOf(T, s) = T[j].count
      BY <3>1, OneCount DEF CountsZero
    <3>4. CountOf(N, s) = N[j].count
      BY <1>10, <1>11, <3>1, <3>2, OneCount DEF CountsZero
    <3> QED BY <3>2, <3>3, <3>4
  <2>2. CASE ~ \E j \in DOMAIN T : T[j].tag = s
    <3>1. \A j \in DOMAIN N : N[j].tag # s
      BY <1>2, <1>8, <1>9, <2>2, TrackingAssumption
    <3>2. CountOf(T, s) = 0 /\ CountOf(N, s) = 0
      BY <2>2, <3>1, NoCount
    <3> QED BY <3>2
  <2> QED BY <2>1, <2>2
<1> QED BY <1>1, <1>4, <1>5, <1>6, <1>8, <1>9, <1>10, <1>11, <1>12

-----------------------------------------------------------------------------
(* The probes for a tag go through all slots, each once.                   *)
LEMMA SlotIs ==
  ASSUME NEW t \in AllTags, NEW k \in 0..Mask
  PROVE  /\ Slot(t, k) \in 0..Mask /\ TagHash[t] \in 0..Mask
         /\ Slot(t, k) = IF TagHash[t] + k <= Mask THEN TagHash[t] + k
                         ELSE TagHash[t] + k - (Mask + 1)
<1>1. PICK m \in Nat : m = Mask
  BY TrackingAssumption
<1>2. PICK h \in 0..m : h = TagHash[t]
  BY <1>1, TrackingAssumption
<1>3. k \in 0..m
  BY <1>1
<1>4. CASE h + k <= m
  <2>1. h + k \in 0..(m + 1) - 1 /\ h + k = (m + 1) * 0 + (h + k) /\ m + 1 \in Nat \ {0}
    BY <1>3, <1>4
  <2>2. (h + k) % (m + 1) = h + k
    BY <2>1, RestIs
  <2> QED BY <1>1, <1>2, <1>3, <1>4, <2>2 DEF Slot
<1>5. CASE ~(h + k <= m)
  <2>1. PICK r \in Int : r = h + k - (m + 1)
    BY <1>3
  <2>2. r \in 0..(m + 1) - 1 /\ h + k = (m + 1) * 1 + r /\ m + 1 \in Nat \ {0} /\ h + k \in Int
    BY <1>3, <1>5, <2>1
  <2>3. (h + k) % (m + 1) = r
    BY <2>2, RestIs
  <2> QED BY <1>1, <1>2, <1>3, <1>5, <2>1, <2>2, <2>3 DEF Slot
<1> QED BY <1>4, <1>5

LEMMA SlotsDiffer ==
  ASSUME NEW t \in AllTags, NEW j \in 0..Mask, NEW k \in 0..Mask, Slot(t, j) = Slot(t, k)
  PROVE  j = k
<1>1. PICK m \in Nat, h \in Nat, a \in Nat : m = Mask /\ h = TagHash[t] /\ a = Slot(t, j) /\ h <= m
  BY SlotIs, TrackingAssumption
<1>2. a = IF h + j <= m THEN h + j ELSE h + j - (m + 1)
  BY <1>1, SlotIs
<1>3. a = IF h + k <= m THEN h + k ELSE h + k - (m + 1)
  BY <1>1, SlotIs
<1>4. j \in 0..m /\ k \in 0..m
  BY <1>1
<1> QED BY <1>2, <1>3, <1>4

LEMMA SlotsCover ==
  ASSUME NEW t \in AllTags, NEW g \in 0..Mask
  PROVE  \E k \in 0..Mask : Slot(t, k) = g
<1>1. 0 \in 0..Mask
  BY TrackingAssumption
<1>2. PICK m \in Nat, h \in Nat : m = Mask /\ h = TagHash[t] /\ h <= m
  BY <1>1, SlotIs, TrackingAssumption
<1>3. g \in 0..m
  BY <1>2
<1>4. CASE h <= g
  <2>1. PICK k \in 0..m : k = g - h
    BY <1>3, <1>4
  <2>2. h + k = g /\ h + k <= m
    BY <1>3, <2>1
  <2> QED BY <1>2, <2>2, SlotIs
<1>5. CASE ~(h <= g)
  <2>1. PICK k \in 0..m : k = g + (m + 1) - h
    BY <1>2, <1>3, <1>5
  <2>2. h + k - (m + 1) = g /\ ~(h + k <= m)
    BY <1>3, <2>1
  <2> QED BY <1>2, <2>2, SlotIs
<1> QED BY <1>4, <1>5

(* The tables as the code keeps them.  No tag is behind a slot that could  *)
(* have taken it: hence each is in a table at most once.                   *)
BookTypes == [main : [0..Mask -> TagEntries], expansion : Seq(TagEntries), overflow : Int,
          overflowing : BOOLEAN, stuck : BOOLEAN]
MainInOrder(M) ==
  \A t \in AllTags : \A k \in 0..Mask : M[Slot(t, k)].tag = t =>
    \A j \in 0..(k - 1) : M[Slot(t, j)].tag \notin {t, NoTag}
InOrder(E) ==
  \A i, j \in DOMAIN E : j < i /\ E[i].tag \in AllTags => E[j].tag \notin {E[i].tag, NoTag}
Kept(B) ==
  /\ B \in BookTypes
  /\ MainInOrder(B.main) /\ CountsZero(B.main)
  /\ InOrder(B.expansion) /\ CountsZero(B.expansion)

LEMMA MainOnce ==
  ASSUME NEW M \in [0..Mask -> TagEntries], MainInOrder(M)
  PROVE  TagOnce(M)
<1> SUFFICES ASSUME NEW g \in 0..Mask, NEW h \in 0..Mask, M[g].tag = M[h].tag, M[g].tag \in AllTags
             PROVE  g = h
  BY DEF TagOnce
<1>1. PICK t \in AllTags : M[g].tag = t /\ M[h].tag = t
  OBVIOUS
<1>2. PICK j \in 0..Mask, k \in 0..Mask : Slot(t, j) = g /\ Slot(t, k) = h
  BY SlotsCover
<1>3. ~(j \in 0..(k - 1)) /\ ~(k \in 0..(j - 1))
  BY <1>1, <1>2 DEF MainInOrder
<1>4. j = k
  BY <1>3, TrackingAssumption
<1> QED BY <1>2, <1>4

LEMMA ExpansionOnce ==
  ASSUME NEW E \in Seq(TagEntries), InOrder(E)
  PROVE  TagOnce(E)
<1> SUFFICES ASSUME NEW i \in DOMAIN E, NEW j \in DOMAIN E, E[i].tag = E[j].tag, E[i].tag \in AllTags
             PROVE  i = j
  BY DEF TagOnce
<1>1. ~(i < j) /\ ~(j < i)
  BY DEF InOrder
<1>2. i \in Int /\ j \in Int
  BY LenProperties
<1> QED BY <1>1, <1>2

Total(B, t) == CountOf(B.main, t) + CountOf(B.expansion, t)

LEMMA CountsType ==
  ASSUME NEW T, TagOnce(T), CountsZero(T), NEW t \in AllTags
  PROVE  CountOf(T, t) \in Int
<1>1. CASE \E i \in DOMAIN T : T[i].tag = t
  BY <1>1, OneCount DEF CountsZero
<1>2. CASE ~ \E i \in DOMAIN T : T[i].tag = t
  BY <1>2, NoCount
<1> QED BY <1>1, <1>2

LEMMA KeptMeans ==
  ASSUME NEW B, Kept(B)
  PROVE  /\ B.main \in [0..Mask -> TagEntries] /\ B.expansion \in Seq(TagEntries)
         /\ B.overflow \in Int /\ B.overflowing \in BOOLEAN /\ B.stuck \in BOOLEAN
         /\ MainInOrder(B.main) /\ CountsZero(B.main) /\ TagOnce(B.main)
         /\ InOrder(B.expansion) /\ CountsZero(B.expansion) /\ TagOnce(B.expansion)
         /\ \A t \in AllTags : /\ CountOf(B.main, t) \in Int /\ CountOf(B.expansion, t) \in Int
                               /\ Total(B, t) \in Int
<1>1. B.main \in [0..Mask -> TagEntries] /\ B.expansion \in Seq(TagEntries)
  BY DEF Kept, BookTypes
<1>2. MainInOrder(B.main) /\ InOrder(B.expansion)
  BY DEF Kept
<1>3. TagOnce(B.main) /\ TagOnce(B.expansion)
  BY <1>1, <1>2, MainOnce, ExpansionOnce
<1>4. CountsZero(B.main) /\ CountsZero(B.expansion)
  BY DEF Kept
<1>5. \A t \in AllTags : CountOf(B.main, t) \in Int /\ CountOf(B.expansion, t) \in Int
  BY <1>3, <1>4, CountsType
<1> QED BY <1>1, <1>2, <1>3, <1>4, <1>5 DEF Kept, BookTypes, Total

-----------------------------------------------------------------------------
(* Counting in a slot that has the tag, or is the first that could.        *)
Suits(B, t, k) ==
  /\ k \in 0..Mask /\ B.main[Slot(t, k)].tag \in {t, NoTag}
  /\ \A j \in 0..(k - 1) : B.main[Slot(t, j)].tag \notin {t, NoTag}

(* Of the entries, tags only are given, never changed or taken away.       *)
SameTags(B, R) == \A g \in 0..Mask : B.main[g].tag \in AllTags => R.main[g].tag = B.main[g].tag
SameState(B, R) ==
  R.overflow = B.overflow /\ R.overflowing = B.overflowing /\ R.stuck = B.stuck
(* The total of t, and of no other tag, is d more.                         *)
TotalMoves(B, R, t, d) ==
  \A s \in AllTags : Total(R, s) = Total(B, s) + (IF s = t THEN d ELSE 0)

LEMMA FirstFits ==
  ASSUME NEW B, NEW t
  PROVE  /\ Probes(B, t) # {} => Suits(B, t, FirstProbe(B, t))
         /\ \A k : Suits(B, t, k) => Probes(B, t) # {} /\ FirstProbe(B, t) = k
<1>1. PICK P : P = Probes(B, t)
  OBVIOUS
<1>2. \A k : k \in P <=> k \in 0..Mask /\ B.main[Slot(t, k)].tag \in {t, NoTag}
  BY <1>1 DEF Probes
<1>3. ASSUME P # {} PROVE Suits(B, t, FirstProbe(B, t))
  <2>1. P \in SUBSET Nat
    BY <1>2
  <2>2. \E k \in P : \A j \in P : k <= j
    BY <1>3, <2>1, LeastNumber
  <2>3. PICK k \in P : k = FirstProbe(B, t) /\ \A j \in P : k <= j
    BY <1>1, <2>2 DEF FirstProbe
  <2>4. k \in 0..Mask /\ B.main[Slot(t, k)].tag \in {t, NoTag}
    BY <1>2
  <2>5. ASSUME NEW j \in 0..(k - 1) PROVE B.main[Slot(t, j)].tag \notin {t, NoTag}
    <3>1. j \in 0..Mask /\ ~(k <= j)
      BY <2>4, TrackingAssumption
    <3> QED BY <1>2, <2>3, <3>1
  <2> QED BY <2>3, <2>4, <2>5 DEF Suits
<1>4. ASSUME NEW k, Suits(B, t, k) PROVE P # {} /\ FirstProbe(B, t) = k
  <2>1. k \in P
    BY <1>2, <1>4 DEF Suits
  <2>2. ASSUME NEW j \in P PROVE k <= j
    <3>1. j \in 0..Mask /\ k \in 0..Mask /\ j \notin 0..(k - 1)
      BY <1>2, <1>4 DEF Suits
    <3> QED BY <3>1, TrackingAssumption
  <2>3. \A i \in P : (\A j \in P : i <= j) => i = k
    <3> SUFFICES ASSUME NEW i \in P, \A j \in P : i <= j PROVE i = k
      OBVIOUS
    <3>1. i <= k /\ k <= i /\ i \in 0..Mask /\ k \in 0..Mask
      BY <1>2, <2>1, <2>2
    <3> QED BY <3>1, TrackingAssumption
  <2>4. \E i \in P : \A j \in P : i <= j
    BY <2>1, <2>2
  <2> QED BY <1>1, <2>1, <2>3, <2>4 DEF FirstProbe
<1> QED BY <1>1, <1>3, <1>4

LEMMA OwnFits ==
  ASSUME NEW B, Kept(B), NEW t \in AllTags, NEW k \in 0..Mask, B.main[Slot(t, k)].tag = t
  PROVE  Suits(B, t, k)
BY KeptMeans DEF Suits, MainInOrder

LEMMA MainFields ==
  ASSUME NEW B \in BookTypes, NEW h \in 0..Mask, NEW t \in AllTags, NEW d \in Int,
         NEW R, R = CountMain(B, h, t, d)
  PROVE  /\ R \in BookTypes /\ R.expansion = B.expansion /\ SameState(B, R)
         /\ R.main[h].tag = t /\ R.main[h].count = B.main[h].count + d
         /\ \A g \in 0..Mask : g # h => R.main[g] = B.main[g]
<1>1. PICK M : M = B.main /\ M \in [0..Mask -> TagEntries]
  BY DEF BookTypes
<1>2. PICK e : e = M[h] /\ e \in TagEntries
  BY <1>1
<1>3. e.count \in Int /\ e.count + d \in Int /\ t \in AllTags \cup {NoTag}
  BY <1>2 DEF TagEntries
<1>4. PICK f : f = [tag |-> t, count |-> e.count + d]
  OBVIOUS
<1>5. f \in TagEntries /\ f.tag = t /\ f.count = e.count + d
  BY <1>3, <1>4 DEF TagEntries
<1>6. [[e EXCEPT !.tag = t] EXCEPT !.count = [e EXCEPT !.tag = t].count + d] = f
  <2>1. DOMAIN e = {"tag", "count"}
    BY <1>2 DEF TagEntries
  <2>2. PICK e1 : e1 = [e EXCEPT !.tag = t]
    OBVIOUS
  <2>3. DOMAIN e1 = {"tag", "count"} /\ e1.tag = t /\ e1.count = e.count
    BY <2>1, <2>2
  <2>4. PICK e2 : e2 = [e1 EXCEPT !.count = e1.count + d]
    OBVIOUS
  <2>5. /\ DOMAIN e2 = {"tag", "count"} /\ e2.tag = t /\ e2.count = e.count + d
        /\ e2 = [x \in DOMAIN e2 |-> e2[x]]
    BY <2>3, <2>4
  <2>6. DOMAIN f = {"tag", "count"} /\ f = [x \in DOMAIN f |-> f[x]]
    BY <1>4
  <2>7. \A x \in DOMAIN e2 : e2[x] = f[x]
    BY <1>5, <2>5
  <2>8. e2 = f
    BY <2>5, <2>6, <2>7
  <2> QED BY <2>2, <2>4, <2>8, Zenon
<1>7. PICK N : N = [M EXCEPT ![h] = f]
  OBVIOUS
<1>8. N \in [0..Mask -> TagEntries]
  BY <1>1, <1>5, <1>7
<1>9. PICK M1 : M1 = [M EXCEPT ![h].tag = t]
  OBVIOUS
<1>10. [M1 EXCEPT ![h].count = @ + d] = N
  <2>1. M1 = [M EXCEPT ![h] = [e EXCEPT !.tag = t]]
    BY <1>2, <1>9
  <2>2. M1[h] = [e EXCEPT !.tag = t] /\ DOMAIN M1 = 0..Mask
    BY <1>1, <2>1
  <2>3. [M1 EXCEPT ![h].count = @ + d] = [M1 EXCEPT ![h] = f]
    BY <1>6, <2>2
  <2>4. [M1 EXCEPT ![h] = f] = [M EXCEPT ![h] = f]
    BY <1>1, <2>1
  <2> QED BY <1>7, <2>3, <2>4
<1>11. PICK B1 : B1 = [B EXCEPT !.main[h].tag = t]
  OBVIOUS
<1>12. R = [B1 EXCEPT !.main[h].count = @ + d]
  BY <1>11 DEF CountMain
<1>13. DOMAIN B = {"main", "expansion", "overflow", "overflowing", "stuck"}
  BY DEF BookTypes
<1>14. /\ DOMAIN B1 = DOMAIN B /\ B1.main = M1 /\ B1.expansion = B.expansion
       /\ B1.overflow = B.overflow /\ B1.overflowing = B.overflowing /\ B1.stuck = B.stuck
  BY <1>1, <1>9, <1>11, <1>13
<1>15. /\ R = [B1 EXCEPT !.main = [M1 EXCEPT ![h].count = @ + d]]
  BY <1>12, <1>14
<1>16. R = [B1 EXCEPT !.main = N]
  BY <1>10, <1>15
<1>17. /\ DOMAIN R = {"main", "expansion", "overflow", "overflowing", "stuck"}
       /\ R = [x \in DOMAIN R |-> R[x]]
       /\ R.main = N /\ R.expansion = B.expansion /\ SameState(B, R)
  BY <1>13, <1>14, <1>16 DEF SameState
<1>18. R \in BookTypes
  <2>1. /\ B.expansion \in Seq(TagEntries) /\ B.overflow \in Int /\ B.overflowing \in BOOLEAN
        /\ B.stuck \in BOOLEAN
    BY DEF BookTypes
  <2> QED BY <1>8, <1>17, <2>1 DEF SameState, BookTypes
<1>19. R.main[h] = f /\ \A g \in 0..Mask : g # h => R.main[g] = M[g]
  BY <1>1, <1>7, <1>17
<1> QED BY <1>1, <1>2, <1>5, <1>17, <1>18, <1>19

(* The tables stay in order, and the total of the tag moves.               *)
LEMMA MainCounted ==
  ASSUME NEW B, Kept(B), NEW t \in AllTags, NEW d \in Int, NEW k, Suits(B, t, k),
         NEW R, R = CountMain(B, Slot(t, k), t, d)
  PROVE  /\ Kept(R) /\ R.expansion = B.expansion /\ SameState(B, R)
         /\ SameTags(B, R) /\ R.main[Slot(t, k)].tag = t /\ TotalMoves(B, R, t, d)
<1>1. /\ k \in 0..Mask /\ B.main[Slot(t, k)].tag \in {t, NoTag}
      /\ \A j \in 0..(k - 1) : B.main[Slot(t, j)].tag \notin {t, NoTag}
  BY DEF Suits
<1>2. PICK h \in 0..Mask : h = Slot(t, k)
  BY <1>1, SlotIs
<1>3. B \in BookTypes /\ B.main \in [0..Mask -> TagEntries] /\ MainInOrder(B.main)
  BY KeptMeans DEF Kept
<1>4. /\ R \in BookTypes /\ R.expansion = B.expansion /\ SameState(B, R)
      /\ R.main[h].tag = t /\ R.main[h].count = B.main[h].count + d
      /\ \A g \in 0..Mask : g # h => R.main[g] = B.main[g]
  BY <1>2, <1>3, MainFields
<1>5. PICK M : M = B.main
  OBVIOUS
<1>6. PICK N : N = R.main /\ N \in [0..Mask -> TagEntries]
  BY <1>4 DEF BookTypes
<1>7. MainInOrder(N)
  <2> SUFFICES ASSUME NEW s \in AllTags, NEW l \in 0..Mask, N[Slot(s, l)].tag = s,
                      NEW j \in 0..(l - 1)
               PROVE  N[Slot(s, j)].tag \notin {s, NoTag}
    BY DEF MainInOrder
  <2>0. j \in 0..Mask /\ j < l /\ j \in Int /\ l \in Int /\ k \in Int
    BY <1>1, TrackingAssumption
  <2>1. Slot(s, l) \in 0..Mask /\ Slot(s, j) \in 0..Mask /\ s # NoTag /\ t # NoTag
    BY <2>0, SlotIs, TrackingAssumption
  <2>2. CASE s = t
    <3>1. CASE l = k
      <4>1. Slot(s, j) # h
        BY <1>1, <1>2, <2>0, <2>2, <3>1, SlotsDiffer
      <4>2. M[Slot(t, j)].tag \notin {t, NoTag}
        BY <1>1, <1>5, <3>1
      <4> QED BY <1>4, <1>5, <1>6, <2>1, <2>2, <4>1, <4>2
    <3>2. CASE l # k
      <4>1. Slot(s, l) # h
        BY <1>1, <1>2, <2>2, <3>2, SlotsDiffer
      <4>2. M[Slot(t, l)].tag = t
        BY <1>4, <1>5, <1>6, <2>1, <2>2, <4>1
      <4>3. \A i \in 0..(l - 1) : M[Slot(t, i)].tag \notin {t, NoTag}
        BY <1>3, <1>5, <4>2 DEF MainInOrder
      <4>4. ~(k \in 0..(l - 1))
        BY <1>1, <1>2, <1>5, <4>3
      <4>5. l \in 0..(k - 1)
        BY <1>1, <2>0, <3>2, <4>4
      <4> QED BY <1>1, <1>5, <4>2, <4>5
    <3> QED BY <3>1, <3>2
  <2>3. CASE s # t
    <3>1. Slot(s, l) # h
      BY <1>4, <1>6, <2>3
    <3>2. M[Slot(s, l)].tag = s
      BY <1>4, <1>5, <1>6, <2>1, <3>1
    <3>3. M[Slot(s, j)].tag \notin {s, NoTag}
      BY <1>3, <1>5, <3>2 DEF MainInOrder
    <3>4. CASE Slot(s, j) = h
      BY <1>4, <1>6, <2>1, <2>3, <3>4
    <3>5. CASE Slot(s, j) # h
      BY <1>4, <1>5, <1>6, <2>1, <3>3, <3>5
    <3> QED BY <3>4, <3>5
  <2> QED BY <2>2, <2>3
<1>8. /\ CountsZero(M) /\ TagOnce(M) /\ TagOnce(N)
      /\ InOrder(B.expansion) /\ CountsZero(B.expansion)
      /\ \A s \in AllTags : CountOf(M, s) \in Int /\ CountOf(B.expansion, s) \in Int
  BY <1>5, <1>6, <1>7, KeptMeans, MainOnce
<1>9. Recounted(M, N, h, t, d)
  <2>1. DOMAIN M = 0..Mask /\ DOMAIN N = 0..Mask
    BY <1>3, <1>5, <1>6
  <2>2. /\ M[h].tag \in {t, NoTag} /\ N[h].tag = t /\ N[h].count = M[h].count + d
        /\ \A j \in 0..Mask : j # h => N[j] = M[j]
    BY <1>1, <1>2, <1>4, <1>5, <1>6
  <2> QED BY <1>2, <1>8, <2>1, <2>2 DEF Recounted
<1>10. /\ CountsZero(N) /\ CountOf(N, t) = CountOf(M, t) + d
       /\ \A s \in AllTags : s # t => CountOf(N, s) = CountOf(M, s)
  BY <1>9, CountMoves
<1>11. Kept(R)
  BY <1>4, <1>6, <1>7, <1>8, <1>10 DEF Kept
<1>12. TotalMoves(B, R, t, d)
  <2> SUFFICES ASSUME NEW s \in AllTags
               PROVE  Total(R, s) = Total(B, s) + (IF s = t THEN d ELSE 0)
    BY DEF TotalMoves
  <2>1. CountOf(M, s) \in Int /\ CountOf(B.expansion, s) \in Int
    BY <1>8
  <2>2. CountOf(N, s) = CountOf(M, s) + (IF s = t THEN d ELSE 0)
    BY <1>10, <2>1
  <2> QED BY <1>4, <1>5, <1>6, <2>1, <2>2 DEF Total
<1>13. SameTags(B, R)
  BY <1>1, <1>2, <1>4, <1>5, TrackingAssumption DEF SameTags
<1> QED BY <1>2, <1>4, <1>11, <1>12, <1>13

(* The same of the expansion table.                                        *)
Preceded(B, t, i) ==
  /\ i \in DOMAIN B.expansion /\ B.expansion[i].tag \in {t, NoTag}
  /\ \A j \in DOMAIN B.expansion : j < i => B.expansion[j].tag \notin {t, NoTag}

LEMMA PlaceIs ==
  ASSUME NEW B, B.expansion \in Seq(TagEntries), NEW t
  PROVE  /\ Place(B, t) # 0 => Preceded(B, t, Place(B, t))
         /\ Place(B, t) = 0 => \A i \in DOMAIN B.expansion : B.expansion[i].tag \notin {t, NoTag}
         /\ \A i : Preceded(B, t, i) => Place(B, t) = i /\ i # 0
<1>1. PICK E \in Seq(TagEntries) : E = B.expansion
  OBVIOUS
<1>2. PICK l \in Nat : l = Len(E) /\ DOMAIN E = 1..l
  BY LenProperties
<1>3. PICK I : I = {i \in 1..l : E[i].tag \in {t, NoTag}}
  OBVIOUS
<1>4. Place(B, t) = IF I # {} THEN CHOOSE i \in I : \A j \in I : i <= j ELSE 0
  BY <1>1, <1>2, <1>3 DEF Place, SelectInSeq, Min
<1>5. I # {} => \E i \in I : \A j \in I : i <= j
  <2>1. I \in SUBSET Nat
    BY <1>3
  <2> QED BY <2>1, LeastNumber
<1>6. I # {} => /\ Place(B, t) \in I /\ \A j \in I : Place(B, t) <= j
                /\ Place(B, t) # 0
  <2> SUFFICES ASSUME I # {}
               PROVE  /\ Place(B, t) \in I /\ \A j \in I : Place(B, t) <= j
                      /\ Place(B, t) # 0
    OBVIOUS
  <2>1. PICK p : p = CHOOSE i \in I : \A j \in I : i <= j
    OBVIOUS
  <2>2. p \in I /\ \A j \in I : p <= j
    BY <1>5, <2>1, Zenon
  <2>3. Place(B, t) = p
    BY <1>4, <2>1, Zenon
  <2>4. p # 0
    BY <1>3, <2>2
  <2> QED BY <2>2, <2>3, <2>4
<1>7. \A i \in I : i \in DOMAIN E /\ E[i].tag \in {t, NoTag}
  BY <1>2, <1>3
<1>8. ASSUME I # {} PROVE Preceded(B, t, Place(B, t))
  <2>1. PICK p \in I : p = Place(B, t) /\ \A j \in I : p <= j
    BY <1>6, <1>8
  <2>2. ASSUME NEW j \in DOMAIN E, j < p PROVE E[j].tag \notin {t, NoTag}
    <3>1. j \in 1..l /\ p \in 1..l /\ ~(p <= j)
      BY <1>2, <1>3, <2>2
    <3> QED BY <1>3, <2>1, <3>1
  <2> QED BY <1>1, <1>7, <2>1, <2>2 DEF Preceded
<1>9. ASSUME I = {} PROVE \A i \in DOMAIN E : E[i].tag \notin {t, NoTag}
  BY <1>2, <1>3, <1>9
<1>10. ASSUME NEW i, Preceded(B, t, i) PROVE Place(B, t) = i /\ i # 0
  <2>1. i \in I /\ i \in 1..l
    BY <1>1, <1>2, <1>3, <1>10 DEF Preceded
  <2>2. PICK p \in I : p = Place(B, t) /\ \A j \in I : p <= j
    BY <1>6, <2>1
  <2>3. p <= i /\ p \in 1..l
    BY <1>3, <2>1, <2>2
  <2>4. ~(p < i)
    BY <1>1, <1>7, <1>10 DEF Preceded
  <2> QED BY <2>1, <2>2, <2>3, <2>4
<1> QED BY <1>1, <1>4, <1>6, <1>8, <1>9, <1>10

LEMMA ExpansionFields ==
  ASSUME NEW B \in BookTypes, NEW i \in DOMAIN B.expansion, NEW t \in AllTags, NEW d \in Int,
         i = Place(B, t), NEW R, R = CountExpansion(B, t, d)
  PROVE  /\ R \in BookTypes /\ R.main = B.main /\ SameState(B, R)
         /\ DOMAIN R.expansion = DOMAIN B.expansion
         /\ R.expansion[i].tag = t /\ R.expansion[i].count = B.expansion[i].count + d
         /\ \A j \in DOMAIN B.expansion : j # i => R.expansion[j] = B.expansion[j]
<1>1. PICK E \in Seq(TagEntries) : E = B.expansion
  BY DEF BookTypes
<1>2. E[i] \in TagEntries /\ DOMAIN E = 1..Len(E) /\ Len(E) \in Nat
  BY <1>1, ElementOfSeq, LenProperties
<1>3. PICK c \in Int : c = E[i].count
  BY <1>2 DEF TagEntries
<1>4. PICK f : f = [tag |-> t, count |-> c + d]
  OBVIOUS
<1>5. f \in TagEntries /\ f.tag = t /\ f.count = c + d
  BY <1>4 DEF TagEntries
<1>6. PICK F : F = [E EXCEPT ![i] = f]
  OBVIOUS
<1>7. /\ F \in Seq(TagEntries) /\ DOMAIN F = DOMAIN E
      /\ F[i] = f /\ \A j \in DOMAIN E : j # i => F[j] = E[j]
  <2>1. F \in Seq(TagEntries) /\ Len(F) = Len(E)
    BY <1>1, <1>5, <1>6, ExceptSeq
  <2> QED BY <1>1, <1>6, <2>1
<1>8. DOMAIN B = {"main", "expansion", "overflow", "overflowing", "stuck"}
  BY DEF BookTypes
<1>9. R = [B EXCEPT !.expansion = F]
  <2>1. [E EXCEPT ![i] = [tag |-> t, count |-> @.count + d]] = F
    BY <1>1, <1>3, <1>4, <1>6
  <2>2. R = [B EXCEPT !.expansion = [E EXCEPT ![i] = [tag |-> t, count |-> @.count + d]]]
    BY <1>1, <1>8 DEF CountExpansion
  <2> QED BY <2>1, <2>2, Zenon
<1>10. /\ DOMAIN R = {"main", "expansion", "overflow", "overflowing", "stuck"}
       /\ R = [x \in DOMAIN R |-> R[x]]
       /\ R.expansion = F /\ R.main = B.main /\ SameState(B, R)
  BY <1>8, <1>9 DEF SameState
<1>11. R \in BookTypes
  <2>1. /\ B.main \in [0..Mask -> TagEntries] /\ B.overflow \in Int
        /\ B.overflowing \in BOOLEAN /\ B.stuck \in BOOLEAN
    BY DEF BookTypes
  <2> QED BY <1>7, <1>10, <2>1 DEF SameState, BookTypes
<1> QED BY <1>1, <1>3, <1>5, <1>7, <1>10, <1>11

LEMMA ExpansionCounted ==
  ASSUME NEW B, Kept(B), NEW t \in AllTags, NEW d \in Int, Place(B, t) # 0,
         NEW R, R = CountExpansion(B, t, d)
  PROVE  /\ Kept(R) /\ R.main = B.main /\ SameState(B, R)
         /\ (R.expansion = <<>>) = (B.expansion = <<>>) /\ TotalMoves(B, R, t, d)
<1>1. B \in BookTypes /\ B.expansion \in Seq(TagEntries)
  BY KeptMeans DEF Kept
<1>2. PICK i : i = Place(B, t) /\ Preceded(B, t, i)
  BY <1>1, PlaceIs
<1>3. PICK E : E = B.expansion
  OBVIOUS
<1>4. /\ i \in DOMAIN E /\ E[i].tag \in {t, NoTag}
      /\ \A j \in DOMAIN E : j < i => E[j].tag \notin {t, NoTag}
  BY <1>2, <1>3 DEF Preceded
<1>5. /\ R \in BookTypes /\ R.main = B.main /\ SameState(B, R)
      /\ DOMAIN R.expansion = DOMAIN B.expansion
      /\ R.expansion[i].tag = t /\ R.expansion[i].count = B.expansion[i].count + d
      /\ \A j \in DOMAIN B.expansion : j # i => R.expansion[j] = B.expansion[j]
  BY <1>1, <1>2, <1>3, <1>4, ExpansionFields
<1>6. PICK F \in Seq(TagEntries) : F = R.expansion
  BY <1>5 DEF BookTypes
<1>7. /\ InOrder(E) /\ CountsZero(E) /\ TagOnce(E)
      /\ MainInOrder(B.main) /\ CountsZero(B.main)
      /\ \A s \in AllTags : CountOf(E, s) \in Int /\ CountOf(B.main, s) \in Int
  BY <1>3, KeptMeans
<1>8. InOrder(F)
  <2> SUFFICES ASSUME NEW a \in DOMAIN F, NEW j \in DOMAIN F, j < a, F[a].tag \in AllTags
               PROVE  F[j].tag \notin {F[a].tag, NoTag}
    BY DEF InOrder
  <2>0. a \in DOMAIN E /\ j \in DOMAIN E /\ t # NoTag /\ a \in Int /\ j \in Int /\ i \in Int
    BY <1>1, <1>3, <1>4, <1>5, <1>6, LenProperties, TrackingAssumption
  <2>1. CASE a = i
    <3>1. E[j].tag \notin {t, NoTag} /\ F[j] = E[j] /\ F[a].tag = t
      BY <1>3, <1>4, <1>5, <1>6, <2>0, <2>1
    <3> QED BY <3>1
  <2>2. CASE a # i /\ j = i
    <3>1. F[a] = E[a] /\ F[j].tag = t
      BY <1>3, <1>5, <1>6, <2>0, <2>2
    <3>2. E[i].tag \notin {E[a].tag, NoTag}
      BY <1>7, <2>0, <2>2, <3>1 DEF InOrder
    <3> QED BY <1>4, <2>0, <3>1, <3>2
  <2>3. CASE a # i /\ j # i
    <3>1. F[a] = E[a] /\ F[j] = E[j]
      BY <1>3, <1>5, <1>6, <2>0, <2>3
    <3> QED BY <1>7, <2>0, <3>1 DEF InOrder
  <2> QED BY <2>1, <2>2, <2>3
<1>9. Recounted(E, F, i, t, d)
  <2>1. TagOnce(F)
    BY <1>8, ExpansionOnce
  <2> QED BY <1>3, <1>4, <1>5, <1>6, <1>7, <2>1 DEF Recounted
<1>10. /\ CountsZero(F) /\ CountOf(F, t) = CountOf(E, t) + d
       /\ \A s \in AllTags : s # t => CountOf(F, s) = CountOf(E, s)
  BY <1>9, CountMoves
<1>11. Kept(R)
  BY <1>5, <1>6, <1>7, <1>8, <1>10 DEF Kept
<1>12. TotalMoves(B, R, t, d)
  <2> SUFFICES ASSUME NEW s \in AllTags
               PROVE  Total(R, s) = Total(B, s) + (IF s = t THEN d ELSE 0)
    BY DEF TotalMoves
  <2>1. CountOf(E, s) \in Int /\ CountOf(B.main, s) \in Int
    BY <1>7
  <2>2. CountOf(F, s) = CountOf(E, s) + (IF s = t THEN d ELSE 0)
    BY <1>10, <2>1
  <2> QED BY <1>3, <1>5, <1>6, <2>1, <2>2 DEF Total
<1>13. E # <<>> /\ F # <<>>
  BY <1>3, <1>4, <1>5, <1>6
<1> QED BY <1>3, <1>5, <1>6, <1>11, <1>12, <1>13

-----------------------------------------------------------------------------
(* Registering and unregistering.  `into' is what goes into the entries,   *)
(* the rest into the overflow bucket; `page' is 1 when the expansion table *)
(* gets its first page, which Mgr is charged for.                          *)
OwnsFirst(B) == B.main[Slot(Mgr, 0)].tag = Mgr

Effect(B, R, t, d, into, page) ==
  /\ Kept(R) /\ R.stuck = B.stuck /\ SameTags(B, R)
  /\ into \in {0, d} /\ R.overflow = B.overflow + d - into
  /\ page = (IF B.expansion = <<>> /\ R.expansion # <<>> THEN 1 ELSE 0)
  /\ B.expansion # <<>> => R.expansion # <<>>
  /\ \A s \in AllTags :
       Total(R, s) = Total(B, s) + (IF s = t THEN into ELSE 0) + (IF s = Mgr THEN page ELSE 0)
  /\ B.overflowing => R.overflowing

(* All of it goes into the entries, and the expansion table is not grown.  *)
LEMMA PlainEffect ==
  ASSUME NEW B, Kept(B), NEW R, NEW t, NEW d \in Int,
         Kept(R), SameState(B, R), SameTags(B, R), TotalMoves(B, R, t, d),
         (R.expansion = <<>>) = (B.expansion = <<>>)
  PROVE  Effect(B, R, t, d, d, 0)
<1>1. B.overflow \in Int /\ \A s \in AllTags : Total(B, s) \in Int
  BY KeptMeans
<1>2. \A s \in AllTags :
        Total(R, s) = Total(B, s) + (IF s = t THEN d ELSE 0) + (IF s = Mgr THEN 0 ELSE 0)
  <2> SUFFICES ASSUME NEW s \in AllTags
               PROVE  Total(R, s) = Total(B, s) + (IF s = t THEN d ELSE 0) + (IF s = Mgr THEN 0 ELSE 0)
    OBVIOUS
  <2>1. Total(R, s) = Total(B, s) + (IF s = t THEN d ELSE 0) /\ Total(B, s) \in Int
    BY <1>1 DEF TotalMoves
  <2> QED BY <2>1
<1>3. R.overflow = B.overflow + d - d
  BY <1>1 DEF SameState
<1> QED BY <1>2, <1>3 DEF Effect, SameState

LEMMA UnregisterEffect ==
  ASSUME NEW B, Kept(B), NEW t \in AllTags, NEW R, R = UnregisterAllocationTag(B, t)
  PROVE  \E into \in Int : Effect(B, R, t, -1, into, 0) /\ (into = 0 => Total(B, t) = 0)
<1>1. PICK at : at = {k \in 0..Mask : B.main[Slot(t, k)].tag = t}
  OBVIOUS
<1>2. R = IF at = {} THEN UnregisterAllocationTagExpansion(B, t)
          ELSE CountMain(B, Slot(t, Min(at)), t, -1)
  BY <1>1 DEF UnregisterAllocationTag
<1>3. B \in BookTypes /\ B.expansion \in Seq(TagEntries) /\ -1 \in Int /\ B.overflow \in Int
  BY KeptMeans DEF Kept
<1>4. CASE at # {}
  <2>1. at \in SUBSET Nat
    BY <1>1
  <2>2. \E k \in at : \A j \in at : k <= j
    BY <1>4, <2>1, LeastNumber
  <2>3. PICK k \in at : k = Min(at)
    BY <2>2 DEF Min
  <2>4. k \in 0..Mask /\ B.main[Slot(t, k)].tag = t
    BY <1>1
  <2>5. Suits(B, t, k)
    BY <2>4, OwnFits
  <2>6. R = CountMain(B, Slot(t, k), t, -1)
    BY <1>2, <1>4, <2>3
  <2>7. /\ Kept(R) /\ R.expansion = B.expansion /\ SameState(B, R) /\ SameTags(B, R)
        /\ TotalMoves(B, R, t, -1)
    BY <1>3, <2>5, <2>6, MainCounted
  <2>8. Effect(B, R, t, -1, -1, 0)
    BY <1>3, <2>7, PlainEffect
  <2> QED BY <1>3, <2>8
<1>5. CASE at = {}
  <2>1. R = UnregisterAllocationTagExpansion(B, t)
    BY <1>2, <1>5
  <2>2. CASE Place(B, t) # 0 /\ B.expansion[Place(B, t)].tag = t
    <3>1. R = CountExpansion(B, t, -1)
      BY <2>1, <2>2 DEF UnregisterAllocationTagExpansion
    <3>2. /\ Kept(R) /\ R.main = B.main /\ SameState(B, R)
          /\ (R.expansion = <<>>) = (B.expansion = <<>>) /\ TotalMoves(B, R, t, -1)
      BY <1>3, <2>2, <3>1, ExpansionCounted
    <3>3. SameTags(B, R)
      BY <3>2 DEF SameTags
    <3>4. Effect(B, R, t, -1, -1, 0)
      BY <1>3, <3>2, <3>3, PlainEffect
    <3> QED BY <1>3, <3>4
  <2>3. CASE ~(Place(B, t) # 0 /\ B.expansion[Place(B, t)].tag = t)
    <3>1. R = [B EXCEPT !.overflow = @ - 1]
      BY <2>1, <2>3 DEF UnregisterAllocationTagExpansion
    <3>2. /\ R \in BookTypes /\ R.main = B.main /\ R.expansion = B.expansion
          /\ R.overflow = B.overflow - 1 /\ R.overflowing = B.overflowing /\ R.stuck = B.stuck
      BY <1>3, <3>1 DEF BookTypes
    <3>3. Kept(R)
      BY <3>2 DEF Kept
    <3>4. ASSUME NEW g \in 0..Mask PROVE B.main[g].tag # t
      <4>1. PICK k \in 0..Mask : Slot(t, k) = g
        BY SlotsCover
      <4> QED BY <1>1, <1>5, <4>1
    <3>5. DOMAIN B.main = 0..Mask
      BY KeptMeans
    <3>6. ASSUME NEW i \in DOMAIN B.expansion PROVE B.expansion[i].tag # t
      <4> SUFFICES ASSUME B.expansion[i].tag = t PROVE FALSE
        OBVIOUS
      <4>1. InOrder(B.expansion)
        BY KeptMeans
      <4>2. \A j \in DOMAIN B.expansion : j < i => B.expansion[j].tag \notin {t, NoTag}
        BY <4>1 DEF InOrder
      <4>3. Preceded(B, t, i)
        BY <4>2 DEF Preceded
      <4>4. Place(B, t) = i /\ i # 0
        BY <1>3, <4>3, PlaceIs
      <4> QED BY <2>3, <4>4
    <3>7. CountOf(B.main, t) = 0 /\ CountOf(B.expansion, t) = 0
      BY <3>4, <3>5, <3>6, NoCount
    <3>8. Total(B, t) = 0
      BY <3>7 DEF Total
    <3>9. \A s \in AllTags : Total(R, s) = Total(B, s) /\ Total(B, s) \in Int
      BY <3>2, KeptMeans DEF Total
    <3>10. \A s \in AllTags :
             Total(R, s) = Total(B, s) + (IF s = t THEN 0 ELSE 0) + (IF s = Mgr THEN 0 ELSE 0)
      BY <3>9
    <3>11. R.overflow = B.overflow + (-1) - 0
      BY <1>3, <3>2
    <3>12. Effect(B, R, t, -1, 0, 0)
      BY <3>2, <3>3, <3>10, <3>11 DEF Effect, SameTags
    <3> QED BY <3>8, <3>12
  <2> QED BY <2>2, <2>3
<1> QED BY <1>4, <1>5

LEMMA MgrTag == Mgr \in AllTags
BY DEF AllTags

(* Growing the expansion table gives it entries without a tag.             *)
LEMMA GrownEffect ==
  ASSUME NEW B, Kept(B), OwnsFirst(B), NEW R, R = Grown(B),
         NEW t \in AllTags, Place(B, t) = 0
  PROVE  /\ Kept(R) /\ SameState(B, R) /\ SameTags(B, R) /\ Place(R, t) # 0
         /\ R.expansion # <<>>
         /\ TotalMoves(B, R, Mgr, IF B.expansion = <<>> THEN 1 ELSE 0)
<1>1. PICK G0 : G0 = [B EXCEPT !.expansion = @ \o [i \in 1..PageEntries |-> Unused]]
  OBVIOUS
<1>2. PICK G : G = RegisterLocked(G0)
  OBVIOUS
<1>3. R = IF B.expansion = <<>> THEN G ELSE UnregisterAllocationTag(G, Mgr)
  BY <1>1, <1>2 DEF Grown
<1>4. PICK E \in Seq(TagEntries) : E = B.expansion
  BY KeptMeans
<1>5. PICK n \in Nat \ {0} : n = PageEntries
  BY TrackingAssumption
<1>6. PICK F : F = E \o [i \in 1..n |-> Unused]
  OBVIOUS
<1>7. TagOnce(E) /\ CountsZero(E) /\ InOrder(E)
  BY <1>4, KeptMeans
<1>8. /\ F \in Seq(TagEntries) /\ Len(F) = Len(E) + n /\ TagOnce(F) /\ CountsZero(F)
      /\ \A i \in DOMAIN E : F[i] = E[i]
      /\ \A i \in DOMAIN F : i \in DOMAIN E \/ F[i] = Unused
      /\ \A s \in AllTags : CountOf(F, s) = CountOf(E, s)
  BY <1>6, <1>7, MoreCounts
<1>9. InOrder(F)
  <2> SUFFICES ASSUME NEW i \in DOMAIN F, NEW j \in DOMAIN F, j < i, F[i].tag \in AllTags
               PROVE  F[j].tag \notin {F[i].tag, NoTag}
    BY DEF InOrder
  <2>1. F[i] # Unused
    BY TrackingAssumption DEF Unused
  <2>2. i \in DOMAIN E /\ F[i] = E[i]
    BY <1>8, <2>1
  <2>3. j \in DOMAIN E /\ F[j] = E[j]
    <3>1. PICK l \in Nat : l = Len(E) /\ DOMAIN E = 1..l
      BY LenProperties
    <3>2. j \in 1..(l + n) /\ i \in 1..l
      BY <1>8, <2>2, <3>1, LenProperties
    <3>3. j \in 1..l
      BY <3>2
    <3> QED BY <1>8, <3>1, <3>3
  <2> QED BY <1>7, <2>2, <2>3 DEF InOrder
<1>10. G0 = [B EXCEPT !.expansion = F]
  BY <1>1, <1>4, <1>5, <1>6, KeptMeans DEF BookTypes, Kept
<1>11. /\ G0 \in BookTypes /\ G0.expansion = F /\ G0.main = B.main /\ SameState(B, G0)
  BY <1>8, <1>10 DEF BookTypes, Kept, SameState
<1>12. Kept(G0)
  BY <1>8, <1>9, <1>11 DEF Kept
<1>13. Suits(G0, Mgr, 0)
  BY <1>11, <1>12, OwnFits, MgrTag, TrackingAssumption DEF OwnsFirst
<1>14. Probes(G0, Mgr) # {} /\ FirstProbe(G0, Mgr) = 0
  BY <1>13, FirstFits
<1>15. G = CountMain(G0, Slot(Mgr, 0), Mgr, 1)
  BY <1>2, <1>11, <1>14 DEF RegisterLocked, OwnsFirst
<1>16. /\ Kept(G) /\ G.expansion = F /\ SameState(G0, G) /\ SameTags(G0, G)
       /\ G.main[Slot(Mgr, 0)].tag = Mgr /\ TotalMoves(G0, G, Mgr, 1)
  BY <1>11, <1>12, <1>13, <1>15, MainCounted, MgrTag
<1>17. \A s \in AllTags : Total(G0, s) = Total(B, s) /\ Total(B, s) \in Int
  BY <1>4, <1>8, <1>11, KeptMeans DEF Total
<1>18. \A s \in AllTags : Total(G, s) = Total(B, s) + (IF s = Mgr THEN 1 ELSE 0)
  BY <1>16, <1>17 DEF TotalMoves
<1>19. SameState(B, G) /\ SameTags(B, G)
  BY <1>11, <1>16 DEF SameState, SameTags
<1>20. /\ Kept(R) /\ R.expansion = F /\ SameState(B, R) /\ SameTags(B, R)
       /\ TotalMoves(B, R, Mgr, IF B.expansion = <<>> THEN 1 ELSE 0)
  <2>1. CASE B.expansion = <<>>
    BY <1>3, <1>16, <1>18, <1>19, <2>1 DEF TotalMoves
  <2>2. CASE B.expansion # <<>>
    <3>1. PICK at : at = {k \in 0..Mask : G.main[Slot(Mgr, k)].tag = Mgr}
      OBVIOUS
    <3>2. 0 \in at /\ at \in SUBSET Nat
      BY <1>16, <3>1, TrackingAssumption
    <3>3. \E k \in at : \A j \in at : k <= j
      BY <3>2, LeastNumber
    <3>4. PICK k \in at : k = Min(at)
      BY <3>3 DEF Min
    <3>5. k \in 0..Mask /\ Suits(G, Mgr, k)
      BY <1>16, <3>1, OwnFits, MgrTag
    <3>6. R = CountMain(G, Slot(Mgr, k), Mgr, -1)
      BY <1>3, <2>2, <3>1, <3>2, <3>4 DEF UnregisterAllocationTag
    <3>7. /\ Kept(R) /\ R.expansion = F /\ SameState(G, R) /\ SameTags(G, R)
          /\ TotalMoves(G, R, Mgr, -1)
      <4>1. -1 \in Int
        OBVIOUS
      <4> QED BY <1>16, <3>5, <3>6, <4>1, MainCounted, MgrTag
    <3>8. SameState(B, R) /\ SameTags(B, R)
      BY <1>19, <3>7 DEF SameState, SameTags
    <3>9. \A s \in AllTags : Total(R, s) = Total(B, s) + (IF s = Mgr THEN 0 ELSE 0)
      <4> SUFFICES ASSUME NEW s \in AllTags
                   PROVE  Total(R, s) = Total(B, s) + (IF s = Mgr THEN 0 ELSE 0)
        OBVIOUS
      <4>1. Total(R, s) = Total(G, s) + (IF s = Mgr THEN -1 ELSE 0)
        BY <3>7 DEF TotalMoves
      <4>2. Total(G, s) = Total(B, s) + (IF s = Mgr THEN 1 ELSE 0) /\ Total(B, s) \in Int
        BY <1>17, <1>18
      <4> QED BY <4>1, <4>2
    <3> QED BY <2>2, <3>7, <3>8, <3>9 DEF TotalMoves
  <2> QED BY <2>1, <2>2
<1>21. F # <<>>
  BY <1>5, <1>8, LenProperties
<1>22. Place(R, t) # 0
  <2> SUFFICES ASSUME Place(R, t) = 0 PROVE FALSE
    OBVIOUS
  <2>1. \A i \in DOMAIN F : F[i].tag \notin {t, NoTag}
    BY <1>8, <1>20, PlaceIs
  <2>2. PICK l \in Nat : l = Len(E) /\ DOMAIN E = 1..l
    BY LenProperties
  <2>3. l + 1 \in DOMAIN F /\ l + 1 \notin DOMAIN E
    BY <1>5, <1>8, <2>2, LenProperties
  <2>4. F[l + 1] = Unused
    BY <1>8, <2>3
  <2> QED BY <2>1, <2>3, <2>4 DEF Unused
<1> QED BY <1>20, <1>21, <1>22

LEMMA EffectsCompose ==
  ASSUME NEW B, Kept(B), NEW C, Kept(C), NEW R, NEW t \in AllTags, NEW page \in {0, 1},
         SameState(B, C), SameTags(B, C), TotalMoves(B, C, Mgr, page),
         page = (IF B.expansion = <<>> /\ C.expansion # <<>> THEN 1 ELSE 0),
         B.expansion # <<>> => C.expansion # <<>>,
         Effect(C, R, t, 1, 1, 0)
  PROVE  Effect(B, R, t, 1, 1, page)
<1>1. B.overflow \in Int /\ \A s \in AllTags : Total(B, s) \in Int
  BY KeptMeans
<1>2. \A s \in AllTags :
        Total(R, s) = Total(B, s) + (IF s = t THEN 1 ELSE 0) + (IF s = Mgr THEN page ELSE 0)
  <2> SUFFICES ASSUME NEW s \in AllTags
               PROVE  Total(R, s) = Total(B, s) + (IF s = t THEN 1 ELSE 0) + (IF s = Mgr THEN page ELSE 0)
    OBVIOUS
  <2>1. Total(C, s) = Total(B, s) + (IF s = Mgr THEN page ELSE 0) /\ Total(B, s) \in Int
    BY <1>1 DEF TotalMoves
  <2>2. Total(R, s) = Total(C, s) + (IF s = t THEN 1 ELSE 0) + (IF s = Mgr THEN 0 ELSE 0)
    BY DEF Effect
  <2> QED BY <2>1, <2>2
<1>3. /\ Kept(R) /\ R.stuck = B.stuck /\ SameTags(B, R)
      /\ B.overflowing => R.overflowing
  BY DEF Effect, SameState, SameTags
<1>4. R.overflow = B.overflow + 1 - 1
  BY DEF Effect, SameState
<1>5. /\ page = (IF B.expansion = <<>> /\ R.expansion # <<>> THEN 1 ELSE 0)
      /\ B.expansion # <<>> => R.expansion # <<>>
  <2>1. C.expansion # <<>> => R.expansion # <<>>
    BY DEF Effect
  <2>2. C.expansion = <<>> => R.expansion = <<>>
    BY DEF Effect
  <2> QED BY <2>1, <2>2
<1> QED BY <1>2, <1>3, <1>4, <1>5 DEF Effect

LEMMA RegisterExpansionEffect ==
  ASSUME NEW B, Kept(B), OwnsFirst(B), NEW t \in AllTags, NEW grow,
         NEW R, R = RegisterAllocationTagExpansion(B, t, grow)
  PROVE  \E into \in {0, 1}, page \in {0, 1} :
           Effect(B, R, t, 1, into, page) /\ (into = 0 => R.overflowing)
<1>1. B \in BookTypes /\ B.overflow \in Int /\ 1 \in Int
  BY KeptMeans DEF Kept
<1>2. CASE Place(B, t) # 0
  <2>1. R = CountExpansion(B, t, 1)
    BY <1>2 DEF RegisterAllocationTagExpansion
  <2>2. /\ Kept(R) /\ R.main = B.main /\ SameState(B, R)
        /\ (R.expansion = <<>>) = (B.expansion = <<>>) /\ TotalMoves(B, R, t, 1)
    BY <1>1, <1>2, <2>1, ExpansionCounted
  <2>3. Effect(B, R, t, 1, 1, 0)
    BY <1>1, <2>2, PlainEffect DEF SameTags
  <2> QED BY <2>3
<1>3. CASE Place(B, t) = 0 /\ (B.overflowing \/ ~grow \/ Len(B.expansion) >= MaxExpansion)
  <2>1. R = [B EXCEPT !.overflowing = TRUE, !.overflow = @ + 1]
    BY <1>3 DEF RegisterAllocationTagExpansion
  <2>2. /\ R \in BookTypes /\ R.main = B.main /\ R.expansion = B.expansion
        /\ R.overflow = B.overflow + 1 /\ R.overflowing /\ R.stuck = B.stuck
    <3>1. PICK b \in Int : b = B.overflow + 1
      BY <1>1
    <3>2. PICK C : C = [B EXCEPT !.overflowing = TRUE]
      OBVIOUS
    <3>3. /\ C \in BookTypes /\ C.main = B.main /\ C.expansion = B.expansion
          /\ C.overflow = B.overflow /\ C.overflowing /\ C.stuck = B.stuck
      BY <1>1, <3>2 DEF BookTypes
    <3>4. R = [C EXCEPT !.overflow = b]
      BY <2>1, <3>1, <3>2, <3>3
    <3> QED BY <3>1, <3>3, <3>4 DEF BookTypes
  <2>3. Kept(R)
    BY <2>2 DEF Kept
  <2>4. \A s \in AllTags : Total(R, s) = Total(B, s) /\ Total(B, s) \in Int
    BY <2>2, KeptMeans DEF Total
  <2>5. \A s \in AllTags :
          Total(R, s) = Total(B, s) + (IF s = t THEN 0 ELSE 0) + (IF s = Mgr THEN 0 ELSE 0)
    BY <2>4
  <2>6. Effect(B, R, t, 1, 0, 0)
    BY <1>1, <2>2, <2>3, <2>5 DEF Effect, SameTags
  <2> QED BY <2>2, <2>6
<1>4. CASE Place(B, t) = 0 /\ ~(B.overflowing \/ ~grow \/ Len(B.expansion) >= MaxExpansion)
  <2>1. PICK C : C = Grown(B)
    OBVIOUS
  <2>2. R = CountExpansion(C, t, 1)
    BY <1>4, <2>1 DEF RegisterAllocationTagExpansion
  <2>3. PICK page \in {0, 1} : page = IF B.expansion = <<>> THEN 1 ELSE 0
    OBVIOUS
  <2>4. /\ Kept(C) /\ SameState(B, C) /\ SameTags(B, C) /\ Place(C, t) # 0
        /\ C.expansion # <<>> /\ TotalMoves(B, C, Mgr, page)
    BY <1>4, <2>1, <2>3, GrownEffect
  <2>5. /\ Kept(R) /\ R.main = C.main /\ SameState(C, R)
        /\ (R.expansion = <<>>) = (C.expansion = <<>>) /\ TotalMoves(C, R, t, 1)
    BY <1>1, <2>2, <2>4, ExpansionCounted
  <2>6. Effect(C, R, t, 1, 1, 0)
    BY <1>1, <2>4, <2>5, PlainEffect DEF SameTags
  <2>7. page = (IF B.expansion = <<>> /\ C.expansion # <<>> THEN 1 ELSE 0)
    BY <2>3, <2>4
  <2>8. Effect(B, R, t, 1, 1, page)
    BY <2>4, <2>6, <2>7, EffectsCompose
  <2> QED BY <2>8
<1> QED BY <1>2, <1>3, <1>4

(* Mgr's first registration gives it the slot probed first.                *)
LEMMA RegisterEffect ==
  ASSUME NEW B, Kept(B), NEW t \in AllTags, NEW grow,
         OwnsFirst(B) \/ (t = Mgr /\ B.main[Slot(Mgr, 0)].tag = NoTag),
         NEW R, R = RegisterAllocationTag(B, t, grow)
  PROVE  /\ OwnsFirst(R)
         /\ \E into \in {0, 1}, page \in {0, 1} :
              Effect(B, R, t, 1, into, page) /\ (into = 0 => R.overflowing)
<1>0. 0 \in 0..Mask /\ Slot(Mgr, 0) \in 0..Mask
  BY MgrTag, SlotIs, TrackingAssumption
<1>1. 0 \in Int /\ 1 \in Int
  OBVIOUS
<1>2. \A C : SameTags(B, C) /\ OwnsFirst(B) => OwnsFirst(C)
  BY <1>0, MgrTag DEF SameTags, OwnsFirst
<1>3. CASE Probes(B, t) = {}
  <2>1. R = RegisterAllocationTagExpansion(B, t, grow)
    BY <1>3 DEF RegisterAllocationTag
  <2>2. OwnsFirst(B)
    <3> SUFFICES ASSUME t = Mgr, B.main[Slot(Mgr, 0)].tag = NoTag PROVE FALSE
      OBVIOUS
    <3>1. 0 \in Probes(B, t)
      BY <1>0 DEF Probes
    <3> QED BY <1>3, <3>1
  <2>3. \E into \in {0, 1}, page \in {0, 1} :
          Effect(B, R, t, 1, into, page) /\ (into = 0 => R.overflowing)
    BY <2>1, <2>2, RegisterExpansionEffect
  <2> QED BY <1>2, <2>2, <2>3 DEF Effect
<1>4. CASE Probes(B, t) # {}
  <2>1. PICK k : k = FirstProbe(B, t) /\ Suits(B, t, k)
    BY <1>4, FirstFits
  <2>2. PICK h : h = Slot(t, k)
    OBVIOUS
  <2>3. CASE k = 0 /\ B.main[h].tag = NoTag
    <3>1. PICK C : C = CountMain(B, h, t, 0)
      OBVIOUS
    <3>2. R = RegisterAllocationTagExpansion(C, t, grow)
      BY <1>4, <2>1, <2>2, <2>3, <3>1 DEF RegisterAllocationTag
    <3>3. /\ Kept(C) /\ C.expansion = B.expansion /\ SameState(B, C) /\ SameTags(B, C)
          /\ C.main[h].tag = t /\ TotalMoves(B, C, t, 0)
      BY <1>1, <2>1, <2>2, <3>1, MainCounted
    <3>4. OwnsFirst(C)
      BY <1>2, <2>2, <2>3, <3>3 DEF OwnsFirst
    <3>5. PICK into \in {0, 1}, page \in {0, 1} :
            Effect(C, R, t, 1, into, page) /\ (into = 0 => R.overflowing)
      BY <3>2, <3>3, <3>4, RegisterExpansionEffect
    <3>6. \A s \in AllTags : Total(C, s) = Total(B, s) /\ Total(B, s) \in Int
      <4>1. \A s \in AllTags : Total(B, s) \in Int
        BY KeptMeans
      <4> QED BY <3>3, <4>1 DEF TotalMoves
    <3>7. Effect(B, R, t, 1, into, page)
      BY <3>3, <3>5, <3>6 DEF Effect, SameState, SameTags
    <3>8. OwnsFirst(R)
      BY <1>0, <3>4, <3>5, MgrTag DEF Effect, SameTags, OwnsFirst
    <3> QED BY <3>5, <3>7, <3>8
  <2>4. CASE ~(k = 0 /\ B.main[h].tag = NoTag)
    <3>1. R = CountMain(B, h, t, 1)
      BY <1>4, <2>1, <2>2, <2>4 DEF RegisterAllocationTag
    <3>2. /\ Kept(R) /\ R.expansion = B.expansion /\ SameState(B, R) /\ SameTags(B, R)
          /\ TotalMoves(B, R, t, 1)
      BY <1>1, <2>1, <2>2, <3>1, MainCounted
    <3>3. Effect(B, R, t, 1, 1, 0)
      BY <1>1, <3>2, PlainEffect
    <3>4. OwnsFirst(B)
      <4> SUFFICES ASSUME t = Mgr, B.main[Slot(Mgr, 0)].tag = NoTag PROVE FALSE
        OBVIOUS
      <4>1. Suits(B, t, 0)
        BY <1>0 DEF Suits
      <4>2. k = 0
        BY <2>1, <4>1, FirstFits
      <4> QED BY <2>2, <2>4, <4>2
    <3> QED BY <1>2, <3>2, <3>3, <3>4
  <2> QED BY <2>3, <2>4
<1> QED BY <1>3, <1>4

(* Freeing the table of big allocations and registering the new one, Mgr's *)
(* both, leaves the books as they are.                                     *)
LEMMA ExpandingBalances ==
  ASSUME NEW B, Kept(B), OwnsFirst(B), NEW grow
  PROVE  ExpandedBooks(B, grow) = B
<1>0. 0 \in 0..Mask /\ Slot(Mgr, 0) \in 0..Mask /\ 1 \in Int /\ -1 \in Int
  BY MgrTag, SlotIs, TrackingAssumption
<1>1. PICK h \in 0..Mask : h = Slot(Mgr, 0)
  BY <1>0
<1>2. PICK C : C = UnregisterAllocationTag(B, Mgr)
  OBVIOUS
<1>3. C = CountMain(B, h, Mgr, -1)
  <2>1. PICK at : at = {k \in 0..Mask : B.main[Slot(Mgr, k)].tag = Mgr}
    OBVIOUS
  <2>2. 0 \in at /\ \A k \in at : 0 <= k /\ k \in 0..Mask
    BY <1>0, <2>1, TrackingAssumption DEF OwnsFirst
  <2>3. \A k \in at : (\A j \in at : k <= j) => k = 0
    <3> SUFFICES ASSUME NEW k \in at, \A j \in at : k <= j PROVE k = 0
      OBVIOUS
    <3>1. k <= 0 /\ 0 <= k /\ k \in 0..Mask
      BY <2>2
    <3> QED BY <3>1
  <2>4. Min(at) = 0
    BY <2>2, <2>3 DEF Min
  <2> QED BY <1>1, <1>2, <2>1, <2>2, <2>4 DEF UnregisterAllocationTag
<1>4. Suits(B, Mgr, 0)
  BY <1>0, OwnFits, MgrTag DEF OwnsFirst
<1>5. /\ Kept(C) /\ C.expansion = B.expansion /\ SameState(B, C)
      /\ C.main[h].tag = Mgr
  BY <1>0, <1>1, <1>3, <1>4, MainCounted, MgrTag
<1>6. B \in BookTypes /\ C \in BookTypes
  BY <1>5 DEF Kept
<1>7. /\ C.main[h].count = B.main[h].count + (-1)
      /\ \A g \in 0..Mask : g # h => C.main[g] = B.main[g]
  <2>1. Mgr \in AllTags
    BY MgrTag
  <2>2. PICK d \in Int : d = -1
    BY <1>0
  <2>3. C = CountMain(B, h, Mgr, d)
    BY <1>3, <2>2
  <2>4. /\ C.main[h].count = B.main[h].count + d
        /\ \A g \in 0..Mask : g # h => C.main[g] = B.main[g]
    BY <1>6, <2>1, <2>3, MainFields
  <2> QED BY <2>2, <2>4
<1>8. Suits(C, Mgr, 0)
  BY <1>0, <1>1, <1>5, OwnFits, MgrTag
<1>9. Probes(C, Mgr) # {} /\ FirstProbe(C, Mgr) = 0
  BY <1>8, FirstFits
<1>10. C.main[h].tag # NoTag
  BY <1>5, MgrTag, TrackingAssumption
<1>11. PICK R : R = RegisterAllocationTag(C, Mgr, grow)
  OBVIOUS
<1>12. R = CountMain(C, h, Mgr, 1)
  BY <1>1, <1>9, <1>10, <1>11 DEF RegisterAllocationTag
<1>13. /\ R \in BookTypes /\ R.expansion = C.expansion /\ SameState(C, R)
       /\ R.main[h].tag = Mgr /\ R.main[h].count = C.main[h].count + 1
       /\ \A g \in 0..Mask : g # h => R.main[g] = C.main[g]
  <2>1. Mgr \in AllTags
    BY MgrTag
  <2>2. PICK d \in Int : d = 1
    BY <1>0
  <2>3. R = CountMain(C, h, Mgr, d)
    BY <1>12, <2>2
  <2>4. /\ R \in BookTypes /\ R.expansion = C.expansion /\ SameState(C, R)
        /\ R.main[h].tag = Mgr /\ R.main[h].count = C.main[h].count + d
        /\ \A g \in 0..Mask : g # h => R.main[g] = C.main[g]
    BY <1>6, <2>1, <2>3, MainFields
  <2> QED BY <2>2, <2>4
<1>14. PICK M \in [0..Mask -> TagEntries], N \in [0..Mask -> TagEntries] : M = B.main /\ N = R.main
  BY <1>6, <1>13 DEF BookTypes
<1>15. M[h] = N[h]
  <2>1. M[h].tag = Mgr /\ N[h].tag = Mgr
    BY <1>1, <1>13, <1>14 DEF OwnsFirst
  <2>2. M[h] \in TagEntries /\ N[h] \in TagEntries
    OBVIOUS
  <2>3. N[h].count = (M[h].count + (-1)) + 1 /\ M[h].count \in Int
    BY <1>7, <1>13, <1>14, <2>2 DEF TagEntries
  <2>4. N[h].count = M[h].count
    BY <2>3
  <2> QED BY <2>1, <2>2, <2>4 DEF TagEntries
<1>16. M = N
  <2>1. \A g \in 0..Mask : M[g] = N[g]
    BY <1>7, <1>13, <1>14, <1>15
  <2>2. M = [g \in 0..Mask |-> M[g]] /\ N = [g \in 0..Mask |-> N[g]]
    BY <1>14
  <2> QED BY <2>1, <2>2
<1>17. R = B
  <2>1. R.main = B.main /\ R.expansion = B.expansion
    BY <1>5, <1>13, <1>14, <1>16
  <2>2. R.overflow = B.overflow /\ R.overflowing = B.overflowing /\ R.stuck = B.stuck
    BY <1>5, <1>13 DEF SameState
  <2> QED BY <1>6, <1>13, <2>1, <2>2 DEF BookTypes
<1> QED BY <1>2, <1>11, <1>17 DEF ExpandedBooks

-----------------------------------------------------------------------------
(* The table of big allocations: what it holds, each once.                 *)
BigEntry == [address : Pages, tag : Tags] \cup {Vacant}
Contents(T) == {T[i] : i \in DOMAIN T} \ {Vacant}
Distinct(T) == \A i, j \in DOMAIN T : T[i] = T[j] /\ T[i] # Vacant => i = j
Sound(T) == T \in Seq(BigEntry) /\ Distinct(T)

LEMMA AddressOfEntry ==
  /\ Vacant.address = NoPage /\ NoPage = -1
  /\ \A e \in BigEntry : e # Vacant => e \in [address : Pages, tag : Tags] /\ e.address \in Nat
BY TrackingAssumption DEF BigEntry, Vacant, NoPage

(* The probes for an address go through all entries.                       *)
LEMMA BigSlotsCover ==
  ASSUME NEW T \in Seq(BigEntry), Len(T) # 0, NEW a \in Nat
  PROVE  /\ \A k \in 0..(Len(T) - 1) : BigSlot(T, a, k) \in DOMAIN T
         /\ \A i \in DOMAIN T : \E k \in 0..(Len(T) - 1) : BigSlot(T, a, k) = i
<1>1. PICK n \in Nat \ {0} : n = Len(T) /\ DOMAIN T = 1..n
  BY LenProperties
<1>2. PICK q \in Int, r \in 0..(n - 1) : a = n * q + r
  <2>1. a \in Int
    OBVIOUS
  <2>2. n \in Nat \ {0}
    BY <1>1
  <2> QED BY <2>1, <2>2, QuotientRest
<1>3. ASSUME NEW k \in 0..(n - 1)
      PROVE  (a + k) % n = IF r + k < n THEN r + k ELSE r + k - n
  <2>1. CASE r + k < n
    <3>1. PICK b \in 0..(n - 1) : b = r + k
      BY <1>2, <2>1
    <3>2. PICK c \in Int : c = a + k /\ c = n * q + b
      <4>1. PICK m \in Int : m = n * q
        BY <1>1, <1>2
      <4> QED BY <1>2, <3>1, <4>1
    <3>3. c % n = b
      BY <3>2, RestIs
    <3> QED BY <2>1, <3>1, <3>2, <3>3
  <2>2. CASE ~(r + k < n)
    <3>1. PICK b \in 0..(n - 1) : b = r + k - n
      BY <1>1, <1>2, <2>2
    <3>2. PICK p \in Int : p = q + 1
      BY <1>2
    <3>3. n * p = n * q + n
      BY <1>1, <1>2, <3>2
    <3>4. PICK c \in Int : c = a + k /\ c = n * p + b
      <4>1. PICK m \in Int, w \in Int : m = n * q /\ w = n * p
        BY <1>1, <1>2
      <4>2. a = m + r /\ w = m + n
        BY <1>2, <3>3, <4>1
      <4>3. a + k \in Int /\ a + k = w + b
        BY <1>1, <1>2, <3>1, <4>2
      <4> QED BY <4>1, <4>3
    <3>5. c % n = b
      BY <3>4, RestIs
    <3> QED BY <2>2, <3>1, <3>4, <3>5
  <2> QED BY <2>1, <2>2
<1>4. \A k \in 0..(n - 1) : BigSlot(T, a, k) = 1 + ((a + k) % n)
  BY <1>1 DEF BigSlot
<1>5. \A k \in 0..(n - 1) : BigSlot(T, a, k) \in 1..n
  <2> SUFFICES ASSUME NEW k \in 0..(n - 1) PROVE BigSlot(T, a, k) \in 1..n
    OBVIOUS
  <2>1. PICK m \in Int : m = (a + k) % n /\ m = IF r + k < n THEN r + k ELSE r + k - n
    BY <1>1, <1>2, <1>3
  <2>2. m \in 0..(n - 1)
    BY <1>1, <1>2, <2>1
  <2> QED BY <1>4, <2>1, <2>2
<1>6. ASSUME NEW i \in 1..n PROVE \E k \in 0..(n - 1) : BigSlot(T, a, k) = i
  <2>1. CASE r <= i - 1
    <3>1. PICK k \in 0..(n - 1) : k = i - 1 - r
      BY <1>2, <2>1
    <3>2. r + k < n /\ r + k = i - 1
      BY <1>2, <3>1
    <3>3. (a + k) % n = i - 1
      BY <1>3, <3>2
    <3>4. BigSlot(T, a, k) = 1 + (i - 1)
      BY <1>4, <3>3
    <3> QED BY <3>4
  <2>2. CASE ~(r <= i - 1)
    <3>1. PICK k \in 0..(n - 1) : k = i - 1 - r + n
      BY <1>2, <2>2
    <3>2. ~(r + k < n) /\ r + k - n = i - 1
      BY <1>2, <3>1
    <3>3. (a + k) % n = i - 1
      BY <1>3, <3>2
    <3>4. BigSlot(T, a, k) = 1 + (i - 1)
      BY <1>4, <3>3
    <3> QED BY <3>4
  <2> QED BY <2>1, <2>2
<1> QED BY <1>1, <1>5, <1>6

LEMMA RoomFound ==
  ASSUME NEW T \in Seq(BigEntry), NEW a \in Nat, NEW i \in DOMAIN T, T[i] = Vacant
  PROVE  FreeProbes(T, a) # {}
<1>1. Len(T) # 0
  BY LenProperties
<1>2. PICK k \in 0..(Len(T) - 1) : BigSlot(T, a, k) = i
  BY <1>1, BigSlotsCover
<1> QED BY <1>2 DEF FreeProbes

LEMMA InsertAdds ==
  ASSUME NEW T, Sound(T), NEW e \in BigEntry, e # Vacant, e \notin Contents(T),
         FreeProbes(T, e.address) # {}, NEW R, R = Insert(T, e)
  PROVE  Sound(R) /\ Len(R) = Len(T) /\ Contents(R) = Contents(T) \cup {e}
<1>1. T \in Seq(BigEntry) /\ Distinct(T) /\ e.address \in Nat
  BY AddressOfEntry DEF Sound
<1>2. PICK P : P = FreeProbes(T, e.address)
  OBVIOUS
<1>3. P # {} /\ P \in SUBSET Nat
  <2>1. Len(T) \in Nat
    BY <1>1, LenProperties
  <2> QED BY <1>2, <2>1 DEF FreeProbes
<1>4. PICK k \in P : k = Min(P)
  <2>1. \E k \in P : \A j \in P : k <= j
    BY <1>3, LeastNumber
  <2> QED BY <2>1 DEF Min
<1>5. k \in 0..(Len(T) - 1) /\ T[BigSlot(T, e.address, k)] = Vacant /\ Len(T) # 0
  BY <1>1, <1>2, LenProperties DEF FreeProbes
<1>6. PICK i \in DOMAIN T : i = BigSlot(T, e.address, k)
  BY <1>1, <1>5, BigSlotsCover
<1>7. R = [T EXCEPT ![i] = e]
  BY <1>2, <1>4, <1>6 DEF Insert
<1>8. R \in Seq(BigEntry) /\ Len(R) = Len(T) /\ DOMAIN R = DOMAIN T
  <2>1. i \in 1..Len(T)
    BY <1>1, LenProperties
  <2>2. R \in Seq(BigEntry) /\ Len(R) = Len(T)
    BY <1>1, <1>7, <2>1, ExceptSeq
  <2> QED BY <1>7, <2>2
<1>9. R[i] = e /\ T[i] = Vacant /\ \A j \in DOMAIN T : j # i => R[j] = T[j]
  BY <1>5, <1>6, <1>7
<1>10. \A j \in DOMAIN T : j # i => R[j] # e
  BY <1>9 DEF Contents
<1>11. Distinct(R)
  <2> SUFFICES ASSUME NEW j \in DOMAIN T, NEW l \in DOMAIN T, R[j] = R[l], R[j] # Vacant PROVE j = l
    BY <1>8 DEF Distinct
  <2>1. CASE j = i \/ l = i
    BY <1>9, <1>10, <2>1
  <2>2. CASE j # i /\ l # i
    BY <1>1, <1>9, <2>2 DEF Distinct
  <2> QED BY <2>1, <2>2
<1>12. Contents(R) = Contents(T) \cup {e}
  <2>1. ASSUME NEW x \in Contents(R) PROVE x \in Contents(T) \cup {e}
    <3>1. PICK j \in DOMAIN T : x = R[j] /\ x # Vacant
      BY <1>8, <2>1 DEF Contents
    <3> QED BY <1>9, <3>1 DEF Contents
  <2>2. ASSUME NEW x \in Contents(T) PROVE x \in Contents(R)
    <3>1. PICK j \in DOMAIN T : x = T[j] /\ x # Vacant
      BY <2>2 DEF Contents
    <3>2. j # i
      BY <1>9, <3>1
    <3> QED BY <1>8, <1>9, <3>1, <3>2 DEF Contents
  <2>3. e \in Contents(R)
    BY <1>8, <1>9 DEF Contents
  <2> QED BY <2>1, <2>2, <2>3
<1> QED BY <1>8, <1>11, <1>12 DEF Sound

(* As many entries are used as there are contents; one is free if they are *)
(* fewer than the entries.                                                 *)
LEMMA UsedEntries ==
  ASSUME NEW T, Sound(T)
  PROVE  /\ IsFiniteSet(Contents(T)) /\ Cardinality(Contents(T)) \in Nat
         /\ Cardinality({i \in DOMAIN T : T[i] # Vacant}) = Cardinality(Contents(T))
         /\ Cardinality(Contents(T)) < Len(T) => \E i \in DOMAIN T : T[i] = Vacant
<1>1. T \in Seq(BigEntry) /\ Distinct(T)
  BY DEF Sound
<1>2. PICK n \in Nat : n = Len(T) /\ DOMAIN T = 1..n
  BY <1>1, LenProperties
<1>3. IsFiniteSet(1..n) /\ Cardinality(1..n) = n
  <2>1. IsFiniteSet(1..n) /\ Cardinality(1..n) = IF 1 > n THEN 0 ELSE n - 1 + 1
    BY FS_Interval
  <2> QED BY <2>1
<1>4. PICK U : U = {i \in DOMAIN T : T[i] # Vacant}
  OBVIOUS
<1>5. IsFiniteSet(U) /\ (Cardinality(U) = n => U = 1..n) /\ U \subseteq 1..n
  BY <1>2, <1>3, <1>4, FS_Subset
<1>6. PICK f : f = [i \in U |-> T[i]]
  OBVIOUS
<1>7. f \in Surjection(U, Contents(T)) /\ f \in Injection(U, Contents(T))
  <2>0. DOMAIN f = U
    BY <1>6
  <2>1. f \in [U -> Contents(T)]
    BY <1>4, <1>6 DEF Contents
  <2>2. \A x \in Contents(T) : \E i \in U : f[i] = x
    BY <1>4, <1>6 DEF Contents
  <2>3. \A i, j \in U : f[i] = f[j] => i = j
    BY <1>1, <1>4, <1>6 DEF Distinct
  <2> QED BY <2>0, <2>1, <2>2, <2>3 DEF Surjection, Injection, IsInjective
<1>8. IsFiniteSet(Contents(T)) /\ Cardinality(Contents(T)) = Cardinality(U)
  BY <1>5, <1>7, FS_Surjection
<1>9. Cardinality(Contents(T)) \in Nat
  BY <1>8, FS_CardinalityType
<1>10. ASSUME Cardinality(Contents(T)) < n PROVE \E i \in DOMAIN T : T[i] = Vacant
  <2>1. U # 1..n
    BY <1>3, <1>8, <1>10
  <2> QED BY <1>2, <1>4, <2>1
<1> QED BY <1>2, <1>4, <1>8, <1>9, <1>10

(* Rehashing a table enters its contents into one of twice the size.       *)
LEMMA InsertType ==
  ASSUME NEW T \in Seq(BigEntry), NEW e \in BigEntry
  PROVE  Insert(T, e) \in Seq(BigEntry)
<1>1. PICK i : i = BigSlot(T, e.address, Min(FreeProbes(T, e.address)))
  OBVIOUS
<1>2. PICK n \in Nat : n = Len(T) /\ DOMAIN T = 1..n
  BY LenProperties
<1>3. T \in [1..n -> BigEntry]
  BY <1>2, ElementOfSeq, LenProperties
<1>4. [T EXCEPT ![i] = e] \in [1..n -> BigEntry]
  BY <1>3
<1>5. [T EXCEPT ![i] = e] \in Seq(BigEntry)
  BY <1>2, <1>4, SeqDef
<1> QED BY <1>1, <1>5 DEF Insert

LEMMA RehashedIs ==
  ASSUME NEW T, Sound(T), Len(T) # 0, NEW R, R = Rehashed(T)
  PROVE  Sound(R) /\ Len(R) = 2 * Len(T) /\ Contents(R) = Contents(T)
<1>1. T \in Seq(BigEntry) /\ Distinct(T)
  BY DEF Sound
<1>2. PICK n \in Nat : n = Len(T) /\ DOMAIN T = 1..n /\ n # 0
  BY <1>1, LenProperties
<1>3. PICK S : S = DOMAIN T
  OBVIOUS
<1>4. IsFiniteSet(S) /\ Cardinality(S) = n
  <2>1. IsFiniteSet(1..n) /\ Cardinality(1..n) = IF 1 > n THEN 0 ELSE n - 1 + 1
    BY FS_Interval
  <2> QED BY <1>2, <1>3, <2>1
<1>5. PICK base : base = [i \in 1..(2 * Len(T)) |-> Vacant]
  OBVIOUS
<1>6. PICK m \in Nat : m = 2 * Len(T) /\ m = n + n
  BY <1>2
<1>7. base \in Seq(BigEntry) /\ Len(base) = m /\ DOMAIN base = 1..m /\ \A i \in 1..m : base[i] = Vacant
  <2>1. Vacant \in BigEntry
    BY DEF BigEntry
  <2>2. base = [i \in 1..m |-> Vacant]
    BY <1>5, <1>6
  <2>3. base \in [1..m -> BigEntry]
    BY <2>1, <2>2
  <2>4. base \in Seq(BigEntry)
    BY <2>3, SeqDef
  <2>5. DOMAIN base = 1..m /\ DOMAIN base = 1..Len(base) /\ Len(base) \in Nat
    BY <2>2, <2>4, LenProperties
  <2>6. Len(base) = m
    <3>1. PICK l \in Nat : l = Len(base) /\ 1..m = 1..l
      BY <2>5
    <3>2. l \in 1..l <=> l # 0
      BY <3>1
    <3>3. m \in 1..m <=> m # 0
      BY <1>6
    <3> QED BY <3>1, <3>2, <3>3
  <2> QED BY <2>2, <2>4, <2>5, <2>6
<1> DEFINE IsIt(g) == g = [s \in SUBSET S |->
             IF s = {} THEN base
             ELSE IF T[CHOOSE x \in s : TRUE] = Vacant THEN g[s \ {CHOOSE x \in s : TRUE}]
             ELSE Insert(g[s \ {CHOOSE x \in s : TRUE}], T[CHOOSE x \in s : TRUE])]
           it == CHOOSE g : IsIt(g)
<1>8. R = it[S]
  BY <1>3, <1>5 DEF Rehashed, FoldSeq, FoldFunction, FoldFunctionOnSet, MapThenFoldSet
<1>9. PICK Op : Op = [i \in S |-> [N \in Seq(BigEntry) |-> IF T[i] = Vacant THEN N ELSE Insert(N, T[i])]]
  OBVIOUS
<1>10. \A i \in S : T[i] \in BigEntry
  BY <1>1, <1>3, ElementOfSeq, LenProperties
<1>11. Op \in [S -> [Seq(BigEntry) -> Seq(BigEntry)]]
  BY <1>9, <1>10, InsertType
<1>12. PICK h : FoldOf(h, S, base, Op)
  BY <1>4, <1>7, <1>11, FoldExists, Zenon
<1>13. h \in [SUBSET S -> Seq(BigEntry)]
  BY <1>4, <1>7, <1>11, <1>12, FoldIn, Zenon
<1>14. ASSUME NEW s \in SUBSET S
       PROVE  h[s] = IF s = {} THEN base
             ELSE IF T[CHOOSE x \in s : TRUE] = Vacant THEN h[s \ {CHOOSE x \in s : TRUE}]
             ELSE Insert(h[s \ {CHOOSE x \in s : TRUE}], T[CHOOSE x \in s : TRUE])
  <2>1. CASE s = {}
    BY <1>12, <2>1 DEF FoldOf
  <2>2. CASE s # {}
    <3>1. PICK c : c = CHOOSE x \in s : TRUE
      OBVIOUS
    <3>2. Chosen(s) = c /\ Others(s) = s \ {c} /\ c \in S /\ s \ {c} \in SUBSET S
      BY <1>4, <2>2, <3>1, RestSmaller DEF Chosen, Others
    <3>3. h[s] = Op[c][h[s \ {c}]]
      BY <1>12, <2>2, <3>2 DEF FoldOf
    <3>4. h[s \ {c}] \in Seq(BigEntry)
      BY <1>13, <3>2
    <3>5. h[s] = IF T[c] = Vacant THEN h[s \ {c}] ELSE Insert(h[s \ {c}], T[c])
      BY <1>9, <3>2, <3>3, <3>4
    <3> QED BY <2>2, <3>1, <3>5
  <2> QED BY <2>1, <2>2
<1>15. IsIt(h)
  BY <1>13, <1>14
<1> HIDE DEF IsIt
<1>16. IsIt(it)
  BY <1>15, Zenon
<1>17. PICK g : g = it
  OBVIOUS
<1>18. /\ g[{}] = base
       /\ \A s \in SUBSET S : s # {} =>
            g[s] = IF T[Chosen(s)] = Vacant THEN g[Others(s)] ELSE Insert(g[Others(s)], T[Chosen(s)])
  <2>1. g = [s \in SUBSET S |->
             IF s = {} THEN base
             ELSE IF T[Chosen(s)] = Vacant THEN g[Others(s)] ELSE Insert(g[Others(s)], T[Chosen(s)])]
    <3>1. IsIt(g)
      BY <1>16, <1>17
    <3> QED BY <3>1 DEF IsIt, Chosen, Others
  <2>2. {} \in SUBSET S /\ g[{}] = base
    BY <2>1
  <2>3. ASSUME NEW s \in SUBSET S, s # {}
        PROVE  g[s] = IF T[Chosen(s)] = Vacant THEN g[Others(s)] ELSE Insert(g[Others(s)], T[Chosen(s)])
    BY <2>1, <2>3
  <2> QED BY <2>2, <2>3
<1> DEFINE EntriesOf(s) == {T[i] : i \in s} \ {Vacant}
<1>19. PICK P : P = {s \in SUBSET S : Sound(g[s]) /\ Len(g[s]) = m /\ Contents(g[s]) = EntriesOf(s)}
  OBVIOUS
<1>20. {} \in P
  <2>1. Contents(base) = {}
    BY <1>7 DEF Contents
  <2>2. Distinct(base)
    BY <1>7 DEF Distinct
  <2> QED BY <1>7, <1>18, <1>19, <2>1, <2>2 DEF Sound
<1>21. ASSUME NEW s \in SUBSET S, s # {}, Others(s) \in P PROVE s \in P
  <2>0. PICK N : N = g[Others(s)]
    OBVIOUS
  <2>1. PICK c \in S, r \in SUBSET S : /\ c = Chosen(s) /\ c \in s /\ r = Others(s) /\ r = s \ {c}
                                       /\ N = g[r]
    BY <1>4, <1>21, <2>0, RestSmaller DEF Others
  <2>2. Sound(N) /\ Len(N) = m /\ Contents(N) = EntriesOf(r)
    BY <1>19, <1>21, <2>1
  <2>3. EntriesOf(s) = IF T[c] = Vacant THEN EntriesOf(r) ELSE EntriesOf(r) \cup {T[c]}
    BY <2>1
  <2>4. CASE T[c] = Vacant
    BY <1>18, <1>19, <1>21, <2>1, <2>2, <2>3, <2>4
  <2>5. CASE T[c] # Vacant
    <3>1. PICK e \in BigEntry : e = T[c] /\ e # Vacant /\ e.address \in Nat
      BY <1>10, <2>1, <2>5, AddressOfEntry
    <3>2. e \notin Contents(N)
      <4>1. \A i \in r : i \in DOMAIN T /\ c \in DOMAIN T /\ i # c
        BY <1>3, <2>1
      <4>2. \A i \in r : T[i] # e
        BY <1>1, <3>1, <4>1 DEF Distinct
      <4> QED BY <2>2, <4>2
    <3>3. Cardinality(Contents(N)) < Len(N)
      <4>1. IsFiniteSet(r) /\ Cardinality(r) \in Nat /\ Cardinality(r) <= n
        BY <1>4, FS_Subset, FS_CardinalityType
      <4>2. IsFiniteSet({T[i] : i \in r}) /\ Cardinality({T[i] : i \in r}) <= Cardinality(r)
        <5>1. PICK I : I = {T[i] : i \in r}
          OBVIOUS
        <5>2. PICK f : f = [i \in r |-> T[i]]
          OBVIOUS
        <5>3. f \in [r -> I] /\ \A x \in I : \E i \in r : f[i] = x
          BY <5>1, <5>2
        <5>4. f \in Surjection(r, I)
          BY <5>3 DEF Surjection
        <5>5. IsFiniteSet(I) /\ Cardinality(I) <= Cardinality(r)
          BY <4>1, <5>4, FS_Surjection
        <5> QED BY <5>1, <5>5
      <4>3. Cardinality(EntriesOf(r)) <= Cardinality({T[i] : i \in r}) /\ Cardinality({T[i] : i \in r}) \in Nat
        BY <4>2, FS_Subset, FS_CardinalityType
      <4>4. Cardinality(Contents(N)) \in Nat
        BY <2>2, UsedEntries
      <4>5. Cardinality(Contents(N)) = Cardinality(EntriesOf(r))
        BY <2>2
      <4> HIDE DEF EntriesOf
      <4> QED BY <1>2, <1>6, <2>2, <4>1, <4>2, <4>3, <4>4, <4>5
    <3>4. \E i \in DOMAIN N : N[i] = Vacant
      BY <2>2, <3>3, UsedEntries
    <3>5. FreeProbes(N, e.address) # {}
      BY <2>2, <3>1, <3>4, RoomFound DEF Sound
    <3>6. PICK Q : Q = Insert(N, e)
      OBVIOUS
    <3>7. Sound(Q) /\ Len(Q) = Len(N) /\ Contents(Q) = Contents(N) \cup {e}
      BY <2>2, <3>1, <3>2, <3>5, <3>6, InsertAdds
    <3>8. g[s] = Q
      BY <1>18, <1>21, <2>1, <2>5, <3>1, <3>6
    <3>9. Contents(Q) = EntriesOf(s)
      BY <2>2, <2>3, <2>5, <3>1, <3>7
    <3> HIDE DEF EntriesOf
    <3> QED BY <1>19, <2>2, <3>7, <3>8, <3>9
  <2> QED BY <2>4, <2>5
<1>22. SUBSET S \subseteq P
  BY <1>4, <1>20, <1>21, RestInduction
<1>23. S \in P
  BY <1>22
<1>24. Sound(g[S]) /\ Len(g[S]) = m /\ Contents(g[S]) = EntriesOf(S)
  BY <1>19, <1>23
<1>25. EntriesOf(S) = Contents(T)
  BY <1>3 DEF Contents
<1> QED BY <1>6, <1>8, <1>17, <1>24, <1>25

-----------------------------------------------------------------------------
(* What is owed to the tags: the pages charged to them (C) and blocks (m), *)
(* and to Mgr the table of big allocations, and the expansion table if     *)
(* there is one (B).                                                       *)
Owning(C, m, t) == Cardinality({a \in Pages : C[a] = t}) + (IF t \in Tags THEN m[t] ELSE 0)
Tables(B, t) == IF t = Mgr THEN (IF B.expansion = <<>> THEN 1 ELSE 2) ELSE 0
Owed(B, C, m) == [t \in AllTags |-> Owning(C, m, t) + Tables(B, t)]
Totals(B) == [t \in AllTags |-> Total(B, t)]
Balanced(B, owed) ==
  /\ ~B.overflowing => \A t \in AllTags : Total(B, t) = owed[t]
  /\ \E v \in Int : Sums(Totals(B), AllTags, v) /\ Sums(owed, AllTags, B.overflow + v)
Owing(C, m) == C \in [Pages -> Tags \cup {BigA, NoTag}] /\ m \in [Tags -> Nat]

LEMMA AllTagsFinite == IsFiniteSet(AllTags)
<1>1. IsFiniteSet(Tags \cup {Mgr}) /\ IsFiniteSet((Tags \cup {Mgr}) \cup {BigA})
  BY FS_AddElement, TrackingAssumption
<1>2. (Tags \cup {Mgr}) \cup {BigA} = AllTags
  BY DEF AllTags
<1> QED BY <1>1, <1>2

LEMMA HeldType ==
  ASSUME NEW C, NEW m, Owing(C, m), NEW t \in AllTags
  PROVE  /\ Owning(C, m, t) \in Nat
         /\ \A a \in Pages : C[a] = t => Owning(C, m, t) > 0
         /\ t \in Tags /\ m[t] > 0 => Owning(C, m, t) > 0
<1>1. PICK S : S = {a \in Pages : C[a] = t}
  OBVIOUS
<1>2. IsFiniteSet(S) /\ Cardinality(S) \in Nat /\ (Cardinality(S) = 0 <=> S = {})
  BY <1>1, FS_Subset, FS_CardinalityType, FS_EmptySet, TrackingAssumption
<1>3. PICK n \in Nat : n = (IF t \in Tags THEN m[t] ELSE 0)
  BY DEF Owing
<1>4. Owning(C, m, t) = Cardinality(S) + n
  BY <1>1, <1>3 DEF Owning
<1>5. Owning(C, m, t) \in Nat
  BY <1>2, <1>4
<1>6. (\E a \in Pages : C[a] = t) => Cardinality(S) # 0
  BY <1>1, <1>2
<1>7. t \in Tags /\ m[t] > 0 => n > 0
  BY <1>3
<1> QED BY <1>2, <1>4, <1>5, <1>6, <1>7

LEMMA OwedType ==
  ASSUME NEW B, NEW C, NEW m, Owing(C, m)
  PROVE  Owed(B, C, m) \in [AllTags -> Int] /\ \A t \in AllTags : Owed(B, C, m)[t] >= Owning(C, m, t)
<1>1. \A t \in AllTags : Owning(C, m, t) \in Nat /\ Tables(B, t) \in 0..2
  BY HeldType DEF Tables
<1> HIDE DEF Owning, Tables
<1> QED BY <1>1 DEF Owed

LEMMA ChangedAt ==
  ASSUME NEW F \in [AllTags -> Int], NEW x \in AllTags, NEW d \in Int
  PROVE  /\ Changed(F, x, d) \in [AllTags -> Int]
         /\ \A s \in AllTags : Changed(F, x, d)[s] = F[s] + (IF s = x THEN d ELSE 0)
<1>1. PICK G : G = [F EXCEPT ![x] = F[x] + d]
  OBVIOUS
<1>2. G \in [AllTags -> Int]
  BY <1>1
<1>3. ASSUME NEW s \in AllTags PROVE G[s] = F[s] + (IF s = x THEN d ELSE 0)
  <2>1. F[s] \in Int
    OBVIOUS
  <2> QED BY <1>1, <2>1
<1> QED BY <1>1, <1>2, <1>3 DEF Changed

More(s, x, d) == IF s = x THEN d ELSE 0
ChangesTwice(F, t, d, u, page, G) ==
  /\ F \in [AllTags -> Int] /\ t \in AllTags /\ d \in Int /\ u \in AllTags /\ page \in Int
  /\ G = Changed(Changed(F, t, d), u, page)

LEMMA ChangedTwice ==
  ASSUME NEW F, NEW t, NEW d, NEW u, NEW page, NEW G, ChangesTwice(F, t, d, u, page, G)
  PROVE  /\ G \in [AllTags -> Int]
         /\ \A s \in AllTags : G[s] = F[s] + More(s, t, d) + More(s, u, page)
<1>1. PICK H : H = Changed(F, t, d)
  OBVIOUS
<1>2. /\ F \in [AllTags -> Int] /\ t \in AllTags /\ d \in Int /\ u \in AllTags /\ page \in Int
      /\ G = Changed(H, u, page)
  BY <1>1 DEF ChangesTwice
<1>3. H \in [AllTags -> Int] /\ \A s \in AllTags : H[s] = F[s] + (IF s = t THEN d ELSE 0)
  <2>1. PICK E \in [AllTags -> Int], x \in AllTags, e \in Int : E = F /\ x = t /\ e = d
    BY <1>2
  <2>2. /\ Changed(E, x, e) \in [AllTags -> Int]
        /\ \A s \in AllTags : Changed(E, x, e)[s] = E[s] + (IF s = x THEN e ELSE 0)
    BY ChangedAt
  <2> QED BY <1>1, <2>1, <2>2
<1>4. /\ G \in [AllTags -> Int]
      /\ \A s \in AllTags : G[s] = H[s] + (IF s = u THEN page ELSE 0)
  <2>1. PICK E \in [AllTags -> Int], x \in AllTags, e \in Int : E = H /\ x = u /\ e = page
    BY <1>2, <1>3
  <2>2. /\ Changed(E, x, e) \in [AllTags -> Int]
        /\ \A s \in AllTags : Changed(E, x, e)[s] = E[s] + (IF s = x THEN e ELSE 0)
    BY ChangedAt
  <2> QED BY <1>2, <2>1, <2>2
<1>5. ASSUME NEW s \in AllTags
      PROVE  G[s] = F[s] + (IF s = t THEN d ELSE 0) + (IF s = u THEN page ELSE 0)
  <2>1. PICK f \in Int, h \in Int : f = F[s] /\ h = H[s]
    BY <1>2, <1>3
  <2>2. h = f + (IF s = t THEN d ELSE 0) /\ G[s] = h + (IF s = u THEN page ELSE 0)
    BY <1>3, <1>4, <2>1
  <2> QED BY <1>2, <2>1, <2>2
<1> QED BY <1>4, <1>5 DEF More

LEMMA SumsMove ==
  ASSUME NEW F \in [AllTags -> Int], NEW x \in AllTags, NEW d \in Int,
         NEW v, Sums(F, AllTags, v)
  PROVE  v \in Int /\ Sums(Changed(F, x, d), AllTags, v + d)
<1>1. Changed(F, x, d) \in [AllTags -> Int]
  BY ChangedAt
<1>2. PICK w \in Int : Sums(Changed(F, x, d), AllTags, w)
  BY <1>1, AllTagsFinite, SumsExist
<1>3. v \in Int /\ w = v + d
  <2>1. PICK G : G = Changed(F, x, d)
    OBVIOUS
  <2>2. IsFiniteSet(AllTags) /\ Sums(G, AllTags, w)
    BY <1>2, <2>1, AllTagsFinite
  <2>3. \A a, b : Sums(F, AllTags, a) /\ Sums(Changed(F, x, d), AllTags, b) => a \in Int /\ b = a + d
    BY <2>2, SumsChange, SMTT(20)
  <2> QED BY <1>2, <2>3, Zenon
<1> QED BY <1>2, <1>3

(* What is done to the books and what is owed stay in balance.             *)
LEMMA BooksBalance ==
  ASSUME NEW B, Kept(B), NEW owed \in [AllTags -> Int], Balanced(B, owed),
         NEW R, NEW t \in AllTags, NEW d \in Int, NEW into \in Int, NEW page \in Int, page \in {0, 1},
         Effect(B, R, t, d, into, page),
         into = d \/ R.overflowing \/ (owed[t] > 0 /\ Total(B, t) = 0)
  PROVE  Balanced(R, Changed(Changed(owed, t, d), Mgr, page))
<1>1. Mgr \in AllTags /\ page \in Int
  BY MgrTag
<1>2. PICK o1 : o1 = Changed(owed, t, d)
  OBVIOUS
<1>3. PICK o2 : o2 = Changed(o1, Mgr, page)
  OBVIOUS
<1>4. PICK v \in Int : Sums(Totals(B), AllTags, v) /\ Sums(owed, AllTags, B.overflow + v)
  BY DEF Balanced
<1>5. o1 \in [AllTags -> Int] /\ Sums(o1, AllTags, (B.overflow + v) + d)
  BY <1>2, <1>4, ChangedAt, SumsMove
<1>6. o2 \in [AllTags -> Int] /\ Sums(o2, AllTags, ((B.overflow + v) + d) + page)
  <2>1. PICK w \in Int : w = (B.overflow + v) + d /\ Sums(o1, AllTags, w)
    BY <1>5, KeptMeans
  <2>2. o2 \in [AllTags -> Int] /\ Sums(o2, AllTags, w + page)
    BY <1>1, <1>3, <1>5, <2>1, ChangedAt, SumsMove
  <2> QED BY <2>1, <2>2
<1>7. Totals(B) \in [AllTags -> Int] /\ \A s \in AllTags : Total(B, s) \in Int
  BY KeptMeans DEF Totals
<1>8. PICK T1 : T1 = Changed(Totals(B), t, into)
  OBVIOUS
<1>9. T1 \in [AllTags -> Int] /\ Sums(T1, AllTags, v + into)
  BY <1>4, <1>7, <1>8, ChangedAt, SumsMove
<1>10. PICK T2 : T2 = Changed(T1, Mgr, page)
  OBVIOUS
<1>11. T2 \in [AllTags -> Int] /\ Sums(T2, AllTags, (v + into) + page)
  BY <1>1, <1>9, <1>10, ChangedAt, SumsMove
<1>12. \A s \in AllTags :
         Total(R, s) = Total(B, s) + (IF s = t THEN into ELSE 0) + (IF s = Mgr THEN page ELSE 0)
  BY DEF Effect
<1>13. Totals(R) = T2
  <2>1. ASSUME NEW s \in AllTags PROVE Total(R, s) = T2[s]
    <3>1. PICK n \in Int : n = Total(B, s)
      BY <1>7
    <3>2. T1[s] = n + (IF s = t THEN into ELSE 0)
      BY <1>7, <1>8, <3>1 DEF Changed, Totals
    <3>3. T2[s] = T1[s] + (IF s = Mgr THEN page ELSE 0)
      BY <1>1, <1>9, <1>10 DEF Changed
    <3>4. Total(R, s) = n + (IF s = t THEN into ELSE 0) + (IF s = Mgr THEN page ELSE 0)
      BY <1>12, <3>1
    <3> QED BY <3>2, <3>3, <3>4
  <2> QED BY <1>11, <2>1 DEF Totals
<1>14. PICK f \in Int, g \in Int : f = B.overflow /\ g = R.overflow /\ g = f + d - into
  BY KeptMeans DEF Effect
<1>15. g + ((v + into) + page) = ((f + v) + d) + page /\ (v + into) + page \in Int
  BY <1>1, <1>14
<1>16. \E u \in Int : Sums(Totals(R), AllTags, u) /\ Sums(o2, AllTags, R.overflow + u)
  BY <1>6, <1>11, <1>13, <1>14, <1>15
<1>17. ASSUME ~R.overflowing, NEW s \in AllTags PROVE Total(R, s) = o2[s]
  <2>1. ~B.overflowing
    BY <1>17 DEF Effect
  <2>2. \A z \in AllTags : Total(B, z) = owed[z]
    BY <2>1 DEF Balanced
  <2>3. into = d
    <3>1. Total(B, t) = owed[t] /\ owed[t] \in Int
      BY <2>2
    <3> QED BY <1>17, <3>1
  <2>4. PICK n \in Int : n = owed[s] /\ n = Total(B, s)
    BY <2>2
  <2>5. o2[s] = n + (IF s = t THEN d ELSE 0) + (IF s = Mgr THEN page ELSE 0)
    <3>1. ChangesTwice(owed, t, d, Mgr, page, o2)
      BY <1>1, <1>2, <1>3 DEF ChangesTwice
    <3>2. o2[s] = owed[s] + More(s, t, d) + More(s, Mgr, page)
      BY <3>1, ChangedTwice
    <3> QED BY <2>4, <3>2 DEF More
  <2>7. Total(R, s) = n + (IF s = t THEN d ELSE 0) + (IF s = Mgr THEN page ELSE 0)
    BY <1>12, <2>3, <2>4
  <2> QED BY <2>5, <2>7
<1>18. Balanced(R, o2)
  BY <1>16, <1>17 DEF Balanced
<1> QED BY <1>2, <1>3, <1>18

(* What is owed changes as the books do.                                   *)
Moves(C, m, D, k, t, d) ==
  /\ Owing(C, m) /\ Owing(D, k) /\ t \in AllTags
  /\ \A s \in AllTags : Owning(D, k, s) = Owning(C, m, s) + (IF s = t THEN d ELSE 0)

BookMove(B, R, C, m, D, k, t, d, into, page) ==
  /\ Moves(C, m, D, k, t, d) /\ d \in Int /\ page \in Int /\ page \in {0, 1}
  /\ Effect(B, R, t, d, into, page)

LEMMA OwedMoves ==
  ASSUME NEW B, NEW R, NEW C, NEW m, NEW D, NEW k, NEW t, NEW d, NEW into, NEW page,
         BookMove(B, R, C, m, D, k, t, d, into, page)
  PROVE  Owed(R, D, k) = Changed(Changed(Owed(B, C, m), t, d), Mgr, page)
<1>0. /\ Owing(C, m) /\ Owing(D, k) /\ t \in AllTags
      /\ \A s \in AllTags : Owning(D, k, s) = Owning(C, m, s) + (IF s = t THEN d ELSE 0)
      /\ d \in Int /\ page \in Int /\ page \in {0, 1}
  BY DEF BookMove, Moves
<1>1. PICK o : o = Owed(B, C, m) /\ o \in [AllTags -> Int]
  BY <1>0, OwedType
<1>2. PICK o1 : o1 = Changed(o, t, d)
  OBVIOUS
<1>3. PICK o2 : o2 = Changed(o1, Mgr, page)
  OBVIOUS
<1>4. /\ o2 \in [AllTags -> Int]
      /\ \A s \in AllTags :
           o2[s] = o[s] + (IF s = t THEN d ELSE 0) + (IF s = Mgr THEN page ELSE 0)
  <2>1. Mgr \in AllTags
    BY MgrTag
  <2>2. ChangesTwice(o, t, d, Mgr, page, o2)
    BY <1>0, <1>1, <1>2, <1>3, <2>1 DEF ChangesTwice
  <2>3. /\ o2 \in [AllTags -> Int]
        /\ \A s \in AllTags : o2[s] = o[s] + More(s, t, d) + More(s, Mgr, page)
    BY <2>2, ChangedTwice
  <2> QED BY <1>0, <2>3 DEF More
<1>5. /\ page = (IF B.expansion = <<>> /\ R.expansion # <<>> THEN 1 ELSE 0)
      /\ B.expansion # <<>> => R.expansion # <<>>
  BY DEF BookMove, Effect
<1>6. ASSUME NEW s \in AllTags PROVE Owed(R, D, k)[s] = o2[s]
  <2>1. PICK n \in Nat, l \in Nat : n = Owning(C, m, s) /\ l = Owning(D, k, s)
    BY <1>0, HeldType
  <2>2. l = n + (IF s = t THEN d ELSE 0)
    BY <1>0, <2>1
  <2>3. o[s] = n + Tables(B, s)
    BY <1>1, <2>1 DEF Owed
  <2>4. Owed(R, D, k)[s] = l + Tables(R, s)
    BY <2>1 DEF Owed
  <2>5. PICK b \in Int, c \in Int :
          b = Tables(B, s) /\ c = Tables(R, s) /\ c = b + (IF s = Mgr THEN page ELSE 0)
    <3>1. CASE s = Mgr
      <4>1. PICK b \in {1, 2} : b = IF B.expansion = <<>> THEN 1 ELSE 2
        OBVIOUS
      <4>2. PICK c \in {1, 2} : c = IF R.expansion = <<>> THEN 1 ELSE 2
        OBVIOUS
      <4>3. c = b + page
        BY <1>0, <1>5, <4>1, <4>2
      <4> QED BY <3>1, <4>1, <4>2, <4>3 DEF Tables
    <3>2. CASE s # Mgr
      BY <3>2 DEF Tables
    <3> QED BY <3>1, <3>2
  <2>6. o2[s] = o[s] + (IF s = t THEN d ELSE 0) + (IF s = Mgr THEN page ELSE 0)
    BY <1>4
  <2>7. o[s] = n + b /\ Owed(R, D, k)[s] = l + c
    BY <2>3, <2>4, <2>5
  <2>8. PICK x \in Int, y \in Int : x = (IF s = t THEN d ELSE 0) /\ y = (IF s = Mgr THEN page ELSE 0)
    BY <1>0
  <2>9. l = n + x /\ c = b + y
    BY <2>2, <2>5, <2>8
  <2>10. PICK e \in Int : e = o[s] /\ e = n + b
    BY <2>7
  <2>11. o2[s] = e + x + y
    BY <2>6, <2>8, <2>10
  <2>12. e + x + y = l + c
    BY <2>9, <2>10
  <2> QED BY <2>7, <2>11, <2>12
<1>7. Owed(R, D, k) = o2
  <2>1. Owed(R, D, k) \in [AllTags -> Int]
    BY <1>0, OwedType
  <2>2. PICK w : w = Owed(R, D, k)
    OBVIOUS
  <2>3. w \in [AllTags -> Int] /\ \A s \in AllTags : w[s] = o2[s]
    BY <1>6, <2>1, <2>2
  <2>4. w = o2
    BY <1>4, <2>3
  <2> QED BY <2>2, <2>4
<1> QED BY <1>1, <1>2, <1>3, <1>7

(* A page that is charged, and one that no longer is.                      *)
Recharges(C, D, m, a, t) == Owing(C, m) /\ a \in Pages /\ D = [C EXCEPT ![a] = t]

LEMMA PageCharged ==
  ASSUME NEW C, NEW D, NEW m, NEW a, NEW t, Recharges(C, D, m, a, t),
         C[a] = NoTag, t \in Tags \cup {BigA}
  PROVE  /\ Owing(D, m) /\ t \in AllTags
         /\ \A s \in AllTags : Owning(D, m, s) = Owning(C, m, s) + (IF s = t THEN 1 ELSE 0)
<1>0. Owing(C, m) /\ a \in Pages /\ D = [C EXCEPT ![a] = t]
  BY DEF Recharges
<1>1. t \in AllTags /\ t # NoTag
  BY TrackingAssumption DEF AllTags
<1>2. Owing(D, m)
  BY <1>0 DEF Owing
<1>3. ASSUME NEW s \in AllTags
      PROVE  Owning(D, m, s) = Owning(C, m, s) + (IF s = t THEN 1 ELSE 0)
  <2>1. PICK S, Q : S = {x \in Pages : C[x] = s} /\ Q = {x \in Pages : D[x] = s}
    OBVIOUS
  <2>2. IsFiniteSet(S) /\ Cardinality(S) \in Nat
    BY <2>1, FS_Subset, FS_CardinalityType, TrackingAssumption
  <2>3. PICK n \in Nat : n = (IF s \in Tags THEN m[s] ELSE 0)
    BY <1>0 DEF Owing
  <2>4. Owning(C, m, s) = Cardinality(S) + n /\ Owning(D, m, s) = Cardinality(Q) + n
    BY <2>1, <2>3 DEF Owning
  <2>5. s # NoTag /\ a \notin S /\ \A x \in Pages : D[x] = IF x = a THEN t ELSE C[x]
    BY <1>0, <2>1, TrackingAssumption DEF Owing
  <2>6. Q = IF s = t THEN S \cup {a} ELSE S
    BY <1>0, <2>1, <2>5
  <2>7. Cardinality(Q) = Cardinality(S) + (IF s = t THEN 1 ELSE 0)
    <3>1. CASE s = t
      <4>1. Cardinality(S \cup {a}) = Cardinality(S) + 1
        BY <2>2, <2>5, FS_AddElement
      <4> QED BY <2>6, <3>1, <4>1
    <3>2. CASE s # t
      BY <2>2, <2>6, <3>2
    <3> QED BY <3>1, <3>2
  <2> QED BY <2>2, <2>4, <2>7
<1> QED BY <1>1, <1>2, <1>3

LEMMA PageReturned ==
  ASSUME NEW C, NEW D, NEW m, NEW a, Recharges(C, D, m, a, NoTag),
         C[a] # NoTag, NEW t, t = C[a]
  PROVE  /\ Owing(D, m) /\ t \in AllTags /\ Owning(C, m, t) > 0
         /\ \A s \in AllTags : Owning(D, m, s) = Owning(C, m, s) + (IF s = t THEN -1 ELSE 0)
<1>0. Owing(C, m) /\ a \in Pages /\ D = [C EXCEPT ![a] = NoTag]
  BY DEF Recharges
<1>1. t \in AllTags /\ t # NoTag
  BY <1>0, TrackingAssumption DEF AllTags, Owing
<1>2. Owing(D, m)
  BY <1>0 DEF Owing
<1>3. ASSUME NEW s \in AllTags
      PROVE  Owning(D, m, s) = Owning(C, m, s) + (IF s = t THEN -1 ELSE 0)
  <2>1. PICK S, Q : S = {x \in Pages : C[x] = s} /\ Q = {x \in Pages : D[x] = s}
    OBVIOUS
  <2>2. IsFiniteSet(S) /\ Cardinality(S) \in Nat
    BY <2>1, FS_Subset, FS_CardinalityType, TrackingAssumption
  <2>3. PICK n \in Nat : n = (IF s \in Tags THEN m[s] ELSE 0)
    BY <1>0 DEF Owing
  <2>4. Owning(C, m, s) = Cardinality(S) + n /\ Owning(D, m, s) = Cardinality(Q) + n
    BY <2>1, <2>3 DEF Owning
  <2>5. s # NoTag /\ (a \in S <=> s = t) /\ \A x \in Pages : D[x] = IF x = a THEN NoTag ELSE C[x]
    BY <1>0, <2>1, TrackingAssumption DEF Owing
  <2>6. Q = IF s = t THEN S \ {a} ELSE S
    BY <1>0, <2>1, <2>5
  <2>7. Cardinality(Q) = Cardinality(S) + (IF s = t THEN -1 ELSE 0)
    <3>1. CASE s = t
      BY <2>2, <2>5, <2>6, <3>1, FS_RemoveElement
    <3>2. CASE s # t
      BY <2>2, <2>6, <3>2
    <3> QED BY <3>1, <3>2
  <2>8. PICK q \in Int, c \in Int : q = Cardinality(Q) /\ c = Cardinality(S)
    BY <2>2, <2>7
  <2> QED BY <2>4, <2>7, <2>8
<1>4. Owning(C, m, t) > 0
  BY <1>0, <1>1, HeldType
<1> QED BY <1>1, <1>2, <1>3, <1>4

-----------------------------------------------------------------------------
(* The table of big allocations (T, u entries used) and the allocations.   *)
EntryOf(C, a) == [address |-> a, tag |-> C[a]]
Registered(C) == {EntryOf(C, a) : a \in {x \in Pages : C[x] \in Tags}}
TableExact(T, u, C) == Sound(T) /\ Contents(T) = Registered(C) /\ u = Cardinality(Contents(T))

LEMMA EntryIs ==
  ASSUME NEW C, NEW a \in Pages, C[a] \in Tags
  PROVE  /\ EntryOf(C, a) \in BigEntry /\ EntryOf(C, a) # Vacant
         /\ EntryOf(C, a).address = a /\ EntryOf(C, a).tag = C[a]
<1>1. EntryOf(C, a).address = a /\ EntryOf(C, a).tag = C[a]
  BY DEF EntryOf
<1>2. a # NoPage
  BY TrackingAssumption DEF NoPage
<1>3. EntryOf(C, a) # Vacant
  BY <1>1, <1>2, AddressOfEntry
<1> QED BY <1>1, <1>3 DEF EntryOf, BigEntry

LEMMA RegisteredIs ==
  ASSUME NEW C, NEW e
  PROVE  e \in Registered(C) <=> \E a \in Pages : C[a] \in Tags /\ e = EntryOf(C, a)
BY DEF Registered

LEMMA RegisteredGrows ==
  ASSUME NEW C, NEW D, NEW m, NEW a, NEW t, Recharges(C, D, m, a, t), C[a] = NoTag, t \in Tags
  PROVE  /\ D[a] = t /\ EntryOf(D, a) \notin Registered(C)
         /\ Registered(D) = Registered(C) \cup {EntryOf(D, a)}
<1>0. a \in Pages /\ t \in Tags
  BY DEF Recharges
<1>1. D[a] = t /\ \A x \in Pages : x # a => D[x] = C[x] /\ EntryOf(D, x) = EntryOf(C, x)
  BY DEF Recharges, Owing, EntryOf
<1>2. C[a] \notin Tags
  BY TrackingAssumption DEF AllTags
<1>3. EntryOf(D, a) \notin Registered(C)
  <2> SUFFICES ASSUME EntryOf(D, a) \in Registered(C) PROVE FALSE
    OBVIOUS
  <2>1. PICK x \in Pages : C[x] \in Tags /\ EntryOf(D, a) = EntryOf(C, x)
    BY RegisteredIs
  <2>2. EntryOf(C, x).address = x /\ D[a] \in Tags
    BY <1>0, <1>1, <2>1, EntryIs
  <2>3. EntryOf(D, a).address = a
    BY <1>0, <2>2, EntryIs
  <2>4. x = a
    BY <2>1, <2>2, <2>3
  <2> QED BY <1>2, <2>1, <2>4
<1>4. ASSUME NEW e PROVE e \in Registered(D) <=> e \in Registered(C) \/ e = EntryOf(D, a)
  <2>1. ASSUME e \in Registered(D) PROVE e \in Registered(C) \/ e = EntryOf(D, a)
    <3>1. PICK x \in Pages : D[x] \in Tags /\ e = EntryOf(D, x)
      BY <2>1, RegisteredIs
    <3>2. CASE x = a
      BY <3>1, <3>2
    <3>3. CASE x # a
      BY <1>1, <3>1, <3>3, RegisteredIs
    <3> QED BY <3>2, <3>3
  <2>2. ASSUME e \in Registered(C) PROVE e \in Registered(D)
    <3>1. PICK x \in Pages : C[x] \in Tags /\ e = EntryOf(C, x)
      BY <2>2, RegisteredIs
    <3>2. x # a
      BY <1>2, <3>1
    <3> QED BY <1>1, <3>1, <3>2, RegisteredIs
  <2>3. EntryOf(D, a) \in Registered(D)
    BY <1>0, <1>1, RegisteredIs
  <2> QED BY <2>1, <2>2, <2>3
<1> QED BY <1>1, <1>3, <1>4

LEMMA RegisteredSame ==
  ASSUME NEW C, NEW D, NEW m, NEW a, NEW t, Recharges(C, D, m, a, t), C[a] \notin Tags, t \notin Tags
  PROVE  Registered(D) = Registered(C)
<1>1. D[a] = t /\ \A x \in Pages : x # a => D[x] = C[x] /\ EntryOf(D, x) = EntryOf(C, x)
  BY DEF Recharges, Owing, EntryOf
<1>2. \A x \in Pages : (D[x] \in Tags <=> C[x] \in Tags) /\ (D[x] \in Tags => EntryOf(D, x) = EntryOf(C, x))
  BY <1>1
<1>3. ASSUME NEW e PROVE e \in Registered(D) <=> e \in Registered(C)
  <2>1. ASSUME e \in Registered(D) PROVE e \in Registered(C)
    <3>1. PICK x \in Pages : D[x] \in Tags /\ e = EntryOf(D, x)
      BY <2>1, RegisteredIs
    <3> QED BY <1>2, <3>1, RegisteredIs
  <2>2. ASSUME e \in Registered(C) PROVE e \in Registered(D)
    <3>1. PICK x \in Pages : C[x] \in Tags /\ e = EntryOf(C, x)
      BY <2>2, RegisteredIs
    <3> QED BY <1>2, <3>1, RegisteredIs
  <2> QED BY <2>1, <2>2
<1> QED BY <1>3

LEMMA RegisteredLess ==
  ASSUME NEW C, NEW D, NEW m, NEW a, Recharges(C, D, m, a, NoTag), C[a] \in Tags
  PROVE  /\ EntryOf(C, a) \in Registered(C)
         /\ Registered(D) = Registered(C) \ {EntryOf(C, a)}
<1>0. a \in Pages
  BY DEF Recharges
<1>1. D[a] = NoTag /\ \A x \in Pages : x # a => D[x] = C[x] /\ EntryOf(D, x) = EntryOf(C, x)
  BY DEF Recharges, Owing, EntryOf
<1>2. D[a] \notin Tags
  BY <1>1, TrackingAssumption DEF AllTags
<1>3. ASSUME NEW e PROVE e \in Registered(D) <=> e \in Registered(C) /\ e # EntryOf(C, a)
  <2>1. ASSUME e \in Registered(D) PROVE e \in Registered(C) /\ e # EntryOf(C, a)
    <3>1. PICK x \in Pages : D[x] \in Tags /\ e = EntryOf(D, x)
      BY <2>1, RegisteredIs
    <3>2. x # a /\ C[x] \in Tags /\ e = EntryOf(C, x)
      BY <1>1, <1>2, <3>1
    <3>3. e.address = x /\ EntryOf(C, a).address = a
      BY <1>0, <3>2, EntryIs
    <3> QED BY <3>2, <3>3, RegisteredIs
  <2>2. ASSUME e \in Registered(C), e # EntryOf(C, a) PROVE e \in Registered(D)
    <3>1. PICK x \in Pages : C[x] \in Tags /\ e = EntryOf(C, x)
      BY <2>2, RegisteredIs
    <3>2. x # a
      BY <2>2, <3>1
    <3> QED BY <1>1, <3>1, <3>2, RegisteredIs
  <2> QED BY <2>1, <2>2
<1>4. EntryOf(C, a) \in Registered(C)
  BY <1>0, RegisteredIs
<1> QED BY <1>3, <1>4

(* A new allocation is entered.                                            *)
LEMMA EntryAdded ==
  ASSUME NEW T, NEW u, NEW C, TableExact(T, u, C),
         NEW D, NEW m, NEW a, NEW t, Recharges(C, D, m, a, t), C[a] = NoTag, t \in Tags,
         FreeProbes(T, a) # {}, NEW R, R = Insert(T, [address |-> a, tag |-> t])
  PROVE  TableExact(R, u + 1, D) /\ Len(R) = Len(T)
<1>1. PICK e : e = EntryOf(D, a)
  OBVIOUS
<1>2. D[a] = t /\ e \notin Registered(C) /\ Registered(D) = Registered(C) \cup {e}
  <2> QED BY <1>1, RegisteredGrows
<1>3. e \in BigEntry /\ e # Vacant /\ e.address = a /\ e = [address |-> a, tag |-> t]
  BY <1>1, <1>2, EntryIs DEF EntryOf, Recharges
<1>4. Sound(T) /\ Contents(T) = Registered(C) /\ u = Cardinality(Contents(T))
  BY DEF TableExact
<1>5. Sound(R) /\ Len(R) = Len(T) /\ Contents(R) = Contents(T) \cup {e}
  BY <1>2, <1>3, <1>4, InsertAdds
<1>6. IsFiniteSet(Contents(T))
  BY <1>4, UsedEntries
<1>7. Cardinality(Contents(T) \cup {e}) = Cardinality(Contents(T)) + 1
  BY <1>2, <1>4, <1>6, FS_AddElement
<1> QED BY <1>2, <1>4, <1>5, <1>7 DEF TableExact

(* After rehashing there is room for any.                                  *)
LEMMA RehashedExact ==
  ASSUME NEW T, NEW u, NEW C, TableExact(T, u, C), Len(T) # 0, NEW R, R = Rehashed(T), NEW a \in Nat
  PROVE  TableExact(R, u, C) /\ Len(R) # 0 /\ FreeProbes(R, a) # {}
<1>1. Sound(T) /\ T \in Seq(BigEntry)
  BY DEF TableExact, Sound
<1>2. Sound(R) /\ Len(R) = 2 * Len(T) /\ Contents(R) = Contents(T)
  BY <1>1, RehashedIs
<1>3. PICK n \in Nat : n = Len(T) /\ n # 0
  BY <1>1, LenProperties
<1>4. PICK c \in Nat : c = Cardinality(Contents(T)) /\ c <= n
  <2>1. PICK S : S = {i \in DOMAIN T : T[i] # Vacant}
    OBVIOUS
  <2>2. IsFiniteSet(1..n) /\ Cardinality(1..n) = n
    <3>1. IsFiniteSet(1..n) /\ Cardinality(1..n) = IF 1 > n THEN 0 ELSE n - 1 + 1
      BY FS_Interval
    <3> QED BY <1>3, <3>1
  <2>3. S \subseteq 1..n
    BY <1>1, <1>3, <2>1, LenProperties
  <2>4. Cardinality(S) <= n
    BY <2>2, <2>3, FS_Subset
  <2> QED BY <1>1, <2>1, <2>4, UsedEntries
<1>5. Cardinality(Contents(R)) < Len(R) /\ Len(R) # 0
  BY <1>2, <1>3, <1>4
<1>6. \E i \in DOMAIN R : R[i] = Vacant
  BY <1>2, <1>5, UsedEntries
<1>7. FreeProbes(R, a) # {}
  BY <1>2, <1>6, RoomFound DEF Sound
<1> QED BY <1>2, <1>5, <1>7 DEF TableExact

(* The entry of an allocation, and its removal.                            *)
LEMMA EntryFound ==
  ASSUME NEW T, NEW u, NEW C, TableExact(T, u, C), NEW a \in Pages
  PROVE  /\ C[a] \in Tags => \E i \in DOMAIN T : T[i].address = a
         /\ \A i \in DOMAIN T : T[i].address = a =>
              C[a] \in Tags /\ T[i] = EntryOf(C, a) /\ T[i].tag = C[a] /\ T[i] # Vacant
<1>1. Contents(T) = Registered(C)
  BY DEF TableExact
<1>2. ASSUME C[a] \in Tags PROVE \E i \in DOMAIN T : T[i].address = a
  <2>1. EntryOf(C, a) \in Contents(T)
    BY <1>1, <1>2, RegisteredIs
  <2> QED BY <1>2, <2>1, EntryIs DEF Contents
<1>3. ASSUME NEW i \in DOMAIN T, T[i].address = a
      PROVE  C[a] \in Tags /\ T[i] = EntryOf(C, a) /\ T[i].tag = C[a] /\ T[i] # Vacant
  <2>1. a # NoPage
    BY TrackingAssumption DEF NoPage
  <2>2. T[i] # Vacant
    BY <1>3, <2>1, AddressOfEntry
  <2>3. T[i] \in Registered(C)
    BY <1>1, <2>2 DEF Contents
  <2>4. PICK x \in Pages : C[x] \in Tags /\ T[i] = EntryOf(C, x)
    BY <2>3, RegisteredIs
  <2>5. x = a
    BY <1>3, <2>4, EntryIs
  <2> QED BY <2>2, <2>4, <2>5, EntryIs
<1> QED BY <1>2, <1>3

Vacates(T, R, i, a) == i \in DOMAIN T /\ T[i].address = a /\ R = [T EXCEPT ![i] = Vacant]

LEMMA EntryRemoved ==
  ASSUME NEW T, NEW u, NEW C, TableExact(T, u, C),
         NEW D, NEW m, NEW a, Recharges(C, D, m, a, NoTag),
         NEW i, NEW R, Vacates(T, R, i, a)
  PROVE  TableExact(R, u - 1, D) /\ Len(R) = Len(T)
<1>0. i \in DOMAIN T /\ T[i].address = a /\ R = [T EXCEPT ![i] = Vacant]
  BY DEF Vacates
<1>1. C[a] \in Tags /\ T[i] = EntryOf(C, a) /\ T[i] # Vacant
  BY <1>0, EntryFound DEF Recharges
<1>2. PICK e : e = EntryOf(C, a)
  OBVIOUS
<1>3. e \in Registered(C) /\ Registered(D) = Registered(C) \ {e}
  BY <1>1, <1>2, RegisteredLess
<1>4. T \in Seq(BigEntry) /\ Distinct(T) /\ Contents(T) = Registered(C) /\ u = Cardinality(Contents(T))
  BY DEF TableExact, Sound
<1>5. R \in Seq(BigEntry) /\ Len(R) = Len(T) /\ DOMAIN R = DOMAIN T
  <2>1. i \in 1..Len(T) /\ Vacant \in BigEntry
    BY <1>0, <1>4, LenProperties DEF BigEntry
  <2>2. R \in Seq(BigEntry) /\ Len(R) = Len(T)
    BY <1>0, <1>4, <2>1, ExceptSeq
  <2> QED BY <1>0, <2>2
<1>6. R[i] = Vacant /\ \A j \in DOMAIN T : j # i => R[j] = T[j]
  BY <1>0
<1>7. Distinct(R)
  BY <1>4, <1>5, <1>6 DEF Distinct
<1>8. ASSUME NEW x PROVE x \in Contents(R) <=> x \in Contents(T) /\ x # e
  <2>1. ASSUME x \in Contents(R) PROVE x \in Contents(T) /\ x # e
    <3>1. PICK j \in DOMAIN T : x = R[j] /\ x # Vacant
      BY <1>5, <2>1 DEF Contents
    <3>2. j # i /\ x = T[j]
      BY <1>6, <3>1
    <3>3. x # T[i]
      BY <1>0, <1>4, <3>1, <3>2 DEF Distinct
    <3> QED BY <1>1, <1>2, <3>1, <3>2, <3>3 DEF Contents
  <2>2. ASSUME x \in Contents(T), x # e PROVE x \in Contents(R)
    <3>1. PICK j \in DOMAIN T : x = T[j] /\ x # Vacant
      BY <2>2 DEF Contents
    <3>2. j # i
      BY <1>1, <1>2, <2>2, <3>1
    <3> QED BY <1>5, <1>6, <3>1, <3>2 DEF Contents
  <2> QED BY <2>1, <2>2
<1>9. Contents(R) = Contents(T) \ {e}
  BY <1>8
<1>10. IsFiniteSet(Contents(T))
  BY UsedEntries DEF TableExact
<1>11. Cardinality(Contents(T) \ {e}) = Cardinality(Contents(T)) - 1
  <2>1. PICK S : S = Contents(T) /\ e \in S /\ IsFiniteSet(S)
    BY <1>3, <1>4, <1>10
  <2>2. Cardinality(S \ {e}) = Cardinality(S) - 1
    BY <2>1, FS_RemoveElement
  <2> QED BY <2>1, <2>2
<1> QED BY <1>3, <1>4, <1>5, <1>7, <1>9, <1>11 DEF TableExact, Sound

-----------------------------------------------------------------------------
(* The inductive invariant.                                                *)
TrackKept(B, T, u, C, m) ==
  /\ Kept(B) /\ ~B.stuck /\ Owing(C, m) /\ TableExact(T, u, C)
  /\ OwnsFirst(B) /\ Len(T) # 0
  /\ Balanced(B, Owed(B, C, m))

(* Before there is a table.                                                *)
Unowned(C, m) == [t \in AllTags |-> Owning(C, m, t)]
TrackFirst(B, T, u, C, m) ==
  /\ Kept(B) /\ ~B.stuck /\ Owing(C, m) /\ TableExact(T, u, C)
  /\ B.main[Slot(Mgr, 0)].tag = NoTag /\ B.expansion = <<>> /\ T = <<>>
  /\ Balanced(B, Unowned(C, m))

TrackInv ==
  /\ ready \in BOOLEAN
  /\ ready => TrackKept(books, big, inUse, charged, small)
  /\ ~ready => TrackFirst(books, big, inUse, charged, small)

LEMMA BooksStart ==
  ASSUME NEW B, B = [main |-> [h \in 0..Mask |-> Unused], expansion |-> <<>>,
                     overflow |-> 0, overflowing |-> FALSE, stuck |-> FALSE]
  PROVE  Kept(B) /\ \A t \in AllTags : Total(B, t) = 0
<1>1. Unused \in TagEntries /\ Unused.tag = NoTag /\ Unused.count = 0
  BY DEF Unused, TagEntries
<1>2. B.main = [h \in 0..Mask |-> Unused] /\ B.expansion = <<>>
  OBVIOUS
<1>3. B \in BookTypes
  BY <1>1, <1>2 DEF BookTypes
<1>4. \A h \in 0..Mask : B.main[h].tag = NoTag /\ B.main[h].count = 0
  BY <1>1, <1>2
<1>5. MainInOrder(B.main)
  <2>1. \A t \in AllTags : \A k \in 0..Mask : B.main[Slot(t, k)].tag # t
    BY <1>4, SlotIs, TrackingAssumption
  <2> QED BY <2>1 DEF MainInOrder
<1>6. CountsZero(B.main) /\ CountsZero(B.expansion) /\ InOrder(B.expansion)
  BY <1>2, <1>4 DEF CountsZero, InOrder
<1>7. ASSUME NEW t \in AllTags PROVE Total(B, t) = 0
  <2>1. CountOf(B.main, t) = 0
    BY <1>2, <1>4, NoCount, TrackingAssumption
  <2>2. CountOf(B.expansion, t) = 0
    BY <1>2, NoCount
  <2> QED BY <2>1, <2>2 DEF Total
<1> QED BY <1>3, <1>5, <1>6, <1>7 DEF Kept

(* A table in which nothing is entered yet.                                *)
LEMMA TableStarts ==
  ASSUME NEW n \in Nat, NEW T, T = [i \in 1..n |-> Vacant]
  PROVE  Sound(T) /\ Len(T) = n /\ Contents(T) = {} /\ Cardinality(Contents(T)) = 0
<1>1. Vacant \in BigEntry
  BY DEF BigEntry
<1>2. T \in [1..n -> BigEntry] /\ \A i \in DOMAIN T : T[i] = Vacant
  BY <1>1
<1>3. T \in Seq(BigEntry)
  BY <1>2, SeqDef
<1>4. Len(T) = n
  <2>1. PICK l \in Nat : l = Len(T) /\ 1..n = 1..l
    BY <1>2, <1>3, LenProperties
  <2>2. l \in 1..l <=> l # 0
    BY <2>1
  <2>3. n \in 1..n <=> n # 0
    OBVIOUS
  <2> QED BY <2>1, <2>2, <2>3
<1>5. Contents(T) = {} /\ Distinct(T)
  BY <1>2 DEF Contents, Distinct
<1>6. Cardinality({}) = 0
  BY FS_EmptySet
<1> QED BY <1>3, <1>4, <1>5, <1>6 DEF Sound

LEMMA TrackingStarts == TrackInit => TrackInv
<1> SUFFICES ASSUME TrackInit PROVE TrackInv
  OBVIOUS
<1>1. PICK B, C, m : B = books /\ C = charged /\ m = small
  OBVIOUS
<1>2. B = [main |-> [h \in 0..Mask |-> Unused], expansion |-> <<>>,
           overflow |-> 0, overflowing |-> FALSE, stuck |-> FALSE]
  BY <1>1 DEF TrackInit
<1>3. C = [a \in Pages |-> NoTag] /\ m = [t \in Tags |-> 0]
  BY <1>1 DEF TrackInit
<1>4. big = <<>> /\ inUse = 0 /\ ready = FALSE
  BY DEF TrackInit
<1>5. Kept(B) /\ \A t \in AllTags : Total(B, t) = 0
  BY <1>2, BooksStart
<1>6. ~B.stuck /\ ~B.overflowing /\ B.overflow = 0 /\ B.expansion = <<>>
  BY <1>2
<1>7. Owing(C, m)
  BY <1>3 DEF Owing
<1>8. B.main[Slot(Mgr, 0)].tag = NoTag
  <2>1. Slot(Mgr, 0) \in 0..Mask
    BY MgrTag, SlotIs, TrackingAssumption
  <2>2. B.main[Slot(Mgr, 0)] = Unused
    BY <1>2, <2>1
  <2> QED BY <2>2 DEF Unused
<1>9. TableExact(<<>>, 0, C)
  <2>1. <<>> = [i \in 1..0 |-> Vacant]
    OBVIOUS
  <2>2. Sound(<<>>) /\ Contents(<<>>) = {} /\ Cardinality(Contents(<<>>)) = 0
    BY <2>1, TableStarts
  <2>3. Registered(C) = {}
    <3>1. \A a \in Pages : C[a] \notin Tags
      BY <1>3, TrackingAssumption DEF AllTags
    <3> QED BY <3>1 DEF Registered
  <2> QED BY <2>2, <2>3 DEF TableExact
<1>10. PICK o : o = Unowned(C, m)
  OBVIOUS
<1>11. ASSUME NEW t \in AllTags PROVE o[t] = 0
  <2>1. {a \in Pages : C[a] = t} = {}
    BY <1>3, TrackingAssumption
  <2>2. Owning(C, m, t) = 0
    BY <1>3, <2>1, FS_EmptySet DEF Owning
  <2> QED BY <1>10, <2>2 DEF Unowned
<1>12. o = Totals(B)
  BY <1>5, <1>10, <1>11 DEF Unowned, Totals
<1>13. Balanced(B, o)
  <2>1. o \in [AllTags -> Int]
    BY <1>11, <1>10 DEF Unowned
  <2>2. PICK v \in Int : Sums(o, AllTags, v)
    BY <2>1, AllTagsFinite, SumsExist
  <2>3. B.overflow + v = v
    BY <1>6
  <2> QED BY <1>5, <1>11, <1>12, <2>2, <2>3 DEF Balanced
<1>14. TrackFirst(B, <<>>, 0, C, m)
  BY <1>5, <1>6, <1>7, <1>8, <1>9, <1>10, <1>13 DEF TrackFirst
<1> QED BY <1>1, <1>4, <1>14 DEF TrackInv

(* A step that registers an allocation, and one that unregisters one.      *)
LEMMA RegisteringKeeps ==
  ASSUME NEW B, NEW T, NEW u, NEW C, NEW m, TrackKept(B, T, u, C, m),
         NEW D, NEW k, NEW t, Moves(C, m, D, k, t, 1), NEW grow,
         NEW R, R = RegisterAllocationTag(B, t, grow),
         NEW S, NEW w, TableExact(S, w, D), Len(S) # 0
  PROVE  TrackKept(R, S, w, D, k)
<1>1. /\ Kept(B) /\ ~B.stuck /\ Owing(C, m) /\ OwnsFirst(B)
      /\ Balanced(B, Owed(B, C, m))
  BY DEF TrackKept
<1>2. /\ Owing(D, k) /\ t \in AllTags
      /\ \A s \in AllTags : Owning(D, k, s) = Owning(C, m, s) + (IF s = t THEN 1 ELSE 0)
  BY DEF Moves
<1>3. OwnsFirst(R) /\ \E into \in {0, 1}, page \in {0, 1} :
         Effect(B, R, t, 1, into, page) /\ (into = 0 => R.overflowing)
  BY <1>1, <1>2, RegisterEffect
<1>4. PICK into \in {0, 1}, page \in {0, 1} :
         Effect(B, R, t, 1, into, page) /\ (into = 0 => R.overflowing)
  BY <1>3
<1>5. PICK o \in [AllTags -> Int] : o = Owed(B, C, m)
  BY <1>1, OwedType
<1>6. PICK i \in Int, p \in Int, d \in Int : i = into /\ p = page /\ p \in {0, 1} /\ d = 1
  OBVIOUS
<1>7. Effect(B, R, t, d, i, p) /\ (i = d \/ R.overflowing)
  BY <1>4, <1>6
<1>8. Balanced(R, Changed(Changed(o, t, d), Mgr, p))
  BY <1>1, <1>2, <1>5, <1>6, <1>7, BooksBalance
<1>9. Owed(R, D, k) = Changed(Changed(o, t, d), Mgr, p)
  <2>1. Moves(C, m, D, k, t, d)
    BY <1>6
  <2>2. Owed(R, D, k) = Changed(Changed(Owed(B, C, m), t, d), Mgr, p)
    <3>1. BookMove(B, R, C, m, D, k, t, d, i, p)
      BY <1>6, <1>7, <2>1 DEF BookMove
    <3> QED BY <3>1, OwedMoves
  <2> QED BY <1>5, <2>2, Zenon
<1>10. Kept(R) /\ R.stuck = B.stuck
  BY <1>7 DEF Effect
<1> QED BY <1>1, <1>2, <1>3, <1>8, <1>9, <1>10 DEF TrackKept

LEMMA UnregisteringKeeps ==
  ASSUME NEW B, NEW T, NEW u, NEW C, NEW m, TrackKept(B, T, u, C, m),
         NEW D, NEW k, NEW t, Moves(C, m, D, k, t, -1), Owning(C, m, t) > 0,
         NEW R, R = UnregisterAllocationTag(B, t),
         NEW S, NEW w, TableExact(S, w, D), Len(S) # 0
  PROVE  TrackKept(R, S, w, D, k)
<1>1. /\ Kept(B) /\ ~B.stuck /\ Owing(C, m) /\ OwnsFirst(B)
      /\ Balanced(B, Owed(B, C, m))
  BY DEF TrackKept
<1>2. /\ Owing(D, k) /\ t \in AllTags
      /\ \A s \in AllTags : Owning(D, k, s) = Owning(C, m, s) + (IF s = t THEN -1 ELSE 0)
  BY DEF Moves
<1>3. PICK i \in Int : Effect(B, R, t, -1, i, 0) /\ (i = 0 => Total(B, t) = 0)
  BY <1>1, <1>2, UnregisterEffect
<1>4. PICK o \in [AllTags -> Int] : o = Owed(B, C, m)
  BY <1>1, OwedType
<1>5. o[t] > 0
  <2>1. PICK h \in Nat : h = Owning(C, m, t) /\ h > 0
    BY <1>1, <1>2, HeldType
  <2>2. o[t] >= h /\ o[t] \in Int
    BY <1>1, <1>2, <1>4, <2>1, OwedType
  <2> QED BY <2>1, <2>2
<1>6. PICK p \in Int, d \in Int : p = 0 /\ p \in {0, 1} /\ d = -1
  OBVIOUS
<1>7. Effect(B, R, t, d, i, p)
  BY <1>3, <1>6
<1>8. i = d \/ (o[t] > 0 /\ Total(B, t) = 0)
  <2>1. i \in {0, d}
    BY <1>7 DEF Effect
  <2> QED BY <1>3, <1>5, <2>1
<1>9. Balanced(R, Changed(Changed(o, t, d), Mgr, p))
  BY <1>1, <1>2, <1>4, <1>6, <1>7, <1>8, BooksBalance
<1>10. Owed(R, D, k) = Changed(Changed(o, t, d), Mgr, p)
  <2>1. Moves(C, m, D, k, t, d)
    BY <1>6
  <2>2. Owed(R, D, k) = Changed(Changed(Owed(B, C, m), t, d), Mgr, p)
    <3>1. BookMove(B, R, C, m, D, k, t, d, i, p)
      BY <1>6, <1>7, <2>1 DEF BookMove
    <3> QED BY <3>1, OwedMoves
  <2> QED BY <1>4, <2>2, Zenon
<1>11. Kept(R) /\ R.stuck = B.stuck /\ SameTags(B, R)
  BY <1>7 DEF Effect
<1>12. OwnsFirst(R)
  <2>1. Slot(Mgr, 0) \in 0..Mask
    BY MgrTag, SlotIs, TrackingAssumption
  <2> QED BY <1>1, <1>11, <2>1, MgrTag DEF SameTags, OwnsFirst
<1> QED BY <1>1, <1>2, <1>9, <1>10, <1>11, <1>12 DEF TrackKept

LEMMA InitializingKeeps ==
  ASSUME NEW B, NEW T, NEW u, NEW C, NEW m, TrackFirst(B, T, u, C, m), NEW grow,
         NEW R, R = RegisterAllocationTag(B, Mgr, grow),
         NEW S, S = [i \in 1..FirstSize |-> Vacant]
  PROVE  TrackKept(R, S, u, C, m)
<1>1. /\ Kept(B) /\ ~B.stuck /\ Owing(C, m) /\ B.main[Slot(Mgr, 0)].tag = NoTag
      /\ B.expansion = <<>> /\ TableExact(<<>>, u, C) /\ Balanced(B, Unowned(C, m))
  BY DEF TrackFirst
<1>2. PICK t \in AllTags : t = Mgr
  BY MgrTag
<1>3. OwnsFirst(R) /\ \E into \in {0, 1}, page \in {0, 1} :
         Effect(B, R, t, 1, into, page) /\ (into = 0 => R.overflowing)
  BY <1>1, <1>2, RegisterEffect
<1>4. PICK into \in {0, 1}, page \in {0, 1} :
         Effect(B, R, t, 1, into, page) /\ (into = 0 => R.overflowing)
  BY <1>3
<1>5. PICK i \in Int, p \in Int, d \in Int : i = into /\ p = page /\ p \in {0, 1} /\ d = 1
  OBVIOUS
<1>6. Effect(B, R, t, d, i, p) /\ (i = d \/ R.overflowing)
  BY <1>4, <1>5
<1>7. PICK o \in [AllTags -> Int] : o = Unowned(C, m)
  <2>1. \A s \in AllTags : Owning(C, m, s) \in Int
    BY <1>1, HeldType
  <2> QED BY <2>1 DEF Unowned
<1>8. Balanced(R, Changed(Changed(o, t, d), Mgr, p))
  BY <1>1, <1>5, <1>6, <1>7, BooksBalance
<1>9. Owed(R, C, m) = Changed(Changed(o, t, d), Mgr, p)
  <2>1. PICK f : f = Changed(Changed(o, t, d), Mgr, p)
    OBVIOUS
  <2>2. ChangesTwice(o, t, d, Mgr, p, f)
    BY <1>2, <2>1, MgrTag DEF ChangesTwice
  <2>3. /\ f \in [AllTags -> Int]
        /\ \A s \in AllTags : f[s] = o[s] + More(s, t, d) + More(s, Mgr, p)
    BY <2>2, ChangedTwice
  <2>4. p = IF R.expansion # <<>> THEN 1 ELSE 0
    BY <1>1, <1>6 DEF Effect
  <2>5. ASSUME NEW s \in AllTags PROVE Owed(R, C, m)[s] = f[s]
    <3>1. PICK h \in Int : h = Owning(C, m, s) /\ h = o[s]
      BY <1>7 DEF Unowned
    <3>2. Owed(R, C, m)[s] = h + Tables(R, s)
      BY <3>1 DEF Owed
    <3>3. CASE s = Mgr
      <4>1. f[s] = h + 1 + p
        BY <1>2, <1>5, <2>3, <3>1, <3>3 DEF More
      <4>2. Tables(R, s) = IF R.expansion = <<>> THEN 1 ELSE 2
        BY <3>3 DEF Tables
      <4>3. PICK c \in Int : c = Tables(R, s) /\ c = 1 + p
        BY <2>4, <4>2
      <4> QED BY <3>2, <4>1, <4>3
    <3>4. CASE s # Mgr
      <4>1. f[s] = h + 0 + 0
        BY <1>2, <2>3, <3>1, <3>4 DEF More
      <4>2. Tables(R, s) = 0
        BY <3>4 DEF Tables
      <4> QED BY <3>2, <4>1, <4>2
    <3> QED BY <3>3, <3>4
  <2>6. PICK g \in [AllTags -> Int] : g = Owed(R, C, m)
    BY <1>1, OwedType
  <2>7. g = f
    BY <2>3, <2>5, <2>6
  <2> QED BY <2>1, <2>6, <2>7
<1>10. Kept(R) /\ R.stuck = B.stuck
  BY <1>6 DEF Effect
<1>11. TableExact(S, u, C) /\ Len(S) # 0
  <2>1. FirstSize \in Nat /\ FirstSize # 0
    BY TrackingAssumption
  <2>2. Sound(S) /\ Len(S) = FirstSize /\ Contents(S) = {}
    BY <2>1, TableStarts
  <2>3. Contents(<<>>) = {}
    BY DEF Contents
  <2> QED BY <1>1, <2>1, <2>2, <2>3 DEF TableExact
<1> QED BY <1>1, <1>3, <1>8, <1>9, <1>10, <1>11 DEF TrackKept

LEMMA TrackingInitializes ==
  ASSUME TrackInv, NEW grow, InitializeBigAllocationsTracking(grow)
  PROVE  TrackInv'
<1>1. PICK B, T, u, C, m : B = books /\ T = big /\ u = inUse /\ C = charged /\ m = small
  OBVIOUS
<1>2. PICK R, S : R = books' /\ S = big'
  OBVIOUS
<1>3. TrackFirst(B, T, u, C, m)
  BY <1>1 DEF TrackInv, InitializeBigAllocationsTracking
<1>4. R = RegisterAllocationTag(B, Mgr, grow) /\ S = [i \in 1..FirstSize |-> Vacant]
  BY <1>1, <1>2 DEF InitializeBigAllocationsTracking, FirstBooks
<1>5. TrackKept(R, S, u, C, m)
  BY <1>3, <1>4, InitializingKeeps
<1>6. ready' = TRUE /\ inUse' = u /\ charged' = C /\ small' = m
  BY <1>1 DEF InitializeBigAllocationsTracking
<1> QED BY <1>2, <1>5, <1>6 DEF TrackInv

(* A block more or less with a tag.                                        *)
LEMMA BlockMoves ==
  ASSUME NEW C, NEW m, Owing(C, m), NEW t \in Tags, NEW d \in {1, -1}, m[t] + d >= 0,
         NEW k, k = [m EXCEPT ![t] = m[t] + d]
  PROVE  Moves(C, m, C, k, t, d)
<1>1. PICK e \in Int, n \in Nat : e = d /\ n = m[t] /\ n + e >= 0
  BY DEF Owing
<1>2. PICK l \in Nat : l = n + e
  BY <1>1
<1>3. k = [m EXCEPT ![t] = l] /\ m \in [Tags -> Nat]
  BY <1>1, <1>2 DEF Owing
<1>4. Owing(C, k)
  BY <1>3 DEF Owing
<1>5. ASSUME NEW s \in AllTags PROVE Owning(C, k, s) = Owning(C, m, s) + (IF s = t THEN d ELSE 0)
  <2>1. PICK c : c = Cardinality({a \in Pages : C[a] = s})
    OBVIOUS
  <2>2. c \in Nat
    <3>1. PICK S : S = {a \in Pages : C[a] = s}
      OBVIOUS
    <3>2. IsFiniteSet(S)
      BY <3>1, FS_Subset, TrackingAssumption
    <3> QED BY <2>1, <3>1, <3>2, FS_CardinalityType
  <2>3. CASE s = t
    <3>1. Owning(C, m, s) = c + n /\ Owning(C, k, s) = c + l
      BY <1>1, <1>3, <2>1, <2>3 DEF Owning
    <3> QED BY <1>1, <1>2, <2>2, <2>3, <3>1
  <2>4. CASE s # t
    <3>1. PICK x \in Nat : x = IF s \in Tags THEN m[s] ELSE 0
      BY <1>3
    <3>2. x = IF s \in Tags THEN k[s] ELSE 0
      BY <1>3, <2>4, <3>1
    <3>3. Owning(C, m, s) = c + x /\ Owning(C, k, s) = c + x
      BY <2>1, <3>1, <3>2 DEF Owning
    <3> QED BY <2>2, <2>4, <3>3
  <2> QED BY <2>3, <2>4
<1>6. t \in AllTags
  BY DEF AllTags
<1> QED BY <1>4, <1>5, <1>6 DEF Moves

LEMMA BlockAllocated ==
  ASSUME TrackInv, NEW t \in Tags, NEW grow, AllocateBlock(t, grow)
  PROVE  TrackInv'
<1>1. PICK B, T, u, C, m : B = books /\ T = big /\ u = inUse /\ C = charged /\ m = small
  OBVIOUS
<1>2. PICK R, k : R = books' /\ k = small'
  OBVIOUS
<1>3. TrackKept(B, T, u, C, m)
  BY <1>1 DEF TrackInv, AllocateBlock, Bookable
<1>4. Owing(C, m) /\ TableExact(T, u, C) /\ Len(T) # 0
  BY <1>3 DEF TrackKept
<1>5. R = RegisterAllocationTag(B, t, grow) /\ k = [m EXCEPT ![t] = m[t] + 1]
  BY <1>1, <1>2 DEF AllocateBlock
<1>6. m[t] + 1 >= 0
  BY <1>4 DEF Owing
<1>7. Moves(C, m, C, k, t, 1)
  BY <1>4, <1>5, <1>6, BlockMoves
<1>8. TrackKept(R, T, u, C, k)
  BY <1>3, <1>4, <1>5, <1>7, RegisteringKeeps
<1>9. ready' = ready /\ ready /\ big' = T /\ inUse' = u /\ charged' = C
  BY <1>1 DEF AllocateBlock, Bookable
<1> QED BY <1>2, <1>8, <1>9 DEF TrackInv

LEMMA BlockFreed ==
  ASSUME TrackInv, NEW t \in Tags, FreeBlock(t)
  PROVE  TrackInv'
<1>1. PICK B, T, u, C, m : B = books /\ T = big /\ u = inUse /\ C = charged /\ m = small
  OBVIOUS
<1>2. PICK R, k : R = books' /\ k = small'
  OBVIOUS
<1>3. TrackKept(B, T, u, C, m)
  BY <1>1 DEF TrackInv, FreeBlock, Bookable
<1>4. Owing(C, m) /\ TableExact(T, u, C) /\ Len(T) # 0 /\ m[t] \in Nat
  BY <1>3 DEF TrackKept, Owing
<1>5. R = UnregisterAllocationTag(B, t) /\ k = [m EXCEPT ![t] = m[t] - 1] /\ m[t] > 0
  BY <1>1, <1>2 DEF FreeBlock
<1>6. m[t] + (-1) >= 0 /\ m[t] - 1 = m[t] + (-1)
  BY <1>4, <1>5
<1>7. k = [m EXCEPT ![t] = m[t] + (-1)]
  BY <1>5, <1>6
<1>8. Moves(C, m, C, k, t, -1)
  BY <1>4, <1>6, <1>7, BlockMoves
<1>9. Owning(C, m, t) > 0
  <2>1. t \in AllTags
    BY DEF AllTags
  <2> QED BY <1>4, <1>5, <2>1, HeldType
<1>10. TrackKept(R, T, u, C, k)
  BY <1>3, <1>4, <1>5, <1>8, <1>9, UnregisteringKeeps
<1>11. ready' = ready /\ ready /\ big' = T /\ inUse' = u /\ charged' = C
  BY <1>1 DEF FreeBlock, Bookable
<1> QED BY <1>2, <1>10, <1>11 DEF TrackInv

(* What becomes of the table of big allocations: entered, or not for want  *)
(* of room.                                                                *)
LEMMA BigRegistered ==
  ASSUME TrackKept(books, big, inUse, charged, small),
         NEW a \in Pages, charged[a] = NoTag, NEW t \in Tags, NEW grow,
         NEW r, r = RegisterBigAllocationTag(a, t, grow)
  PROVE  /\ r.books = books
         /\ r.ok => LET D == [charged EXCEPT ![a] = t]
                    IN  TableExact(r.table, inUse + 1, D) /\ Len(r.table) # 0
         /\ ~r.ok => r.table = big
<1>1. PICK B, T, u, C, m : B = books /\ T = big /\ u = inUse /\ C = charged /\ m = small
  OBVIOUS
<1>2. /\ Kept(B) /\ OwnsFirst(B) /\ Owing(C, m) /\ TableExact(T, u, C) /\ Len(T) # 0
      /\ C[a] = NoTag
  BY <1>1 DEF TrackKept
<1>3. ExpandedBooks(B, grow) = B
  BY <1>2, ExpandingBalances
<1>4. PICK e : e = [address |-> a, tag |-> t]
  OBVIOUS
<1>5. PICK room \in BOOLEAN : room = (FreeProbes(T, a) # {})
  OBVIOUS
<1>6. PICK expand \in BOOLEAN :
        expand = ((room => 4 * (inUse + 1) > 4 * ((Len(big) * 3) \div 4)) /\ CanExpand(big, grow))
  OBVIOUS
<1>7. PICK N : N = IF room THEN Insert(T, e) ELSE T
  OBVIOUS
<1>8. r = [ok |-> room \/ expand,
           table |-> IF ~expand THEN N
                     ELSE IF room THEN Rehashed(N) ELSE Insert(Rehashed(N), e),
           books |-> IF expand THEN ExpandedBooks(books, grow) ELSE books]
  BY <1>1, <1>4, <1>5, <1>6, <1>7, Zenon DEF RegisterBigAllocationTag
<1>0. /\ r.ok = (room \/ expand)
      /\ r.table = IF ~expand THEN N ELSE IF room THEN Rehashed(N) ELSE Insert(Rehashed(N), e)
  BY <1>8
<1>9. r.books = B
  BY <1>1, <1>3, <1>8
<1>10. PICK D : D = [C EXCEPT ![a] = t]
  OBVIOUS
<1>11. a \in Nat
  BY TrackingAssumption
<1>12. ASSUME NEW Q, NEW R, TableExact(Q, u, C), Len(Q) # 0, FreeProbes(Q, a) # {}, R = Insert(Q, e)
       PROVE  TableExact(R, u + 1, D) /\ Len(R) # 0
  <2>1. TableExact(R, u + 1, D) /\ Len(R) = Len(Q)
    <3>1. Recharges(C, D, m, a, t)
      BY <1>2, <1>10 DEF Recharges
    <3> QED BY <1>2, <1>4, <1>12, <3>1, EntryAdded
  <2> QED BY <1>12, <2>1
<1>13. CASE room
  <2>1. TableExact(N, u + 1, D) /\ Len(N) # 0
    BY <1>2, <1>5, <1>7, <1>12, <1>13
  <2>2. TableExact(Rehashed(N), u + 1, D) /\ Len(Rehashed(N)) # 0
    BY <1>11, <2>1, RehashedExact
  <2>3. r.ok /\ r.table = IF ~expand THEN N ELSE Rehashed(N)
    BY <1>0, <1>13
  <2> QED BY <1>1, <1>9, <1>10, <2>1, <2>2, <2>3
<1>14. CASE ~room /\ expand
  <2>1. N = T
    BY <1>7, <1>14
  <2>2. TableExact(Rehashed(T), u, C) /\ Len(Rehashed(T)) # 0 /\ FreeProbes(Rehashed(T), a) # {}
    BY <1>2, <1>11, RehashedExact
  <2>3. r.ok /\ r.table = Insert(Rehashed(T), e)
    BY <1>0, <1>14, <2>1
  <2>4. TableExact(r.table, u + 1, D) /\ Len(r.table) # 0
    BY <1>12, <2>2, <2>3
  <2> QED BY <1>1, <1>9, <1>10, <2>3, <2>4
<1>15. CASE ~room /\ ~expand
  <2>1. ~r.ok /\ r.table = T
    BY <1>0, <1>7, <1>15
  <2> QED BY <1>1, <1>9, <2>1
<1> QED BY <1>13, <1>14, <1>15

LEMMA PagesAllocated ==
  ASSUME TrackInv, NEW a \in Pages, NEW t \in Tags, NEW grow, AllocatePages(a, t, grow)
  PROVE  TrackInv'
<1>1. PICK B, T, u, C, m : B = books /\ T = big /\ u = inUse /\ C = charged /\ m = small
  OBVIOUS
<1>2. PICK R, S, w, D : R = books' /\ S = big' /\ w = inUse' /\ D = charged'
  OBVIOUS
<1>3. TrackKept(B, T, u, C, m) /\ C[a] = NoTag
  BY <1>1 DEF TrackInv, AllocatePages, Bookable
<1>4. Owing(C, m) /\ TableExact(T, u, C) /\ Len(T) # 0
  BY <1>3 DEF TrackKept
<1>5. PICK r : r = RegisterBigAllocationTag(a, t, grow)
  OBVIOUS
<1>6. PICK tag \in Tags \cup {BigA} : tag = IF r.ok THEN t ELSE BigA
  OBVIOUS
<1>7. /\ S = r.table /\ w = (IF r.ok THEN u + 1 ELSE u)
      /\ R = RegisterAllocationTag(r.books, tag, grow) /\ D = [C EXCEPT ![a] = tag]
      /\ small' = m /\ ready' = ready /\ ready
  BY <1>1, <1>2, <1>5, <1>6 DEF AllocatePages, Bookable
<1>8. /\ r.books = B
      /\ r.ok => TableExact(r.table, u + 1, [C EXCEPT ![a] = t]) /\ Len(r.table) # 0
      /\ ~r.ok => r.table = T
  BY <1>1, <1>3, <1>5, BigRegistered
<1>r. Recharges(C, D, m, a, tag)
  BY <1>4, <1>7 DEF Recharges
<1>9. TableExact(S, w, D) /\ Len(S) # 0
  <2>1. CASE r.ok
    BY <1>6, <1>7, <1>8, <2>1
  <2>2. CASE ~r.ok
    <3>1. tag = BigA /\ BigA \notin Tags /\ NoTag \notin Tags
      BY <1>6, <2>2, TrackingAssumption DEF AllTags
    <3>2. C[a] \notin Tags
      BY <1>3, <3>1
    <3>3. Registered(D) = Registered(C)
      BY <1>r, <3>1, <3>2, RegisteredSame
    <3> QED BY <1>4, <1>7, <1>8, <2>2, <3>3 DEF TableExact
  <2> QED BY <2>1, <2>2
<1>10. Moves(C, m, D, m, tag, 1)
  <2>1. /\ Owing(D, m) /\ tag \in AllTags
        /\ \A s \in AllTags : Owning(D, m, s) = Owning(C, m, s) + (IF s = tag THEN 1 ELSE 0)
    BY <1>r, <1>3, PageCharged
  <2> QED BY <1>4, <2>1 DEF Moves
<1>11. TrackKept(R, S, w, D, m)
  BY <1>3, <1>7, <1>8, <1>9, <1>10, RegisteringKeeps
<1> QED BY <1>2, <1>7, <1>11 DEF TrackInv

LEMMA PagesFreed ==
  ASSUME TrackInv, NEW a \in Pages, FreePages(a)
  PROVE  TrackInv'
<1>1. PICK B, T, u, C, m : B = books /\ T = big /\ u = inUse /\ C = charged /\ m = small
  OBVIOUS
<1>2. PICK R, S, w, D : R = books' /\ S = big' /\ w = inUse' /\ D = charged'
  OBVIOUS
<1>3. TrackKept(B, T, u, C, m) /\ C[a] # NoTag
  BY <1>1 DEF TrackInv, FreePages, Bookable
<1>4. Owing(C, m) /\ TableExact(T, u, C) /\ Len(T) # 0
  BY <1>3 DEF TrackKept
<1>5. PICK found : found = BigEntries(a) /\ found = {i \in DOMAIN T : T[i].address = a}
  BY <1>1 DEF BigEntries
<1>6. PICK t : t = C[a]
  OBVIOUS
<1>7. D = [C EXCEPT ![a] = NoTag] /\ small' = m /\ ready' = ready /\ ready
  BY <1>1, <1>2 DEF FreePages, Bookable
<1>r. Recharges(C, D, m, a, NoTag)
  BY <1>4, <1>7 DEF Recharges
<1>8. R = UnregisterAllocationTag(B, t) /\ TableExact(S, w, D) /\ Len(S) # 0
  <2>1. CASE found = {}
    <3>1. R = UnregisterAllocationTag(B, BigA) /\ S = T /\ w = u
      BY <1>1, <1>2, <1>5, <2>1 DEF FreePages
    <3>2. t \notin Tags
      BY <1>4, <1>5, <1>6, <2>1, EntryFound
    <3>3. t = BigA
      BY <1>3, <1>4, <1>6, <3>2 DEF Owing
    <3>4. NoTag \notin Tags
      BY TrackingAssumption DEF AllTags
    <3>5. Registered(D) = Registered(C)
      BY <1>r, <1>6, <3>2, <3>4, RegisteredSame
    <3> QED BY <1>4, <3>1, <3>3, <3>5 DEF TableExact
  <2>2. CASE found # {}
    <3>1. PICK i \in found : i = CHOOSE x \in found : TRUE
      BY <2>2
    <3>2. R = UnregisterAllocationTag(B, T[i].tag) /\ S = [T EXCEPT ![i] = Vacant] /\ w = u - 1
      BY <1>1, <1>2, <1>5, <2>2, <3>1 DEF FreePages
    <3>3. i \in DOMAIN T /\ T[i].address = a
      BY <1>5
    <3>4. T[i].tag = t
      BY <1>4, <1>6, <3>3, EntryFound
    <3>5. TableExact(S, w, D) /\ Len(S) = Len(T)
      <4>1. PICK j \in DOMAIN T : j = i
        BY <3>3
      <4>2. S = [T EXCEPT ![j] = Vacant] /\ T[j].address = a /\ w = u - 1
        BY <3>2, <3>3, <4>1
      <4>3. Vacates(T, S, j, a)
        BY <4>1, <4>2 DEF Vacates
      <4>4. TableExact(S, u - 1, D) /\ Len(S) = Len(T)
        BY <1>4, <1>r, <4>3, EntryRemoved
      <4> QED BY <4>2, <4>4
    <3> QED BY <1>4, <3>2, <3>4, <3>5
  <2> QED BY <2>1, <2>2
<1>9. Moves(C, m, D, m, t, -1) /\ Owning(C, m, t) > 0
  <2>1. /\ Owing(D, m) /\ t \in AllTags /\ Owning(C, m, t) > 0
        /\ \A s \in AllTags : Owning(D, m, s) = Owning(C, m, s) + (IF s = t THEN -1 ELSE 0)
    BY <1>r, <1>3, <1>6, PageReturned
  <2> QED BY <1>4, <2>1 DEF Moves
<1>10. TrackKept(R, S, w, D, m)
  BY <1>3, <1>8, <1>9, UnregisteringKeeps
<1> QED BY <1>2, <1>7, <1>10 DEF TrackInv

LEMMA TrackingSteps ==
  ASSUME TrackInv, [TrackNext]_trackVars
  PROVE  TrackInv'
<1>1. CASE TrackNext
  <2>1. ASSUME NEW grow \in BOOLEAN, InitializeBigAllocationsTracking(grow) PROVE TrackInv'
    BY <2>1, TrackingInitializes
  <2>2. ASSUME NEW grow \in BOOLEAN, NEW t \in Tags, AllocateBlock(t, grow) PROVE TrackInv'
    BY <2>2, BlockAllocated
  <2>3. ASSUME NEW grow \in BOOLEAN, NEW t \in Tags, NEW a \in Pages, AllocatePages(a, t, grow)
        PROVE  TrackInv'
    BY <2>3, PagesAllocated
  <2>4. ASSUME NEW t \in Tags, FreeBlock(t) PROVE TrackInv'
    BY <2>4, BlockFreed
  <2>5. ASSUME NEW a \in Pages, FreePages(a) PROVE TrackInv'
    BY <2>5, PagesFreed
  <2> QED BY <1>1, <2>1, <2>2, <2>3, <2>4, <2>5 DEF TrackNext
<1>2. CASE UNCHANGED trackVars
  BY <1>2 DEF trackVars, TrackInv
<1> QED BY <1>1, <1>2

-----------------------------------------------------------------------------
(* What the invariant says.                                                *)
LEMMA SumsUnique ==
  ASSUME NEW S, IsFiniteSet(S), NEW F, NEW v, Sums(F, S, v), NEW w, Sums(F, S, w)
  PROVE  v = w
<1>1. PICK g : /\ g = [s \in SUBSET S |-> IF s = {} THEN 0 ELSE F[Chosen(s)] + g[Others(s)]]
               /\ v = g[S]
  BY DEF Sums
<1>2. PICK h : /\ h = [s \in SUBSET S |-> IF s = {} THEN 0 ELSE F[Chosen(s)] + h[Others(s)]]
               /\ w = h[S]
  BY DEF Sums
<1>3. PICK P : P = {s \in SUBSET S : g[s] = h[s]}
  OBVIOUS
<1>4. {} \in P
  BY <1>1, <1>2, <1>3
<1>5. ASSUME NEW s \in SUBSET S, s # {}, Others(s) \in P PROVE s \in P
  <2>1. g[s] = F[Chosen(s)] + g[Others(s)] /\ h[s] = F[Chosen(s)] + h[Others(s)]
    BY <1>1, <1>2, <1>5
  <2>2. g[Others(s)] = h[Others(s)]
    BY <1>3, <1>5
  <2> QED BY <1>3, <2>1, <2>2
<1>6. SUBSET S \subseteq P
  BY <1>4, <1>5, RestInduction
<1> QED BY <1>1, <1>2, <1>3, <1>6

LEMMA BookedSum ==
  ASSUME NEW v \in Int, Sums(Totals(books), AllTags, v)
  PROVE  MapThenSumSet(Booked, AllTags) = v
<1> DEFINE IsIt(g) == g = [s \in SUBSET AllTags |->
             IF s = {} THEN 0
             ELSE Booked(CHOOSE x \in s : TRUE) + g[s \ {CHOOSE x \in s : TRUE}]]
           it == CHOOSE g : IsIt(g)
<1>1. MapThenSumSet(Booked, AllTags) = it[AllTags]
  BY DEF MapThenSumSet, MapThenFoldSet
<1>2. \A t \in AllTags : Totals(books)[t] = Booked(t)
  BY DEF Totals, Total, Booked
<1>3. \A s \in SUBSET AllTags : s # {} => Chosen(s) \in AllTags
  BY AllTagsFinite, RestSmaller
<1>4. PICK g : /\ g = [s \in SUBSET AllTags |->
                    IF s = {} THEN 0 ELSE Totals(books)[Chosen(s)] + g[Others(s)]]
               /\ v = g[AllTags]
  BY DEF Sums
<1>5. ASSUME NEW s \in SUBSET AllTags
      PROVE  g[s] = IF s = {} THEN 0
                    ELSE Booked(CHOOSE x \in s : TRUE) + g[s \ {CHOOSE x \in s : TRUE}]
  <2>1. g[s] = IF s = {} THEN 0 ELSE Totals(books)[Chosen(s)] + g[Others(s)]
    BY <1>4
  <2>2. s # {} => Totals(books)[Chosen(s)] = Booked(Chosen(s))
    BY <1>2, <1>3
  <2>3. g[s] = IF s = {} THEN 0 ELSE Booked(Chosen(s)) + g[Others(s)]
    BY <2>1, <2>2
  <2> QED BY <2>3 DEF Chosen, Others
<1>6. DOMAIN g = SUBSET AllTags /\ g = [s \in DOMAIN g |-> g[s]]
  BY <1>4
<1>7. IsIt(g)
  BY <1>5, <1>6
<1> HIDE DEF IsIt
<1>8. IsIt(it)
  BY <1>7, Zenon
<1>9. PICK h : h = it /\ IsIt(h)
  BY <1>8, Zenon
<1>10. h = [s \in SUBSET AllTags |-> IF s = {} THEN 0 ELSE Totals(books)[Chosen(s)] + h[Others(s)]]
  <2>1. h = [s \in SUBSET AllTags |-> IF s = {} THEN 0 ELSE Booked(Chosen(s)) + h[Others(s)]]
    BY <1>9 DEF IsIt, Chosen, Others
  <2>2. \A s \in SUBSET AllTags :
          h[s] = IF s = {} THEN 0 ELSE Totals(books)[Chosen(s)] + h[Others(s)]
    BY <1>2, <1>3, <2>1
  <2>3. DOMAIN h = SUBSET AllTags /\ h = [s \in DOMAIN h |-> h[s]]
    BY <2>1
  <2> QED BY <2>2, <2>3
<1>11. Sums(Totals(books), AllTags, h[AllTags])
  BY <1>10 DEF Sums
<1>12. h[AllTags] = v
  BY <1>11, AllTagsFinite, SumsUnique
<1> QED BY <1>1, <1>9, <1>12, Zenon

LEMMA AllocatedSum ==
  ASSUME NEW o, \A t \in AllTags : o[t] = Allocated(t), NEW v \in Int, Sums(o, AllTags, v)
  PROVE  MapThenSumSet(Allocated, AllTags) = v
<1> DEFINE IsIt(g) == g = [s \in SUBSET AllTags |->
             IF s = {} THEN 0
             ELSE Allocated(CHOOSE x \in s : TRUE) + g[s \ {CHOOSE x \in s : TRUE}]]
           it == CHOOSE g : IsIt(g)
<1>1. MapThenSumSet(Allocated, AllTags) = it[AllTags]
  BY DEF MapThenSumSet, MapThenFoldSet
<1>3. \A s \in SUBSET AllTags : s # {} => Chosen(s) \in AllTags
  BY AllTagsFinite, RestSmaller
<1>4. PICK g : /\ g = [s \in SUBSET AllTags |->
                    IF s = {} THEN 0 ELSE o[Chosen(s)] + g[Others(s)]]
               /\ v = g[AllTags]
  BY DEF Sums
<1>5. ASSUME NEW s \in SUBSET AllTags
      PROVE  g[s] = IF s = {} THEN 0
                    ELSE Allocated(CHOOSE x \in s : TRUE) + g[s \ {CHOOSE x \in s : TRUE}]
  <2>1. g[s] = IF s = {} THEN 0 ELSE o[Chosen(s)] + g[Others(s)]
    BY <1>4
  <2>2. s # {} => o[Chosen(s)] = Allocated(Chosen(s))
    BY <1>3
  <2>3. g[s] = IF s = {} THEN 0 ELSE Allocated(Chosen(s)) + g[Others(s)]
    BY <2>1, <2>2
  <2> QED BY <2>3 DEF Chosen, Others
<1>6. DOMAIN g = SUBSET AllTags /\ g = [s \in DOMAIN g |-> g[s]]
  BY <1>4
<1>7. IsIt(g)
  BY <1>5, <1>6
<1> HIDE DEF IsIt
<1>8. IsIt(it)
  BY <1>7, Zenon
<1>9. PICK h : h = it /\ IsIt(h)
  BY <1>8, Zenon
<1>10. h = [s \in SUBSET AllTags |-> IF s = {} THEN 0 ELSE o[Chosen(s)] + h[Others(s)]]
  <2>1. h = [s \in SUBSET AllTags |-> IF s = {} THEN 0 ELSE Allocated(Chosen(s)) + h[Others(s)]]
    BY <1>9 DEF IsIt, Chosen, Others
  <2>2. \A s \in SUBSET AllTags :
          h[s] = IF s = {} THEN 0 ELSE o[Chosen(s)] + h[Others(s)]
    BY <1>3, <2>1
  <2>3. DOMAIN h = SUBSET AllTags /\ h = [s \in DOMAIN h |-> h[s]]
    BY <2>1
  <2> QED BY <2>2, <2>3
<1>11. Sums(o, AllTags, h[AllTags])
  BY <1>10 DEF Sums
<1>12. h[AllTags] = v
  BY <1>11, AllTagsFinite, SumsUnique
<1> QED BY <1>1, <1>9, <1>12, Zenon

LEMMA BooksBalanced ==
  ASSUME Kept(books), NEW o, \A t \in AllTags : o[t] = Allocated(t), Balanced(books, o)
  PROVE  TagsBalanced
<1>1. \A t \in AllTags : Booked(t) = Total(books, t)
  BY DEF Booked, Total
<1>2. PICK v \in Int : Sums(Totals(books), AllTags, v) /\ Sums(o, AllTags, books.overflow + v)
  BY DEF Balanced
<1>3. PICK w \in Int : w = books.overflow + v /\ Sums(o, AllTags, w)
  BY <1>2, KeptMeans
<1>4. MapThenSumSet(Booked, AllTags) = v
  BY <1>2, BookedSum
<1>5. MapThenSumSet(Allocated, AllTags) = w
  BY <1>3, AllocatedSum
<1>6. ~books.overflowing => \A t \in AllTags : Booked(t) = Allocated(t)
  BY <1>1 DEF Balanced
<1>7. books.overflow + MapThenSumSet(Booked, AllTags) = MapThenSumSet(Allocated, AllTags)
  BY <1>3, <1>4, <1>5, Zenon
<1> QED BY <1>6, <1>7, Zenon DEF TagsBalanced

LEMMA TableIsExact ==
  ASSUME TableExact(big, inUse, charged)
  PROVE  BigTableExact
<1>1. inUse = Cardinality({i \in DOMAIN big : big[i] # Vacant})
  BY UsedEntries DEF TableExact
<1>2. ASSUME NEW a \in Pages
      PROVE  IF charged[a] \in Tags
             THEN Cardinality(BigEntries(a)) = 1 /\ \A i \in BigEntries(a) : big[i].tag = charged[a]
             ELSE BigEntries(a) = {}
  <2>1. PICK S : S = BigEntries(a)
    OBVIOUS
  <2>2. \A i : i \in S <=> i \in DOMAIN big /\ big[i].address = a
    BY <2>1 DEF BigEntries
  <2>3. CASE charged[a] \in Tags
    <3>1. PICK i \in DOMAIN big : big[i].address = a
      BY <2>3, EntryFound
    <3>2. ASSUME NEW j \in S PROVE j = i
      <4>1. big[i] = big[j] /\ big[i] # Vacant
        BY <2>2, <3>1, EntryFound
      <4> QED BY <2>2, <3>1, <4>1 DEF TableExact, Sound, Distinct
    <3>3. S = {i}
      BY <2>2, <3>1, <3>2
    <3>4. Cardinality({i}) = 1
      BY FS_Singleton
    <3>5. big[i].tag = charged[a]
      BY <3>1, EntryFound
    <3> QED BY <2>1, <2>3, <3>3, <3>4, <3>5
  <2>4. CASE charged[a] \notin Tags
    <3>1. S = {}
      BY <2>2, <2>4, EntryFound
    <3> QED BY <2>1, <2>4, <3>1
  <2> QED BY <2>3, <2>4
<1> QED BY <1>1, <1>2 DEF BigTableExact

LEMMA InvariantTracks == TrackInv => TrackingSound
<1> SUFFICES ASSUME TrackInv PROVE TrackingSound
  OBVIOUS
<1>1. CASE ready
  <2>1. TrackKept(books, big, inUse, charged, small)
    BY <1>1 DEF TrackInv
  <2>2. PICK o : o = Owed(books, charged, small)
    OBVIOUS
  <2>3. ASSUME NEW t \in AllTags PROVE o[t] = Allocated(t)
    BY <1>1, <2>2 DEF Owed, Owning, Tables, Allocated
  <2>4. TagsBalanced
    BY <2>1, <2>2, <2>3, BooksBalanced DEF TrackKept
  <2> QED BY <2>1, <2>4, TableIsExact DEF TrackKept, TrackingSound, NeverStuck
<1>2. CASE ~ready
  <2>1. TrackFirst(books, big, inUse, charged, small)
    BY <1>2 DEF TrackInv
  <2>2. PICK o : o = Unowned(charged, small)
    OBVIOUS
  <2>3. ASSUME NEW t \in AllTags PROVE o[t] = Allocated(t)
    <3>1. PICK n \in Nat : n = Owning(charged, small, t)
      BY <2>1, HeldType DEF TrackFirst
    <3>2. Allocated(t) = Owning(charged, small, t) + 0
      BY <1>2, Zenon DEF Allocated, Owning
    <3> QED BY <2>2, <3>1, <3>2 DEF Unowned
  <2>4. TagsBalanced
    BY <2>1, <2>2, <2>3, BooksBalanced DEF TrackFirst
  <2> QED BY <2>1, <2>4, TableIsExact DEF TrackFirst, TrackingSound, NeverStuck
<1> QED BY <1>1, <1>2

THEOREM Tracks == TrackSpec => []TrackingSound
<1>1. TrackInit => TrackInv
  BY TrackingStarts
<1>2. TrackInv /\ [TrackNext]_trackVars => TrackInv'
  BY TrackingSteps
<1>3. TrackInv => TrackingSound
  BY InvariantTracks
<1> QED BY <1>1, <1>2, <1>3, PTL DEF TrackSpec
-----------------------------------------------------------------------------
(* The services together.                                                  *)

LockFreeInv ==
  /\ service = "rundown" => RundownInv
  /\ service = "list" => ListInv
  /\ service = "start" => StartInv
  /\ service = "routing" => IpiInv /\ EntriesInv

(* Rundown protection counts its references, the interlocked list loses    *)
(* no entry, processors start apart from each other, and interrupts are    *)
(* routed and sent whole.                                                  *)
THEOREM LockFree == Spec => []LockFreeSound
<1>1. Init => LockFreeInv
  BY RundownStart, ListStart, StartBegins, IpiStart, EntriesStart DEF Init, LockFreeInv
<1>2. LockFreeInv /\ Next => LockFreeInv'
  <2> SUFFICES ASSUME LockFreeInv, Next PROVE LockFreeInv'
    OBVIOUS
  <2>1. CASE RoutingOnly
    <3>1. service = "routing" /\ RoutingNext /\ IpiInv /\ EntriesInv
      BY <2>1 DEF RoutingOnly, LockFreeInv
    <3>2. IpiInv' /\ EntriesInv'
      BY <3>1, IpiStep, EntriesKept
    <3>3. service' = "routing"
      BY <3>1 DEF Next
    <3> QED BY <3>2, <3>3 DEF LockFreeInv
  <2>2. CASE SyncOnly \/ CounterOnly \/ RundownOnly \/ ListOnly \/ StartOnly \/ TrackingOnly
              \/ HardwareOnly \/ TablesOnly \/ RuntimeOnly \/ ScreenOnly \/ AcpiOnly \/ TimersOnly
    <3>1. service # "routing" /\ service' = service
      BY <2>2 DEF Next, SyncOnly, CounterOnly, RundownOnly, ListOnly, StartOnly, TrackingOnly,
                  HardwareOnly, TablesOnly, RuntimeOnly, ScreenOnly, AcpiOnly, TimersOnly
    <3>2. service = "rundown" => RundownInv'
      BY <2>2, <3>1, RundownStep
      DEF LockFreeInv, SyncOnly, CounterOnly, RundownOnly, ListOnly, StartOnly, TrackingOnly,
          HardwareOnly, TablesOnly, RuntimeOnly, ScreenOnly, AcpiOnly, TimersOnly
    <3>3. service = "list" => ListInv'
      BY <2>2, <3>1, ListStep
      DEF LockFreeInv, SyncOnly, CounterOnly, RundownOnly, ListOnly, StartOnly, TrackingOnly,
          HardwareOnly, TablesOnly, RuntimeOnly, ScreenOnly, AcpiOnly, TimersOnly
    <3>4. service = "start" => StartInv'
      BY <2>2, <3>1, StartStep
      DEF LockFreeInv, SyncOnly, CounterOnly, RundownOnly, ListOnly, StartOnly, TrackingOnly,
          HardwareOnly, TablesOnly, RuntimeOnly, ScreenOnly, AcpiOnly, TimersOnly
    <3> QED BY <3>1, <3>2, <3>3, <3>4 DEF LockFreeInv
  <2> QED BY <2>1, <2>2 DEF Next
<1>3. LockFreeInv /\ UNCHANGED vars => LockFreeInv'
  <2> SUFFICES ASSUME LockFreeInv, UNCHANGED vars PROVE LockFreeInv'
    OBVIOUS
  <2>1. UNCHANGED <<service, rundownVars, listVars, startVars>>
    BY DEF vars, firstVars
  <2>2. UNCHANGED routingVars
    BY DEF vars, restVars
  <2> QED BY <2>1, <2>2, RundownIdle, ListIdle, StartIdle, IpiStep, EntriesKept DEF LockFreeInv
<1>4. LockFreeInv => LockFreeSound
  BY StartInvSound, RoutesSound DEF LockFreeInv, LockFreeSound, RundownInv, RundownSound, ListInv
<1> QED BY <1>1, <1>2, <1>3, <1>4, PTL DEF Spec

(* Handlers nest by their levels, what is in service belongs to them, and  *)
(* a resource is held by the one that locked it.                           *)
THEOREM Sync == Spec => []SyncSound
<1>1. Init => SyncInv
  BY SyncStart DEF Init
<1>2. SyncInv /\ Next => SyncInv'
  <2> SUFFICES ASSUME SyncInv, Next PROVE SyncInv'
    OBVIOUS
  <2>1. CASE SyncOnly
    BY <2>1, SyncStep DEF SyncOnly
  <2>2. CASE UNCHANGED syncVars
    BY <2>2, SyncIdle DEF syncVars
  <2>3. CASE UNCHANGED firstVars
    BY <2>3, <2>2 DEF firstVars
  <2> QED BY <2>1, <2>2, <2>3
     DEF Next, CounterOnly, RundownOnly, ListOnly, StartOnly, TrackingOnly,
         HardwareOnly, TablesOnly, RuntimeOnly, ScreenOnly, AcpiOnly, RoutingOnly, TimersOnly
<1>3. SyncInv /\ UNCHANGED vars => SyncInv'
  BY SyncIdle DEF vars, firstVars, syncVars
<1> QED BY <1>1, <1>2, <1>3, SyncInvSound, PTL DEF Spec

(* Memory of the hardware is divided without a page lost or given out      *)
(* twice, no mapping of it overlaps another, and the tables of the firmware *)
(* are found and kept whole.                                               *)
THEOREM Mappings == Spec => []MappingsSound
<1>1. Init => HardwareInv /\ AcpiInv
  BY HardwareStart, AcpiStart DEF Init
<1>2. HardwareInv /\ Next => HardwareInv'
  <2> SUFFICES ASSUME HardwareInv, Next PROVE HardwareInv'
    OBVIOUS
  <2>1. CASE HardwareOnly
    BY <2>1, HardwareStep DEF HardwareOnly
  <2>2. CASE UNCHANGED hardwareVars
    BY <2>2, HardwareIdle
  <2>3. CASE UNCHANGED restVars
    BY <2>3, <2>2 DEF restVars
  <2> QED BY <2>1, <2>2, <2>3
     DEF Next, SyncOnly, CounterOnly, RundownOnly, ListOnly, StartOnly, TrackingOnly,
         TablesOnly, RuntimeOnly, ScreenOnly, AcpiOnly, RoutingOnly, TimersOnly
<1>3. AcpiInv /\ Next => AcpiInv'
  <2> SUFFICES ASSUME AcpiInv, Next PROVE AcpiInv'
    OBVIOUS
  <2>1. CASE AcpiOnly
    BY <2>1, AcpiStep DEF AcpiOnly
  <2>2. CASE UNCHANGED acpiVars
    BY <2>2, AcpiIdle
  <2>3. CASE UNCHANGED restVars
    BY <2>3, <2>2 DEF restVars
  <2> QED BY <2>1, <2>2, <2>3
     DEF Next, SyncOnly, CounterOnly, RundownOnly, ListOnly, StartOnly, TrackingOnly,
         HardwareOnly, TablesOnly, RuntimeOnly, ScreenOnly, RoutingOnly, TimersOnly
<1>4. HardwareInv /\ AcpiInv /\ UNCHANGED vars => HardwareInv' /\ AcpiInv'
  BY HardwareIdle, AcpiIdle DEF vars, restVars
<1>5. HardwareInv /\ AcpiInv => MappingsSound
  BY AcpiInvSound DEF HardwareInv, HardwarePoolSound, MappingsSound
<1> QED BY <1>1, <1>2, <1>3, <1>4, <1>5, PTL DEF Spec

(* Whatever the services do, the books of allocation tracking agree with   *)
(* the pages and blocks that are allocated.                                *)
THEOREM Tracking == Spec => []TrackingSound
<1>1. Init => TrackInv
  BY TrackingStarts DEF Init
<1>2. TrackInv /\ Next => TrackInv'
  <2> SUFFICES ASSUME TrackInv, Next PROVE TrackInv'
    OBVIOUS
  <2>1. CASE TrackingOnly
    BY <2>1, TrackingSteps DEF TrackingOnly
  <2>2. CASE UNCHANGED trackVars
    BY <2>2, TrackingSteps
  <2>3. CASE UNCHANGED firstVars
    BY <2>3, <2>2 DEF firstVars
  <2> QED BY <2>1, <2>2, <2>3
     DEF Next, SyncOnly, CounterOnly, RundownOnly, ListOnly, StartOnly,
         HardwareOnly, TablesOnly, RuntimeOnly, ScreenOnly, AcpiOnly, RoutingOnly, TimersOnly
<1>3. TrackInv /\ UNCHANGED vars => TrackInv'
  BY TrackingSteps DEF vars, firstVars
<1> QED BY <1>1, <1>2, <1>3, InvariantTracks, PTL DEF Spec

LEMMA CounterAlways == Spec => []CounterInv /\ [][CounterInv /\ (CounterNext \/ UNCHANGED counterVars)]_vars
<1>1. Init => CounterInv
  BY CounterStart DEF Init
<1>2. Next => CounterNext \/ UNCHANGED counterVars
  <2> SUFFICES ASSUME Next PROVE CounterNext \/ UNCHANGED counterVars
    OBVIOUS
  <2>1. CASE CounterOnly
    BY <2>1 DEF CounterOnly
  <2>2. CASE UNCHANGED firstVars
    BY <2>2 DEF firstVars
  <2> QED BY <2>1, <2>2
     DEF Next, SyncOnly, RundownOnly, ListOnly, StartOnly, TrackingOnly,
         HardwareOnly, TablesOnly, RuntimeOnly, ScreenOnly, AcpiOnly, RoutingOnly, TimersOnly
<1>3. CounterInv /\ Next => CounterInv'
  BY <1>2, CounterStep, CounterIdle
<1>4. CounterInv /\ UNCHANGED vars => CounterInv'
  BY CounterIdle DEF vars, firstVars
<1> QED BY <1>1, <1>2, <1>3, <1>4, PTL DEF Spec

(* Counters keep up with the time, and no busy wait ends early.            *)
THEOREM Counters == Spec => []TimeKept
BY CounterAlways, CounterInvKeepsTime, PTL

(* No query of the performance counter goes back behind an earlier one     *)
(* before a clock interrupt is lost.                                       *)
THEOREM CountersRise == Spec => CounterMonotonic
<1>1. CounterInv /\ (CounterNext \/ UNCHANGED counterVars)
        => [missed = 0 => systemCounter' >= systemCounter]_counterVars
  BY CounterRises
<1>2. UNCHANGED vars => UNCHANGED counterVars
  BY DEF vars, firstVars
<1> QED BY CounterAlways, <1>1, <1>2, PTL DEF CounterMonotonic
=============================================================================
