-------------------------- MODULE PhysicalPagesProofs --------------------------
(***************************************************************************)
(* Proofs about physical pages, for every number of frames, colours and    *)
(* blocks, and every set of requests.                                      *)
(*                                                                         *)
(* The pool and the kernel stacks pick a frame and take it in two steps,   *)
(* under locks that do not exclude each other.  The theorems are therefore *)
(* about OneUser: one processor, or several of which all want the same,    *)
(* whose lock does exclude them.                                           *)
(***************************************************************************)
EXTENDS PhysicalPages, SequenceEdits, FiniteSetTheorems

OneUser ==
  \/ \A c, d \in Cpus : c = d
  \/ PoolRequests = {}
  \/ StackRequests = {}

USE FramesAssumption, SizesAssumption

-----------------------------------------------------------------------------
(* Lists of frames, linked through the database.                           *)

Chain(s, first, link) ==
  /\ Len(s) = 0 => first = NoFrame
  /\ Len(s) # 0 => first = s[1] /\ link[s[Len(s)]] = NoFrame
  /\ \A i \in 1 .. Len(s) - 1 : link[s[i]] = s[i + 1]

Back(s, link, none) ==
  /\ Len(s) # 0 => link[s[1]] = none
  /\ \A i \in 2 .. Len(s) : link[s[i]] = s[i - 1]

(* There are no more entries than frames.                                  *)
LEMMA OnceLength ==
  ASSUME NEW n \in Nat, NEW s \in Seq(1 .. n), Once(s)
  PROVE  Len(s) <= n
<1>1. Len(s) \in Nat /\ s \in [1 .. Len(s) -> 1 .. n]
  BY LenProperties
<1>2. s \in Injection(1 .. Len(s), 1 .. n)
  BY <1>1 DEF Injection, IsInjective, Once
<1>3. /\ IsFiniteSet(1 .. n) /\ Cardinality(1 .. n) = n
      /\ Cardinality(1 .. Len(s)) = Len(s)
  <2>1. 1 \in Int /\ n \in Int /\ Len(s) \in Int
    BY <1>1
  <2>2. \A k \in Int : IsFiniteSet(1 .. k) /\ Cardinality(1 .. k) = IF 1 > k THEN 0 ELSE k - 1 + 1
    BY FS_Interval
  <2> QED BY <1>1, <2>1, <2>2
<1> QED BY <1>2, <1>3, FS_Injection

(* Following the links from the first entry yields the list.               *)
NextIn(link) == [f \in Frames \cup {NoFrame} |-> IF f = NoFrame THEN NoFrame ELSE link[f]]
StepsOf(n, first, next) ==
  n = [k \in 1 .. Table |-> IF k = 1 THEN first ELSE next[n[k - 1]]]

LEMMA FollowChain ==
  ASSUME NEW s \in Seq(1 .. LastFrame), Once(s), NEW first, NEW link, Chain(s, first, link)
  PROVE  Follow(first, link) = s
<1>1. /\ Len(s) \in 0 .. LastFrame /\ Table = LastFrame + 1
      /\ \A i \in 1 .. Len(s) : s[i] \in 1 .. LastFrame
  BY LenProperties, ElementOfSeq, OnceLength DEF Table
<1>2. PICK next : next = NextIn(link)
  OBVIOUS
<1>3. PICK g : g = [n \in 1 .. Table |-> IF n <= Len(s) THEN s[n] ELSE NoFrame]
  OBVIOUS
<1>4. /\ next[NoFrame] = NoFrame
      /\ \A i \in 1 .. Len(s) : next[s[i]] = link[s[i]]
  BY <1>1, <1>2 DEF Frames, NoFrame, NextIn
<1>5. /\ g[1] = first
      /\ \A k \in 2 .. Table : g[k] = next[g[k - 1]]
  <2>1. g[1] = first
    BY <1>1, <1>3 DEF Chain
  <2>2. ASSUME NEW k \in 2 .. Table PROVE g[k] = next[g[k - 1]]
    <3>1. CASE k <= Len(s)
      <4>1. g[k] = s[k] /\ g[k - 1] = s[k - 1] /\ k - 1 \in 1 .. Len(s) - 1 /\ (k - 1) + 1 = k
        BY <1>1, <1>3, <3>1
      <4>2. link[s[k - 1]] = s[k]
        BY <4>1 DEF Chain
      <4> QED BY <1>1, <1>4, <4>1, <4>2
    <3>2. CASE k = Len(s) + 1
      <4>1. g[k] = NoFrame /\ g[k - 1] = s[Len(s)] /\ Len(s) \in 1 .. Len(s) /\ Len(s) # 0
        BY <1>1, <1>3, <3>2
      <4>2. link[s[Len(s)]] = NoFrame
        BY <4>1 DEF Chain
      <4> QED BY <1>4, <4>1, <4>2
    <3>3. CASE k > Len(s) + 1
      BY <1>1, <1>3, <1>4, <3>3
    <3> QED BY <1>1, <3>1, <3>2, <3>3
  <2> QED BY <2>1, <2>2
<1>6. StepsOf(g, first, NextIn(link))
  <2>1. \A k \in 1 .. Table : g[k] = IF k = 1 THEN first ELSE next[g[k - 1]]
    BY <1>1, <1>5
  <2>2. \A k \in 1 .. Table : g[k] = IF k = 1 THEN first ELSE NextIn(link)[g[k - 1]]
    BY <1>2, <2>1
  <2> HIDE DEF NextIn
  <2> QED BY <1>3, <2>2 DEF StepsOf
<1>7. PICK n : /\ StepsOf(n, first, next)
               /\ Follow(first, link) =
                    [k \in 1 .. Cardinality({j \in 1 .. Table : n[j] # NoFrame}) |-> n[k]]
  <2>1. \E f : f = [k \in 1 .. Table |-> IF k = 1 THEN first ELSE NextIn(link)[f[k - 1]]]
    BY <1>6, Zenon DEF StepsOf
  <2>2. \E f : /\ f = [k \in 1 .. Table |-> IF k = 1 THEN first ELSE NextIn(link)[f[k - 1]]]
               /\ Follow(first, link) =
                    [k \in 1 .. Cardinality({j \in 1 .. Table : f[j] # NoFrame}) |-> f[k]]
    BY <2>1, Zenon DEF Follow, NextIn
  <2>3. PICK f : /\ f = [k \in 1 .. Table |-> IF k = 1 THEN first ELSE NextIn(link)[f[k - 1]]]
                 /\ Follow(first, link) =
                      [k \in 1 .. Cardinality({j \in 1 .. Table : f[j] # NoFrame}) |-> f[k]]
    BY <2>2
  <2>4. StepsOf(f, first, next)
    BY <1>2, <2>3 DEF StepsOf
  <2> QED BY <2>3, <2>4
<1>8. n[1] = first /\ \A k \in 2 .. Table : n[k] = next[n[k - 1]]
  BY <1>1, <1>7 DEF StepsOf
<1>9. \A k \in 1 .. Table : n[k] = g[k]
  <2> DEFINE S == {k \in 1 .. Table : n[k] # g[k]}
  <2> SUFFICES ASSUME S # {} PROVE FALSE
    OBVIOUS
  <2>1. PICK m \in S : \A k \in S : m <= k
    <3>1. S \in SUBSET Nat
      BY <1>1
    <3> QED BY <3>1, LeastNumber
  <2>2. m # 1
    BY <1>5, <1>8, <2>1
  <2>3. m \in 2 .. Table /\ m - 1 \in 1 .. Table /\ ~(m <= m - 1)
    BY <1>1, <2>1, <2>2
  <2>4. m - 1 \notin S
    <3> HIDE DEF S
    <3> QED BY <2>1, <2>3
  <2>5. n[m - 1] = g[m - 1]
    BY <2>3, <2>4
  <2> QED BY <1>5, <1>8, <2>1, <2>3, <2>5
<1>10. {j \in 1 .. Table : n[j] # NoFrame} = 1 .. Len(s)
  <2>1. \A j \in 1 .. Table : n[j] # NoFrame <=> j <= Len(s)
    BY <1>1, <1>3, <1>9, SMTT(30) DEF NoFrame
  <2> QED BY <1>1, <2>1
<1>11. Cardinality(1 .. Len(s)) = Len(s)
  <2>1. \A k \in Int : Cardinality(1 .. k) = IF 1 > k THEN 0 ELSE k - 1 + 1
    BY FS_Interval
  <2> QED BY <1>1, <2>1
<1>12. Follow(first, link) = [k \in 1 .. Len(s) |-> n[k]]
  BY <1>7, <1>10, <1>11
<1>13. \A k \in 1 .. Len(s) : n[k] = s[k]
  BY <1>1, <1>3, <1>9
<1>14. s = [k \in 1 .. Len(s) |-> s[k]]
  BY LenProperties
<1> QED BY <1>12, <1>13, <1>14

(* What a list is after an entry was added at its end.                     *)
GrowsChain(s, p, first, link, first2, link2) ==
  /\ Chain(s, first, link)
  /\ first2 = IF Len(s) = 0 THEN p ELSE first
  /\ link2[p] = NoFrame
  /\ Len(s) # 0 => link2[s[Len(s)]] = p
  /\ \A i \in 1 .. Len(s) - 1 : link2[s[i]] = link[s[i]]

GrowsBack(s, p, link, link2, none) ==
  /\ Back(s, link, none)
  /\ link2[p] = IF Len(s) = 0 THEN none ELSE s[Len(s)]
  /\ \A i \in 1 .. Len(s) : link2[s[i]] = link[s[i]]

LEMMA ChainAppend ==
  ASSUME NEW S, NEW s \in Seq(S), NEW p \in S, NEW first, NEW link, NEW first2, NEW link2,
         GrowsChain(s, p, first, link, first2, link2)
  PROVE  Chain(Append(s, p), first2, link2)
<1>1. Len(s) \in Nat
  BY LenProperties
<1>2. PICK t : t = Append(s, p)
  OBVIOUS
<1>3. /\ Len(t) = Len(s) + 1 /\ t[Len(s) + 1] = p
      /\ \A i \in 1 .. Len(s) : t[i] = s[i]
  BY <1>2, AppendProperties
<1>4. first2 = t[1]
  BY <1>1, <1>3 DEF GrowsChain, Chain
<1>5. ASSUME NEW i \in 1 .. Len(t) - 1 PROVE link2[t[i]] = t[i + 1]
  <2>1. CASE i = Len(s)
    BY <1>1, <1>3, <2>1 DEF GrowsChain
  <2>2. CASE i < Len(s)
    <3>1. i \in 1 .. Len(s) - 1 /\ t[i] = s[i] /\ t[i + 1] = s[i + 1]
      BY <1>1, <1>3, <2>2
    <3> QED BY <3>1 DEF GrowsChain, Chain
  <2> QED BY <1>1, <1>3, <2>1, <2>2
<1> QED BY <1>1, <1>2, <1>3, <1>4, <1>5 DEF Chain, GrowsChain

LEMMA BackAppend ==
  ASSUME NEW S, NEW s \in Seq(S), NEW p \in S, NEW link, NEW link2, NEW none,
         GrowsBack(s, p, link, link2, none)
  PROVE  Back(Append(s, p), link2, none)
<1>1. Len(s) \in Nat
  BY LenProperties
<1>2. PICK t : t = Append(s, p)
  OBVIOUS
<1>3. /\ Len(t) = Len(s) + 1 /\ t[Len(s) + 1] = p
      /\ \A i \in 1 .. Len(s) : t[i] = s[i]
  BY <1>2, AppendProperties
<1>4. link2[t[1]] = none
  BY <1>1, <1>3 DEF GrowsBack, Back
<1>5. ASSUME NEW i \in 2 .. Len(t) PROVE link2[t[i]] = t[i - 1]
  <2>1. CASE i = Len(s) + 1
    BY <1>1, <1>3, <2>1 DEF GrowsBack
  <2>2. CASE i <= Len(s)
    <3>1. i \in 2 .. Len(s) /\ i \in 1 .. Len(s) /\ t[i] = s[i] /\ t[i - 1] = s[i - 1]
      BY <1>1, <1>3, <2>2
    <3> QED BY <3>1 DEF GrowsBack, Back
  <2> QED BY <1>1, <1>3, <2>1, <2>2
<1> QED BY <1>1, <1>2, <1>3, <1>4, <1>5 DEF Back

(* What a list is after the entry at position k was taken out.             *)
CutsChain(s, k, first, link, first2, link2) ==
  /\ Chain(s, first, link)
  /\ first2 = IF k = 1 THEN link[s[1]] ELSE first
  /\ k > 1 => link2[s[k - 1]] = link[s[k]]
  /\ \A i \in 1 .. Len(s) : i # k /\ i + 1 # k => link2[s[i]] = link[s[i]]

CutsBack(s, k, link, link2, none) ==
  /\ Back(s, link, none)
  /\ k < Len(s) => link2[s[k + 1]] = link[s[k]]
  /\ \A i \in 1 .. Len(s) : i # k /\ i # k + 1 => link2[s[i]] = link[s[i]]

LEMMA ChainRemove ==
  ASSUME NEW S, NEW s \in Seq(S), NEW k \in 1 .. Len(s),
         NEW first, NEW link, NEW first2, NEW link2,
         CutsChain(s, k, first, link, first2, link2)
  PROVE  Chain(RemoveAt(s, k), first2, link2)
<1>1. Len(s) \in Nat /\ Len(s) # 0
  BY LenProperties
<1>2. PICK t : t = RemoveAt(s, k)
  OBVIOUS
<1>3. /\ Len(t) = Len(s) - 1
      /\ \A i \in 1 .. Len(s) - 1 : t[i] = IF i < k THEN s[i] ELSE s[i + 1]
  BY <1>2, RemoveAtProperties
<1>4. /\ first = s[1] /\ link[s[Len(s)]] = NoFrame
      /\ \A i \in 1 .. Len(s) - 1 : link[s[i]] = s[i + 1]
  BY <1>1 DEF CutsChain, Chain
<1>5. /\ first2 = IF k = 1 THEN link[s[1]] ELSE first
      /\ k > 1 => link2[s[k - 1]] = link[s[k]]
      /\ \A i \in 1 .. Len(s) : i # k /\ i + 1 # k => link2[s[i]] = link[s[i]]
  BY DEF CutsChain
<1>6. ASSUME Len(t) = 0 PROVE first2 = NoFrame
  <2>1. Len(s) = 1 /\ k = 1
    <3>1. Len(t) = Len(s) - 1
      BY <1>3
    <3>2. Len(s) = 1
      BY <1>1, <1>6, <3>1
    <3> QED BY <3>2
  <2> QED BY <1>4, <1>5, <2>1
<1>7. Len(t) # 0 => first2 = t[1]
  BY <1>1, <1>3, <1>4, <1>5
<1>8. ASSUME Len(t) # 0 PROVE link2[t[Len(t)]] = NoFrame
  <2>1. CASE k = Len(s)
    <3>1. t[Len(t)] = s[k - 1] /\ k > 1
      BY <1>1, <1>3, <1>8, <2>1
    <3> QED BY <1>4, <1>5, <2>1, <3>1
  <2>2. CASE k < Len(s)
    <3>1. t[Len(t)] = s[Len(s)]
      BY <1>1, <1>3, <1>8, <2>2
    <3>2. link2[s[Len(s)]] = link[s[Len(s)]]
      BY <1>1, <1>5, <2>2
    <3> QED BY <1>4, <3>1, <3>2
  <2> QED BY <1>1, <2>1, <2>2
<1>9. ASSUME NEW i \in 1 .. Len(t) - 1 PROVE link2[t[i]] = t[i + 1]
  <2>1. CASE i + 1 < k
    <3>1. t[i] = s[i] /\ t[i + 1] = s[i + 1] /\ i \in 1 .. Len(s) - 1 /\ i \in 1 .. Len(s)
      BY <1>1, <1>3, <2>1
    <3> QED BY <1>4, <1>5, <2>1, <3>1
  <2>2. CASE i + 1 = k
    <3>1. t[i] = s[k - 1] /\ t[i + 1] = s[k + 1] /\ k \in 1 .. Len(s) - 1 /\ k > 1
      BY <1>1, <1>3, <2>2
    <3> QED BY <1>4, <1>5, <3>1
  <2>3. CASE i + 1 > k
    <3>1. /\ t[i] = s[i + 1] /\ t[i + 1] = s[(i + 1) + 1] /\ i + 1 \in 1 .. Len(s) - 1
          /\ i + 1 \in 1 .. Len(s) /\ i + 1 # k /\ (i + 1) + 1 # k
      BY <1>1, <1>3, <2>3
    <3> QED BY <1>4, <1>5, <3>1
  <2> QED BY <1>1, <2>1, <2>2, <2>3
<1> QED BY <1>1, <1>2, <1>3, <1>6, <1>7, <1>8, <1>9 DEF Chain

LEMMA BackRemove ==
  ASSUME NEW S, NEW s \in Seq(S), NEW k \in 1 .. Len(s), NEW link, NEW link2, NEW none,
         CutsBack(s, k, link, link2, none)
  PROVE  Back(RemoveAt(s, k), link2, none)
<1>1. Len(s) \in Nat /\ Len(s) # 0
  BY LenProperties
<1>2. PICK t : t = RemoveAt(s, k)
  OBVIOUS
<1>3. /\ Len(t) = Len(s) - 1
      /\ \A i \in 1 .. Len(s) - 1 : t[i] = IF i < k THEN s[i] ELSE s[i + 1]
  BY <1>2, RemoveAtProperties
<1>4. link[s[1]] = none /\ \A i \in 2 .. Len(s) : link[s[i]] = s[i - 1]
  BY <1>1 DEF CutsBack, Back
<1>5. /\ k < Len(s) => link2[s[k + 1]] = link[s[k]]
      /\ \A i \in 1 .. Len(s) : i # k /\ i # k + 1 => link2[s[i]] = link[s[i]]
  BY DEF CutsBack
<1>6. ASSUME Len(t) # 0 PROVE link2[t[1]] = none
  <2>1. CASE k = 1
    <3>1. t[1] = s[k + 1] /\ k < Len(s)
      BY <1>1, <1>3, <1>6, <2>1
    <3> QED BY <1>4, <1>5, <2>1, <3>1
  <2>2. CASE k > 1
    <3>1. t[1] = s[1] /\ 1 # k /\ 1 # k + 1 /\ 1 \in 1 .. Len(s)
      BY <1>1, <1>3, <1>6, <2>2
    <3> QED BY <1>4, <1>5, <3>1
  <2> QED BY <2>1, <2>2
<1>7. ASSUME NEW i \in 2 .. Len(t) PROVE link2[t[i]] = t[i - 1]
  <2>1. CASE i < k
    <3>1. t[i] = s[i] /\ t[i - 1] = s[i - 1] /\ i \in 2 .. Len(s) /\ i \in 1 .. Len(s)
      BY <1>1, <1>3, <2>1
    <3> QED BY <1>4, <1>5, <2>1, <3>1
  <2>2. CASE i = k
    <3>1. t[i] = s[k + 1] /\ t[i - 1] = s[k - 1] /\ k \in 2 .. Len(s) /\ k < Len(s)
      BY <1>1, <1>3, <2>2
    <3> QED BY <1>4, <1>5, <3>1
  <2>3. CASE i > k
    <3>1. /\ t[i] = s[i + 1] /\ t[i - 1] = s[(i + 1) - 1] /\ i + 1 \in 2 .. Len(s)
          /\ i + 1 \in 1 .. Len(s) /\ i + 1 # k /\ i + 1 # k + 1
      BY <1>1, <1>3, <2>3
    <3> QED BY <1>4, <1>5, <3>1
  <2> QED BY <1>1, <2>1, <2>2, <2>3
<1> QED BY <1>1, <1>2, <1>3, <1>6, <1>7 DEF Back

(* Both leave what remains in its order.                                   *)
LEMMA PrecedesAppend ==
  ASSUME NEW S, NEW s \in Seq(S), NEW p \in S, NEW f, NEW g
  PROVE  /\ Precedes(s, f, g) => Precedes(Append(s, p), f, g)
         /\ f \in Elements(s) => Precedes(Append(s, p), f, p)
<1>1. Len(s) \in Nat /\ DOMAIN s = 1 .. Len(s)
  BY LenProperties
<1>2. PICK t : t = Append(s, p)
  OBVIOUS
<1>3. /\ DOMAIN t = 1 .. Len(s) + 1 /\ t[Len(s) + 1] = p
      /\ \A i \in 1 .. Len(s) : t[i] = s[i]
  <2>1. t \in Seq(S) /\ Len(t) = Len(s) + 1
    BY <1>2, AppendProperties
  <2> QED BY <1>2, <2>1, AppendProperties, LenProperties
<1>4. ASSUME Precedes(s, f, g) PROVE Precedes(t, f, g)
  <2>1. PICK i \in DOMAIN s : \E j \in DOMAIN s : i < j /\ s[i] = f /\ s[j] = g
    BY <1>4 DEF Precedes
  <2>2. PICK j \in DOMAIN s : i < j /\ s[i] = f /\ s[j] = g
    BY <2>1
  <2>3. i \in DOMAIN t /\ j \in DOMAIN t /\ t[i] = f /\ t[j] = g
    BY <1>1, <1>3, <2>2
  <2> QED BY <2>2, <2>3 DEF Precedes
<1>5. ASSUME f \in Elements(s) PROVE Precedes(t, f, p)
  <2>1. PICK i \in DOMAIN s : s[i] = f
    BY <1>5 DEF Elements
  <2>2. i \in DOMAIN t /\ Len(s) + 1 \in DOMAIN t /\ i < Len(s) + 1 /\ t[i] = f
    BY <1>1, <1>3, <2>1
  <2> QED BY <1>3, <2>2 DEF Precedes
<1> QED BY <1>2, <1>4, <1>5

LEMMA PrecedesRemove ==
  ASSUME NEW S, NEW s \in Seq(S), NEW k \in 1 .. Len(s), NEW f, NEW g,
         Precedes(s, f, g), f # s[k], g # s[k]
  PROVE  Precedes(RemoveAt(s, k), f, g)
<1>1. Len(s) \in Nat /\ DOMAIN s = 1 .. Len(s)
  BY LenProperties
<1>2. PICK t : t = RemoveAt(s, k)
  OBVIOUS
<1>3. /\ DOMAIN t = 1 .. Len(s) - 1
      /\ \A i \in 1 .. Len(s) - 1 : t[i] = IF i < k THEN s[i] ELSE s[i + 1]
  <2>1. t \in Seq(S) /\ Len(t) = Len(s) - 1
    BY <1>2, RemoveAtProperties
  <2> QED BY <1>2, <2>1, RemoveAtProperties, LenProperties
<1>4. PICK i \in DOMAIN s : \E j \in DOMAIN s : i < j /\ s[i] = f /\ s[j] = g
  BY DEF Precedes
<1>5. PICK j \in DOMAIN s : i < j /\ s[i] = f /\ s[j] = g
  BY <1>4
<1>6. i # k /\ j # k
  BY <1>5
<1>7. PICK a : a = IF i < k THEN i ELSE i - 1
  OBVIOUS
<1>8. PICK b : b = IF j < k THEN j ELSE j - 1
  OBVIOUS
<1>9. a \in 1 .. Len(s) - 1 /\ t[a] = f
  <2>1. CASE i < k
    BY <1>1, <1>3, <1>5, <1>7, <2>1
  <2>2. CASE i > k
    <3>1. a \in 1 .. Len(s) - 1 /\ ~(a < k) /\ a + 1 = i
      BY <1>1, <1>7, <2>2
    <3> QED BY <1>3, <1>5, <3>1
  <2> QED BY <1>1, <1>6, <2>1, <2>2
<1>10. b \in 1 .. Len(s) - 1 /\ t[b] = g
  <2>1. CASE j < k
    BY <1>1, <1>3, <1>5, <1>8, <2>1
  <2>2. CASE j > k
    <3>1. b \in 1 .. Len(s) - 1 /\ ~(b < k) /\ b + 1 = j
      BY <1>1, <1>8, <2>2
    <3> QED BY <1>3, <1>5, <3>1
  <2> QED BY <1>1, <1>6, <2>1, <2>2
<1>11. a < b
  BY <1>1, <1>5, <1>6, <1>7, <1>8
<1> QED BY <1>2, <1>3, <1>9, <1>10, <1>11 DEF Precedes

-----------------------------------------------------------------------------
(* The free frames, and those of each colour.                              *)

FrameRecord ==
  [flink : Frames \cup {NoFrame}, u2 : Int, prev : Frames \cup {NoPrev},
   next : Frames \cup {NoFrame}, refs : 0 .. 1, removable : BOOLEAN,
   at : {"zeroed", "free", "modified", "active", "transition"}]

Flinks(db) == [f \in Frames |-> db[f].flink]
U2s(db) == [f \in Frames |-> db[f].u2]
Prevs(db) == [f \in Frames |-> db[f].prev]
Nexts(db) == [f \in Frames |-> db[f].next]

(* The free list fl of the database db holds the frames q, counted by av.  *)
QueueOf(q, db, fl, av) ==
  /\ q \in Seq(1 .. LastFrame) /\ Once(q)
  /\ Chain(q, fl.flink, Flinks(db))
  /\ Back(q, U2s(db), NoFrame)
  /\ fl.blink = IF Len(q) = 0 THEN NoFrame ELSE q[Len(q)]
  /\ fl.total = Len(q) /\ av = Len(q)
  /\ \A f \in Frames : db[f].at = "free" <=> f \in Elements(q)

(* The colour list e holds those of colour c, in the order of q.           *)
ColorOf(l, q, c, db, e) ==
  /\ l \in Seq(1 .. LastFrame) /\ Once(l)
  /\ Chain(l, e.flink, Nexts(db))
  /\ Back(l, Prevs(db), NoPrev)
  /\ e.count = Len(l)
  /\ Len(l) # 0 => e.blink = l[Len(l)]
  /\ Elements(l) = {f \in Elements(q) : Color(f) = c}
  /\ \A i, j \in DOMAIN l : i < j => Precedes(q, l[i], l[j])

Lists(q) ==
  /\ QueueOf(q, pfn, freeList, available)
  /\ \A c \in 0 .. Colors - 1 : \E l : ColorOf(l, q, c, pfn, colors[c])

(* The fields of the database after a frame was linked.                    *)
LinkedFields(db, p, last, first, tail, db2) ==
  /\ db2 \in [Frames -> FrameRecord]
  /\ \A f \in Frames :
       /\ db2[f].flink = IF f = p THEN NoFrame ELSE IF f = last THEN p ELSE db[f].flink
       /\ db2[f].u2 = IF f = p THEN last ELSE db[f].u2
       /\ db2[f].prev = IF f = p THEN (IF first THEN NoPrev ELSE tail) ELSE db[f].prev
       /\ db2[f].next = IF f = p THEN NoFrame ELSE IF ~first /\ f = tail THEN p ELSE db[f].next
       /\ db2[f].at = IF f = p THEN "free" ELSE db[f].at
       /\ db2[f].refs = db[f].refs
       /\ db2[f].removable = db[f].removable

LEMMA LinkSetsFields ==
  ASSUME NEW db \in [Frames -> FrameRecord], NEW p \in Frames, LinkFreePage(db, p),
         freeList.blink \in Frames \cup {NoFrame},
         colors[Color(p)].flink # NoFrame => colors[Color(p)].blink \in Frames
  PROVE  LinkedFields(db, p, freeList.blink, colors[Color(p)].flink = NoFrame,
                      colors[Color(p)].blink, pfn')
<1>1. PICK last : last = freeList.blink
  OBVIOUS
<1>2. PICK table : table = colors[Color(p)]
  OBVIOUS
<1>3. PICK db1 : db1 = IF last = NoFrame THEN db ELSE [db EXCEPT ![last].flink = p]
  OBVIOUS
<1>4. PICK db2 : db2 = IF table.flink = NoFrame THEN db1 ELSE [db1 EXCEPT ![table.blink].next = p]
  OBVIOUS
<1>5. pfn' = [db2 EXCEPT ![p].flink = NoFrame, ![p].u2 = last, ![p].at = "free",
                         ![p].prev = IF table.flink = NoFrame THEN NoPrev ELSE table.blink,
                         ![p].next = NoFrame]
  BY <1>1, <1>2, <1>3, <1>4 DEF LinkFreePage, LinkAt
<1>6. /\ db1 \in [Frames -> FrameRecord]
      /\ \A f \in Frames :
           /\ db1[f].flink = IF f = last THEN p ELSE db[f].flink
           /\ db1[f].u2 = db[f].u2 /\ db1[f].prev = db[f].prev /\ db1[f].next = db[f].next
           /\ db1[f].at = db[f].at /\ db1[f].refs = db[f].refs
           /\ db1[f].removable = db[f].removable
  <2>1. CASE last = NoFrame
    BY <1>3, <2>1 DEF NoFrame, Frames, Table
  <2>2. CASE last # NoFrame
    <3>1. last \in Frames
      BY <1>1, <2>2
    <3>2. db1 = [db EXCEPT ![last] = [db[last] EXCEPT !.flink = p]]
      BY <1>3, <2>2
    <3>3. [db[last] EXCEPT !.flink = p] \in FrameRecord
      BY <3>1 DEF FrameRecord
    <3> QED BY <3>1, <3>2, <3>3 DEF FrameRecord
  <2> QED BY <2>1, <2>2
<1>7. /\ db2 \in [Frames -> FrameRecord]
      /\ \A f \in Frames :
           /\ db2[f].next = IF table.flink # NoFrame /\ f = table.blink THEN p ELSE db1[f].next
           /\ db2[f].flink = db1[f].flink /\ db2[f].u2 = db1[f].u2 /\ db2[f].prev = db1[f].prev
           /\ db2[f].at = db1[f].at /\ db2[f].refs = db1[f].refs
           /\ db2[f].removable = db1[f].removable
  <2>1. CASE table.flink = NoFrame
    BY <1>4, <1>6, <2>1
  <2>2. CASE table.flink # NoFrame
    <3>1. table.blink \in Frames
      BY <1>2, <2>2
    <3>2. db2 = [db1 EXCEPT ![table.blink] = [db1[table.blink] EXCEPT !.next = p]]
      BY <1>4, <2>2
    <3>3. [db1[table.blink] EXCEPT !.next = p] \in FrameRecord
      BY <1>6, <3>1 DEF FrameRecord
    <3> QED BY <1>6, <2>2, <3>1, <3>2, <3>3 DEF FrameRecord
  <2> QED BY <2>1, <2>2
<1>8. PICK r : r = [db2[p] EXCEPT !.flink = NoFrame, !.u2 = last, !.at = "free",
                                  !.prev = IF table.flink = NoFrame THEN NoPrev ELSE table.blink,
                                  !.next = NoFrame]
  OBVIOUS
<1>9. pfn' = [db2 EXCEPT ![p] = r]
  BY <1>5, <1>7, <1>8
<1>10. last \in Frames \cup {NoFrame} /\ (table.flink # NoFrame => table.blink \in Frames)
  BY <1>1, <1>2
<1>11. /\ r \in FrameRecord
       /\ r.flink = NoFrame /\ r.u2 = last /\ r.at = "free" /\ r.next = NoFrame
       /\ r.prev = IF table.flink = NoFrame THEN NoPrev ELSE table.blink
       /\ r.refs = db2[p].refs /\ r.removable = db2[p].removable
  <2>1. db2[p] \in FrameRecord
    BY <1>7
  <2>2. r = [flink |-> NoFrame, u2 |-> last,
             prev |-> IF table.flink = NoFrame THEN NoPrev ELSE table.blink,
             next |-> NoFrame, refs |-> db2[p].refs, removable |-> db2[p].removable, at |-> "free"]
    BY <1>8, <2>1 DEF FrameRecord
  <2>3. last \in Int
    BY <1>10 DEF Frames, NoFrame, Table
  <2>4. (IF table.flink = NoFrame THEN NoPrev ELSE table.blink) \in Frames \cup {NoPrev}
    BY <1>10
  <2>5. db2[p].refs \in 0 .. 1 /\ db2[p].removable \in BOOLEAN
    BY <2>1 DEF FrameRecord
  <2> QED BY <2>2, <2>3, <2>4, <2>5 DEF FrameRecord
<1>12. /\ pfn' \in [Frames -> FrameRecord] /\ pfn'[p] = r
       /\ \A f \in Frames : f # p => pfn'[f] = db2[f]
  BY <1>7, <1>9, <1>11
<1> QED BY <1>1, <1>2, <1>6, <1>7, <1>11, <1>12 DEF LinkedFields

(* A list whose links are not written stays what it is.                    *)
LEMMA ChainSame ==
  ASSUME NEW S, NEW s \in Seq(S), NEW first, NEW link, NEW link2,
         Chain(s, first, link), \A f \in Elements(s) : link2[f] = link[f]
  PROVE  Chain(s, first, link2)
<1>1. Len(s) \in Nat /\ \A i \in 1 .. Len(s) : s[i] \in Elements(s)
  BY LenProperties DEF Elements
<1>2. Len(s) # 0 => Len(s) \in 1 .. Len(s)
  BY <1>1
<1>3. \A i \in 1 .. Len(s) - 1 : i \in 1 .. Len(s)
  BY <1>1
<1> QED BY <1>1, <1>2, <1>3 DEF Chain

LEMMA BackSame ==
  ASSUME NEW S, NEW s \in Seq(S), NEW link, NEW link2, NEW none,
         Back(s, link, none), \A f \in Elements(s) : link2[f] = link[f]
  PROVE  Back(s, link2, none)
<1>1. Len(s) \in Nat /\ \A i \in 1 .. Len(s) : s[i] \in Elements(s)
  BY LenProperties DEF Elements
<1>2. Len(s) # 0 => 1 \in 1 .. Len(s)
  BY <1>1
<1>3. \A i \in 2 .. Len(s) : i \in 1 .. Len(s)
  BY <1>1
<1> QED BY <1>1, <1>2, <1>3 DEF Back

ColorRecord == [flink : Frames \cup {NoFrame}, blink : Int, count : 0 .. LastFrame]

(* The free list after a frame was linked.                                 *)
LinkedQueue(q, p, fl, av, db, fl2, av2, db2) ==
  /\ \A f \in Frames :
       /\ db2[f].flink = IF f = p THEN NoFrame ELSE IF f = fl.blink THEN p ELSE db[f].flink
       /\ db2[f].u2 = IF f = p THEN fl.blink ELSE db[f].u2
       /\ db2[f].at = IF f = p THEN "free" ELSE db[f].at
  /\ fl2 = [flink |-> IF fl.blink = NoFrame THEN p ELSE fl.flink, blink |-> p,
            total |-> fl.total + 1]
  /\ av2 = av + 1

LEMMA LinkGrowsQueue ==
  ASSUME NEW q, NEW p \in 1 .. LastFrame, p \notin Elements(q),
         NEW fl, NEW av, NEW db, NEW fl2, NEW av2, NEW db2,
         QueueOf(q, db, fl, av), LinkedQueue(q, p, fl, av, db, fl2, av2, db2)
  PROVE  QueueOf(Append(q, p), db2, fl2, av2)
<1>1. /\ q \in Seq(1 .. LastFrame) /\ Once(q)
      /\ fl.blink = IF Len(q) = 0 THEN NoFrame ELSE q[Len(q)]
      /\ fl.total = Len(q) /\ av = Len(q)
  BY DEF QueueOf
<1>2. /\ Len(q) \in Nat /\ DOMAIN q = 1 .. Len(q)
      /\ \A i \in 1 .. Len(q) : q[i] \in 1 .. LastFrame /\ q[i] # p /\ q[i] \in Frames
  <2>1. Len(q) \in Nat /\ DOMAIN q = 1 .. Len(q)
    BY <1>1, LenProperties
  <2>2. \A i \in 1 .. Len(q) : q[i] \in 1 .. LastFrame
    BY <1>1, ElementOfSeq
  <2> QED BY <2>1, <2>2 DEF Elements, Frames, Table
<1>3. p \in Frames /\ NoFrame \notin 1 .. LastFrame
  BY DEF Frames, Table, NoFrame
<1>4. fl.blink = NoFrame <=> Len(q) = 0
  BY <1>1, <1>2, <1>3
<1>5. Chain(Append(q, p), fl2.flink, Flinks(db2))
  <2>1. Chain(q, fl.flink, Flinks(db))
    BY DEF QueueOf
  <2>2. fl2.flink = IF Len(q) = 0 THEN p ELSE fl.flink
    BY <1>4 DEF LinkedQueue
  <2>3. Flinks(db2)[p] = NoFrame
    BY <1>3 DEF LinkedQueue, Flinks
  <2>4. Len(q) # 0 => Flinks(db2)[q[Len(q)]] = p
    BY <1>1, <1>2 DEF LinkedQueue, Flinks
  <2>5. ASSUME NEW i \in 1 .. Len(q) - 1 PROVE Flinks(db2)[q[i]] = Flinks(db)[q[i]]
    <3>0. Len(q) \in Nat
      BY <1>2
    <3>1. i \in 1 .. Len(q) /\ Len(q) \in 1 .. Len(q) /\ i # Len(q) /\ Len(q) # 0
      BY <3>0
    <3>2. q[i] # q[Len(q)]
      BY <1>1, <1>2, <3>1 DEF Once
    <3> QED BY <1>1, <1>2, <3>1, <3>2 DEF LinkedQueue, Flinks
  <2>6. GrowsChain(q, p, fl.flink, Flinks(db), fl2.flink, Flinks(db2))
    BY <2>1, <2>2, <2>3, <2>4, <2>5 DEF GrowsChain
  <2> QED BY <1>1, <2>6, ChainAppend
<1>6. Back(Append(q, p), U2s(db2), NoFrame)
  <2>1. Back(q, U2s(db), NoFrame)
    BY DEF QueueOf
  <2>2. U2s(db2)[p] = IF Len(q) = 0 THEN NoFrame ELSE q[Len(q)]
    BY <1>1, <1>3 DEF LinkedQueue, U2s
  <2>3. \A i \in 1 .. Len(q) : U2s(db2)[q[i]] = U2s(db)[q[i]]
    BY <1>2 DEF LinkedQueue, U2s
  <2>4. GrowsBack(q, p, U2s(db), U2s(db2), NoFrame)
    BY <2>1, <2>2, <2>3 DEF GrowsBack
  <2> QED BY <1>1, <2>4, BackAppend
<1>7. /\ Append(q, p) \in Seq(1 .. LastFrame) /\ Once(Append(q, p))
      /\ Elements(Append(q, p)) = Elements(q) \cup {p}
  BY <1>1, AppendOnce
<1>8. Len(Append(q, p)) = Len(q) + 1 /\ Append(q, p)[Len(q) + 1] = p
  BY <1>1, AppendProperties
<1>9. /\ fl2.blink = IF Len(Append(q, p)) = 0 THEN NoFrame ELSE Append(q, p)[Len(Append(q, p))]
      /\ fl2.total = Len(Append(q, p)) /\ av2 = Len(Append(q, p))
  BY <1>1, <1>2, <1>8 DEF LinkedQueue
<1>10. \A f \in Frames : db2[f].at = "free" <=> f \in Elements(Append(q, p))
  <2>1. \A f \in Frames : db[f].at = "free" <=> f \in Elements(q)
    BY DEF QueueOf
  <2> QED BY <1>7, <2>1 DEF LinkedQueue
<1> QED BY <1>5, <1>6, <1>7, <1>9, <1>10 DEF QueueOf

(* The colour list of the frame, and the others.                           *)
LinkedColor(p, e, db, e2, db2) ==
  /\ \A f \in Frames :
       /\ db2[f].prev = IF f = p THEN (IF e.flink = NoFrame THEN NoPrev ELSE e.blink) ELSE db[f].prev
       /\ db2[f].next = IF f = p THEN NoFrame
                        ELSE IF e.flink # NoFrame /\ f = e.blink THEN p ELSE db[f].next
  /\ e2 = [flink |-> IF e.flink = NoFrame THEN p ELSE e.flink, blink |-> p, count |-> e.count + 1]

LEMMA ColorFacts ==
  ASSUME NEW l, NEW q, NEW c, NEW db, NEW e, ColorOf(l, q, c, db, e)
  PROVE  /\ l \in Seq(1 .. LastFrame) /\ Once(l) /\ Len(l) \in Nat /\ DOMAIN l = 1 .. Len(l)
         /\ \A i \in 1 .. Len(l) : /\ l[i] \in 1 .. LastFrame /\ l[i] \in Frames
                                   /\ l[i] \in Elements(q) /\ Color(l[i]) = c
         /\ e.flink = NoFrame <=> Len(l) = 0
         /\ Len(l) # 0 => e.flink = l[1] /\ e.blink = l[Len(l)]
         /\ Elements(l) = {f \in Elements(q) : Color(f) = c}
<1>1. l \in Seq(1 .. LastFrame) /\ Once(l) /\ Elements(l) = {f \in Elements(q) : Color(f) = c}
  BY DEF ColorOf
<1>2. Len(l) \in Nat /\ DOMAIN l = 1 .. Len(l)
  BY <1>1, LenProperties
<1>3. \A i \in 1 .. Len(l) : l[i] \in 1 .. LastFrame
  BY <1>1, ElementOfSeq
<1>4. \A i \in 1 .. Len(l) : l[i] \in Frames /\ l[i] \in Elements(q) /\ Color(l[i]) = c
  <2>1. \A i \in 1 .. Len(l) : l[i] \in Elements(l)
    BY <1>2 DEF Elements
  <2>2. \A i \in 1 .. Len(l) : l[i] \in Frames
    BY <1>3 DEF Frames, Table
  <2> QED BY <1>1, <2>1, <2>2
<1>5. Chain(l, e.flink, Nexts(db)) /\ (Len(l) # 0 => e.blink = l[Len(l)])
  BY DEF ColorOf
<1>6. Len(l) # 0 => e.flink = l[1] /\ l[1] # NoFrame
  BY <1>2, <1>3, <1>5 DEF Chain, NoFrame
<1>7. Len(l) = 0 => e.flink = NoFrame
  BY <1>5 DEF Chain
<1> QED BY <1>1, <1>2, <1>3, <1>4, <1>5, <1>6, <1>7

LEMMA LinkGrowsColor ==
  ASSUME NEW q \in Seq(1 .. LastFrame), NEW p \in 1 .. LastFrame, p \notin Elements(q), NEW l,
         NEW db, NEW e, NEW db2, NEW e2,
         ColorOf(l, q, Color(p), db, e), LinkedColor(p, e, db, e2, db2),
         Once(q)
  PROVE  ColorOf(Append(l, p), Append(q, p), Color(p), db2, e2)
<1>1. /\ l \in Seq(1 .. LastFrame) /\ Once(l) /\ Len(l) \in Nat /\ DOMAIN l = 1 .. Len(l)
      /\ \A i \in 1 .. Len(l) : /\ l[i] \in 1 .. LastFrame /\ l[i] \in Frames
                                /\ l[i] \in Elements(q) /\ Color(l[i]) = Color(p)
      /\ e.flink = NoFrame <=> Len(l) = 0
      /\ Len(l) # 0 => e.flink = l[1] /\ e.blink = l[Len(l)]
      /\ Elements(l) = {f \in Elements(q) : Color(f) = Color(p)}
  BY ColorFacts
<1>2. p \notin Elements(l) /\ p \in Frames /\ \A i \in 1 .. Len(l) : l[i] # p
  BY <1>1 DEF Frames, Table
<1>3. Chain(Append(l, p), e2.flink, Nexts(db2))
  <2>1. Chain(l, e.flink, Nexts(db))
    BY DEF ColorOf
  <2>2. e2.flink = IF Len(l) = 0 THEN p ELSE e.flink
    BY <1>1 DEF LinkedColor
  <2>3. Nexts(db2)[p] = NoFrame
    BY <1>2 DEF LinkedColor, Nexts
  <2>4. ASSUME Len(l) # 0 PROVE Nexts(db2)[l[Len(l)]] = p
    <3>1. Len(l) \in 1 .. Len(l)
      BY <1>1, <2>4
    <3> QED BY <1>1, <1>2, <2>4, <3>1 DEF LinkedColor, Nexts
  <2>5. ASSUME NEW i \in 1 .. Len(l) - 1 PROVE Nexts(db2)[l[i]] = Nexts(db)[l[i]]
    <3>0. Len(l) \in Nat
      BY <1>1
    <3>1. i \in 1 .. Len(l) /\ Len(l) \in 1 .. Len(l) /\ i # Len(l) /\ Len(l) # 0
      BY <3>0
    <3>2. l[i] # e.blink
      BY <1>1, <3>1 DEF Once
    <3> QED BY <1>1, <1>2, <3>1, <3>2 DEF LinkedColor, Nexts
  <2>6. GrowsChain(l, p, e.flink, Nexts(db), e2.flink, Nexts(db2))
    BY <2>1, <2>2, <2>3, <2>4, <2>5 DEF GrowsChain
  <2> QED BY <1>1, <2>6, ChainAppend
<1>4. Back(Append(l, p), Prevs(db2), NoPrev)
  <2>1. Back(l, Prevs(db), NoPrev)
    BY DEF ColorOf
  <2>2. Prevs(db2)[p] = IF Len(l) = 0 THEN NoPrev ELSE l[Len(l)]
    BY <1>1, <1>2 DEF LinkedColor, Prevs
  <2>3. \A i \in 1 .. Len(l) : Prevs(db2)[l[i]] = Prevs(db)[l[i]]
    BY <1>1, <1>2 DEF LinkedColor, Prevs
  <2>4. GrowsBack(l, p, Prevs(db), Prevs(db2), NoPrev)
    BY <2>1, <2>2, <2>3 DEF GrowsBack
  <2> QED BY <1>1, <2>4, BackAppend
<1>5. /\ Append(l, p) \in Seq(1 .. LastFrame) /\ Once(Append(l, p))
      /\ Elements(Append(l, p)) = Elements(l) \cup {p}
  BY <1>1, <1>2, AppendOnce
<1>6. Elements(Append(q, p)) = Elements(q) \cup {p}
  BY AppendOnce
<1>7. Len(Append(l, p)) = Len(l) + 1 /\ Append(l, p)[Len(l) + 1] = p
      /\ \A i \in 1 .. Len(l) : Append(l, p)[i] = l[i]
  BY <1>1, AppendProperties
<1>8. e2.count = Len(Append(l, p)) /\ e2.blink = Append(l, p)[Len(Append(l, p))]
  <2>1. e.count = Len(l)
    BY DEF ColorOf
  <2> QED BY <1>1, <1>7, <2>1 DEF LinkedColor
<1>9. Elements(Append(l, p)) = {f \in Elements(Append(q, p)) : Color(f) = Color(p)}
  BY <1>1, <1>5, <1>6
<1>10. ASSUME NEW i \in DOMAIN Append(l, p), NEW j \in DOMAIN Append(l, p), i < j
       PROVE  Precedes(Append(q, p), Append(l, p)[i], Append(l, p)[j])
  <2>1. i \in 1 .. Len(l) + 1 /\ j \in 1 .. Len(l) + 1
    BY <1>5, <1>7, LenProperties
  <2>2. i \in 1 .. Len(l) /\ Append(l, p)[i] = l[i] /\ l[i] \in Elements(q)
    BY <1>1, <1>7, <1>10, <2>1
  <2>3. CASE j = Len(l) + 1
    BY <1>7, <2>2, <2>3, PrecedesAppend
  <2>4. CASE j # Len(l) + 1
    <3>1. j \in 1 .. Len(l) /\ Append(l, p)[j] = l[j]
      BY <1>1, <1>7, <2>1, <2>4
    <3>2. Precedes(q, l[i], l[j])
      BY <1>1, <1>10, <2>2, <3>1 DEF ColorOf
    <3> QED BY <2>2, <3>1, <3>2, PrecedesAppend
  <2> QED BY <2>3, <2>4
<1> QED BY <1>3, <1>4, <1>5, <1>8, <1>9, <1>10 DEF ColorOf

LEMMA LinkKeepsColor ==
  ASSUME NEW q \in Seq(1 .. LastFrame), NEW p \in 1 .. LastFrame, p \notin Elements(q), NEW l,
         NEW k, NEW c, c # Color(p), NEW db, NEW e, NEW d, NEW db2, NEW d2, Once(q),
         ColorOf(l, q, c, db, e), ColorOf(k, q, Color(p), db, d), LinkedColor(p, d, db, d2, db2)
  PROVE  ColorOf(l, Append(q, p), c, db2, e)
<1>1. /\ l \in Seq(1 .. LastFrame) /\ DOMAIN l = 1 .. Len(l)
      /\ \A i \in 1 .. Len(l) : l[i] \in Frames /\ l[i] \in Elements(q) /\ Color(l[i]) = c
      /\ Elements(l) = {f \in Elements(q) : Color(f) = c}
  BY ColorFacts
<1>2. /\ Len(k) \in Nat /\ \A i \in 1 .. Len(k) : Color(k[i]) = Color(p)
      /\ d.flink = NoFrame <=> Len(k) = 0
      /\ Len(k) # 0 => d.blink = k[Len(k)]
  BY ColorFacts
<1>3. d.flink # NoFrame => Color(d.blink) = Color(p)
  BY <1>2
<1>4. \A f \in Elements(l) : f \in Frames /\ f # p /\ Color(f) = c
  BY <1>1 DEF Elements
<1>5. \A f \in Elements(l) : Nexts(db2)[f] = Nexts(db)[f] /\ Prevs(db2)[f] = Prevs(db)[f]
  BY <1>3, <1>4 DEF LinkedColor, Nexts, Prevs
<1>6. Chain(l, e.flink, Nexts(db2)) /\ Back(l, Prevs(db2), NoPrev)
  <2>1. Chain(l, e.flink, Nexts(db)) /\ Back(l, Prevs(db), NoPrev)
    BY DEF ColorOf
  <2> QED BY <1>1, <1>5, <2>1, ChainSame, BackSame
<1>7. Elements(l) = {f \in Elements(Append(q, p)) : Color(f) = c}
  <2>1. Elements(Append(q, p)) = Elements(q) \cup {p}
    BY AppendOnce
  <2> QED BY <1>1, <2>1
<1>8. \A i, j \in DOMAIN l : i < j => Precedes(Append(q, p), l[i], l[j])
  <2>1. \A i, j \in DOMAIN l : i < j => Precedes(q, l[i], l[j])
    BY DEF ColorOf
  <2> QED BY <2>1, PrecedesAppend
<1> QED BY <1>6, <1>7, <1>8 DEF ColorOf

(* What the lists say of the types of the variables.                       *)
LEMMA ListTypes ==
  ASSUME NEW q, NEW fl, NEW av, NEW db, QueueOf(q, db, fl, av)
  PROVE  /\ Len(q) \in 0 .. LastFrame /\ DOMAIN q = 1 .. Len(q)
         /\ \A i \in 1 .. Len(q) : q[i] \in 1 .. LastFrame /\ q[i] \in Frames
         /\ fl.flink \in Frames \cup {NoFrame} /\ fl.blink \in Frames \cup {NoFrame}
         /\ fl.total \in 0 .. LastFrame /\ av \in 0 .. LastFrame
<1>1. /\ q \in Seq(1 .. LastFrame) /\ Once(q)
      /\ fl.blink = IF Len(q) = 0 THEN NoFrame ELSE q[Len(q)]
      /\ fl.total = Len(q) /\ av = Len(q)
      /\ Chain(q, fl.flink, Flinks(db))
  BY DEF QueueOf
<1>2. Len(q) \in 0 .. LastFrame /\ DOMAIN q = 1 .. Len(q)
  BY <1>1, LenProperties, OnceLength
<1>3. \A i \in 1 .. Len(q) : q[i] \in 1 .. LastFrame /\ q[i] \in Frames
  BY <1>1, ElementOfSeq DEF Frames, Table
<1>4. fl.flink = IF Len(q) = 0 THEN NoFrame ELSE q[1]
  BY <1>1 DEF Chain
<1> QED BY <1>1, <1>2, <1>3, <1>4

LEMMA ColorTypes ==
  ASSUME NEW l, NEW q, NEW c, NEW db, NEW e, ColorOf(l, q, c, db, e)
  PROVE  /\ e.flink \in Frames \cup {NoFrame}
         /\ e.flink # NoFrame => e.blink \in Frames
         /\ e.count \in 0 .. LastFrame
<1>1. /\ l \in Seq(1 .. LastFrame) /\ Once(l) /\ Len(l) \in Nat
      /\ \A i \in 1 .. Len(l) : l[i] \in Frames
      /\ e.flink = NoFrame <=> Len(l) = 0
      /\ Len(l) # 0 => e.flink = l[1] /\ e.blink = l[Len(l)]
  BY ColorFacts
<1>2. e.count = Len(l) /\ Len(l) <= LastFrame
  BY <1>1, OnceLength DEF ColorOf
<1> QED BY <1>1, <1>2

LEMMA ColorInRange ==
  ASSUME NEW f \in Frames
  PROVE  Color(f) \in 0 .. Colors - 1
BY DEF Color, Frames, Table

ListVars ==
  /\ pfn \in [Frames -> FrameRecord]
  /\ freeList \in [flink : Frames \cup {NoFrame}, blink : Frames \cup {NoFrame},
                   total : 0 .. LastFrame]
  /\ colors \in [0 .. Colors - 1 -> ColorRecord]
  /\ available \in 0 .. LastFrame

(* A frame is linked at the end of both of its lists.                      *)
LEMMA LinkGrowsLists ==
  ASSUME NEW q, Lists(q), ListVars, NEW db \in [Frames -> FrameRecord], NEW p \in 1 .. LastFrame,
         p \notin Elements(q), \A f \in Frames : f # p => db[f] = pfn[f],
         LinkFreePage(db, p)
  PROVE  /\ Lists(Append(q, p))' /\ ListVars'
         /\ \A f \in Frames : /\ pfn'[f].refs = db[f].refs /\ pfn'[f].removable = db[f].removable
                              /\ f # p => pfn'[f].at = pfn[f].at /\ pfn'[f].u2 = pfn[f].u2
         /\ pfn'[p].at = "free"
<1>1. QueueOf(q, pfn, freeList, available)
  BY DEF Lists
<1>2. p \in Frames /\ Color(p) \in 0 .. Colors - 1
  BY ColorInRange DEF Frames, Table
<1>3. PICK k : ColorOf(k, q, Color(p), pfn, colors[Color(p)])
  BY <1>2 DEF Lists
<1>4. /\ freeList.blink \in Frames \cup {NoFrame}
      /\ colors[Color(p)].flink # NoFrame => colors[Color(p)].blink \in Frames
  BY <1>1, <1>3, ListTypes, ColorTypes
<1>5. LinkedFields(db, p, freeList.blink, colors[Color(p)].flink = NoFrame,
                   colors[Color(p)].blink, pfn')
  BY <1>2, <1>4, LinkSetsFields
<1>6. q \in Seq(1 .. LastFrame) /\ Once(q)
  BY <1>1 DEF QueueOf
<1>7. LinkedQueue(q, p, freeList, available, pfn, freeList', available', pfn')
  <2>1. /\ freeList' = [flink |-> IF freeList.blink = NoFrame THEN p ELSE freeList.flink,
                        blink |-> p, total |-> freeList.total + 1]
        /\ available' = available + 1
    BY DEF LinkFreePage, LinkAt
  <2> QED BY <1>5, <2>1 DEF LinkedQueue, LinkedFields
<1>8. QueueOf(Append(q, p), pfn', freeList', available')
  BY <1>1, <1>7, LinkGrowsQueue
<1>9. PICK e2 : e2 = [flink |-> IF colors[Color(p)].flink = NoFrame THEN p ELSE colors[Color(p)].flink,
                      blink |-> p, count |-> colors[Color(p)].count + 1]
  OBVIOUS
<1>10. colors' = [colors EXCEPT ![Color(p)] = e2]
  BY <1>9 DEF LinkFreePage, LinkAt
<1>11. LinkedColor(p, colors[Color(p)], pfn, e2, pfn')
  BY <1>5, <1>9 DEF LinkedColor, LinkedFields
<1>12. ColorOf(Append(k, p), Append(q, p), Color(p), pfn', e2)
  BY <1>3, <1>6, <1>11, LinkGrowsColor
<1>13. colors' \in [0 .. Colors - 1 -> ColorRecord]
  <2>1. e2 \in ColorRecord
    <3>1. e2.flink \in Frames \cup {NoFrame} /\ e2.count \in 0 .. LastFrame
      BY <1>12, ColorTypes
    <3>2. p \in Int
      OBVIOUS
    <3> QED BY <1>9, <3>1, <3>2 DEF ColorRecord
  <2> QED BY <1>10, <2>1 DEF ListVars
<1>14. ASSUME NEW c \in 0 .. Colors - 1
       PROVE  \E l : ColorOf(l, Append(q, p), c, pfn', colors'[c])
  <2>1. CASE c = Color(p)
    <3>1. colors'[c] = e2
      BY <1>2, <1>10, <2>1 DEF ListVars
    <3> QED BY <1>12, <2>1, <3>1
  <2>2. CASE c # Color(p)
    <3>1. colors'[c] = colors[c]
      BY <1>10, <2>2 DEF ListVars
    <3>2. PICK l : ColorOf(l, q, c, pfn, colors[c])
      BY DEF Lists
    <3>3. ColorOf(l, Append(q, p), c, pfn', colors[c])
      BY <1>3, <1>6, <1>11, <2>2, <3>2, LinkKeepsColor
    <3> QED BY <3>1, <3>3
  <2> QED BY <2>1, <2>2
<1>15. Lists(Append(q, p))'
  BY <1>8, <1>14 DEF Lists
<1>16. ListVars'
  <2>1. /\ freeList'.flink \in Frames \cup {NoFrame} /\ freeList'.blink \in Frames \cup {NoFrame}
        /\ freeList'.total \in 0 .. LastFrame /\ available' \in 0 .. LastFrame
    BY <1>8, ListTypes
  <2>2. freeList' = [flink |-> freeList'.flink, blink |-> freeList'.blink, total |-> freeList'.total]
    BY DEF LinkFreePage, LinkAt
  <2>3. freeList' \in [flink : Frames \cup {NoFrame}, blink : Frames \cup {NoFrame},
                       total : 0 .. LastFrame]
    BY <2>1, <2>2
  <2> QED BY <1>5, <1>13, <2>1, <2>3 DEF ListVars, LinkedFields
<1> QED BY <1>2, <1>5, <1>15, <1>16 DEF LinkedFields


-----------------------------------------------------------------------------
(* Taking out a frame that is the first one of its colour.                 *)

(* The fields of the database after that.                                  *)
UnlinkedFields(p, db) ==
  /\ db \in [Frames -> FrameRecord]
  /\ \A f \in Frames :
       /\ db[f].flink = IF f = p THEN 0 ELSE IF f = pfn[p].u2 THEN pfn[p].flink ELSE pfn[f].flink
       /\ db[f].u2 = IF f = p THEN 0 ELSE IF f = pfn[p].flink THEN pfn[p].u2 ELSE pfn[f].u2
       /\ db[f].prev = IF f = pfn[p].next THEN NoPrev ELSE pfn[f].prev
       /\ db[f].next = pfn[f].next
       /\ db[f].at = IF f = p THEN "zeroed" ELSE pfn[f].at
       /\ db[f].refs = pfn[f].refs
       /\ db[f].removable = pfn[f].removable

LEMMA UnlinkSetsFields ==
  ASSUME pfn \in [Frames -> FrameRecord], NEW p \in Frames, pfn[p].prev = NoPrev,
         pfn[p].u2 \in Frames \cup {NoFrame}
  PROVE  UnlinkedFields(p, Unlinked(p))
<1>1. PICK e : e = pfn[p]
  OBVIOUS
<1>2. /\ e \in FrameRecord /\ e.prev = NoPrev /\ e.u2 \in Frames \cup {NoFrame}
      /\ e.flink \in Frames \cup {NoFrame} /\ e.next \in Frames \cup {NoFrame} /\ e.u2 \in Int
  BY <1>1 DEF FrameRecord
<1>3. PICK db1 : db1 = IF e.u2 = NoFrame THEN pfn ELSE [pfn EXCEPT ![e.u2].flink = e.flink]
  OBVIOUS
<1>4. PICK db2 : db2 = IF e.flink = NoFrame THEN db1 ELSE [db1 EXCEPT ![e.flink].u2 = e.u2]
  OBVIOUS
<1>5. PICK db4 : db4 = IF e.next = NoFrame THEN db2 ELSE [db2 EXCEPT ![e.next].prev = NoPrev]
  OBVIOUS
<1>6. Unlinked(p) = [db4 EXCEPT ![p].flink = 0, ![p].u2 = 0, ![p].at = "zeroed"]
  <2> DEFINE r == pfn[p]
             d1 == IF r.u2 = NoFrame THEN pfn ELSE [pfn EXCEPT ![r.u2].flink = r.flink]
             d2 == IF r.flink = NoFrame THEN d1 ELSE [d1 EXCEPT ![r.flink].u2 = r.u2]
             d3 == IF r.prev = NoPrev THEN d2 ELSE [d2 EXCEPT ![r.prev].next = r.next]
             d4 == IF r.next = NoFrame THEN d3 ELSE [d3 EXCEPT ![r.next].prev = r.prev]
  <2>1. Unlinked(p) = [d4 EXCEPT ![p].flink = 0, ![p].u2 = 0, ![p].at = "zeroed"]
    BY Zenon DEF Unlinked, UnlinkedBefore
  <2>2. r = e
    BY <1>1
  <2> HIDE DEF r
  <2>3. d1 = db1
    BY <1>3, <2>2, Zenon
  <2> HIDE DEF d1
  <2>4. d2 = db2
    BY <1>4, <2>2, <2>3, Zenon
  <2> HIDE DEF d2
  <2>5. d3 = db2
    BY <1>2, <2>2, <2>4, Zenon
  <2> HIDE DEF d3
  <2>6. d4 = db4
    BY <1>2, <1>5, <2>2, <2>5, Zenon
  <2> HIDE DEF d4
  <2> QED BY <2>1, <2>6, Zenon
<1>7. NoFrame \notin Frames
  BY DEF NoFrame, Frames, Table
<1>8. /\ db1 \in [Frames -> FrameRecord]
      /\ \A f \in Frames :
           /\ db1[f].flink = IF f = e.u2 THEN e.flink ELSE pfn[f].flink
           /\ db1[f].u2 = pfn[f].u2 /\ db1[f].prev = pfn[f].prev /\ db1[f].next = pfn[f].next
           /\ db1[f].at = pfn[f].at /\ db1[f].refs = pfn[f].refs
           /\ db1[f].removable = pfn[f].removable
  <2>1. CASE e.u2 = NoFrame
    BY <1>3, <1>7, <2>1
  <2>2. CASE e.u2 # NoFrame
    <3>1. e.u2 \in Frames
      BY <1>2, <2>2
    <3>2. db1 = [pfn EXCEPT ![e.u2] = [pfn[e.u2] EXCEPT !.flink = e.flink]]
      BY <1>3, <2>2
    <3>3. [pfn[e.u2] EXCEPT !.flink = e.flink] \in FrameRecord
      BY <1>2, <3>1 DEF FrameRecord
    <3> QED BY <3>1, <3>2, <3>3 DEF FrameRecord
  <2> QED BY <2>1, <2>2
<1>9. /\ db2 \in [Frames -> FrameRecord]
      /\ \A f \in Frames :
           /\ db2[f].u2 = IF f = e.flink THEN e.u2 ELSE db1[f].u2
           /\ db2[f].flink = db1[f].flink /\ db2[f].prev = db1[f].prev /\ db2[f].next = db1[f].next
           /\ db2[f].at = db1[f].at /\ db2[f].refs = db1[f].refs
           /\ db2[f].removable = db1[f].removable
  <2>1. CASE e.flink = NoFrame
    BY <1>4, <1>7, <1>8, <2>1
  <2>2. CASE e.flink # NoFrame
    <3>1. e.flink \in Frames
      BY <1>2, <2>2
    <3>2. db2 = [db1 EXCEPT ![e.flink] = [db1[e.flink] EXCEPT !.u2 = e.u2]]
      BY <1>4, <2>2
    <3>3. [db1[e.flink] EXCEPT !.u2 = e.u2] \in FrameRecord
      BY <1>2, <1>8, <3>1 DEF FrameRecord
    <3> QED BY <1>8, <3>1, <3>2, <3>3 DEF FrameRecord
  <2> QED BY <2>1, <2>2
<1>10. /\ db4 \in [Frames -> FrameRecord]
       /\ \A f \in Frames :
            /\ db4[f].prev = IF f = e.next THEN NoPrev ELSE db2[f].prev
            /\ db4[f].flink = db2[f].flink /\ db4[f].u2 = db2[f].u2 /\ db4[f].next = db2[f].next
            /\ db4[f].at = db2[f].at /\ db4[f].refs = db2[f].refs
            /\ db4[f].removable = db2[f].removable
  <2>1. CASE e.next = NoFrame
    BY <1>5, <1>7, <1>9, <2>1
  <2>2. CASE e.next # NoFrame
    <3>1. e.next \in Frames
      BY <1>2, <2>2
    <3>2. db4 = [db2 EXCEPT ![e.next] = [db2[e.next] EXCEPT !.prev = NoPrev]]
      BY <1>5, <2>2
    <3>3. [db2[e.next] EXCEPT !.prev = NoPrev] \in FrameRecord
      BY <1>9, <3>1 DEF FrameRecord
    <3> QED BY <1>9, <3>1, <3>2, <3>3 DEF FrameRecord
  <2> QED BY <2>1, <2>2
<1>11. PICK r : r = [db4[p] EXCEPT !.flink = 0, !.u2 = 0, !.at = "zeroed"]
  OBVIOUS
<1>12. Unlinked(p) = [db4 EXCEPT ![p] = r]
  BY <1>6, <1>10, <1>11
<1>13. /\ r \in FrameRecord /\ r.flink = 0 /\ r.u2 = 0 /\ r.at = "zeroed"
       /\ r.prev = db4[p].prev /\ r.next = db4[p].next /\ r.refs = db4[p].refs
       /\ r.removable = db4[p].removable
  <2>1. db4[p] \in FrameRecord
    BY <1>10
  <2>2. r = [flink |-> 0, u2 |-> 0, prev |-> db4[p].prev, next |-> db4[p].next,
             refs |-> db4[p].refs, removable |-> db4[p].removable, at |-> "zeroed"]
    BY <1>11, <2>1 DEF FrameRecord
  <2>3. 0 \in Frames
    BY DEF Frames, Table
  <2> QED BY <2>1, <2>2, <2>3 DEF FrameRecord
<1>14. PICK db : db = Unlinked(p)
  OBVIOUS
<1>15. /\ db \in [Frames -> FrameRecord] /\ db[p] = r
       /\ \A f \in Frames : f # p => db[f] = db4[f]
  BY <1>10, <1>12, <1>13, <1>14
<1>16. UnlinkedFields(p, db)
  BY <1>1, <1>8, <1>9, <1>10, <1>13, <1>15 DEF UnlinkedFields
<1> QED BY <1>14, <1>16

(* The fields of the database after a frame was put to use.                *)
ActivatedFields(db, p, kind, db2) ==
  /\ db2 \in [Frames -> FrameRecord]
  /\ \A f \in Frames :
       /\ db2[f].flink = db[f].flink
       /\ db2[f].u2 = IF f = p THEN 1 ELSE IF f = Table /\ kind = "stack" THEN db[f].u2 + 1
                      ELSE db[f].u2
       /\ db2[f].prev = IF f = p THEN Table ELSE db[f].prev
       /\ db2[f].next = db[f].next
       /\ db2[f].at = IF f = p THEN "active" ELSE db[f].at
       /\ db2[f].refs = IF f = p THEN 1 ELSE db[f].refs
       /\ db2[f].removable = IF f = p THEN FALSE ELSE db[f].removable

LEMMA ActivateSetsFields ==
  ASSUME NEW db \in [Frames -> FrameRecord], NEW p \in 0 .. LastFrame, NEW kind
  PROVE  ActivatedFields(db, p, kind, Activated(db, p, kind))
<1>1. p \in Frames /\ Table \in Frames /\ p # Table
  BY DEF Frames, Table
<1>2. PICK r : r = [db[p] EXCEPT !.u2 = 1, !.at = "active", !.refs = 1, !.removable = FALSE,
                                 !.prev = Table]
  OBVIOUS
<1>3. PICK db1 : db1 = [db EXCEPT ![p] = r]
  OBVIOUS
<1>4. /\ r \in FrameRecord /\ r.u2 = 1 /\ r.at = "active" /\ r.refs = 1 /\ r.removable = FALSE
      /\ r.prev = Table /\ r.flink = db[p].flink /\ r.next = db[p].next
  <2>1. db[p] \in FrameRecord
    BY <1>1
  <2>2. r = [flink |-> db[p].flink, u2 |-> 1, prev |-> Table, next |-> db[p].next,
             refs |-> 1, removable |-> FALSE, at |-> "active"]
    BY <1>2, <2>1 DEF FrameRecord
  <2> QED BY <1>1, <2>1, <2>2 DEF FrameRecord
<1>5. db1 \in [Frames -> FrameRecord] /\ db1[p] = r /\ \A f \in Frames : f # p => db1[f] = db[f]
  BY <1>1, <1>3, <1>4
<1>6. PICK u : u = IF kind = "stack" THEN db1[Table].u2 + 1 ELSE db1[Table].u2
  OBVIOUS
<1>7. PICK t : t = [db1[Table] EXCEPT !.u2 = u]
  OBVIOUS
<1>8. Activated(db, p, kind) = [db1 EXCEPT ![Table] = t]
  BY <1>1, <1>2, <1>3, <1>6, <1>7 DEF Activated, ActivatedAs
<1>9. /\ t \in FrameRecord /\ t.u2 = u /\ t.flink = db1[Table].flink /\ t.prev = db1[Table].prev
      /\ t.next = db1[Table].next /\ t.refs = db1[Table].refs
      /\ t.removable = db1[Table].removable /\ t.at = db1[Table].at
  <2>1. db1[Table] \in FrameRecord
    BY <1>1, <1>5
  <2>2. u \in Int
    BY <1>6, <2>1 DEF FrameRecord
  <2>3. t = [flink |-> db1[Table].flink, u2 |-> u, prev |-> db1[Table].prev,
             next |-> db1[Table].next, refs |-> db1[Table].refs,
             removable |-> db1[Table].removable, at |-> db1[Table].at]
    BY <1>7, <2>1 DEF FrameRecord
  <2> QED BY <2>1, <2>2, <2>3 DEF FrameRecord
<1>10. PICK db2 : db2 = Activated(db, p, kind)
  OBVIOUS
<1>11. /\ db2 \in [Frames -> FrameRecord] /\ db2[Table] = t
       /\ \A f \in Frames : f # Table => db2[f] = db1[f]
  BY <1>1, <1>5, <1>8, <1>9, <1>10
<1>12. ActivatedFields(db, p, kind, db2)
  <2> SUFFICES ASSUME NEW f \in Frames
      PROVE /\ db2[f].flink = db[f].flink
            /\ db2[f].u2 = IF f = p THEN 1 ELSE IF f = Table /\ kind = "stack" THEN db[f].u2 + 1
                           ELSE db[f].u2
            /\ db2[f].prev = IF f = p THEN Table ELSE db[f].prev
            /\ db2[f].next = db[f].next
            /\ db2[f].at = IF f = p THEN "active" ELSE db[f].at
            /\ db2[f].refs = IF f = p THEN 1 ELSE db[f].refs
            /\ db2[f].removable = IF f = p THEN FALSE ELSE db[f].removable
    BY <1>11 DEF ActivatedFields
  <2>1. CASE f = p
    <3>1. db2[f] = r
      BY <1>1, <1>5, <1>11, <2>1
    <3> QED BY <1>4, <2>1, <3>1
  <2>2. CASE f = Table
    <3>1. db2[f] = t /\ f # p /\ db1[f] = db[f]
      BY <1>1, <1>5, <1>11, <2>2
    <3> QED BY <1>6, <1>9, <2>2, <3>1
  <2>3. CASE f # p /\ f # Table
    <3>1. db2[f] = db[f]
      BY <1>5, <1>11, <2>3
    <3> QED BY <2>3, <3>1
  <2> QED BY <2>1, <2>2, <2>3
<1> QED BY <1>10, <1>12

(* The free list without its k-th frame.                                   *)
UnlinkedQueue(p, fl, av, db, fl2, av2, db2) ==
  /\ \A f \in 1 .. LastFrame : f # p =>
       /\ db2[f].flink = IF f = db[p].u2 THEN db[p].flink ELSE db[f].flink
       /\ db2[f].u2 = IF f = db[p].flink THEN db[p].u2 ELSE db[f].u2
  /\ \A f \in Frames : db2[f].at = "free" <=> f # p /\ db[f].at = "free"
  /\ fl2 = [flink |-> IF db[p].u2 = NoFrame THEN db[p].flink ELSE fl.flink,
            blink |-> IF db[p].flink = NoFrame THEN db[p].u2 ELSE fl.blink,
            total |-> fl.total - 1]
  /\ av2 = av - 1

LEMMA UnlinkCutsQueue ==
  ASSUME NEW q, NEW k \in 1 .. Len(q), NEW fl, NEW av, NEW db, NEW fl2, NEW av2, NEW db2,
         QueueOf(q, db, fl, av), UnlinkedQueue(q[k], fl, av, db, fl2, av2, db2)
  PROVE  QueueOf(RemoveAt(q, k), db2, fl2, av2)
<1>1. /\ q \in Seq(1 .. LastFrame) /\ Once(q)
      /\ Chain(q, fl.flink, Flinks(db)) /\ Back(q, U2s(db), NoFrame)
      /\ fl.blink = IF Len(q) = 0 THEN NoFrame ELSE q[Len(q)]
      /\ fl.total = Len(q) /\ av = Len(q)
      /\ \A f \in Frames : db[f].at = "free" <=> f \in Elements(q)
  BY DEF QueueOf
<1>2. Len(q) \in Nat /\ DOMAIN q = 1 .. Len(q)
  BY <1>1, LenProperties
<1>3. /\ Len(q) # 0 /\ k \in Nat
      /\ \A i \in 1 .. Len(q) : q[i] \in 1 .. LastFrame /\ q[i] \in Frames /\ q[i] # NoFrame
  BY <1>1, <1>2, ElementOfSeq DEF Frames, Table, NoFrame
<1>4. /\ fl.flink = q[1] /\ db[q[Len(q)]].flink = NoFrame /\ db[q[1]].u2 = NoFrame
      /\ \A i \in 1 .. Len(q) - 1 : db[q[i]].flink = q[i + 1]
      /\ \A i \in 2 .. Len(q) : db[q[i]].u2 = q[i - 1]
  <2>1. \A i \in 1 .. Len(q) : Flinks(db)[q[i]] = db[q[i]].flink /\ U2s(db)[q[i]] = db[q[i]].u2
    BY <1>3 DEF Flinks, U2s
  <2>2. Len(q) \in 1 .. Len(q) /\ 1 \in 1 .. Len(q)
    BY <1>2, <1>3
  <2>3. (\A i \in 1 .. Len(q) - 1 : i \in 1 .. Len(q)) /\ (\A i \in 2 .. Len(q) : i \in 1 .. Len(q))
    BY <1>2
  <2> QED BY <1>1, <1>3, <2>1, <2>2, <2>3 DEF Chain, Back
<1>5. PICK p : p = q[k]
  OBVIOUS
<1>0. Len(q) \in Nat
  BY <1>2
<1>6. /\ p \in 1 .. LastFrame
      /\ db[p].u2 = IF k = 1 THEN NoFrame ELSE q[k - 1]
      /\ db[p].flink = IF k = Len(q) THEN NoFrame ELSE q[k + 1]
  <2>1. k = 1 \/ k \in 2 .. Len(q)
    BY <1>2, <1>3
  <2>2. k = Len(q) \/ k \in 1 .. Len(q) - 1
    BY <1>0
  <2> QED BY <1>3, <1>4, <1>5, <2>1, <2>2
<1>7. /\ \A f \in 1 .. LastFrame : f # p =>
           /\ db2[f].flink = IF f = db[p].u2 THEN db[p].flink ELSE db[f].flink
           /\ db2[f].u2 = IF f = db[p].flink THEN db[p].u2 ELSE db[f].u2
      /\ \A f \in Frames : db2[f].at = "free" <=> f # p /\ db[f].at = "free"
      /\ fl2.flink = IF db[p].u2 = NoFrame THEN db[p].flink ELSE fl.flink
      /\ fl2.blink = IF db[p].flink = NoFrame THEN db[p].u2 ELSE fl.blink
      /\ fl2.total = fl.total - 1 /\ av2 = av - 1
  BY <1>5 DEF UnlinkedQueue
<1>8. \A i \in 1 .. Len(q) : i # k => q[i] # p
  BY <1>1, <1>2, <1>5 DEF Once
<1>9. PICK t : t = RemoveAt(q, k)
  OBVIOUS
<1>10. /\ t \in Seq(1 .. LastFrame) /\ Once(t) /\ Elements(t) = Elements(q) \ {p}
       /\ Len(t) = Len(q) - 1
       /\ \A i \in 1 .. Len(q) - 1 : t[i] = IF i < k THEN q[i] ELSE q[i + 1]
  <2>1. k \in DOMAIN q
    BY <1>2
  <2>2. /\ RemoveAt(q, k) \in Seq(1 .. LastFrame) /\ Once(RemoveAt(q, k))
        /\ Elements(RemoveAt(q, k)) = Elements(q) \ {q[k]}
    BY <1>1, <2>1, RemoveAtOnce
  <2>3. /\ Len(RemoveAt(q, k)) = Len(q) - 1
        /\ \A i \in 1 .. Len(q) - 1 : RemoveAt(q, k)[i] = IF i < k THEN q[i] ELSE q[i + 1]
    BY <1>1, RemoveAtProperties
  <2> QED BY <1>5, <1>9, <2>2, <2>3
<1>11. Chain(t, fl2.flink, Flinks(db2))
  <2>1. fl2.flink = IF k = 1 THEN Flinks(db)[q[1]] ELSE fl.flink
    <3>1. k = 1 => Flinks(db)[q[1]] = db[p].flink
      BY <1>3, <1>5 DEF Flinks
    <3>2. k # 1 => db[p].u2 # NoFrame
      <4>1. k # 1 => k - 1 \in 1 .. Len(q)
        BY <1>2, <1>3
      <4> QED BY <1>3, <1>6, <4>1
    <3> QED BY <1>6, <1>7, <3>1, <3>2
  <2>2. ASSUME k > 1 PROVE Flinks(db2)[q[k - 1]] = Flinks(db)[q[k]]
    <3>1. k - 1 \in 1 .. Len(q) /\ k - 1 # k
      BY <1>2, <1>3, <2>2
    <3>2. q[k - 1] \in 1 .. LastFrame /\ q[k - 1] \in Frames /\ q[k - 1] # p /\ db[p].u2 = q[k - 1]
      BY <1>3, <1>6, <1>8, <2>2, <3>1
    <3>3. db2[q[k - 1]].flink = db[p].flink
      BY <1>7, <3>2
    <3> QED BY <1>3, <1>5, <3>2, <3>3 DEF Flinks
  <2>3. ASSUME NEW i \in 1 .. Len(q), i # k, i + 1 # k PROVE Flinks(db2)[q[i]] = Flinks(db)[q[i]]
    <3>1. q[i] \in 1 .. LastFrame /\ q[i] \in Frames /\ q[i] # p
      BY <1>3, <1>8, <2>3
    <3>2. q[i] # db[p].u2
      <4>1. CASE k = 1
        BY <1>3, <1>6, <4>1
      <4>2. CASE k # 1
        <5>1. k - 1 \in 1 .. Len(q) /\ k - 1 # i
          BY <1>2, <1>3, <2>3, <4>2
        <5> QED BY <1>1, <1>2, <1>6, <4>2, <5>1 DEF Once
      <4> QED BY <4>1, <4>2
    <3> QED BY <1>7, <3>1, <3>2 DEF Flinks
  <2>4. CutsChain(q, k, fl.flink, Flinks(db), fl2.flink, Flinks(db2))
    BY <1>1, <2>1, <2>2, <2>3 DEF CutsChain
  <2> QED BY <1>1, <1>9, <2>4, ChainRemove
<1>12. Back(t, U2s(db2), NoFrame)
  <2>1. ASSUME k < Len(q) PROVE U2s(db2)[q[k + 1]] = U2s(db)[q[k]]
    <3>1. k + 1 \in 1 .. Len(q) /\ k + 1 # k
      BY <1>2, <1>3, <2>1
    <3>2. /\ q[k + 1] \in 1 .. LastFrame /\ q[k + 1] \in Frames /\ q[k + 1] # p
          /\ db[p].flink = q[k + 1]
      BY <1>3, <1>6, <1>8, <2>1, <3>1
    <3>3. db2[q[k + 1]].u2 = db[p].u2
      BY <1>7, <3>2
    <3> QED BY <1>3, <1>5, <3>2, <3>3 DEF U2s
  <2>2. ASSUME NEW i \in 1 .. Len(q), i # k, i # k + 1 PROVE U2s(db2)[q[i]] = U2s(db)[q[i]]
    <3>1. q[i] \in 1 .. LastFrame /\ q[i] \in Frames /\ q[i] # p
      BY <1>3, <1>8, <2>2
    <3>2. q[i] # db[p].flink
      <4>1. CASE k = Len(q)
        BY <1>3, <1>6, <4>1
      <4>2. CASE k # Len(q)
        <5>1. k + 1 \in 1 .. Len(q) /\ k + 1 # i
          BY <1>0, <2>2, <4>2
        <5> QED BY <1>1, <1>2, <1>6, <4>2, <5>1 DEF Once
      <4> QED BY <4>1, <4>2
    <3> QED BY <1>7, <3>1, <3>2 DEF U2s
  <2>3. CutsBack(q, k, U2s(db), U2s(db2), NoFrame)
    BY <1>1, <2>1, <2>2 DEF CutsBack
  <2> QED BY <1>1, <1>9, <2>3, BackRemove
<1>13. fl2.blink = IF Len(t) = 0 THEN NoFrame ELSE t[Len(t)]
  <2>1. CASE k = Len(q)
    <3>1. fl2.blink = db[p].u2
      BY <1>6, <1>7, <2>1
    <3>2. CASE k = 1
      BY <1>6, <1>10, <2>1, <3>1, <3>2
    <3>3. CASE k # 1
      <4>1. Len(t) # 0 /\ Len(t) \in 1 .. Len(q) - 1 /\ Len(t) < k /\ Len(t) = k - 1
        BY <1>2, <1>3, <1>10, <2>1, <3>3
      <4> QED BY <1>6, <1>10, <3>1, <3>3, <4>1
    <3> QED BY <3>2, <3>3
  <2>2. CASE k # Len(q)
    <3>1. k + 1 \in 1 .. Len(q)
      BY <1>0, <2>2
    <3>2. fl2.blink = fl.blink
      BY <1>3, <1>6, <1>7, <2>2, <3>1
    <3>3. Len(t) # 0 /\ Len(t) \in 1 .. Len(q) - 1 /\ ~(Len(t) < k) /\ Len(t) + 1 = Len(q)
      <4>1. Len(t) = Len(q) - 1
        BY <1>10
      <4> QED BY <1>0, <2>2, <4>1
    <3> QED BY <1>1, <1>3, <1>10, <3>2, <3>3
  <2> QED BY <2>1, <2>2
<1>14. fl2.total = Len(t) /\ av2 = Len(t)
  BY <1>1, <1>7, <1>10
<1>15. \A f \in Frames : db2[f].at = "free" <=> f \in Elements(t)
  BY <1>1, <1>7, <1>10
<1> QED BY <1>9, <1>10, <1>11, <1>12, <1>13, <1>14, <1>15 DEF QueueOf

(* The colour list without its first frame, and the others.                *)
UnlinkedColor(p, e, db, e2, db2) ==
  /\ \A f \in 1 .. LastFrame : f # p =>
       /\ db2[f].prev = IF f = db[p].next THEN NoPrev ELSE db[f].prev
       /\ db2[f].next = db[f].next
  /\ e2 = [flink |-> db[p].next,
           blink |-> IF db[p].next = NoFrame THEN Cast(NoPrev) ELSE e.blink,
           count |-> e.count - 1]

LEMMA UnlinkCutsColor ==
  ASSUME NEW q \in Seq(1 .. LastFrame), Once(q), NEW k \in 1 .. Len(q), NEW l, Len(l) # 0,
         l[1] = q[k], NEW db, NEW e, NEW db2, NEW e2,
         ColorOf(l, q, Color(q[k]), db, e), UnlinkedColor(q[k], e, db, e2, db2)
  PROVE  ColorOf(RemoveAt(l, 1), RemoveAt(q, k), Color(q[k]), db2, e2)
<1>1. PICK p : p = q[k]
  OBVIOUS
<1>2. /\ l \in Seq(1 .. LastFrame) /\ Once(l) /\ Len(l) \in Nat /\ DOMAIN l = 1 .. Len(l)
      /\ \A i \in 1 .. Len(l) : /\ l[i] \in 1 .. LastFrame /\ l[i] \in Frames
                                /\ l[i] \in Elements(q) /\ Color(l[i]) = Color(p)
      /\ Elements(l) = {f \in Elements(q) : Color(f) = Color(p)}
      /\ e.blink = l[Len(l)]
  BY <1>1, ColorFacts
<1>3. /\ Chain(l, e.flink, Nexts(db)) /\ Back(l, Prevs(db), NoPrev) /\ e.count = Len(l)
      /\ \A i, j \in DOMAIN l : i < j => Precedes(q, l[i], l[j])
  BY DEF ColorOf
<1>4. /\ 1 \in 1 .. Len(l) /\ 1 \in DOMAIN l /\ p = l[1] /\ p \in 1 .. LastFrame
      /\ NoFrame \notin 1 .. LastFrame
  BY <1>1, <1>2 DEF NoFrame
<1>5. db[p].next = IF Len(l) = 1 THEN NoFrame ELSE l[2]
  <2>1. Nexts(db)[l[1]] = db[p].next
    BY <1>2, <1>4 DEF Nexts
  <2>2. CASE Len(l) = 1
    BY <1>3, <2>1, <2>2 DEF Chain
  <2>3. CASE Len(l) # 1
    <3>1. 1 \in 1 .. Len(l) - 1 /\ 1 + 1 = 2
      BY <1>2, <2>3
    <3> QED BY <1>3, <2>1, <2>3, <3>1 DEF Chain
  <2> QED BY <2>2, <2>3
<1>6. PICK m : m = RemoveAt(l, 1)
  OBVIOUS
<1>7. /\ m \in Seq(1 .. LastFrame) /\ Once(m) /\ Elements(m) = Elements(l) \ {p}
      /\ Len(m) = Len(l) - 1 /\ DOMAIN m = 1 .. Len(l) - 1
      /\ \A i \in 1 .. Len(l) - 1 : m[i] = l[i + 1]
  <2>1. m \in Seq(1 .. LastFrame) /\ Len(m) = Len(l) - 1
        /\ \A i \in 1 .. Len(l) - 1 : m[i] = IF i < 1 THEN l[i] ELSE l[i + 1]
    BY <1>2, <1>4, <1>6, RemoveAtProperties
  <2>2. Once(m) /\ Elements(m) = Elements(l) \ {p}
    BY <1>2, <1>4, <1>6, RemoveAtOnce
  <2>3. DOMAIN m = 1 .. Len(l) - 1
    BY <2>1, LenProperties
  <2> QED BY <1>2, <2>1, <2>2, <2>3
<1>0. Len(l) \in Nat
  BY <1>2
<1>8. ASSUME NEW i \in 2 .. Len(l)
      PROVE  i \in 1 .. Len(l) /\ l[i] # p /\ l[i] \in 1 .. LastFrame /\ l[i] \in Frames
  <2>1. i \in 1 .. Len(l) /\ i # 1
    BY <1>0
  <2> QED BY <1>2, <1>4, <2>1 DEF Once
<1>9. Chain(m, e2.flink, Nexts(db2))
  <2>1. e2.flink = Nexts(db)[l[1]]
    BY <1>1, <1>2, <1>4 DEF UnlinkedColor, Nexts
  <2>2. ASSUME NEW i \in 1 .. Len(l), i # 1, i + 1 # 1 PROVE Nexts(db2)[l[i]] = Nexts(db)[l[i]]
    <3>1. i \in 2 .. Len(l)
      BY <1>2, <2>2
    <3> QED BY <1>1, <1>8, <3>1 DEF UnlinkedColor, Nexts
  <2>3. CutsChain(l, 1, e.flink, Nexts(db), e2.flink, Nexts(db2))
    BY <1>3, <2>1, <2>2 DEF CutsChain
  <2> QED BY <1>2, <1>4, <1>6, <2>3, ChainRemove
<1>10. Back(m, Prevs(db2), NoPrev)
  <2>1. ASSUME 1 < Len(l) PROVE Prevs(db2)[l[1 + 1]] = Prevs(db)[l[1]]
    <3>1. 2 \in 2 .. Len(l) /\ Len(l) # 1 /\ 1 + 1 = 2
      BY <1>2, <2>1, SMTT(30)
    <3>2. db2[l[2]].prev = NoPrev
      BY <1>1, <1>5, <1>8, <3>1 DEF UnlinkedColor
    <3>3. Prevs(db)[l[1]] = NoPrev
      BY <1>3 DEF Back
    <3> QED BY <1>8, <3>1, <3>2, <3>3 DEF Prevs
  <2>2. ASSUME NEW i \in 1 .. Len(l), i # 1, i # 1 + 1 PROVE Prevs(db2)[l[i]] = Prevs(db)[l[i]]
    <3>0. PICK n \in Nat : n = Len(l)
      BY <1>0
    <3>1. i \in 2 .. Len(l) /\ i # 2 /\ 2 \in 2 .. Len(l) /\ Len(l) # 1
      <4>1. i \in Int /\ i >= 1 /\ i <= n /\ i # 1 /\ i # 2
        BY <2>2, <3>0
      <4>2. i \in 2 .. n /\ 2 \in 2 .. n /\ n # 1
        BY <4>1
      <4> QED BY <3>0, <4>1, <4>2
    <3>2. l[i] # db[p].next
      BY <1>2, <1>5, <1>8, <3>1 DEF Once
    <3> QED BY <1>1, <1>8, <3>1, <3>2 DEF UnlinkedColor, Prevs
  <2>3. CutsBack(l, 1, Prevs(db), Prevs(db2), NoPrev)
    BY <1>3, <2>1, <2>2 DEF CutsBack
  <2> QED BY <1>2, <1>4, <1>6, <2>3, BackRemove
<1>11. e2.count = Len(m) /\ (Len(m) # 0 => e2.blink = m[Len(m)])
  <2>1. e2.count = Len(m)
    BY <1>3, <1>7 DEF UnlinkedColor
  <2>2. ASSUME Len(m) # 0 PROVE e2.blink = m[Len(m)]
    <3>1. Len(l) # 1 /\ 2 \in 2 .. Len(l) /\ Len(m) \in 1 .. Len(l) - 1 /\ Len(m) + 1 = Len(l)
      <4>1. Len(m) = Len(l) - 1 /\ Len(m) \in Nat
        BY <1>7, LenProperties
      <4> QED BY <1>0, <2>2, <4>1
    <3>2. db[p].next # NoFrame
      BY <1>4, <1>5, <1>8, <3>1
    <3> QED BY <1>1, <1>2, <1>7, <3>1, <3>2 DEF UnlinkedColor
  <2> QED BY <2>1, <2>2
<1>12. Elements(m) = {f \in Elements(RemoveAt(q, k)) : Color(f) = Color(p)}
  <2>1. k \in DOMAIN q
    BY LenProperties
  <2>2. Elements(RemoveAt(q, k)) = Elements(q) \ {p}
    BY <1>1, <2>1, RemoveAtOnce
  <2> QED BY <1>2, <1>7, <2>2
<1>13. ASSUME NEW i \in DOMAIN m, NEW j \in DOMAIN m, i < j
       PROVE  Precedes(RemoveAt(q, k), m[i], m[j])
  <2>1. i + 1 \in 2 .. Len(l) /\ j + 1 \in 2 .. Len(l) /\ i + 1 < j + 1
    <3>1. i \in 1 .. Len(l) - 1 /\ j \in 1 .. Len(l) - 1
      BY <1>7
    <3> QED BY <1>0, <1>13, <3>1, SMTT(30)
  <2>2. m[i] = l[i + 1] /\ m[j] = l[j + 1]
    BY <1>7
  <2>3. m[i] # q[k] /\ m[j] # q[k]
    BY <1>1, <1>8, <2>1, <2>2
  <2>4. i + 1 \in DOMAIN l /\ j + 1 \in DOMAIN l
    BY <1>2, <2>1, SMTT(30)
  <2>5. Precedes(q, m[i], m[j])
    BY <1>3, <2>1, <2>2, <2>4
  <2> QED BY <2>3, <2>5, PrecedesRemove
<1> QED BY <1>1, <1>6, <1>7, <1>9, <1>10, <1>11, <1>12, <1>13 DEF ColorOf

LEMMA UnlinkKeepsColor ==
  ASSUME NEW q \in Seq(1 .. LastFrame), Once(q), NEW k \in 1 .. Len(q), NEW m, Len(m) # 0,
         m[1] = q[k], NEW l, NEW c, c # Color(q[k]), NEW db, NEW e, NEW d, NEW db2, NEW d2,
         ColorOf(l, q, c, db, e), ColorOf(m, q, Color(q[k]), db, d),
         UnlinkedColor(q[k], d, db, d2, db2)
  PROVE  ColorOf(l, RemoveAt(q, k), c, db2, e)
<1>1. PICK p : p = q[k]
  OBVIOUS
<1>2. /\ l \in Seq(1 .. LastFrame) /\ DOMAIN l = 1 .. Len(l)
      /\ \A i \in 1 .. Len(l) : /\ l[i] \in 1 .. LastFrame /\ l[i] \in Frames
                                /\ l[i] \in Elements(q) /\ Color(l[i]) = c
      /\ Elements(l) = {f \in Elements(q) : Color(f) = c}
  BY ColorFacts
<1>3. /\ Len(m) \in Nat
      /\ \A i \in 1 .. Len(m) : /\ m[i] \in 1 .. LastFrame /\ m[i] \in Frames /\ Color(m[i]) = Color(p)
  BY <1>1, ColorFacts
<1>4. db[p].next = NoFrame \/ Color(db[p].next) = Color(p)
  <2>1. Chain(m, d.flink, Nexts(db))
    BY DEF ColorOf
  <2>2. 1 \in 1 .. Len(m)
    BY <1>3
  <2>3. Nexts(db)[m[1]] = db[p].next
    BY <1>1, <1>3, <2>2 DEF Nexts
  <2>4. CASE Len(m) = 1
    BY <2>1, <2>3, <2>4 DEF Chain
  <2>5. CASE Len(m) # 1
    <3>1. 1 \in 1 .. Len(m) - 1 /\ 1 + 1 \in 1 .. Len(m)
      <4>1. Len(m) \in Nat /\ Len(m) # 0
        BY <1>3
      <4>2. PICK n \in Nat : n = Len(m)
        BY <4>1
      <4>3. 1 \in 1 .. n - 1 /\ 2 \in 1 .. n
        BY <2>5, <4>1, <4>2
      <4> QED BY <4>2, <4>3
    <3>2. Nexts(db)[m[1]] = m[1 + 1]
      BY <2>1, <3>1 DEF Chain
    <3> QED BY <1>3, <2>3, <3>1, <3>2
  <2> QED BY <2>4, <2>5
<1>5. \A f \in Elements(l) : f \in 1 .. LastFrame /\ f \in Frames /\ f # p /\ f # db[p].next
  BY <1>1, <1>2, <1>4 DEF Elements, NoFrame
<1>6. \A f \in Elements(l) : Nexts(db2)[f] = Nexts(db)[f] /\ Prevs(db2)[f] = Prevs(db)[f]
  BY <1>1, <1>5 DEF UnlinkedColor, Nexts, Prevs
<1>7. Chain(l, e.flink, Nexts(db2)) /\ Back(l, Prevs(db2), NoPrev)
  <2>1. Chain(l, e.flink, Nexts(db)) /\ Back(l, Prevs(db), NoPrev)
    BY DEF ColorOf
  <2> QED BY <1>2, <1>6, <2>1, ChainSame, BackSame
<1>8. Elements(l) = {f \in Elements(RemoveAt(q, k)) : Color(f) = c}
  <2>1. k \in DOMAIN q
    BY LenProperties
  <2>2. Elements(RemoveAt(q, k)) = Elements(q) \ {p}
    BY <1>1, <2>1, RemoveAtOnce
  <2> QED BY <1>1, <1>2, <2>2
<1>9. ASSUME NEW i \in DOMAIN l, NEW j \in DOMAIN l, i < j PROVE Precedes(RemoveAt(q, k), l[i], l[j])
  <2>1. Precedes(q, l[i], l[j])
    BY <1>9 DEF ColorOf
  <2>2. l[i] # q[k] /\ l[j] # q[k]
    BY <1>2
  <2> QED BY <2>1, <2>2, PrecedesRemove
<1> QED BY <1>7, <1>8, <1>9 DEF ColorOf

(* The frame a request of colour c gets.                                   *)
PickedAt(q, k, c) ==
  /\ available # 0
  /\ PickFrame(c) = q[k]
  /\ Queue!Serves(q, k, c)
  /\ colors[Color(q[k])].flink = q[k]

LEMMA FirstOfColor ==
  ASSUME NEW q, Lists(q), NEW k \in 1 .. Len(q), NEW c \in 0 .. Colors - 1,
         c = Color(q[k]), \A j \in 1 .. k - 1 : Color(q[j]) # c
  PROVE  colors[c].flink = q[k]
<1>1. PICK l : ColorOf(l, q, c, pfn, colors[c])
  BY DEF Lists
<1>2. /\ l \in Seq(1 .. LastFrame) /\ Once(l) /\ Len(l) \in Nat /\ DOMAIN l = 1 .. Len(l)
      /\ \A i \in 1 .. Len(l) : l[i] \in Elements(q) /\ Color(l[i]) = c
      /\ Len(l) # 0 => colors[c].flink = l[1]
      /\ Elements(l) = {f \in Elements(q) : Color(f) = c}
  BY <1>1, ColorFacts
<1>3. q \in Seq(1 .. LastFrame) /\ Once(q) /\ Len(q) \in Nat /\ DOMAIN q = 1 .. Len(q)
  BY LenProperties DEF Lists, QueueOf
<1>4. q[k] \in Elements(l)
  BY <1>2, <1>3 DEF Elements
<1>5. PICK i \in 1 .. Len(l) : l[i] = q[k]
  BY <1>2, <1>4 DEF Elements
<1>6. CASE i = 1
  <2>1. Len(l) # 0
    BY <1>2
  <2> QED BY <1>2, <1>5, <1>6, <2>1
<1>7. CASE i # 1
  <2>1. 1 \in DOMAIN l /\ i \in DOMAIN l /\ 1 < i
    BY <1>2, <1>7
  <2>2. Precedes(q, l[1], q[k])
    BY <1>1, <1>5, <2>1 DEF ColorOf
  <2>3. PICK a \in DOMAIN q : \E b \in DOMAIN q : a < b /\ q[a] = l[1] /\ q[b] = q[k]
    BY <2>2 DEF Precedes
  <2>4. PICK b \in DOMAIN q : a < b /\ q[a] = l[1] /\ q[b] = q[k]
    BY <2>3
  <2>5. b = k /\ Color(q[a]) = c
    BY <1>2, <1>3, <2>1, <2>4 DEF Once
  <2>6. a \in 1 .. k - 1
    BY <1>3, <2>4, <2>5
  <2> QED BY <2>5, <2>6
<1> QED BY <1>6, <1>7

LEMMA PickServes ==
  ASSUME NEW q, Lists(q), NEW c \in 0 .. Colors - 1
  PROVE  \/ q = <<>> /\ available = 0 /\ PickFrame(c) = 0
         \/ \E k \in 1 .. Len(q) : PickedAt(q, k, c)
<1>1. /\ q \in Seq(1 .. LastFrame) /\ Once(q) /\ available = Len(q)
      /\ Chain(q, freeList.flink, Flinks(pfn))
  BY DEF Lists, QueueOf
<1>2. Len(q) \in Nat /\ DOMAIN q = 1 .. Len(q) /\ \A i \in 1 .. Len(q) : q[i] \in Frames
  <2>1. \A i \in 1 .. Len(q) : q[i] \in 1 .. LastFrame
    BY <1>1, ElementOfSeq
  <2> QED BY <1>1, <2>1, LenProperties DEF Frames, Table
<1>3. PICK l : ColorOf(l, q, c, pfn, colors[c])
  BY DEF Lists
<1>4. /\ l \in Seq(1 .. LastFrame) /\ Once(l) /\ Len(l) \in Nat /\ DOMAIN l = 1 .. Len(l)
      /\ \A i \in 1 .. Len(l) : l[i] \in Elements(q) /\ Color(l[i]) = c
      /\ colors[c].flink = NoFrame <=> Len(l) = 0
      /\ Len(l) # 0 => colors[c].flink = l[1]
      /\ Elements(l) = {f \in Elements(q) : Color(f) = c}
  BY <1>3, ColorFacts
<1>5. CASE available = 0
  <2>1. Len(q) = 0
    BY <1>1, <1>5
  <2> QED BY <1>1, <1>5, <2>1, EmptySeq DEF PickFrame
<1>6. CASE available # 0 /\ Len(l) # 0
  <2>1. PickFrame(c) = l[1]
    BY <1>4, <1>6 DEF PickFrame, PickUnguarded
  <2>2. 1 \in DOMAIN l /\ l[1] \in Elements(q)
    BY <1>4, <1>6
  <2>3. PICK k \in 1 .. Len(q) : q[k] = l[1]
    BY <1>2, <2>2 DEF Elements
  <2>4. Color(q[k]) = c
    BY <1>4, <2>2, <2>3
  <2>5. ASSUME NEW j \in 1 .. k - 1 PROVE Color(q[j]) # c
    <3>1. SUFFICES ASSUME Color(q[j]) = c PROVE FALSE
      OBVIOUS
    <3>2. j \in DOMAIN q /\ j < k /\ k \in DOMAIN q
      BY <1>2
    <3>3. q[j] \in Elements(l)
      BY <1>4, <3>1, <3>2 DEF Elements
    <3>4. PICK i \in DOMAIN l : l[i] = q[j]
      BY <3>3 DEF Elements
    <3>5. i # 1
      BY <1>1, <2>3, <3>2, <3>4 DEF Once
    <3>6. Precedes(q, l[1], l[i])
      <4>1. 1 < i
        BY <1>4, <3>5
      <4> QED BY <1>3, <2>2, <4>1 DEF ColorOf
    <3>7. PICK a \in DOMAIN q : \E b \in DOMAIN q : a < b /\ q[a] = l[1] /\ q[b] = l[i]
      BY <3>6 DEF Precedes
    <3>8. PICK b \in DOMAIN q : a < b /\ q[a] = l[1] /\ q[b] = l[i]
      BY <3>7
    <3>9. a = k /\ b = j
      BY <1>1, <2>3, <3>2, <3>4, <3>8 DEF Once
    <3> QED BY <1>2, <3>2, <3>8, <3>9
  <2>6. colors[Color(q[k])].flink = q[k]
    BY <1>4, <1>6, <2>3, <2>4
  <2>7. Queue!Serves(q, k, c)
    BY <2>4, <2>5 DEF Queue!Serves, Queue!Color, Color
  <2> QED BY <1>6, <2>1, <2>3, <2>6, <2>7 DEF PickedAt
<1>7. CASE available # 0 /\ Len(l) = 0
  <2>1. 1 \in 1 .. Len(q) /\ Len(q) # 0
    BY <1>1, <1>2, <1>7
  <2>2. PickFrame(c) = q[1]
    BY <1>1, <1>4, <1>7, <2>1 DEF PickFrame, PickUnguarded, Chain
  <2>3. \A j \in DOMAIN q : Color(q[j]) # c
    <3>1. Elements(l) = {}
      BY <1>4, <1>7 DEF Elements
    <3> QED BY <1>4, <3>1 DEF Elements
  <2>4. Queue!Serves(q, 1, c)
    BY <2>3 DEF Queue!Serves, Queue!Color, Color
  <2>5. colors[Color(q[1])].flink = q[1]
    <3>1. Color(q[1]) \in 0 .. Colors - 1
      BY <1>2, <2>1, ColorInRange
    <3>2. \A j \in 1 .. 1 - 1 : Color(q[j]) # Color(q[1])
      OBVIOUS
    <3> QED BY <2>1, <3>1, <3>2, FirstOfColor
  <2> QED BY <1>7, <2>1, <2>2, <2>4, <2>5 DEF PickedAt
<1> QED BY <1>5, <1>6, <1>7

(* A frame that is taken leaves both of its lists.                         *)
Unlisted(p, kind) ==
  /\ \A f \in Frames \ {p} :
       /\ pfn'[f].at = pfn[f].at /\ pfn'[f].refs = pfn[f].refs
       /\ pfn'[f].removable = pfn[f].removable
       /\ pfn[f].at # "free" =>
            pfn'[f].u2 = IF f = Table /\ kind = "stack" THEN pfn[f].u2 + 1 ELSE pfn[f].u2
  /\ pfn'[p].at = "active" /\ pfn'[p].u2 = 1 /\ pfn'[p].refs = 1 /\ pfn'[p].removable = FALSE

LEMMA UnlinkCutsLists ==
  ASSUME NEW q, Lists(q), ListVars, NEW k \in 1 .. Len(q),
         colors[Color(q[k])].flink = q[k], NEW kind,
         UnlinkFreePage(q[k]), pfn' = Activated(Unlinked(q[k]), q[k], kind)
  PROVE  Lists(RemoveAt(q, k))' /\ ListVars' /\ Unlisted(q[k], kind)
<1>1. PICK p : p = q[k]
  OBVIOUS
<1>2. QueueOf(q, pfn, freeList, available)
  BY DEF Lists
<1>3. /\ q \in Seq(1 .. LastFrame) /\ Once(q)
      /\ Chain(q, freeList.flink, Flinks(pfn)) /\ Back(q, U2s(pfn), NoFrame)
      /\ freeList.total = Len(q) /\ available = Len(q)
      /\ \A f \in Frames : pfn[f].at = "free" <=> f \in Elements(q)
  BY <1>2 DEF QueueOf
<1>4. /\ Len(q) \in Nat /\ DOMAIN q = 1 .. Len(q)
      /\ \A i \in 1 .. Len(q) : q[i] \in 1 .. LastFrame /\ q[i] \in Frames
  BY <1>2, ListTypes
<1>5. p \in 1 .. LastFrame /\ p \in Frames /\ p # Table /\ Table \in Frames /\ Table \notin 1 .. LastFrame
  BY <1>1, <1>4 DEF Frames, Table
<1>6. Color(p) \in 0 .. Colors - 1
  BY <1>5, ColorInRange
<1>7. PICK l : ColorOf(l, q, Color(p), pfn, colors[Color(p)])
  BY <1>6 DEF Lists
<1>8. /\ l \in Seq(1 .. LastFrame) /\ Len(l) \in Nat
      /\ \A i \in 1 .. Len(l) : l[i] \in 1 .. LastFrame /\ l[i] \in Frames
      /\ colors[Color(p)].flink = NoFrame <=> Len(l) = 0
      /\ Len(l) # 0 => colors[Color(p)].flink = l[1]
  BY <1>7, ColorFacts
<1>9. Len(l) # 0 /\ l[1] = p
  BY <1>1, <1>5, <1>8 DEF NoFrame
<1>10. pfn[p].prev = NoPrev
  <2>1. Back(l, Prevs(pfn), NoPrev)
    BY <1>7 DEF ColorOf
  <2> QED BY <1>5, <1>9, <2>1 DEF Back, Prevs
<1>11. /\ pfn[p].u2 \in (1 .. LastFrame) \cup {NoFrame}
       /\ pfn[p].flink \in (1 .. LastFrame) \cup {NoFrame}
  <2>1. k = 1 \/ k \in 2 .. Len(q)
    BY <1>4
  <2>2. k = Len(q) \/ k \in 1 .. Len(q) - 1
    <3>1. Len(q) \in Nat
      BY <1>4
    <3> QED BY <3>1
  <2>3. Len(q) # 0
    BY <1>4
  <2>4. pfn[p].u2 \in (1 .. LastFrame) \cup {NoFrame}
    <3>1. CASE k = 1
      BY <1>1, <1>3, <1>5, <2>3, <3>1 DEF Back, U2s
    <3>2. CASE k \in 2 .. Len(q)
      <4>1. U2s(pfn)[q[k]] = q[k - 1] /\ k - 1 \in 1 .. Len(q)
        BY <1>3, <1>4, <3>2 DEF Back
      <4> QED BY <1>1, <1>4, <1>5, <4>1 DEF U2s
    <3> QED BY <2>1, <3>1, <3>2
  <2>5. pfn[p].flink \in (1 .. LastFrame) \cup {NoFrame}
    <3>1. CASE k = Len(q)
      BY <1>1, <1>3, <1>5, <2>3, <3>1 DEF Chain, Flinks
    <3>2. CASE k \in 1 .. Len(q) - 1
      <4>1. Flinks(pfn)[q[k]] = q[k + 1]
        BY <1>3, <3>2 DEF Chain
      <4>2. k + 1 \in 1 .. Len(q)
        <5>1. Len(q) \in Nat
          BY <1>4
        <5> QED BY <3>2, <5>1
      <4> QED BY <1>1, <1>4, <1>5, <4>1, <4>2 DEF Flinks
    <3> QED BY <2>2, <3>1, <3>2
  <2> QED BY <2>4, <2>5
<1>12. PICK db : db = Unlinked(p)
  OBVIOUS
<1>13. UnlinkedFields(p, db)
  <2>1. pfn \in [Frames -> FrameRecord]
    BY DEF ListVars
  <2>2. pfn[p].u2 \in Frames \cup {NoFrame}
    BY <1>11 DEF Frames, Table
  <2> QED BY <1>5, <1>10, <1>12, <2>1, <2>2, UnlinkSetsFields
<1>14. ActivatedFields(db, p, kind, pfn')
  <2>1. db \in [Frames -> FrameRecord] /\ p \in 0 .. LastFrame
    BY <1>5, <1>13 DEF UnlinkedFields
  <2> QED BY <1>1, <1>12, <2>1, ActivateSetsFields
<1>15. /\ pfn' \in [Frames -> FrameRecord]
       /\ \A f \in Frames :
            /\ f # p => pfn'[f].flink = IF f = pfn[p].u2 THEN pfn[p].flink ELSE pfn[f].flink
            /\ f # p /\ f # Table => pfn'[f].u2 = IF f = pfn[p].flink THEN pfn[p].u2 ELSE pfn[f].u2
            /\ f # p => pfn'[f].prev = IF f = pfn[p].next THEN NoPrev ELSE pfn[f].prev
            /\ pfn'[f].next = pfn[f].next
            /\ pfn'[f].at = IF f = p THEN "active" ELSE pfn[f].at
            /\ pfn'[f].refs = IF f = p THEN 1 ELSE pfn[f].refs
            /\ pfn'[f].removable = IF f = p THEN FALSE ELSE pfn[f].removable
       /\ pfn'[p].u2 = 1
       /\ pfn'[Table].u2 = IF kind = "stack" THEN pfn[Table].u2 + 1 ELSE pfn[Table].u2
  <2>1. db[Table].u2 = pfn[Table].u2
    BY <1>5, <1>11, <1>13 DEF UnlinkedFields, NoFrame, Table
  <2>2. ASSUME NEW f \in Frames
        PROVE  /\ f # p => pfn'[f].flink = IF f = pfn[p].u2 THEN pfn[p].flink ELSE pfn[f].flink
               /\ f # p /\ f # Table =>
                    pfn'[f].u2 = IF f = pfn[p].flink THEN pfn[p].u2 ELSE pfn[f].u2
               /\ f # p => pfn'[f].prev = IF f = pfn[p].next THEN NoPrev ELSE pfn[f].prev
               /\ pfn'[f].next = pfn[f].next
               /\ pfn'[f].at = IF f = p THEN "active" ELSE pfn[f].at
               /\ pfn'[f].refs = IF f = p THEN 1 ELSE pfn[f].refs
               /\ pfn'[f].removable = IF f = p THEN FALSE ELSE pfn[f].removable
    <3>1. /\ pfn'[f].flink = db[f].flink /\ pfn'[f].next = db[f].next
          /\ f # p /\ f # Table => pfn'[f].u2 = db[f].u2
          /\ f # p => pfn'[f].prev = db[f].prev
          /\ pfn'[f].at = IF f = p THEN "active" ELSE db[f].at
          /\ pfn'[f].refs = IF f = p THEN 1 ELSE db[f].refs
          /\ pfn'[f].removable = IF f = p THEN FALSE ELSE db[f].removable
      BY <1>14 DEF ActivatedFields
    <3>2. /\ f # p => db[f].flink = IF f = pfn[p].u2 THEN pfn[p].flink ELSE pfn[f].flink
          /\ f # p => db[f].u2 = IF f = pfn[p].flink THEN pfn[p].u2 ELSE pfn[f].u2
          /\ db[f].prev = IF f = pfn[p].next THEN NoPrev ELSE pfn[f].prev
          /\ db[f].next = pfn[f].next
          /\ f # p => db[f].at = pfn[f].at
          /\ db[f].refs = pfn[f].refs /\ db[f].removable = pfn[f].removable
      BY <1>13 DEF UnlinkedFields
    <3> QED BY <3>1, <3>2
  <2>3. /\ pfn' \in [Frames -> FrameRecord] /\ pfn'[p].u2 = 1
        /\ pfn'[Table].u2 = IF kind = "stack" THEN pfn[Table].u2 + 1 ELSE pfn[Table].u2
    BY <1>5, <1>14, <2>1 DEF ActivatedFields
  <2> QED BY <2>2, <2>3
<1>16. /\ freeList' = [flink |-> IF pfn[p].u2 = NoFrame THEN pfn[p].flink ELSE freeList.flink,
                       blink |-> IF pfn[p].flink = NoFrame THEN pfn[p].u2 ELSE freeList.blink,
                       total |-> freeList.total - 1]
       /\ available' = available - 1
  BY <1>1 DEF UnlinkFreePage
<1>17. UnlinkedQueue(p, freeList, available, pfn, freeList', available', pfn')
  <2>1. \A f \in 1 .. LastFrame : f \in Frames /\ f # Table
    BY DEF Frames, Table
  <2>2. \A f \in 1 .. LastFrame : f # p =>
          /\ pfn'[f].flink = IF f = pfn[p].u2 THEN pfn[p].flink ELSE pfn[f].flink
          /\ pfn'[f].u2 = IF f = pfn[p].flink THEN pfn[p].u2 ELSE pfn[f].u2
    BY <1>15, <2>1
  <2>3. \A f \in Frames : pfn'[f].at = "free" <=> f # p /\ pfn[f].at = "free"
    BY <1>15
  <2> QED BY <1>16, <2>2, <2>3 DEF UnlinkedQueue
<1>18. QueueOf(RemoveAt(q, k), pfn', freeList', available')
  BY <1>1, <1>2, <1>17, UnlinkCutsQueue
<1>19. PICK e2 : e2 = [flink |-> pfn[p].next,
                       blink |-> IF pfn[p].next = NoFrame THEN Cast(NoPrev)
                                 ELSE colors[Color(p)].blink,
                       count |-> colors[Color(p)].count - 1]
  OBVIOUS
<1>20. colors' = [colors EXCEPT ![Color(p)] = e2]
  <2>1. PICK e : e = colors[Color(p)]
    OBVIOUS
  <2>2. e \in ColorRecord
    BY <1>6, <2>1 DEF ListVars
  <2>3. e2 = [e EXCEPT !.flink = pfn[p].next,
                       !.blink = IF pfn[p].next = NoFrame THEN Cast(NoPrev) ELSE e.blink,
                       !.count = e.count - 1]
    <3>1. PICK x : x = pfn[p].next
      OBVIOUS
    <3>2. PICK y : y = IF pfn[p].next = NoFrame THEN Cast(NoPrev) ELSE e.blink
      OBVIOUS
    <3>3. PICK n : n = e.count - 1
      OBVIOUS
    <3>4. e2 = [flink |-> x, blink |-> y, count |-> n]
      BY <1>19, <2>1, <3>1, <3>2, <3>3
    <3>5. PICK r : r = [e EXCEPT !.flink = x, !.blink = y, !.count = n]
      OBVIOUS
    <3>6. r = [flink |-> x, blink |-> y, count |-> n]
      BY <2>2, <3>5 DEF ColorRecord
    <3> QED BY <3>1, <3>2, <3>3, <3>4, <3>5, <3>6
  <2>4. colors' = [colors EXCEPT ![Color(p)] =
                     [e EXCEPT !.flink = pfn[p].next,
                               !.blink = IF pfn[p].next = NoFrame THEN Cast(NoPrev) ELSE e.blink,
                               !.count = e.count - 1]]
    BY <1>1, <1>6, <1>10, <2>1 DEF UnlinkFreePage, UnlinkColor, ListVars
  <2> QED BY <2>3, <2>4
<1>21. UnlinkedColor(p, colors[Color(p)], pfn, e2, pfn')
  <2>1. \A f \in 1 .. LastFrame : f \in Frames
    BY DEF Frames, Table
  <2> QED BY <1>15, <1>19, <2>1 DEF UnlinkedColor
<1>22. ColorOf(RemoveAt(l, 1), RemoveAt(q, k), Color(p), pfn', e2)
  BY <1>1, <1>3, <1>7, <1>9, <1>21, UnlinkCutsColor
<1>23. colors' \in [0 .. Colors - 1 -> ColorRecord]
  <2>1. e2.flink \in Frames \cup {NoFrame} /\ e2.count \in 0 .. LastFrame
    BY <1>22, ColorTypes
  <2>2. e2.blink \in Int
    <3>1. colors[Color(p)] \in ColorRecord
      BY <1>6 DEF ListVars
    <3>2. colors[Color(p)].blink \in Int /\ Cast(NoPrev) \in Int
      BY <3>1 DEF ColorRecord, Cast, NoPrev
    <3> QED BY <1>19, <3>2
  <2>3. e2 = [flink |-> e2.flink, blink |-> e2.blink, count |-> e2.count]
    BY <1>19
  <2>4. e2 \in ColorRecord
    BY <2>1, <2>2, <2>3 DEF ColorRecord
  <2> QED BY <1>20, <2>4 DEF ListVars
<1>24. ASSUME NEW c \in 0 .. Colors - 1
       PROVE  \E m : ColorOf(m, RemoveAt(q, k), c, pfn', colors'[c])
  <2>1. CASE c = Color(p)
    <3>1. colors'[c] = e2
      BY <1>6, <1>20, <2>1 DEF ListVars
    <3> QED BY <1>22, <2>1, <3>1
  <2>2. CASE c # Color(p)
    <3>1. colors'[c] = colors[c]
      BY <1>20, <2>2 DEF ListVars
    <3>2. PICK m : ColorOf(m, q, c, pfn, colors[c])
      BY DEF Lists
    <3>3. ColorOf(m, RemoveAt(q, k), c, pfn', colors[c])
      BY <1>1, <1>3, <1>7, <1>9, <1>21, <2>2, <3>2, UnlinkKeepsColor
    <3> QED BY <3>1, <3>3
  <2> QED BY <2>1, <2>2
<1>25. Lists(RemoveAt(q, k))'
  BY <1>18, <1>24 DEF Lists
<1>26. ListVars'
  <2>1. /\ freeList'.flink \in Frames \cup {NoFrame} /\ freeList'.blink \in Frames \cup {NoFrame}
        /\ freeList'.total \in 0 .. LastFrame /\ available' \in 0 .. LastFrame
    BY <1>18, ListTypes
  <2>2. freeList' = [flink |-> freeList'.flink, blink |-> freeList'.blink, total |-> freeList'.total]
    BY <1>16
  <2>3. freeList' \in [flink : Frames \cup {NoFrame}, blink : Frames \cup {NoFrame},
                       total : 0 .. LastFrame]
    BY <2>1, <2>2
  <2> QED BY <1>15, <1>23, <2>1, <2>3 DEF ListVars
<1>27. Unlisted(p, kind)
  <2>1. pfn[p].flink # NoFrame => pfn[pfn[p].flink].at = "free"
    <3>1. pfn[p].flink \in Elements(q) \cup {NoFrame}
      <4>0. Len(q) \in Nat
        BY <1>4
      <4>1. CASE k = Len(q)
        <5>1. Len(q) # 0
          BY <1>4
        <5> QED BY <1>1, <1>3, <1>5, <4>1, <5>1 DEF Chain, Flinks
      <4>2. CASE k # Len(q)
        <5>1. k \in 1 .. Len(q) - 1 /\ k + 1 \in 1 .. Len(q)
          BY <4>0, <4>2
        <5>2. Flinks(pfn)[q[k]] = q[k + 1]
          BY <1>3, <5>1 DEF Chain
        <5> QED BY <1>1, <1>4, <1>5, <5>1, <5>2 DEF Flinks, Elements
      <4> QED BY <4>1, <4>2
    <3>2. pfn[p].flink # NoFrame => pfn[p].flink \in Frames
      BY <1>11 DEF Frames, Table
    <3> QED BY <1>3, <3>1, <3>2
  <2>2. ASSUME NEW f \in Frames \ {p}, pfn[f].at # "free"
        PROVE  pfn'[f].u2 = IF f = Table /\ kind = "stack" THEN pfn[f].u2 + 1 ELSE pfn[f].u2
    <3>1. CASE f = Table
      BY <1>15, <3>1
    <3>2. CASE f # Table
      <4>1. f # pfn[p].flink
        <5>1. f # NoFrame
          BY DEF NoFrame, Frames, Table
        <5> QED BY <2>1, <2>2, <5>1
      <4> QED BY <1>15, <3>2, <4>1
    <3> QED BY <3>1, <3>2
  <2> QED BY <1>5, <1>15, <2>2 DEF Unlisted
<1> QED BY <1>1, <1>25, <1>26, <1>27

(* What is not on the lists may change.                                    *)
LEMMA ListsSame ==
  ASSUME NEW q, Lists(q), ListVars, UNCHANGED lists, pfn' \in [Frames -> FrameRecord],
         \A f \in Frames :
           /\ pfn'[f].at = "free" <=> pfn[f].at = "free"
           /\ pfn[f].at = "free" => /\ pfn'[f].flink = pfn[f].flink /\ pfn'[f].u2 = pfn[f].u2
                                    /\ pfn'[f].prev = pfn[f].prev /\ pfn'[f].next = pfn[f].next
  PROVE  Lists(q)' /\ ListVars'
<1>1. freeList' = freeList /\ colors' = colors /\ available' = available
  BY DEF lists
<1>2. /\ q \in Seq(1 .. LastFrame) /\ Once(q)
      /\ Chain(q, freeList.flink, Flinks(pfn)) /\ Back(q, U2s(pfn), NoFrame)
      /\ freeList.blink = IF Len(q) = 0 THEN NoFrame ELSE q[Len(q)]
      /\ freeList.total = Len(q) /\ available = Len(q)
      /\ \A f \in Frames : pfn[f].at = "free" <=> f \in Elements(q)
  BY DEF Lists, QueueOf
<1>3. \A f \in Elements(q) : f \in Frames /\ pfn[f].at = "free"
  <2>1. DOMAIN q = 1 .. Len(q) /\ \A i \in 1 .. Len(q) : q[i] \in 1 .. LastFrame
    BY <1>2, ElementOfSeq, LenProperties
  <2>2. \A f \in Elements(q) : f \in Frames
    BY <2>1 DEF Elements, Frames, Table
  <2> QED BY <1>2, <2>2
<1>4. \A f \in Elements(q) : Flinks(pfn')[f] = Flinks(pfn)[f] /\ U2s(pfn')[f] = U2s(pfn)[f]
  BY <1>3 DEF Flinks, U2s
<1>5. Chain(q, freeList.flink, Flinks(pfn')) /\ Back(q, U2s(pfn'), NoFrame)
  BY <1>2, <1>4, ChainSame, BackSame
<1>6. QueueOf(q, pfn', freeList', available')
  BY <1>1, <1>2, <1>5 DEF QueueOf
<1>7. ASSUME NEW c \in 0 .. Colors - 1 PROVE \E l : ColorOf(l, q, c, pfn', colors'[c])
  <2>1. PICK l : ColorOf(l, q, c, pfn, colors[c])
    BY DEF Lists
  <2>2. l \in Seq(1 .. LastFrame) /\ Elements(l) = {f \in Elements(q) : Color(f) = c}
    BY <2>1 DEF ColorOf
  <2>3. \A f \in Elements(l) : Nexts(pfn')[f] = Nexts(pfn)[f] /\ Prevs(pfn')[f] = Prevs(pfn)[f]
    BY <1>3, <2>2 DEF Nexts, Prevs
  <2>4. Chain(l, colors[c].flink, Nexts(pfn)) /\ Back(l, Prevs(pfn), NoPrev)
    BY <2>1 DEF ColorOf
  <2>5. Chain(l, colors[c].flink, Nexts(pfn')) /\ Back(l, Prevs(pfn'), NoPrev)
    BY <2>2, <2>3, <2>4, ChainSame, BackSame
  <2>6. ColorOf(l, q, c, pfn', colors[c])
    BY <2>1, <2>5 DEF ColorOf
  <2> QED BY <1>1, <2>6
<1> QED BY <1>1, <1>6, <1>7 DEF Lists, ListVars

-----------------------------------------------------------------------------
(* The invariant.                                                          *)

Kinds == {k \in {"pool", "stack"} : IF k = "pool" THEN PoolRequests # {} ELSE StackRequests # {}}

CallRecord == [pc : {"idle", "pick", "take", "free"}, kind : {"none", "pool", "stack"},
               left : Nat, page : 0 .. LastFrame, frames : Seq(0 .. LastFrame)]
BlockRecord == [kind : {"none", "pool", "stack"}, frames : Seq(0 .. LastFrame)]

Types ==
  /\ ListVars
  /\ nextColor \in 0 .. Colors - 1
  /\ boot \in 1 .. LastFrame + 1
  /\ held \in [Blocks -> BlockRecord]
  /\ op \in [Cpus -> CallRecord]
  /\ panicked \in BOOLEAN

(* One call at a time, and what it may count on: a pool that grows, on as  *)
(* many free frames as it still wants; one that picked a frame, on the     *)
(* frame being the first choice until it is taken.                         *)
CallSound(c) ==
  /\ boot > LastFrame
  /\ op[c].kind \in Kinds
  /\ op[c].pc \in {"pick", "take", "free"}
  /\ op[c].pc # "free" => op[c].left >= 1 /\ (op[c].kind = "pool" => op[c].left <= available)
  /\ op[c].pc = "take" => op[c].page = PickFrame(nextColor)
  /\ op[c].pc = "free" => op[c].frames # <<>>

Calls ==
  /\ \A c, d \in Cpus : op[c] # Idle /\ op[d] # Idle => c = d
  /\ \A c \in Cpus : op[c] # Idle => CallSound(c)

Stocks ==
  \A b \in Blocks :
    held[b] # Nothing => boot > LastFrame /\ held[b].kind \in Kinds /\ held[b].frames # <<>>

(* No frame but 0 is used twice.                                           *)
Single(s) == \A i, j \in DOMAIN s : s[i] = s[j] /\ s[i] # 0 => i = j
Apart(s, t) == FramesOf(s) \cap FramesOf(t) \subseteq {0}

Owned ==
  /\ \A b \in Blocks : Single(held[b].frames)
  /\ \A c \in Cpus : Single(op[c].frames)
  /\ \A a, b \in Blocks : a # b => Apart(held[a].frames, held[b].frames)
  /\ \A b \in Blocks, c \in Cpus : Apart(held[b].frames, op[c].frames)

(* The entries of the database say where the frames are.                   *)
Entries ==
  /\ \A f \in 1 .. LastFrame :
       /\ pfn[f].at = "active" <=> f \in Held \cup Moving
       /\ pfn[f].at = "active" => pfn[f].u2 = 1 /\ pfn[f].refs = 1 /\ ~pfn[f].removable
       /\ pfn[f].at = "zeroed" <=> boot <= f
       /\ pfn[f].at # "transition"
  /\ pfn[0].at = "active" => pfn[0].refs = 1
  /\ ~pfn[0].removable
  /\ pfn[Table].at = "active"

(* The page table of the stacks has a user for each page of a stack.       *)
StackPages ==
  UNION {Pages("held", b, held[b].frames) : b \in {x \in Blocks : held[x].kind = "stack"}}

Shares ==
  /\ IsFiniteSet(StackPages)
  /\ \A c \in Cpus : op[c].kind = "stack" =>
       pfn[Table].u2 = 1 + Cardinality(StackPages) + Len(op[c].frames)
  /\ (\A c \in Cpus : op[c].kind # "stack") => pfn[Table].u2 = 1 + Cardinality(StackPages)

Sound == Calls /\ Stocks /\ Owned /\ Entries /\ Shares

Inv ==
  /\ Types
  /\ \E q : Lists(q)
  /\ PoolFramesReal
  /\ panicked => boot > LastFrame
  /\ ~panicked => Sound

-----------------------------------------------------------------------------
(* What the invariant says.                                                *)

LEMMA ListIsFreeFrames ==
  ASSUME NEW q, Lists(q)
  PROVE  FreeFrames = q
<1>1. q \in Seq(1 .. LastFrame) /\ Once(q) /\ Chain(q, freeList.flink, Flinks(pfn))
  BY DEF Lists, QueueOf
<1>2. Follow(freeList.flink, Flinks(pfn)) = q
  BY <1>1, FollowChain
<1> QED BY <1>2, Zenon DEF FreeFrames, Flinks

LEMMA ListIsColorFrames ==
  ASSUME NEW q, NEW c, NEW l, ColorOf(l, q, c, pfn, colors[c])
  PROVE  ColorFrames(c) = l
<1>1. l \in Seq(1 .. LastFrame) /\ Once(l) /\ Chain(l, colors[c].flink, Nexts(pfn))
  BY DEF ColorOf
<1>2. Follow(colors[c].flink, Nexts(pfn)) = l
  BY <1>1, FollowChain
<1> QED BY <1>2, Zenon DEF ColorFrames, Nexts

LEMMA ListsThreaded ==
  ASSUME Types, \E q : Lists(q)
  PROVE  ColorsThreadFreeList
<1>1. PICK q : Lists(q)
  OBVIOUS
<1>2. FreeFrames = q
  BY <1>1, ListIsFreeFrames
<1>3. /\ q \in Seq(1 .. LastFrame) /\ Back(q, U2s(pfn), NoFrame) /\ freeList.total = Len(q)
      /\ DOMAIN q = 1 .. Len(q) /\ Len(q) \in Nat /\ \A i \in 1 .. Len(q) : q[i] \in Frames
  <2>1. QueueOf(q, pfn, freeList, available)
    BY <1>1 DEF Lists
  <2>2. Len(q) \in 0 .. LastFrame
    BY <2>1, ListTypes
  <2> QED BY <2>1, <2>2, ListTypes DEF QueueOf
<1>4. \A i \in DOMAIN q : pfn[q[i]].u2 = IF i = 1 THEN NoFrame ELSE q[i - 1]
  <2> SUFFICES ASSUME NEW i \in 1 .. Len(q)
               PROVE  pfn[q[i]].u2 = IF i = 1 THEN NoFrame ELSE q[i - 1]
    BY <1>3
  <2>1. U2s(pfn)[q[i]] = pfn[q[i]].u2
    BY <1>3 DEF U2s
  <2>2. Len(q) # 0 /\ (i = 1 \/ i \in 2 .. Len(q))
    BY <1>3
  <2> QED BY <1>3, <2>1, <2>2 DEF Back
<1>5. ASSUME NEW c \in 0 .. Colors - 1, NEW L, L = ColorFrames(c)
      PROVE  /\ FramesOf(L) = {f \in FramesOf(q) : Color(f) = c}
             /\ \A i, j \in DOMAIN L : i < j => Precedes(q, L[i], L[j])
             /\ colors[c].count = Len(L)
             /\ \A i \in DOMAIN L : pfn[L[i]].prev = IF i = 1 THEN NoPrev ELSE L[i - 1]
             /\ L # <<>> => colors[c].blink = Last(L)
  <2>1. ColorOf(L, q, c, pfn, colors[c])
    <3>1. PICK l : ColorOf(l, q, c, pfn, colors[c])
      BY <1>1 DEF Lists
    <3>2. l = L
      BY <1>5, <3>1, ListIsColorFrames
    <3> QED BY <3>1, <3>2
  <2>2. /\ L \in Seq(1 .. LastFrame) /\ Len(L) \in Nat /\ DOMAIN L = 1 .. Len(L)
        /\ \A i \in 1 .. Len(L) : L[i] \in Frames
    BY <2>1, ColorFacts
  <2>3. /\ Back(L, Prevs(pfn), NoPrev) /\ colors[c].count = Len(L)
        /\ Len(L) # 0 => colors[c].blink = L[Len(L)]
        /\ Elements(L) = {f \in Elements(q) : Color(f) = c}
        /\ \A i, j \in DOMAIN L : i < j => Precedes(q, L[i], L[j])
    BY <2>1 DEF ColorOf
  <2>4. FramesOf(L) = {f \in FramesOf(q) : Color(f) = c}
    BY <2>3 DEF FramesOf, Elements
  <2>5. ASSUME NEW i \in DOMAIN L PROVE pfn[L[i]].prev = IF i = 1 THEN NoPrev ELSE L[i - 1]
    <3>1. Prevs(pfn)[L[i]] = pfn[L[i]].prev
      BY <2>2 DEF Prevs
    <3>2. Len(L) # 0 /\ (i = 1 \/ i \in 2 .. Len(L))
      BY <2>2
    <3> QED BY <2>3, <3>1, <3>2 DEF Back
  <2>6. L # <<>> => colors[c].blink = Last(L)
    <3>1. L # <<>> => Len(L) # 0
      BY <2>2, EmptySeq
    <3> QED BY <2>3, <3>1 DEF Last
  <2> QED BY <2>3, <2>4, <2>5, <2>6
<1>6. DOMAIN colors = 0 .. Colors - 1
  BY DEF Types, ListVars
<1> QED BY <1>2, <1>3, <1>4, <1>5, <1>6 DEF ColorsThreadFreeList

LEMMA TypesCorrect ==
  ASSUME Types
  PROVE  TypeOK
<1>1. 0 .. LastFrame \subseteq Frames
  BY DEF Frames, Table
<1>2. Seq(0 .. LastFrame) \subseteq Seq(Frames)
  BY <1>1
<1>3. BlockRecord \subseteq [kind : {"none", "pool", "stack"}, frames : Seq(Frames)]
  BY <1>2 DEF BlockRecord
<1>4. CallRecord \subseteq [pc : {"idle", "pick", "take", "free"}, kind : {"none", "pool", "stack"},
                          left : Nat, page : Frames, frames : Seq(Frames)]
  BY <1>1, <1>2 DEF CallRecord
<1>5. held \in [Blocks -> [kind : {"none", "pool", "stack"}, frames : Seq(Frames)]]
  BY <1>3 DEF Types
<1>6. op \in [Cpus -> [pc : {"idle", "pick", "take", "free"}, kind : {"none", "pool", "stack"},
                       left : Nat, page : Frames, frames : Seq(Frames)]]
  BY <1>4 DEF Types
<1> QED BY <1>5, <1>6 DEF Types, TypeOK, ListVars, FrameRecord, ColorRecord

LEMMA InvConserves ==
  ASSUME Inv
  PROVE  FramesConserved
<1>1. TypeOK
  BY TypesCorrect DEF Inv
<1>2. SUFFICES ASSUME ~panicked
      PROVE  /\ UNION {<<FramesOf(FreeFrames), Held, Moving, Modified, boot .. LastFrame>>[i] \ {0} : i \in 1 .. 5}
                  = 1 .. LastFrame
             /\ \A i, j \in 1 .. 5 : i # j =>
                  <<FramesOf(FreeFrames), Held, Moving, Modified, boot .. LastFrame>>[i]
                    \cap <<FramesOf(FreeFrames), Held, Moving, Modified, boot .. LastFrame>>[j] \subseteq {0}
             /\ \A a, b \in Blocks :
                  a # b => FramesOf(held[a].frames) \cap FramesOf(held[b].frames) \subseteq {0}
  BY <1>1 DEF FramesConserved
<1>3. PICK q : Lists(q)
  BY DEF Inv
<1>4. FreeFrames = q
  BY <1>3, ListIsFreeFrames
<1>5. \A f \in Frames : pfn[f].at = "free" <=> f \in FramesOf(FreeFrames)
  BY <1>3, <1>4 DEF Lists, QueueOf, FramesOf, Elements
<1>6. FramesOf(FreeFrames) \subseteq 1 .. LastFrame
  <2>1. QueueOf(q, pfn, freeList, available)
    BY <1>3 DEF Lists
  <2> QED BY <1>4, <2>1, ListTypes DEF FramesOf
<1>7. Held \subseteq 0 .. LastFrame /\ Moving \subseteq 0 .. LastFrame
  <2>1. \A b \in Blocks : FramesOf(held[b].frames) \subseteq 0 .. LastFrame
    <3> SUFFICES ASSUME NEW b \in Blocks PROVE FramesOf(held[b].frames) \subseteq 0 .. LastFrame
      OBVIOUS
    <3>1. held[b].frames \in Seq(0 .. LastFrame)
      BY DEF Inv, Types, BlockRecord
    <3> QED BY <3>1, ElementOfSeq, LenProperties DEF FramesOf
  <2>2. \A c \in Cpus : FramesOf(op[c].frames) \subseteq 0 .. LastFrame
    <3> SUFFICES ASSUME NEW c \in Cpus PROVE FramesOf(op[c].frames) \subseteq 0 .. LastFrame
      OBVIOUS
    <3>1. op[c].frames \in Seq(0 .. LastFrame)
      BY DEF Inv, Types, CallRecord
    <3> QED BY <3>1, ElementOfSeq, LenProperties DEF FramesOf
  <2> QED BY <2>1, <2>2 DEF Held, Moving
<1>8. Owned /\ Entries /\ Types
  BY <1>2 DEF Inv, Sound
<1>9. Held \cap Moving \subseteq {0}
  <2> SUFFICES ASSUME NEW f \in Held, f \in Moving PROVE f = 0
    OBVIOUS
  <2>1. PICK b \in Blocks : f \in FramesOf(held[b].frames)
    BY DEF Held
  <2>2. PICK c \in Cpus : f \in FramesOf(op[c].frames)
    BY DEF Moving
  <2> QED BY <1>8, <2>1, <2>2 DEF Owned, Apart
<1>10. /\ Table \in Frames /\ Table = LastFrame + 1 /\ pfn[Table].at = "active"
       /\ Frames = 0 .. LastFrame + 1 /\ LastFrame \in Nat /\ boot \in 1 .. LastFrame + 1
  BY <1>8 DEF Entries, Types, Table, Frames
<1>11. /\ \A f \in 1 .. LastFrame : /\ pfn[f].at = "active" <=> f \in Held \cup Moving
                                    /\ pfn[f].at = "zeroed" <=> f \in boot .. LastFrame
                                    /\ pfn[f].at = "modified" <=> f \in Modified
                                    /\ pfn[f].at = "free" <=> f \in FramesOf(FreeFrames)
                                    /\ pfn[f].at \in {"zeroed", "free", "modified", "active"}
       /\ \A f \in Modified : f \in 0 .. LastFrame
       /\ boot .. LastFrame \subseteq 1 .. LastFrame
  <2>1. ASSUME NEW f \in 1 .. LastFrame
        PROVE  /\ pfn[f].at = "active" <=> f \in Held \cup Moving
               /\ pfn[f].at = "zeroed" <=> f \in boot .. LastFrame
               /\ pfn[f].at = "modified" <=> f \in Modified
               /\ pfn[f].at = "free" <=> f \in FramesOf(FreeFrames)
               /\ pfn[f].at \in {"zeroed", "free", "modified", "active"}
    <3>1. f \in Frames
      BY <1>10
    <3>2. pfn[f].at \in {"zeroed", "free", "modified", "active", "transition"}
      BY <1>8, <3>1 DEF Types, ListVars, FrameRecord
    <3>3. boot <= f <=> f \in boot .. LastFrame
      BY <1>10
    <3> QED BY <1>5, <1>8, <3>1, <3>2, <3>3 DEF Entries, Modified
  <2>2. \A f \in Modified : f \in Frames /\ f # Table
    BY <1>10 DEF Modified
  <2>3. \A f \in Frames : f # Table => f \in 0 .. LastFrame
    BY <1>10
  <2>4. boot .. LastFrame \subseteq 1 .. LastFrame
    BY <1>10
  <2> QED BY <2>1, <2>2, <2>3, <2>4
<1>12. PICK A, B, C, D, E : /\ A = FramesOf(FreeFrames) /\ B = Held /\ C = Moving
                            /\ D = Modified /\ E = boot .. LastFrame
  OBVIOUS
<1>13. \A i, j \in 1 .. 5 : i # j => <<A, B, C, D, E>>[i] \cap <<A, B, C, D, E>>[j] \subseteq {0}
  <2>1. \A f \in 0 .. LastFrame : f # 0 => f \in 1 .. LastFrame
    OBVIOUS
  <2>2. /\ A \cap B \subseteq {0} /\ A \cap C \subseteq {0} /\ A \cap D \subseteq {0}
        /\ A \cap E \subseteq {0} /\ B \cap C \subseteq {0} /\ B \cap D \subseteq {0}
        /\ B \cap E \subseteq {0} /\ C \cap D \subseteq {0} /\ C \cap E \subseteq {0}
        /\ D \cap E \subseteq {0}
    BY <1>6, <1>7, <1>9, <1>11, <1>12, <2>1
  <2> QED BY <2>2
<1>14. UNION {<<A, B, C, D, E>>[i] \ {0} : i \in 1 .. 5} = 1 .. LastFrame
  <2>1. UNION {<<A, B, C, D, E>>[i] \ {0} : i \in 1 .. 5} = (A \cup B \cup C \cup D \cup E) \ {0}
    <3>1. ASSUME NEW x \in UNION {<<A, B, C, D, E>>[i] \ {0} : i \in 1 .. 5}
          PROVE  x \in (A \cup B \cup C \cup D \cup E) \ {0}
      <4>1. PICK i \in 1 .. 5 : x \in <<A, B, C, D, E>>[i] \ {0}
        OBVIOUS
      <4>2. i = 1 \/ i = 2 \/ i = 3 \/ i = 4 \/ i = 5
        OBVIOUS
      <4> QED BY <4>1, <4>2
    <3>2. ASSUME NEW x \in (A \cup B \cup C \cup D \cup E) \ {0}
          PROVE  \E i \in 1 .. 5 : x \in <<A, B, C, D, E>>[i] \ {0}
      <4>1. CASE x \in A
        <5>1. x \in <<A, B, C, D, E>>[1] \ {0}
          BY <4>1
        <5> QED BY <5>1
      <4>2. CASE x \in B
        <5>1. x \in <<A, B, C, D, E>>[2] \ {0}
          BY <4>2
        <5> QED BY <5>1
      <4>3. CASE x \in C
        <5>1. x \in <<A, B, C, D, E>>[3] \ {0}
          BY <4>3
        <5> QED BY <5>1
      <4>4. CASE x \in D
        <5>1. x \in <<A, B, C, D, E>>[4] \ {0}
          BY <4>4
        <5> QED BY <5>1
      <4>5. CASE x \in E
        <5>1. x \in <<A, B, C, D, E>>[5] \ {0}
          BY <4>5
        <5> QED BY <5>1
      <4> QED BY <4>1, <4>2, <4>3, <4>4, <4>5
    <3> QED BY <3>1, <3>2
  <2>2. \A f \in 0 .. LastFrame : f # 0 <=> f \in 1 .. LastFrame
    OBVIOUS
  <2>3. \A f \in 1 .. LastFrame : f \in (A \cup B \cup C \cup D \cup E) \ {0}
    BY <1>11, <1>12
  <2>4. \A f \in (A \cup B \cup C \cup D \cup E) \ {0} : f \in 1 .. LastFrame
    <3>1. 1 .. LastFrame \subseteq 0 .. LastFrame
      OBVIOUS
    <3>2. A \cup B \cup C \cup D \cup E \subseteq 0 .. LastFrame
      BY <1>6, <1>7, <1>11, <1>12, <3>1
    <3> QED BY <2>2, <3>2
  <2> QED BY <2>1, <2>3, <2>4
<1>15. \A a, b \in Blocks :
         a # b => FramesOf(held[a].frames) \cap FramesOf(held[b].frames) \subseteq {0}
  BY <1>8 DEF Owned, Apart
<1> QED BY <1>12, <1>13, <1>14, <1>15

(* The pages of the stack a processor works on, and all of them.           *)
LEMMA PagesCount ==
  ASSUME NEW S, NEW s \in Seq(S), NEW where, NEW x
  PROVE  IsFiniteSet(Pages(where, x, s)) /\ Cardinality(Pages(where, x, s)) = Len(s)
<1>1. Len(s) \in Nat /\ DOMAIN s = 1 .. Len(s)
  BY LenProperties
<1>2. IsFiniteSet(1 .. Len(s)) /\ Cardinality(1 .. Len(s)) = Len(s)
  <2>1. \A k \in Int : IsFiniteSet(1 .. k) /\ Cardinality(1 .. k) = IF 1 > k THEN 0 ELSE k - 1 + 1
    BY FS_Interval
  <2> QED BY <1>1, <2>1
<1>3. PICK g : g = [i \in 1 .. Len(s) |-> <<where, x, i>>]
  OBVIOUS
<1>4. g \in Bijection(1 .. Len(s), Pages(where, x, s))
  <2>1. g \in [1 .. Len(s) -> Pages(where, x, s)]
    BY <1>1, <1>3 DEF Pages
  <2>2. \A i, j \in 1 .. Len(s) : g[i] = g[j] => i = j
    BY <1>3
  <2>3. \A t \in Pages(where, x, s) : \E i \in 1 .. Len(s) : g[i] = t
    BY <1>1, <1>3 DEF Pages
  <2> QED BY <2>1, <2>2, <2>3 DEF Bijection, Injection, Surjection, IsInjective
<1>5. ExistsBijection(1 .. Len(s), Pages(where, x, s))
  BY <1>4 DEF ExistsBijection
<1> QED BY <1>2, <1>5, FS_Bijection

LEMMA PagesAdd ==
  ASSUME NEW S, NEW s \in Seq(S), NEW where, NEW x, NEW A, IsFiniteSet(A),
         A \cap Pages(where, x, s) = {}
  PROVE  /\ IsFiniteSet(A \cup Pages(where, x, s))
         /\ Cardinality(A \cup Pages(where, x, s)) = Cardinality(A) + Len(s)
<1>1. PICK B : B = Pages(where, x, s)
  OBVIOUS
<1>2. IsFiniteSet(B) /\ Cardinality(B) = Len(s)
  BY <1>1, PagesCount
<1>3. Cardinality(A) \in Nat /\ Cardinality(B) \in Nat
  BY <1>2, FS_CardinalityType
<1>4. /\ IsFiniteSet(A \cup B)
      /\ Cardinality(A \cup B) = Cardinality(A) + Cardinality(B) - Cardinality(A \cap B)
  BY <1>2, FS_Union
<1>5. Cardinality(A \cap B) = 0
  BY <1>1, FS_EmptySet
<1> QED BY <1>1, <1>2, <1>3, <1>4, <1>5

LEMMA InvCounts ==
  ASSUME Inv
  PROVE  CountsAgree
<1>1. SUFFICES ASSUME ~panicked
      PROVE  /\ \A p \in (Held \cup Moving) \ {0} :
                  pfn[p].at = "active" /\ pfn[p].u2 = 1 /\ pfn[p].refs = 1
             /\ pfn[Table].u2 = 1 + Cardinality(Mapped("stack"))
  BY DEF CountsAgree
<1>2. Calls /\ Owned /\ Entries /\ Shares /\ Types
  BY <1>1 DEF Inv, Sound
<1>3. ASSUME NEW p \in (Held \cup Moving) \ {0}
      PROVE  pfn[p].at = "active" /\ pfn[p].u2 = 1 /\ pfn[p].refs = 1
  <2>1. p \in 0 .. LastFrame
    <3>1. CASE p \in Held
      <4>1. PICK b \in Blocks : p \in FramesOf(held[b].frames)
        BY <3>1 DEF Held
      <4>2. held[b].frames \in Seq(0 .. LastFrame)
        BY <1>2 DEF Types, BlockRecord
      <4> QED BY <4>1, <4>2, ElementOfSeq, LenProperties DEF FramesOf
    <3>2. CASE p \in Moving
      <4>1. PICK c \in Cpus : p \in FramesOf(op[c].frames)
        BY <3>2 DEF Moving
      <4>2. op[c].frames \in Seq(0 .. LastFrame)
        BY <1>2 DEF Types, CallRecord
      <4> QED BY <4>1, <4>2, ElementOfSeq, LenProperties DEF FramesOf
    <3> QED BY <3>1, <3>2
  <2>2. p \in 1 .. LastFrame
    BY <2>1
  <2> QED BY <1>2, <2>2 DEF Entries
<1> DEFINE CallPages ==
             UNION {Pages("op", c, op[c].frames) : c \in {x \in Cpus : op[x].kind = "stack"}}
<1>0. Mapped("stack") = StackPages \cup CallPages
  BY Zenon DEF Mapped, StackPages
<1>4. PICK W : W = CallPages
  OBVIOUS
<1>5. Mapped("stack") = StackPages \cup W
  BY <1>0, <1>4
<1>6. CASE \A c \in Cpus : op[c].kind # "stack"
  <2>1. W = {}
    BY <1>4, <1>6
  <2> QED BY <1>2, <1>3, <1>5, <1>6, <2>1 DEF Shares
<1>7. ASSUME NEW c \in Cpus, op[c].kind = "stack"
      PROVE  pfn[Table].u2 = 1 + Cardinality(Mapped("stack"))
  <2>1. \A d \in Cpus : op[d].kind = "stack" => d = c
    <3>1. \A d \in Cpus : op[d].kind = "stack" => op[d] # Idle
      BY DEF Idle
    <3> QED BY <1>2, <1>7, <3>1 DEF Calls
  <2>2. {x \in Cpus : op[x].kind = "stack"} = {c}
    BY <1>7, <2>1
  <2>3. W = Pages("op", c, op[c].frames)
    BY <1>4, <2>2
  <2>4. op[c].frames \in Seq(0 .. LastFrame)
    BY <1>2 DEF Types, CallRecord
  <2>5. StackPages \cap W = {}
    <3>1. \A t \in StackPages : t[1] = "held"
      BY DEF StackPages, Pages
    <3>2. \A t \in W : t[1] = "op"
      BY <2>3 DEF Pages
    <3> QED BY <3>1, <3>2
  <2>6. IsFiniteSet(StackPages) /\ pfn[Table].u2 = 1 + Cardinality(StackPages) + Len(op[c].frames)
    BY <1>2, <1>7 DEF Shares
  <2>7. Cardinality(StackPages \cup W) = Cardinality(StackPages) + Len(op[c].frames)
    BY <2>3, <2>4, <2>5, <2>6, PagesAdd
  <2>8. Cardinality(StackPages) \in Nat /\ Len(op[c].frames) \in Nat
    BY <2>4, <2>6, FS_CardinalityType, LenProperties
  <2>9. PICK n \in Nat : n = Cardinality(StackPages)
    BY <2>8
  <2>10. PICK m \in Nat : m = Len(op[c].frames)
    BY <2>8
  <2>11. pfn[Table].u2 = 1 + n + m /\ Cardinality(Mapped("stack")) = n + m
    BY <1>5, <2>6, <2>7, <2>9, <2>10
  <2>12. 1 + n + m = 1 + (n + m)
    OBVIOUS
  <2> QED BY <2>11, <2>12
<1> QED BY <1>3, <1>6, <1>7

-----------------------------------------------------------------------------
(* Lists of pages that lose or gain one.                                   *)

LEMMA AppendUses ==
  ASSUME NEW s \in Seq(0 .. LastFrame), NEW p \in 0 .. LastFrame
  PROVE  /\ Append(s, p) \in Seq(0 .. LastFrame) /\ Append(s, p) # <<>>
         /\ Len(Append(s, p)) = Len(s) + 1
         /\ FramesOf(Append(s, p)) = FramesOf(s) \cup {p}
         /\ Single(s) /\ (p = 0 \/ p \notin FramesOf(s)) => Single(Append(s, p))
<1>1. Len(s) \in Nat /\ DOMAIN s = 1 .. Len(s)
  BY LenProperties
<1>2. PICK t : t = Append(s, p)
  OBVIOUS
<1>3. /\ t \in Seq(0 .. LastFrame) /\ Len(t) = Len(s) + 1 /\ DOMAIN t = 1 .. Len(s) + 1
      /\ t[Len(s) + 1] = p /\ \A i \in 1 .. Len(s) : t[i] = s[i]
  <2>1. t \in Seq(0 .. LastFrame) /\ Len(t) = Len(s) + 1
    BY <1>2, AppendProperties
  <2> QED BY <1>2, <2>1, AppendProperties, LenProperties
<1>4. t # <<>>
  BY <1>1, <1>3, EmptySeq
<1>5. \A i \in DOMAIN t : i = Len(s) + 1 \/ i \in DOMAIN s
  BY <1>1, <1>3
<1>6. FramesOf(t) = FramesOf(s) \cup {p}
  BY <1>1, <1>3, <1>5 DEF FramesOf
<1>7. ASSUME Single(s), p = 0 \/ p \notin FramesOf(s) PROVE Single(t)
  <2> SUFFICES ASSUME NEW i \in DOMAIN t, NEW j \in DOMAIN t, t[i] = t[j], t[i] # 0 PROVE i = j
    BY DEF Single
  <2>1. CASE i \in DOMAIN s /\ j \in DOMAIN s
    BY <1>1, <1>3, <1>7, <2>1 DEF Single
  <2>2. CASE i = Len(s) + 1 /\ j \in DOMAIN s
    BY <1>1, <1>3, <1>7, <2>2 DEF FramesOf
  <2>3. CASE i \in DOMAIN s /\ j = Len(s) + 1
    BY <1>1, <1>3, <1>7, <2>3 DEF FramesOf
  <2> QED BY <1>5, <2>1, <2>2, <2>3
<1> QED BY <1>2, <1>3, <1>4, <1>6, <1>7

LEMMA TailUses ==
  ASSUME NEW s \in Seq(0 .. LastFrame), s # <<>>
  PROVE  /\ Head(s) \in 0 .. LastFrame /\ Tail(s) \in Seq(0 .. LastFrame)
         /\ Len(s) \in Nat \ {0} /\ Len(Tail(s)) = Len(s) - 1
         /\ Len(s) # 1 => Tail(s) # <<>>
         /\ FramesOf(s) = FramesOf(Tail(s)) \cup {Head(s)}
         /\ Len(s) = 1 => FramesOf(s) = {Head(s)}
         /\ Single(s) => Single(Tail(s)) /\ (Head(s) = 0 \/ Head(s) \notin FramesOf(Tail(s)))
<1>1. /\ Len(s) \in Nat /\ DOMAIN s = 1 .. Len(s) /\ Len(s) # 0
      /\ \A i \in 1 .. Len(s) : s[i] \in 0 .. LastFrame
  BY LenProperties, EmptySeq, ElementOfSeq
<1>2. PICK t : t = Tail(s)
  OBVIOUS
<1>3. /\ t \in Seq(0 .. LastFrame) /\ Len(t) = Len(s) - 1 /\ DOMAIN t = 1 .. Len(s) - 1
      /\ \A i \in 1 .. Len(s) - 1 : t[i] = s[i + 1]
  <2>1. t \in Seq(0 .. LastFrame) /\ Len(t) = Len(s) - 1 /\ \A i \in 1 .. Len(t) : t[i] = s[i + 1]
    BY <1>2, HeadTailProperties
  <2> QED BY <2>1, LenProperties
<1>4. Head(s) = s[1]
  BY HeadTailProperties
<1>5. Len(s) # 1 => t # <<>>
  BY <1>1, <1>3, EmptySeq
<1>6. /\ \A i \in DOMAIN s : i = 1 \/ (i - 1 \in DOMAIN t /\ t[i - 1] = s[i])
      /\ \A i \in DOMAIN t : i + 1 \in DOMAIN s /\ t[i] = s[i + 1] /\ i + 1 # 1
      /\ 1 \in DOMAIN s
  <2>1. ASSUME NEW i \in DOMAIN s, i # 1 PROVE i - 1 \in DOMAIN t /\ t[i - 1] = s[i]
    <3>1. i - 1 \in 1 .. Len(s) - 1 /\ (i - 1) + 1 = i
      BY <1>1, <2>1
    <3> QED BY <1>3, <3>1
  <2>2. ASSUME NEW i \in DOMAIN t PROVE i + 1 \in DOMAIN s /\ t[i] = s[i + 1] /\ i + 1 # 1
    <3>0. Len(s) \in Nat /\ i \in 1 .. Len(s) - 1
      BY <1>1, <1>3
    <3>1. i + 1 \in 1 .. Len(s) /\ i + 1 # 1
      BY <3>0
    <3> QED BY <1>1, <1>3, <3>1
  <2> QED BY <1>1, <2>1, <2>2
<1>7. FramesOf(s) = FramesOf(t) \cup {s[1]}
  <2>1. \A f \in FramesOf(s) : f \in FramesOf(t) \cup {s[1]}
    BY <1>6 DEF FramesOf
  <2>2. \A f \in FramesOf(t) : f \in FramesOf(s)
    BY <1>6 DEF FramesOf
  <2>3. s[1] \in FramesOf(s)
    BY <1>6 DEF FramesOf
  <2> QED BY <2>1, <2>2, <2>3
<1>8. ASSUME Single(s) PROVE Single(t) /\ (s[1] = 0 \/ s[1] \notin FramesOf(t))
  <2>1. Single(t)
    <3> SUFFICES ASSUME NEW i \in DOMAIN t, NEW j \in DOMAIN t, t[i] = t[j], t[i] # 0 PROVE i = j
      BY DEF Single
    <3>1. i + 1 = j + 1
      BY <1>6, <1>8 DEF Single
    <3> QED BY <1>3, <3>1
  <2>2. ASSUME s[1] # 0, s[1] \in FramesOf(t) PROVE FALSE
    <3>1. PICK i \in DOMAIN t : t[i] = s[1]
      BY <2>2 DEF FramesOf
    <3>2. i + 1 = 1
      BY <1>6, <1>8, <2>2, <3>1 DEF Single
    <3> QED BY <1>6, <3>2
  <2> QED BY <2>1, <2>2
<1>9. Len(s) = 1 => FramesOf(s) = {s[1]}
  BY <1>1 DEF FramesOf
<1>10. s[1] \in 0 .. LastFrame /\ Len(s) \in Nat \ {0}
  BY <1>1, <1>6
<1> QED BY <1>2, <1>3, <1>4, <1>5, <1>7, <1>8, <1>9, <1>10

LEMMA ReverseUses ==
  ASSUME NEW s \in Seq(0 .. LastFrame)
  PROVE  /\ Reverse(s) \in Seq(0 .. LastFrame) /\ Len(Reverse(s)) = Len(s)
         /\ FramesOf(Reverse(s)) = FramesOf(s)
         /\ Single(s) => Single(Reverse(s))
<1>1. /\ Len(s) \in Nat /\ DOMAIN s = 1 .. Len(s)
      /\ \A i \in 1 .. Len(s) : s[i] \in 0 .. LastFrame
  BY LenProperties, ElementOfSeq
<1>2. PICK t : t = Reverse(s)
  OBVIOUS
<1>3. t = [i \in 1 .. Len(s) |-> s[Len(s) - i + 1]]
  BY <1>2 DEF Reverse
<1>4. /\ DOMAIN t = 1 .. Len(s)
      /\ \A i \in 1 .. Len(s) : t[i] = s[Len(s) - i + 1] /\ Len(s) - i + 1 \in 1 .. Len(s)
  <2>1. Len(s) \in Nat
    BY <1>1
  <2>2. \A i \in 1 .. Len(s) : Len(s) - i + 1 \in 1 .. Len(s)
    BY <2>1
  <2> QED BY <1>3, <2>2
<1>5. t \in Seq(0 .. LastFrame) /\ Len(t) = Len(s)
  <2>1. t \in [1 .. Len(s) -> 0 .. LastFrame]
    <3>1. \A i \in 1 .. Len(s) : s[Len(s) - i + 1] \in 0 .. LastFrame
      BY <1>1, <1>4
    <3> QED BY <1>3, <3>1
  <2>2. t \in Seq(0 .. LastFrame)
    BY <1>1, <2>1, SeqDef
  <2>3. DOMAIN t = 1 .. Len(t) /\ Len(t) \in Nat
    BY <2>2, LenProperties
  <2>4. Len(t) = Len(s)
    BY <1>1, <1>4, <2>3
  <2> QED BY <2>2, <2>4
<1>6. FramesOf(t) = FramesOf(s)
  <2>1. \A i \in DOMAIN t : \E j \in DOMAIN s : t[i] = s[j]
    BY <1>1, <1>4
  <2>2. ASSUME NEW j \in DOMAIN s PROVE \E i \in DOMAIN t : t[i] = s[j]
    <3>1. Len(s) \in Nat /\ j \in 1 .. Len(s)
      BY <1>1
    <3>2. Len(s) - j + 1 \in 1 .. Len(s) /\ Len(s) - (Len(s) - j + 1) + 1 = j
      BY <3>1
    <3>3. t[Len(s) - j + 1] = s[j]
      BY <1>4, <3>2
    <3> QED BY <1>4, <3>2, <3>3
  <2> QED BY <2>1, <2>2 DEF FramesOf
<1>7. ASSUME Single(s) PROVE Single(t)
  <2> SUFFICES ASSUME NEW i \in 1 .. Len(s), NEW j \in 1 .. Len(s), t[i] = t[j], t[i] # 0
               PROVE  i = j
    BY <1>4 DEF Single
  <2>1. Len(s) - i + 1 = Len(s) - j + 1
    BY <1>1, <1>4, <1>7 DEF Single
  <2>2. Len(s) \in Nat
    BY <1>1
  <2> QED BY <2>1, <2>2
<1> QED BY <1>2, <1>5, <1>6, <1>7

(* Who works, works alone.                                                 *)
LEMMA IdleFacts ==
  /\ Idle \in CallRecord /\ Idle.pc = "idle" /\ Idle.kind = "none" /\ Idle.frames = <<>>
  /\ Nothing \in BlockRecord /\ Nothing.kind = "none" /\ Nothing.frames = <<>>
  /\ FramesOf(<<>>) = {} /\ Single(<<>>) /\ <<>> \in Seq(0 .. LastFrame) /\ Len(<<>>) = 0
<1>1. <<>> \in Seq(0 .. LastFrame) /\ Len(<<>>) = 0
  OBVIOUS
<1>2. DOMAIN <<>> = {}
  OBVIOUS
<1>3. FramesOf(<<>>) = {} /\ Single(<<>>)
  BY <1>2 DEF FramesOf, Single
<1>4. 0 \in 0 .. LastFrame /\ 0 \in Nat
  OBVIOUS
<1> QED BY <1>1, <1>3, <1>4 DEF Idle, Nothing, CallRecord, BlockRecord

LEMMA WorksAlone ==
  ASSUME Types, Calls, NEW c \in Cpus, op[c] # Idle
  PROVE  /\ \A d \in Cpus \ {c} : op[d] = Idle
         /\ op[c] \in CallRecord
         /\ CallSound(c)
         /\ Moving = FramesOf(op[c].frames)
<1>1. \A d \in Cpus \ {c} : op[d] = Idle
  BY DEF Calls
<1>2. \A d \in Cpus \ {c} : FramesOf(op[d].frames) = {}
  BY <1>1, IdleFacts
<1>3. Moving = FramesOf(op[c].frames)
  BY <1>2 DEF Moving
<1> QED BY <1>1, <1>3 DEF Calls, Types

LEMMA Used ==
  ASSUME NEW f
  PROVE  f \in Held \cup Moving <=> \/ \E b \in Blocks : f \in FramesOf(held[b].frames)
                                    \/ \E c \in Cpus : f \in FramesOf(op[c].frames)
BY DEF Held, Moving

-----------------------------------------------------------------------------
(* The invariant holds at first.                                           *)
LEMMA InitLists ==
  ASSUME Init
  PROVE  Lists(<<>>) /\ ListVars
<1>1. /\ <<>> \in Seq(1 .. LastFrame) /\ Len(<<>>) = 0 /\ DOMAIN <<>> = {}
      /\ Once(<<>>) /\ Elements(<<>>) = {}
  <2>1. <<>> \in Seq(1 .. LastFrame) /\ Len(<<>>) = 0 /\ DOMAIN <<>> = {}
    OBVIOUS
  <2> QED BY <2>1 DEF Once, Elements
<1>2. ASSUME NEW link, NEW none, NEW first, first = NoFrame
      PROVE  Chain(<<>>, first, link) /\ Back(<<>>, link, none)
  BY <1>1, <1>2 DEF Chain, Back
<1>3. /\ freeList = [flink |-> NoFrame, blink |-> NoFrame, total |-> 0]
      /\ colors = [c \in 0 .. Colors - 1 |-> [flink |-> NoFrame, blink |-> NoFrame, count |-> 0]]
      /\ available = 0
      /\ pfn = [f \in Frames |-> IF f \in {0, Table} THEN InUse(1) ELSE Unused]
  BY DEF Init
<1>4. /\ Unused.at = "zeroed" /\ InUse(1).at = "active"
      /\ InUse(1) \in FrameRecord /\ Unused \in FrameRecord
  <2>1. 0 \in Frames /\ 0 \in 0 .. 1 /\ 1 \in 0 .. 1
    BY DEF Frames, Table
  <2>2. Unused = [flink |-> 0, u2 |-> 0, prev |-> 0, next |-> 0, at |-> "zeroed",
                  refs |-> 0, removable |-> FALSE]
    <3>1. PICK e : e = [flink |-> 0, u2 |-> 0, prev |-> 0, next |-> 0, at |-> "active",
                        refs |-> 1, removable |-> FALSE]
      OBVIOUS
    <3>2. e \in FrameRecord
      BY <2>1, <3>1 DEF FrameRecord
    <3>3. PICK r : r = [e EXCEPT !.at = "zeroed", !.refs = 0]
      OBVIOUS
    <3>4. r = [flink |-> e.flink, u2 |-> e.u2, prev |-> e.prev, next |-> e.next, at |-> "zeroed",
               refs |-> 0, removable |-> e.removable]
      BY <3>2, <3>3 DEF FrameRecord
    <3>5. Unused = r
      BY <3>1, <3>3 DEF Unused, InUse
    <3> QED BY <3>1, <3>4, <3>5
  <2> QED BY <2>1, <2>2 DEF InUse, FrameRecord
<1>5. QueueOf(<<>>, pfn, freeList, available)
  <2>1. \A f \in Frames : pfn[f].at # "free"
    BY <1>3, <1>4
  <2> QED BY <1>1, <1>2, <1>3, <2>1 DEF QueueOf
<1>6. ASSUME NEW c \in 0 .. Colors - 1 PROVE ColorOf(<<>>, <<>>, c, pfn, colors[c])
  <2>1. colors[c].flink = NoFrame /\ colors[c].count = 0
    BY <1>3
  <2> QED BY <1>1, <1>2, <2>1 DEF ColorOf
<1>7. Lists(<<>>)
  BY <1>5, <1>6 DEF Lists
<1>8. ListVars
  <2>1. NoFrame \in Int /\ 0 \in 0 .. LastFrame
    BY DEF NoFrame
  <2> QED BY <1>3, <1>4, <2>1 DEF ListVars, ColorRecord
<1> QED BY <1>7, <1>8

LEMMA InitInv ==
  ASSUME Init
  PROVE  Inv
<1>1. Lists(<<>>) /\ ListVars
  BY InitLists
<1>2. /\ nextColor = 0 /\ boot = 1 /\ panicked = FALSE
      /\ \A b \in Blocks : held[b] = Nothing
      /\ \A c \in Cpus : op[c] = Idle
      /\ held = [b \in Blocks |-> Nothing] /\ op = [c \in Cpus |-> Idle]
      /\ pfn = [f \in Frames |-> IF f \in {0, Table} THEN InUse(1) ELSE Unused]
  BY DEF Init
<1>3. Types
  <2>1. 0 \in 0 .. Colors - 1 /\ 1 \in 1 .. LastFrame + 1
    OBVIOUS
  <2> QED BY <1>1, <1>2, <2>1, IdleFacts DEF Types
<1>4. PoolFramesReal
  BY <1>2, IdleFacts DEF PoolFramesReal
<1>5. Calls /\ Stocks
  BY <1>2 DEF Calls, Stocks
<1>6. Owned
  BY <1>2, IdleFacts DEF Owned, Apart
<1>7. Entries
  <2>1. Held \cup Moving = {}
    BY <1>2, IdleFacts DEF Held, Moving
  <2>2. \A f \in 1 .. LastFrame : f \in Frames /\ f # 0 /\ f # Table /\ boot <= f
    BY <1>2 DEF Frames, Table
  <2>3. 0 \in Frames /\ Table \in Frames
    BY DEF Frames, Table
  <2>4. \A f \in 1 .. LastFrame : pfn[f].at = "zeroed"
    BY <1>2, <2>2 DEF Unused, InUse
  <2>5. pfn[0] = InUse(1) /\ pfn[Table] = InUse(1)
    BY <1>2, <2>3
  <2> QED BY <2>1, <2>2, <2>4, <2>5 DEF Entries, InUse
<1>8. Shares
  <2>1. {x \in Blocks : held[x].kind = "stack"} = {}
    BY <1>2, IdleFacts
  <2>2. StackPages = {}
    BY <2>1 DEF StackPages
  <2>3. Table \in Frames
    BY DEF Frames, Table
  <2>4. pfn[Table].u2 = 1
    BY <1>2, <2>3 DEF InUse
  <2> QED BY <1>2, <2>2, <2>4, IdleFacts, FS_EmptySet DEF Shares
<1> QED BY <1>1, <1>2, <1>3, <1>4, <1>5, <1>6, <1>7, <1>8 DEF Inv, Sound

-----------------------------------------------------------------------------
(* Linking the frames of free memory at boot.                              *)
LEMMA BootStep ==
  ASSUME Inv, NEW q, Lists(q), ProcessMemoryDescriptor
  PROVE  Inv' /\ \E p \in 1 .. LastFrame : p \notin Elements(q) /\ Lists(Append(q, p))'
<1>1. /\ boot <= LastFrame /\ boot' = boot + 1 /\ LinkFreePage(pfn, boot)
      /\ nextColor' = nextColor /\ held' = held /\ op' = op /\ panicked' = panicked
  BY DEF ProcessMemoryDescriptor
<1>2. Types /\ PoolFramesReal /\ (panicked => boot > LastFrame) /\ boot \in 1 .. LastFrame + 1
  BY DEF Inv, Types
<1>3. boot \in 1 .. LastFrame /\ ~panicked /\ boot' \in 1 .. LastFrame + 1 /\ ~(boot > LastFrame)
  BY <1>1, <1>2
<1>4. Calls /\ Stocks /\ Owned /\ Entries /\ Shares
  BY <1>3 DEF Inv, Sound
<1>5. boot \in Frames /\ pfn[boot].at = "zeroed" /\ boot # Table /\ boot # 0
      /\ 0 \in Frames /\ Table \in Frames
  BY <1>3, <1>4 DEF Entries, Frames, Table
<1>6. boot \notin Elements(q)
  BY <1>5 DEF Lists, QueueOf
<1>7. PICK p \in 1 .. LastFrame :
        /\ p = boot
        /\ Lists(Append(q, p))' /\ ListVars'
        /\ \A f \in Frames : /\ pfn'[f].refs = pfn[f].refs /\ pfn'[f].removable = pfn[f].removable
                             /\ f # p => pfn'[f].at = pfn[f].at /\ pfn'[f].u2 = pfn[f].u2
        /\ pfn'[p].at = "free"
  <2>1. PICK p \in 1 .. LastFrame : p = boot
    BY <1>3
  <2>2. PICK db : db = pfn
    OBVIOUS
  <2>3. ListVars
    BY <1>2 DEF Types
  <2>4. db \in [Frames -> FrameRecord]
    BY <2>2, <2>3 DEF ListVars
  <2>5. LinkFreePage(db, p) /\ p \notin Elements(q) /\ \A f \in Frames : f # p => db[f] = pfn[f]
    BY <1>1, <1>6, <2>1, <2>2
  <2> QED BY <2>1, <2>2, <2>3, <2>4, <2>5, LinkGrowsLists
<1>8. (\A c \in Cpus : op[c] = Idle) /\ (\A b \in Blocks : held[b] = Nothing)
  BY <1>3, <1>4 DEF Calls, CallSound, Stocks
<1>9. Held = {} /\ Moving = {} /\ Held' = {} /\ Moving' = {}
  BY <1>1, <1>8, IdleFacts DEF Held, Moving
<1>10. Types'
  BY <1>1, <1>2, <1>3, <1>7 DEF Types
<1>11. PoolFramesReal'
  BY <1>1, <1>2 DEF PoolFramesReal
<1>12. Calls' /\ Stocks'
  BY <1>1, <1>8 DEF Calls, Stocks
<1>13. Owned'
  BY <1>1, <1>4 DEF Owned
<1>14. Entries'
  <2>1. ASSUME NEW f \in 1 .. LastFrame
        PROVE  /\ pfn'[f].at # "active" /\ pfn'[f].at # "transition"
               /\ pfn'[f].at = "zeroed" <=> boot' <= f
    <3>1. f \in Frames
      BY DEF Frames, Table
    <3>2. pfn[f].at # "active" /\ pfn[f].at # "transition" /\ (pfn[f].at = "zeroed" <=> boot <= f)
      BY <1>4, <1>9 DEF Entries
    <3>3. CASE f = boot
      BY <1>1, <1>3, <1>7, <3>3
    <3>4. CASE f # boot
      <4>1. pfn'[f].at = pfn[f].at
        BY <1>7, <3>1, <3>4
      <4>2. boot <= f <=> boot + 1 <= f
        BY <1>3, <3>4
      <4> QED BY <1>1, <3>2, <4>1, <4>2
    <3> QED BY <3>3, <3>4
  <2> QED BY <1>4, <1>5, <1>7, <1>9, <2>1 DEF Entries
<1>15. Shares'
  <2>1. StackPages' = StackPages /\ pfn'[Table].u2 = pfn[Table].u2
    BY <1>1, <1>5, <1>7 DEF StackPages
  <2> QED BY <1>1, <1>4, <2>1 DEF Shares
<1> QED BY <1>1, <1>3, <1>6, <1>7, <1>10, <1>11, <1>12, <1>13, <1>14, <1>15 DEF Inv, Sound

(* Only one kind of call may be under way.                                 *)
LEMMA NobodyElse ==
  ASSUME OneUser, Types, Calls, NEW c \in Cpus, op[c] = Idle, NEW kind \in Kinds, LockFree(kind)
  PROVE  \A d \in Cpus : op[d] = Idle
<1> SUFFICES ASSUME NEW d \in Cpus, op[d] # Idle PROVE FALSE
  OBVIOUS
<1>1. op[d].kind \in Kinds /\ op[d].kind # kind
  BY DEF Calls, CallSound, LockFree
<1>2. c # d
  OBVIOUS
<1>3. PoolRequests # {} /\ StackRequests # {}
  BY <1>1 DEF Kinds
<1> QED BY <1>2, <1>3 DEF OneUser

(* A call begins.                                                          *)
LEMMA BeginStep ==
  ASSUME Inv, OneUser, NEW q, Lists(q), NEW c \in Cpus, NEW kind \in Kinds, NEW n \in Nat \ {0},
         kind = "pool" => n < available, Begin(c, kind, n)
  PROVE  Inv' /\ Lists(q)'
<1>1. PICK r : r = [pc |-> "pick", kind |-> kind, left |-> n, page |-> 0, frames |-> <<>>]
  OBVIOUS
<1>2. /\ boot > LastFrame /\ ~panicked /\ op[c] = Idle /\ LockFree(kind)
      /\ op' = [op EXCEPT ![c] = r]
      /\ pfn' = pfn /\ freeList' = freeList /\ colors' = colors /\ available' = available
      /\ nextColor' = nextColor /\ boot' = boot /\ held' = held /\ panicked' = panicked
  BY <1>1 DEF Begin, lists
<1>3. Types /\ PoolFramesReal /\ Calls /\ Stocks /\ Owned /\ Entries /\ Shares
  BY <1>2 DEF Inv, Sound
<1>4. \A d \in Cpus : op[d] = Idle
  BY <1>2, <1>3, NobodyElse
<1>5. kind \in {"pool", "stack"} /\ available \in Nat
  BY <1>3 DEF Kinds, Types, ListVars
<1>6. /\ r \in CallRecord /\ r.frames = <<>> /\ r.pc = "pick" /\ r.kind = kind /\ r.left = n
      /\ r # Idle
  <2>1. 0 \in 0 .. LastFrame
    OBVIOUS
  <2>2. r \in CallRecord
    BY <1>1, <1>5, <2>1, IdleFacts DEF CallRecord
  <2> QED BY <1>1, <2>2, IdleFacts
<1>7. op' \in [Cpus -> CallRecord] /\ op'[c] = r /\ \A d \in Cpus \ {c} : op'[d] = Idle
  BY <1>2, <1>3, <1>4, <1>6 DEF Types
<1>8. Types' /\ Lists(q)'
  <2>1. Types'
    BY <1>2, <1>3, <1>7 DEF Types, ListVars
  <2> QED BY <1>2, <2>1 DEF Lists
<1>9. \A d \in Cpus : op'[d].frames = <<>> /\ op[d].frames = <<>>
  BY <1>4, <1>6, <1>7, IdleFacts
<1>10. PoolFramesReal'
  <2>1. DOMAIN <<>> = {}
    OBVIOUS
  <2> QED BY <1>2, <1>3, <1>9, <2>1 DEF PoolFramesReal
<1>11. Calls'
  <2>1. CallSound(c)'
    <3>1. kind = "pool" => n <= available
      BY <1>5
    <3> QED BY <1>2, <1>6, <1>7, <3>1 DEF CallSound
  <2> QED BY <1>7, <2>1 DEF Calls
<1>12. Stocks'
  BY <1>2, <1>3 DEF Stocks
<1>13. Owned'
  BY <1>2, <1>3, <1>9, IdleFacts DEF Owned, Apart
<1>14. Entries'
  <2>1. Held' = Held /\ Moving = {} /\ Moving' = {}
    BY <1>2, <1>9, IdleFacts DEF Held, Moving
  <2> QED BY <1>2, <1>3, <2>1 DEF Entries
<1>15. Shares'
  <2>1. StackPages' = StackPages /\ pfn' = pfn
    BY <1>2 DEF StackPages
  <2>2. pfn[Table].u2 = 1 + Cardinality(StackPages) /\ IsFiniteSet(StackPages)
    BY <1>3, <1>4, IdleFacts DEF Shares
  <2>3. Cardinality(StackPages) \in Nat
    BY <2>2, FS_CardinalityType
  <2>4. 1 + Cardinality(StackPages) + 0 = 1 + Cardinality(StackPages)
    BY <2>3
  <2>5. \A d \in Cpus : Len(op'[d].frames) = 0
    BY <1>9, IdleFacts
  <2> QED BY <2>1, <2>2, <2>4, <2>5 DEF Shares
<1> QED BY <1>2, <1>8, <1>10, <1>11, <1>12, <1>13, <1>14, <1>15 DEF Inv, Sound

(* A frame is picked.                                                      *)
LEMMA PickStep ==
  ASSUME Inv, NEW q, Lists(q), NEW c \in Cpus, AllocatePhysicalPage(c)
  PROVE  Inv' /\ Lists(q)'
<1>1. PICK r : r = [op[c] EXCEPT !.pc = "take", !.page = PickFrame(nextColor')]
  OBVIOUS
<1>2. /\ op[c].pc = "pick" /\ ~panicked
      /\ nextColor' = (nextColor + 1) % Colors
      /\ pfn' = pfn /\ freeList' = freeList /\ colors' = colors /\ available' = available
      /\ boot' = boot /\ held' = held /\ panicked' = panicked
  BY DEF AllocatePhysicalPage, lists
<1>3. Types /\ PoolFramesReal /\ Calls /\ Stocks /\ Owned /\ Entries /\ Shares
  BY <1>2 DEF Inv, Sound
<1>4. op' = [op EXCEPT ![c] = r] /\ op \in [Cpus -> CallRecord] /\ op[c] \in CallRecord
  BY <1>1, <1>3 DEF AllocatePhysicalPage, Types
<1>5. op[c] # Idle
  BY <1>2, IdleFacts
<1>6. (\A d \in Cpus \ {c} : op[d] = Idle) /\ CallSound(c)
  BY <1>3, <1>5, WorksAlone
<1>7. nextColor' \in 0 .. Colors - 1
  <2>1. nextColor \in 0 .. Colors - 1
    BY <1>3 DEF Types
  <2>2. nextColor + 1 \in Int /\ Colors \in Nat /\ Colors > 0
    BY <2>1
  <2> QED BY <1>2, <2>2
<1>8. PickFrame(nextColor') \in 0 .. LastFrame
  <2>1. q \in Seq(1 .. LastFrame)
    BY DEF Lists, QueueOf
  <2>2. \A k \in 1 .. Len(q) : q[k] \in 0 .. LastFrame
    <3>1. \A k \in 1 .. Len(q) : q[k] \in 1 .. LastFrame
      BY <2>1, ElementOfSeq
    <3> QED BY <3>1
  <2> QED BY <1>7, <2>2, PickServes DEF PickedAt
<1>9. /\ r \in CallRecord /\ r.pc = "take" /\ r.page = PickFrame(nextColor')
      /\ r.kind = op[c].kind /\ r.left = op[c].left /\ r.frames = op[c].frames
  <2>1. r = [pc |-> "take", kind |-> op[c].kind, left |-> op[c].left,
             page |-> PickFrame(nextColor'), frames |-> op[c].frames]
    BY <1>1, <1>4 DEF CallRecord
  <2>2. /\ op[c].kind \in {"none", "pool", "stack"} /\ op[c].left \in Nat
        /\ op[c].frames \in Seq(0 .. LastFrame)
    BY <1>4 DEF CallRecord
  <2> QED BY <1>8, <2>1, <2>2 DEF CallRecord
<1>10. /\ op' \in [Cpus -> CallRecord] /\ op'[c] = r /\ \A d \in Cpus \ {c} : op'[d] = op[d]
  BY <1>4, <1>9
<1>11. \A d \in Cpus : op'[d].frames = op[d].frames /\ op'[d].kind = op[d].kind
  BY <1>9, <1>10
<1>12. Types' /\ Lists(q)'
  <2>1. Types'
    BY <1>2, <1>3, <1>7, <1>10 DEF Types, ListVars
  <2> QED BY <1>2, <2>1 DEF Lists
<1>13. PoolFramesReal'
  BY <1>2, <1>3, <1>11 DEF PoolFramesReal
<1>14. Calls'
  <2>1. PickFrame(nextColor') = PickFrame(nextColor)'
    BY <1>2 DEF PickFrame, PickUnguarded
  <2>2. CallSound(c)'
    BY <1>2, <1>6, <1>9, <1>10, <2>1 DEF CallSound
  <2> QED BY <1>6, <1>10, <2>2 DEF Calls
<1>15. Stocks'
  BY <1>2, <1>3 DEF Stocks
<1>16. Owned'
  BY <1>2, <1>3, <1>11 DEF Owned
<1>17. Entries'
  <2>1. Held' = Held /\ Moving' = Moving
    BY <1>2, <1>11 DEF Held, Moving
  <2> QED BY <1>2, <1>3, <2>1 DEF Entries
<1>18. Shares'
  <2>1. StackPages' = StackPages
    BY <1>2 DEF StackPages
  <2> QED BY <1>2, <1>3, <1>11, <2>1 DEF Shares
<1> QED BY <1>2, <1>12, <1>13, <1>14, <1>15, <1>16, <1>17, <1>18 DEF Inv, Sound

-----------------------------------------------------------------------------
(* A frame is taken: what the lists and the entries say of it.             *)
LEMMA TakeLists ==
  ASSUME Types, Calls, Entries, NEW q, Lists(q), NEW c \in Cpus, NEW b \in Blocks, TakeFrame(c, b)
  PROVE  \E p \in 0 .. LastFrame :
           /\ p = op[c].page /\ ListVars' /\ Unlisted(p, op[c].kind)
           /\ \/ /\ p = 0 /\ op[c].kind # "pool" /\ q = <<>> /\ Lists(q)'
              \/ /\ p # 0 /\ pfn[p].at = "free" /\ available' = available - 1
                 /\ \E k \in 1 .. Len(q) :
                      Queue!Serves(q, k, nextColor) /\ Lists(RemoveAt(q, k))'
<1>1. /\ op[c].pc = "take" /\ op[c] # Idle
      /\ IF op[c].page = 0 THEN UNCHANGED lists ELSE UnlinkFreePage(op[c].page)
      /\ pfn' = Activated(IF op[c].page = 0 THEN pfn ELSE Unlinked(op[c].page), op[c].page, op[c].kind)
  BY IdleFacts DEF TakeFrame
<1>2. CallSound(c) /\ op[c].page = PickFrame(nextColor) /\ ListVars /\ nextColor \in 0 .. Colors - 1
  BY <1>1 DEF Calls, CallSound, Types
<1>3. PICK kind : kind = op[c].kind
  OBVIOUS
<1>4. /\ q \in Seq(1 .. LastFrame) /\ \A k \in 1 .. Len(q) : q[k] \in 1 .. LastFrame /\ q[k] # 0
      /\ QueueOf(q, pfn, freeList, available)
  <2>1. q \in Seq(1 .. LastFrame) /\ QueueOf(q, pfn, freeList, available)
    BY DEF Lists, QueueOf
  <2> QED BY <2>1, ElementOfSeq
<1>5. CASE q = <<>> /\ available = 0 /\ PickFrame(nextColor) = 0
  <2>1. kind # "pool"
    <3>1. op[c].left >= 1 /\ (op[c].kind = "pool" => op[c].left <= available)
      BY <1>1, <1>2 DEF CallSound
    <3>2. op[c].left \in Nat
      BY DEF Types, CallRecord
    <3> QED BY <1>3, <1>5, <3>1, <3>2
  <2>2. PICK p \in 0 .. LastFrame : p = 0
    OBVIOUS
  <2>3. p \in Frames /\ p # Table /\ 0 \notin 1 .. LastFrame
    BY <2>2 DEF Frames, Table
  <2>4. ActivatedFields(pfn, p, kind, pfn')
    <3>1. pfn' = Activated(pfn, p, kind) /\ pfn \in [Frames -> FrameRecord]
      BY <1>1, <1>2, <1>3, <1>5, <2>2 DEF ListVars
    <3> QED BY <3>1, ActivateSetsFields
  <2>5. pfn[p].at # "free"
    <3>1. \A f \in Elements(q) : f \in 1 .. LastFrame
      BY <1>4, LenProperties DEF Elements
    <3> QED BY <1>4, <2>2, <2>3, <3>1 DEF QueueOf
  <2>6. UNCHANGED lists
    BY <1>1, <1>2, <1>5
  <2>7. /\ pfn' \in [Frames -> FrameRecord]
        /\ \A f \in Frames :
             /\ pfn'[f].at = "free" <=> pfn[f].at = "free"
             /\ pfn[f].at = "free" => /\ pfn'[f].flink = pfn[f].flink /\ pfn'[f].u2 = pfn[f].u2
                                      /\ pfn'[f].prev = pfn[f].prev /\ pfn'[f].next = pfn[f].next
    <3>1. pfn[Table].at = "active"
      BY DEF Entries
    <3> QED BY <2>4, <2>5, <3>1 DEF ActivatedFields
  <2>8. Lists(q)' /\ ListVars'
    BY <1>2, <2>6, <2>7, ListsSame
  <2>9. Unlisted(p, kind)
    BY <2>3, <2>4 DEF ActivatedFields, Unlisted
  <2> QED BY <1>2, <1>3, <1>5, <2>1, <2>2, <2>8, <2>9
<1>6. ASSUME NEW k \in 1 .. Len(q), PickedAt(q, k, nextColor)
      PROVE  \E p \in 0 .. LastFrame :
               /\ p = op[c].page /\ ListVars' /\ Unlisted(p, op[c].kind)
               /\ p # 0 /\ pfn[p].at = "free" /\ available' = available - 1
               /\ \E i \in 1 .. Len(q) :
                    Queue!Serves(q, i, nextColor) /\ Lists(RemoveAt(q, i))'
  <2>1. PICK p : p = q[k]
    OBVIOUS
  <2>2. p = op[c].page /\ p \in 1 .. LastFrame /\ p # 0 /\ p \in 0 .. LastFrame /\ p \in Frames
    BY <1>2, <1>4, <1>6, <2>1 DEF PickedAt, Frames, Table
  <2>3. UnlinkFreePage(q[k]) /\ pfn' = Activated(Unlinked(q[k]), q[k], kind)
    BY <1>1, <1>3, <2>1, <2>2
  <2>4. colors[Color(q[k])].flink = q[k]
    BY <1>6 DEF PickedAt
  <2>5. Lists(RemoveAt(q, k))' /\ ListVars' /\ Unlisted(q[k], kind)
    BY <1>2, <2>3, <2>4, UnlinkCutsLists
  <2>6. pfn[p].at = "free" /\ available' = available - 1
    BY <2>1, <2>3 DEF UnlinkFreePage
  <2> QED BY <1>3, <1>6, <2>1, <2>2, <2>5, <2>6 DEF PickedAt
<1> QED BY <1>2, <1>5, <1>6, PickServes

(* The call and the block, as the frame is appended.                       *)
TakesInto(c, b, p, o, all) ==
  /\ o = op[c] /\ p = o.page /\ all = Append(o.frames, p)
  /\ o # Idle /\ o.pc = "take" /\ held[b] = Nothing
  /\ IF o.left = 1
     THEN /\ held' = [held EXCEPT ![b] = [kind |-> o.kind, frames |-> all]]
          /\ op' = [op EXCEPT ![c] = Idle]
     ELSE /\ held' = held
          /\ op' = [op EXCEPT ![c] = [o EXCEPT !.pc = "pick", !.left = o.left - 1, !.frames = all]]

LEMMA TakeRecords ==
  ASSUME Types, NEW c \in Cpus, NEW b \in Blocks, NEW p \in 0 .. LastFrame, NEW o, NEW all,
         TakesInto(c, b, p, o, all), o.kind \in {"pool", "stack"}, o.left >= 1
  PROVE  /\ held' \in [Blocks -> BlockRecord] /\ op' \in [Cpus -> CallRecord]
         /\ \A x \in Blocks \ {b} : held'[x] = held[x]
         /\ \A d \in Cpus \ {c} : op'[d] = op[d]
         /\ o.left = 1 => /\ held'[b].kind = o.kind /\ held'[b].frames = all /\ op'[c] = Idle
                          /\ held'[b] # Nothing
         /\ o.left # 1 => /\ held'[b] = held[b] /\ op'[c].pc = "pick" /\ op'[c].kind = o.kind
                          /\ op'[c].left = o.left - 1 /\ op'[c].frames = all /\ op'[c].page = o.page
<1>1. o \in CallRecord /\ held \in [Blocks -> BlockRecord] /\ op \in [Cpus -> CallRecord]
  BY DEF Types, TakesInto
<1>2. o.frames \in Seq(0 .. LastFrame) /\ o.left \in Nat /\ o.page \in 0 .. LastFrame
  BY <1>1 DEF CallRecord
<1>3. all \in Seq(0 .. LastFrame)
  BY <1>2, AppendUses DEF TakesInto
<1>4. CASE o.left = 1
  <2>1. PICK r : r = [kind |-> o.kind, frames |-> all]
    OBVIOUS
  <2>2. r \in BlockRecord /\ r.kind = o.kind /\ r.frames = all /\ r # Nothing
    <3>1. r \in BlockRecord
      BY <1>3, <2>1 DEF BlockRecord
    <3> QED BY <2>1, <3>1, IdleFacts
  <2>3. held' = [held EXCEPT ![b] = r] /\ op' = [op EXCEPT ![c] = Idle]
    BY <1>4, <2>1 DEF TakesInto
  <2> QED BY <1>1, <1>4, <2>2, <2>3, IdleFacts
<1>5. CASE o.left # 1
  <2>1. PICK r : r = [o EXCEPT !.pc = "pick", !.left = o.left - 1, !.frames = all]
    OBVIOUS
  <2>2. r = [pc |-> "pick", kind |-> o.kind, left |-> o.left - 1, page |-> o.page, frames |-> all]
    BY <1>1, <2>1 DEF CallRecord
  <2>3. held' = held /\ op' = [op EXCEPT ![c] = r]
    BY <1>5, <2>1 DEF TakesInto
  <2>4. o.left - 1 \in Nat
    BY <1>2
  <2>5. r \in CallRecord
    BY <1>2, <1>3, <2>2, <2>4 DEF CallRecord
  <2> QED BY <1>1, <1>5, <2>2, <2>3, <2>5
<1> QED BY <1>4, <1>5

LEMMA TakeSound ==
  ASSUME Inv, NEW q, Lists(q), NEW c \in Cpus, NEW b \in Blocks, TakeFrame(c, b)
  PROVE  /\ Inv'
         /\ \/ q = <<>> /\ Lists(q)'
            \/ \E k \in 1 .. Len(q) : Queue!Serves(q, k, nextColor) /\ Lists(RemoveAt(q, k))'
<1>1. /\ op[c].pc = "take" /\ op[c] # Idle /\ ~panicked /\ held[b] = Nothing
      /\ nextColor' = nextColor /\ boot' = boot /\ panicked' = panicked
  BY IdleFacts DEF TakeFrame, Spare
<1>2. Types /\ PoolFramesReal /\ Calls /\ Stocks /\ Owned /\ Entries /\ Shares
  BY <1>1 DEF Inv, Sound
<1>3. /\ \A d \in Cpus \ {c} : op[d] = Idle
      /\ op[c] \in CallRecord /\ CallSound(c) /\ Moving = FramesOf(op[c].frames)
  BY <1>1, <1>2, WorksAlone
<1>4. PICK p \in 0 .. LastFrame :
        /\ p = op[c].page /\ ListVars' /\ Unlisted(p, op[c].kind)
        /\ \/ /\ p = 0 /\ op[c].kind # "pool" /\ q = <<>> /\ Lists(q)'
           \/ /\ p # 0 /\ pfn[p].at = "free" /\ available' = available - 1
              /\ \E k \in 1 .. Len(q) : Queue!Serves(q, k, nextColor) /\ Lists(RemoveAt(q, k))'
  BY <1>2, TakeLists
<1>5. PICK o : o = op[c]
  OBVIOUS
<1>6. PICK all : all = Append(o.frames, p)
  OBVIOUS
<1>7. TakesInto(c, b, p, o, all)
  <2>1. /\ held' = IF op[c].left = 1
                   THEN [held EXCEPT ![b] = [kind |-> op[c].kind, frames |-> all]] ELSE held
        /\ op' = [op EXCEPT ![c] =
                    IF op[c].left = 1 THEN Idle
                    ELSE [op[c] EXCEPT !.pc = "pick", !.left = op[c].left - 1, !.frames = all]]
    <3>1. all = Append(op[c].frames, op[c].page)
      BY <1>4, <1>5, <1>6
    <3>2. held' = IF op[c].left = 1
                  THEN [held EXCEPT ![b] = [kind |-> op[c].kind,
                                            frames |-> Append(op[c].frames, op[c].page)]]
                  ELSE held
      BY DEF TakeFrame
    <3>3. op' = [op EXCEPT ![c] =
                   IF op[c].left = 1 THEN Idle
                   ELSE [op[c] EXCEPT !.pc = "pick", !.left = op[c].left - 1,
                                      !.frames = Append(op[c].frames, op[c].page)]]
      BY <1>2, <1>3 DEF TakeFrame, Types, CallRecord
    <3> QED BY <3>1, <3>2, <3>3, Zenon
  <2> QED BY <1>1, <1>4, <1>5, <1>6, <2>1 DEF TakesInto
<1>8. /\ o \in CallRecord /\ o.kind \in Kinds /\ o.kind \in {"pool", "stack"} /\ o.left \in Nat
      /\ o.left >= 1 /\ (o.kind = "pool" => o.left <= available)
      /\ o.frames \in Seq(0 .. LastFrame)
      /\ boot > LastFrame /\ available \in Nat
  BY <1>1, <1>2, <1>3, <1>5 DEF CallSound, Kinds, CallRecord, Types, ListVars
<1>9. /\ held' \in [Blocks -> BlockRecord] /\ op' \in [Cpus -> CallRecord]
      /\ \A x \in Blocks \ {b} : held'[x] = held[x]
      /\ \A d \in Cpus \ {c} : op'[d] = Idle
      /\ o.left = 1 => /\ held'[b].kind = o.kind /\ held'[b].frames = all /\ op'[c] = Idle
                       /\ held'[b] # Nothing
      /\ o.left # 1 => /\ held'[b] = Nothing /\ op'[c].pc = "pick" /\ op'[c].kind = o.kind
                       /\ op'[c].left = o.left - 1 /\ op'[c].frames = all
  BY <1>1, <1>2, <1>3, <1>7, <1>8, TakeRecords
<1>10. \A f \in FramesOf(o.frames) \cup Held : f # p \/ p = 0
  <2>1. ASSUME p # 0, p \in Held \cup Moving PROVE FALSE
    <3>1. p \in 1 .. LastFrame
      BY <2>1
    <3> QED BY <1>2, <1>4, <2>1, <3>1 DEF Entries
  <2> QED BY <1>3, <1>5, <2>1
<1>11. /\ all \in Seq(0 .. LastFrame) /\ all # <<>> /\ Len(all) = Len(o.frames) + 1
       /\ Len(o.frames) \in Nat
       /\ FramesOf(all) = FramesOf(o.frames) \cup {p}
       /\ Single(all)
  <2>1. Single(o.frames)
    BY <1>2, <1>5 DEF Owned
  <2> QED BY <1>6, <1>8, <1>10, <2>1, AppendUses, LenProperties
<1>12. \A x \in Blocks : Apart(held[x].frames, all)
  <2> SUFFICES ASSUME NEW x \in Blocks, NEW f \in FramesOf(held[x].frames), f \in FramesOf(all)
               PROVE  f = 0
    BY DEF Apart
  <2>1. f \in Held
    BY DEF Held
  <2>2. f \in FramesOf(o.frames) => f = 0
    BY <1>2, <1>5 DEF Owned, Apart
  <2> QED BY <1>10, <1>11, <2>1, <2>2
<1>13. /\ FramesOf(Nothing.frames) = {} /\ FramesOf(Idle.frames) = {}
       /\ Single(Nothing.frames) /\ Single(Idle.frames)
  BY IdleFacts
<1>14. Types'
  BY <1>1, <1>2, <1>4, <1>9 DEF Types
<1>15. PoolFramesReal'
  <2>1. o.kind = "pool" => p # 0 /\ \A i \in DOMAIN all : all[i] # 0
    <3>1. o.kind = "pool" => 0 \notin FramesOf(o.frames)
      BY <1>2, <1>5 DEF PoolFramesReal, FramesOf
    <3>2. o.kind = "pool" => p # 0
      BY <1>4, <1>5
    <3>3. o.kind = "pool" => 0 \notin FramesOf(all)
      BY <1>11, <3>1, <3>2
    <3> QED BY <3>2, <3>3 DEF FramesOf
  <2>2. Nothing.kind # "pool" /\ Idle.kind # "pool"
    BY IdleFacts
  <2>3. ASSUME NEW x \in Blocks, held'[x].kind = "pool"
        PROVE  \A i \in DOMAIN held'[x].frames : held'[x].frames[i] # 0
    <3>1. CASE x = b
      BY <1>9, <2>1, <2>2, <2>3, <3>1
    <3>2. CASE x # b
      <4>1. held'[x] = held[x]
        BY <1>9, <3>2
      <4> QED BY <1>2, <2>3, <4>1 DEF PoolFramesReal
    <3> QED BY <3>1, <3>2
  <2>4. ASSUME NEW d \in Cpus, op'[d].kind = "pool"
        PROVE  \A i \in DOMAIN op'[d].frames : op'[d].frames[i] # 0
    BY <1>9, <2>1, <2>2, <2>4
  <2> QED BY <2>3, <2>4 DEF PoolFramesReal
<1>16. Calls'
  <2>1. ASSUME o.left # 1 PROVE CallSound(c)'
    <3>1. o.left - 1 >= 1
      BY <1>8, <2>1
    <3>2. o.kind = "pool" => o.left - 1 <= available'
      <4>1. o.kind = "pool" => available' = available - 1
        BY <1>4, <1>5
      <4> QED BY <1>8, <4>1
    <3> QED BY <1>1, <1>8, <1>9, <2>1, <3>1, <3>2 DEF CallSound
  <2> QED BY <1>9, <2>1 DEF Calls
<1>17. Stocks'
  BY <1>1, <1>2, <1>8, <1>9, <1>11 DEF Stocks
<1>18. Owned'
  <2>1. \A x \in Blocks : held'[x].frames = IF x = b /\ o.left = 1 THEN all ELSE held[x].frames
    BY <1>1, <1>9
  <2>2. \A d \in Cpus : op'[d].frames = IF d = c /\ o.left # 1 THEN all ELSE Idle.frames
    BY <1>9
  <2>3. \A x, y \in Blocks : x # y => Apart(held[x].frames, held[y].frames)
    BY <1>2 DEF Owned
  <2>4. \A x \in Blocks : Apart(all, held[x].frames) /\ Apart(held[x].frames, Idle.frames)
                          /\ Apart(all, Idle.frames)
    BY <1>12, <1>13 DEF Apart
  <2>5. (\A x \in Blocks : Single(held[x].frames)) /\ Single(all) /\ Single(Idle.frames)
    BY <1>2, <1>11, <1>13 DEF Owned
  <2> QED BY <1>12, <2>1, <2>2, <2>3, <2>4, <2>5 DEF Owned
<1>19. Entries'
  <2>1. \A f : f \in (Held \cup Moving)' <=> f = p \/ f \in Held \cup Moving
    <3>1. \A f : f \in (Held \cup Moving)' <=> \/ \E x \in Blocks : f \in FramesOf(held'[x].frames)
                                              \/ \E d \in Cpus : f \in FramesOf(op'[d].frames)
      BY DEF Held, Moving
    <3>2. \A f : f \in Held \cup Moving <=> \/ \E x \in Blocks : f \in FramesOf(held[x].frames)
                                          \/ f \in FramesOf(o.frames)
      BY <1>3, <1>5 DEF Held
    <3>3. FramesOf(held[b].frames) = {}
      BY <1>1, <1>13
    <3>4. CASE o.left = 1
      <4>1. \A x \in Blocks : FramesOf(held'[x].frames)
              = IF x = b THEN FramesOf(o.frames) \cup {p} ELSE FramesOf(held[x].frames)
        BY <1>9, <1>11, <3>4
      <4>2. \A d \in Cpus : FramesOf(op'[d].frames) = {}
        BY <1>9, <1>13, <3>4
      <4> QED BY <3>1, <3>2, <3>3, <4>1, <4>2
    <3>5. CASE o.left # 1
      <4>1. \A x \in Blocks : FramesOf(held'[x].frames) = FramesOf(held[x].frames)
        BY <1>1, <1>9, <3>5
      <4>2. \A d \in Cpus : FramesOf(op'[d].frames) = IF d = c THEN FramesOf(o.frames) \cup {p} ELSE {}
        BY <1>9, <1>11, <1>13, <3>5
      <4> QED BY <3>1, <3>2, <4>1, <4>2
    <3> QED BY <3>4, <3>5
  <2>2. ASSUME NEW f \in 1 .. LastFrame
        PROVE  /\ pfn'[f].at = "active" <=> f \in (Held \cup Moving)'
               /\ pfn'[f].at = "active" => pfn'[f].u2 = 1 /\ pfn'[f].refs = 1 /\ ~pfn'[f].removable
               /\ pfn'[f].at = "zeroed" <=> boot' <= f
               /\ pfn'[f].at # "transition"
    <3>1. f \in Frames /\ f # Table
      BY DEF Frames, Table
    <3>2. /\ pfn[f].at = "active" <=> f \in Held \cup Moving
          /\ pfn[f].at = "active" => pfn[f].u2 = 1 /\ pfn[f].refs = 1 /\ ~pfn[f].removable
          /\ pfn[f].at = "zeroed" <=> boot <= f
          /\ pfn[f].at # "transition"
      BY <1>2 DEF Entries
    <3>3. CASE f = p
      <4>1. ~(boot' <= f)
        <5>1. boot \in Nat
          BY <1>2 DEF Types
        <5> QED BY <1>1, <1>8, <5>1
      <4> QED BY <1>4, <2>1, <3>3, <4>1 DEF Unlisted
    <3>4. CASE f # p
      <4>1. /\ pfn'[f].at = pfn[f].at /\ pfn'[f].refs = pfn[f].refs
            /\ pfn'[f].removable = pfn[f].removable
            /\ pfn[f].at # "free" => pfn'[f].u2 = pfn[f].u2
        BY <1>4, <3>1, <3>4 DEF Unlisted
      <4> QED BY <1>1, <2>1, <3>2, <3>4, <4>1
    <3> QED BY <3>3, <3>4
  <2>3. pfn'[0].at = "active" => pfn'[0].refs = 1
    <3>1. 0 \in Frames
      BY DEF Frames, Table
    <3> QED BY <1>2, <1>4, <3>1 DEF Unlisted, Entries
  <2>4. ~pfn'[0].removable
    <3>1. 0 \in Frames
      BY DEF Frames, Table
    <3> QED BY <1>2, <1>4, <3>1 DEF Unlisted, Entries
  <2>5. pfn'[Table].at = "active"
    <3>1. Table \in Frames /\ Table # p
      BY DEF Frames, Table
    <3> QED BY <1>2, <1>4, <3>1 DEF Unlisted, Entries
  <2> QED BY <2>2, <2>3, <2>4, <2>5 DEF Entries
<1>20. pfn'[Table].u2 = IF o.kind = "stack" THEN pfn[Table].u2 + 1 ELSE pfn[Table].u2
  <2>1. Table \in Frames /\ Table # p /\ pfn[Table].at # "free"
    BY <1>2 DEF Frames, Table, Entries
  <2> QED BY <1>4, <1>5, <2>1 DEF Unlisted
<1>21. /\ IsFiniteSet(StackPages) /\ Cardinality(StackPages) \in Nat
       /\ o.kind = "stack" => pfn[Table].u2 = 1 + Cardinality(StackPages) + Len(o.frames)
       /\ o.kind # "stack" => pfn[Table].u2 = 1 + Cardinality(StackPages)
  <2>1. IsFiniteSet(StackPages)
    BY <1>2 DEF Shares
  <2>2. o.kind # "stack" => \A d \in Cpus : op[d].kind # "stack"
    BY <1>3, <1>5, IdleFacts
  <2> QED BY <1>2, <1>5, <2>1, <2>2, FS_CardinalityType DEF Shares
<1>22. ASSUME o.left = 1, o.kind = "stack"
       PROVE  IsFiniteSet(StackPages') /\ Cardinality(StackPages') = Cardinality(StackPages) + Len(all)
  <2>1. PICK A : A = {x \in Blocks : held[x].kind = "stack"}
    OBVIOUS
  <2>2. b \notin A
    BY <1>1, <2>1, IdleFacts
  <2>3. {x \in Blocks : held'[x].kind = "stack"} = A \cup {b}
    BY <1>9, <1>22, <2>1
  <2>4. StackPages = UNION {Pages("held", x, held[x].frames) : x \in A}
    BY <2>1 DEF StackPages
  <2>5. StackPages' = UNION {Pages("held", x, held'[x].frames) : x \in A \cup {b}}
    BY <2>3 DEF StackPages
  <2>6. \A x \in A : held'[x].frames = held[x].frames
    BY <1>9, <2>1, <2>2
  <2>7. StackPages' = StackPages \cup Pages("held", b, all)
    <3> HIDE DEF StackPages
    <3> QED BY <1>9, <1>22, <2>4, <2>5, <2>6
  <2>8. StackPages \cap Pages("held", b, all) = {}
    <3>1. \A t \in Pages("held", b, all) : t[2] = b
      BY DEF Pages
    <3>2. \A t \in StackPages : t[2] \in A
      BY <2>4 DEF Pages
    <3> QED BY <2>2, <3>1, <3>2
  <2>9. all \in Seq(0 .. LastFrame) /\ IsFiniteSet(StackPages)
    BY <1>11, <1>21
  <2>10. /\ IsFiniteSet(StackPages \cup Pages("held", b, all))
         /\ Cardinality(StackPages \cup Pages("held", b, all)) = Cardinality(StackPages) + Len(all)
    BY <2>8, <2>9, PagesAdd
  <2> QED BY <2>7, <2>10
<1>23. ASSUME o.left # 1 \/ o.kind # "stack" PROVE StackPages' = StackPages
  <2>1. \A x \in Blocks : held'[x].kind = "stack" <=> held[x].kind = "stack"
    BY <1>1, <1>9, <1>23, IdleFacts
  <2>2. \A x \in Blocks : held[x].kind = "stack" => held'[x].frames = held[x].frames
    BY <1>1, <1>9, IdleFacts
  <2>3. PICK A : A = {x \in Blocks : held[x].kind = "stack"}
    OBVIOUS
  <2>4. {x \in Blocks : held'[x].kind = "stack"} = A
    BY <2>1, <2>3
  <2>5. \A x \in A : held'[x].frames = held[x].frames
    BY <2>2, <2>3
  <2> QED BY <2>3, <2>4, <2>5 DEF StackPages
<1>24. Shares'
  <2>1. PICK n \in Nat : n = Cardinality(StackPages)
    BY <1>21
  <2>2. PICK m \in Nat : m = Len(o.frames)
    BY <1>11
  <2>3. CASE o.kind = "stack" /\ o.left = 1
    <3>1. \A d \in Cpus : op'[d].kind # "stack"
      BY <1>9, <2>3, IdleFacts
    <3>2. IsFiniteSet(StackPages') /\ Cardinality(StackPages') = n + (m + 1)
      BY <1>11, <1>22, <2>1, <2>2, <2>3
    <3>3. pfn'[Table].u2 = (1 + n + m) + 1
      BY <1>20, <1>21, <2>1, <2>2, <2>3
    <3>4. (1 + n + m) + 1 = 1 + (n + (m + 1))
      OBVIOUS
    <3> QED BY <3>1, <3>2, <3>3, <3>4 DEF Shares
  <2>4. CASE o.kind = "stack" /\ o.left # 1
    <3>1. op'[c].kind = "stack" /\ \A d \in Cpus : op'[d].kind = "stack" => d = c
      BY <1>9, <2>4, IdleFacts
    <3>2. StackPages' = StackPages /\ Len(op'[c].frames) = m + 1
      BY <1>9, <1>11, <1>23, <2>2, <2>4
    <3>3. pfn'[Table].u2 = (1 + n + m) + 1
      BY <1>20, <1>21, <2>1, <2>2, <2>4
    <3>4. (1 + n + m) + 1 = 1 + n + (m + 1)
      OBVIOUS
    <3> QED BY <1>21, <2>1, <3>1, <3>2, <3>3, <3>4 DEF Shares
  <2>5. CASE o.kind # "stack"
    <3>1. \A d \in Cpus : op'[d].kind # "stack"
      BY <1>9, <2>5, IdleFacts
    <3> QED BY <1>20, <1>21, <1>23, <2>5, <3>1 DEF Shares
  <2> QED BY <2>3, <2>4, <2>5
<1>25. \E r : Lists(r)'
  BY <1>4
<1> QED BY <1>1, <1>4, <1>8, <1>14, <1>15, <1>16, <1>17, <1>18, <1>19, <1>24, <1>25 DEF Inv, Sound

-----------------------------------------------------------------------------
(* A block is given back.                                                  *)
LEMMA StartStep ==
  ASSUME Inv, OneUser, NEW q, Lists(q), NEW c \in Cpus, NEW b \in Blocks, StartFree(c, b)
  PROVE  Inv' /\ Lists(q)'
<1>1. PICK h : h = held[b]
  OBVIOUS
<1>2. PICK fr : fr = IF h.kind = "stack" THEN Reverse(h.frames) ELSE h.frames
  OBVIOUS
<1>3. PICK r : r = [pc |-> "free", kind |-> h.kind, left |-> 0, page |-> 0, frames |-> fr]
  OBVIOUS
<1>4. /\ ~panicked /\ op[c] = Idle /\ LockFree(h.kind) /\ h.kind \in {"pool", "stack"}
      /\ op' = [op EXCEPT ![c] = r] /\ held' = [held EXCEPT ![b] = Nothing]
      /\ pfn' = pfn /\ freeList' = freeList /\ colors' = colors /\ available' = available
      /\ nextColor' = nextColor /\ boot' = boot /\ panicked' = panicked
  BY <1>1, <1>2, <1>3 DEF StartFree, lists
<1>5. Types /\ PoolFramesReal /\ Calls /\ Stocks /\ Owned /\ Entries /\ Shares
  BY <1>4 DEF Inv, Sound
<1>6. /\ h \in BlockRecord /\ h # Nothing /\ boot > LastFrame /\ h.kind \in Kinds
      /\ h.frames # <<>> /\ h.frames \in Seq(0 .. LastFrame) /\ Single(h.frames)
  <2>1. h \in BlockRecord /\ h # Nothing
    BY <1>1, <1>4, <1>5, IdleFacts DEF Types
  <2> QED BY <1>1, <1>5, <2>1 DEF Stocks, BlockRecord, Owned
<1>7. \A d \in Cpus : op[d] = Idle
  BY <1>4, <1>5, <1>6, NobodyElse
<1>8. /\ fr \in Seq(0 .. LastFrame) /\ Len(fr) = Len(h.frames) /\ FramesOf(fr) = FramesOf(h.frames)
      /\ Single(fr) /\ fr # <<>> /\ Len(h.frames) \in Nat
  <2>1. /\ fr \in Seq(0 .. LastFrame) /\ Len(fr) = Len(h.frames)
        /\ FramesOf(fr) = FramesOf(h.frames) /\ Single(fr)
    BY <1>2, <1>6, ReverseUses
  <2>2. Len(h.frames) # 0 /\ Len(h.frames) \in Nat
    BY <1>6, EmptySeq, LenProperties
  <2> QED BY <2>1, <2>2, IdleFacts
<1>9. /\ r \in CallRecord /\ r.pc = "free" /\ r.kind = h.kind /\ r.frames = fr /\ r # Idle
  <2>1. 0 \in 0 .. LastFrame /\ 0 \in Nat
    OBVIOUS
  <2>2. r \in CallRecord
    BY <1>3, <1>4, <1>8, <2>1 DEF CallRecord
  <2> QED BY <1>3, <1>8, <2>2, IdleFacts
<1>10. /\ op' \in [Cpus -> CallRecord] /\ op'[c] = r /\ \A d \in Cpus \ {c} : op'[d] = Idle
       /\ held' \in [Blocks -> BlockRecord] /\ held'[b] = Nothing
       /\ \A x \in Blocks \ {b} : held'[x] = held[x]
  BY <1>4, <1>5, <1>7, <1>9, IdleFacts DEF Types
<1>11. Types' /\ Lists(q)'
  <2>1. Types'
    BY <1>4, <1>5, <1>10 DEF Types, ListVars
  <2> QED BY <1>4, <2>1 DEF Lists
<1>12. PoolFramesReal'
  <2>1. h.kind = "pool" => \A i \in DOMAIN fr : fr[i] # 0
    BY <1>1, <1>2, <1>5 DEF PoolFramesReal
  <2>2. ASSUME NEW x \in Blocks, held'[x].kind = "pool" PROVE x # b /\ held'[x] = held[x]
    BY <1>10, <2>2, IdleFacts
  <2>3. ASSUME NEW d \in Cpus, op'[d].kind = "pool" PROVE d = c
    BY <1>10, <2>3, IdleFacts
  <2> QED BY <1>5, <1>9, <1>10, <2>1, <2>2, <2>3 DEF PoolFramesReal
<1>13. Calls'
  <2>1. CallSound(c)'
    BY <1>4, <1>6, <1>8, <1>9, <1>10 DEF CallSound
  <2> QED BY <1>10, <2>1 DEF Calls
<1>14. Stocks'
  BY <1>4, <1>5, <1>10 DEF Stocks
<1>15. /\ FramesOf(Nothing.frames) = {} /\ FramesOf(Idle.frames) = {}
       /\ Single(Nothing.frames) /\ Single(Idle.frames)
  BY IdleFacts
<1>16. Owned'
  <2>1. \A x \in Blocks : held'[x].frames = IF x = b THEN Nothing.frames ELSE held[x].frames
    BY <1>10
  <2>2. \A d \in Cpus : op'[d].frames = IF d = c THEN fr ELSE Idle.frames
    BY <1>9, <1>10
  <2>3. \A x, y \in Blocks : x # y => Apart(held[x].frames, held[y].frames)
    BY <1>5 DEF Owned
  <2>4. \A x \in Blocks : x # b => Apart(held[x].frames, fr)
    BY <1>1, <1>8, <2>3 DEF Apart
  <2>5. \A x \in Blocks : /\ Apart(Nothing.frames, held[x].frames)
                          /\ Apart(held[x].frames, Nothing.frames)
                          /\ Apart(held[x].frames, Idle.frames)
                          /\ Apart(Nothing.frames, Idle.frames) /\ Apart(Nothing.frames, fr)
    BY <1>15 DEF Apart
  <2>6. (\A x \in Blocks : Single(held[x].frames)) /\ Single(fr)
        /\ Single(Idle.frames) /\ Single(Nothing.frames)
    BY <1>5, <1>8, <1>15 DEF Owned
  <2> QED BY <2>1, <2>2, <2>3, <2>4, <2>5, <2>6 DEF Owned
<1>17. Entries'
  <2>1. Moving = {} /\ Moving' = FramesOf(fr)
    BY <1>7, <1>9, <1>10, <1>15 DEF Moving
  <2>2. \A f : f \in Held <=> f \in Held' \/ f \in FramesOf(fr)
    <3>1. \A f : f \in Held <=> \E x \in Blocks : f \in FramesOf(held[x].frames)
      BY DEF Held
    <3>2. \A f : f \in Held' <=> \E x \in Blocks : f \in FramesOf(held'[x].frames)
      BY DEF Held
    <3>3. FramesOf(held[b].frames) = FramesOf(fr) /\ FramesOf(held'[b].frames) = {}
      BY <1>1, <1>8, <1>10, <1>15
    <3>4. \A x \in Blocks : x # b => FramesOf(held'[x].frames) = FramesOf(held[x].frames)
      BY <1>10
    <3> QED BY <3>1, <3>2, <3>3, <3>4
  <2>3. (Held \cup Moving)' = Held \cup Moving
    BY <2>1, <2>2
  <2> QED BY <1>4, <1>5, <2>3 DEF Entries
<1>18. CASE h.kind = "stack"
  <2>1. PICK A : A = {x \in Blocks : held'[x].kind = "stack"}
    OBVIOUS
  <2>2. b \notin A /\ {x \in Blocks : held[x].kind = "stack"} = A \cup {b}
    BY <1>1, <1>10, <1>18, <2>1, IdleFacts
  <2>3. StackPages' = UNION {Pages("held", x, held'[x].frames) : x \in A}
    BY <2>1 DEF StackPages
  <2>4. StackPages = UNION {Pages("held", x, held[x].frames) : x \in A \cup {b}}
    BY <2>2 DEF StackPages
  <2>5. \A x \in A : held'[x].frames = held[x].frames
    BY <1>10, <2>1, <2>2
  <2>6. StackPages = StackPages' \cup Pages("held", b, h.frames)
    <3> HIDE DEF StackPages
    <3> QED BY <1>1, <2>3, <2>4, <2>5
  <2>7. StackPages' \cap Pages("held", b, h.frames) = {}
    <3>1. \A t \in Pages("held", b, h.frames) : t[2] = b
      BY DEF Pages
    <3>2. \A t \in StackPages' : t[2] \in A
      BY <2>3 DEF Pages
    <3> QED BY <2>2, <3>1, <3>2
  <2>8. /\ IsFiniteSet(StackPages) /\ pfn[Table].u2 = 1 + Cardinality(StackPages)
    BY <1>5, <1>7, IdleFacts DEF Shares
  <2>9. PICK T : T = StackPages'
    OBVIOUS
  <2>10. IsFiniteSet(T) /\ Cardinality(StackPages) = Cardinality(T) + Len(h.frames)
    <3>1. IsFiniteSet(T)
      BY <2>6, <2>8, <2>9, FS_Subset
    <3> QED BY <1>6, <2>6, <2>7, <2>9, <3>1, PagesAdd
  <2>11. PICK n \in Nat : n = Cardinality(T)
    BY <2>10, FS_CardinalityType
  <2>12. PICK m \in Nat : m = Len(h.frames)
    BY <1>8
  <2>13. pfn'[Table].u2 = 1 + (n + m) /\ 1 + (n + m) = 1 + n + m
    <3>1. pfn'[Table].u2 = 1 + Cardinality(StackPages)
      BY <1>4, <2>8
    <3>2. Cardinality(StackPages) = n + m
      BY <2>10, <2>11, <2>12
    <3>3. 1 + (n + m) = 1 + n + m
      OBVIOUS
    <3> QED BY <3>1, <3>2, <3>3
  <2>14. \A d \in Cpus : op'[d].kind = "stack" => d = c
    BY <1>10, IdleFacts
  <2>15. op'[c].kind = "stack" /\ Len(op'[c].frames) = m
    BY <1>8, <1>9, <1>10, <1>18, <2>12
  <2>16. Shares'
    BY <2>9, <2>10, <2>11, <2>13, <2>14, <2>15 DEF Shares
  <2> QED BY <1>4, <1>6, <1>11, <1>12, <1>13, <1>14, <1>16, <1>17, <2>16 DEF Inv, Sound
<1>19. CASE h.kind # "stack"
  <2>1. PICK A : A = {x \in Blocks : held[x].kind = "stack"}
    OBVIOUS
  <2>2. b \notin A /\ {x \in Blocks : held'[x].kind = "stack"} = A
    BY <1>1, <1>10, <1>19, <2>1, IdleFacts
  <2>3. \A x \in A : held'[x].frames = held[x].frames
    BY <1>10, <2>1, <2>2
  <2>4. StackPages' = StackPages
    BY <2>1, <2>2, <2>3 DEF StackPages
  <2>5. /\ \A d \in Cpus : op[d].kind # "stack" /\ op'[d].kind # "stack"
    BY <1>7, <1>9, <1>10, <1>19, IdleFacts
  <2>6. Shares'
    BY <1>4, <1>5, <2>4, <2>5 DEF Shares
  <2> QED BY <1>4, <1>6, <1>11, <1>12, <1>13, <1>14, <1>16, <1>17, <2>6 DEF Inv, Sound
<1> QED BY <1>18, <1>19

-----------------------------------------------------------------------------
(* A frame leaves the call that gives it back.                             *)
FreesHead(c, o, p) ==
  /\ o = op[c] /\ o.pc = "free" /\ o.frames # <<>> /\ p = Head(o.frames)
  /\ op' = [op EXCEPT ![c] = IF Len(o.frames) = 1 THEN Idle
                             ELSE [o EXCEPT !.frames = Tail(o.frames)]]
  /\ held' = held /\ boot' = boot /\ nextColor' = nextColor

LEMMA FreeRecords ==
  ASSUME Types, PoolFramesReal, Calls, Stocks, Owned, NEW c \in Cpus, NEW o, NEW p, FreesHead(c, o, p)
  PROVE  /\ p \in 0 .. LastFrame /\ o # Idle /\ boot > LastFrame
         /\ held' \in [Blocks -> BlockRecord] /\ op' \in [Cpus -> CallRecord]
         /\ PoolFramesReal' /\ Calls' /\ Stocks' /\ Owned' /\ StackPages' = StackPages
         /\ o.kind = "pool" => p # 0
         /\ p \in Held \cup Moving /\ (p = 0 \/ p \notin (Held \cup Moving)')
         /\ \A f : f # p => (f \in (Held \cup Moving)' <=> f \in Held \cup Moving)
         /\ \A d \in Cpus \ {c} : op[d] = Idle /\ op'[d] = Idle
         /\ op'[c] = Idle \/ op'[c].kind = o.kind
         /\ op'[c] = Idle <=> Len(o.frames) = 1
         /\ Len(o.frames) \in Nat \ {0} /\ Len(op'[c].frames) = Len(o.frames) - 1
<1>1. /\ o = op[c] /\ o.pc = "free" /\ p = Head(o.frames) /\ held' = held /\ boot' = boot
      /\ nextColor' = nextColor /\ o # Idle
  BY IdleFacts DEF FreesHead
<1>2. /\ \A d \in Cpus \ {c} : op[d] = Idle
      /\ o \in CallRecord /\ CallSound(c) /\ Moving = FramesOf(o.frames)
  BY <1>1, WorksAlone
<1>3. /\ o.kind \in Kinds /\ o.frames # <<>> /\ o.frames \in Seq(0 .. LastFrame)
      /\ boot > LastFrame /\ Single(o.frames)
  BY <1>1, <1>2 DEF CallSound, CallRecord, Owned
<1>4. PICK t : t = Tail(o.frames)
  OBVIOUS
<1>5. /\ p \in 0 .. LastFrame /\ t \in Seq(0 .. LastFrame) /\ Len(o.frames) \in Nat \ {0}
      /\ Len(t) = Len(o.frames) - 1
      /\ Len(o.frames) # 1 => t # <<>>
      /\ FramesOf(o.frames) = FramesOf(t) \cup {p}
      /\ Len(o.frames) = 1 => FramesOf(o.frames) = {p}
      /\ Single(t) /\ (p = 0 \/ p \notin FramesOf(t))
  BY <1>1, <1>3, <1>4, TailUses
<1>6. PICK r : r = IF Len(o.frames) = 1 THEN Idle ELSE [o EXCEPT !.frames = t]
  OBVIOUS
<1>7. /\ r \in CallRecord
      /\ r = Idle <=> Len(o.frames) = 1
      /\ Len(r.frames) = Len(o.frames) - 1
      /\ r # Idle => r.pc = "free" /\ r.kind = o.kind /\ r.frames = t
  <2>1. CASE Len(o.frames) = 1
    BY <1>6, <2>1, IdleFacts
  <2>2. CASE Len(o.frames) # 1
    <3>1. r = [o EXCEPT !.frames = t]
      BY <1>6, <2>2
    <3>2. r = [pc |-> o.pc, kind |-> o.kind, left |-> o.left, page |-> o.page, frames |-> t]
      BY <1>2, <3>1 DEF CallRecord
    <3>3. r \in CallRecord /\ r.frames = t /\ r.pc = "free" /\ r.kind = o.kind
      BY <1>1, <1>2, <1>5, <3>2 DEF CallRecord
    <3> QED BY <1>5, <2>2, <3>3, IdleFacts
  <2> QED BY <2>1, <2>2
<1>8. op' \in [Cpus -> CallRecord] /\ op'[c] = r /\ \A d \in Cpus \ {c} : op'[d] = Idle
  <2>1. op' = [op EXCEPT ![c] = r]
    BY <1>4, <1>6 DEF FreesHead
  <2>2. op \in [Cpus -> CallRecord]
    BY DEF Types
  <2> QED BY <1>2, <1>7, <2>1, <2>2
<1>9. /\ FramesOf(Idle.frames) = {} /\ Single(Idle.frames) /\ Idle.kind = "none"
  BY IdleFacts
<1>10. FramesOf(r.frames) \subseteq FramesOf(o.frames) /\ Single(r.frames)
  BY <1>5, <1>7, <1>9
<1>11. PoolFramesReal'
  <2>1. o.kind = "pool" => 0 \notin FramesOf(o.frames)
    BY <1>1 DEF PoolFramesReal, FramesOf
  <2>2. ASSUME NEW d \in Cpus, op'[d].kind = "pool"
        PROVE  \A i \in DOMAIN op'[d].frames : op'[d].frames[i] # 0
    <3>1. d = c /\ r # Idle /\ o.kind = "pool"
      BY <1>7, <1>8, <1>9, <2>2
    <3>2. 0 \notin FramesOf(r.frames)
      BY <1>10, <2>1, <3>1
    <3> QED BY <1>8, <3>1, <3>2 DEF FramesOf
  <2> QED BY <1>1, <2>2 DEF PoolFramesReal
<1>12. Calls'
  <2>1. r # Idle => CallSound(c)'
    BY <1>1, <1>3, <1>5, <1>7, <1>8 DEF CallSound
  <2> QED BY <1>8, <2>1 DEF Calls
<1>13. Stocks'
  BY <1>1 DEF Stocks
<1>14. Owned'
  <2>1. \A d \in Cpus : op'[d].frames = IF d = c THEN r.frames ELSE Idle.frames
    BY <1>8
  <2>2. \A x \in Blocks : Apart(held[x].frames, o.frames)
    BY <1>1 DEF Owned
  <2>3. \A x \in Blocks : Apart(held[x].frames, r.frames) /\ Apart(held[x].frames, Idle.frames)
    BY <1>9, <1>10, <2>2 DEF Apart
  <2> QED BY <1>1, <1>9, <1>10, <2>1, <2>3 DEF Owned
<1>15. StackPages' = StackPages
  BY <1>1 DEF StackPages
<1>16. o.kind = "pool" => p # 0
  <2>1. o.kind = "pool" => 0 \notin FramesOf(o.frames)
    BY <1>1 DEF PoolFramesReal, FramesOf
  <2> QED BY <1>5, <2>1
<1>17. Moving' = FramesOf(r.frames) /\ Held' = Held
  BY <1>1, <1>8, <1>9 DEF Moving, Held
<1>18. /\ p \in Held \cup Moving /\ (p = 0 \/ p \notin (Held \cup Moving)')
       /\ \A f : f # p => (f \in (Held \cup Moving)' <=> f \in Held \cup Moving)
  <2>1. p = 0 \/ p \notin Held
    <3>1. ASSUME NEW x \in Blocks, p \in FramesOf(held[x].frames) PROVE p = 0
      BY <1>1, <1>5, <3>1 DEF Owned, Apart
    <3> QED BY <3>1 DEF Held
  <2>2. p = 0 \/ p \notin FramesOf(r.frames)
    BY <1>5, <1>7, <1>9
  <2>3. \A f : f # p => (f \in FramesOf(r.frames) <=> f \in FramesOf(o.frames))
    <3>1. CASE r = Idle
      BY <1>5, <1>7, <1>9, <3>1
    <3>2. CASE r # Idle
      BY <1>5, <1>7, <3>2
    <3> QED BY <3>1, <3>2
  <2> QED BY <1>2, <1>5, <1>17, <2>1, <2>2, <2>3
<1> QED BY <1>1, <1>2, <1>3, <1>5, <1>7, <1>8, <1>11, <1>12, <1>13, <1>14, <1>15, <1>16, <1>18 DEF Types

(* One field of an entry changes.                                          *)
SameBut(db, p, d) == d \in [Frames -> FrameRecord] /\ \A f \in Frames : f # p => d[f] = db[f]

ShareSet(db, p, n, d) ==
  db \in [Frames -> FrameRecord] /\ p \in Frames /\ n \in Int /\ d = [db EXCEPT ![p].u2 = n]
RefsSet(db, p, n, d) ==
  db \in [Frames -> FrameRecord] /\ p \in Frames /\ n \in 0 .. 1 /\ d = [db EXCEPT ![p].refs = n]
AtSet(db, p, n, d) ==
  /\ db \in [Frames -> FrameRecord] /\ p \in Frames /\ n \in {"modified", "transition"}
  /\ d = [db EXCEPT ![p].at = n]
RemovableSet(db, p, d) ==
  /\ db \in [Frames -> FrameRecord] /\ p \in Frames
  /\ d = [db EXCEPT ![p].u2 = 0, ![p].removable = TRUE]

LEMMA SetShare ==
  ASSUME NEW db, NEW p, NEW n, NEW d, ShareSet(db, p, n, d)
  PROVE  /\ SameBut(db, p, d) /\ d[p].u2 = n /\ d[p].at = db[p].at /\ d[p].refs = db[p].refs
         /\ d[p].removable = db[p].removable /\ d[p].next = db[p].next
         /\ d[p].flink = db[p].flink /\ d[p].prev = db[p].prev
<1>0. db \in [Frames -> FrameRecord] /\ p \in Frames /\ n \in Int /\ d = [db EXCEPT ![p].u2 = n]
  BY DEF ShareSet
<1>1. PICK r : r = [db[p] EXCEPT !.u2 = n]
  OBVIOUS
<1>2. d = [db EXCEPT ![p] = r]
  BY <1>0, <1>1
<1>3. /\ r \in FrameRecord /\ r.u2 = n /\ r.at = db[p].at /\ r.refs = db[p].refs
      /\ r.removable = db[p].removable /\ r.next = db[p].next
      /\ r.flink = db[p].flink /\ r.prev = db[p].prev
  <2>1. db[p] \in FrameRecord
    BY <1>0
  <2> QED BY <1>0, <1>1, <2>1 DEF FrameRecord
<1> QED BY <1>0, <1>2, <1>3 DEF SameBut

LEMMA SetRefs ==
  ASSUME NEW db, NEW p, NEW n, NEW d, RefsSet(db, p, n, d)
  PROVE  /\ SameBut(db, p, d) /\ d[p].refs = n /\ d[p].at = db[p].at /\ d[p].u2 = db[p].u2
         /\ d[p].removable = db[p].removable /\ d[p].next = db[p].next
         /\ d[p].flink = db[p].flink /\ d[p].prev = db[p].prev
<1>0. db \in [Frames -> FrameRecord] /\ p \in Frames /\ n \in 0 .. 1 /\ d = [db EXCEPT ![p].refs = n]
  BY DEF RefsSet
<1>1. PICK r : r = [db[p] EXCEPT !.refs = n]
  OBVIOUS
<1>2. d = [db EXCEPT ![p] = r]
  BY <1>0, <1>1
<1>3. /\ r \in FrameRecord /\ r.refs = n /\ r.at = db[p].at /\ r.u2 = db[p].u2
      /\ r.removable = db[p].removable /\ r.next = db[p].next
      /\ r.flink = db[p].flink /\ r.prev = db[p].prev
  <2>1. db[p] \in FrameRecord
    BY <1>0
  <2> QED BY <1>0, <1>1, <2>1 DEF FrameRecord
<1> QED BY <1>0, <1>2, <1>3 DEF SameBut

LEMMA SetAt ==
  ASSUME NEW db, NEW p, NEW n, NEW d, AtSet(db, p, n, d)
  PROVE  /\ SameBut(db, p, d) /\ d[p].at = n /\ d[p].refs = db[p].refs /\ d[p].u2 = db[p].u2
         /\ d[p].removable = db[p].removable /\ d[p].next = db[p].next
         /\ d[p].flink = db[p].flink /\ d[p].prev = db[p].prev
<1>0. /\ db \in [Frames -> FrameRecord] /\ p \in Frames /\ n \in {"modified", "transition"}
      /\ d = [db EXCEPT ![p].at = n]
  BY DEF AtSet
<1>1. PICK r : r = [db[p] EXCEPT !.at = n]
  OBVIOUS
<1>2. d = [db EXCEPT ![p] = r]
  BY <1>0, <1>1
<1>3. /\ r \in FrameRecord /\ r.at = n /\ r.refs = db[p].refs /\ r.u2 = db[p].u2
      /\ r.removable = db[p].removable /\ r.next = db[p].next
      /\ r.flink = db[p].flink /\ r.prev = db[p].prev
  <2>1. db[p] \in FrameRecord
    BY <1>0
  <2> QED BY <1>0, <1>1, <2>1 DEF FrameRecord
<1> QED BY <1>0, <1>2, <1>3 DEF SameBut

LEMMA SetRemovable ==
  ASSUME NEW db, NEW p, NEW d, RemovableSet(db, p, d)
  PROVE  SameBut(db, p, d) /\ d[p].removable = TRUE /\ d[p].refs = db[p].refs
<1>0. /\ db \in [Frames -> FrameRecord] /\ p \in Frames
      /\ d = [db EXCEPT ![p].u2 = 0, ![p].removable = TRUE]
  BY DEF RemovableSet
<1>1. PICK r : r = [db[p] EXCEPT !.u2 = 0, !.removable = TRUE]
  OBVIOUS
<1>2. d = [db EXCEPT ![p] = r]
  <2>1. PICK e : e = [db EXCEPT ![p].u2 = 0]
    OBVIOUS
  <2>2. d = [e EXCEPT ![p].removable = TRUE]
    BY <1>0, <2>1
  <2> QED BY <1>0, <1>1, <2>1, <2>2
<1>3. r \in FrameRecord /\ r.removable = TRUE /\ r.refs = db[p].refs
  <2>1. db[p] \in FrameRecord
    BY <1>0
  <2>2. r = [flink |-> db[p].flink, u2 |-> 0, prev |-> db[p].prev, next |-> db[p].next,
             refs |-> db[p].refs, removable |-> TRUE, at |-> db[p].at]
    BY <1>1, <2>1 DEF FrameRecord
  <2> QED BY <1>0, <2>1, <2>2 DEF FrameRecord
<1> QED BY <1>0, <1>2, <1>3 DEF SameBut

(* A frame of the pool goes back to the lists.                             *)
LEMMA PoolFrameOutcome ==
  ASSUME ListVars, NEW q, Lists(q), NEW c \in Cpus, NEW p \in 1 .. LastFrame, FreePoolFrame(c),
         p = Head(op[c].frames), pfn[p].at = "active", pfn[p].refs = 1
  PROVE  /\ Lists(Append(q, p))' /\ ListVars' /\ panicked' = FALSE
         /\ \A f \in Frames \ {p} :
              /\ pfn'[f].refs = pfn[f].refs /\ pfn'[f].removable = pfn[f].removable
              /\ pfn'[f].at = pfn[f].at /\ pfn'[f].u2 = pfn[f].u2
         /\ pfn'[p].at = "free" /\ p \notin Elements(q)
<1>1. p \in Frames /\ pfn \in [Frames -> FrameRecord]
  BY DEF Frames, Table, ListVars
<1>2. PICK db : db = [pfn EXCEPT ![p].u2 = 0, ![p].removable = TRUE]
  OBVIOUS
<1>3. DecrementReferenceCount(db, p)
  BY <1>2 DEF FreePoolFrame
<1>4. SameBut(pfn, p, db) /\ db[p].removable = TRUE /\ db[p].refs = 1
  <2>1. RemovableSet(pfn, p, db)
    BY <1>1, <1>2 DEF RemovableSet
  <2>2. pfn[p].refs = 1
    OBVIOUS
  <2> QED BY <2>1, <2>2, SetRemovable
<1>5. PICK d : d = [db EXCEPT ![p].refs = 0]
  OBVIOUS
<1>6. SameBut(db, p, d) /\ d[p].removable = TRUE /\ d[p].refs = 0
  <2>1. db \in [Frames -> FrameRecord] /\ 0 \in 0 .. 1
    BY <1>4 DEF SameBut
  <2>2. RefsSet(db, p, 0, d)
    BY <1>1, <1>5, <2>1 DEF RefsSet
  <2> QED BY <1>4, <2>2, SetRefs
<1>7. LinkFreePage(d, p) /\ panicked' = FALSE
  <2>1. PICK e : e = [db EXCEPT ![p].refs = db[p].refs - 1]
    OBVIOUS
  <2>2. e = d
    BY <1>4, <1>5, <2>1
  <2>3. \/ e[p].refs # 0
        \/ LinkFreePage(e, p) /\ panicked' = FALSE
        \/ ~e[p].removable
    BY <1>3, <2>1 DEF DecrementReferenceCount
  <2> QED BY <1>6, <2>2, <2>3
<1>8. d \in [Frames -> FrameRecord] /\ \A f \in Frames : f # p => d[f] = pfn[f]
  BY <1>4, <1>6 DEF SameBut
<1>9. p \notin Elements(q)
  BY <1>1 DEF Lists, QueueOf
<1>10. /\ Lists(Append(q, p))' /\ ListVars'
       /\ \A f \in Frames : /\ pfn'[f].refs = d[f].refs /\ pfn'[f].removable = d[f].removable
                            /\ f # p => pfn'[f].at = pfn[f].at /\ pfn'[f].u2 = pfn[f].u2
       /\ pfn'[p].at = "free"
  BY <1>7, <1>8, <1>9, LinkGrowsLists
<1> QED BY <1>7, <1>8, <1>9, <1>10

(* A frame of a stack becomes a modified page, or stops the system.        *)
LEMMA StackFrameOutcome ==
  ASSUME ListVars, NEW q, Lists(q), NEW c \in Cpus, NEW p \in 0 .. LastFrame, FreePhysicalPage(c),
         p = Head(op[c].frames), pfn[p].at # "free", pfn[Table].at = "active",
         pfn[p].at = "active" => pfn[p].refs = 1, ~pfn[p].removable
  PROVE  /\ Lists(q)' /\ ListVars' /\ panicked' \in BOOLEAN
         /\ \A f \in Frames \ {p} :
              /\ pfn'[f].refs = pfn[f].refs /\ pfn'[f].removable = pfn[f].removable
              /\ pfn'[f].at = pfn[f].at
              /\ pfn'[f].u2 = IF f = Table THEN pfn[f].u2 - 1 ELSE pfn[f].u2
         /\ ~pfn'[p].removable
         /\ pfn'[p].at = "active" => pfn'[p].refs = 1
         /\ panicked' => pfn[p].at # "active" \/ pfn[p].next \in Ambiguous
         /\ pfn[p].at = "active" /\ pfn[p].u2 = 1 /\ ~panicked' => pfn'[p].at = "modified"
<1>1. p \in Frames /\ Table \in Frames /\ p # Table /\ pfn \in [Frames -> FrameRecord]
  BY DEF Frames, Table, ListVars
<1>2. PICK db : db = [pfn EXCEPT ![Table].u2 = pfn[Table].u2 - 1]
  OBVIOUS
<1>3. DecrementShareCount(db, p)
  BY <1>2 DEF FreePhysicalPage, FreeSharing
<1>4. /\ SameBut(pfn, Table, db) /\ db[Table].u2 = pfn[Table].u2 - 1
      /\ db[Table].at = pfn[Table].at /\ db[Table].refs = pfn[Table].refs
      /\ db[Table].removable = pfn[Table].removable
  <2>1. pfn[Table].u2 - 1 \in Int
    BY <1>1 DEF FrameRecord
  <2>2. ShareSet(pfn, Table, pfn[Table].u2 - 1, db)
    BY <1>1, <1>2, <2>1 DEF ShareSet
  <2> QED BY <2>2, SetShare
<1>5. db \in [Frames -> FrameRecord] /\ db[p] = pfn[p]
  BY <1>1, <1>4 DEF SameBut
<1>6. PICK d : d = [db EXCEPT ![p].u2 = db[p].u2 - 1]
  OBVIOUS
<1>7. /\ SameBut(db, p, d) /\ d[p].u2 = pfn[p].u2 - 1 /\ d[p].at = pfn[p].at
      /\ d[p].refs = pfn[p].refs /\ d[p].removable = pfn[p].removable /\ d[p].next = pfn[p].next
  <2>1. PICK n \in Int : n = db[p].u2 - 1
    BY <1>1, <1>5 DEF FrameRecord
  <2>2. ShareSet(db, p, n, d)
    BY <1>1, <1>5, <1>6, <2>1 DEF ShareSet
  <2>3. /\ SameBut(db, p, d) /\ d[p].u2 = n /\ d[p].at = db[p].at /\ d[p].refs = db[p].refs
        /\ d[p].removable = db[p].removable /\ d[p].next = db[p].next
        /\ d[p].flink = db[p].flink /\ d[p].prev = db[p].prev
    BY <2>2, SetShare
  <2> QED BY <1>5, <2>1, <2>3, Zenon
<1>8. \/ pfn[p].at # "active" /\ Store(db, TRUE)
      \/ pfn[p].at = "active" /\ d[p].u2 # 0 /\ Store(d, FALSE)
      \/ pfn[p].at = "active" /\ DecrementReferenceCount([d EXCEPT ![p].at = "transition"], p)
  BY <1>3, <1>5, <1>6 DEF DecrementShareCount
<1>9. PICK g : g = [d EXCEPT ![p].at = "transition"]
  OBVIOUS
<1>10. /\ SameBut(d, p, g) /\ g[p].at = "transition"
       /\ g[p].refs = pfn[p].refs /\ g[p].removable = pfn[p].removable /\ g[p].next = pfn[p].next
  <2>1. d \in [Frames -> FrameRecord]
    BY <1>7 DEF SameBut
  <2>2. PICK s : s = "transition" /\ AtSet(d, p, s, g)
    BY <1>1, <1>9, <2>1 DEF AtSet
  <2>3. /\ SameBut(d, p, g) /\ g[p].at = s /\ g[p].refs = d[p].refs /\ g[p].u2 = d[p].u2
        /\ g[p].removable = d[p].removable /\ g[p].next = d[p].next
        /\ g[p].flink = d[p].flink /\ g[p].prev = d[p].prev
    BY <2>2, SetAt
  <2> QED BY <1>7, <2>2, <2>3, Zenon
<1>11. PICK k : k = [g EXCEPT ![p].refs = g[p].refs - 1]
  OBVIOUS
<1>12. pfn[p].at = "active" =>
         /\ SameBut(g, p, k) /\ k[p].refs = 0 /\ k[p].at = "transition"
         /\ k[p].removable = pfn[p].removable /\ k[p].next = pfn[p].next
  <2>1. g \in [Frames -> FrameRecord]
    BY <1>10 DEF SameBut
  <2>2. pfn[p].at = "active" => g[p].refs - 1 = 0
    BY <1>10
  <2>3. 0 \in 0 .. 1
    OBVIOUS
  <2>4. pfn[p].at = "active" => RefsSet(g, p, 0, k)
    BY <1>1, <1>11, <2>1, <2>2, <2>3 DEF RefsSet
  <2> QED BY <1>10, <2>4, SetRefs
<1>13. PICK m : m = [k EXCEPT ![p].at = "modified"]
  OBVIOUS
<1>14. pfn[p].at = "active" =>
         /\ SameBut(k, p, m) /\ m[p].refs = 0 /\ m[p].at = "modified"
         /\ m[p].removable = pfn[p].removable
  <2>1. pfn[p].at = "active" => k \in [Frames -> FrameRecord]
    BY <1>12 DEF SameBut
  <2>2. pfn[p].at = "active" => AtSet(k, p, "modified", m)
    BY <1>1, <1>13, <2>1 DEF AtSet
  <2> QED BY <1>12, <2>2, SetAt
<1>15. \/ pfn[p].at # "active" /\ Store(db, TRUE)
       \/ pfn[p].at = "active" /\ pfn[p].u2 # 1 /\ Store(d, FALSE)
       \/ pfn[p].at = "active" /\ pfn[p].next \in Ambiguous /\ Store(k, TRUE)
       \/ pfn[p].at = "active" /\ Store(m, FALSE)
  <2>1. CASE pfn[p].at # "active" /\ Store(db, TRUE)
    BY <2>1
  <2>2. CASE pfn[p].at = "active" /\ d[p].u2 # 0 /\ Store(d, FALSE)
    <3>1. pfn[p].u2 # 1
      BY <1>7, <2>2
    <3> QED BY <2>2, <3>1
  <2>3. CASE pfn[p].at = "active" /\ DecrementReferenceCount(g, p)
    <3>1. \/ k[p].refs # 0
          \/ k[p].removable
          \/ k[p].next \in Ambiguous /\ Store(k, TRUE)
          \/ Store(m, FALSE)
      BY <1>11, <1>13, <2>3 DEF DecrementReferenceCount
    <3> QED BY <1>12, <2>3, <3>1
  <2> QED BY <1>8, <1>9, <2>1, <2>2, <2>3
<1>16. PICK n : n = pfn'
  OBVIOUS
<1>17. /\ n \in [Frames -> FrameRecord] /\ UNCHANGED lists
       /\ n \in {db, d} \/ (pfn[p].at = "active" /\ n \in {k, m})
  <2>1. /\ db \in [Frames -> FrameRecord] /\ d \in [Frames -> FrameRecord]
        /\ pfn[p].at = "active" => k \in [Frames -> FrameRecord] /\ m \in [Frames -> FrameRecord]
    BY <1>5, <1>7, <1>12, <1>14 DEF SameBut
  <2>2. /\ UNCHANGED lists
        /\ n \in {db, d} \/ (pfn[p].at = "active" /\ n \in {k, m})
    BY <1>15, <1>16 DEF Store
  <2> QED BY <2>1, <2>2
<1>18. \A f \in Frames \ {p} : n[f] = db[f]
  <2>1. \A f \in Frames \ {p} : d[f] = db[f] /\ g[f] = d[f]
    BY <1>7, <1>10 DEF SameBut
  <2>2. pfn[p].at = "active" => \A f \in Frames \ {p} : k[f] = g[f] /\ m[f] = k[f]
    BY <1>12, <1>14 DEF SameBut
  <2> QED BY <1>17, <2>1, <2>2
<1>19. /\ panicked' \in BOOLEAN
       /\ n[p].at # "free" /\ ~n[p].removable
       /\ n[p].at = "active" => n[p].refs = 1
       /\ panicked' => pfn[p].at # "active" \/ pfn[p].next \in Ambiguous
       /\ pfn[p].at = "active" /\ pfn[p].u2 = 1 /\ ~panicked' => n[p].at = "modified"
  <2>1. CASE pfn[p].at # "active" /\ Store(db, TRUE)
    BY <1>5, <1>16, <2>1 DEF Store
  <2>2. CASE pfn[p].at = "active" /\ pfn[p].u2 # 1 /\ Store(d, FALSE)
    BY <1>7, <1>16, <2>2 DEF Store
  <2>3. CASE pfn[p].at = "active" /\ pfn[p].next \in Ambiguous /\ Store(k, TRUE)
    BY <1>12, <1>16, <2>3 DEF Store
  <2>4. CASE pfn[p].at = "active" /\ Store(m, FALSE)
    BY <1>14, <1>16, <2>4 DEF Store
  <2> QED BY <1>15, <2>1, <2>2, <2>3, <2>4
<1>20. \A f \in Frames \ {p} :
         /\ n[f].refs = pfn[f].refs /\ n[f].removable = pfn[f].removable
         /\ n[f].at = pfn[f].at
         /\ n[f].u2 = IF f = Table THEN pfn[f].u2 - 1 ELSE pfn[f].u2
         /\ f # Table => n[f] = pfn[f]
  BY <1>4, <1>18 DEF SameBut
<1>21. \A f \in Frames :
         /\ n[f].at = "free" <=> pfn[f].at = "free"
         /\ pfn[f].at = "free" => /\ n[f].flink = pfn[f].flink /\ n[f].u2 = pfn[f].u2
                                  /\ n[f].prev = pfn[f].prev /\ n[f].next = pfn[f].next
  <2> SUFFICES ASSUME NEW f \in Frames
               PROVE  /\ n[f].at = "free" <=> pfn[f].at = "free"
                      /\ pfn[f].at = "free" => n[f] = pfn[f]
    OBVIOUS
  <2>1. CASE f = p
    BY <1>19, <2>1
  <2>2. CASE f # p
    BY <1>20, <2>2
  <2> QED BY <2>1, <2>2
<1>22. Lists(q)' /\ ListVars'
  BY <1>16, <1>17, <1>21, ListsSame
<1> QED BY <1>16, <1>19, <1>20, <1>22

(* The entries once frame p left the blocks and the calls.                 *)
EntriesWithout(p) ==
  /\ \A f \in Frames \ {p} :
       /\ pfn'[f].refs = pfn[f].refs /\ pfn'[f].removable = pfn[f].removable
       /\ pfn'[f].at = pfn[f].at
       /\ f # Table => pfn'[f].u2 = pfn[f].u2
  /\ p # 0 => pfn'[p].at \in {"free", "modified"}
  /\ p = 0 => ~pfn'[p].removable /\ (pfn'[p].at = "active" => pfn'[p].refs = 1)

LEMMA EntriesAfterFree ==
  ASSUME Types, Entries, boot > LastFrame, boot' = boot, NEW p \in 0 .. LastFrame, EntriesWithout(p),
         p = 0 \/ p \notin (Held \cup Moving)',
         \A f : f # p => (f \in (Held \cup Moving)' <=> f \in Held \cup Moving)
  PROVE  Entries'
<1>1. ASSUME NEW f \in 1 .. LastFrame
      PROVE  /\ pfn'[f].at = "active" <=> f \in (Held \cup Moving)'
             /\ pfn'[f].at = "active" => pfn'[f].u2 = 1 /\ pfn'[f].refs = 1 /\ ~pfn'[f].removable
             /\ pfn'[f].at = "zeroed" <=> boot' <= f
             /\ pfn'[f].at # "transition"
  <2>1. f \in Frames /\ f # Table /\ f # 0
    BY DEF Frames, Table
  <2>2. /\ pfn[f].at = "active" <=> f \in Held \cup Moving
        /\ pfn[f].at = "active" => pfn[f].u2 = 1 /\ pfn[f].refs = 1 /\ ~pfn[f].removable
        /\ pfn[f].at = "zeroed" <=> boot <= f
        /\ pfn[f].at # "transition"
    BY DEF Entries
  <2>3. CASE f = p
    <3>1. ~(boot' <= f)
      <4>1. boot \in Nat
        BY DEF Types
      <4> QED BY <4>1
    <3> QED BY <2>1, <2>3, <3>1 DEF EntriesWithout
  <2>4. CASE f # p
    BY <2>1, <2>2, <2>4 DEF EntriesWithout
  <2> QED BY <2>3, <2>4
<1>2. 0 \in Frames /\ Table \in Frames /\ p # Table
  BY DEF Frames, Table
<1>3. ~pfn[0].removable /\ (pfn[0].at = "active" => pfn[0].refs = 1) /\ pfn[Table].at = "active"
  BY DEF Entries
<1>4. ~pfn'[0].removable /\ (pfn'[0].at = "active" => pfn'[0].refs = 1)
  BY <1>2, <1>3 DEF EntriesWithout
<1>5. pfn'[Table].at = "active"
  BY <1>2, <1>3 DEF EntriesWithout
<1> QED BY <1>1, <1>4, <1>5 DEF Entries

(* A frame of a pool block is freed.                                       *)
LEMMA FreePoolStep ==
  ASSUME Inv, NEW q, Lists(q), NEW c \in Cpus, FreePoolFrame(c)
  PROVE  /\ Inv' /\ ~panicked'
         /\ \E p \in 1 .. LastFrame : p \notin Elements(q) /\ Lists(Append(q, p))'
<1>1. /\ op[c].pc = "free" /\ op[c].kind = "pool" /\ ~panicked /\ op[c] # Idle
  BY IdleFacts DEF FreePoolFrame
<1>2. Types /\ PoolFramesReal /\ Calls /\ Stocks /\ Owned /\ Entries /\ Shares
  BY <1>1 DEF Inv, Sound
<1>3. op[c].frames # <<>>
  BY <1>1, <1>2 DEF Calls, CallSound
<1>4. PICK o : o = op[c]
  OBVIOUS
<1>5. PICK p : p = Head(o.frames)
  OBVIOUS
<1>6. FreesHead(c, o, p)
  BY <1>1, <1>3, <1>4, <1>5 DEF FreePoolFrame, FreesHead
<1>7. /\ p \in 0 .. LastFrame /\ o # Idle /\ boot > LastFrame
      /\ held' \in [Blocks -> BlockRecord] /\ op' \in [Cpus -> CallRecord]
      /\ PoolFramesReal' /\ Calls' /\ Stocks' /\ Owned' /\ StackPages' = StackPages
      /\ p # 0 /\ p \in Held \cup Moving /\ p \notin (Held \cup Moving)'
      /\ \A f : f # p => (f \in (Held \cup Moving)' <=> f \in Held \cup Moving)
      /\ \A d \in Cpus \ {c} : op[d] = Idle /\ op'[d] = Idle
      /\ op'[c] = Idle \/ op'[c].kind = "pool"
  BY <1>1, <1>2, <1>4, <1>6, FreeRecords
<1>8. p \in 1 .. LastFrame
  BY <1>7
<1>9. pfn[p].at = "active" /\ pfn[p].refs = 1
  BY <1>2, <1>7, <1>8 DEF Entries
<1>10. /\ Lists(Append(q, p))' /\ ListVars' /\ panicked' = FALSE
       /\ \A f \in Frames \ {p} :
            /\ pfn'[f].refs = pfn[f].refs /\ pfn'[f].removable = pfn[f].removable
            /\ pfn'[f].at = pfn[f].at /\ pfn'[f].u2 = pfn[f].u2
       /\ pfn'[p].at = "free" /\ p \notin Elements(q)
  <2>1. ListVars
    BY <1>2 DEF Types
  <2> QED BY <1>4, <1>5, <1>8, <1>9, <2>1, PoolFrameOutcome
<1>11. boot' = boot /\ nextColor' = nextColor
  BY <1>6 DEF FreesHead
<1>12. Types'
  BY <1>2, <1>7, <1>10, <1>11 DEF Types
<1>13. Entries'
  <2>1. EntriesWithout(p)
    BY <1>7, <1>10 DEF EntriesWithout
  <2> QED BY <1>2, <1>7, <1>11, <2>1, EntriesAfterFree
<1>14. Shares'
  <2>1. Table \in Frames /\ Table # p
    BY <1>8 DEF Frames, Table
  <2>2. pfn'[Table].u2 = pfn[Table].u2
    BY <1>10, <2>1
  <2>3. \A d \in Cpus : op[d].kind # "stack" /\ op'[d].kind # "stack"
    BY <1>1, <1>7, IdleFacts
  <2> QED BY <1>2, <1>7, <2>2, <2>3 DEF Shares
<1>15. \E s : Lists(s)'
  BY <1>10
<1> QED BY <1>7, <1>8, <1>10, <1>12, <1>13, <1>14, <1>15 DEF Inv, Sound

(* A frame of a stack is freed.                                            *)
LEMMA FreeStackStep ==
  ASSUME Inv, NEW q, Lists(q), NEW c \in Cpus, FreePhysicalPage(c)
  PROVE  /\ Inv' /\ Lists(q)'
         /\ panicked' => Head(op[c].frames) = 0 \/ pfn[Head(op[c].frames)].next \in Ambiguous
<1>1. /\ op[c].pc = "free" /\ op[c].kind = "stack" /\ ~panicked /\ op[c] # Idle
  BY IdleFacts DEF FreePhysicalPage, FreeSharing
<1>2. Types /\ PoolFramesReal /\ Calls /\ Stocks /\ Owned /\ Entries /\ Shares
  BY <1>1 DEF Inv, Sound
<1>3. op[c].frames # <<>>
  BY <1>1, <1>2 DEF Calls, CallSound
<1>4. PICK o : o = op[c]
  OBVIOUS
<1>5. PICK p : p = Head(o.frames)
  OBVIOUS
<1>6. FreesHead(c, o, p)
  BY <1>1, <1>3, <1>4, <1>5 DEF FreePhysicalPage, FreeSharing, FreesHead
<1>7. /\ p \in 0 .. LastFrame /\ o # Idle /\ boot > LastFrame
      /\ held' \in [Blocks -> BlockRecord] /\ op' \in [Cpus -> CallRecord]
      /\ PoolFramesReal' /\ Calls' /\ Stocks' /\ Owned' /\ StackPages' = StackPages
      /\ p \in Held \cup Moving /\ (p = 0 \/ p \notin (Held \cup Moving)')
      /\ \A f : f # p => (f \in (Held \cup Moving)' <=> f \in Held \cup Moving)
      /\ \A d \in Cpus \ {c} : op[d] = Idle /\ op'[d] = Idle
      /\ op'[c] = Idle \/ op'[c].kind = "stack"
      /\ op'[c] = Idle <=> Len(o.frames) = 1
      /\ Len(o.frames) \in Nat \ {0} /\ Len(op'[c].frames) = Len(o.frames) - 1
  BY <1>1, <1>2, <1>4, <1>6, FreeRecords
<1>8. p # 0 => p \in 1 .. LastFrame /\ pfn[p].at = "active" /\ pfn[p].refs = 1 /\ pfn[p].u2 = 1
               /\ ~pfn[p].removable
  <2>1. p # 0 => p \in 1 .. LastFrame
    BY <1>7
  <2> QED BY <1>2, <1>7, <2>1 DEF Entries
<1>9. /\ pfn[Table].at = "active" /\ pfn[p].at # "free"
      /\ pfn[p].at = "active" => pfn[p].refs = 1
      /\ ~pfn[p].removable
  <2>1. pfn[0].at # "free"
    <3>1. QueueOf(q, pfn, freeList, available)
      BY DEF Lists
    <3>2. 0 \notin Elements(q)
      <4>1. \A i \in DOMAIN q : q[i] \in 1 .. LastFrame
        BY <3>1, ListTypes
      <4>2. 0 \notin 1 .. LastFrame
        OBVIOUS
      <4> QED BY <4>1, <4>2 DEF Elements
    <3>3. 0 \in Frames
      BY DEF Frames, Table
    <3> QED BY <3>1, <3>2, <3>3 DEF QueueOf
  <2> QED BY <1>2, <1>8, <2>1 DEF Entries
<1>10. /\ Lists(q)' /\ ListVars' /\ panicked' \in BOOLEAN
       /\ \A f \in Frames \ {p} :
            /\ pfn'[f].refs = pfn[f].refs /\ pfn'[f].removable = pfn[f].removable
            /\ pfn'[f].at = pfn[f].at
            /\ pfn'[f].u2 = IF f = Table THEN pfn[f].u2 - 1 ELSE pfn[f].u2
       /\ ~pfn'[p].removable
       /\ pfn'[p].at = "active" => pfn'[p].refs = 1
       /\ panicked' => pfn[p].at # "active" \/ pfn[p].next \in Ambiguous
       /\ pfn[p].at = "active" /\ pfn[p].u2 = 1 /\ ~panicked' => pfn'[p].at = "modified"
  <2>1. ListVars
    BY <1>2 DEF Types
  <2> QED BY <1>4, <1>5, <1>7, <1>9, <2>1, StackFrameOutcome
<1>11. boot' = boot /\ nextColor' = nextColor
  BY <1>6 DEF FreesHead
<1>12. Types'
  BY <1>2, <1>7, <1>10, <1>11 DEF Types
<1>13. ASSUME ~panicked' PROVE Entries'
  <2>1. EntriesWithout(p)
    BY <1>8, <1>10, <1>13 DEF EntriesWithout
  <2> QED BY <1>2, <1>7, <1>11, <2>1, EntriesAfterFree
<1>14. Shares'
  <2>1. Table \in Frames \ {p}
    BY <1>7 DEF Frames, Table
  <2>2. pfn'[Table].u2 = pfn[Table].u2 - 1
    BY <1>10, <2>1
  <2>3. IsFiniteSet(StackPages) /\ pfn[Table].u2 = 1 + Cardinality(StackPages) + Len(o.frames)
    BY <1>1, <1>2, <1>4 DEF Shares
  <2>4. PICK n \in Nat : n = Cardinality(StackPages)
    BY <2>3, FS_CardinalityType
  <2>5. PICK m \in Nat : m = Len(o.frames)
    BY <1>7
  <2>6. pfn'[Table].u2 = 1 + n + (m - 1)
    BY <2>2, <2>3, <2>4, <2>5
  <2>7. CASE m = 1
    <3>1. \A d \in Cpus : op'[d].kind # "stack"
      BY <1>7, <2>5, <2>7, IdleFacts
    <3>2. pfn'[Table].u2 = 1 + n
      BY <2>6, <2>7
    <3> QED BY <1>7, <2>3, <2>4, <3>1, <3>2 DEF Shares
  <2>8. CASE m # 1
    <3>1. op'[c].kind = "stack" /\ \A d \in Cpus : op'[d].kind = "stack" => d = c
      BY <1>7, <2>5, <2>8, IdleFacts
    <3>2. Len(op'[c].frames) = m - 1
      BY <1>7, <2>5
    <3> QED BY <1>7, <2>3, <2>4, <2>6, <3>1, <3>2 DEF Shares
  <2> QED BY <2>7, <2>8
<1>15. \E s : Lists(s)'
  BY <1>10
<1>16. panicked' => p = 0 \/ pfn[p].next \in Ambiguous
  BY <1>8, <1>10
<1> QED BY <1>4, <1>5, <1>7, <1>10, <1>11, <1>12, <1>13, <1>14, <1>15, <1>16 DEF Inv, Sound

LEMMA StutterStep ==
  ASSUME Inv, NEW q, Lists(q), UNCHANGED vars
  PROVE  Inv' /\ Lists(q)'
<1>1. /\ pfn' = pfn /\ freeList' = freeList /\ colors' = colors /\ available' = available
      /\ nextColor' = nextColor /\ boot' = boot /\ held' = held /\ op' = op /\ panicked' = panicked
  BY DEF vars, lists
<1>2. Types' /\ Lists(q)' /\ PoolFramesReal'
  BY <1>1 DEF Inv, Types, ListVars, Lists, PoolFramesReal
<1>3. Sound => Sound'
  <2>1. Held' = Held /\ Moving' = Moving /\ StackPages' = StackPages
    BY <1>1 DEF Held, Moving, StackPages
  <2>2. Calls => Calls'
    BY <1>1 DEF Calls, CallSound, PickFrame, PickUnguarded
  <2>3. Stocks /\ Owned => Stocks' /\ Owned'
    BY <1>1 DEF Stocks, Owned
  <2>4. Entries /\ Shares => Entries' /\ Shares'
    BY <1>1, <2>1 DEF Entries, Shares
  <2> QED BY <2>2, <2>3, <2>4 DEF Sound
<1>4. \E s : Lists(s)'
  BY <1>2
<1> QED BY <1>1, <1>2, <1>3, <1>4 DEF Inv

-----------------------------------------------------------------------------
(* The turn of the colours, as the queue counts it.                        *)
Turn == IF \E c \in Cpus : op[c].pc = "take" THEN (nextColor - 1) % Colors ELSE nextColor

LEMMA RoundAgain ==
  ASSUME NEW n \in 0 .. Colors - 1
  PROVE  (((n + 1) % Colors) - 1) % Colors = n /\ (((n - 1) % Colors) + 1) % Colors = n
<1>1. PICK m \in Nat \ {0} : m = Colors
  OBVIOUS
<1>2. /\ n \in 0 .. m - 1 /\ m - 1 \in 0 .. m - 1 /\ 0 \in 0 .. m - 1
      /\ m \in Int /\ n \in Int
  BY <1>1
<1>3. n % m = n
  <2>1. n = m * 0 + n
    BY <1>2
  <2> QED BY <1>2, <2>1, RestIs
<1>4. m % m = 0
  <2>1. m = m * 1 + 0
    BY <1>2
  <2> QED BY <1>2, <2>1, RestIs
<1>5. (-1) % m = m - 1
  <2>1. -1 = m * (-1) + (m - 1) /\ -1 \in Int
    BY <1>2
  <2> QED BY <1>2, <2>1, RestIs
<1>6. (((n + 1) % m) - 1) % m = n
  <2>1. CASE n = m - 1
    <3>1. n + 1 = m /\ 0 - 1 = -1
      BY <1>2, <2>1
    <3> QED BY <1>4, <1>5, <2>1, <3>1
  <2>2. CASE n # m - 1
    <3>1. PICK k \in 0 .. m - 1 : k = n + 1 /\ k - 1 = n
      BY <1>2, <2>2
    <3>2. k = m * 0 + k /\ k \in Int
      BY <1>2
    <3>3. k % m = k
      BY <3>2, RestIs
    <3> QED BY <1>3, <3>1, <3>3
  <2> QED BY <2>1, <2>2
<1>7. (((n - 1) % m) + 1) % m = n
  <2>1. CASE n = 0
    <3>1. n - 1 = -1 /\ (m - 1) + 1 = m
      BY <1>2, <2>1
    <3> QED BY <1>4, <1>5, <2>1, <3>1
  <2>2. CASE n # 0
    <3>1. PICK k \in 0 .. m - 1 : k = n - 1 /\ k + 1 = n
      BY <1>2, <2>2
    <3>2. k = m * 0 + k /\ k \in Int
      BY <1>2
    <3>3. k % m = k
      BY <3>2, RestIs
    <3> QED BY <1>3, <3>1, <3>3
  <2> QED BY <2>1, <2>2
<1> QED BY <1>1, <1>6, <1>7

(* Only the step that picks a frame and the one that takes it change it.   *)
LEMMA TurnKept ==
  ASSUME Types, NEW c \in Cpus, NEW r, op' = [op EXCEPT ![c] = r],
         op[c].pc # "take", r.pc # "take", nextColor' = nextColor
  PROVE  Turn' = Turn
<1>1. op'[c].pc # "take" /\ \A d \in Cpus \ {c} : op'[d] = op[d]
  BY DEF Types
<1>2. (\E d \in Cpus : op'[d].pc = "take") <=> \E d \in Cpus : op[d].pc = "take"
  BY <1>1
<1> QED BY <1>2 DEF Turn

LEMMA TurnPicked ==
  ASSUME Types, Calls, NEW c \in Cpus, AllocatePhysicalPage(c)
  PROVE  Turn' = Turn
<1>1. op[c].pc = "pick" /\ nextColor' = (nextColor + 1) % Colors /\ op[c] # Idle
  BY IdleFacts DEF AllocatePhysicalPage
<1>2. \A d \in Cpus : op[d].pc # "take"
  BY <1>1, WorksAlone, IdleFacts
<1>3. op'[c].pc = "take"
  <2>1. PICK r : r = [op[c] EXCEPT !.pc = "take", !.page = PickFrame(nextColor')]
    OBVIOUS
  <2>2. op' = [op EXCEPT ![c] = r]
    BY <2>1 DEF AllocatePhysicalPage
  <2>3. op[c] \in CallRecord /\ op \in [Cpus -> CallRecord]
    BY DEF Types
  <2>4. r.pc = "take"
    BY <2>1, <2>3 DEF CallRecord
  <2> QED BY <2>2, <2>3, <2>4
<1>4. (((nextColor + 1) % Colors) - 1) % Colors = nextColor
  BY RoundAgain DEF Types
<1> QED BY <1>1, <1>2, <1>3, <1>4 DEF Turn

LEMMA TurnTaken ==
  ASSUME Types, Calls, NEW c \in Cpus, NEW b \in Blocks, TakeFrame(c, b)
  PROVE  Turn' = (Turn + 1) % Colors /\ Turn' = nextColor
<1>1. op[c].pc = "take" /\ nextColor' = nextColor /\ op[c] # Idle
  BY IdleFacts DEF TakeFrame
<1>2. \A d \in Cpus \ {c} : op[d].pc # "take"
  BY <1>1, WorksAlone, IdleFacts
<1>3. \A d \in Cpus : op'[d].pc # "take"
  <2>1. PICK o : o = op[c]
    OBVIOUS
  <2>2. PICK all : all = Append(o.frames, o.page)
    OBVIOUS
  <2>3. PICK r : r = IF o.left = 1 THEN Idle
                     ELSE [o EXCEPT !.pc = "pick", !.left = o.left - 1, !.frames = all]
    OBVIOUS
  <2>4. op' = [op EXCEPT ![c] = r]
    BY <2>1, <2>2, <2>3 DEF TakeFrame
  <2>5. o \in CallRecord /\ op \in [Cpus -> CallRecord]
    BY <2>1 DEF Types
  <2>6. r.pc # "take"
    <3>1. CASE o.left = 1
      BY <2>3, <3>1, IdleFacts
    <3>2. CASE o.left # 1
      <4>1. r = [o EXCEPT !.pc = "pick", !.left = o.left - 1, !.frames = all]
        BY <2>3, <3>2
      <4>2. r.pc = "pick"
        BY <2>5, <4>1 DEF CallRecord
      <4> QED BY <4>2
    <3> QED BY <3>1, <3>2
  <2> QED BY <1>2, <2>4, <2>5, <2>6
<1>4. (((nextColor - 1) % Colors) + 1) % Colors = nextColor
  BY RoundAgain DEF Types
<1> QED BY <1>1, <1>3, <1>4 DEF Turn

LEMMA TurnFreed ==
  ASSUME Types, NEW c \in Cpus, FreePoolFrame(c) \/ FreePhysicalPage(c)
  PROVE  Turn' = Turn
<1>1. PICK o : o = op[c]
  OBVIOUS
<1>2. PICK t : t = Tail(o.frames)
  OBVIOUS
<1>3. PICK r : r = IF Len(o.frames) = 1 THEN Idle ELSE [o EXCEPT !.frames = t]
  OBVIOUS
<1>4. op' = [op EXCEPT ![c] = r] /\ nextColor' = nextColor /\ o.pc = "free"
  BY <1>1, <1>2, <1>3 DEF FreePoolFrame, FreePhysicalPage, FreeSharing
<1>5. r.pc # "take"
  <2>1. CASE Len(o.frames) = 1
    BY <1>3, <2>1, IdleFacts
  <2>2. CASE Len(o.frames) # 1
    <3>1. r = [o EXCEPT !.frames = t] /\ o \in CallRecord
      BY <1>1, <1>3, <2>2 DEF Types
    <3>2. r.pc = o.pc
      BY <3>1 DEF CallRecord
    <3> QED BY <1>4, <3>2
  <2> QED BY <2>1, <2>2
<1> QED BY <1>1, <1>4, <1>5, TurnKept

-----------------------------------------------------------------------------
(* The queue, before a step and after it.                                  *)
LEMMA FramesNow ==
  ASSUME NEW q, Lists(q)
  PROVE  /\ FreeFrames = q /\ available = Len(q) /\ q \in Seq(1 .. LastFrame)
         /\ Len(q) \in Nat /\ DOMAIN q = 1 .. Len(q)
BY ListIsFreeFrames, LenProperties DEF Lists, QueueOf

LEMMA FramesNext ==
  ASSUME NEW q, Lists(q)'
  PROVE  FreeFrames' = q /\ available' = Len(q)
<1>1. q \in Seq(1 .. LastFrame) /\ Once(q) /\ Chain(q, freeList'.flink, Flinks(pfn'))
  BY DEF Lists, QueueOf
<1>2. Follow(freeList'.flink, Flinks(pfn')) = q
  BY <1>1, FollowChain
<1>3. FreeFrames' = q
  BY <1>2, Zenon DEF FreeFrames, Flinks
<1>4. available' = Len(q)
  BY DEF Lists, QueueOf
<1> QED BY <1>3, <1>4

LEMMA QueueStutters ==
  ASSUME NEW q, Lists(q), Lists(q)', Turn' = Turn
  PROVE  UNCHANGED Queue!vars
BY FramesNow, FramesNext DEF Queue!vars, Turn

LEMMA QueuePuts ==
  ASSUME NEW q, Lists(q), NEW p \in 1 .. LastFrame, p \notin Elements(q), Lists(Append(q, p))',
         Turn' = Turn
  PROVE  Queue!Put
<1>1. /\ FreeFrames = q /\ available = Len(q) /\ q \in Seq(1 .. LastFrame)
      /\ Len(q) \in Nat /\ DOMAIN q = 1 .. Len(q)
  BY FramesNow
<1>2. FreeFrames' = Append(q, p) /\ available' = Len(Append(q, p))
  BY FramesNext
<1>3. Len(Append(q, p)) = Len(q) + 1
  BY <1>1, AppendProperties
<1>4. \A i \in DOMAIN q : q[i] # p
  BY DEF Elements
<1> QED BY <1>1, <1>2, <1>3, <1>4 DEF Queue!Put, Turn

LEMMA QueueTakes ==
  ASSUME NEW q, Lists(q), NEW k \in 1 .. Len(q), Queue!Serves(q, k, nextColor),
         Lists(RemoveAt(q, k))', Turn' = (Turn + 1) % Colors, Turn' = nextColor
  PROVE  Queue!Take
<1>1. /\ FreeFrames = q /\ available = Len(q) /\ q \in Seq(1 .. LastFrame)
      /\ Len(q) \in Nat /\ DOMAIN q = 1 .. Len(q)
  BY FramesNow
<1>2. FreeFrames' = RemoveAt(q, k) /\ available' = Len(RemoveAt(q, k))
  BY FramesNext
<1>3. Len(RemoveAt(q, k)) = Len(q) - 1
  BY <1>1, RemoveAtProperties
<1>4. Queue!Serves(q, k, Turn')
  OBVIOUS
<1>5. RemoveAt(q, k) = Queue!RemoveAt(q, k)
  BY DEF RemoveAt, Queue!RemoveAt
<1> QED BY <1>1, <1>2, <1>3, <1>4, <1>5 DEF Queue!Take, Turn

LEMMA QueueRefuses ==
  ASSUME Lists(<<>>), Lists(<<>>)', Turn' = (Turn + 1) % Colors
  PROVE  Queue!Refuse
<1>1. FreeFrames = <<>> /\ available = Len(<<>>)
  BY FramesNow
<1>2. FreeFrames' = <<>> /\ available' = Len(<<>>)
  BY FramesNext
<1> QED BY <1>1, <1>2 DEF Queue!Refuse, Turn

-----------------------------------------------------------------------------
(* Every step keeps the invariant, is a step of the queue or leaves it     *)
(* alone, and panics for a reason.                                         *)
PanicReason ==
  \E c \in Cpus :
    LET p == Head(op[c].frames) IN
    op[c].pc = "free" /\ (p = 0 \/ pfn[p].next \in Ambiguous)

LEMMA StepKeeps ==
  ASSUME OneUser, Inv, [Next]_vars
  PROVE  /\ Inv'
         /\ Queue!Next \/ UNCHANGED Queue!vars
         /\ ~panicked /\ panicked' => PanicReason
<1>1. PICK q : Lists(q)
  BY DEF Inv
<1>2. Types /\ (~panicked => Calls)
  BY DEF Inv, Sound
<1>3. CASE ProcessMemoryDescriptor
  <2>1. Inv' /\ \E p \in 1 .. LastFrame : p \notin Elements(q) /\ Lists(Append(q, p))'
    BY <1>1, <1>3, BootStep
  <2>2. Turn' = Turn /\ panicked' = panicked
    BY <1>3 DEF ProcessMemoryDescriptor, Turn
  <2>3. Queue!Put
    BY <1>1, <2>1, <2>2, QueuePuts
  <2> QED BY <2>1, <2>2, <2>3 DEF Queue!Next
<1>4. ASSUME NEW c \in Cpus, NEW kind \in Kinds, NEW n \in Nat \ {0},
             kind = "pool" => n < available, Begin(c, kind, n)
      PROVE  Inv' /\ UNCHANGED Queue!vars /\ panicked' = panicked
  <2>1. Inv' /\ Lists(q)'
    BY <1>1, <1>4, BeginStep
  <2>2. PICK r : r = [pc |-> "pick", kind |-> kind, left |-> n, page |-> 0, frames |-> <<>>]
    OBVIOUS
  <2>3. op' = [op EXCEPT ![c] = r] /\ op[c].pc # "take" /\ r.pc # "take" /\ nextColor' = nextColor
    BY <1>4, <2>2, IdleFacts DEF Begin
  <2>4. Turn' = Turn
    BY <1>2, <2>3, TurnKept
  <2>5. panicked' = panicked
    BY <1>4 DEF Begin
  <2> QED BY <1>1, <2>1, <2>4, <2>5, QueueStutters
<1>5. ASSUME NEW c \in Cpus, NEW n \in PoolRequests, ExpandPool(c, n)
      PROVE  Inv' /\ UNCHANGED Queue!vars /\ panicked' = panicked
  <2>1. n \in Nat \ {0} /\ "pool" \in Kinds /\ n < available /\ Begin(c, "pool", n)
    BY <1>5 DEF Kinds, ExpandPool
  <2> QED BY <1>4, <2>1
<1>6. ASSUME NEW c \in Cpus, NEW n \in StackRequests, AllocateKernelStack(c, n)
      PROVE  Inv' /\ UNCHANGED Queue!vars /\ panicked' = panicked
  <2>1. n \in Nat \ {0} /\ "stack" \in Kinds /\ "stack" # "pool" /\ Begin(c, "stack", n)
    BY <1>6 DEF Kinds, AllocateKernelStack
  <2> QED BY <1>4, <2>1
<1>7. ASSUME NEW c \in Cpus, AllocatePhysicalPage(c)
      PROVE  Inv' /\ UNCHANGED Queue!vars /\ panicked' = panicked
  <2>1. Inv' /\ Lists(q)'
    BY <1>1, <1>7, PickStep
  <2>2. ~panicked /\ panicked' = panicked
    BY <1>7 DEF AllocatePhysicalPage
  <2>3. Turn' = Turn
    BY <1>2, <1>7, <2>2, TurnPicked
  <2> QED BY <1>1, <2>1, <2>2, <2>3, QueueStutters
<1>8. ASSUME NEW c \in Cpus, NEW b \in Blocks, TakeFrame(c, b)
      PROVE  Inv' /\ Queue!Next /\ panicked' = panicked
  <2>1. /\ Inv'
        /\ \/ q = <<>> /\ Lists(q)'
           \/ \E k \in 1 .. Len(q) : Queue!Serves(q, k, nextColor) /\ Lists(RemoveAt(q, k))'
    BY <1>1, <1>8, TakeSound
  <2>2. ~panicked /\ panicked' = panicked
    BY <1>8 DEF TakeFrame
  <2>3. Turn' = (Turn + 1) % Colors /\ Turn' = nextColor
    BY <1>2, <1>8, <2>2, TurnTaken
  <2>4. CASE q = <<>> /\ Lists(q)'
    <3>1. Queue!Refuse
      BY <1>1, <2>3, <2>4, QueueRefuses
    <3> QED BY <2>1, <2>2, <3>1 DEF Queue!Next
  <2>5. CASE \E k \in 1 .. Len(q) : Queue!Serves(q, k, nextColor) /\ Lists(RemoveAt(q, k))'
    <3>1. Queue!Take
      BY <1>1, <2>3, <2>5, QueueTakes
    <3> QED BY <2>1, <2>2, <3>1 DEF Queue!Next
  <2> QED BY <2>1, <2>4, <2>5
<1>9. ASSUME NEW c \in Cpus, NEW b \in Blocks, StartFree(c, b)
      PROVE  Inv' /\ UNCHANGED Queue!vars /\ panicked' = panicked
  <2>1. Inv' /\ Lists(q)'
    BY <1>1, <1>9, StartStep
  <2>2. PICK fr : fr = IF held[b].kind = "stack" THEN Reverse(held[b].frames) ELSE held[b].frames
    OBVIOUS
  <2>3. PICK r : r = [pc |-> "free", kind |-> held[b].kind, left |-> 0, page |-> 0, frames |-> fr]
    OBVIOUS
  <2>4. op' = [op EXCEPT ![c] = r] /\ op[c].pc # "take" /\ r.pc # "take" /\ nextColor' = nextColor
    BY <1>9, <2>2, <2>3, IdleFacts DEF StartFree
  <2>5. Turn' = Turn
    BY <1>2, <2>4, TurnKept
  <2>6. panicked' = panicked
    BY <1>9 DEF StartFree
  <2> QED BY <1>1, <2>1, <2>5, <2>6, QueueStutters
<1>10. ASSUME NEW c \in Cpus, FreePoolFrame(c)
       PROVE  Inv' /\ Queue!Next /\ ~panicked'
  <2>1. Inv' /\ \E p \in 1 .. LastFrame : p \notin Elements(q) /\ Lists(Append(q, p))'
    BY <1>1, <1>10, FreePoolStep
  <2>2. Turn' = Turn
    BY <1>2, <1>10, TurnFreed
  <2>3. Queue!Put
    BY <1>1, <2>1, <2>2, QueuePuts
  <2>4. ~panicked'
    BY <1>1, <1>10, FreePoolStep
  <2> QED BY <2>1, <2>3, <2>4 DEF Queue!Next
<1>11. ASSUME NEW c \in Cpus, FreePhysicalPage(c)
       PROVE  Inv' /\ UNCHANGED Queue!vars /\ (panicked' => PanicReason)
  <2>1. /\ Inv' /\ Lists(q)'
        /\ panicked' => Head(op[c].frames) = 0 \/ pfn[Head(op[c].frames)].next \in Ambiguous
    BY <1>1, <1>11, FreeStackStep
  <2>2. Turn' = Turn
    BY <1>2, <1>11, TurnFreed
  <2>3. op[c].pc = "free"
    BY <1>11 DEF FreePhysicalPage, FreeSharing
  <2> QED BY <1>1, <2>1, <2>2, <2>3, QueueStutters DEF PanicReason
<1>12. CASE UNCHANGED vars
  <2>1. Inv' /\ Lists(q)'
    BY <1>1, <1>12, StutterStep
  <2>2. Turn' = Turn /\ panicked' = panicked
    BY <1>12 DEF vars, Turn
  <2> QED BY <1>1, <2>1, <2>2, QueueStutters
<1> QED BY <1>3, <1>5, <1>6, <1>7, <1>8, <1>9, <1>10, <1>11, <1>12 DEF Next

-----------------------------------------------------------------------------
(* Types, lists, stocks, entries and counts hang together.                 *)
THEOREM PagesInvariant == ASSUME OneUser PROVE Spec => []Inv
<1>1. Init => Inv
  BY InitInv
<1>2. Inv /\ [Next]_vars => Inv'
  BY StepKeeps
<1> QED BY <1>1, <1>2, PTL DEF Spec

(* The colour lists thread the free list, so a frame is only ever unlinked *)
(* from the head of its colour list and the tail that UnlinkFreePage       *)
(* leaves as a frame number is never used as a pointer.                    *)
THEOREM ListsThread == ASSUME OneUser PROVE Spec => []ColorsThreadFreeList
<1>1. Inv => ColorsThreadFreeList
  BY ListsThreaded DEF Inv
<1> QED BY <1>1, PagesInvariant, PTL

(* No frame is lost or in two places, from the boot descriptors through    *)
(* the pool and the stacks.                                                *)
THEOREM FramesKept == ASSUME OneUser PROVE Spec => []FramesConserved
<1>1. Inv => FramesConserved
  BY InvConserves
<1> QED BY <1>1, PagesInvariant, PTL

(* A frame in use has one user and one reference, and the page table of    *)
(* the stacks one user for each page of a stack.                           *)
THEOREM SharesKept == ASSUME OneUser PROVE Spec => []CountsAgree
<1>1. Inv => CountsAgree
  BY InvCounts
<1> QED BY <1>1, PagesInvariant, PTL

(* AllocateNonPagedPoolPages never runs out of frames half way.            *)
THEOREM PoolFramesKept == ASSUME OneUser PROVE Spec => []PoolFramesReal
<1>1. Inv => PoolFramesReal
  BY DEF Inv
<1> QED BY <1>1, PagesInvariant, PTL

(* Tearing down a stack panics over frame 0 or an ambiguous link only.     *)
THEOREM PanicsReasoned == ASSUME OneUser PROVE Spec => PanicsExplained
<1>1. Inv /\ [Next]_vars =>
        [~panicked /\ panicked' =>
           \E c \in Cpus :
             LET p == Head(op[c].frames) IN
             op[c].pc = "free" /\ (p = 0 \/ pfn[p].next \in Ambiguous)]_vars
  BY StepKeeps DEF PanicReason
<1> QED BY <1>1, PagesInvariant, PTL DEF Spec, PanicsExplained

(* AllocatePhysicalPage and LinkFreePage serve one queue, first in first   *)
(* out but for the colour, whose turn goes round.                          *)
THEOREM PagesImplementQueue == ASSUME OneUser PROVE Spec => ImplementsQueue
<1>1. Init => Queue!Init
  <2> SUFFICES ASSUME Init PROVE Queue!Init
    OBVIOUS
  <2>1. FreeFrames = <<>> /\ available = 0
    BY InitLists, FramesNow
  <2>2. Turn = 0
    BY IdleFacts DEF Init, Turn
  <2> QED BY <2>1, <2>2 DEF Queue!Init, Turn
<1>2. Inv /\ [Next]_vars => [Queue!Next]_(Queue!vars)
  BY StepKeeps
<1> QED BY <1>1, <1>2, PagesInvariant, PTL DEF Spec, ImplementsQueue, Queue!Spec
=============================================================================
