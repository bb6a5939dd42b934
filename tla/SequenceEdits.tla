--------------------------- MODULE SequenceEdits ---------------------------
(***************************************************************************)
(* What removing and inserting one element does to a sequence: the lists   *)
(* of the memory manager are edited this way.                              *)
(* At the end, the least number of a set: a minimal counterexample, or the *)
(* first element that fits, where an induction would be written by hand.   *)
(***************************************************************************)
EXTENDS Integers, SequencesExt, SequenceTheorems, WellFoundedInduction, TLAPS

(* Removing position p closes the gap and keeps every other element; it is *)
(* the unlinking of one node of a linked list.                             *)
LEMMA RemoveAtProperties ==
  ASSUME NEW S, NEW s \in Seq(S), NEW p \in 1 .. Len(s)
  PROVE  /\ RemoveAt(s, p) \in Seq(S)
         /\ Len(RemoveAt(s, p)) = Len(s) - 1
         /\ \A i \in 1 .. Len(s) - 1 :
              RemoveAt(s, p)[i] = IF i < p THEN s[i] ELSE s[i + 1]
<1> DEFINE a == SubSeq(s, 1, p - 1)
           b == SubSeq(s, p + 1, Len(s))
<1>1. Len(s) \in Nat /\ \A i \in 1 .. Len(s) : s[i] \in S
  BY LenProperties, ElementOfSeq
<1>2. a \in Seq(S) /\ Len(a) = p - 1 /\ \A i \in 1 .. p - 1 : a[i] = s[i]
  BY <1>1, SubSeqProperties
<1>3. /\ b \in Seq(S) /\ Len(b) = Len(s) - p
      /\ \A i \in 1 .. Len(s) - p : b[i] = s[p + i]
  BY <1>1, SubSeqProperties
<1>4. RemoveAt(s, p) = a \o b
  BY DEF RemoveAt
<1> HIDE DEF a, b
<1>5. /\ a \o b \in Seq(S)
      /\ Len(a \o b) = Len(a) + Len(b)
      /\ \A i \in 1 .. Len(a) + Len(b) :
           (a \o b)[i] = IF i <= Len(a) THEN a[i] ELSE b[i - Len(a)]
  BY <1>2, <1>3, ConcatProperties
<1>6. ASSUME NEW i \in 1 .. Len(s) - 1
      PROVE  (a \o b)[i] = IF i < p THEN s[i] ELSE s[i + 1]
  <2>1. CASE i < p
    BY <1>1, <1>2, <1>3, <1>5, <2>1
  <2>2. CASE ~(i < p)
    <3>1. i - (p - 1) \in 1 .. Len(s) - p
      BY <1>1, <2>2
    <3>2. b[i - (p - 1)] = s[p + (i - (p - 1))] /\ p + (i - (p - 1)) = i + 1
      BY <1>1, <1>3, <3>1
    <3>3. (a \o b)[i] = b[i - (p - 1)]
      BY <1>1, <1>2, <1>3, <1>5, <2>2
    <3> QED BY <2>2, <3>2, <3>3
  <2> QED BY <2>1, <2>2
<1>7. Len(a \o b) = Len(s) - 1
  BY <1>1, <1>2, <1>3, <1>5
<1>8. QED
  BY <1>4, <1>5, <1>6, <1>7

(* Inserting at p shifts the elements from p on up by one; it is the       *)
(* linking of one node into a linked list.                                 *)
LEMMA InsertAtProperties ==
  ASSUME NEW S, NEW s \in Seq(S), NEW p \in 1 .. Len(s) + 1, NEW e \in S
  PROVE  /\ InsertAt(s, p, e) \in Seq(S)
         /\ Len(InsertAt(s, p, e)) = Len(s) + 1
         /\ \A i \in 1 .. Len(s) + 1 :
              InsertAt(s, p, e)[i] = IF i < p THEN s[i]
                                     ELSE IF i = p THEN e ELSE s[i - 1]
<1> DEFINE a == SubSeq(s, 1, p - 1)
           b == <<e>>
           c == SubSeq(s, p, Len(s))
<1>1. Len(s) \in Nat /\ \A i \in 1 .. Len(s) : s[i] \in S
  BY LenProperties, ElementOfSeq
<1>2. a \in Seq(S) /\ Len(a) = p - 1 /\ \A i \in 1 .. p - 1 : a[i] = s[i]
  BY <1>1, SubSeqProperties
<1>3. b \in Seq(S) /\ Len(b) = 1 /\ b[1] = e
  OBVIOUS
<1>4. /\ c \in Seq(S) /\ Len(c) = Len(s) - p + 1
      /\ \A i \in 1 .. Len(s) - p + 1 : c[i] = s[p + i - 1]
  BY <1>1, SubSeqProperties
<1>5. InsertAt(s, p, e) = a \o b \o c
  BY DEF InsertAt
<1> HIDE DEF a, b, c
<1>6. /\ a \o b \in Seq(S) /\ Len(a \o b) = Len(a) + Len(b)
      /\ \A i \in 1 .. Len(a) + Len(b) :
           (a \o b)[i] = IF i <= Len(a) THEN a[i] ELSE b[i - Len(a)]
  BY <1>2, <1>3, ConcatProperties
<1> DEFINE ab == a \o b
<1>7. /\ ab \o c \in Seq(S) /\ Len(ab \o c) = Len(ab) + Len(c)
      /\ \A i \in 1 .. Len(ab) + Len(c) :
           (ab \o c)[i] = IF i <= Len(ab) THEN ab[i] ELSE c[i - Len(ab)]
  <2>1. ab \in Seq(S) /\ c \in Seq(S)
    BY <1>4, <1>6
  <2> HIDE DEF ab
  <2> QED BY <2>1, ConcatProperties
<1>8. /\ Len(ab) = p
      /\ \A i \in 1 .. p : ab[i] = IF i < p THEN s[i] ELSE e
  <2>1. Len(ab) = p
    BY <1>2, <1>3, <1>6
  <2>2. ASSUME NEW i \in 1 .. p PROVE ab[i] = IF i < p THEN s[i] ELSE e
    BY <1>2, <1>3, <1>6
  <2> QED BY <2>1, <2>2
<1> HIDE DEF ab
<1>9. InsertAt(s, p, e) = ab \o c
  BY <1>5 DEF ab
<1>10. QED
  BY <1>1, <1>4, <1>7, <1>8, <1>9

-----------------------------------------------------------------------------
(* Lists in which nothing occurs twice.                                    *)

Elements(s) == {s[i] : i \in DOMAIN s}
Once(s) == \A i, j \in DOMAIN s : s[i] = s[j] => i = j

(* What removing, appending and prepending do to its elements.             *)
LEMMA RemoveAtOnce ==
  ASSUME NEW S, NEW s \in Seq(S), Once(s), NEW p \in DOMAIN s
  PROVE  /\ RemoveAt(s, p) \in Seq(S) /\ Once(RemoveAt(s, p))
         /\ Elements(RemoveAt(s, p)) = Elements(s) \ {s[p]}
<1>1. DOMAIN s = 1 .. Len(s) /\ Len(s) \in Nat /\ p \in 1 .. Len(s)
  BY LenProperties
<1>2. PICK t : t = RemoveAt(s, p)
  OBVIOUS
<1>3. /\ t \in Seq(S) /\ Len(t) = Len(s) - 1
      /\ \A i \in 1 .. Len(s) - 1 : t[i] = IF i < p THEN s[i] ELSE s[i + 1]
  BY <1>1, <1>2, RemoveAtProperties
<1>4. DOMAIN t = 1 .. Len(s) - 1
  BY <1>3, LenProperties
<1>5. Once(t)
  <2> SUFFICES ASSUME NEW i \in 1 .. Len(s) - 1, NEW j \in 1 .. Len(s) - 1, t[i] = t[j]
               PROVE  i = j
    BY <1>4 DEF Once
  <2>1. PICK k \in DOMAIN s : t[i] = s[k] /\ k = (IF i < p THEN i ELSE i + 1)
    BY <1>1, <1>3
  <2>2. PICK l \in DOMAIN s : t[j] = s[l] /\ l = (IF j < p THEN j ELSE j + 1)
    BY <1>1, <1>3
  <2>3. k = l
    BY <2>1, <2>2 DEF Once
  <2>4. k = (IF i < p THEN i ELSE i + 1) /\ k = (IF j < p THEN j ELSE j + 1)
    BY <2>1, <2>2, <2>3
  <2>5. i \in Int /\ j \in Int /\ p \in Int
    BY <1>1
  <2>6. CASE i < p
    <3>1. i = IF j < p THEN j ELSE j + 1
      BY <2>4, <2>6
    <3> QED BY <2>5, <2>6, <3>1
  <2>7. CASE ~(i < p)
    <3>1. i + 1 = IF j < p THEN j ELSE j + 1
      BY <2>4, <2>7
    <3> QED BY <2>5, <2>7, <3>1
  <2> QED BY <2>6, <2>7
<1>6. Elements(t) \subseteq Elements(s) \ {s[p]}
  <2> SUFFICES ASSUME NEW k \in 1 .. Len(s) - 1 PROVE t[k] \in Elements(s) \ {s[p]}
    BY <1>4 DEF Elements
  <2>1. k \in DOMAIN s /\ k + 1 \in DOMAIN s
    BY <1>1
  <2>2. t[k] = IF k < p THEN s[k] ELSE s[k + 1]
    BY <1>3
  <2>3. PICK m \in DOMAIN s : t[k] = s[m] /\ m # p
    <3>1. CASE k < p
      BY <2>1, <2>2, <3>1
    <3>2. CASE ~(k < p)
      <4>1. k + 1 # p
        BY <1>1, <3>2
      <4> QED BY <2>1, <2>2, <3>2, <4>1
    <3> QED BY <3>1, <3>2
  <2> QED BY <2>3 DEF Elements, Once
<1>7. Elements(s) \ {s[p]} \subseteq Elements(t)
  <2> SUFFICES ASSUME NEW m \in DOMAIN s, m # p PROVE s[m] \in Elements(t)
    BY DEF Elements
  <2>1. CASE m < p
    <3>1. m \in 1 .. Len(s) - 1 /\ t[m] = s[m]
      BY <1>1, <1>3, <2>1
    <3> QED BY <1>4, <3>1 DEF Elements
  <2>2. CASE m > p
    <3>1. m - 1 \in 1 .. Len(s) - 1 /\ t[m - 1] = s[(m - 1) + 1] /\ (m - 1) + 1 = m
      BY <1>1, <1>3, <2>2
    <3> QED BY <1>4, <3>1 DEF Elements
  <2> QED BY <1>1, <2>1, <2>2
<1> QED BY <1>2, <1>3, <1>5, <1>6, <1>7

(* An entry at the end.                                                    *)
LEMMA AppendOnce ==
  ASSUME NEW S, NEW s \in Seq(S), Once(s), NEW e \in S, e \notin Elements(s)
  PROVE  /\ Append(s, e) \in Seq(S) /\ Once(Append(s, e))
         /\ Elements(Append(s, e)) = Elements(s) \cup {e}
<1>1. DOMAIN s = 1 .. Len(s) /\ Len(s) \in Nat
  BY LenProperties
<1>2. PICK t : t = Append(s, e)
  OBVIOUS
<1>3. /\ t \in Seq(S) /\ DOMAIN t = 1 .. Len(s) + 1 /\ t[Len(s) + 1] = e
      /\ \A i \in 1 .. Len(s) : t[i] = s[i]
  BY <1>2, AppendProperties
<1>4. \A i \in DOMAIN t : i = Len(s) + 1 \/ i \in DOMAIN s
  BY <1>1, <1>3
<1>5. Once(t)
  BY <1>1, <1>3, <1>4 DEF Once, Elements
<1>6. Elements(t) = Elements(s) \cup {e}
  BY <1>1, <1>3, <1>4 DEF Elements
<1> QED BY <1>2, <1>3, <1>5, <1>6

(* An entry at the head.                                                   *)
LEMMA PrependOnce ==
  ASSUME NEW S, NEW s \in Seq(S), Once(s), NEW e \in S, e \notin Elements(s)
  PROVE  /\ <<e>> \o s \in Seq(S) /\ Once(<<e>> \o s)
         /\ Elements(<<e>> \o s) = Elements(s) \cup {e}
<1>1. DOMAIN s = 1 .. Len(s) /\ Len(s) \in Nat
  BY LenProperties
<1>2. PICK t : t = <<e>> \o s
  OBVIOUS
<1>3. /\ t \in Seq(S) /\ Len(t) = Len(s) + 1
      /\ \A i \in 1 .. Len(s) + 1 : t[i] = IF i <= 1 THEN e ELSE s[i - 1]
  <2>1. <<e>> \in Seq(S) /\ Len(<<e>>) = 1 /\ <<e>>[1] = e
    OBVIOUS
  <2>2. /\ t \in Seq(S) /\ Len(t) = 1 + Len(s)
        /\ \A i \in 1 .. 1 + Len(s) : t[i] = IF i <= 1 THEN <<e>>[i] ELSE s[i - 1]
    BY <1>2, <2>1, ConcatProperties
  <2> QED BY <1>1, <2>1, <2>2
<1>4. DOMAIN t = 1 .. Len(s) + 1
  BY <1>3, LenProperties
<1>5. /\ t[1] = e /\ \A i \in DOMAIN t : i = 1 \/ (i - 1 \in DOMAIN s /\ t[i] = s[i - 1])
      /\ \A j \in DOMAIN s : j + 1 \in DOMAIN t /\ t[j + 1] = s[j]
  BY <1>1, <1>3, <1>4
<1>6. Once(t)
  <2> SUFFICES ASSUME NEW i \in DOMAIN t, NEW j \in DOMAIN t, t[i] = t[j] PROVE i = j
    BY DEF Once
  <2>1. CASE i = 1 \/ j = 1
    BY <1>5, <2>1 DEF Elements
  <2>2. CASE i # 1 /\ j # 1
    <3>1. i - 1 = j - 1
      BY <1>5, <2>2 DEF Once
    <3> QED BY <1>4, <3>1
  <2> QED BY <2>1, <2>2
<1>7. Elements(t) = Elements(s) \cup {e}
  <2>1. Elements(t) \subseteq Elements(s) \cup {e}
    BY <1>5 DEF Elements
  <2>2. Elements(s) \subseteq Elements(t)
    BY <1>5 DEF Elements
  <2>3. e \in Elements(t)
    BY <1>1, <1>4, <1>5 DEF Elements
  <2> QED BY <2>1, <2>2, <2>3
<1> QED BY <1>2, <1>3, <1>6, <1>7

-----------------------------------------------------------------------------
(* A set of numbers has a least one.                                       *)
LEMMA Minimal ==
  ASSUME NEW R, NEW T \in SUBSET Nat, IsWellFoundedOn(R, Nat), T # {}
  PROVE  \E x \in T : \A y \in T : ~ (<<y, x>> \in R)
BY WFMin, Zenon

(* Its elements are numbers.                                               *)
LEMMA LeastNumber ==
  ASSUME NEW S \in SUBSET Nat, S # {}
  PROVE  \E m \in S : \A k \in S : m <= k
<1>1. PICK R : IsWellFoundedOn(R, Nat) /\ \A x, y \in Nat : x < y => <<x, y>> \in R
  <2>1. IsWellFoundedOn(OpToRel(<, Nat), Nat)
    BY NatLessThanWellFounded
  <2>2. \A x, y \in Nat : x < y => <<x, y>> \in OpToRel(<, Nat)
    BY DEF OpToRel
  <2> QED BY <2>1, <2>2
<1>2. PICK m \in S : \A y \in S : ~ (<<y, m>> \in R)
  BY <1>1, Minimal, Zenon
<1>3. ASSUME NEW k \in S PROVE m <= k
  <2>1. ~ (<<k, m>> \in R) /\ k \in Nat /\ m \in Nat
    BY <1>2
  <2>2. ~ (k < m)
    BY <1>1, <2>1
  <2> QED BY <2>1, <2>2
<1> QED BY <1>3

(* Numbers have a quotient and a remainder.                                *)
LEMMA QuotientRest ==
  ASSUME NEW n \in Int, NEW m \in Nat \ {0}
  PROVE  \E q \in Int, r \in 0 .. m - 1 : n = m * q + r
<1>1. \E q \in Int, r \in 0 .. m - 1 : n = m * q + r /\ n % m = r /\ n \div m = q
  OBVIOUS
<1> QED BY <1>1

(* A remainder is determined by the quotient.                              *)
LEMMA RestIs ==
  ASSUME NEW n \in Int, NEW m \in Nat \ {0}, NEW q \in Int, NEW r \in 0 .. m - 1, n = m * q + r
  PROVE  n % m = r
<1>1. PICK a \in Int, s \in 0 .. m - 1 : n = m * a + s /\ n % m = s
  <2>1. \E a \in Int, s \in 0 .. m - 1 : n = m * a + s /\ n % m = s /\ n \div m = a
    OBVIOUS
  <2> QED BY <2>1
<1>2. ASSUME NEW d \in Nat \ {0} PROVE m * d >= m
  OBVIOUS
<1>3. CASE q = a
  BY <1>1, <1>3
<1>4. CASE q < a
  <2>1. PICK d \in Nat \ {0} : d = a - q
    BY <1>4
  <2>2. m * a = m * q + m * d
    <3>1. a = q + d
      BY <2>1
    <3> QED BY <3>1
  <2>3. m * d >= m
    BY <1>2
  <2> QED BY <1>1, <2>2, <2>3
<1>5. CASE a < q
  <2>1. PICK d \in Nat \ {0} : d = q - a
    BY <1>5
  <2>2. m * q = m * a + m * d
    <3>1. q = a + d
      BY <2>1
    <3> QED BY <3>1
  <2>3. m * d >= m
    BY <1>2
  <2> QED BY <1>1, <2>2, <2>3
<1> QED BY <1>3, <1>4, <1>5

(* Tuples joined.                                                          *)
LEMMA JoinTuples ==
  ASSUME NEW S, NEW a \in S, NEW b \in S, NEW c \in S
  PROVE  <<a>> \o <<b>> = <<a, b>> /\ <<a, b>> \o <<c>> = <<a, b, c>>
<1>1. <<a>> \o <<b>> = <<a, b>>
  <2>1. <<a>> \in Seq(S) /\ <<b>> \in Seq(S) /\ <<a, b>> \in Seq(S)
    OBVIOUS
  <2>2. PICK x \in Seq(S), y \in Seq(S), z \in Seq(S) : x = <<a>> /\ y = <<b>> /\ z = <<a, b>>
    BY <2>1
  <2>3. Len(x) = 1 /\ Len(y) = 1 /\ Len(z) = 2 /\ x[1] = a /\ y[1] = b /\ z[1] = a /\ z[2] = b
    BY <2>2
  <2>4. x \o y \in Seq(S) /\ Len(x \o y) = 2 /\ (x \o y)[1] = a /\ (x \o y)[2] = b
    BY <2>3, ConcatProperties
  <2>5. x \o y = z
    BY <2>3, <2>4, SeqEqual
  <2> QED BY <2>2, <2>5, Zenon
<1>2. <<a, b>> \o <<c>> = <<a, b, c>>
  <2>1. <<a, b>> \in Seq(S) /\ <<c>> \in Seq(S) /\ <<a, b, c>> \in Seq(S)
    OBVIOUS
  <2>2. PICK x \in Seq(S), y \in Seq(S), z \in Seq(S) : x = <<a, b>> /\ y = <<c>> /\ z = <<a, b, c>>
    BY <2>1
  <2>3. Len(x) = 2 /\ Len(y) = 1 /\ Len(z) = 3 /\ x[1] = a /\ x[2] = b /\ y[1] = c
    BY <2>2
  <2>4. z[1] = a /\ z[2] = b /\ z[3] = c
    BY <2>2
  <2>5. PICK w \in Seq(S) : w = x \o y
    BY ConcatProperties
  <2>6. /\ Len(w) = Len(x) + Len(y)
        /\ \A i \in 1 .. Len(x) + Len(y) : w[i] = IF i <= Len(x) THEN x[i] ELSE y[i - Len(x)]
    BY <2>5, ConcatProperties
  <2>7. Len(w) = 3 /\ w[1] = x[1] /\ w[2] = x[2] /\ w[3] = y[1]
    BY <2>3, <2>6
  <2>8. ASSUME NEW i \in 1 .. 3 PROVE w[i] = z[i]
    <3>1. i = 1 \/ i = 2 \/ i = 3
      OBVIOUS
    <3> QED BY <2>3, <2>4, <2>7, <3>1
  <2>9. w = z
    BY <2>3, <2>7, <2>8, SeqEqual
  <2> QED BY <2>2, <2>5, <2>9, Zenon
<1> QED BY <1>1, <1>2

=============================================================================
