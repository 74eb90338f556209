------------------------------- MODULE Lemmas --------------------------------
(***************************************************************************)
(* What adding and removing an entry does to a list without repetitions,   *)
(* counting, induction over the natural numbers with a set for a           *)
(* predicate, and functions defined by recursion.                          *)
(***************************************************************************)
EXTENDS Lists, SequenceTheorems, FiniteSetTheorems, WellFoundedInduction, TLAPS

(* A set of natural numbers that has an element has a least one.           *)
LEMMA LeastElement ==
  ASSUME NEW I, I \subseteq Nat, I # {}
  PROVE  \E m \in I : \A i \in I : m <= i
<1>1. PICK m \in I : \A i \in I : ~(<<i, m>> \in OpToRel(<, Nat))
  BY NatLessThanWellFounded, WFMin
<1>2. \A i \in I : ~(i < m)
  BY <1>1 DEF OpToRel
<1>3. m \in Nat /\ \A i \in I : i \in Nat
  OBVIOUS
<1>4. \A i \in I : m <= i
  BY <1>2, <1>3
<1> QED BY <1>4

(* The search for an entry that occurs finds it.                           *)
LEMMA FirstIndexFinds ==
  ASSUME NEW S, NEW list \in Seq(S), NEW x, Occurs(x, list)
  PROVE  FirstIndex(x, list) \in 1 .. Len(list) /\ list[FirstIndex(x, list)] = x
<1> DEFINE I == {k \in 1 .. Len(list) : list[k] = x}
<1>1. DOMAIN list = 1 .. Len(list) /\ Len(list) \in Nat
  OBVIOUS
<1>2. I \subseteq Nat /\ I # {}
  BY <1>1 DEF Occurs
<1>3. PICK m \in I : \A i \in I : m <= i
  BY <1>2, LeastElement
<1>4. \A j \in 1 .. m - 1 : list[j] # x
  BY <1>1, <1>3
<1>5. \E k \in DOMAIN list : list[k] = x /\ \A j \in 1 .. k - 1 : list[j] # x
  BY <1>1, <1>3, <1>4
<1> QED BY <1>1, <1>5 DEF FirstIndex

(* Cutting one entry out of a list without repetitions leaves the others,  *)
(* each once.                                                              *)
LEMMA CutOut ==
  ASSUME NEW S, NEW s \in Seq(S), NoRepeats(s), NEW k \in 1 .. Len(s)
  PROVE  /\ RemoveAt(s, k) \in Seq(S)
         /\ Len(RemoveAt(s, k)) = Len(s) - 1
         /\ NoRepeats(RemoveAt(s, k))
         /\ \A y : Occurs(y, RemoveAt(s, k)) <=> Occurs(y, s) /\ y # s[k]
<1> DEFINE a == SubSeq(s, 1, k - 1)
           b == SubSeq(s, k + 1, Len(s))
           n == Len(s)
           r == RemoveAt(s, k)
<1>1. /\ n \in Nat /\ k \in Nat /\ 1 <= k /\ k <= n /\ DOMAIN s = 1 .. n
      /\ a \in Seq(S) /\ Len(a) = k - 1 /\ \A i \in 1 .. k - 1 : a[i] = s[i]
      /\ b \in Seq(S) /\ Len(b) = n - k /\ \A i \in 1 .. n - k : b[i] = s[k + i]
  OBVIOUS
<1>2. /\ r = a \o b /\ r \in Seq(S) /\ Len(r) = n - 1 /\ DOMAIN r = 1 .. n - 1
      /\ \A i \in 1 .. k - 1 : r[i] = a[i]
      /\ \A i \in k .. n - 1 : r[i] = b[i - (k - 1)]
  <2>1. r = a \o b
    BY DEF RemoveAt
  <2> HIDE DEF a, b, n, r
  <2>2. /\ a \o b \in Seq(S) /\ Len(a \o b) = Len(a) + Len(b)
        /\ \A i \in 1 .. Len(a) + Len(b) :
              (a \o b)[i] = IF i <= Len(a) THEN a[i] ELSE b[i - Len(a)]
    BY <1>1, ConcatProperties
  <2>3. Len(a) + Len(b) = n - 1
    BY <1>1
  <2>4. /\ \A i \in 1 .. k - 1 : i \in 1 .. n - 1 /\ i <= Len(a)
        /\ \A i \in k .. n - 1 : i \in 1 .. n - 1 /\ ~(i <= Len(a))
    BY <1>1
  <2>5. r \in Seq(S) /\ Len(r) = n - 1 /\ DOMAIN r = 1 .. n - 1
    BY <1>1, <2>1, <2>2, <2>3
  <2>6. /\ \A i \in 1 .. k - 1 : r[i] = a[i]
        /\ \A i \in k .. n - 1 : r[i] = b[i - Len(a)]
    BY <2>1, <2>2, <2>3, <2>4
  <2> QED BY <1>1, <2>1, <2>5, <2>6
<1> HIDE DEF a, b, n, r
<1>3. /\ \A i \in 1 .. k - 1 : r[i] = s[i]
      /\ \A i \in k .. n - 1 : r[i] = s[i + 1]
  <2>1. \A i \in k .. n - 1 : i - (k - 1) \in 1 .. n - k /\ k + (i - (k - 1)) = i + 1
    BY <1>1
  <2> QED BY <1>1, <1>2, <2>1
<1>4. ASSUME NEW i \in 1 .. n - 1
      PROVE  \E i1 \in 1 .. n : /\ r[i] = s[i1]
                                /\ i1 = IF i < k THEN i ELSE i + 1
                                /\ i1 # k
  <2>1. CASE i < k
    <3>1. i \in 1 .. k - 1 /\ i \in 1 .. n /\ i # k
      BY <1>1, <2>1
    <3> QED BY <1>3, <2>1, <3>1
  <2>2. CASE ~(i < k)
    <3>1. i \in k .. n - 1 /\ i + 1 \in 1 .. n /\ i + 1 # k
      BY <1>1, <2>2
    <3> QED BY <1>3, <2>2, <3>1
  <2> QED BY <2>1, <2>2
<1>5. NoRepeats(r)
  <2> SUFFICES ASSUME NEW i \in 1 .. n - 1, NEW j \in 1 .. n - 1, r[i] = r[j]
               PROVE  i = j
    BY <1>2 DEF NoRepeats
  <2>1. PICK i1 \in 1 .. n : r[i] = s[i1] /\ i1 = IF i < k THEN i ELSE i + 1
    BY <1>4
  <2>2. PICK j1 \in 1 .. n : r[j] = s[j1] /\ j1 = IF j < k THEN j ELSE j + 1
    BY <1>4
  <2>3. i1 = j1
    BY <1>1, <2>1, <2>2 DEF NoRepeats
  <2> QED BY <1>1, <2>1, <2>2, <2>3
<1>6. ASSUME NEW y PROVE Occurs(y, r) <=> Occurs(y, s) /\ y # s[k]
  <2>1. ASSUME NEW i \in 1 .. n - 1, r[i] = y PROVE Occurs(y, s) /\ y # s[k]
    <3>1. PICK i1 \in 1 .. n : r[i] = s[i1] /\ i1 # k
      BY <1>4
    <3>2. s[i1] # s[k]
      BY <1>1, <3>1 DEF NoRepeats
    <3> QED BY <1>1, <2>1, <3>1, <3>2 DEF Occurs
  <2>2. ASSUME y # s[k], NEW j \in 1 .. n, s[j] = y PROVE Occurs(y, r)
    <3>1. CASE j < k
      <4>1. j \in 1 .. k - 1 /\ j \in 1 .. n - 1
        BY <1>1, <3>1
      <4> QED BY <1>2, <1>3, <2>2, <4>1 DEF Occurs
    <3>2. CASE j > k
      <4>1. j - 1 \in 1 .. n - 1 /\ r[j - 1] = s[j]
        <5>1. j - 1 \in k .. n - 1 /\ (j - 1) + 1 = j
          BY <1>1, <3>2
        <5> QED BY <1>1, <1>3, <5>1
      <4> QED BY <1>2, <2>2, <4>1 DEF Occurs
    <3> QED BY <1>1, <2>2, <3>1, <3>2
  <2> QED BY <1>1, <1>2, <2>1, <2>2 DEF Occurs
<1> QED BY <1>2, <1>5, <1>6 DEF n, r

(* A list from which an entry has been removed has the others, each once.  *)
LEMMA RemovedFacts ==
  ASSUME NEW S, NEW list \in Seq(S), NoRepeats(list), NEW x
  PROVE  /\ Removed(x, list) \in Seq(S)
         /\ NoRepeats(Removed(x, list))
         /\ \A y : Occurs(y, Removed(x, list)) <=> Occurs(y, list) /\ y # x
<1>1. CASE Occurs(x, list)
  <2>1. FirstIndex(x, list) \in 1 .. Len(list) /\ list[FirstIndex(x, list)] = x
    BY <1>1, FirstIndexFinds
  <2> QED BY <1>1, <2>1, CutOut DEF Removed
<1>2. CASE ~Occurs(x, list)
  BY <1>2 DEF Removed, Occurs
<1> QED BY <1>1, <1>2

(* Removing an entry leaves a list over the same set, repetitions or not.  *)
LEMMA RemovedType ==
  ASSUME NEW S, NEW list \in Seq(S), NEW x
  PROVE  Removed(x, list) \in Seq(S)
<1>1. CASE Occurs(x, list)
  <2>1. FirstIndex(x, list) \in 1 .. Len(list)
    BY <1>1, FirstIndexFinds
  <2>2. /\ SubSeq(list, 1, FirstIndex(x, list) - 1) \in Seq(S)
        /\ SubSeq(list, FirstIndex(x, list) + 1, Len(list)) \in Seq(S)
    BY <2>1
  <2> QED BY <1>1, <2>2, ConcatProperties DEF Removed, RemoveAt
<1>2. CASE ~Occurs(x, list)
  BY <1>2 DEF Removed
<1> QED BY <1>1, <1>2

(* A list to which a new entry is appended still has no repetitions.       *)
LEMMA AppendFacts ==
  ASSUME NEW S, NEW list \in Seq(S), NoRepeats(list), NEW x \in S, ~Occurs(x, list)
  PROVE  /\ Append(list, x) \in Seq(S)
         /\ NoRepeats(Append(list, x))
         /\ \A y : Occurs(y, Append(list, x)) <=> Occurs(y, list) \/ y = x
<1> DEFINE n == Len(list)
           r == Append(list, x)
<1>1. /\ n \in Nat /\ DOMAIN list = 1 .. n /\ r \in Seq(S) /\ DOMAIN r = 1 .. n + 1
      /\ r[n + 1] = x /\ \A i \in 1 .. n : r[i] = list[i]
  OBVIOUS
<1> HIDE DEF n, r
<1>2. NoRepeats(r)
  BY <1>1 DEF NoRepeats, Occurs
<1>3. ASSUME NEW y PROVE Occurs(y, r) <=> Occurs(y, list) \/ y = x
  <2>1. n + 1 \in 1 .. n + 1 /\ 1 .. n \subseteq 1 .. n + 1
    BY <1>1
  <2>2. \A i \in 1 .. n + 1 : i \in 1 .. n \/ i = n + 1
    BY <1>1
  <2> QED BY <1>1, <2>1, <2>2 DEF Occurs
<1> QED BY <1>1, <1>2, <1>3 DEF r

(* A set whose elements can be numbered, each once, has as many as there   *)
(* are numbers.                                                            *)
LEMMA CountNumbered ==
  ASSUME NEW L \in Nat, NEW T, NEW f,
         \A m \in 1 .. L : f[m] \in T,
         \A m, n \in 1 .. L : f[m] = f[n] => m = n,
         \A x \in T : \E m \in 1 .. L : f[m] = x
  PROVE  IsFiniteSet(T) /\ Cardinality(T) = L
<1> DEFINE I == 1 .. L
           g == [m \in I |-> f[m]]
<1>1. g \in Bijection(I, T)
  BY DEF Bijection, Injection, Surjection, IsInjective
<1>2. ExistsBijection(I, T)
  <2> HIDE DEF I, g
  <2> QED BY <1>1 DEF ExistsBijection
<1>3. IsFiniteSet(I)
  BY FS_Interval
<1>4. IsFiniteSet(T)
  <2> HIDE DEF I
  <2> QED BY <1>2, <1>3, FS_Bijection
<1> QED BY <1>2, <1>4, FS_CountingElements

(* Induction: a set with 0 that has n + 1 when it has n has every natural  *)
(* number.                                                                 *)
LEMMA SetInduction ==
  ASSUME NEW P, 0 \in P, \A n \in Nat : n \in P => n + 1 \in P
  PROVE  Nat \subseteq P
<1> DEFINE I == {n \in Nat : n \notin P}
<1> SUFFICES ASSUME I # {} PROVE FALSE
  OBVIOUS
<1>1. PICK m \in I : \A i \in I : ~(<<i, m>> \in OpToRel(<, Nat))
  BY NatLessThanWellFounded, WFMin
<1>2. m \in Nat /\ m # 0 /\ m \notin P
  BY <1>1
<1>3. m - 1 \in Nat /\ (m - 1) + 1 = m
  BY <1>2
<1>4. m - 1 \in I
  BY <1>2, <1>3
<1>5. m - 1 < m
  BY <1>2
<1> QED BY <1>1, <1>2, <1>3, <1>4, <1>5 DEF OpToRel

(* A function defined by recursion on 0 .. N exists: g says what the next  *)
(* value is, for a number and the value before.                            *)
StaysIn(g, S) == \A n \in Nat \ {0}, s \in S : g[<<n, s>>] \in S

IsRecursion(f, b, g, N, S) ==
    /\ f \in [0 .. N -> S]
    /\ f[0] = b
    /\ \A n \in 1 .. N : f[n] = g[<<n, f[n - 1]>>]

LEMMA RecursionExists ==
  ASSUME NEW S, NEW b \in S, NEW g, StaysIn(g, S), NEW N \in Nat
  PROVE  \E f : IsRecursion(f, b, g, N, S)
<1> DEFINE P == {m \in Nat : \E f : IsRecursion(f, b, g, m, S)}
<1>1. 0 \in P
  <2>1. IsRecursion([n \in 0 .. 0 |-> b], b, g, 0, S)
    BY DEF IsRecursion
  <2> QED BY <2>1
<1>2. ASSUME NEW m \in Nat, m \in P PROVE m + 1 \in P
  <2>1. PICK f : IsRecursion(f, b, g, m, S)
    BY <1>2
  <2> DEFINE f2 == [n \in 0 .. m + 1 |-> IF n = m + 1 THEN g[<<m + 1, f[m]>>] ELSE f[n]]
  <2>2. f[m] \in S /\ g[<<m + 1, f[m]>>] \in S
    BY <2>1 DEF IsRecursion, StaysIn
  <2>3. f2 \in [0 .. m + 1 -> S]
    <3>1. ASSUME NEW n \in 0 .. m + 1 PROVE n = m + 1 \/ n \in 0 .. m
      OBVIOUS
    <3> QED BY <2>1, <2>2, <3>1 DEF IsRecursion
  <2>4. f2[0] = b
    BY <2>1 DEF IsRecursion
  <2>5. ASSUME NEW n \in 1 .. m + 1 PROVE f2[n] = g[<<n, f2[n - 1]>>]
    <3>1. n - 1 \in 0 .. m /\ n - 1 # m + 1 /\ n \in 0 .. m + 1 /\ n - 1 \in 0 .. m + 1
      OBVIOUS
    <3>2. f2[n - 1] = f[n - 1]
      BY <3>1
    <3>3. CASE n = m + 1
      <4>1. n - 1 = m
        BY <3>3
      <4> QED BY <3>1, <3>2, <3>3, <4>1
    <3>4. CASE n # m + 1
      <4>1. n \in 1 .. m
        BY <3>4
      <4>2. f[n] = g[<<n, f[n - 1]>>]
        BY <2>1, <4>1 DEF IsRecursion
      <4> QED BY <3>1, <3>2, <3>4, <4>2
    <3> QED BY <3>3, <3>4
  <2>6. IsRecursion(f2, b, g, m + 1, S)
    <3> HIDE DEF f2
    <3> QED BY <2>3, <2>4, <2>5 DEF IsRecursion
  <2> QED BY <2>6
<1>3. N \in P
  <2> HIDE DEF P
  <2> QED BY <1>1, <1>2, SetInduction
<1> QED BY <1>3

(* Division by a positive number, and what is left.                        *)
LEMMA DivMod ==
  ASSUME NEW a \in Nat, NEW b \in Nat \ {0}
  PROVE  a \div b \in Nat /\ a % b \in Nat /\ a % b < b /\ a = b * (a \div b) + (a % b)
OBVIOUS

(* Quotient and remainder are the only such pair.                          *)
LEMMA DivUnique ==
  ASSUME NEW b \in Nat \ {0}, NEW q \in Nat, NEW r \in Nat, r < b,
         NEW p \in Nat, NEW s \in Nat, s < b,
         b * q + r = b * p + s
  PROVE  q = p
<1>1. ASSUME NEW x \in Nat, NEW y \in Nat, x < y PROVE b * x + b <= b * y
  <2>1. x + 1 <= y
    BY <1>1
  <2>2. b * (x + 1) <= b * y
    BY <2>1
  <2>3. b * (x + 1) = b * x + b
    OBVIOUS
  <2> QED BY <2>2, <2>3
<1>2. b * q \in Nat /\ b * p \in Nat
  OBVIOUS
<1>3. ~(q < p)
  <2> SUFFICES ASSUME q < p PROVE FALSE
    OBVIOUS
  <2> QED BY <1>1, <1>2
<1>4. ~(p < q)
  <2> SUFFICES ASSUME p < q PROVE FALSE
    OBVIOUS
  <2> QED BY <1>1, <1>2
<1> QED BY <1>3, <1>4

(* Dividing twice divides by the product.                                  *)
LEMMA DivDiv ==
  ASSUME NEW a \in Nat, NEW b \in Nat \ {0}, NEW c \in Nat \ {0}
  PROVE  (a \div b) \div c = a \div (b * c)
<1> DEFINE q == a \div b
           p == q \div c
<1>1. q \in Nat /\ a % b \in Nat /\ a % b < b /\ a = b * q + (a % b)
  BY DivMod
<1>2. p \in Nat /\ q % c \in Nat /\ q % c < c /\ q = c * p + (q % c)
  BY <1>1, DivMod
<1> DEFINE r == a % b
           s == q % c
<1> HIDE DEF q, p, r, s
<1>3. r \in Nat /\ r < b /\ a = b * q + r /\ s \in Nat /\ s < c /\ q = c * p + s
  BY <1>1, <1>2 DEF r, s
<1>4. b * c \in Nat \ {0}
  OBVIOUS
<1>5. a = (b * c) * p + (b * s + r)
  <2>1. b * (c * p + s) = (b * c) * p + b * s
    BY <1>1, <1>2, <1>3
  <2> QED BY <1>1, <1>2, <1>3, <2>1
<1>6. b * s + r < b * c /\ b * s + r \in Nat
  <2>1. b * (s + 1) <= b * c
    BY <1>3, s + 1 <= c
  <2>2. b * (s + 1) = b * s + b
    BY <1>3
  <2>3. b * s \in Nat /\ b * c \in Nat
    BY <1>3
  <2>4. b * s + b <= b * c
    BY <2>1, <2>2
  <2>5. \A x, y, z \in Nat : x + z <= y /\ r < z => x + r < y
    BY <1>3
  <2>6. b * s + r < b * c
    BY <1>3, <2>3, <2>4, <2>5
  <2>7. \A x \in Nat : x + r \in Nat
    BY <1>3
  <2> QED BY <2>3, <2>6, <2>7
<1>7. /\ a \div (b * c) \in Nat /\ a % (b * c) \in Nat /\ a % (b * c) < b * c
      /\ a = (b * c) * (a \div (b * c)) + (a % (b * c))
  BY <1>4, DivMod
<1>8. p = a \div (b * c)
  BY <1>2, <1>4, <1>5, <1>6, <1>7, DivUnique
<1> QED BY <1>8 DEF p, q

(* A number below F^4 is given by its four digits to the base F.           *)
LEMMA DigitsEqual ==
  ASSUME NEW F \in Nat \ {0}, NEW v \in Nat, NEW w \in Nat, v < F * F * F * F, w < F * F * F * F,
         v % F = w % F, (v \div F) % F = (w \div F) % F,
         (v \div (F * F)) % F = (w \div (F * F)) % F,
         (v \div (F * F * F)) % F = (w \div (F * F * F)) % F
  PROVE  v = w
<1>1. F * F \in Nat \ {0} /\ F * F * F \in Nat \ {0}
  <2>1. F * F \in Nat \ {0}
    OBVIOUS
  <2> QED BY <2>1
<1>2. ASSUME NEW a \in Nat, a < F * F * F * F
      PROVE  /\ a \div (F * F) = (a \div F) \div F
             /\ a \div (F * F * F) = (a \div (F * F)) \div F
             /\ (a \div (F * F * F)) \div F = 0
  <2>1. a \div (F * F) = (a \div F) \div F
    BY DivDiv
  <2>2. a \div (F * F * F) = (a \div (F * F)) \div F
    BY <1>1, DivDiv
  <2>3. (a \div (F * F * F)) \div F = a \div (F * F * F * F)
    BY <1>1, DivDiv
  <2>4. a \div (F * F * F * F) = 0
    <3> DEFINE G == F * F * F * F
    <3>1. G \in Nat \ {0} /\ a < G
      BY <1>1, <1>2
    <3> HIDE DEF G
    <3>2. G * (a \div G) + (a % G) = G * 0 + a /\ a \div G \in Nat /\ a % G \in Nat /\ a % G < G
      BY <3>1, DivMod
    <3>3. a \div G = 0
      BY <3>1, <3>2, DivUnique
    <3> QED BY <3>3 DEF G
  <2> QED BY <2>1, <2>2, <2>3, <2>4
<1>3. ASSUME NEW a \in Nat, NEW b \in Nat, a \div F = b \div F, a % F = b % F
      PROVE  a = b
  <2>1. a = F * (a \div F) + (a % F) /\ b = F * (b \div F) + (b % F)
    BY DivMod
  <2> QED BY <1>3, <2>1
<1>4. /\ v \div F \in Nat /\ v \div (F * F) \in Nat /\ v \div (F * F * F) \in Nat
      /\ w \div F \in Nat /\ w \div (F * F) \in Nat /\ w \div (F * F * F) \in Nat
  BY <1>1, DivMod
<1>5. v \div (F * F * F) = w \div (F * F * F)
  BY <1>2, <1>3, <1>4
<1>6. v \div (F * F) = w \div (F * F)
  BY <1>2, <1>3, <1>4, <1>5
<1>7. v \div F = w \div F
  BY <1>2, <1>3, <1>4, <1>6
<1> QED BY <1>3, <1>7
=============================================================================
