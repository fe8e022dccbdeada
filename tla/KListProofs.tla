----------------------------- MODULE KListProofs -----------------------------
(***************************************************************************)
(* What the list operations of KList return, for lists of any length.      *)
(***************************************************************************)
EXTENDS KList, SequenceTheorems, WellFoundedInduction, TLAPS

\* A non-empty set of natural numbers has a least element, so the scans of the
\* kernel's lists and of its bitmap find one.
LEMMA NatMin ==
  ASSUME NEW T, T \subseteq Nat, T # {}
  PROVE  Min(T) \in T /\ \A y \in T : Min(T) <= y
<1> DEFINE R == OpToRel(<, Nat)
<1>1. IsWellFoundedOn(R, Nat)
  BY NatLessThanWellFounded
<1>2. \A x, y \in Nat : <<y, x>> \in R <=> y < x
  BY DEF OpToRel
<1> HIDE DEF R
<1>3. PICK x \in T : \A y \in T : ~(<<y, x>> \in R)
  BY <1>1, WFMin
<1>4. ASSUME NEW y \in T PROVE x <= y
  <2>1. x \in Nat /\ y \in Nat
    OBVIOUS
  <2>2. ~(y < x)
    BY <1>2, <1>3, <2>1
  <2> QED
    BY <2>1, <2>2
<1>5. \E z \in T : \A y \in T : z <= y
  BY <1>4
<1> QED
  BY <1>5 DEF Min

\* A sorted insertion stops at an element or at the head node.
LEMMA ScanStopRange ==
  ASSUME NEW S, NEW s \in Seq(S), NEW I, I \subseteq DOMAIN s
  PROVE  ScanStop(s, I) \in 1 .. Len(s) + 1
<1>1. CASE I = {}
  BY <1>1 DEF ScanStop
<1>2. CASE I # {}
  <2>1. I \subseteq 1 .. Len(s)
    OBVIOUS
  <2>2. Min(I) \in I
    BY <1>2, <2>1, NatMin
  <2> QED
    BY <1>2, <2>1, <2>2 DEF ScanStop
<1> QED
  BY <1>1, <1>2

\* The elements of a list, by position.
LEMMA ToSetByIndex ==
  ASSUME NEW S, NEW s \in Seq(S)
  PROVE  /\ \A k \in 1 .. Len(s) : s[k] \in ToSet(s)
         /\ \A x \in ToSet(s) : x \in S /\ \E k \in 1 .. Len(s) : s[k] = x
  BY DEF ToSet

\* A list with no elements is empty.
LEMMA NoElements ==
  ASSUME NEW S, NEW s \in Seq(S) PROVE s = << >> <=> ToSet(s) = {}
<1>1. CASE s = << >>
  BY <1>1 DEF ToSet
<1>2. CASE s # << >>
  <2>1. 1 \in 1 .. Len(s)
    BY <1>2
  <2>2. s[1] \in ToSet(s)
    BY <2>1, ToSetByIndex
  <2> QED
    BY <1>2, <2>2
<1> QED
  BY <1>1, <1>2

\* Where klist_insert leaves the elements.
LEMMA InsertValues ==
  ASSUME NEW S, NEW s \in Seq(S), NEW e \in S, NEW i \in 1 .. Len(s) + 1
  PROVE  /\ klist_insert(s, i, e) \in Seq(S)
         /\ Len(klist_insert(s, i, e)) = Len(s) + 1
         /\ klist_insert(s, i, e)[i] = e
         /\ \A k \in 1 .. Len(s) + 1 : k < i => klist_insert(s, i, e)[k] = s[k]
         /\ \A k \in 1 .. Len(s) + 1 : k > i => klist_insert(s, i, e)[k] = s[k - 1]
<1> DEFINE a  == SubSeq(s, 1, i - 1)
           b  == SubSeq(s, i, Len(s))
           ae == a \o <<e>>
           r  == ae \o b
<1>1. a \in Seq(S) /\ Len(a) = i - 1 /\ \A k \in 1 .. i - 1 : a[k] = s[k]
  BY SubSeqProperties
<1>2. b \in Seq(S) /\ Len(b) = Len(s) - i + 1 /\ \A k \in 1 .. Len(b) : b[k] = s[k + i - 1]
  BY SubSeqProperties
<1>3. klist_insert(s, i, e) = r
  BY DEF klist_insert, InsertAt
<1> HIDE DEF a, b
<1>4. ae \in Seq(S) /\ Len(ae) = i /\ ae[i] = e /\ \A k \in 1 .. i - 1 : ae[k] = s[k]
  BY <1>1
<1> HIDE DEF ae
<1>5. /\ r \in Seq(S) /\ Len(r) = Len(s) + 1
      /\ \A k \in 1 .. Len(r) : r[k] = IF k <= i THEN ae[k] ELSE b[k - i]
  BY <1>2, <1>4, ConcatProperties
<1> HIDE DEF r
<1>6. r[i] = e /\ \A k \in 1 .. Len(s) + 1 : k < i => r[k] = s[k]
  BY <1>4, <1>5
<1>7. ASSUME NEW k \in 1 .. Len(s) + 1, k > i PROVE r[k] = s[k - 1]
  <2>1. r[k] = b[k - i] /\ k - i \in 1 .. Len(b) /\ (k - i) + i - 1 = k - 1
    BY <1>2, <1>5, <1>7
  <2>2. b[k - i] = s[(k - i) + i - 1]
    BY <1>2, <2>1
  <2> QED
    BY <2>1, <2>2
<1> QED
  BY <1>3, <1>5, <1>6, <1>7

\* klist_insert adds its element and nothing else, and adds it once.
LEMMA InsertProperties ==
  ASSUME NEW S, NEW s \in Seq(S), NEW e \in S, NEW i \in 1 .. Len(s) + 1
  PROVE  /\ klist_insert(s, i, e) \in Seq(S)
         /\ ToSet(klist_insert(s, i, e)) = ToSet(s) \cup {e}
         /\ IsInjective(s) /\ e \notin ToSet(s) => IsInjective(klist_insert(s, i, e))
<1> DEFINE r == klist_insert(s, i, e)
<1>5. /\ r \in Seq(S) /\ Len(r) = Len(s) + 1
      /\ r[i] = e
      /\ \A k \in 1 .. Len(s) + 1 : k < i => r[k] = s[k]
      /\ \A k \in 1 .. Len(s) + 1 : k > i => r[k] = s[k - 1]
  BY InsertValues
<1> HIDE DEF r
<1>6. r[i] = e
  BY <1>5
<1>7. ASSUME NEW k \in 1 .. Len(s), k < i PROVE k \in 1 .. Len(r) /\ r[k] = s[k]
  BY <1>5, <1>7
<1>8. ASSUME NEW k \in 1 .. Len(s), k >= i PROVE k + 1 \in 1 .. Len(r) /\ r[k + 1] = s[k]
  <2>1. k + 1 \in 1 .. Len(r) /\ ~(k + 1 <= i) /\ (k + 1) - 1 = k
    BY <1>5, <1>8
  <2> QED
    BY <1>5, <2>1
<1>9. ASSUME NEW k \in 1 .. Len(r), k # i
      PROVE  \E l \in 1 .. Len(s) : l = (IF k < i THEN k ELSE k - 1) /\ r[k] = s[l]
  BY <1>5, <1>9
<1>10. ToSet(r) = ToSet(s) \cup {e}
  <2>1. ASSUME NEW x \in ToSet(r) PROVE x = e \/ x \in ToSet(s)
    <3>1. PICK k \in 1 .. Len(r) : r[k] = x
      BY <1>5, ToSetByIndex
    <3> QED
      BY <1>6, <1>9, <3>1, ToSetByIndex
  <2>2. ASSUME NEW x \in ToSet(s) PROVE x \in ToSet(r)
    <3>1. PICK k \in 1 .. Len(s) : s[k] = x
      BY ToSetByIndex
    <3>2. \E l \in 1 .. Len(r) : r[l] = x
      BY <1>7, <1>8, <3>1
    <3> QED
      BY <1>5, <3>2, ToSetByIndex
  <2>3. e \in ToSet(r)
    BY <1>5, <1>6, ToSetByIndex
  <2> QED
    BY <2>1, <2>2, <2>3
<1>11. ASSUME IsInjective(s), e \notin ToSet(s)
       PROVE  IsInjective(r)
  <2>1. \A k \in 1 .. Len(s) : s[k] # e
    BY <1>11, ToSetByIndex
  <2>2. \A k, l \in 1 .. Len(s) : s[k] = s[l] => k = l
    BY <1>11 DEF IsInjective
  <2>3. ASSUME NEW k \in 1 .. Len(r), NEW l \in 1 .. Len(r), r[k] = r[l]
        PROVE  k = l
    <3>1. CASE k = i \/ l = i
      BY <1>6, <1>9, <2>1, <2>3, <3>1
    <3>2. CASE k # i /\ l # i
      <4>1. (IF k < i THEN k ELSE k - 1) = (IF l < i THEN l ELSE l - 1)
        BY <1>9, <2>2, <2>3, <3>2
      <4> QED
        BY <3>2, <4>1
    <3> QED
      BY <3>1, <3>2
  <2> QED
    BY <1>5, <2>3 DEF IsInjective
<1> QED
  BY <1>5, <1>10, <1>11 DEF r

\* Where klist_rm leaves the elements.
LEMMA RmValues ==
  ASSUME NEW S, NEW s \in Seq(S), NEW e \in ToSet(s)
  PROVE  \E j \in 1 .. Len(s) :
           /\ s[j] = e
           /\ klist_rm(s, e) \in Seq(S)
           /\ Len(klist_rm(s, e)) = Len(s) - 1
           /\ \A k \in 1 .. Len(s) - 1 : klist_rm(s, e)[k] = IF k < j THEN s[k] ELSE s[k + 1]
<1> DEFINE j == CHOOSE i \in DOMAIN s : s[i] = e
           a == SubSeq(s, 1, j - 1)
           b == SubSeq(s, j + 1, Len(s))
           r == a \o b
<1>1. j \in 1 .. Len(s) /\ s[j] = e
  <2>1. \E i \in DOMAIN s : s[i] = e
    BY DEF ToSet
  <2> QED
    BY <2>1
<1>2. klist_rm(s, e) = r
  BY DEF klist_rm, RemoveAt
<1> HIDE DEF j
<1>3. a \in Seq(S) /\ Len(a) = j - 1 /\ \A k \in 1 .. j - 1 : a[k] = s[k]
  BY <1>1, SubSeqProperties
<1>4. b \in Seq(S) /\ Len(b) = Len(s) - j /\ \A k \in 1 .. Len(b) : b[k] = s[(j + 1) + k - 1]
  BY <1>1, SubSeqProperties
<1> HIDE DEF a, b
<1>5. /\ r \in Seq(S) /\ Len(r) = Len(s) - 1
      /\ \A k \in 1 .. Len(r) : r[k] = IF k <= Len(a) THEN a[k] ELSE b[k - Len(a)]
  <2>1. /\ r \in Seq(S) /\ Len(r) = Len(a) + Len(b)
        /\ \A k \in 1 .. Len(a) + Len(b) : r[k] = IF k <= Len(a) THEN a[k] ELSE b[k - Len(a)]
    BY <1>3, <1>4, ConcatProperties
  <2> QED
    BY <1>1, <1>3, <1>4, <2>1
<1> HIDE DEF r
<1>6. ASSUME NEW k \in 1 .. Len(s) - 1
      PROVE  r[k] = IF k < j THEN s[k] ELSE s[k + 1]
  <2>1. CASE k < j
    BY <1>1, <1>3, <1>5, <2>1
  <2>2. CASE k >= j
    <3>1. ~(k <= Len(a)) /\ k - Len(a) \in 1 .. Len(b) /\ (j + 1) + (k - Len(a)) - 1 = k + 1
      BY <1>1, <1>3, <1>4, <2>2
    <3>2. r[k] = b[k - Len(a)]
      BY <1>5, <3>1
    <3>3. b[k - Len(a)] = s[(j + 1) + (k - Len(a)) - 1]
      BY <1>4, <3>1
    <3> QED
      BY <1>1, <2>2, <3>1, <3>2, <3>3
  <2> QED
    BY <1>1, <2>1, <2>2
<1> QED
  BY <1>1, <1>2, <1>5, <1>6

\* klist_rm takes its element out of a list that holds it once, and nothing else.
LEMMA RmProperties ==
  ASSUME NEW S, NEW s \in Seq(S), NEW e \in ToSet(s), IsInjective(s)
  PROVE  /\ klist_rm(s, e) \in Seq(S)
         /\ Len(klist_rm(s, e)) = Len(s) - 1
         /\ ToSet(klist_rm(s, e)) = ToSet(s) \ {e}
         /\ IsInjective(klist_rm(s, e))
<1> DEFINE r == klist_rm(s, e)
<1>1. PICK j \in 1 .. Len(s) :
        /\ s[j] = e /\ r \in Seq(S) /\ Len(r) = Len(s) - 1
        /\ \A k \in 1 .. Len(s) - 1 : r[k] = IF k < j THEN s[k] ELSE s[k + 1]
  BY RmValues
<1> HIDE DEF r
<1>5. r \in Seq(S) /\ Len(r) = Len(s) - 1
  BY <1>1
<1>6. ASSUME NEW k \in 1 .. Len(r), k < j PROVE k \in 1 .. Len(s) /\ r[k] = s[k]
  BY <1>1, <1>6
<1>7. ASSUME NEW k \in 1 .. Len(r), k >= j PROVE k + 1 \in 1 .. Len(s) /\ r[k] = s[k + 1]
  BY <1>1, <1>7
<1>8. \A k, l \in 1 .. Len(s) : s[k] = s[l] => k = l
  BY DEF IsInjective
<1>9. ToSet(r) = ToSet(s) \ {e}
  <2>1. ASSUME NEW x \in ToSet(r) PROVE x \in ToSet(s) /\ x # e
    <3>1. PICK k \in 1 .. Len(r) : r[k] = x
      BY <1>5, ToSetByIndex
    <3>2. CASE k < j
      BY <1>1, <1>6, <1>8, <3>1, <3>2, ToSetByIndex
    <3>3. CASE k >= j
      <4>1. k + 1 \in 1 .. Len(s) /\ x = s[k + 1] /\ k + 1 # j
        BY <1>1, <1>7, <3>1, <3>3
      <4> QED
        BY <1>1, <1>8, <4>1, ToSetByIndex
    <3> QED
      BY <1>1, <3>2, <3>3
  <2>2. ASSUME NEW x \in ToSet(s), x # e PROVE x \in ToSet(r)
    <3>1. PICK k \in 1 .. Len(s) : s[k] = x
      BY ToSetByIndex
    <3>2. CASE k < j
      <4>1. k \in 1 .. Len(r) /\ r[k] = x
        BY <1>1, <1>5, <1>6, <3>1, <3>2
      <4> QED
        BY <1>5, <4>1, ToSetByIndex
    <3>3. CASE k > j
      <4>1. k - 1 \in 1 .. Len(r) /\ k - 1 >= j /\ (k - 1) + 1 = k
        BY <1>1, <1>5, <3>3
      <4>2. r[k - 1] = x
        BY <1>7, <3>1, <4>1
      <4> QED
        BY <1>5, <4>1, <4>2, ToSetByIndex
    <3>4. k # j
      BY <1>1, <2>2, <3>1
    <3> QED
      BY <1>1, <3>2, <3>3, <3>4
  <2> QED
    BY <2>1, <2>2
<1>10. IsInjective(r)
  <2>1. ASSUME NEW k \in 1 .. Len(r), NEW l \in 1 .. Len(r), r[k] = r[l]
        PROVE  k = l
    <3> DEFINE at(i) == IF i < j THEN i ELSE i + 1
    <3>1. at(k) \in 1 .. Len(s) /\ r[k] = s[at(k)]
      BY <1>1, <1>6, <1>7
    <3>2. at(l) \in 1 .. Len(s) /\ r[l] = s[at(l)]
      BY <1>1, <1>6, <1>7
    <3>3. at(k) = at(l)
      BY <1>8, <2>1, <3>1, <3>2
    <3> QED
      BY <1>1, <3>3
  <2> QED
    BY <1>5, <2>1 DEF IsInjective
<1> QED
  BY <1>5, <1>9, <1>10 DEF r

\* A list in the order of the key K.
Ascending(s, K) == \A i, j \in 1 .. Len(s) : i < j => K[s[i]] <= K[s[j]]

\* Only the keys of the elements count.
LEMMA AscendingSame ==
  ASSUME NEW S, NEW s \in Seq(S), NEW K, NEW M, \A x \in ToSet(s) : K[x] = M[x],
         Ascending(s, K)
  PROVE  Ascending(s, M)
<1>1. \A i \in 1 .. Len(s) : K[s[i]] = M[s[i]]
  BY ToSetByIndex
<1> QED
  BY <1>1 DEF Ascending

\* The insertion in front of the first element with a greater key keeps the order.
LEMMA InsertAscending ==
  ASSUME NEW S, NEW s \in Seq(S), NEW e \in S, NEW K \in [S -> Int], Ascending(s, K)
  PROVE  Ascending(klist_insert(s, ScanStop(s, {i \in DOMAIN s : K[s[i]] > K[e]}), e), K)
<1> DEFINE I == {i \in DOMAIN s : K[s[i]] > K[e]}
           n == ScanStop(s, I)
           r == klist_insert(s, n, e)
<1>1. /\ Len(s) \in Nat /\ DOMAIN s = 1 .. Len(s)
      /\ \A i \in 1 .. Len(s) : s[i] \in S /\ K[s[i]] \in Int
      /\ K[e] \in Int /\ I \subseteq DOMAIN s
  OBVIOUS
<1>2. n \in 1 .. Len(s) + 1
  BY <1>1, ScanStopRange
<1>3. ASSUME NEW i \in 1 .. Len(s), i < n PROVE K[s[i]] <= K[e]
  <2>1. i \notin I
    <3>1. CASE I = {}
      BY <3>1
    <3>2. CASE I # {}
      <4>1. I \subseteq Nat /\ n = Min(I)
        BY <1>1, <3>2 DEF ScanStop
      <4>2. \A y \in I : n <= y
        BY <3>2, <4>1, NatMin
      <4> HIDE DEF I, n
      <4> QED
        BY <1>2, <1>3, <4>2
    <3> QED
      BY <3>1, <3>2
  <2> QED
    BY <1>1, <2>1
<1>4. ASSUME NEW i \in 1 .. Len(s), i >= n PROVE K[e] <= K[s[i]]
  <2>1. I # {} /\ n = Min(I) /\ I \subseteq Nat
    BY <1>1, <1>2, <1>4 DEF ScanStop
  <2>2. n \in I
    BY <2>1, NatMin
  <2>3. n \in 1 .. Len(s) /\ K[e] <= K[s[n]]
    BY <1>1, <2>2
  <2>4. K[s[n]] <= K[s[i]]
    BY <1>1, <1>4, <2>3 DEF Ascending
  <2> QED
    BY <1>1, <2>3, <2>4
<1> HIDE DEF n, I
<1>5. /\ r \in Seq(S) /\ Len(r) = Len(s) + 1
      /\ r[n] = e
      /\ \A k \in 1 .. Len(s) + 1 : k < n => r[k] = s[k]
      /\ \A k \in 1 .. Len(s) + 1 : k > n => r[k] = s[k - 1]
  BY <1>2, InsertValues
<1> HIDE DEF r
<1>6. ASSUME NEW k \in 1 .. Len(r), NEW l \in 1 .. Len(r), k < l
      PROVE  K[r[k]] <= K[r[l]]
  <2>1. CASE l < n \/ k > n
    <3> DEFINE k1 == IF k > n THEN k - 1 ELSE k
               l1 == IF k > n THEN l - 1 ELSE l
    <3>1. k1 \in 1 .. Len(s) /\ l1 \in 1 .. Len(s) /\ k1 < l1 /\ r[k] = s[k1] /\ r[l] = s[l1]
      BY <1>1, <1>2, <1>5, <1>6, <2>1
    <3> QED
      BY <3>1 DEF Ascending
  <2>2. CASE k < n /\ l = n
    BY <1>1, <1>2, <1>3, <1>5, <2>2
  <2>3. CASE k = n
    <3>1. l - 1 \in 1 .. Len(s) /\ l - 1 >= n /\ r[k] = e /\ r[l] = s[l - 1]
      BY <1>1, <1>2, <1>5, <1>6, <2>3
    <3> QED
      BY <1>4, <3>1
  <2>4. CASE k < n /\ l > n
    <3>0. /\ k \in 1 .. Len(s) /\ l - 1 \in 1 .. Len(s) /\ l - 1 >= n
          /\ k \in 1 .. Len(s) + 1 /\ l \in 1 .. Len(s) + 1
      BY <1>1, <1>2, <1>5, <2>4
    <3>1. r[k] = s[k] /\ r[l] = s[l - 1]
      BY <1>5, <2>4, <3>0
    <3>2. K[s[k]] <= K[e] /\ K[e] <= K[s[l - 1]]
      BY <1>3, <1>4, <2>4, <3>0
    <3> QED
      BY <1>1, <3>0, <3>1, <3>2
  <2> QED
    BY <1>2, <1>5, <1>6, <2>1, <2>2, <2>3, <2>4
<1> QED
  BY <1>6 DEF Ascending, r, n, I

\* The removal of an element keeps the order.
LEMMA RmAscending ==
  ASSUME NEW S, NEW s \in Seq(S), NEW e \in ToSet(s), NEW K, Ascending(s, K)
  PROVE  Ascending(klist_rm(s, e), K)
<1> DEFINE r == klist_rm(s, e)
<1>1. PICK j \in 1 .. Len(s) :
        /\ Len(r) = Len(s) - 1
        /\ \A k \in 1 .. Len(s) - 1 : r[k] = IF k < j THEN s[k] ELSE s[k + 1]
  BY RmValues
<1> HIDE DEF r
<1>2. ASSUME NEW k \in 1 .. Len(r), NEW l \in 1 .. Len(r), k < l
      PROVE  K[r[k]] <= K[r[l]]
  <2> DEFINE k1 == IF k < j THEN k ELSE k + 1
             l1 == IF l < j THEN l ELSE l + 1
  <2>1. k1 \in 1 .. Len(s) /\ l1 \in 1 .. Len(s) /\ k1 < l1 /\ r[k] = s[k1] /\ r[l] = s[l1]
    BY <1>1, <1>2
  <2> QED
    BY <2>1 DEF Ascending
<1> QED
  BY <1>2 DEF Ascending, r

\* Adding at the end.
LEMMA AppendElement ==
  ASSUME NEW S, NEW s \in Seq(S), NEW e \in S
  PROVE  /\ Append(s, e) \in Seq(S) /\ Append(s, e) # << >>
         /\ ToSet(Append(s, e)) = ToSet(s) \cup {e}
         /\ IsInjective(s) /\ e \notin ToSet(s) => IsInjective(Append(s, e))
<1> DEFINE r == Append(s, e)
<1>1. /\ r \in Seq(S) /\ r # << >> /\ Len(r) = Len(s) + 1 /\ r[Len(s) + 1] = e
      /\ \A k \in 1 .. Len(s) : r[k] = s[k]
  BY AppendProperties
<1> HIDE DEF r
<1>2. ToSet(r) = ToSet(s) \cup {e}
  <2>1. ASSUME NEW x \in ToSet(r) PROVE x = e \/ x \in ToSet(s)
    <3>1. PICK k \in 1 .. Len(r) : r[k] = x
      BY <1>1, ToSetByIndex
    <3>2. k \in 1 .. Len(s) \/ k = Len(s) + 1
      BY <1>1
    <3> QED
      BY <1>1, <3>1, <3>2, ToSetByIndex
  <2>2. ASSUME NEW x \in ToSet(s) PROVE x \in ToSet(r)
    <3>1. PICK k \in 1 .. Len(s) : s[k] = x
      BY ToSetByIndex
    <3>2. k \in 1 .. Len(r) /\ r[k] = x
      BY <1>1, <3>1
    <3> QED
      BY <1>1, <3>2, ToSetByIndex
  <2>3. e \in ToSet(r)
    BY <1>1, ToSetByIndex
  <2> QED
    BY <2>1, <2>2, <2>3
<1>3. ASSUME IsInjective(s), e \notin ToSet(s) PROVE IsInjective(r)
  <2>1. \A k \in 1 .. Len(s) : s[k] # e
    BY <1>3, ToSetByIndex
  <2>2. \A k, l \in 1 .. Len(s) : s[k] = s[l] => k = l
    BY <1>3 DEF IsInjective
  <2>3. ASSUME NEW k \in 1 .. Len(r), NEW l \in 1 .. Len(r), r[k] = r[l] PROVE k = l
    <3>1. /\ k \in 1 .. Len(s) \/ k = Len(s) + 1
          /\ l \in 1 .. Len(s) \/ l = Len(s) + 1
      BY <1>1
    <3> QED
      BY <1>1, <2>1, <2>2, <2>3, <3>1
  <2> QED
    BY <1>1, <2>3 DEF IsInjective
<1> QED
  BY <1>1, <1>2, <1>3 DEF r

\* Adding in front, which is klist_insert at position 1.
LEMMA PrependElement ==
  ASSUME NEW S, NEW s \in Seq(S), NEW e \in S
  PROVE  /\ <<e>> \o s \in Seq(S) /\ <<e>> \o s # << >>
         /\ ToSet(<<e>> \o s) = ToSet(s) \cup {e}
         /\ IsInjective(s) /\ e \notin ToSet(s) => IsInjective(<<e>> \o s)
<1> DEFINE r == <<e>> \o s
<1>1. SubSeq(s, 1, 0) = << >> /\ SubSeq(s, 1, Len(s)) = s
  BY SubSeqEmpty, SubSeqFull
<1>2. klist_insert(s, 1, e) = (<< >> \o <<e>>) \o s
  BY <1>1 DEF klist_insert, InsertAt
<1>3. << >> \o <<e>> = <<e>>
  BY ConcatEmptySeq
<1>4. r = klist_insert(s, 1, e)
  BY <1>2, <1>3
<1>5. r # << >>
  BY ConcatProperties
<1> HIDE DEF r
<1>6. 1 \in 1 .. Len(s) + 1
  OBVIOUS
<1>7. /\ r \in Seq(S) /\ ToSet(r) = ToSet(s) \cup {e}
      /\ IsInjective(s) /\ e \notin ToSet(s) => IsInjective(r)
  BY <1>4, <1>6, InsertProperties
<1> QED
  BY <1>5, <1>7 DEF r

\* What is behind the first element.
LEMMA TailProperties ==
  ASSUME NEW S, NEW s \in Seq(S), s # << >>, IsInjective(s)
  PROVE  /\ Head(s) \in S /\ Head(s) \in ToSet(s) /\ Head(s) = s[1]
         /\ Tail(s) \in Seq(S) /\ Len(Tail(s)) = Len(s) - 1 /\ Len(s) \in Nat \ {0}
         /\ \A k \in 1 .. Len(Tail(s)) : Tail(s)[k] = s[k + 1]
         /\ IsInjective(Tail(s))
         /\ Head(s) \notin ToSet(Tail(s)) /\ ToSet(s) = ToSet(Tail(s)) \cup {Head(s)}
<1> DEFINE h == Head(s)
           t == Tail(s)
<1>1. /\ h \in S /\ t \in Seq(S) /\ h = s[1] /\ Len(s) \in Nat \ {0} /\ Len(t) = Len(s) - 1
      /\ \A k \in 1 .. Len(t) : t[k] = s[k + 1]
  BY HeadTailProperties, EmptySeq
<1> HIDE DEF h, t
<1>2. \A k, l \in 1 .. Len(s) : s[k] = s[l] => k = l
  BY DEF IsInjective
<1>3. \A k \in 1 .. Len(t) : k + 1 \in 1 .. Len(s)
  BY <1>1
<1>4. IsInjective(t)
  <2>1. ASSUME NEW k \in 1 .. Len(t), NEW l \in 1 .. Len(t), t[k] = t[l] PROVE k = l
    <3>1. k + 1 = l + 1
      BY <1>1, <1>2, <1>3, <2>1
    <3> QED
      BY <3>1
  <2> QED
    BY <1>1, <2>1 DEF IsInjective
<1>5. h \notin ToSet(t)
  <2> SUFFICES ASSUME h \in ToSet(t) PROVE FALSE
    OBVIOUS
  <2>1. PICK k \in 1 .. Len(t) : t[k] = h
    BY <1>1, ToSetByIndex
  <2>2. 1 \in 1 .. Len(s) /\ k + 1 \in 1 .. Len(s) /\ s[k + 1] = s[1]
    BY <1>1, <1>3, <2>1
  <2>3. k + 1 = 1
    BY <1>2, <2>2
  <2> QED
    BY <2>3
<1>6. ToSet(s) = ToSet(t) \cup {h}
  <2>1. ASSUME NEW x \in ToSet(s) PROVE x \in ToSet(t) \cup {h}
    <3>1. PICK k \in 1 .. Len(s) : s[k] = x
      BY ToSetByIndex
    <3>2. CASE k = 1
      BY <1>1, <3>1, <3>2
    <3>3. CASE k # 1
      <4>1. k - 1 \in 1 .. Len(t) /\ (k - 1) + 1 = k
        BY <1>1, <3>3
      <4>2. t[k - 1] = x
        BY <1>1, <3>1, <4>1
      <4> QED
        BY <1>1, <4>1, <4>2, ToSetByIndex
    <3> QED
      BY <3>2, <3>3
  <2>2. ASSUME NEW x \in ToSet(t) PROVE x \in ToSet(s)
    <3>1. PICK k \in 1 .. Len(t) : t[k] = x
      BY <1>1, ToSetByIndex
    <3>2. k + 1 \in 1 .. Len(s) /\ s[k + 1] = x
      BY <1>1, <1>3, <3>1
    <3> QED
      BY <3>2, ToSetByIndex
  <2>3. h \in ToSet(s)
    BY <1>1, ToSetByIndex
  <2> QED
    BY <2>1, <2>2, <2>3
<1> QED
  BY <1>1, <1>4, <1>5, <1>6 DEF h, t

\* Rotation keeps the elements.
LEMMA RotateProperties ==
  ASSUME NEW S, NEW s \in Seq(S), s # << >>, IsInjective(s)
  PROVE  /\ klist_rotate(s) \in Seq(S) /\ klist_rotate(s) # << >>
         /\ ToSet(klist_rotate(s)) = ToSet(s)
         /\ IsInjective(klist_rotate(s))
<1> DEFINE h == Head(s)
           t == Tail(s)
<1>1. h \in S /\ t \in Seq(S) /\ IsInjective(t) /\ h \notin ToSet(t) /\ ToSet(s) = ToSet(t) \cup {h}
  BY TailProperties
<1>2. klist_rotate(s) = Append(t, h)
  BY DEF klist_rotate
<1> HIDE DEF h, t
<1> QED
  BY <1>1, <1>2, AppendElement
=============================================================================
