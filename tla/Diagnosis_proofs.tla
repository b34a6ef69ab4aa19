--------------------------- MODULE Diagnosis_proofs ---------------------------
(* The tools that list alerts, for any estate, page and chunk size and limit:*)
(* what a listing is of the alerts there are, whatever fails, what the       *)
(* verdict and the recommendations of a diagnosis say of the truth, what the *)
(* trend of a series says of its samples, and what a summary says of the     *)
(* alerts.                                                                   *)
EXTENDS AlertSummary, FiniteSetTheorems, SequenceTheorems, WellFoundedInduction, TLAPS

\* The first n of a list, or all of it.
First(list, n) == SubSeq(list, 1, Smaller(n, Len(list)))

(* A page more of a list.                                                    *)
LEMMA PageExtends ==
  ASSUME NEW S, NEW list \in Seq(S), NEW size \in Nat \ {0}, NEW p \in Nat
  PROVE  /\ First(list, p * size) \o Page(list, size, p) = First(list, (p + 1) * size)
         /\ First(list, p * size) \in Seq(S)
         /\ Page(list, size, p) \in Seq(S)
         /\ Page(list, size, p) = <<>> => First(list, p * size) = list
         /\ Len(First(list, p * size)) >= Len(list) => First(list, p * size) = list
<1> DEFINE n == p * size
           k == Smaller(n, Len(list))
           e == Smaller((p + 1) * size, Len(list))
<1>1. n \in Nat /\ (p + 1) * size = n + size /\ Len(list) \in Nat
  OBVIOUS
<1>2. /\ k \in 0 .. Len(list) /\ e \in k .. Len(list)
      /\ n <= Len(list) => k = n
      /\ n > Len(list) => k = Len(list) /\ e = Len(list)
      /\ n < Len(list) => e > k
  <2> HIDE DEF n
  <2> QED
    BY <1>1 DEF Smaller
<1>3. /\ First(list, p * size) = SubSeq(list, 1, k)
      /\ First(list, (p + 1) * size) = SubSeq(list, 1, e)
      /\ Page(list, size, p) = SubSeq(list, n + 1, e)
  BY DEF First, Page
<1> HIDE DEF n, k, e
<1>4. SubSeq(list, n + 1, e) = SubSeq(list, k + 1, e)
  <2>1. CASE n <= Len(list)
    BY <1>2, <2>1
  <2>2. CASE n > Len(list)
    <3>1. /\ n + 1 \in Int /\ e \in Int /\ k + 1 \in Int
          /\ e < n + 1 /\ e < k + 1
      BY <1>1, <1>2, <2>2
    <3> QED
      BY <3>1, SubSeqEmpty
  <2>3. n <= Len(list) \/ n > Len(list)
    BY <1>1
  <2> QED
    BY <2>1, <2>2, <2>3, Zenon
<1>5. SubSeq(list, 1, k) \o SubSeq(list, k + 1, e) = SubSeq(list, 1, e)
  <2>1. 1 \in 1 .. Len(list) + 1 /\ k \in 1 - 1 .. Len(list) /\ e \in k .. Len(list)
    BY <1>1, <1>2
  <2> QED
    BY <2>1, ConcatAdjacentSubSeq
<1>6. \A i \in 1 .. Len(list) : list[i] \in S
  OBVIOUS
<1>7. SubSeq(list, 1, k) \in Seq(S) /\ Len(SubSeq(list, 1, k)) = k
  <2>1. k \in Int /\ \A i \in 1 .. k : list[i] \in S
    BY <1>1, <1>2, <1>6
  <2>2. /\ SubSeq(list, 1, k) \in Seq(S)
        /\ Len(SubSeq(list, 1, k)) = IF 1 <= k THEN k - 1 + 1 ELSE 0
    BY <2>1, SubSeqProperties
  <2> QED
    BY <1>1, <1>2, <2>2
<1>8. SubSeq(list, k + 1, e) \in Seq(S) /\ (e > k => SubSeq(list, k + 1, e) # <<>>)
  <2>1. k + 1 \in Int /\ e \in Int /\ \A i \in k + 1 .. e : list[i] \in S
    BY <1>1, <1>2, <1>6
  <2>2. /\ SubSeq(list, k + 1, e) \in Seq(S)
        /\ Len(SubSeq(list, k + 1, e)) = IF k + 1 <= e THEN e - (k + 1) + 1 ELSE 0
    BY <2>1, SubSeqProperties
  <2>3. e > k => k + 1 <= e /\ e - (k + 1) + 1 # 0
    BY <1>1, <1>2
  <2>4. e > k => Len(SubSeq(list, k + 1, e)) # 0
    BY <2>2, <2>3, Zenon
  <2> QED
    BY <2>2, <2>4
<1>9. k = Len(list) => SubSeq(list, 1, k) = list
  BY SubSeqFull
<1>10. SubSeq(list, k + 1, e) = <<>> => k = Len(list)
  BY <1>1, <1>2, <1>8
<1>11. Len(SubSeq(list, 1, k)) >= Len(list) => k = Len(list)
  BY <1>1, <1>2, <1>7
<1> QED
  BY <1>3, <1>4, <1>5, <1>7, <1>8, <1>9, <1>10, <1>11

(* Nothing of a list.                                                        *)
LEMMA NoPages ==
  ASSUME NEW S, NEW list \in Seq(S), NEW size \in Nat
  PROVE  First(list, 0 * size) = <<>>
<1>1. 0 * size = 0
  OBVIOUS
<1>2. Len(list) \in Nat
  OBVIOUS
<1>3. Smaller(0, Len(list)) = 0
  BY <1>2 DEF Smaller
<1>4. SubSeq(list, 1, 0) = <<>>
  BY SubSeqEmpty
<1> QED
  BY <1>1, <1>3, <1>4, Zenon DEF First

(* Positions of which each has a set of others before it, one of any two     *)
(* before the other, have a place of their own each.                         *)
LEMMA Places ==
  ASSUME NEW P, IsFiniteSet(P), NEW ahead \in [P -> SUBSET P],
         \A i \in P : i \notin ahead[i],
         \A i, j \in P : i # j => i \in ahead[j] \/ j \in ahead[i],
         \A i, j, k \in P : i \in ahead[j] /\ j \in ahead[k] => i \in ahead[k]
  PROVE  /\ Cardinality(P) \in Nat
         /\ \A i \in P : Cardinality(ahead[i]) \in Nat /\ 1 + Cardinality(ahead[i]) \in 1 .. Cardinality(P)
         /\ \A i, j \in P : i \in ahead[j] => Cardinality(ahead[i]) < Cardinality(ahead[j])
         /\ \A m \in 1 .. Cardinality(P) : \E i \in P : 1 + Cardinality(ahead[i]) = m
<1> DEFINE n == Cardinality(P)
<1>1. n \in Nat
  BY FS_CardinalityType
<1>2. \A i \in P : ahead[i] \in SUBSET P
  OBVIOUS
<1> HIDE DEF n
<1>3. ASSUME NEW i \in P
      PROVE  IsFiniteSet(ahead[i]) /\ Cardinality(ahead[i]) \in 0 .. n - 1
  <2>1. IsFiniteSet(ahead[i]) /\ Cardinality(ahead[i]) <= n /\ (Cardinality(ahead[i]) = n => ahead[i] = P)
    BY <1>2, FS_Subset DEF n
  <2>2. Cardinality(ahead[i]) # n
    BY <1>2, <2>1
  <2>3. Cardinality(ahead[i]) \in Nat
    BY <2>1, FS_CardinalityType
  <2> QED
    BY <1>1, <2>1, <2>2, <2>3
<1>4. ASSUME NEW i \in P, NEW j \in P, i \in ahead[j]
      PROVE  Cardinality(ahead[i]) < Cardinality(ahead[j])
  <2>1. ahead[i] \in SUBSET ahead[j] /\ ahead[i] # ahead[j]
    BY <1>2, <1>4
  <2>2. Cardinality(ahead[i]) <= Cardinality(ahead[j]) /\ Cardinality(ahead[i]) # Cardinality(ahead[j])
    BY <1>3, <2>1, FS_Subset
  <2> QED
    BY <1>3, <2>2
<1>5. \A i \in P : 1 + Cardinality(ahead[i]) \in 1 .. n
  BY <1>1, <1>3
<1>6. \A m \in 1 .. n : \E i \in P : 1 + Cardinality(ahead[i]) = m
  <2> DEFINE f == [i \in P |-> 1 + Cardinality(ahead[i])]
  <2>1. f \in [P -> 1 .. n]
    BY <1>5
  <2>2. \A i, j \in P : f[i] = f[j] => i = j
    <3>1. \A i, j \in P : 1 + Cardinality(ahead[i]) = 1 + Cardinality(ahead[j])
                            => Cardinality(ahead[i]) = Cardinality(ahead[j])
      BY <1>3
    <3>2. \A i, j \in P : i # j => Cardinality(ahead[i]) # Cardinality(ahead[j])
      BY <1>3, <1>4
    <3> QED
      BY <3>1, <3>2
  <2>3. f \in Injection(P, 1 .. n)
    BY <2>1, <2>2 DEF Injection, IsInjective
  <2>4. f \in Surjection(P, 1 .. n)
    <3>1. IsFiniteSet(1 .. n) /\ Cardinality(1 .. n) = Cardinality(P)
      BY <1>1, FS_Interval DEF n
    <3> QED
      BY <2>3, <3>1, FS_Injection
  <2>5. \A m \in 1 .. n : \E i \in P : f[i] = m
    BY <2>4 DEF Surjection
  <2> QED
    BY <2>5
<1> QED
  BY <1>1, <1>3, <1>4, <1>5, <1>6 DEF n

(* The list of the elements at some positions has these elements.            *)
LEMMA Picked ==
  ASSUME NEW S, NEW list \in Seq(S), NEW P, P \subseteq DOMAIN list
  PROVE  /\ At(list, P) \in Seq(S)
         /\ ToSet(At(list, P)) = {list[i] : i \in P}
<1> DEFINE n == Cardinality(P)
           upto(i) == {j \in P : j <= i}
           ahead == [i \in P |-> {j \in P : j < i}]
           pos(m) == CHOOSE i \in P : Cardinality(upto(i)) = m
<1>1. IsFiniteSet(P) /\ P \subseteq Int
  <2>1. IsFiniteSet(1 .. Len(list)) /\ P \subseteq 1 .. Len(list)
    BY FS_Interval
  <2> QED
    BY <2>1, FS_Subset
<1>2. /\ ahead \in [P -> SUBSET P]
      /\ \A i, j \in P : j \in ahead[i] <=> j < i
  OBVIOUS
<1> HIDE DEF ahead
<1>3. /\ \A i \in P : i \notin ahead[i]
      /\ \A i, j \in P : i # j => i \in ahead[j] \/ j \in ahead[i]
      /\ \A i, j, k \in P : i \in ahead[j] /\ j \in ahead[k] => i \in ahead[k]
  BY <1>1, <1>2
<1>4. /\ n \in Nat
      /\ \A i \in P : 1 + Cardinality(ahead[i]) \in 1 .. n
      /\ \A i, j \in P : i \in ahead[j] => Cardinality(ahead[i]) < Cardinality(ahead[j])
      /\ \A i \in P : Cardinality(ahead[i]) \in Nat
      /\ \A m \in 1 .. n : \E i \in P : 1 + Cardinality(ahead[i]) = m
  BY <1>1, <1>2, <1>3, Places
<1>5. ASSUME NEW i \in P
      PROVE  Cardinality(upto(i)) = 1 + Cardinality(ahead[i])
  <2>1. upto(i) = ahead[i] \cup {i} /\ i \notin ahead[i]
    BY <1>1, <1>2
  <2>2. IsFiniteSet(ahead[i])
    BY <1>1, <1>2, FS_Subset
  <2>3. Cardinality(ahead[i] \cup {i}) = Cardinality(ahead[i]) + 1
    BY <2>1, <2>2, FS_AddElement
  <2>4. Cardinality(ahead[i]) \in Nat
    BY <1>4
  <2> HIDE DEF upto
  <2> QED
    BY <2>1, <2>3, <2>4
<1>6. At(list, P) = [m \in 1 .. n |-> list[pos(m)]]
  BY DEF At
<1> HIDE DEF n, upto
<1>7. \A m \in 1 .. n : pos(m) \in P
  BY <1>4, <1>5
<1>8. \A i \in P : \E m \in 1 .. n : pos(m) = i
  <2> SUFFICES ASSUME NEW i \in P
               PROVE  \E m \in 1 .. n : pos(m) = i
    OBVIOUS
  <2>1. PICK m \in 1 .. n : Cardinality(upto(i)) = m
    BY <1>4, <1>5
  <2>2. pos(m) \in P /\ Cardinality(upto(pos(m))) = m
    BY <2>1
  <2>3. Cardinality(ahead[pos(m)]) = Cardinality(ahead[i])
    BY <1>4, <1>5, <2>1, <2>2
  <2>4. ~(Cardinality(ahead[pos(m)]) < Cardinality(ahead[i])) /\ ~(Cardinality(ahead[i]) < Cardinality(ahead[pos(m)]))
    BY <1>4, <2>3
  <2>5. pos(m) = i
    BY <1>3, <1>4, <2>2, <2>4
  <2> QED
    BY <2>5
<1> HIDE DEF pos
<1>9. \A i \in P : list[i] \in S
  OBVIOUS
<1>10. At(list, P) \in Seq(S)
  BY <1>4, <1>6, <1>7, <1>9
<1>11. DOMAIN At(list, P) = 1 .. n
  BY <1>6
<1>12. \A m \in 1 .. n : At(list, P)[m] = list[pos(m)]
  BY <1>6
<1>13. ToSet(At(list, P)) = {list[i] : i \in P}
  <2>1. \A m \in 1 .. n : At(list, P)[m] \in {list[i] : i \in P}
    BY <1>7, <1>12
  <2>2. \A i \in P : \E m \in 1 .. n : At(list, P)[m] = list[i]
    BY <1>8, <1>12
  <2> QED
    BY <1>11, <2>1, <2>2, Zenon DEF ToSet
<1> QED
  BY <1>10, <1>13

LEMMA AmongElements ==
  ASSUME NEW S, NEW list \in Seq(S), NEW T
  PROVE  /\ Among(list, T) \in Seq(S)
         /\ ToSet(Among(list, T)) = ToSet(list) \cap T
<1> DEFINE P == {i \in DOMAIN list : list[i] \in T}
<1>1. P \subseteq DOMAIN list /\ {list[i] : i \in P} = ToSet(list) \cap T
  BY DEF ToSet
<1>2. Among(list, T) = At(list, P)
  BY DEF Among
<1> HIDE DEF P
<1> QED
  BY <1>1, <1>2, Picked

LEMMA DistinctElements ==
  ASSUME NEW S, NEW list \in Seq(S)
  PROVE  /\ Distinct(list) \in Seq(S)
         /\ ToSet(Distinct(list)) = ToSet(list)
<1> DEFINE P == {i \in DOMAIN list : \A j \in 1 .. i - 1 : list[j] # list[i]}
<1>1. ASSUME NEW i \in DOMAIN list
      PROVE  \E j \in P : list[j] = list[i]
  <2> DEFINE same == {j \in DOMAIN list : list[j] = list[i]}
  <2>1. same \subseteq Nat /\ same # {} /\ DOMAIN list = 1 .. Len(list) /\ Len(list) \in Nat
    OBVIOUS
  <2>2. PICK j \in same : \A m \in same : <<m, j>> \notin OpToRel(<, Nat)
    <3> HIDE DEF same
    <3> QED
      BY <2>1, NatLessThanWellFounded, WFMin
  <2>3. ASSUME NEW m \in 1 .. j - 1
        PROVE  list[m] # list[j]
    <3>1. m \in DOMAIN list /\ m \in Nat /\ j \in Nat /\ m < j
      <4>1. j \in 1 .. Len(list)
        BY <2>1
      <4> QED
        BY <2>1, <4>1
    <3>2. <<m, j>> \in OpToRel(<, Nat)
      BY <3>1, Zenon DEF OpToRel
    <3> QED
      BY <2>2, <3>1, <3>2
  <2> QED
    BY <2>2, <2>3
<1>2. P \subseteq DOMAIN list
  OBVIOUS
<1>3. Distinct(list) = At(list, P)
  BY DEF Distinct
<1> HIDE DEF P
<1>4. {list[i] : i \in P} = ToSet(list)
  BY <1>1, <1>2 DEF ToSet
<1> QED
  BY <1>2, <1>3, <1>4, Picked

(* Sorting positions, of which <<j, i>> \in above say that j is to come      *)
(* before i: those before i are the ones above it and, before it already,    *)
(* those it is not above.                                                    *)
AheadOf(P, above, i) ==
  {j \in P \ {i} : <<j, i>> \in above \/ (j < i /\ <<i, j>> \notin above)}

\* The position that gets to place m.
PlacedAt(P, above, m) == CHOOSE i \in P : 1 + Cardinality(AheadOf(P, above, i)) = m

(* Each position gets to a place of its own, none after one it is above.     *)
LEMMA StableSort ==
  ASSUME NEW n \in Nat, NEW above,
         \A i, j \in 1 .. n : ~(<<i, j>> \in above /\ <<j, i>> \in above),
         \A i, j, k \in 1 .. n : <<i, j>> \notin above /\ <<j, k>> \notin above => <<i, k>> \notin above
  PROVE  /\ \A m \in 1 .. n : PlacedAt(1 .. n, above, m) \in 1 .. n
         /\ \A i \in 1 .. n : \E m \in 1 .. n : PlacedAt(1 .. n, above, m) = i
         /\ \A m, k \in 1 .. n : m < k =>
              /\ PlacedAt(1 .. n, above, m) # PlacedAt(1 .. n, above, k)
              /\ <<PlacedAt(1 .. n, above, k), PlacedAt(1 .. n, above, m)>> \notin above
<1> DEFINE P == 1 .. n
           ahead == [i \in P |-> AheadOf(P, above, i)]
           at(m) == PlacedAt(P, above, m)
<1>1. /\ ahead \in [P -> SUBSET P]
      /\ \A i, j \in P : j \in ahead[i] <=>
           j # i /\ (<<j, i>> \in above \/ (j < i /\ <<i, j>> \notin above))
  BY DEF AheadOf
<1>2. \A i \in P : i \notin ahead[i]
  BY <1>1
<1>3. ASSUME NEW i \in P, NEW j \in P, i # j
      PROVE  i \in ahead[j] \/ j \in ahead[i]
  <2>1. i < j \/ j < i
    BY <1>3
  <2> HIDE DEF P, ahead
  <2> QED
    BY <1>1, <1>3, <2>1
<1>4. ASSUME NEW i \in P, NEW j \in P, NEW k \in P, i \in ahead[j], j \in ahead[k]
      PROVE  i \in ahead[k]
  <2> DEFINE B(x, y) == <<x, y>> \in above
  <2>1. /\ ~(B(i, j) /\ B(j, i)) /\ ~(B(j, k) /\ B(k, j)) /\ ~(B(i, k) /\ B(k, i))
        /\ ~B(i, k) /\ ~B(k, j) => ~B(i, j)
        /\ ~B(j, i) /\ ~B(i, k) => ~B(j, k)
        /\ ~B(k, j) /\ ~B(j, i) => ~B(k, i)
    OBVIOUS
  <2>2. /\ i # j /\ (B(i, j) \/ (i < j /\ ~B(j, i)))
        /\ j # k /\ (B(j, k) \/ (j < k /\ ~B(k, j)))
    <3> HIDE DEF P, ahead
    <3> QED
      BY <1>1, <1>4
  <2>3. i \in ahead[k] <=> i # k /\ (B(i, k) \/ (i < k /\ ~B(k, i)))
    <3> HIDE DEF P, ahead
    <3> QED
      BY <1>1
  <2>4. i \in Int /\ j \in Int /\ k \in Int
    OBVIOUS
  <2> HIDE DEF B, P, ahead
  <2>5. ~B(j, i) /\ ~B(k, j)
    BY <2>1, <2>2
  <2>6. i # k
    BY <2>1, <2>2, <2>4, <2>5
  <2>7. B(i, k) \/ i < k
    <3>1. CASE i < j /\ j < k
      BY <2>4, <3>1
    <3>2. CASE B(i, j)
      BY <2>1, <2>5, <3>2
    <3>3. CASE B(j, k)
      BY <2>1, <2>5, <3>3
    <3> QED
      BY <2>2, <3>1, <3>2, <3>3
  <2> QED
    BY <2>1, <2>3, <2>5, <2>6, <2>7
<1>5. /\ \A i, j \in P : i \in ahead[j] => Cardinality(ahead[i]) < Cardinality(ahead[j])
      /\ \A m \in P : \E i \in P : 1 + Cardinality(ahead[i]) = m
      /\ \A i \in P : 1 + Cardinality(ahead[i]) \in P
  <2>1. IsFiniteSet(P) /\ Cardinality(P) = n
    BY FS_Interval
  <2>2. P = 1 .. n
    OBVIOUS
  <2> HIDE DEF P, ahead
  <2> QED
    BY <1>1, <1>2, <1>3, <1>4, <2>1, <2>2, Places
<1>6. \A m \in P : at(m) \in P /\ 1 + Cardinality(ahead[at(m)]) = m
  <2>1. \A i \in P : ahead[i] = AheadOf(P, above, i)
    OBVIOUS
  <2> HIDE DEF P, ahead
  <2>2. \A m \in P : at(m) = CHOOSE i \in P : 1 + Cardinality(AheadOf(P, above, i)) = m
    BY DEF PlacedAt
  <2> HIDE DEF at
  <2> QED
    BY <1>5, <2>1, <2>2
<1> HIDE DEF at, ahead
<1>7. \A j \in P : Cardinality(ahead[j]) \in Int
  <2>1. \A j \in P : IsFiniteSet(ahead[j])
    <3>1. IsFiniteSet(P)
      BY FS_Interval
    <3> QED
      BY <1>1, <3>1, FS_Subset
  <2> QED
    BY <2>1, FS_CardinalityType
<1>8. \A i, j \in P : Cardinality(ahead[i]) = Cardinality(ahead[j]) => i = j
  <2> HIDE DEF P
  <2> QED
    BY <1>3, <1>5, <1>7
<1>9. ASSUME NEW i \in P
      PROVE  \E m \in P : at(m) = i
  <2>1. PICK m \in P : m = 1 + Cardinality(ahead[i])
    BY <1>5
  <2>2. at(m) \in P /\ 1 + Cardinality(ahead[at(m)]) = m
    BY <1>6
  <2>3. Cardinality(ahead[at(m)]) = Cardinality(ahead[i])
    BY <1>7, <2>1, <2>2
  <2> QED
    BY <1>8, <2>2, <2>3
<1>10. ASSUME NEW m \in P, NEW k \in P, m < k
       PROVE  at(m) # at(k) /\ <<at(k), at(m)>> \notin above
  <2>1. /\ at(m) \in P /\ at(k) \in P
        /\ 1 + Cardinality(ahead[at(m)]) = m /\ 1 + Cardinality(ahead[at(k)]) = k
        /\ Cardinality(ahead[at(m)]) \in Int /\ Cardinality(ahead[at(k)]) \in Int
    BY <1>6, <1>7
  <2>2. at(m) # at(k) /\ ~(Cardinality(ahead[at(k)]) < Cardinality(ahead[at(m)]))
    BY <1>10, <2>1
  <2> HIDE DEF P
  <2>3. at(k) \notin ahead[at(m)]
    BY <1>5, <2>1, <2>2
  <2> QED
    BY <1>1, <2>1, <2>2, <2>3
<1> QED
  BY <1>6, <1>9, <1>10 DEF at

\* A list sorted so.
Placed(list, above) == [m \in DOMAIN list |-> list[PlacedAt(DOMAIN list, above, m)]]

LEMMA PlacedElements ==
  ASSUME NEW S, NEW list \in Seq(S), NEW above,
         \A i, j \in DOMAIN list : ~(<<i, j>> \in above /\ <<j, i>> \in above),
         \A i, j, k \in DOMAIN list :
           <<i, j>> \notin above /\ <<j, k>> \notin above => <<i, k>> \notin above
  PROVE  /\ Placed(list, above) \in Seq(S)
         /\ Len(Placed(list, above)) = Len(list)
         /\ \A i \in DOMAIN list : \E m \in DOMAIN list : Placed(list, above)[m] = list[i]
         /\ \A m, k \in DOMAIN list : m < k =>
              \E i, j \in DOMAIN list : /\ Placed(list, above)[m] = list[i]
                                      /\ Placed(list, above)[k] = list[j]
                                      /\ <<j, i>> \notin above
<1> DEFINE n == Len(list)
           P == DOMAIN list
           at(m) == PlacedAt(P, above, m)
           sorted == Placed(list, above)
<1>1. n \in Nat /\ P = 1 .. n /\ \A i \in P : list[i] \in S
  OBVIOUS
<1>2. /\ \A i, j \in P : ~(<<i, j>> \in above /\ <<j, i>> \in above)
      /\ \A i, j, k \in P : <<i, j>> \notin above /\ <<j, k>> \notin above => <<i, k>> \notin above
  OBVIOUS
<1>3. /\ \A m \in P : at(m) \in P
      /\ \A i \in P : \E m \in P : at(m) = i
      /\ \A m, k \in P : m < k => <<at(k), at(m)>> \notin above
  <2> HIDE DEF n, P
  <2> DEFINE N == 1 .. n
  <2>1. /\ \A m \in N : PlacedAt(N, above, m) \in N
        /\ \A i \in N : \E m \in N : PlacedAt(N, above, m) = i
        /\ \A m, k \in N : m < k =>
             /\ PlacedAt(N, above, m) # PlacedAt(N, above, k)
             /\ <<PlacedAt(N, above, k), PlacedAt(N, above, m)>> \notin above
    BY <1>1, <1>2, StableSort
  <2>2. P = N
    BY <1>1
  <2> HIDE DEF N
  <2> QED
    BY <2>1, <2>2
<1>4. sorted = [m \in P |-> list[at(m)]]
  BY DEF Placed
<1> HIDE DEF sorted, at, P
<1>5. \A m \in P : sorted[m] = list[at(m)]
  BY <1>4
<1>6. sorted \in Seq(S) /\ Len(sorted) = n
  <2>1. sorted \in [1 .. n -> S]
    BY <1>1, <1>3, <1>4
  <2> HIDE DEF n
  <2> QED
    BY <1>1, <2>1
<1>7. \A i \in P : \E m \in P : sorted[m] = list[i]
  BY <1>3, <1>5
<1>8. \A m, k \in P : m < k =>
        \E i, j \in P : sorted[m] = list[i] /\ sorted[k] = list[j] /\ <<j, i>> \notin above
  BY <1>3, <1>5
<1> QED
  BY <1>6, <1>7, <1>8 DEF sorted, P

(* The first of a sorted list are of it, and what is not among them comes    *)
(* after them.                                                               *)
LEMMA TopOf ==
  ASSUME NEW S, NEW list \in Seq(S), NEW n \in Nat
  PROVE  /\ Top(list, n) \in Seq(S)
         /\ Len(Top(list, n)) = Smaller(n, Len(list))
         /\ \A i \in DOMAIN Top(list, n) : i \in DOMAIN list /\ Top(list, n)[i] = list[i]
         /\ \A m \in DOMAIN list : list[m] \notin ToSet(Top(list, n)) =>
              Len(Top(list, n)) = n /\ \A i \in DOMAIN Top(list, n) : i < m
<1> DEFINE k == Smaller(n, Len(list))
           top == Top(list, n)
<1>1. /\ k \in Nat /\ k <= Len(list) /\ Len(list) \in Nat
      /\ k = n \/ k = Len(list)
  BY DEF Smaller
<1>2. top = SubSeq(list, 1, k)
  <2>1. ~(n < 0)
    OBVIOUS
  <2> HIDE DEF k
  <2> QED
    BY <2>1 DEF Top, k
<1>3. \A i \in 1 .. Len(list) : list[i] \in S
  OBVIOUS
<1> HIDE DEF k, top
<1>4. top \in Seq(S) /\ Len(top) = k /\ \A i \in 1 .. k : top[i] = list[i]
  <2>1. k \in Int /\ 1 \in Int /\ \A i \in 1 .. k : list[i] \in S
    BY <1>1, <1>3
  <2>2. /\ top \in Seq(S) /\ Len(top) = IF 1 <= k THEN k - 1 + 1 ELSE 0
        /\ \A i \in 1 .. k - 1 + 1 : top[i] = list[1 + i - 1]
    BY <1>2, <2>1, SubSeqProperties
  <2>3. k - 1 + 1 = k /\ \A i \in 1 .. k : 1 + i - 1 = i
    BY <1>1
  <2> QED
    BY <1>1, <2>2, <2>3
<1>5. DOMAIN top = 1 .. k /\ DOMAIN list = 1 .. Len(list)
  BY <1>4
<1>6. ASSUME NEW m \in DOMAIN list, list[m] \notin ToSet(top)
      PROVE  m \notin 1 .. k
  BY <1>4, <1>5, <1>6, Zenon DEF ToSet
<1>7. ASSUME NEW m \in DOMAIN list, list[m] \notin ToSet(top)
      PROVE  k = n /\ \A i \in DOMAIN top : i < m
  <2>1. m \in Nat \ {0} /\ m <= Len(list) /\ k < m
    <3>1. m \notin 1 .. k
      BY <1>6, <1>7
    <3>2. m \in 1 .. Len(list)
      BY <1>5
    <3> QED
      BY <1>1, <3>1, <3>2
  <2>2. k = n
    BY <1>1, <2>1
  <2>3. \A i \in 1 .. k : i < m
    BY <1>1, <2>1
  <2> QED
    BY <1>5, <2>2, <2>3
<1> QED
  BY <1>1, <1>4, <1>5, <1>7 DEF top, k

-----------------------------------------------------------------------------
(* The listing of alerts, for either tool.                                   *)

Stages == {"search", "no diagnosis", "health", "alerts", "listed", "report",
           "reported", "summarized"}

\* While pages are fetched, what was fetched is as many pages of what there is
\* as were asked for; afterwards it is all of it, unless a page failed or the
\* listing was cut.
Listing ==
  /\ estate \in Estates
  /\ pc \in Stages
  /\ page \in Nat
  /\ alerts \in Seq(ToSet(estate.alerts))
  /\ pc \in {"search", "health", "no diagnosis"} => alerts = <<>> /\ page = 0
  /\ pc = "alerts" => alerts = First(estate.alerts, page * PageSize)
  /\ (/\ pc \in {"listed", "report", "reported", "summarized"}
      /\ "alerts" \notin failed
      /\ Len(estate.alerts) < MaxAlerts) => alerts = estate.alerts

LEMMA InitListing ==
  ASSUME Init
  PROVE  Listing
BY DEF Init, Listing, Stages

LEMMA AlertsPageListing ==
  ASSUME Listing, AlertsPage
  PROVE  Listing'
<1> DEFINE S == ToSet(estate.alerts)
           pages == First(estate.alerts, (page + 1) * PageSize)
<1>1. /\ estate' = estate /\ estate \in Estates /\ failed' = failed
      /\ estate.alerts \in Seq(S)
      /\ pc = "alerts" /\ page \in Nat /\ page + 1 \in Nat
      /\ PageSize \in Nat \ {0} /\ MaxAlerts \in Nat
      /\ alerts = First(estate.alerts, page * PageSize)
      /\ alerts' = alerts \o Batch(page)
      /\ Batch(page) = Page(estate.alerts, PageSize, page)
  BY EstatesAssumption, LimitsAssumption DEF Listing, AlertsPage, Batch
<1> HIDE DEF S
<1>2. /\ alerts' = pages
      /\ Batch(page) = <<>> => alerts = estate.alerts
  <2>1. \A list \in Seq(S) : \A size \in Nat \ {0} : \A p \in Nat :
          /\ First(list, p * size) \o Page(list, size, p) = First(list, (p + 1) * size)
          /\ Page(list, size, p) = <<>> => First(list, p * size) = list
    BY PageExtends
  <2>2. estate.alerts \in Seq(S) /\ PageSize \in Nat \ {0} /\ page \in Nat
    BY <1>1, Zenon
  <2>3. /\ First(estate.alerts, page * PageSize) \o Page(estate.alerts, PageSize, page)
             = pages
        /\ Page(estate.alerts, PageSize, page) = <<>> =>
             First(estate.alerts, page * PageSize) = estate.alerts
    BY <2>1, <2>2, Zenon
  <2> QED
    BY <1>1, <2>3, Zenon
<1>3. pages \in Seq(S) /\ (Len(pages) >= Len(estate.alerts) => pages = estate.alerts)
  BY <1>1, PageExtends
<1> HIDE DEF pages
<1>4. alerts' \in Seq(S)
  BY <1>2, <1>3
<1>5. CASE Fetched(alerts', page)
  <2>1. pc' = "listed" /\ page' = page
    BY <1>5 DEF AlertsPage
  <2>2. ASSUME Len(estate.alerts) < MaxAlerts
        PROVE  alerts' = estate.alerts
    <3>1. CASE Batch(page) = <<>>
      <4>1. alerts' = alerts \o <<>> /\ alerts = estate.alerts
        BY <1>1, <1>2, <3>1
      <4> QED
        BY <1>1, <4>1
    <3>2. CASE Len(alerts') >= Len(estate.alerts)
      BY <1>2, <1>3, <3>2
    <3>3. CASE Len(alerts') >= MaxAlerts
      <4>1. Len(alerts') \in Nat /\ Len(estate.alerts) \in Nat
        BY <1>1, <1>4
      <4>2. Len(alerts') >= Len(estate.alerts)
        BY <1>1, <2>2, <3>3, <4>1
      <4> QED
        BY <1>2, <1>3, <4>2
    <3> QED
      BY <1>5, <3>1, <3>2, <3>3 DEF Fetched
  <2> QED
    BY <1>1, <1>4, <2>1, <2>2 DEF Listing, Stages, S
<1>6. CASE ~Fetched(alerts', page)
  <2>1. pc' = "alerts" /\ page' = page + 1
    BY <1>1, <1>6 DEF AlertsPage
  <2> QED
    BY <1>1, <1>2, <1>4, <2>1 DEF Listing, Stages, S, pages
<1> QED
  BY <1>5, <1>6

LEMMA AlertsFailListing ==
  ASSUME Listing, AlertsFail
  PROVE  Listing'
<1>1. /\ estate' = estate /\ page' = page /\ pc' = "listed"
      /\ alerts' = alerts \/ alerts' = <<>>
      /\ "alerts" \in failed'
  BY DEF AlertsFail
<1>2. \A S : <<>> \in Seq(S)
  OBVIOUS
<1>3. alerts' \in Seq(ToSet(estate.alerts))
  BY <1>1, <1>2, Zenon DEF Listing
<1> QED
  BY <1>1, <1>3 DEF Listing, Stages

(* The steps that do not list.                                               *)
LEMMA OtherListing ==
  ASSUME Listing, UNCHANGED <<estate, alerts, page>>,
         pc' \in Stages, failed \subseteq failed',
         pc' \in {"search", "health", "no diagnosis"}
           => pc \in {"search", "health", "no diagnosis"},
         pc' = "alerts" => pc \in {"search", "health", "alerts"},
         pc' \in {"listed", "report", "reported", "summarized"}
           => pc \in {"listed", "report", "reported", "summarized"}
  PROVE  Listing'
<1>1. ASSUME pc \in {"search", "health"}, alerts = <<>>, page = 0
      PROVE  alerts = First(estate.alerts, page * PageSize)
  <2>1. estate.alerts \in Seq(ToSet(estate.alerts))
    BY EstatesAssumption, Zenon DEF Listing
  <2>2. PageSize \in Nat
    BY LimitsAssumption
  <2>3. First(estate.alerts, 0 * PageSize) = <<>>
    BY <2>1, <2>2, NoPages, Zenon
  <2> QED
    BY <1>1, <2>3, Zenon
<1> QED
  BY <1>1 DEF Listing

LEMMA DiagnoseListing ==
  ASSUME Listing, Next
  PROVE  Listing'
<1>1. CASE Search
  BY <1>1, OtherListing DEF Search, Listing, Stages
<1>2. CASE GetHealth
  BY <1>2, OtherListing DEF GetHealth, Listing, Stages
<1>3. CASE AlertsPage
  BY <1>3, AlertsPageListing
<1>4. CASE AlertsFail
  BY <1>4, AlertsFailListing
<1>5. CASE GetSeries
  BY <1>5, OtherListing DEF GetSeries, Listing, Stages
<1>6. CASE Report
  BY <1>6, OtherListing DEF Report, Listing, Stages
<1> QED
  BY <1>1, <1>2, <1>3, <1>4, <1>5, <1>6 DEF Next

LEMMA GetAlertsListing ==
  ASSUME Listing, GetAlerts
  PROVE  Listing'
<1>1. CASE BeginList
  BY <1>1, OtherListing DEF BeginList, Listing, Stages
<1>2. CASE AlertsPage
  BY <1>2, AlertsPageListing
<1>3. CASE AlertsFail
  BY <1>3, AlertsFailListing
<1>4. CASE FetchNames
  BY <1>4, OtherListing DEF FetchNames, Listing, Stages
<1>5. CASE Summarize
  BY <1>5, OtherListing DEF Summarize, Listing, Stages
<1> QED
  BY <1>1, <1>2, <1>3, <1>4, <1>5 DEF GetAlerts

LEMMA StutterListing ==
  ASSUME Listing, UNCHANGED vars
  PROVE  Listing'
BY DEF vars, Listing

LEMMA ListingHolds == ToolSpec => []Listing
<1>1. ToolInit => Listing
  BY InitListing DEF ToolInit
<1>2. Listing /\ [ToolNext]_toolVars => Listing'
  BY DiagnoseListing, GetAlertsListing, StutterListing DEF ToolNext, Diagnose, toolVars
<1> QED
  BY <1>1, <1>2, PTL DEF ToolSpec

-----------------------------------------------------------------------------
(* The facts of a diagnosis.                                                 *)

\* What is known is true or nothing, and it is true when it was fetched; a
\* report is made of what is known.
Known ==
  /\ pc \in {"health", "no diagnosis", "report", "reported"} => estate.tool = "diagnose"
  /\ health \in {estate.health, "unknown"}
  /\ series \in {Nothing, estate.series}
  /\ (/\ estate.tool = "diagnose"
      /\ pc \in {"alerts", "listed", "report", "reported"}
      /\ "health" \notin failed) => health = estate.health
  /\ pc \in {"report", "reported"} /\ "metrics" \notin failed => series = estate.series
  /\ pc = "reported" =>
       /\ verdict = Rollup(health, LevelsOf(alerts), series)
       /\ recommendations = Recommend(health, LevelsOf(alerts), series)

LEMMA InitKnown ==
  ASSUME Init
  PROVE  Known
BY DEF Init, Known

LEMMA DiagnoseKnown ==
  ASSUME Known, Next, estate.tool = "diagnose"
  PROVE  Known'
<1>1. CASE Search
  BY <1>1 DEF Search, Known
<1>2. CASE GetHealth
  BY <1>2 DEF GetHealth, Known
<1>3. CASE AlertsPage
  BY <1>3 DEF AlertsPage, Known
<1>4. CASE AlertsFail
  BY <1>4 DEF AlertsFail, Known
<1>5. CASE GetSeries
  BY <1>5 DEF GetSeries, Known
<1>6. CASE Report
  BY <1>6 DEF Report, Known
<1> QED
  BY <1>1, <1>2, <1>3, <1>4, <1>5, <1>6 DEF Next

LEMMA GetAlertsKnown ==
  ASSUME Known, GetAlerts
  PROVE  Known'
<1>1. CASE BeginList
  BY <1>1 DEF BeginList, GetAlerts, Known
<1>2. CASE AlertsPage
  BY <1>2 DEF AlertsPage, GetAlerts, Known
<1>3. CASE AlertsFail
  BY <1>3 DEF AlertsFail, GetAlerts, Known
<1>4. CASE FetchNames
  BY <1>4 DEF FetchNames, GetAlerts, Known
<1>5. CASE Summarize
  BY <1>5 DEF Summarize, GetAlerts, Known
<1> QED
  BY <1>1, <1>2, <1>3, <1>4, <1>5 DEF GetAlerts

LEMMA StutterKnown ==
  ASSUME Known, UNCHANGED vars
  PROVE  Known'
BY DEF vars, Known

LEMMA KnownHolds == ToolSpec => []Known
<1>1. ToolInit => Known
  BY InitKnown DEF ToolInit
<1>2. Known /\ [ToolNext]_toolVars => Known'
  BY DiagnoseKnown, GetAlertsKnown, StutterKnown DEF ToolNext, Diagnose, toolVars
<1> QED
  BY <1>1, <1>2, PTL DEF ToolSpec

-----------------------------------------------------------------------------
(* A threshold that is breached is advised about, and so is everything else  *)
(* that makes a verdict worse than "OK".                                     *)
LEMMA BreachAdvised ==
  ASSUME NEW levels, NEW all, NEW k, Breached(all, k)
  PROVE  Advice(levels, all) # {}
<1>1. k \in {"cpu", "mem", "disk latency"}
  BY DEF Breached, Threshold
<1>2. CASE k = "cpu"
  <2>1. CASE Trend(all["cpu"]) = "rising"
    <3>1. "cpu climbing" \in Advice(levels, all)
      BY <1>2, <2>1 DEF Advice
    <3> QED
      BY <3>1
  <2>2. CASE Trend(all["cpu"]) # "rising"
    <3>1. "cpu" \in Advice(levels, all)
      BY <1>2, <2>2 DEF Advice
    <3> QED
      BY <3>1
  <2> QED
    BY <2>1, <2>2
<1>3. CASE k = "mem"
  <2>1. "mem" \in Advice(levels, all)
    BY <1>3 DEF Advice
  <2> QED
    BY <2>1
<1>4. CASE k = "disk latency"
  <2>1. "disk latency" \in Advice(levels, all)
    BY <1>4 DEF Advice
  <2> QED
    BY <2>1
<1> QED
  BY <1>1, <1>2, <1>3, <1>4

LEMMA VerdictAdvised ==
  ASSUME NEW state, NEW levels, NEW all, Rollup(state, levels, all) # "OK"
  PROVE  "none needed" \notin Recommend(state, levels, all)
<1>1. "none needed" \notin Advice(levels, all)
  BY DEF Advice
<1>2. CASE Advice(levels, all) # {} \/ levels # {}
  BY <1>1, <1>2 DEF Recommend
<1>3. CASE Advice(levels, all) = {} /\ levels = {}
  <2>1. \A k \in Metrics : ~Breached(all, k)
    BY <1>3, BreachAdvised
  <2>2. state \in Degraded
    BY <1>3, <2>1 DEF Rollup, Degraded
  <2> QED
    BY <1>3, <2>2 DEF Recommend
<1> QED
  BY <1>2, <1>3

(* In a diagnosis of any resource, of which any part could not be fetched,   *)
(* the recommendation that nothing is needed never comes with a verdict that *)
(* something is wrong (build_recommendations and rollup_verdict of           *)
(* analysis.py).                                                             *)
THEOREM DiagnosisAdviceAgrees == ToolSpec => []AdviceAgrees
<1>1. Known => AdviceAgrees
  <2>1. \A state, levels, all :
          Rollup(state, levels, all) # "OK" => "none needed" \notin Recommend(state, levels, all)
    BY VerdictAdvised, Zenon
  <2>2. ASSUME Known, pc = "reported", verdict # "OK"
        PROVE  "none needed" \notin recommendations
    <3> DEFINE levels == LevelsOf(alerts)
    <3>1. /\ verdict = Rollup(health, levels, series)
          /\ recommendations = Recommend(health, levels, series)
      BY <2>2 DEF Known
    <3> HIDE DEF levels
    <3> QED
      BY <2>1, <2>2, <3>1, Zenon
  <2> QED
    BY <2>2, Zenon DEF AdviceAgrees
<1> QED
  BY <1>1, KnownHolds, PTL

-----------------------------------------------------------------------------
(* The verdict.                                                              *)

LEMMA BadnessOf ==
  Badness("OK") = 1 /\ Badness("WARNING") = 2 /\ Badness("CRITICAL") = 3
BY DEF Badness, Verdicts

\* What a verdict of what was fetched says of what is true.
LEMMA VerdictOf ==
  ASSUME NEW state \in {estate.health, "unknown"},
         NEW levels, levels \subseteq LevelsOf(estate.alerts),
         NEW all \in {Nothing, estate.series},
         estate.series \in [Metrics -> Seq(Nat)]
  PROVE  /\ Rollup(state, levels, all) \in {"OK", "WARNING", "CRITICAL"}
         /\ Rollup(state, levels, all) = "CRITICAL" => IsCritical
         /\ Rollup(state, levels, all) = "WARNING" => ~IsSound
         /\ (/\ state = estate.health
             /\ levels = LevelsOf(estate.alerts)
             /\ all = estate.series) => Rollup(state, levels, all) = TrueVerdict
<1>1. Rollup(state, levels, all) \in {"OK", "WARNING", "CRITICAL"}
  BY DEF Rollup
<1>2. Rollup(state, levels, all) = "CRITICAL" => IsCritical
  BY DEF Rollup, IsCritical
<1>3. \A k \in Metrics : Breached(all, k) =>
        /\ k \in DOMAIN Threshold
        /\ \E i \in 1 .. Len(estate.series[k]) : ~(estate.series[k][i] < Threshold[k])
  <2> SUFFICES ASSUME NEW k \in Metrics, Breached(all, k)
               PROVE  /\ k \in DOMAIN Threshold
                      /\ \E i \in 1 .. Len(estate.series[k]) :
                           ~(estate.series[k][i] < Threshold[k])
    OBVIOUS
  <2>1. PICK i \in 1 .. Len(all[k]) : all[k][i] >= Threshold[k]
    BY DEF Breached
  <2>2. all = estate.series
    BY <2>1 DEF Nothing
  <2>3. k \in DOMAIN Threshold
    BY DEF Breached
  <2>4. Threshold[k] \in Nat
    BY <2>3 DEF Threshold
  <2>5. estate.series[k][i] \in Nat
    BY <2>1, <2>2
  <2>6. ~(estate.series[k][i] < Threshold[k])
    BY <2>1, <2>2, <2>4, <2>5
  <2> QED
    BY <2>1, <2>2, <2>3, <2>6, Zenon
<1>4. Rollup(state, levels, all) = "WARNING" => ~IsSound
  <2>1. ASSUME NEW k \in Metrics, Breached(all, k)
        PROVE  ~IsSound
    BY <1>3, <2>1, Zenon DEF IsSound
  <2>2. Rollup(state, levels, all) = "WARNING" =>
          \/ state \in {"ORANGE", "YELLOW"}
          \/ \E k \in Metrics : Breached(all, k)
          \/ "WARNING" \in levels
    BY DEF Rollup
  <2>3. state \in {"ORANGE", "YELLOW"} \/ "WARNING" \in levels => ~IsSound
    BY DEF IsSound, Degraded, Critical
  <2> QED
    BY <2>1, <2>2, <2>3, Zenon
<1>5. ASSUME state = estate.health, levels = LevelsOf(estate.alerts), all = estate.series
      PROVE  Rollup(state, levels, all) = TrueVerdict
  <2>1. ASSUME \A k \in Metrics : ~Breached(all, k),
               NEW k \in DOMAIN Threshold, NEW i \in 1 .. Len(estate.series[k])
        PROVE  estate.series[k][i] < Threshold[k]
    <3>1. k \in Metrics /\ Threshold[k] \in Nat
      BY <2>1 DEF Threshold, Metrics
    <3>2. ~(all[k][i] >= Threshold[k])
      BY <1>5, <2>1, <3>1, Zenon DEF Breached
    <3>3. estate.series[k][i] \in Nat
      BY <2>1, <3>1
    <3> QED
      BY <1>5, <3>1, <3>2, <3>3
  <2>2. CASE IsCritical
    BY <1>5, <2>2 DEF Rollup, IsCritical, TrueVerdict
  <2>3. CASE ~IsCritical /\ IsSound
    <3>1. Rollup(state, levels, all) # "WARNING" /\ Rollup(state, levels, all) # "CRITICAL"
      BY <1>2, <1>4, <2>3
    <3> QED
      BY <1>1, <2>3, <3>1 DEF TrueVerdict
  <2>4. CASE ~IsCritical /\ ~IsSound
    <3>1. ASSUME Rollup(state, levels, all) = "OK"
          PROVE  IsSound
      <4>1. /\ state \notin {"RED", "ORANGE", "YELLOW"}
            /\ levels \cap Critical = {}
            /\ "WARNING" \notin levels
            /\ \A k \in Metrics : ~Breached(all, k)
        BY <3>1 DEF Rollup
      <4>2. LevelsOf(estate.alerts) \cap (Critical \cup {"WARNING"}) = {}
        BY <1>5, <4>1
      <4>3. estate.health \notin Degraded
        BY <1>5, <4>1 DEF Degraded
      <4> QED
        BY <2>1, <4>1, <4>2, <4>3, Zenon DEF IsSound
    <3> QED
      BY <1>1, <1>2, <2>4, <3>1 DEF TrueVerdict
  <2> QED
    BY <2>2, <2>3, <2>4
<1> QED
  BY <1>1, <1>2, <1>4, <1>5

LEMMA LevelsFetched ==
  ASSUME Listing
  PROVE  /\ LevelsOf(alerts) \subseteq LevelsOf(estate.alerts)
         /\ estate.series \in [Metrics -> Seq(Nat)]
<1>1. estate.series \in [Metrics -> Seq(Nat)]
  BY EstatesAssumption DEF Listing
<1>2. \A i \in DOMAIN alerts : \E j \in DOMAIN estate.alerts : alerts[i] = estate.alerts[j]
  <2>1. \A i \in DOMAIN alerts : alerts[i] \in ToSet(estate.alerts)
    <3>1. \A S : \A list \in Seq(S) : \A i \in DOMAIN list : list[i] \in S
      OBVIOUS
    <3> QED
      BY <3>1, Zenon DEF Listing
  <2> QED
    BY <2>1, Zenon DEF ToSet
<1>3. LevelsOf(alerts) \subseteq LevelsOf(estate.alerts)
  BY <1>2, Zenon DEF LevelsOf
<1> QED
  BY <1>1, <1>3

(* For any resource, page size and limit, and whatever could not be fetched, *)
(* the verdict of a diagnosis is never worse than what is true, and it is    *)
(* the truth when everything was fetched and no alert was cut off            *)
(* (rollup_verdict of analysis.py, _vrops_diagnose of diagnose.py, the pages *)
(* of get_alerts of vrops_client.py).                                        *)
THEOREM DiagnosisVerdictTrue == ToolSpec => []VerdictTrue
<1>1. ASSUME Listing, Known, pc = "reported"
      PROVE  /\ Badness(verdict) <= Badness(TrueVerdict)
             /\ (failed = {} /\ Len(estate.alerts) < MaxAlerts) => verdict = TrueVerdict
  <2>1. /\ health \in {estate.health, "unknown"}
        /\ series \in {Nothing, estate.series}
        /\ verdict = Rollup(health, LevelsOf(alerts), series)
        /\ failed = {} => health = estate.health /\ series = estate.series
    BY <1>1 DEF Known
  <2>2. /\ LevelsOf(alerts) \subseteq LevelsOf(estate.alerts)
        /\ estate.series \in [Metrics -> Seq(Nat)]
    BY <1>1, LevelsFetched
  <2>3. (failed = {} /\ Len(estate.alerts) < MaxAlerts) => alerts = estate.alerts
    BY <1>1 DEF Listing
  <2>4. /\ verdict \in {"OK", "WARNING", "CRITICAL"}
        /\ verdict = "CRITICAL" => IsCritical
        /\ verdict = "WARNING" => ~IsSound
        /\ (/\ health = estate.health
            /\ LevelsOf(alerts) = LevelsOf(estate.alerts)
            /\ series = estate.series) => verdict = TrueVerdict
    BY <2>1, <2>2, VerdictOf
  <2>5. Badness(verdict) <= Badness(TrueVerdict)
    BY <2>4, BadnessOf DEF TrueVerdict
  <2> QED
    BY <2>1, <2>3, <2>4, <2>5
<1>2. Listing /\ Known => VerdictTrue
  BY <1>1 DEF VerdictTrue
<1> QED
  BY <1>2, ListingHolds, KnownHolds, PTL

-----------------------------------------------------------------------------
(* Sums over a series, and the trend they make.                              *)

(* Some naturals, if there are any, have a least one.                        *)
LEMMA LeastOne ==
  ASSUME NEW T, T \subseteq Nat, T # {}
  PROVE  \E n \in T : \A m \in T : n <= m
<1>1. PICK n \in T : \A m \in T : <<m, n>> \notin OpToRel(<, Nat)
  BY NatLessThanWellFounded, WFMin
<1>2. \A m \in T : <<m, n>> \in Nat \X Nat
  OBVIOUS
<1>3. \A m \in T : ~(m < n)
  BY <1>1, <1>2 DEF OpToRel
<1> QED
  BY <1>3

(* A set of numbers with 0 and with the successor of each of its elements.   *)
LEMMA AllNaturals ==
  ASSUME NEW T, 0 \in T, \A n \in Nat : n \in T => n + 1 \in T
  PROVE  Nat \subseteq T
<1>1. SUFFICES ASSUME Nat \ T # {}
               PROVE  FALSE
  OBVIOUS
<1>2. PICK n \in Nat \ T : \A m \in Nat \ T : n <= m
  <2>1. Nat \ T \subseteq Nat
    OBVIOUS
  <2> QED
    BY <1>1, <2>1, LeastOne
<1>3. n # 0 /\ n - 1 \in Nat /\ ~(n <= n - 1) /\ (n - 1) + 1 = n
  BY <1>2
<1>4. n - 1 \in T
  BY <1>2, <1>3
<1> QED
  BY <1>2, <1>3, <1>4

(* The last of some positions.                                               *)
LEMMA LastPosition ==
  ASSUME NEW n \in Nat, NEW X, X \subseteq 1 .. n, X # {}
  PROVE  Max(X) \in X /\ \A y \in X : y <= Max(X)
<1> DEFINE T == {n - x : x \in X}
<1>1. \A x \in X : x \in 1 .. n
  OBVIOUS
<1>2. T \subseteq Nat /\ T # {}
  <2>1. \A x \in X : n - x \in Nat
    BY <1>1
  <2>2. PICK x \in X : TRUE
    OBVIOUS
  <2>3. n - x \in T
    OBVIOUS
  <2> QED
    BY <2>1, <2>3
<1>3. PICK d \in T : \A m \in T : d <= m
  <2> HIDE DEF T
  <2> QED
    BY <1>2, LeastOne
<1>4. PICK x \in X : d = n - x
  BY <1>3
<1>5. \A y \in X : y <= x
  <2>1. ASSUME NEW y \in X
        PROVE  y <= x
    <3>1. n - y \in T
      OBVIOUS
    <3>2. n - x <= n - y
      BY <1>3, <1>4, <3>1
    <3> QED
      BY <1>1, <3>2
  <2> QED
    BY <2>1
<1>6. \E z \in X : \A y \in X : z >= y
  BY <1>1, <1>5
<1> HIDE DEF T
<1>7. Max(X) \in X /\ \A y \in X : Max(X) >= y
  BY <1>6 DEF Max
<1> QED
  BY <1>1, <1>7

(* What a sum is made of: a fold takes the last position off a set of them.  *)
LEMMA TotalFolds ==
  ASSUME NEW n \in Nat, NEW s, DOMAIN s = 1 .. n
  PROVE  \E f : /\ f[{}] = 0
                /\ \A X \in SUBSET (1 .. n) : X # {} => f[X] = f[X \ {Max(X)}] + s[Max(X)]
                /\ Total(s) = f[1 .. n]
<1> DEFINE more(g, X) == IF X = {} THEN 0 ELSE g[X \ {Max(X)}] + s[Max(X)]
           folds(g, P) == g = [X \in SUBSET P |-> more(g, X)]
           T == {c \in Nat : \E g : folds(g, 1 .. c)}
<1>1. 0 \in T
  <2> DEFINE g == [X \in SUBSET (1 .. 0) |-> 0]
  <2>1. \A X \in SUBSET (1 .. 0) : X = {}
    OBVIOUS
  <2>2. g = [X \in SUBSET (1 .. 0) |-> more(g, X)]
    BY <2>1, Zenon
  <2> QED
    BY <2>2
<1>2. ASSUME NEW c \in Nat, c \in T
      PROVE  c + 1 \in T
  <2>1. PICK f : folds(f, 1 .. c)
    BY <1>2
  <2> DEFINE g == [X \in SUBSET (1 .. c + 1) |-> more(f, X)]
  <2>2. ASSUME NEW X \in SUBSET (1 .. c + 1), X # {}
        PROVE  X \ {Max(X)} \in SUBSET (1 .. c)
    <3>1. c + 1 \in Nat /\ X \subseteq 1 .. c + 1
      OBVIOUS
    <3>2. Max(X) \in X /\ \A y \in X : y <= Max(X)
      <4> HIDE DEF T
      <4> QED
        BY <2>2, <3>1, LastPosition
    <3>3. ASSUME NEW y \in X, y # Max(X)
          PROVE  y \in 1 .. c
      <4>1. y \in 1 .. c + 1 /\ Max(X) \in 1 .. c + 1 /\ y <= Max(X)
        BY <3>1, <3>2
      <4> HIDE DEF T
      <4> QED
        BY <3>3, <4>1
    <3> QED
      BY <3>3
  <2>3. \A X \in SUBSET (1 .. c) : X \in SUBSET (1 .. c + 1) /\ g[X] = f[X]
    <3>1. \A X \in SUBSET (1 .. c) : X \in SUBSET (1 .. c + 1)
      OBVIOUS
    <3>2. \A X \in SUBSET (1 .. c) : f[X] = more(f, X)
      <4> HIDE DEF more
      <4> QED
        BY <2>1
    <3>3. \A X \in SUBSET (1 .. c + 1) : g[X] = more(f, X)
      <4> HIDE DEF more
      <4> QED
        OBVIOUS
    <3> HIDE DEF more, g
    <3> QED
      BY <3>1, <3>2, <3>3
  <2>4. \A X \in SUBSET (1 .. c + 1) : more(f, X) = more(g, X)
    <3> HIDE DEF g
    <3> QED
      BY <2>2, <2>3
  <2>5. folds(g, 1 .. c + 1)
    <3> HIDE DEF more
    <3> QED
      BY <2>4
  <2> HIDE DEF folds, g
  <2> QED
    BY <2>5
<1>3. n \in T
  <2> HIDE DEF T
  <2> QED
    BY <1>1, <1>2, AllNaturals
<1>4. \E g : folds(g, 1 .. n)
  BY <1>3
<1> DEFINE f == CHOOSE g : folds(g, 1 .. n)
<1>5. folds(f, 1 .. n)
  <2> HIDE DEF folds
  <2> QED
    BY <1>4
<1>6. Total(s) = f[1 .. n]
  BY DEF Total, FoldLeft, MapThenFoldSet
<1> HIDE DEF f
<1>7. \A X \in SUBSET (1 .. n) : f[X] = more(f, X)
  <2> HIDE DEF more
  <2> QED
    BY <1>5
<1>8. {} \in SUBSET (1 .. n)
  OBVIOUS
<1> QED
  BY <1>6, <1>7, <1>8

\* The sums of the beginnings of a series.
Sums(f, s, n) ==
  /\ f \in [0 .. n -> Int] /\ f[0] = 0
  /\ \A k \in 0 .. n - 1 : f[k + 1] = f[k] + s[k + 1]
  /\ f[n] = Total(s)

LEMMA TotalSteps ==
  ASSUME NEW n \in Nat, NEW s \in [1 .. n -> Int]
  PROVE  \E f : Sums(f, s, n)
<1>1. PICK fold : /\ fold[{}] = 0
                  /\ \A X \in SUBSET (1 .. n) : X # {} => fold[X] = fold[X \ {Max(X)}] + s[Max(X)]
                  /\ Total(s) = fold[1 .. n]
  BY TotalFolds
<1> DEFINE f == [k \in 0 .. n |-> fold[1 .. k]]
           T == {k \in Nat : k <= n => f[k] \in Int}
<1>2. f[0] = 0 /\ f[n] = Total(s)
  <2>1. 1 .. 0 = {} /\ 0 \in 0 .. n /\ n \in 0 .. n
    OBVIOUS
  <2> QED
    BY <1>1, <2>1
<1>3. ASSUME NEW k \in 0 .. n - 1
      PROVE  f[k + 1] = f[k] + s[k + 1]
  <2> DEFINE X == 1 .. k + 1
  <2>1. /\ k \in Nat /\ k \in 0 .. n /\ k + 1 \in 0 .. n /\ k + 1 \in Nat
        /\ X \in SUBSET (1 .. n) /\ X # {} /\ k + 1 \in X
        /\ X \ {k + 1} = 1 .. k
        /\ \A y \in X : y <= k + 1
    OBVIOUS
  <2>2. Max(X) = k + 1
    <3>1. Max(X) \in X /\ \A y \in X : y <= Max(X)
      <4> HIDE DEF X, f, T
      <4> QED
        BY <2>1, LastPosition
    <3> QED
      BY <2>1, <3>1
  <2>3. fold[X] = fold[1 .. k] + s[k + 1]
    <3> HIDE DEF X, f, T
    <3> QED
      BY <1>1, <2>1, <2>2
  <2>4. f[k + 1] = fold[X] /\ f[k] = fold[1 .. k]
    BY <2>1
  <2> HIDE DEF X, f, T
  <2> QED
    BY <2>3, <2>4
<1>4. Nat \subseteq T
  <2>1. 0 \in T
    BY <1>2
  <2>2. ASSUME NEW k \in Nat, k \in T
        PROVE  k + 1 \in T
    <3> SUFFICES ASSUME k + 1 <= n
                 PROVE  f[k + 1] \in Int
      OBVIOUS
    <3>1. k \in 0 .. n - 1 /\ k + 1 \in 1 .. n /\ k <= n
      OBVIOUS
    <3>2. f[k] \in Int
      BY <2>2, <3>1
    <3>3. s[k + 1] \in Int
      BY <3>1
    <3>4. f[k + 1] = f[k] + s[k + 1]
      BY <1>3, <3>1
    <3> HIDE DEF f
    <3> QED
      BY <3>2, <3>3, <3>4
  <2> HIDE DEF T
  <2> QED
    BY <2>1, <2>2, AllNaturals
<1>5. f \in [0 .. n -> Int]
  <2>1. \A k \in 0 .. n : k \in Nat /\ k <= n
    OBVIOUS
  <2>2. \A k \in 0 .. n : f[k] \in Int
    <3> HIDE DEF f
    <3> QED
      BY <1>4, <2>1
  <2>3. f = [k \in 0 .. n |-> f[k]]
    OBVIOUS
  <2> HIDE DEF f
  <2> QED
    BY <2>2, <2>3
<1> HIDE DEF f
<1> QED
  BY <1>2, <1>3, <1>5 DEF Sums

LEMMA TotalWhole ==
  ASSUME NEW n \in Nat, NEW s \in [1 .. n -> Int]
  PROVE  Total(s) \in Int
<1>1. PICK f : Sums(f, s, n)
  BY TotalSteps
<1> QED
  BY <1>1 DEF Sums

(* Sums of sums.                                                             *)
LEMMA TotalAdds ==
  ASSUME NEW n \in Nat, NEW s \in [1 .. n -> Int], NEW t \in [1 .. n -> Int],
         NEW u \in [1 .. n -> Int], \A i \in 1 .. n : u[i] = s[i] + t[i]
  PROVE  Total(u) = Total(s) + Total(t)
<1>1. PICK f : Sums(f, s, n)
  BY TotalSteps
<1>2. PICK g : Sums(g, t, n)
  BY TotalSteps
<1>3. PICK h : Sums(h, u, n)
  BY TotalSteps
<1> DEFINE T == {k \in Nat : k <= n => h[k] = f[k] + g[k]}
<1>4. 0 \in T
  BY <1>1, <1>2, <1>3 DEF Sums
<1>5. ASSUME NEW k \in Nat, k \in T
      PROVE  k + 1 \in T
  <2> SUFFICES ASSUME k + 1 <= n
               PROVE  h[k + 1] = f[k + 1] + g[k + 1]
    OBVIOUS
  <2>1. k \in 0 .. n - 1 /\ k + 1 \in 1 .. n /\ k \in 0 .. n
    OBVIOUS
  <2>2. h[k] = f[k] + g[k]
    BY <1>5, <2>1
  <2>3. /\ f[k + 1] = f[k] + s[k + 1] /\ g[k + 1] = g[k] + t[k + 1] /\ h[k + 1] = h[k] + u[k + 1]
        /\ f[k] \in Int /\ g[k] \in Int /\ h[k] \in Int
    BY <1>1, <1>2, <1>3, <2>1 DEF Sums
  <2>4. s[k + 1] \in Int /\ t[k + 1] \in Int /\ u[k + 1] = s[k + 1] + t[k + 1]
    BY <2>1
  <2> QED
    BY <2>2, <2>3, <2>4
<1>6. n \in T
  <2> HIDE DEF T
  <2> QED
    BY <1>4, <1>5, AllNaturals
<1> QED
  BY <1>1, <1>2, <1>3, <1>6 DEF Sums

LEMMA TotalNotNegative ==
  ASSUME NEW n \in Nat, NEW s \in [1 .. n -> Int], \A i \in 1 .. n : s[i] >= 0
  PROVE  Total(s) >= 0
<1>1. PICK f : Sums(f, s, n)
  BY TotalSteps
<1> DEFINE T == {k \in Nat : k <= n => f[k] >= 0}
<1>2. 0 \in T
  BY <1>1 DEF Sums
<1>3. ASSUME NEW k \in Nat, k \in T
      PROVE  k + 1 \in T
  <2> SUFFICES ASSUME k + 1 <= n
               PROVE  f[k + 1] >= 0
    OBVIOUS
  <2>1. k \in 0 .. n - 1 /\ k + 1 \in 1 .. n /\ k \in 0 .. n
    OBVIOUS
  <2>2. f[k + 1] = f[k] + s[k + 1] /\ f[k] \in Int /\ f[k] >= 0
    BY <1>1, <1>3, <2>1 DEF Sums
  <2>3. s[k + 1] \in Int /\ s[k + 1] >= 0
    BY <2>1
  <2> QED
    BY <2>2, <2>3
<1>4. n \in T
  <2> HIDE DEF T
  <2> QED
    BY <1>2, <1>3, AllNaturals
<1> QED
  BY <1>1, <1>4 DEF Sums

(* The order does not matter: what is summed from the front is what is left  *)
(* to be summed from the back.                                               *)
LEMMA TotalReversed ==
  ASSUME NEW n \in Nat, NEW s \in [1 .. n -> Int], NEW t \in [1 .. n -> Int],
         \A i \in 1 .. n : t[i] = s[n + 1 - i]
  PROVE  Total(t) = Total(s)
<1>1. PICK f : Sums(f, s, n)
  BY TotalSteps
<1>2. PICK g : Sums(g, t, n)
  BY TotalSteps
<1> DEFINE T == {k \in Nat : k <= n => f[k] + g[n - k] = Total(t)}
<1>3. 0 \in T
  <2>1. n - 0 = n /\ n \in 0 .. n
    OBVIOUS
  <2> QED
    BY <1>1, <1>2, <2>1 DEF Sums
<1>4. ASSUME NEW k \in Nat, k \in T
      PROVE  k + 1 \in T
  <2> SUFFICES ASSUME k + 1 <= n
               PROVE  f[k + 1] + g[n - (k + 1)] = Total(t)
    OBVIOUS
  <2> DEFINE m == n - (k + 1)
  <2>1. /\ k \in 0 .. n - 1 /\ k + 1 \in 1 .. n /\ k \in 0 .. n
        /\ m \in 0 .. n - 1 /\ m \in 0 .. n /\ m + 1 = n - k /\ m + 1 \in 1 .. n
        /\ n + 1 - (m + 1) = k + 1
    OBVIOUS
  <2>2. f[k] + g[m + 1] = Total(t)
    <3>1. k <= n => f[k] + g[n - k] = Total(t)
      BY <1>4
    <3>2. k <= n /\ n - k = m + 1
      BY <2>1
    <3> HIDE DEF m, T
    <3> QED
      BY <3>1, <3>2, Zenon
  <2> HIDE DEF m
  <2>3. /\ f[k + 1] = f[k] + s[k + 1] /\ g[m + 1] = g[m] + t[m + 1]
        /\ f[k] \in Int /\ g[m] \in Int
    BY <1>1, <1>2, <2>1 DEF Sums
  <2>4. t[m + 1] = s[k + 1] /\ s[k + 1] \in Int
    BY <2>1
  <2>5. f[k + 1] + g[m] = Total(t)
    BY <2>2, <2>3, <2>4
  <2> QED
    BY <2>5 DEF m
<1>5. n \in T
  <2> HIDE DEF T
  <2> QED
    BY <1>3, <1>4, AllNaturals
<1>6. n - n = 0 /\ n \in 0 .. n
  OBVIOUS
<1> QED
  BY <1>1, <1>2, <1>5, <1>6 DEF Sums

\* What a change over the window adds up, sample by sample.
Terms(s) == [i \in 1 .. Len(s) |-> Offset(s, i) * s[i]]

LEMMA ReversedSeries ==
  ASSUME NEW s \in Seq(Nat)
  PROVE  /\ Reverse(s) \in Seq(Nat) /\ Len(Reverse(s)) = Len(s)
         /\ \A i \in 1 .. Len(s) : Len(s) + 1 - i \in 1 .. Len(s) /\ Reverse(s)[i] = s[Len(s) + 1 - i]
<1> DEFINE n == Len(s)
<1>1. n \in Nat /\ \A i \in 1 .. n : s[i] \in Nat
  OBVIOUS
<1>2. Reverse(s) = [i \in 1 .. n |-> s[(n - i) + 1]]
  BY DEF Reverse
<1> HIDE DEF n
<1>3. \A i \in 1 .. n : (n - i) + 1 = n + 1 - i /\ n + 1 - i \in 1 .. n
  BY <1>1
<1>4. \A i \in 1 .. n : Reverse(s)[i] = s[n + 1 - i] /\ s[n + 1 - i] \in Nat
  BY <1>1, <1>2, <1>3
<1>5. Reverse(s) \in [1 .. n -> Nat]
  BY <1>1, <1>2, <1>3
<1>6. Reverse(s) \in Seq(Nat) /\ Len(Reverse(s)) = n
  BY <1>1, <1>5
<1> QED
  BY <1>3, <1>4, <1>6 DEF n

LEMMA TermsWhole ==
  ASSUME NEW s \in Seq(Nat)
  PROVE  /\ Terms(s) \in [1 .. Len(s) -> Int] /\ Len(s) \in Nat
         /\ Rise(s) = Total(Terms(s)) /\ Rise(s) \in Int
         /\ \A i \in 1 .. Len(s) : Terms(s)[i] = (2 * i - Len(s) - 1) * s[i]
<1>1. Len(s) \in Nat
  OBVIOUS
<1>2. ASSUME NEW i \in 1 .. Len(s)
      PROVE  (2 * i - Len(s) - 1) * s[i] \in Int
  <2>1. s[i] \in Int /\ 2 * i - Len(s) - 1 \in Int
    OBVIOUS
  <2> QED
    BY <2>1
<1>3. Terms(s) = [i \in 1 .. Len(s) |-> (2 * i - Len(s) - 1) * s[i]]
  BY DEF Terms, Offset
<1>4. Rise(s) = Total(Terms(s))
  BY DEF Rise, Terms
<1>5. Terms(s) \in [1 .. Len(s) -> Int]
  BY <1>2, <1>3
<1> QED
  BY <1>1, <1>3, <1>4, <1>5, TotalWhole

(* Backwards the change is the opposite.                                     *)
LEMMA RiseReversed ==
  ASSUME NEW s \in Seq(Nat)
  PROVE  /\ Rise(Reverse(s)) = -Rise(s)
         /\ \E back \in [1 .. Len(s) -> Int] :
              /\ Total(back) = Rise(s)
              /\ \A i \in 1 .. Len(s) : back[i] = -((2 * i - Len(s) - 1) * s[Len(s) + 1 - i])
<1> DEFINE n == Len(s)
           r == Reverse(s)
           t == Terms(s)
           u == Terms(r)
           back == [i \in 1 .. n |-> t[n + 1 - i]]
           zero == [i \in 1 .. n |-> 0]
<1>1. /\ n \in Nat /\ t \in [1 .. n -> Int] /\ Rise(s) = Total(t)
      /\ \A i \in 1 .. n : t[i] = (2 * i - n - 1) * s[i]
  BY TermsWhole
<1>2. /\ r \in Seq(Nat) /\ Len(r) = n
      /\ \A i \in 1 .. n : n + 1 - i \in 1 .. n /\ r[i] = s[n + 1 - i]
  BY ReversedSeries
<1>3. /\ u \in [1 .. n -> Int] /\ Rise(r) = Total(u)
      /\ \A i \in 1 .. n : u[i] = (2 * i - n - 1) * r[i]
  <2> HIDE DEF n, r
  <2>1. /\ Terms(r) \in [1 .. Len(r) -> Int]
        /\ Rise(r) = Total(Terms(r))
        /\ \A i \in 1 .. Len(r) : Terms(r)[i] = (2 * i - Len(r) - 1) * r[i]
    BY <1>2, TermsWhole
  <2> QED
    BY <1>2, <2>1
<1>4. ASSUME NEW i \in 1 .. n
      PROVE  /\ back[i] \in Int /\ back[i] = -((2 * i - n - 1) * s[n + 1 - i])
             /\ back[i] = -u[i]
  <2> DEFINE j == n + 1 - i
  <2>1. j \in 1 .. n /\ 2 * j - n - 1 = -(2 * i - n - 1) /\ 2 * i - n - 1 \in Int
    BY <1>1
  <2>2. back[i] = t[j] /\ t[j] = (2 * j - n - 1) * s[j] /\ u[i] = (2 * i - n - 1) * s[j]
    BY <1>1, <1>2, <1>3, <2>1
  <2>3. s[j] \in Int /\ t[j] \in Int
    <3>1. \A k \in 1 .. n : s[k] \in Int
      OBVIOUS
    <3> HIDE DEF j, n, r, t, u, back
    <3> QED
      BY <1>1, <2>1, <3>1
  <2>4. ASSUME NEW a \in Int, NEW b \in Int
        PROVE  (-a) * b = -(a * b)
    OBVIOUS
  <2> HIDE DEF j, n, r, t, u, back
  <2>5. t[j] = (-(2 * i - n - 1)) * s[j]
    BY <2>1, <2>2
  <2>6. t[j] = -((2 * i - n - 1) * s[j])
    BY <2>1, <2>3, <2>4, <2>5
  <2> QED
    BY <2>2, <2>3, <2>6 DEF j
<1>5. back \in [1 .. n -> Int] /\ zero \in [1 .. n -> Int]
  <2>1. zero \in [1 .. n -> Int] /\ back = [i \in 1 .. n |-> back[i]]
    OBVIOUS
  <2> HIDE DEF back, zero, n
  <2> QED
    BY <1>4, <2>1
<1>6. Total(back) = Total(t)
  <2>1. \A i \in 1 .. n : back[i] = t[n + 1 - i]
    OBVIOUS
  <2> HIDE DEF back, t, n
  <2> QED
    BY <1>1, <1>5, <2>1, TotalReversed
<1>7. Total(zero) = 0
  <2>1. \A i \in 1 .. n : zero[i] = zero[i] + zero[i]
    OBVIOUS
  <2> HIDE DEF zero, n
  <2>2. Total(zero) = Total(zero) + Total(zero) /\ Total(zero) \in Int
    BY <1>1, <1>5, <2>1, TotalAdds, TotalWhole
  <2> QED
    BY <2>2
<1>8. Total(zero) = Total(back) + Total(u)
  <2>1. \A i \in 1 .. n : zero[i] = 0
    OBVIOUS
  <2> HIDE DEF zero, back, u, n
  <2>2. \A i \in 1 .. n : zero[i] = back[i] + u[i]
    BY <1>3, <1>4, <2>1
  <2> QED
    BY <1>1, <1>3, <1>5, <2>2, TotalAdds
<1> HIDE DEF zero, back, u, t, r
<1>9. Total(back) \in Int /\ Total(u) \in Int
  BY <1>1, <1>3, <1>5, TotalWhole
<1>10. Rise(r) = -Rise(s) /\ Total(back) = Rise(s)
  BY <1>1, <1>3, <1>6, <1>7, <1>8, <1>9
<1> QED
  BY <1>4, <1>5, <1>10 DEF r

LEMMA Climbing ==
  ASSUME NEW s \in Seq(Nat), \A i \in 1 .. Len(s) - 1 : s[i] <= s[i + 1],
         NEW i \in 1 .. Len(s), NEW j \in 1 .. Len(s), i <= j
  PROVE  s[i] <= s[j]
<1> DEFINE T == {d \in Nat : i + d <= Len(s) => s[i] <= s[i + d]}
<1>1. Len(s) \in Nat /\ \A k \in 1 .. Len(s) : s[k] \in Nat
  OBVIOUS
<1>2. 0 \in T
  BY <1>1
<1>3. ASSUME NEW d \in Nat, d \in T
      PROVE  d + 1 \in T
  <2> SUFFICES ASSUME i + (d + 1) <= Len(s)
               PROVE  s[i] <= s[i + (d + 1)]
    OBVIOUS
  <2>1. /\ i + d \in 1 .. Len(s) - 1 /\ i + (d + 1) = (i + d) + 1 /\ i + d <= Len(s)
        /\ i + d \in 1 .. Len(s) /\ (i + d) + 1 \in 1 .. Len(s)
    BY <1>1
  <2>2. s[i] <= s[i + d] /\ s[i + d] <= s[(i + d) + 1]
    BY <1>3, <2>1
  <2> QED
    BY <1>1, <2>1, <2>2
<1>4. j - i \in Nat /\ i + (j - i) = j /\ j <= Len(s)
  OBVIOUS
<1>5. j - i \in T
  <2> HIDE DEF T
  <2> QED
    BY <1>2, <1>3, <1>4, AllNaturals
<1> QED
  BY <1>4, <1>5

(* What never goes down has not gone down: what a sample and its opposite    *)
(* add to the change is not negative.                                        *)
LEMMA RiseClimbing ==
  ASSUME NEW s \in Seq(Nat), \A i \in 1 .. Len(s) - 1 : s[i] <= s[i + 1]
  PROVE  Rise(s) >= 0
<1> DEFINE n == Len(s)
           t == Terms(s)
<1>1. /\ n \in Nat /\ t \in [1 .. n -> Int] /\ Rise(s) = Total(t) /\ Rise(s) \in Int
      /\ \A i \in 1 .. n : t[i] = (2 * i - n - 1) * s[i]
  BY TermsWhole
<1>2. PICK back \in [1 .. n -> Int] :
        /\ Total(back) = Rise(s)
        /\ \A i \in 1 .. n : back[i] = -((2 * i - n - 1) * s[n + 1 - i])
  BY RiseReversed
<1> DEFINE both == [i \in 1 .. n |-> t[i] + back[i]]
<1>3. \A i \in 1 .. n : s[i] \in Nat
  OBVIOUS
<1>4. ASSUME NEW i \in 1 .. n
      PROVE  t[i] + back[i] >= 0
  <2> DEFINE j == n + 1 - i
             w == 2 * i - n - 1
  <2>1. j \in 1 .. n /\ w \in Int /\ (w > 0 => j <= i) /\ (w <= 0 => i <= j)
    BY <1>1
  <2>2. w > 0 => s[j] <= s[i]
    BY <2>1, Climbing
  <2>3. w <= 0 => s[i] <= s[j]
    BY <2>1, Climbing
  <2>4. t[i] = w * s[i] /\ back[i] = -(w * s[j]) /\ s[i] \in Nat /\ s[j] \in Nat
    BY <1>1, <1>2, <1>3, <2>1
  <2>5. ASSUME NEW a \in Int, NEW b \in Nat, NEW c \in Nat, a > 0 => c <= b, a <= 0 => b <= c
        PROVE  a * b + -(a * c) >= 0
    <3>1. a * b + -(a * c) = a * (b - c)
      OBVIOUS
    <3>2. a * (b - c) >= 0
      <4>1. CASE a > 0
        BY <2>5, <4>1
      <4>2. CASE a <= 0
        BY <2>5, <4>2
      <4> QED
        BY <4>1, <4>2
    <3> QED
      BY <3>1, <3>2
  <2> HIDE DEF j, w, n, t
  <2> QED
    BY <2>1, <2>2, <2>3, <2>4, <2>5
<1>5. both \in [1 .. n -> Int] /\ \A i \in 1 .. n : both[i] = t[i] + back[i]
  <2> HIDE DEF t, n
  <2> QED
    BY <1>1, <1>2
<1> HIDE DEF both, t, n
<1>6. Total(both) >= 0
  BY <1>1, <1>4, <1>5, TotalNotNegative
<1>7. Total(both) = Total(t) + Total(back)
  BY <1>1, <1>2, <1>5, TotalAdds
<1> QED
  BY <1>1, <1>2, <1>6, <1>7

LEMMA TrendOf ==
  ASSUME NEW s \in Seq(Nat)
  PROVE  /\ Trend(Reverse(s)) = Opposite(Trend(s))
         /\ (\A i \in 1 .. Len(s) - 1 : s[i] <= s[i + 1]) => Trend(s) # "falling"
<1> DEFINE r == Reverse(s)
           still(q, c) == \/ Len(q) < 2
                         \/ c = 0
                         \/ 40 * Absolute(c) * (Len(q) - 1) * Len(q) < Total(q) * SumSq(q)
<1>1. /\ r \in Seq(Nat) /\ Len(r) = Len(s)
      /\ \A i \in 1 .. Len(s) : r[i] = s[Len(s) + 1 - i]
  BY ReversedSeries
<1>2. Rise(r) = -Rise(s) /\ Rise(s) \in Int
  BY RiseReversed, TermsWhole
<1>3. Absolute(-Rise(s)) = Absolute(Rise(s)) /\ (-Rise(s) = 0 <=> Rise(s) = 0)
  BY <1>2 DEF Absolute
<1>4. Total(r) = Total(s)
  <2> HIDE DEF r
  <2>1. Len(s) \in Nat /\ s \in [1 .. Len(s) -> Int]
    OBVIOUS
  <2>2. r \in [1 .. Len(s) -> Int]
    BY <1>1
  <2> QED
    BY <1>1, <2>1, <2>2, TotalReversed
<1>5. SumSq(r) = SumSq(s)
  <2> HIDE DEF r
  <2> QED
    BY <1>1 DEF SumSq, Offset
<1>6. still(r, Rise(r)) <=> still(s, Rise(s))
  <2> HIDE DEF r
  <2> QED
    BY <1>1, <1>2, <1>3, <1>4, <1>5
<1>7. /\ Trend(s) = IF still(s, Rise(s)) THEN "stable" ELSE IF Rise(s) > 0 THEN "rising" ELSE "falling"
      /\ Trend(r) = IF still(r, Rise(r)) THEN "stable" ELSE IF Rise(r) > 0 THEN "rising" ELSE "falling"
  BY Zenon DEF Trend
<1>8. still(s, Rise(s)) \/ Rise(s) # 0
  OBVIOUS
<1> HIDE DEF still, r
<1>9. Trend(r) = Opposite(Trend(s))
  BY <1>2, <1>6, <1>7, <1>8 DEF Opposite
<1>10. ASSUME \A i \in 1 .. Len(s) - 1 : s[i] <= s[i + 1]
       PROVE  Trend(s) # "falling"
  <2>1. Rise(s) >= 0
    BY <1>10, RiseClimbing
  <2> QED
    BY <1>2, <1>7, <1>8, <2>1
<1> QED
  BY <1>9, <1>10 DEF r

(* Whatever samples are fetched, the trend that is reported of them is read  *)
(* backwards the opposite trend, and one that never goes down is never       *)
(* called falling: the change that compute_trend of analysis.py works out by *)
(* least squares has the sign it is meant to have, for a series of any       *)
(* length and of any values.                                                 *)
THEOREM DiagnosisTrendConsistent == ToolSpec => []TrendConsistent
<1>1. Listing => TrendConsistent
  <2>1. ASSUME Listing, NEW k \in Metrics
        PROVE  /\ Trend(Reverse(estate.series[k])) = Opposite(Trend(estate.series[k]))
               /\ (\A i \in 1 .. Len(estate.series[k]) - 1 :
                     estate.series[k][i] <= estate.series[k][i + 1])
                  => Trend(estate.series[k]) # "falling"
    <3>1. estate.series[k] \in Seq(Nat)
      BY <2>1, EstatesAssumption DEF Listing
    <3> QED
      BY <3>1, TrendOf
  <2> QED
    BY <2>1 DEF TrendConsistent
<1> QED
  BY <1>1, ListingHolds, PTL

-----------------------------------------------------------------------------
(* The types.                                                                *)

\* What TypeOK says beyond Listing and Known.
Shapes ==
  /\ estate.tool = "diagnose" => /\ pc # "summarized"
                                 /\ gaps \subseteq failed \cup {"metrics"}
                                 /\ failed \subseteq {"health", "alerts", "metrics"}
                                 /\ verdict \in {"none", "OK", "WARNING", "CRITICAL"}
  /\ asked \in Nat
  /\ named \subseteq estate.named \/ named = {}
  /\ pc = "summarized" <=> summary # <<>>

LEMMA DiagnoseShapes ==
  ASSUME Shapes, Next, estate.tool = "diagnose", UNCHANGED looked
  PROVE  Shapes'
<1>1. CASE Search
  BY <1>1 DEF Search, Shapes, looked
<1>2. CASE GetHealth
  BY <1>2 DEF GetHealth, Shapes, looked
<1>3. CASE AlertsPage
  BY <1>3 DEF AlertsPage, Shapes, looked
<1>4. CASE AlertsFail
  BY <1>4 DEF AlertsFail, Shapes, looked
<1>5. CASE GetSeries
  BY <1>5 DEF GetSeries, Shapes, looked
<1>6. CASE Report
  <2>1. verdict' \in {"OK", "WARNING", "CRITICAL"}
    BY <1>6 DEF Report, Rollup
  <2> QED
    BY <1>6, <2>1 DEF Report, Shapes, looked
<1> QED
  BY <1>1, <1>2, <1>3, <1>4, <1>5, <1>6 DEF Next

LEMMA GetAlertsShapes ==
  ASSUME Shapes, GetAlerts
  PROVE  Shapes'
<1>1. CASE BeginList
  BY <1>1 DEF BeginList, GetAlerts, Shapes, looked
<1>2. CASE AlertsPage /\ UNCHANGED looked
  BY <1>2 DEF AlertsPage, GetAlerts, Shapes, looked
<1>3. CASE AlertsFail /\ UNCHANGED looked
  BY <1>3 DEF AlertsFail, GetAlerts, Shapes, looked
<1>4. CASE FetchNames
  <2>1. asked + ChunkSize \in Nat
    BY SummaryAssumption DEF Shapes
  <2>2. named' \subseteq estate.named \/ named' = {}
    BY <1>4 DEF FetchNames, Shapes
  <2> QED
    BY <1>4, <2>1, <2>2 DEF FetchNames, GetAlerts, Shapes
<1>5. CASE Summarize
  <2>1. summary' # <<>>
    BY <1>5 DEF Summarize
  <2> QED
    BY <1>5, <2>1 DEF Summarize, GetAlerts, Shapes
<1> QED
  BY <1>1, <1>2, <1>3, <1>4, <1>5 DEF GetAlerts

LEMMA StutterShapes ==
  ASSUME Shapes, UNCHANGED toolVars
  PROVE  Shapes'
BY DEF toolVars, vars, looked, Shapes

LEMMA ShapesHold == ToolSpec => []Shapes
<1>1. ToolInit => Shapes
  BY DEF ToolInit, Init, Shapes
<1>2. Shapes /\ [ToolNext]_toolVars => Shapes'
  BY DiagnoseShapes, GetAlertsShapes, StutterShapes DEF ToolNext, Diagnose
<1> QED
  BY <1>1, <1>2, PTL DEF ToolSpec

(* The state of a call of either tool has its types.                         *)
THEOREM DiagnosisTypeCorrect == ToolSpec => []ToolTypeOK
<1>1. Shapes /\ Listing /\ Known => ToolTypeOK
  <2>1. ToSet(Verdicts) = {"OK", "WARNING", "CRITICAL"}
    BY DEF ToSet, Verdicts
  <2>2. ASSUME Shapes, Listing, Known, estate.tool = "diagnose"
        PROVE  TypeOK
    <3>1. pc \in {"search", "no diagnosis", "health", "alerts", "listed", "report", "reported"}
      BY <2>2 DEF Shapes, Listing, Stages
    <3> QED
      BY <2>1, <2>2, <3>1, Zenon DEF TypeOK, Shapes, Listing, Known
  <2> QED
    BY <2>2 DEF ToolTypeOK, Shapes
<1> QED
  BY <1>1, ShapesHold, ListingHolds, KnownHolds, PTL

-----------------------------------------------------------------------------
(* The summary.                                                              *)

(* The order of the alerts.                                                  *)
LEMMA RankOf ==
  ASSUME NEW level
  PROVE  /\ SeverityRank(level) \in 1 .. 5
         /\ level \in ToSet(SeverityOrder) <=> SeverityRank(level) < 5
         /\ level \in ToSet(SeverityOrder) =>
              SeverityRank(level) = CHOOSE i \in DOMAIN SeverityOrder : SeverityOrder[i] = level
<1>1. Len(SeverityOrder) = 4 /\ DOMAIN SeverityOrder = 1 .. 4
  BY DEF SeverityOrder
<1>2. Contains(SeverityOrder, level) <=> level \in ToSet(SeverityOrder)
  BY <1>1 DEF Contains, ToSet
<1>3. CASE level \in ToSet(SeverityOrder)
  <2> DEFINE at == CHOOSE i \in DOMAIN SeverityOrder : SeverityOrder[i] = level
  <2>1. SeverityRank(level) = at
    BY <1>2, <1>3 DEF SeverityRank
  <2>2. at \in DOMAIN SeverityOrder
    BY <1>3 DEF ToSet
  <2>3. SeverityRank(level) \in 1 .. 4
    <3> HIDE DEF at
    <3> QED
      BY <1>1, <2>1, <2>2
  <2>4. \A r \in 1 .. 4 : r \in 1 .. 5 /\ r < 5
    OBVIOUS
  <2> QED
    BY <1>3, <2>1, <2>3, <2>4, Zenon
<1>4. CASE level \notin ToSet(SeverityOrder)
  <2>1. SeverityRank(level) = 5
    BY <1>1, <1>2, <1>4 DEF SeverityRank
  <2> QED
    BY <1>4, <2>1
<1> QED
  BY <1>3, <1>4

LEMMA BeforeOrders ==
  ASSUME NEW T, \A a \in T : a.start \in Int
  PROVE  /\ \A a, b \in T : ~(Before(a, b) /\ Before(b, a))
         /\ \A a, b, c \in T : ~Before(a, b) /\ ~Before(b, c) => ~Before(a, c)
         /\ \A a, b \in T : ~Before(b, a) =>
              /\ ~LessSevere(a, b)
              /\ a.level = b.level => a.start >= b.start
<1>1. \A a \in T : SeverityRank(a.level) \in Int
  BY RankOf
<1>2. /\ \A a, b \in T : ~(Before(a, b) /\ Before(b, a))
      /\ \A a, b, c \in T : ~Before(a, b) /\ ~Before(b, c) => ~Before(a, c)
      /\ \A a, b \in T : ~Before(b, a) /\ a.level = b.level => a.start >= b.start
  BY <1>1 DEF Before
<1>3. ASSUME NEW a \in T, NEW b \in T, LessSevere(a, b)
      PROVE  Before(b, a)
  <2>1. SeverityRank(b.level) < SeverityRank(a.level)
    <3> DEFINE at(level) == CHOOSE i \in DOMAIN SeverityOrder : SeverityOrder[i] = level
    <3>1. /\ b.level \in ToSet(SeverityOrder)
          /\ a.level \in ToSet(SeverityOrder) => at(a.level) > at(b.level)
      BY <1>3 DEF LessSevere
    <3> HIDE DEF at
    <3>2. /\ SeverityRank(b.level) = at(b.level) /\ SeverityRank(b.level) < 5
          /\ SeverityRank(a.level) \in 1 .. 5 /\ SeverityRank(b.level) \in 1 .. 5
          /\ a.level \in ToSet(SeverityOrder) => SeverityRank(a.level) = at(a.level)
          /\ a.level \notin ToSet(SeverityOrder) => ~(SeverityRank(a.level) < 5)
      BY <3>1, RankOf DEF at
    <3> QED
      BY <3>1, <3>2
  <2> QED
    BY <2>1 DEF Before
<1> QED
  BY <1>2, <1>3

(* The alerts in their order.                                                *)
LEMMA AlertsRanked ==
  ASSUME NEW S, \A a \in S : a.start \in Int, NEW list \in Seq(S)
  PROVE  /\ Ranked(list, Before) \in Seq(S)
         /\ Len(Ranked(list, Before)) = Len(list)
         /\ \A a \in ToSet(list) : \E m \in DOMAIN Ranked(list, Before) : Ranked(list, Before)[m] = a
         /\ \A m, k \in DOMAIN Ranked(list, Before) : m < k =>
              LET a == Ranked(list, Before)[m]
                  b == Ranked(list, Before)[k]
              IN  /\ ~LessSevere(a, b)
                  /\ a.level = b.level => a.start >= b.start
<1> DEFINE P == DOMAIN list
           above == {w \in P \X P : Before(list[w[1]], list[w[2]])}
           sorted == Placed(list, above)
<1>1. \A i \in P : list[i] \in S
  OBVIOUS
<1>2. \A i, j \in P : <<i, j>> \in above <=> Before(list[i], list[j])
  OBVIOUS
<1>3. Ranked(list, Before) = sorted
  <2> DEFINE before(j, i) == Before(list[j], list[i]) \/ (j < i /\ ~Before(list[i], list[j]))
             ahead(i) == {j \in P \ {i} : before(j, i)}
             place(m) == CHOOSE i \in P : 1 + Cardinality(ahead(i)) = m
  <2>1. Ranked(list, Before) = [m \in P |-> list[place(m)]]
    BY DEF Ranked
  <2>2. \A i \in P : AheadOf(P, above, i) = ahead(i)
    BY <1>2 DEF AheadOf
  <2>3. \A m \in P : place(m) = PlacedAt(P, above, m)
    BY <2>2 DEF PlacedAt
  <2>4. sorted = [m \in P |-> list[PlacedAt(P, above, m)]]
    BY DEF Placed
  <2> HIDE DEF place, P, above, sorted
  <2> QED
    BY <2>1, <2>3, <2>4
<1> HIDE DEF above
<1>4. /\ \A i, j \in P : ~(<<i, j>> \in above /\ <<j, i>> \in above)
      /\ \A i, j, k \in P : <<i, j>> \notin above /\ <<j, k>> \notin above => <<i, k>> \notin above
  <2> HIDE DEF P
  <2> QED
    BY <1>1, <1>2, BeforeOrders
<1>5. /\ sorted \in Seq(S) /\ Len(sorted) = Len(list)
      /\ \A i \in P : \E m \in P : sorted[m] = list[i]
      /\ \A m, k \in P : m < k =>
           \E i, j \in P : sorted[m] = list[i] /\ sorted[k] = list[j] /\ <<j, i>> \notin above
  <2>1. /\ Placed(list, above) \in Seq(S)
        /\ Len(Placed(list, above)) = Len(list)
        /\ \A i \in DOMAIN list : \E m \in DOMAIN list : Placed(list, above)[m] = list[i]
        /\ \A m, k \in DOMAIN list : m < k =>
             \E i, j \in DOMAIN list : /\ Placed(list, above)[m] = list[i]
                                     /\ Placed(list, above)[k] = list[j]
                                     /\ <<j, i>> \notin above
    BY <1>4, PlacedElements
  <2> QED
    BY <2>1, Zenon
<1>6. DOMAIN sorted = P
  BY DEF Placed
<1> HIDE DEF sorted, P
<1>7. \A a \in ToSet(list) : \E m \in DOMAIN sorted : sorted[m] = a
  BY <1>5, <1>6 DEF ToSet, P
<1>8. ASSUME NEW m \in P, NEW k \in P, m < k
      PROVE  /\ ~LessSevere(sorted[m], sorted[k])
             /\ sorted[m].level = sorted[k].level => sorted[m].start >= sorted[k].start
  <2> DEFINE InOrder(x, y) == \E i, j \in P : sorted[x] = list[i] /\ sorted[y] = list[j] /\ <<j, i>> \notin above
  <2>1. \A x, y \in P : x < y => InOrder(x, y)
    BY <1>5, Zenon
  <2> HIDE DEF InOrder
  <2>2. InOrder(m, k)
    BY <1>8, <2>1
  <2>3. PICK i \in P, j \in P : sorted[m] = list[i] /\ sorted[k] = list[j] /\ <<j, i>> \notin above
    BY <2>2 DEF InOrder
  <2>4. ~Before(list[j], list[i]) /\ list[i] \in S /\ list[j] \in S
    BY <1>1, <1>2, <2>3
  <2>5. /\ ~LessSevere(list[i], list[j])
        /\ list[i].level = list[j].level => list[i].start >= list[j].start
    BY <2>4, BeforeOrders
  <2> QED
    BY <2>3, <2>5
<1> QED
  BY <1>3, <1>5, <1>6, <1>7, <1>8

\* The names, the most frequent first.
ByCount(list, count) == Ranked(list, LAMBDA n, m : count[n] > count[m])

LEMMA NamesRanked ==
  ASSUME NEW S, NEW list \in Seq(S), NEW count, \A n \in S : count[n] \in Nat
  PROVE  /\ ByCount(list, count) \in Seq(S)
         /\ \A n \in ToSet(list) : \E m \in DOMAIN ByCount(list, count) : ByCount(list, count)[m] = n
         /\ \A m, k \in DOMAIN ByCount(list, count) : m < k =>
              count[ByCount(list, count)[m]] >= count[ByCount(list, count)[k]]
<1> DEFINE P == DOMAIN list
           above == {w \in P \X P : count[list[w[1]]] > count[list[w[2]]]}
           sorted == Placed(list, above)
           ranked == ByCount(list, count)
<1>1. \A i \in P : count[list[i]] \in Nat
  OBVIOUS
<1>2. \A i, j \in P : <<i, j>> \in above <=> count[list[i]] > count[list[j]]
  OBVIOUS
<1>3. ranked = sorted
  <2> DEFINE before(j, i) == count[list[j]] > count[list[i]] \/ (j < i /\ ~(count[list[i]] > count[list[j]]))
             ahead(i) == {j \in P \ {i} : before(j, i)}
             place(m) == CHOOSE i \in P : 1 + Cardinality(ahead(i)) = m
  <2>1. ranked = [m \in P |-> list[place(m)]]
    BY DEF ByCount, Ranked
  <2>2. \A i \in P : AheadOf(P, above, i) = ahead(i)
    BY <1>2 DEF AheadOf
  <2>3. \A m \in P : place(m) = PlacedAt(P, above, m)
    BY <2>2 DEF PlacedAt
  <2>4. sorted = [m \in P |-> list[PlacedAt(P, above, m)]]
    BY DEF Placed
  <2> HIDE DEF place, P, above, sorted, ranked
  <2> QED
    BY <2>1, <2>3, <2>4
<1> HIDE DEF above, ranked
<1>4. /\ \A i, j \in P : ~(<<i, j>> \in above /\ <<j, i>> \in above)
      /\ \A i, j, k \in P : <<i, j>> \notin above /\ <<j, k>> \notin above => <<i, k>> \notin above
  <2> HIDE DEF P
  <2> QED
    BY <1>1, <1>2
<1>5. /\ sorted \in Seq(S) /\ Len(sorted) = Len(list)
      /\ \A i \in P : \E m \in P : sorted[m] = list[i]
      /\ \A m, k \in P : m < k =>
           \E i, j \in P : sorted[m] = list[i] /\ sorted[k] = list[j] /\ <<j, i>> \notin above
  <2>1. /\ Placed(list, above) \in Seq(S)
        /\ Len(Placed(list, above)) = Len(list)
        /\ \A i \in DOMAIN list : \E m \in DOMAIN list : Placed(list, above)[m] = list[i]
        /\ \A m, k \in DOMAIN list : m < k =>
             \E i, j \in DOMAIN list : /\ Placed(list, above)[m] = list[i]
                                     /\ Placed(list, above)[k] = list[j]
                                     /\ <<j, i>> \notin above
    BY <1>4, PlacedElements
  <2> QED
    BY <2>1, Zenon
<1>6. DOMAIN sorted = P
  BY DEF Placed
<1> HIDE DEF sorted, P
<1>7. \A n \in ToSet(list) : \E m \in DOMAIN sorted : sorted[m] = n
  BY <1>5, <1>6 DEF ToSet, P
<1>8. ASSUME NEW m \in P, NEW k \in P, m < k
      PROVE  count[sorted[m]] >= count[sorted[k]]
  <2> DEFINE InOrder(x, y) == \E i, j \in P : sorted[x] = list[i] /\ sorted[y] = list[j] /\ <<j, i>> \notin above
  <2>1. \A x, y \in P : x < y => InOrder(x, y)
    BY <1>5, Zenon
  <2> HIDE DEF InOrder
  <2>2. InOrder(m, k)
    BY <1>8, <2>1
  <2>3. PICK i \in P, j \in P : sorted[m] = list[i] /\ sorted[k] = list[j] /\ <<j, i>> \notin above
    BY <2>2 DEF InOrder
  <2> QED
    BY <1>1, <1>2, <2>3
<1> QED
  BY <1>3, <1>5, <1>6, <1>7, <1>8 DEF ranked

\* The alerts fetched are the first there are.
Part == \A i \in DOMAIN alerts : i \in DOMAIN estate.alerts /\ alerts[i] = estate.alerts[i]

LEMMA AlertsPagePart ==
  ASSUME Listing, AlertsPage
  PROVE  Part'
<1> DEFINE S == ToSet(estate.alerts)
           n == (page + 1) * PageSize
<1>1. /\ estate' = estate /\ estate.alerts \in Seq(S)
      /\ page \in Nat /\ PageSize \in Nat \ {0} /\ n \in Nat
      /\ alerts = First(estate.alerts, page * PageSize)
      /\ alerts' = alerts \o Page(estate.alerts, PageSize, page)
  BY EstatesAssumption, LimitsAssumption DEF Listing, AlertsPage, Batch
<1> HIDE DEF S
<1>2. alerts' = First(estate.alerts, n)
  <2>1. First(estate.alerts, page * PageSize) \o Page(estate.alerts, PageSize, page) = First(estate.alerts, n)
    <3>1. \A list \in Seq(S) : \A size \in Nat \ {0} : \A p \in Nat :
            First(list, p * size) \o Page(list, size, p) = First(list, (p + 1) * size)
      BY PageExtends
    <3> QED
      BY <1>1, <3>1, Zenon
  <2> QED
    BY <1>1, <2>1
<1> HIDE DEF n
<1>3. First(estate.alerts, n) = Top(estate.alerts, n)
  <2>1. ~(n < 0)
    BY <1>1
  <2> QED
    BY <2>1, Zenon DEF First, Top
<1>4. \A i \in DOMAIN Top(estate.alerts, n) :
        i \in DOMAIN estate.alerts /\ Top(estate.alerts, n)[i] = estate.alerts[i]
  BY <1>1, TopOf
<1> QED
  BY <1>1, <1>2, <1>3, <1>4 DEF Part

LEMMA ToolPart ==
  ASSUME Listing, Part, [ToolNext]_toolVars
  PROVE  Part'
<1>1. CASE AlertsPage
  BY <1>1, AlertsPagePart
<1>2. CASE AlertsFail
  <2>1. estate' = estate /\ (alerts' = alerts \/ alerts' = <<>>)
    BY <1>2 DEF AlertsFail
  <2>2. DOMAIN <<>> = {}
    OBVIOUS
  <2> QED
    BY <2>1, <2>2 DEF Part
<1>3. CASE UNCHANGED <<estate, alerts>>
  BY <1>3 DEF Part
<1>4. ToolNext => AlertsPage \/ AlertsFail \/ UNCHANGED <<estate, alerts>>
  BY DEF ToolNext, Diagnose, Next, GetAlerts, Search, GetHealth, GetSeries, Report, BeginList, FetchNames,
         Summarize
<1>5. UNCHANGED toolVars => UNCHANGED <<estate, alerts>>
  BY DEF toolVars, vars
<1> QED
  BY <1>1, <1>2, <1>3, <1>4, <1>5

\* The first elements of a list.
Upto(list, n) == {list[i] : i \in {j \in DOMAIN list : j <= n}}

LEMMA UptoGrows ==
  ASSUME NEW S, NEW list \in Seq(S), NEW n \in Nat, NEW size \in Nat
  PROVE  /\ Upto(list, 0) = {}
         /\ Upto(list, n + size) =
              Upto(list, n) \cup ToSet(SubSeq(list, n + 1, Smaller(n + size, Len(list))))
         /\ n >= Len(list) => Upto(list, n) = ToSet(list)
<1> DEFINE l == Len(list)
           e == Smaller(n + size, l)
           cut == SubSeq(list, n + 1, e)
<1>1. DOMAIN list = 1 .. l /\ l \in Nat /\ \A i \in 1 .. l : list[i] \in S
  OBVIOUS
<1> HIDE DEF l
<1>2. /\ e \in Nat /\ e <= l /\ e <= n + size
      /\ e = l \/ e = n + size
  BY <1>1 DEF Smaller
<1> HIDE DEF e, cut
<1>3. /\ cut \in Seq(S)
      /\ Len(cut) = IF n + 1 <= e THEN e - (n + 1) + 1 ELSE 0
      /\ \A i \in 1 .. e - (n + 1) + 1 : cut[i] = list[n + 1 + i - 1]
  <2>1. n + 1 \in Int /\ e \in Int /\ \A i \in n + 1 .. e : i \in 1 .. l
    BY <1>1, <1>2
  <2>2. \A i \in n + 1 .. e : list[i] \in S
    BY <1>1, <2>1
  <2> QED
    BY <2>1, <2>2, SubSeqProperties DEF cut
<1>4. DOMAIN cut = 1 .. e - n
  BY <1>2, <1>3
<1>5. \A i \in 1 .. e - n : cut[i] = list[n + i] /\ n + i \in DOMAIN list /\ n + i <= n + size
  <2> SUFFICES ASSUME NEW i \in 1 .. e - n
               PROVE  cut[i] = list[n + i] /\ n + i \in DOMAIN list /\ n + i <= n + size
    OBVIOUS
  <2>1. i \in 1 .. e - (n + 1) + 1 /\ n + 1 + i - 1 = n + i
    BY <1>2
  <2>2. n + i \in 1 .. l /\ n + i <= n + size
    <3>1. l \in Nat
      BY <1>1
    <3> QED
      BY <1>2, <3>1
  <2> QED
    BY <1>1, <1>3, <2>1, <2>2
<1>6. ASSUME NEW x \in ToSet(cut)
      PROVE  x \in Upto(list, n + size)
  BY <1>4, <1>5, Zenon DEF ToSet, Upto
<1>7. ASSUME NEW x \in Upto(list, n)
      PROVE  x \in Upto(list, n + size)
  BY <1>1 DEF Upto
<1>8. ASSUME NEW x \in Upto(list, n + size), x \notin Upto(list, n)
      PROVE  x \in ToSet(cut)
  <2>1. PICK i \in DOMAIN list : i <= n + size /\ x = list[i]
    BY DEF Upto
  <2>2. ~(i <= n)
    BY <1>8, <2>1 DEF Upto
  <2>3. i - n \in 1 .. e - n /\ n + (i - n) = i
    <3>1. i \in 1 .. l /\ l \in Nat /\ i <= n + size
      BY <1>1, <2>1
    <3> QED
      BY <1>2, <2>2, <3>1
  <2>4. x = cut[i - n]
    BY <1>5, <2>1, <2>3
  <2> QED
    BY <1>4, <2>3, <2>4, Zenon DEF ToSet
<1>9. Upto(list, 0) = {}
  BY <1>1 DEF Upto
<1>10. n >= Len(list) => Upto(list, n) = ToSet(list)
  <2> SUFFICES ASSUME n >= l
               PROVE  Upto(list, n) = ToSet(list)
    BY DEF l
  <2>1. \A i \in DOMAIN list : i <= n
    BY <1>1
  <2> QED
    BY <2>1 DEF Upto, ToSet
<1> QED
  BY <1>6, <1>7, <1>8, <1>9, <1>10 DEF cut, e, l

LEMMA IdsElements ==
  ASSUME NEW T, alerts \in Seq(T)
  PROVE  /\ Ids \in Seq({a.resource : a \in T})
         /\ ToSet(Ids) = {a.resource : a \in ToSet(alerts)} \ {NoResource}
<1> DEFINE S == {a.resource : a \in T}
           resources == [i \in DOMAIN alerts |-> alerts[i].resource]
<1>1. resources \in Seq(S)
  <2>1. DOMAIN alerts = 1 .. Len(alerts) /\ Len(alerts) \in Nat /\ \A i \in 1 .. Len(alerts) : alerts[i] \in T
    OBVIOUS
  <2>2. resources \in [1 .. Len(alerts) -> S]
    BY <2>1
  <2> QED
    BY <2>1, <2>2
<1>2. ToSet(resources) = {a.resource : a \in ToSet(alerts)}
  BY DEF ToSet
<1>3. Ids = Among(Distinct(resources), ToSet(resources) \ {NoResource})
  BY DEF Ids
<1> HIDE DEF resources, S
<1>4. Distinct(resources) \in Seq(S) /\ ToSet(Distinct(resources)) = ToSet(resources)
  BY <1>1, DistinctElements
<1>5. /\ Ids \in Seq(S)
      /\ ToSet(Ids) = ToSet(resources) \cap (ToSet(resources) \ {NoResource})
  BY <1>3, <1>4, AmongElements
<1> QED
  BY <1>2, <1>5 DEF S

\* The names fetched are those of the resources asked for.
Asking ==
  /\ asked \in Nat
  /\ pc \notin {"listed", "summarized"} \/ estate.tool = "diagnose" => asked = 0 /\ named = {}
  /\ estate.tool = "get alerts" /\ "names" \notin failed => named = Upto(Ids, asked) \cap estate.named

LEMMA FetchNamesAsking ==
  ASSUME Listing, Asking, GetAlerts, FetchNames
  PROVE  Asking'
<1>1. /\ pc = "listed" /\ pc' = pc /\ estate' = estate /\ alerts' = alerts /\ asked' = asked + ChunkSize
      /\ asked \in Nat /\ ChunkSize \in Nat
      /\ asked + ChunkSize \in Nat
  <2>1. asked \in Nat /\ ChunkSize \in Nat
    BY SummaryAssumption DEF Asking
  <2>2. asked + ChunkSize \in Nat
    BY <2>1
  <2> QED
    BY <2>1, <2>2 DEF FetchNames
<1>2. Ids' = Ids
  BY <1>1 DEF Ids
<1>3. PICK S : Ids \in Seq(S)
  <2>1. alerts \in Seq(ToSet(estate.alerts))
    BY DEF Listing
  <2> QED
    BY <2>1, IdsElements
<1>4. Upto(Ids, asked') =
        Upto(Ids, asked) \cup ToSet(SubSeq(Ids, asked + 1, Smaller(asked', Len(Ids))))
  <2>1. Upto(Ids, asked + ChunkSize) =
          Upto(Ids, asked) \cup ToSet(SubSeq(Ids, asked + 1, Smaller(asked + ChunkSize, Len(Ids))))
    BY <1>1, <1>3, UptoGrows
  <2> QED
    BY <1>1, <2>1
<1>5. "names" \notin failed' =>
        /\ "names" \notin failed
        /\ named' = named \cup (ToSet(SubSeq(Ids, asked + 1, Smaller(asked', Len(Ids)))) \cap estate.named)
  BY DEF FetchNames
<1>6. "names" \notin failed' => named' = Upto(Ids, asked') \cap estate.named
  BY <1>4, <1>5 DEF Asking, GetAlerts
<1>7. Upto(Ids, asked)' = Upto(Ids, asked')
  BY <1>2 DEF Upto
<1> QED
  BY <1>1, <1>6, <1>7 DEF Asking, GetAlerts

LEMMA NoneAsked ==
  ASSUME NEW list, NEW T
  PROVE  Upto(Among(list, T), 0) = {}
<1> DEFINE P == {i \in DOMAIN list : list[i] \in T}
<1>1. DOMAIN Among(list, T) = 1 .. Cardinality(P)
  BY DEF Among, At
<1> HIDE DEF P
<1> QED
  BY <1>1 DEF Upto

LEMMA ToolAsking ==
  ASSUME Listing, Asking, [ToolNext]_toolVars
  PROVE  Asking'
<1>1. CASE GetAlerts /\ FetchNames
  BY <1>1, FetchNamesAsking DEF GetAlerts
<1>2. CASE /\ asked = 0 /\ named = {}
           /\ UNCHANGED <<estate, asked, named>>
  <2>1. \E list, T : Ids' = Among(list, T)
    BY DEF Ids
  <2>2. Upto(Ids', asked') = {}
    BY <1>2, <2>1, NoneAsked
  <2>3. Upto(Ids, asked)' = Upto(Ids', asked')
    BY DEF Upto
  <2> QED
    BY <1>2, <2>2, <2>3 DEF Asking
<1>3. CASE /\ UNCHANGED <<estate, alerts, failed, asked, named>>
           /\ pc' \notin {"listed", "summarized"} => pc \notin {"listed", "summarized"}
  <2>1. Upto(Ids, asked)' = Upto(Ids, asked)
    BY <1>3 DEF Upto, Ids
  <2> QED
    BY <1>3, <2>1 DEF Asking
<1>4. ASSUME Diagnose
      PROVE  asked = 0 /\ named = {} /\ UNCHANGED <<estate, asked, named>>
  BY <1>4 DEF Diagnose, Asking, looked, Next, Search, GetHealth, AlertsPage, AlertsFail, GetSeries, Report
<1>5. ASSUME BeginList \/ (AlertsPage /\ UNCHANGED looked) \/ (AlertsFail /\ UNCHANGED looked)
      PROVE  asked = 0 /\ named = {} /\ UNCHANGED <<estate, asked, named>>
  BY <1>5 DEF Asking, looked, BeginList, AlertsPage, AlertsFail
<1>6. ASSUME Summarize \/ UNCHANGED toolVars
      PROVE  /\ UNCHANGED <<estate, alerts, failed, asked, named>>
             /\ pc' \notin {"listed", "summarized"} => pc \notin {"listed", "summarized"}
  BY <1>6 DEF Summarize, toolVars, vars, looked
<1> QED
  BY <1>1, <1>2, <1>3, <1>4, <1>5, <1>6 DEF ToolNext, GetAlerts

(* The counts.                                                               *)
LEMMA Tallied ==
  ASSUME NEW S, NEW whole \in Seq(S), NEW T, NEW list \in Seq(T),
         \A i \in DOMAIN list : i \in DOMAIN whole /\ list[i] = whole[i],
         NEW field, NEW v \in DOMAIN Tally(list, field)
  PROVE  /\ Tally(list, field)[v] \in Nat
         /\ Tally(list, field)[v] <= Cardinality({i \in DOMAIN whole : whole[i][field] = v})
<1> DEFINE some == {i \in DOMAIN list : list[i][field] = v}
           all == {i \in DOMAIN whole : whole[i][field] = v}
<1>1. Tally(list, field)[v] = Cardinality(some)
  BY DEF Tally
<1>2. some \in SUBSET all
  OBVIOUS
<1>3. IsFiniteSet(all)
  <2>1. IsFiniteSet(1 .. Len(whole)) /\ all \in SUBSET (1 .. Len(whole))
    BY FS_Interval
  <2> HIDE DEF all
  <2> QED
    BY <2>1, FS_Subset
<1> HIDE DEF some, all
<1>4. IsFiniteSet(some) /\ Cardinality(some) <= Cardinality(all)
  BY <1>2, <1>3, FS_Subset
<1>5. Cardinality(some) \in Nat
  BY <1>4, FS_CardinalityType
<1> QED
  BY <1>1, <1>4, <1>5 DEF all

LEMMA NamesCounted ==
  ASSUME NEW S, NEW list \in Seq(S)
  PROVE  LET count == Tally(list, "name")
             names == MostCommon(list)
         IN  \A n \in {a.name : a \in ToSet(list)} \ ToSet(names) :
               /\ Len(names) = NameGroups
               /\ \A m \in ToSet(names) : m \in DOMAIN count /\ n \in DOMAIN count /\ count[m] >= count[n]
<1> DEFINE count == Tally(list, "name")
           names == MostCommon(list)
           all == [i \in DOMAIN list |-> list[i].name]
           N == {a.name : a \in ToSet(list)}
           distinct == Distinct(all)
           sorted == ByCount(distinct, count)
<1>1. all \in Seq(N) /\ ToSet(all) = N
  <2>1. DOMAIN list = 1 .. Len(list) /\ Len(list) \in Nat /\ \A i \in DOMAIN list : list[i] \in ToSet(list)
    BY DEF ToSet
  <2>2. all \in [1 .. Len(list) -> N]
    BY <2>1
  <2>3. all \in Seq(N)
    BY <2>1, <2>2
  <2>4. ToSet(all) = N
    BY DEF ToSet
  <2> QED
    BY <2>3, <2>4
<1>2. DOMAIN count = N /\ \A n \in N : count[n] \in Nat
  <2>1. DOMAIN Tally(list, "name") = N
    BY DEF Tally, ToSet
  <2>2. \A n \in DOMAIN Tally(list, "name") : Tally(list, "name")[n] \in Nat
    BY Tallied
  <2> QED
    BY <2>1, <2>2
<1>3. names = Top(sorted, NameGroups) /\ NameGroups \in Nat
  BY SummaryAssumption DEF MostCommon, ByCount
<1> HIDE DEF all, N, names, count
<1>4. distinct \in Seq(N) /\ ToSet(distinct) = N
  BY <1>1, DistinctElements
<1> HIDE DEF distinct
<1>5. /\ sorted \in Seq(N)
      /\ \A n \in N : \E m \in DOMAIN sorted : sorted[m] = n
      /\ \A m, k \in DOMAIN sorted : m < k => count[sorted[m]] >= count[sorted[k]]
  BY <1>2, <1>4, NamesRanked
<1> HIDE DEF sorted
<1>6. /\ names \in Seq(N)
      /\ \A i \in DOMAIN names : i \in DOMAIN sorted /\ names[i] = sorted[i]
      /\ \A m \in DOMAIN sorted : sorted[m] \notin ToSet(names) =>
           Len(names) = NameGroups /\ \A i \in DOMAIN names : i < m
  BY <1>3, <1>5, TopOf
<1>7. ASSUME NEW n \in N \ ToSet(names)
      PROVE  /\ Len(names) = NameGroups
             /\ \A m \in ToSet(names) : m \in N /\ count[m] >= count[n]
  <2>1. PICK k \in DOMAIN sorted : sorted[k] = n
    BY <1>5
  <2>2. Len(names) = NameGroups /\ \A i \in DOMAIN names : i < k
    BY <1>6, <2>1
  <2>3. ASSUME NEW m \in ToSet(names)
        PROVE  m \in N /\ count[m] >= count[n]
    <3>1. PICK i \in DOMAIN names : names[i] = m
      BY DEF ToSet
    <3>2. i \in DOMAIN sorted /\ sorted[i] = m /\ i < k
      BY <1>6, <2>2, <3>1
    <3>3. m \in N
      BY <1>6, <3>1
    <3> QED
      BY <1>5, <2>1, <3>2, <3>3
  <2> QED
    BY <2>2, <2>3
<1> QED
  BY <1>2, <1>7 DEF N, names, count

LEMMA OwnElements ==
  ASSUME NEW S, NEW list \in Seq(S)
  PROVE  list \in Seq(ToSet(list)) /\ ToSet(list) \subseteq S
<1>1. DOMAIN list = 1 .. Len(list) /\ Len(list) \in Nat /\ \A i \in DOMAIN list : list[i] \in S
  OBVIOUS
<1>2. list \in [1 .. Len(list) -> ToSet(list)] /\ ToSet(list) \subseteq S
  BY <1>1 DEF ToSet
<1> QED
  BY <1>1, <1>2

NumberIn(whole, field, v) == Cardinality({i \in DOMAIN whole : whole[i][field] = v})

LEMMA PartTallied ==
  ASSUME Listing, Part, NEW field, NEW v \in DOMAIN Tally(alerts, field)
  PROVE  Tally(alerts, field)[v] <= NumberIn(estate.alerts, field, v)
<1>1. alerts \in Seq(ToSet(estate.alerts)) /\ estate.alerts \in Seq(ToSet(estate.alerts))
  BY EstatesAssumption DEF Listing
<1>2. \A i \in DOMAIN alerts : i \in DOMAIN estate.alerts /\ alerts[i] = estate.alerts[i]
  BY DEF Part
<1>3. Tally(alerts, field)[v] <=
        Cardinality({i \in DOMAIN estate.alerts : estate.alerts[i][field] = v})
  BY <1>1, <1>2, Tallied
<1> QED
  BY <1>3 DEF NumberIn

\* What SummaryTrue says of a summary made.
Truthful(made, fails, e) ==
  LET shown == [i \in DOMAIN made.top |-> made.top[i].alert]
      left == ToSet(e.alerts) \ ToSet(shown)
  IN  /\ \A l \in DOMAIN made.levels : made.levels[l] <= NumberIn(e.alerts, "level", l)
      /\ \A i, j \in DOMAIN shown : i < j =>
           /\ ~LessSevere(shown[i], shown[j])
           /\ shown[i].level = shown[j].level => shown[i].start >= shown[j].start
      /\ fails = {} => \A i \in DOMAIN made.top : made.top[i].named <=> shown[i].resource \in e.named
      /\ ("alerts" \notin fails /\ Len(e.alerts) < MaxAlerts) =>
           /\ made.total = Len(e.alerts)
           /\ Len(shown) = Smaller(TopN, Len(e.alerts))
           /\ \A i \in DOMAIN e.alerts :
                LET a == e.alerts[i]
                IN  /\ made.levels[a.level] = NumberIn(e.alerts, "level", a.level)
                    /\ made.states[a.status] = NumberIn(e.alerts, "status", a.status)
           /\ \A a \in left, b \in ToSet(shown) : ~LessSevere(b, a)
           /\ \A n \in {a.name : a \in ToSet(e.alerts)} \ ToSet(made.names) :
                /\ Len(made.names) = NameGroups
                /\ \A m \in ToSet(made.names) :
                     NumberIn(e.alerts, "name", m) >= NumberIn(e.alerts, "name", n)

(* A summary made of alerts whose names are asked for is true.               *)
LEMMA SummaryMade ==
  ASSUME Listing, Part, Asking, GetAlerts, asked >= Len(Ids), pc = "listed",
         NEW made,
         made = [total |-> Len(alerts), levels |-> Tally(alerts, "level"),
                 states |-> Tally(alerts, "status"), names |-> MostCommon(alerts),
                 top |-> LET ranked == Top(Ranked(alerts, Before), TopN)
                         IN  [i \in DOMAIN ranked |-> Row(ranked[i])]]
  PROVE  Truthful(made, failed, estate)
<1> DEFINE whole == estate.alerts
           S == ToSet(whole)
           A == ToSet(alerts)
           ranked == Ranked(alerts, Before)
           top == Top(ranked, TopN)
           names == MostCommon(alerts)
<1>1. whole \in Seq(S) /\ alerts \in Seq(S) /\ TopN \in Nat
  BY EstatesAssumption, SummaryAssumption DEF Listing
<1>2. NoResource \notin estate.named /\ \A a \in S : a.start \in Int
  BY AlertsAssumption DEF Listing, GetAlerts
<1>3. "names" \notin failed => named = Upto(Ids, asked) \cap estate.named
  BY DEF Asking, GetAlerts
<1>4. /\ made.total = Len(alerts)
      /\ made.levels = Tally(alerts, "level")
      /\ made.states = Tally(alerts, "status")
      /\ made.names = names
      /\ made.top = [i \in DOMAIN top |-> Row(top[i])]
  OBVIOUS
<1>5. (/\ "alerts" \notin failed /\ Len(whole) < MaxAlerts) => alerts = whole
  BY DEF Listing
<1> HIDE DEF whole, S
<1>6. /\ ranked \in Seq(A) /\ Len(ranked) = Len(alerts)
      /\ \A a \in A : \E m \in DOMAIN ranked : ranked[m] = a
      /\ \A m, k \in DOMAIN ranked : m < k =>
           /\ ~LessSevere(ranked[m], ranked[k])
           /\ ranked[m].level = ranked[k].level => ranked[m].start >= ranked[k].start
  <2>1. alerts \in Seq(A) /\ A \subseteq S
    BY <1>1, OwnElements
  <2>2. \A a \in A : a.start \in Int
    BY <1>2, <2>1
  <2> HIDE DEF A
  <2> QED
    BY <2>1, <2>2, AlertsRanked DEF A
<1> HIDE DEF ranked, A
<1>7. /\ top \in Seq(A) /\ Len(top) = Smaller(TopN, Len(ranked))
      /\ \A i \in DOMAIN top : i \in DOMAIN ranked /\ top[i] = ranked[i]
      /\ \A m \in DOMAIN ranked : ranked[m] \notin ToSet(top) =>
           Len(top) = TopN /\ \A i \in DOMAIN top : i < m
  BY <1>1, <1>6, TopOf
<1> HIDE DEF top
<1>8. [i \in DOMAIN made.top |-> made.top[i].alert] = top
  <2>1. \A i \in DOMAIN top : Row(top[i]).alert = top[i]
    BY DEF Row
  <2>2. top = [i \in DOMAIN top |-> top[i]]
    BY <1>7
  <2> QED
    BY <1>4, <2>1, <2>2
<1>9. ASSUME NEW l \in DOMAIN made.levels
      PROVE  made.levels[l] <= NumberIn(whole, "level", l)
  <2>1. \A v \in DOMAIN Tally(alerts, "level") :
          Tally(alerts, "level")[v] <= NumberIn(estate.alerts, "level", v)
    BY PartTallied
  <2> QED
    BY <1>4, <2>1 DEF whole
<1>10. \A i, j \in DOMAIN top : i < j =>
         /\ ~LessSevere(top[i], top[j])
         /\ top[i].level = top[j].level => top[i].start >= top[j].start
  BY <1>6, <1>7
<1>11. \A i \in DOMAIN top : top[i] \in A
  BY <1>7
<1>12. ASSUME failed = {}, NEW i \in DOMAIN made.top
       PROVE  made.top[i].named <=> top[i].resource \in estate.named
  <2>1. i \in DOMAIN top /\ made.top[i] = Row(top[i])
    BY <1>4, <1>12
  <2>2. made.top[i].named <=> top[i].resource \in named
    <3>1. Row(top[i]).named = (top[i].resource \in named)
      BY DEF Row
    <3> QED
      BY <2>1, <3>1
  <2>3. named = ToSet(Ids) \cap estate.named
    <3>1. named = Upto(Ids, asked) \cap estate.named
      BY <1>3, <1>12
    <3>2. Upto(Ids, asked) = ToSet(Ids)
      <4>1. PICK T : Ids \in Seq(T)
        BY <1>1, IdsElements
      <4>2. asked \in Nat
        BY DEF Asking
      <4> QED
        BY <4>1, <4>2, UptoGrows
    <3> QED
      BY <3>1, <3>2
  <2>4. ToSet(Ids) = {a.resource : a \in A} \ {NoResource}
    BY <1>1, IdsElements DEF A
  <2>5. top[i] \in A
    BY <1>11, <2>1
  <2> QED
    BY <1>2, <2>2, <2>3, <2>4, <2>5
<1>13. ASSUME "alerts" \notin failed, Len(whole) < MaxAlerts
       PROVE  /\ made.total = Len(whole)
              /\ Len(top) = Smaller(TopN, Len(whole))
              /\ \A i \in DOMAIN whole :
                   /\ made.levels[whole[i].level] = NumberIn(whole, "level", whole[i].level)
                   /\ made.states[whole[i].status] = NumberIn(whole, "status", whole[i].status)
              /\ \A a \in ToSet(whole) \ ToSet(top), b \in ToSet(top) : ~LessSevere(b, a)
              /\ \A n \in {a.name : a \in ToSet(whole)} \ ToSet(made.names) :
                   /\ Len(made.names) = NameGroups
                   /\ \A m \in ToSet(made.names) : NumberIn(whole, "name", m) >= NumberIn(whole, "name", n)
  <2>1. alerts = whole
    BY <1>5, <1>13
  <2>2. \A field : \A v \in DOMAIN Tally(whole, field) : Tally(whole, field)[v] = NumberIn(whole, field, v)
    BY DEF Tally, NumberIn
  <2>4. ASSUME NEW i \in DOMAIN whole
        PROVE  /\ made.levels[whole[i].level] = NumberIn(whole, "level", whole[i].level)
               /\ made.states[whole[i].status] = NumberIn(whole, "status", whole[i].status)
    <3>1. whole[i].level \in DOMAIN Tally(whole, "level") /\ whole[i].status \in DOMAIN Tally(whole, "status")
      BY DEF Tally
    <3> QED
      BY <1>4, <2>1, <2>2, <3>1
  <2>5. ASSUME NEW a \in ToSet(whole) \ ToSet(top), NEW b \in ToSet(top)
        PROVE  ~LessSevere(b, a)
    <3>1. PICK m \in DOMAIN ranked : ranked[m] = a
      BY <1>6, <2>1 DEF A
    <3>2. PICK k \in DOMAIN top : top[k] = b
      BY DEF ToSet
    <3>3. k \in DOMAIN ranked /\ ranked[k] = b /\ k < m
      BY <1>7, <3>1, <3>2
    <3> QED
      BY <1>6, <3>1, <3>3
  <2>6. ASSUME NEW n \in {a.name : a \in ToSet(whole)} \ ToSet(made.names)
        PROVE  /\ Len(made.names) = NameGroups
               /\ \A m \in ToSet(made.names) : NumberIn(whole, "name", m) >= NumberIn(whole, "name", n)
    <3> DEFINE count == Tally(whole, "name")
    <3> HIDE DEF count
    <3>1. /\ Len(names) = NameGroups
          /\ \A m \in ToSet(names) : m \in DOMAIN count /\ n \in DOMAIN count /\ count[m] >= count[n]
      BY <1>1, <1>4, <2>1, <2>6, NamesCounted DEF count, names
    <3>2. \A v \in DOMAIN count : count[v] = NumberIn(whole, "name", v)
      BY <2>2 DEF count
    <3> HIDE DEF names
    <3> QED
      BY <1>4, <3>1, <3>2
  <2>7. made.total = Len(whole) /\ Len(top) = Smaller(TopN, Len(whole))
    BY <1>4, <1>6, <1>7, <2>1
  <2> QED
    BY <2>4, <2>5, <2>6, <2>7
<1> DEFINE shown == [i \in DOMAIN made.top |-> made.top[i].alert]
<1> HIDE DEF shown
<1>14. shown = top
  BY <1>8 DEF shown
<1>15. /\ \A l \in DOMAIN made.levels : made.levels[l] <= NumberIn(whole, "level", l)
       /\ \A i, j \in DOMAIN shown : i < j =>
            /\ ~LessSevere(shown[i], shown[j])
            /\ shown[i].level = shown[j].level => shown[i].start >= shown[j].start
       /\ failed = {} => \A i \in DOMAIN made.top :
            made.top[i].named <=> shown[i].resource \in estate.named
  BY <1>9, <1>10, <1>12, <1>14
<1>16. ("alerts" \notin failed /\ Len(whole) < MaxAlerts) =>
         /\ made.total = Len(whole)
         /\ Len(shown) = Smaller(TopN, Len(whole))
         /\ \A i \in DOMAIN whole :
              /\ made.levels[whole[i].level] = NumberIn(whole, "level", whole[i].level)
              /\ made.states[whole[i].status] = NumberIn(whole, "status", whole[i].status)
         /\ \A a \in ToSet(whole) \ ToSet(shown), b \in ToSet(shown) : ~LessSevere(b, a)
         /\ \A n \in {a.name : a \in ToSet(whole)} \ ToSet(made.names) :
              /\ Len(made.names) = NameGroups
              /\ \A m \in ToSet(made.names) : NumberIn(whole, "name", m) >= NumberIn(whole, "name", n)
  BY <1>13, <1>14, Zenon
<1> QED
  BY <1>15, <1>16, Zenon DEF Truthful, shown, whole

LEMMA ToolSummarized ==
  ASSUME Listing, Part, Asking, Shapes, SummaryTrue, [ToolNext]_toolVars
  PROVE  SummaryTrue'
<1>1. SummaryTrue' <=> (pc' = "summarized" => Truthful(summary', failed', estate'))
  BY DEF SummaryTrue, Truthful, NumberIn, Number
<1>2. CASE GetAlerts /\ Summarize
  <2>1. Truthful(summary', failed, estate)
    BY <1>2, SummaryMade DEF Summarize
  <2>2. failed' = failed /\ estate' = estate
    BY <1>2 DEF Summarize
  <2> QED
    BY <1>1, <2>1, <2>2
<1>3. CASE UNCHANGED toolVars
  <2>1. SummaryTrue <=> (pc = "summarized" => Truthful(summary, failed, estate))
    BY DEF SummaryTrue, Truthful, NumberIn, Number
  <2>2. UNCHANGED <<pc, summary, failed, estate>>
    BY <1>3 DEF toolVars, vars, looked
  <2> QED
    BY <1>1, <2>1, <2>2
<1>4. CASE pc' # "summarized"
  BY <1>4 DEF SummaryTrue
<1>5. ASSUME Diagnose
      PROVE  pc' # "summarized"
  BY <1>5 DEF Diagnose, Next, Search, GetHealth, AlertsPage, AlertsFail, GetSeries, Report
<1>6. ASSUME BeginList \/ AlertsPage \/ AlertsFail \/ FetchNames
      PROVE  pc' # "summarized"
  BY <1>6 DEF BeginList, AlertsPage, AlertsFail, FetchNames
<1> QED
  BY <1>2, <1>3, <1>4, <1>5, <1>6 DEF ToolNext, GetAlerts

(* The summary of a listing that is complete counts every alert as it is,    *)
(* and leaves out none that is more severe than one it shows, nor a name     *)
(* more common than one it names; what it shows is in order, with the names  *)
(* that were found, whatever was not fetched (summarize_alerts of            *)
(* analysis.py, _vrops_get_alerts of actions.py, get_resource_names of       *)
(* vrops_client.py).                                                         *)
THEOREM AlertSummaryTrue == ToolSpec => []SummaryTrue
<1> DEFINE Inv == Part /\ Asking /\ SummaryTrue
<1>1. ToolInit => Inv
  <2> SUFFICES ASSUME ToolInit
               PROVE  Inv
    OBVIOUS
  <2>1. Part /\ SummaryTrue
    BY DEF ToolInit, Init, Part, SummaryTrue
  <2>2. \E list, T : Ids = Among(list, T)
    BY DEF Ids
  <2>3. Upto(Ids, 0) = {}
    BY <2>2, NoneAsked
  <2> QED
    BY <2>1, <2>3 DEF ToolInit, Asking
<1>2. Inv /\ Listing /\ Shapes /\ [ToolNext]_toolVars => Inv'
  BY ToolPart, ToolAsking, ToolSummarized
<1> QED
  BY <1>1, <1>2, ListingHolds, ShapesHold, PTL DEF ToolSpec
=============================================================================
