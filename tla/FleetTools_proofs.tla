-------------------------- MODULE FleetTools_proofs --------------------------
(* What a fleet tool finds and reports, for any inventory, page and chunk    *)
(* size and depth: the walk beneath the roots collects what is beneath them, *)
(* and the listing of a kind all there is of it; a host recommended fits and *)
(* is the best; and a report is in scope and in order.                       *)
EXTENDS FleetTools, FiniteSetTheorems, SequenceTheorems, WellFoundedInduction, TLAPS

-----------------------------------------------------------------------------
(* Numbers.                                                                  *)

(* Some naturals, if there are any, have a least one.                        *)
LEMMA LeastOne ==
  ASSUME NEW T, T \subseteq Nat, T # {}
  PROVE  \E n \in T : \A m \in T : n <= m
<1>1. PICK n \in T : \A m \in T : <<m, n>> \notin OpToRel(<, Nat)
  BY NatLessThanWellFounded, WFMin
<1>2. \A m \in T : <<m, n>> \in Nat \X Nat
  OBVIOUS
<1>3. \A m \in T : ~(m < n)
  BY <1>1, <1>2 DEF OpToRel
<1> QED
  BY <1>3

(* A set of numbers with 0 and with the successor of each of its elements.   *)
LEMMA AllNaturals ==
  ASSUME NEW T, 0 \in T, \A n \in Nat : n \in T => n + 1 \in T
  PROVE  Nat \subseteq T
<1>1. SUFFICES ASSUME Nat \ T # {}
               PROVE  FALSE
  OBVIOUS
<1>2. PICK n \in Nat \ T : \A m \in Nat \ T : n <= m
  <2>1. Nat \ T \subseteq Nat
    OBVIOUS
  <2> QED
    BY <1>1, <2>1, LeastOne
<1>3. n # 0 /\ n - 1 \in Nat /\ ~(n <= n - 1) /\ (n - 1) + 1 = n
  BY <1>2
<1>4. n - 1 \in T
  BY <1>2, <1>3
<1> QED
  BY <1>2, <1>3, <1>4

-----------------------------------------------------------------------------
(* Lists.                                                                    *)

\* How many of some positions come before one of them, itself included.
Rank(positions, i) == Cardinality({j \in positions : j <= i})

(* The positions have the ranks from 1 to their number.                      *)
LEMMA Ranks ==
  ASSUME NEW n \in Nat, NEW P, P \subseteq 1 .. n
  PROVE  /\ IsFiniteSet(P) /\ Cardinality(P) \in Nat
         /\ \A i \in P : Rank(P, i) \in 1 .. Cardinality(P)
         /\ \A i, k \in P : Rank(P, i) = Rank(P, k) => i = k
         /\ \A m \in 1 .. Cardinality(P) : \E i \in P : Rank(P, i) = m
<1> DEFINE upto(i) == {j \in P : j <= i}
           c == Cardinality(P)
<1>1. IsFiniteSet(P)
  <2>1. IsFiniteSet(1 .. n)
    BY FS_Interval
  <2> QED
    BY <2>1, FS_Subset
<1>2. c \in Nat
  BY <1>1, FS_CardinalityType
<1>3. \A i \in P : upto(i) \in SUBSET P /\ upto(i) # {} /\ IsFiniteSet(upto(i))
  <2>1. \A i \in P : upto(i) \in SUBSET P /\ i \in upto(i)
    OBVIOUS
  <2>2. \A T \in SUBSET P : IsFiniteSet(T)
    BY <1>1, FS_Subset
  <2> QED
    BY <2>1, <2>2
<1>4. \A i \in P : Rank(P, i) \in 1 .. c
  <2> SUFFICES ASSUME NEW i \in P
               PROVE  Rank(P, i) \in 1 .. c
    OBVIOUS
  <2>1. Cardinality(upto(i)) \in Nat /\ Cardinality(upto(i)) # 0
    BY <1>3, FS_CardinalityType, FS_EmptySet
  <2>2. Cardinality(upto(i)) <= c
    BY <1>1, <1>3, FS_Subset
  <2>3. Rank(P, i) = Cardinality(upto(i))
    BY DEF Rank
  <2> HIDE DEF upto, c
  <2> QED
    BY <1>2, <2>1, <2>2, <2>3
<1>5. ASSUME NEW i \in P, NEW k \in P, i < k
      PROVE  Rank(P, i) # Rank(P, k)
  <2>1. upto(i) \in SUBSET upto(k) /\ k \in upto(k) /\ k \notin upto(i)
    <3>1. /\ P \subseteq Nat
          /\ \A j \in Nat : j <= i => j <= k
          /\ i <= k /\ k <= k /\ ~(k <= i)
      BY <1>5
    <3> QED
      BY <3>1, Zenon
  <2>2. IsFiniteSet(upto(k))
    BY <1>3
  <2>3. Cardinality(upto(k)) # Cardinality(upto(i))
    <3>1. Cardinality(upto(k)) = Cardinality(upto(i)) => upto(k) = upto(i)
      BY <2>1, <2>2, FS_Subset
    <3> QED
      BY <2>1, <3>1
  <2> QED
    BY <2>3 DEF Rank
<1>6. \A i, k \in P : Rank(P, i) = Rank(P, k) => i = k
  <2>1. \A i, k \in P : i < k \/ i = k \/ k < i
    OBVIOUS
  <2> QED
    BY <1>5, <2>1
<1>7. \A m \in 1 .. c : \E i \in P : Rank(P, i) = m
  <2> DEFINE f == [i \in P |-> Rank(P, i)]
  <2> HIDE DEF c
  <2>1. f \in [P -> 1 .. c]
    BY <1>4
  <2>2. f \in Injection(P, 1 .. c)
    BY <1>6, <2>1 DEF Injection, IsInjective
  <2>3. IsFiniteSet(1 .. c) /\ Cardinality(1 .. c) = c
    BY <1>2, FS_Interval
  <2>4. f \in Surjection(P, 1 .. c)
    BY <2>2, <2>3, FS_Injection DEF c
  <2>5. \A m \in 1 .. c : \E i \in P : f[i] = m
    BY <2>4 DEF Surjection
  <2> QED
    BY <2>5
<1> QED
  BY <1>1, <1>2, <1>4, <1>6, <1>7

LEMMA AtElements ==
  ASSUME NEW S, NEW list \in Seq(S), NEW P, P \subseteq DOMAIN list
  PROVE  /\ At(list, P) \in Seq(S)
         /\ Len(At(list, P)) = Cardinality(P)
         /\ \A i \in P : /\ Rank(P, i) \in 1 .. Cardinality(P)
                         /\ At(list, P)[Rank(P, i)] = list[i]
         /\ ToSet(At(list, P)) = {list[i] : i \in P}
<1> DEFINE c == Cardinality(P)
           pos(n) == CHOOSE i \in P : Rank(P, i) = n
<1>1. /\ c \in Nat
      /\ \A i \in P : Rank(P, i) \in 1 .. c
      /\ \A i, k \in P : Rank(P, i) = Rank(P, k) => i = k
      /\ \A m \in 1 .. c : \E i \in P : Rank(P, i) = m
  <2>1. Len(list) \in Nat /\ P \subseteq 1 .. Len(list)
    OBVIOUS
  <2> QED
    BY <2>1, Ranks
<1>2. At(list, P) = [n \in 1 .. c |-> list[pos(n)]]
  BY DEF At, Rank
<1> HIDE DEF c
<1>3. \A n \in 1 .. c : pos(n) \in P /\ Rank(P, pos(n)) = n
  BY <1>1
<1>4. \A i \in P : pos(Rank(P, i)) = i
  BY <1>1, <1>3
<1> HIDE DEF pos
<1>5. \A i \in P : list[i] \in S
  OBVIOUS
<1>6. At(list, P) \in Seq(S) /\ Len(At(list, P)) = c
  BY <1>1, <1>2, <1>3, <1>5
<1>7. \A i \in P : At(list, P)[Rank(P, i)] = list[i]
  BY <1>1, <1>2, <1>4
<1>8. ToSet(At(list, P)) = {list[i] : i \in P}
  <2>1. DOMAIN At(list, P) = 1 .. c
    BY <1>2
  <2>2. \A n \in 1 .. c : At(list, P)[n] \in {list[i] : i \in P}
    BY <1>2, <1>3
  <2>3. \A i \in P : \E n \in 1 .. c : At(list, P)[n] = list[i]
    BY <1>1, <1>7
  <2> QED
    BY <2>1, <2>2, <2>3, Zenon DEF ToSet
<1> QED
  BY <1>1, <1>6, <1>7, <1>8 DEF c

LEMMA AmongElements ==
  ASSUME NEW S, NEW list \in Seq(S), NEW T
  PROVE  /\ Among(list, T) \in Seq(S)
         /\ ToSet(Among(list, T)) = ToSet(list) \cap T
<1> DEFINE P == {i \in DOMAIN list : list[i] \in T}
<1>1. /\ At(list, P) \in Seq(S)
      /\ ToSet(At(list, P)) = {list[i] : i \in P}
  <2>1. P \subseteq DOMAIN list
    OBVIOUS
  <2> HIDE DEF P
  <2> QED
    BY <2>1, AtElements
<1>2. {list[i] : i \in P} = ToSet(list) \cap T
  BY DEF ToSet
<1>3. Among(list, T) = At(list, P)
  BY DEF Among
<1> QED
  BY <1>1, <1>2, <1>3, Zenon

LEMMA DistinctElements ==
  ASSUME NEW S, NEW list \in Seq(S)
  PROVE  /\ Distinct(list) \in Seq(S)
         /\ ToSet(Distinct(list)) = ToSet(list)
<1> DEFINE P == {i \in DOMAIN list : \A j \in 1 .. i - 1 : list[j] # list[i]}
<1>1. /\ At(list, P) \in Seq(S)
      /\ ToSet(At(list, P)) = {list[i] : i \in P}
  <2>1. P \subseteq DOMAIN list
    OBVIOUS
  <2> HIDE DEF P
  <2> QED
    BY <2>1, AtElements
<1>2. ASSUME NEW i \in DOMAIN list
      PROVE  \E j \in P : list[j] = list[i]
  <2> DEFINE same == {j \in DOMAIN list : list[j] = list[i]}
  <2>1. /\ same \subseteq Nat /\ i \in same
        /\ DOMAIN list = 1 .. Len(list) /\ Len(list) \in Nat
    OBVIOUS
  <2>2. PICK j \in same : \A m \in same : j <= m
    <3>1. same # {}
      BY <2>1
    <3> HIDE DEF same
    <3> QED
      BY <2>1, <3>1, LeastOne
  <2>3. ASSUME NEW m \in 1 .. j - 1
        PROVE  list[m] # list[j]
    <3>1. m \in DOMAIN list /\ ~(j <= m)
      BY <2>1, <2>2
    <3> QED
      BY <2>2, <3>1
  <2> QED
    BY <2>2, <2>3
<1>3. {list[i] : i \in P} = ToSet(list)
  <2>1. P \subseteq DOMAIN list
    OBVIOUS
  <2> HIDE DEF P
  <2> QED
    BY <1>2, <2>1 DEF ToSet
<1>4. Distinct(list) = At(list, P)
  BY DEF Distinct
<1> QED
  BY <1>1, <1>3, <1>4, Zenon

LEMMA UnionElements ==
  ASSUME NEW f, NEW a, NEW b,
         \A i \in DOMAIN f : \/ \E j \in DOMAIN a : f[i] = a[j]
                             \/ \E j \in DOMAIN b : f[i] = b[j],
         \A j \in DOMAIN a : \E i \in DOMAIN f : f[i] = a[j],
         \A j \in DOMAIN b : \E i \in DOMAIN f : f[i] = b[j]
  PROVE  ToSet(f) = ToSet(a) \cup ToSet(b)
BY DEF ToSet

LEMMA PartElements ==
  ASSUME NEW f, NEW list, NEW positions,
         \A i \in DOMAIN f : \E j \in positions : f[i] = list[j],
         \A j \in positions : \E i \in DOMAIN f : f[i] = list[j]
  PROVE  ToSet(f) = {list[j] : j \in positions}
BY DEF ToSet

LEMMA ConcatParts ==
  \A S : \A a, b \in Seq(S) : \A j \in DOMAIN (a \o b) :
    \/ \E i \in DOMAIN a : (a \o b)[j] = a[i]
    \/ \E i \in DOMAIN b : (a \o b)[j] = b[i]
<1> SUFFICES ASSUME NEW S, NEW a \in Seq(S), NEW b \in Seq(S), NEW j \in DOMAIN (a \o b)
             PROVE  \/ \E i \in DOMAIN a : (a \o b)[j] = a[i]
                    \/ \E i \in DOMAIN b : (a \o b)[j] = b[i]
  OBVIOUS
<1>1. /\ Len(a) \in Nat /\ Len(b) \in Nat
      /\ DOMAIN a = 1 .. Len(a) /\ DOMAIN b = 1 .. Len(b)
      /\ DOMAIN (a \o b) = 1 .. Len(a) + Len(b)
      /\ \A i \in 1 .. Len(a) + Len(b) :
           (a \o b)[i] = IF i <= Len(a) THEN a[i] ELSE b[i - Len(a)]
  OBVIOUS
<1> QED
  BY <1>1

LEMMA ConcatElements ==
  ASSUME NEW S, NEW a \in Seq(S), NEW b \in Seq(S)
  PROVE  a \o b \in Seq(S) /\ ToSet(a \o b) = ToSet(a) \cup ToSet(b)
<1>1. a \o b \in Seq(S)
  OBVIOUS
<1>2. /\ Len(a) \in Nat /\ Len(b) \in Nat
      /\ DOMAIN a = 1 .. Len(a) /\ DOMAIN b = 1 .. Len(b)
      /\ DOMAIN (a \o b) = 1 .. Len(a) + Len(b)
      /\ \A i \in 1 .. Len(a) + Len(b) :
           (a \o b)[i] = IF i <= Len(a) THEN a[i] ELSE b[i - Len(a)]
  OBVIOUS
<1>3. \A i \in DOMAIN (a \o b) :
        \/ \E j \in DOMAIN a : (a \o b)[i] = a[j]
        \/ \E j \in DOMAIN b : (a \o b)[i] = b[j]
  BY ConcatParts
<1>4. \A j \in DOMAIN a : \E i \in DOMAIN (a \o b) : (a \o b)[i] = a[j]
  BY <1>2
<1>5. \A j \in DOMAIN b : \E i \in DOMAIN (a \o b) : (a \o b)[i] = b[j]
  <2> SUFFICES ASSUME NEW j \in DOMAIN b
               PROVE  \E i \in DOMAIN (a \o b) : (a \o b)[i] = b[j]
    OBVIOUS
  <2>1. /\ Len(a) + j \in 1 .. Len(a) + Len(b)
        /\ ~(Len(a) + j <= Len(a)) /\ (Len(a) + j) - Len(a) = j
    BY <1>2
  <2>2. (a \o b)[Len(a) + j] = b[j]
    BY <1>2, <2>1
  <2> QED
    BY <1>2, <2>1, <2>2
<1>6. ToSet(a \o b) = ToSet(a) \cup ToSet(b)
  BY <1>3, <1>4, <1>5, UnionElements, Zenon
<1> QED
  BY <1>1, <1>6

LEMMA ListOf ==
  ASSUME NEW S, NEW n \in Nat, NEW f \in [1 .. n -> S]
  PROVE  f \in Seq(S) /\ Len(f) = n
OBVIOUS

LEMMA TailElements ==
  ASSUME NEW S, NEW list \in Seq(S), list # <<>>
  PROVE  /\ Head(list) \in S
         /\ Tail(list) \in Seq(S)
         /\ ToSet(list) = {Head(list)} \cup ToSet(Tail(list))
<1>1. /\ Len(list) \in Nat \ {0}
      /\ DOMAIN list = 1 .. Len(list)
      /\ Head(list) = list[1] /\ Head(list) \in S
      /\ Tail(list) \in Seq(S)
      /\ DOMAIN Tail(list) = 1 .. Len(list) - 1
      /\ \A i \in 1 .. Len(list) - 1 : Tail(list)[i] = list[i + 1]
  OBVIOUS
<1>2. \A i \in DOMAIN list : list[i] = Head(list) \/ \E j \in DOMAIN Tail(list) : list[i] = Tail(list)[j]
  <2> SUFFICES ASSUME NEW i \in DOMAIN list, i # 1
               PROVE  \E j \in DOMAIN Tail(list) : list[i] = Tail(list)[j]
    BY <1>1
  <2>1. i - 1 \in 1 .. Len(list) - 1 /\ (i - 1) + 1 = i
    BY <1>1
  <2> QED
    BY <1>1, <2>1
<1>3. \A j \in DOMAIN Tail(list) : \E i \in DOMAIN list : list[i] = Tail(list)[j]
  BY <1>1
<1>4. \E i \in DOMAIN list : list[i] = Head(list)
  BY <1>1
<1> QED
  <2>1. ToSet(list) = {Head(list)} \cup ToSet(Tail(list))
    BY <1>2, <1>3, <1>4 DEF ToSet
  <2> QED
    BY <1>1, <2>1

LEMMA EmptyElements == ToSet(<<>>) = {}
BY DEF ToSet

\* The elements of a list from one position to another.
Between(list, a, b) == {list[i] : i \in a .. b}

(* A list cut from one position to another.                                  *)
LEMMA CutElements ==
  ASSUME NEW S, NEW list \in Seq(S), NEW a \in Nat, NEW e \in Nat, e <= Len(list)
  PROVE  /\ SubSeq(list, a + 1, e) \in Seq(S)
         /\ ToSet(SubSeq(list, a + 1, e)) = Between(list, a + 1, e)
<1> DEFINE sub == SubSeq(list, a + 1, e)
<1>1. sub \in Seq(S)
  BY DEF sub
<1>2. \A i \in DOMAIN sub : a + i \in a + 1 .. e /\ sub[i] = list[a + i]
  OBVIOUS
<1>3. \A j \in a + 1 .. e : j - a \in DOMAIN sub /\ sub[j - a] = list[j]
  OBVIOUS
<1> HIDE DEF sub
<1>4. ToSet(sub) = {list[j] : j \in a + 1 .. e}
  <2> DEFINE positions == a + 1 .. e
  <2>1. \A i \in DOMAIN sub : \E j \in positions : sub[i] = list[j]
    BY <1>2
  <2>2. \A j \in positions : \E i \in DOMAIN sub : sub[i] = list[j]
    BY <1>3
  <2> HIDE DEF positions
  <2>3. ToSet(sub) = {list[j] : j \in positions}
    BY <2>1, <2>2, PartElements
  <2> QED
    BY <2>3 DEF positions
<1> QED
  BY <1>1, <1>4 DEF sub, Between

(* What a page adds to the pages before it.                                  *)
LEMMA PageElements ==
  ASSUME NEW S, NEW list \in Seq(S), NEW size \in Nat \ {0}, NEW p \in Nat
  PROVE  /\ Page(list, size, p) \in Seq(S)
         /\ ToSet(Page(list, size, p)) = Between(list, p * size + 1, Smaller((p + 1) * size, Len(list)))
         /\ Page(list, size, p) = <<>> => Len(list) <= p * size
         /\ Len(Page(list, size, p)) =
              IF Len(list) <= p * size THEN 0 ELSE Smaller((p + 1) * size, Len(list)) - p * size
<1> DEFINE n == p * size
           e == Smaller((p + 1) * size, Len(list))
<1>1. n \in Nat /\ (p + 1) * size = n + size /\ Len(list) \in Nat
  OBVIOUS
<1>2. /\ e \in Nat /\ e <= Len(list)
      /\ Len(list) <= n => ~(n + 1 <= e)
      /\ ~(Len(list) <= n) => n + 1 <= e
  <2> HIDE DEF n
  <2> QED
    BY <1>1 DEF Smaller
<1>3. Page(list, size, p) = SubSeq(list, n + 1, e)
  BY DEF Page
<1> HIDE DEF n, e
<1>4. \A i \in n + 1 .. e : list[i] \in S
  BY <1>1, <1>2
<1>5. /\ SubSeq(list, n + 1, e) \in Seq(S)
      /\ Len(SubSeq(list, n + 1, e)) = IF n + 1 <= e THEN e - (n + 1) + 1 ELSE 0
      /\ \A i \in 1 .. e - (n + 1) + 1 : SubSeq(list, n + 1, e)[i] = list[n + 1 + i - 1]
  BY <1>1, <1>2, <1>4, SubSeqProperties
<1>6. /\ Len(SubSeq(list, n + 1, e)) = IF Len(list) <= n THEN 0 ELSE e - n
      /\ SubSeq(list, n + 1, e) = <<>> => Len(list) <= n
  BY <1>1, <1>2, <1>5
<1>7. ToSet(SubSeq(list, n + 1, e)) = Between(list, n + 1, e)
  BY <1>1, <1>2, CutElements
<1> QED
  BY <1>3, <1>5, <1>6, <1>7 DEF n, e

-----------------------------------------------------------------------------
(* What is searched.                                                         *)

(* What is searched within a distance is the tops and, step by step, the     *)
(* containers beneath.                                                       *)
LEMMA SearchedSteps ==
  ASSUME NEW tops, NEW sought
  PROVE  /\ Searched(tops, sought)[0] = tops
         /\ \A d \in 0 .. MaxDepth - 2 :
              Searched(tops, sought)[d + 1] =
                Searched(tops, sought)[d]
                \cup ChildrenOf(Searched(tops, sought)[d], ContainerKinds \ {sought})
<1> DEFINE more(X) == X \cup ChildrenOf(X, ContainerKinds \ {sought})
           searches(f, n) == f = [d \in 0 .. n |-> IF d = 0 THEN tops ELSE more(f[d - 1])]
           T == {n \in Nat : \E f : searches(f, n)}
<1>1. 0 \in T
  <2>1. searches([d \in 0 .. 0 |-> tops], 0)
    <3>1. \A d \in 0 .. 0 : d = 0
      OBVIOUS
    <3> HIDE DEF more
    <3> QED
      BY <3>1
  <2> HIDE DEF searches
  <2> QED
    BY <2>1
<1>2. ASSUME NEW n \in Nat, n \in T
      PROVE  n + 1 \in T
  <2>1. PICK f : searches(f, n)
    BY <1>2
  <2> DEFINE g == [d \in 0 .. n + 1 |-> IF d <= n THEN f[d] ELSE more(f[n])]
  <2> HIDE DEF more
  <2>2. \A d \in 0 .. n : f[d] = IF d = 0 THEN tops ELSE more(f[d - 1])
    BY <2>1
  <2>3. ASSUME NEW d \in 0 .. n + 1
        PROVE  g[d] = IF d = 0 THEN tops ELSE more(g[d - 1])
    <3>1. CASE d <= n /\ d # 0
      <4>1. d \in 0 .. n /\ d - 1 \in 0 .. n + 1 /\ d - 1 <= n
        BY <3>1
      <4>2. g[d] = f[d] /\ g[d - 1] = f[d - 1]
        BY <3>1, <4>1
      <4> HIDE DEF g
      <4> QED
        BY <2>2, <3>1, <4>1, <4>2
    <3>2. CASE d = 0
      <4>1. 0 \in 0 .. n /\ 0 \in 0 .. n + 1 /\ 0 <= n
        OBVIOUS
      <4>2. g[0] = f[0]
        BY <4>1
      <4> HIDE DEF g
      <4> QED
        BY <2>2, <3>2, <4>1, <4>2
    <3>3. CASE d = n + 1
      <4>1. /\ n + 1 \in 0 .. n + 1 /\ ~(n + 1 <= n) /\ (n + 1) - 1 = n
            /\ n \in 0 .. n + 1 /\ n <= n /\ n + 1 # 0
        OBVIOUS
      <4>2. g[n + 1] = more(f[n]) /\ g[n] = f[n]
        BY <4>1
      <4> HIDE DEF g
      <4> QED
        BY <3>3, <4>1, <4>2
    <3> QED
      BY <3>1, <3>2, <3>3
  <2>4. searches(g, n + 1)
    <3>1. g = [d \in 0 .. n + 1 |-> g[d]]
      OBVIOUS
    <3> HIDE DEF g
    <3> QED
      BY <2>3, <3>1
  <2> HIDE DEF searches, g
  <2> QED
    BY <2>4
<1>3. MaxDepth - 1 \in Nat
  BY DepthAssumption
<1>4. MaxDepth - 1 \in T
  <2> HIDE DEF T
  <2> QED
    BY <1>1, <1>2, <1>3, AllNaturals
<1>5. \E f : searches(f, MaxDepth - 1)
  BY <1>4
<1>6. Searched(tops, sought) = CHOOSE f : searches(f, MaxDepth - 1)
  BY DEF Searched
<1>7. searches(Searched(tops, sought), MaxDepth - 1)
  <2> HIDE DEF searches
  <2> QED
    BY <1>5, <1>6
<1> DEFINE f == Searched(tops, sought)
<1> HIDE DEF f
<1>8. \A d \in 0 .. MaxDepth - 1 : f[d] = IF d = 0 THEN tops ELSE more(f[d - 1])
  <2> HIDE DEF more
  <2> QED
    BY <1>7 DEF f
<1>9. f[0] = tops
  <2>1. 0 \in 0 .. MaxDepth - 1
    BY DepthAssumption
  <2> HIDE DEF more
  <2> QED
    BY <1>8, <2>1
<1>10. ASSUME NEW d \in 0 .. MaxDepth - 2
       PROVE  f[d + 1] = more(f[d])
  <2>1. d + 1 \in 0 .. MaxDepth - 1 /\ d + 1 # 0 /\ (d + 1) - 1 = d
    BY DepthAssumption
  <2> HIDE DEF more
  <2> QED
    BY <1>8, <2>1
<1> QED
  BY <1>9, <1>10 DEF f

(* What is searched grows with the distance.                                 *)
LEMMA SearchedGrows ==
  ASSUME NEW tops, NEW sought, NEW d \in 0 .. MaxDepth - 1
  PROVE  Searched(tops, sought)[d] \subseteq Searched(tops, sought)[MaxDepth - 1]
<1> DEFINE f == Searched(tops, sought)
           T == {n \in Nat : n <= MaxDepth - 1 => f[MaxDepth - 1 - n] \subseteq f[MaxDepth - 1]}
<1>1. MaxDepth \in Nat \ {0}
  BY DepthAssumption
<1>2. \A e \in 0 .. MaxDepth - 2 :
        f[e + 1] = f[e] \cup ChildrenOf(f[e], ContainerKinds \ {sought})
  BY SearchedSteps
<1> HIDE DEF f
<1>3. 0 \in T
  BY <1>1
<1>4. ASSUME NEW n \in Nat, n \in T
      PROVE  n + 1 \in T
  <2> SUFFICES ASSUME n + 1 <= MaxDepth - 1
               PROVE  f[MaxDepth - 1 - (n + 1)] \subseteq f[MaxDepth - 1]
    OBVIOUS
  <2>1. /\ MaxDepth - 1 - (n + 1) \in 0 .. MaxDepth - 2
        /\ (MaxDepth - 1 - (n + 1)) + 1 = MaxDepth - 1 - n
        /\ n <= MaxDepth - 1
    BY <1>1
  <2> QED
    BY <1>2, <1>4, <2>1
<1>5. Nat \subseteq T
  <2> HIDE DEF T
  <2> QED
    BY <1>3, <1>4, AllNaturals
<1>6. /\ MaxDepth - 1 - d \in Nat /\ MaxDepth - 1 - d <= MaxDepth - 1
      /\ MaxDepth - 1 - (MaxDepth - 1 - d) = d
  BY <1>1
<1>7. MaxDepth - 1 - d \in T
  BY <1>5, <1>6
<1> QED
  BY <1>6, <1>7 DEF f

(* A set with its own containers is never left.                              *)
LEMMA SearchedWithin ==
  ASSUME NEW tops, NEW sought, NEW d \in 0 .. MaxDepth - 1, NEW X,
         Searched(tops, sought)[d] \subseteq X,
         ChildrenOf(X, ContainerKinds \ {sought}) \subseteq X
  PROVE  Searched(tops, sought)[MaxDepth - 1] \subseteq X
<1> DEFINE f == Searched(tops, sought)
           T == {n \in Nat : d + n <= MaxDepth - 1 => f[d + n] \subseteq X}
<1>1. MaxDepth \in Nat \ {0}
  BY DepthAssumption
<1>2. \A e \in 0 .. MaxDepth - 2 :
        f[e + 1] = f[e] \cup ChildrenOf(f[e], ContainerKinds \ {sought})
  BY SearchedSteps
<1> HIDE DEF f
<1>3. 0 \in T
  BY DEF f
<1>4. ASSUME NEW n \in Nat, n \in T
      PROVE  n + 1 \in T
  <2> SUFFICES ASSUME d + (n + 1) <= MaxDepth - 1
               PROVE  f[d + (n + 1)] \subseteq X
    OBVIOUS
  <2>1. d + n \in 0 .. MaxDepth - 2 /\ d + (n + 1) = (d + n) + 1 /\ d + n <= MaxDepth - 1
    BY <1>1
  <2>2. f[d + n] \subseteq X
    BY <1>4, <2>1
  <2>3. ChildrenOf(f[d + n], ContainerKinds \ {sought}) \subseteq X
    BY <2>2 DEF ChildrenOf
  <2> QED
    BY <1>2, <2>1, <2>2, <2>3
<1>5. Nat \subseteq T
  <2> HIDE DEF T
  <2> QED
    BY <1>3, <1>4, AllNaturals
<1>6. MaxDepth - 1 - d \in Nat /\ d + (MaxDepth - 1 - d) = MaxDepth - 1
  BY <1>1
<1>7. MaxDepth - 1 - d \in T
  BY <1>5, <1>6
<1>8. MaxDepth - 1 <= MaxDepth - 1
  BY <1>1
<1> QED
  BY <1>6, <1>7, <1>8 DEF f

-----------------------------------------------------------------------------
(* Types.                                                                    *)

ScopeTypes ==
  /\ TypeOK
  /\ given \in Cases
  /\ pc # "done" => depth \in 0 .. MaxDepth - 1
  /\ pc = "fetching" => frontier # <<>>

\* TypeOK, apart from what the inventory and the request are.
Walking ==
  /\ roots \in Seq(Resources) /\ frontier \in Seq(Resources) /\ nxt \in Seq(Resources)
  /\ out \in Seq(Resources) /\ found \in Seq(Resources)
  /\ visited \subseteq Resources
  /\ depth \in 0 .. MaxDepth /\ (pc # "done" => depth \in 0 .. MaxDepth - 1)
  /\ page \in Nat
  /\ pc \in {"start", "listing", "searching", "walking", "fetching", "done", "unknown location"}
  /\ pc = "fetching" => frontier # <<>>
  /\ names \in Seq(DOMAIN PartsOf)
  /\ failed \in BOOLEAN

Inventories ==
  /\ given \in Cases
  /\ order \in Seq(Resources) /\ children \in [Resources -> Seq(Resources)]
  /\ changes \in 0 .. given.changes
  /\ shrunk \in BOOLEAN

LEMMA TypesParts == ScopeTypes <=> Walking /\ Inventories
BY DEF ScopeTypes, TypeOK, Walking, Inventories

LEMMA InitTypes ==
  ASSUME Init
  PROVE  Walking /\ Inventories
<1>1. given \in Cases /\ order = given.order /\ children = given.children
  BY DEF Init
<1>2. /\ given.order \in Seq(Resources)
      /\ given.children \in [Resources -> Seq(Resources)]
      /\ given.changes \in Nat
  BY <1>1, CasesAssumption
<1>3. Inventories
  <2>1. changes = 0 /\ shrunk = FALSE
    BY DEF Init
  <2>2. 0 \in 0 .. given.changes
    BY <1>2
  <2> QED
    BY <1>1, <1>2, <2>1, <2>2 DEF Inventories
<1>4. \A S : <<>> \in Seq(S)
  OBVIOUS
<1>5. 0 \in 0 .. MaxDepth /\ 0 \in 0 .. MaxDepth - 1 /\ 0 \in Nat
  BY DepthAssumption
<1>6. Walking
  BY <1>4, <1>5 DEF Init, Walking
<1> QED
  BY <1>3, <1>6

LEMMA OfKindType ==
  ASSUME Inventories
  PROVE  OfKind \in Seq(Resources)
BY AmongElements DEF Inventories, OfKind

LEMMA BatchType ==
  ASSUME NEW list \in Seq(Resources), page \in Nat
  PROVE  Batch(list, page) \in Seq(Resources)
<1>1. PageSize \in Nat \ {0}
  BY SizesAssumption
<1> QED
  BY <1>1, PageElements DEF Batch

LEMMA CollectTypes ==
  ASSUME Walking, pc = "fetching", UNCHANGED <<given, kind, names, roots>>,
         failed' \in BOOLEAN, NEW kids \in Seq(Resources), Collect(kids)
  PROVE  Walking'
<1>1. found' \in Seq(Resources)
  <2>1. Among(kids, {r \in Resources : Kind[r] = kind}) \in Seq(Resources)
    BY AmongElements
  <2>2. found \o Among(kids, {r \in Resources : Kind[r] = kind}) \in Seq(Resources)
    BY <2>1, ConcatElements DEF Walking
  <2> QED
    BY <2>2, DistinctElements DEF Collect
<1>2. nxt' \in Seq(Resources)
  <2>1. Among(kids, {r \in Resources \ visited : Descends(r)}) \in Seq(Resources)
    BY AmongElements
  <2> QED
    BY <2>1, ConcatElements DEF Walking, Collect
<1>3. frontier' \in Seq(Resources)
  BY TailElements DEF Walking, Collect
<1>4. \A S : <<>> \in Seq(S)
  OBVIOUS
<1> QED
  BY <1>1, <1>2, <1>3, <1>4 DEF Walking, Collect

LEMMA QueryTypes ==
  ASSUME Walking, Inventories, Query
  PROVE  Walking'
<1>1. CASE Resolve
  <2>1. request.location \in DOMAIN Sites => Sites[request.location] \in Seq(DOMAIN PartsOf)
    BY SitesAssumption
  <2> QED
    BY <1>1, <2>1 DEF Resolve, Walking, walk
<1>2. CASE ListPage
  <2>1. out' \in Seq(Resources)
    BY <1>2, OfKindType, BatchType, ConcatElements DEF ListPage, Walking
  <2>2. page' \in Nat
    BY <1>2 DEF ListPage, Walking
  <2> QED
    BY <1>2, <2>1, <2>2 DEF ListPage, Walking, walk
<1>3. CASE ListFails
  BY <1>3 DEF ListFails, Walking, walk
<1>4. CASE Search
  <2>1. roots' \in Seq(Resources)
    <3>1. Matches(Head(names)) \in Seq(Resources)
      BY AmongElements DEF Inventories, Matches
    <3>2. SearchSize \in Nat \ {0} /\ 0 \in Nat
      BY SizesAssumption
    <3>3. FirstMatches(Head(names)) \in Seq(Resources)
      BY <3>1, <3>2, PageElements DEF FirstMatches
    <3>4. roots \o FirstMatches(Head(names)) \in Seq(Resources)
      BY <3>3, ConcatElements DEF Walking
    <3> QED
      BY <1>4, <3>4 DEF Search, Walking
  <2>2. names' \in Seq(DOMAIN PartsOf)
    BY <1>4, TailElements DEF Search, Walking
  <2> QED
    BY <1>4, <2>1, <2>2 DEF Search, Walking, walk
<1>5. CASE BeginWalk
  <2>1. frontier' \in Seq(Resources)
    BY <1>5, DistinctElements DEF BeginWalk, Walking
  <2> QED
    BY <1>5, <2>1 DEF BeginWalk, Walking
<1>6. CASE SkipVisited
  <2>1. frontier' \in Seq(Resources)
    BY <1>6, TailElements DEF SkipVisited, Walking
  <2> QED
    BY <1>6, <2>1 DEF SkipVisited, Walking
<1>7. CASE Expand
  <2>1. visited' \subseteq Resources
    BY <1>7, TailElements DEF Expand, Walking
  <2> QED
    BY <1>7, <2>1 DEF Expand, Walking
<1>8. CASE FetchPage
  <2> DEFINE kids == children[Head(frontier)]
             fetched == out \o Batch(kids, page)
  <2>1. kids \in Seq(Resources)
    <3>1. Head(frontier) \in Resources
      BY <1>8, TailElements DEF FetchPage, Walking
    <3> QED
      BY <3>1 DEF Inventories
  <2>2. fetched \in Seq(Resources)
    <3> HIDE DEF kids
    <3> QED
      BY <2>1, BatchType, ConcatElements DEF Walking
  <2>3. /\ pc = "fetching" /\ UNCHANGED <<given, kind, names, roots, failed>>
        /\ \/ Collect(fetched)
           \/ page' = page + 1 /\ out' = fetched /\ UNCHANGED <<walk, pc>>
    BY <1>8 DEF FetchPage
  <2> HIDE DEF kids, fetched
  <2>4. CASE Collect(fetched)
    <3>1. failed' \in BOOLEAN
      BY <2>3 DEF Walking
    <3> QED
      BY <2>2, <2>3, <2>4, <3>1, CollectTypes
  <2>5. CASE page' = page + 1 /\ out' = fetched /\ UNCHANGED <<walk, pc>>
    BY <2>2, <2>3, <2>5 DEF Walking, walk
  <2> QED
    BY <2>3, <2>4, <2>5
<1>9. CASE FetchFails
  <2>1. /\ pc = "fetching" /\ Collect(out) /\ failed' \in BOOLEAN
        /\ UNCHANGED <<given, kind, names, roots>>
    BY <1>9 DEF FetchFails
  <2>2. out \in Seq(Resources)
    BY DEF Walking
  <2> QED
    BY <2>1, <2>2, CollectTypes
<1>10. CASE NextLevel
  <2>1. /\ depth' \in 0 .. MaxDepth
        /\ pc' # "done" => depth' \in 0 .. MaxDepth - 1
    BY <1>10, DepthAssumption DEF NextLevel, Walking
  <2>2. \A S : <<>> \in Seq(S)
    OBVIOUS
  <2> QED
    BY <1>10, <2>1, <2>2 DEF NextLevel, Walking
<1> QED
  BY <1>1, <1>2, <1>3, <1>4, <1>5, <1>6, <1>7, <1>8, <1>9, <1>10 DEF Query

\* A query does not touch the inventory.
LEMMA QueryInventory ==
  ASSUME Query
  PROVE  UNCHANGED <<inventory, given>>
BY DEF Query, Resolve, ListPage, ListFails, Search, BeginWalk, SkipVisited, Expand, FetchPage,
       FetchFails, NextLevel

\* And a change of the inventory nothing else.
LEMMA InventoryWalk ==
  ASSUME Inventory
  PROVE  /\ UNCHANGED <<walk, given, kind, pc, names, roots, page, out, failed>>
         /\ changes' = changes + 1 /\ changes < given.changes
BY DEF Inventory, Delete, Move, Create, Changes

LEMMA InventoryTypes ==
  ASSUME Inventories, Inventory
  PROVE  Inventories'
<1>1. /\ given \in Cases
      /\ order \in Seq(Resources) /\ children \in [Resources -> Seq(Resources)]
      /\ changes \in 0 .. given.changes /\ given.changes \in Nat
      /\ given.new \subseteq Resources /\ given.places \subseteq Nat
      /\ shrunk \in BOOLEAN
  BY CasesAssumption DEF Inventories
<1>2. given' = given /\ changes' \in 0 .. given.changes
  BY <1>1, InventoryWalk
<1>3. \A list \in Seq(Resources), r \in Resources : Without(list, r) \in Seq(Resources)
  BY AmongElements DEF Without
<1>4. ASSUME NEW r \in Resources, Delete(r)
      PROVE  Inventories'
  BY <1>1, <1>2, <1>3, <1>4 DEF Delete, Inventories
<1>5. ASSUME NEW r \in Resources, NEW from \in Resources, NEW to \in Resources, Move(r, from, to)
      PROVE  Inventories'
  <2>1. children' \in [Resources -> Seq(Resources)]
    <3>1. /\ Without(children[from], r) \in Seq(Resources)
          /\ Append(Without(children[to], r), r) \in Seq(Resources)
      BY <1>1, <1>3
    <3> QED
      BY <1>1, <1>5, <3>1 DEF Move
  <2> QED
    BY <1>1, <1>2, <1>5, <2>1 DEF Move, Inventories
<1>6. ASSUME NEW r \in Resources, NEW p \in Resources, NEW position \in Nat, Create(r, p, position)
      PROVE  Inventories'
  <2>1. order' \in Seq(Resources)
    <3>1. position \in Nat /\ position <= Len(order)
      BY <1>6 DEF Create
    <3>2. SubSeq(order, 1, position) \in Seq(Resources)
      BY <1>1, <3>1
    <3>3. SubSeq(order, position + 1, Len(order)) \in Seq(Resources)
      BY <1>1, <3>1
    <3>4. <<r>> \in Seq(Resources)
      OBVIOUS
    <3>5. order' = SubSeq(order, 1, position) \o <<r>> \o SubSeq(order, position + 1, Len(order))
      BY <1>6 DEF Create
    <3> QED
      BY <3>2, <3>3, <3>4, <3>5, ConcatElements
  <2>2. children' \in [Resources -> Seq(Resources)]
    <3>1. <<r>> \o children[p] \in Seq(Resources)
      BY <1>1
    <3> QED
      BY <1>1, <1>6, <3>1 DEF Create
  <2> QED
    BY <1>1, <1>2, <1>6, <2>1, <2>2 DEF Create, Inventories
<1> QED
  BY <1>1, <1>4, <1>5, <1>6 DEF Inventory

-----------------------------------------------------------------------------
(* The walk.                                                                 *)

Level(d) == Searched(ToSet(roots), kind)[d]
Through == ContainerKinds \ {kind}

LEMMA Levels ==
  /\ Level(0) = ToSet(roots)
  /\ \A d \in 0 .. MaxDepth - 2 : Level(d + 1) = Level(d) \cup ChildrenOf(Level(d), Through)
  /\ \A d \in 0 .. MaxDepth - 1 : Level(d) \subseteq Level(MaxDepth - 1)
  /\ Beneath(ToSet(roots), kind) = ChildrenOf(Level(MaxDepth - 1), {kind})
BY SearchedSteps, SearchedGrows DEF Level, Through, Beneath

\* What is still as at first.
Fresh ==
  /\ pc \in {"start", "listing", "unknown location"} => roots = <<>>
  /\ pc \in {"start", "listing", "searching", "unknown location"} =>
       found = <<>> /\ nxt = <<>> /\ depth = 0 /\ visited = {}
  /\ pc \in {"start", "searching", "walking"} => out = <<>> /\ page = 0
  /\ pc = "fetching" => Head(frontier) \in visited

\* Everything on its way is within its distance, and everything found beneath.
Sound ==
  /\ pc \in {"walking", "fetching"} =>
       /\ ToSet(frontier) \subseteq Level(depth)
       /\ ToSet(nxt) \subseteq ChildrenOf(Level(depth), Through)
  /\ pc = "fetching" => ToSet(out) \subseteq ToSet(children[Head(frontier)])
  /\ pc \in {"walking", "fetching", "done"} => ToSet(found) \subseteq Beneath(ToSet(roots), kind)

\* What was visited has its children found, and those to descend through on
\* their way.
Expanded == IF pc = "fetching" THEN visited \ {Head(frontier)} ELSE visited

Complete ==
  /\ pc \in {"walking", "fetching"} =>
       /\ Level(depth) \subseteq visited \cup ToSet(frontier)
       /\ ChildrenOf(Expanded, {kind}) \subseteq ToSet(found)
       /\ ChildrenOf(Expanded, Through) \subseteq visited \cup ToSet(frontier) \cup ToSet(nxt)
  /\ pc = "fetching" =>
       \A i \in DOMAIN children[Head(frontier)] :
         i <= page * PageSize => children[Head(frontier)][i] \in ToSet(out)
  /\ pc = "done" => Beneath(ToSet(roots), kind) \subseteq ToSet(found)

LEMMA InitFresh ==
  ASSUME Init
  PROVE  Fresh
BY DEF Init, Fresh

LEMMA QueryFresh ==
  ASSUME Walking, Fresh, Query
  PROVE  Fresh'
<1>1. CASE Resolve
  BY <1>1 DEF Resolve, Fresh, walk
<1>2. CASE ListPage
  BY <1>2 DEF ListPage, Fresh, walk
<1>3. CASE ListFails
  BY <1>3 DEF ListFails, Fresh, walk
<1>4. CASE Search
  BY <1>4 DEF Search, Fresh, walk
<1>5. CASE BeginWalk
  BY <1>5 DEF BeginWalk, Fresh
<1>6. CASE SkipVisited
  BY <1>6 DEF SkipVisited, Fresh
<1>7. CASE Expand
  BY <1>7 DEF Expand, Fresh
<1>8. CASE FetchPage
  <2>1. /\ pc = "fetching" /\ UNCHANGED roots
        /\ \/ pc' = "walking" /\ out' = <<>> /\ page' = 0
           \/ UNCHANGED <<frontier, visited, pc>>
    <3>1. /\ pc = "fetching" /\ UNCHANGED roots
          /\ \/ \E kids \in {out \o Batch(children[Head(frontier)], page)} : Collect(kids)
             \/ UNCHANGED <<walk, pc>>
      BY <1>8 DEF FetchPage
    <3> QED
      BY <3>1 DEF Collect, walk
  <2> QED
    BY <2>1 DEF Fresh
<1>9. CASE FetchFails
  BY <1>9 DEF FetchFails, Collect, Fresh
<1>10. CASE NextLevel
  BY <1>10 DEF NextLevel, Fresh
<1> QED
  BY <1>1, <1>2, <1>3, <1>4, <1>5, <1>6, <1>7, <1>8, <1>9, <1>10 DEF Query

\* What the children of a resource make of the walk.
LEMMA CollectElements ==
  ASSUME Walking, pc = "fetching", NEW kids \in Seq(Resources), Collect(kids)
  PROVE  /\ ToSet(found') = ToSet(found) \cup {r \in ToSet(kids) : Kind[r] = kind}
         /\ ToSet(nxt') = ToSet(nxt) \cup {r \in ToSet(kids) \ visited : Kind[r] \in Through}
         /\ ToSet(frontier) = {Head(frontier)} \cup ToSet(frontier')
         /\ Head(frontier) \in Resources
         /\ pc' = "walking" /\ UNCHANGED <<visited, depth>>
<1>1. ToSet(kids) \subseteq Resources
  <2>1. \A i \in DOMAIN kids : kids[i] \in Resources
    OBVIOUS
  <2> QED
    BY <2>1, Zenon DEF ToSet
<1>2. ToSet(found') = ToSet(found) \cup {r \in ToSet(kids) : Kind[r] = kind}
  <2> DEFINE some == Among(kids, {r \in Resources : Kind[r] = kind})
  <2>1. some \in Seq(Resources) /\ ToSet(some) = ToSet(kids) \cap {r \in Resources : Kind[r] = kind}
    BY AmongElements
  <2>2. found' = Distinct(found \o some)
    BY DEF Collect
  <2> HIDE DEF some
  <2>3. found \in Seq(Resources)
    BY DEF Walking
  <2>4. found \o some \in Seq(Resources) /\ ToSet(found \o some) = ToSet(found) \cup ToSet(some)
    BY <2>1, <2>3, ConcatElements
  <2>5. ToSet(Distinct(found \o some)) = ToSet(found \o some)
    BY <2>4, DistinctElements
  <2>6. ToSet(found') = ToSet(found) \cup ToSet(some)
    BY <2>2, <2>4, <2>5, Zenon
  <2> QED
    BY <1>1, <2>1, <2>6
<1>3. ToSet(nxt') = ToSet(nxt) \cup {r \in ToSet(kids) \ visited : Kind[r] \in Through}
  <2> DEFINE some == Among(kids, {r \in Resources \ visited : Descends(r)})
  <2>1. some \in Seq(Resources) /\ ToSet(some) = ToSet(kids) \cap {r \in Resources \ visited : Descends(r)}
    BY AmongElements
  <2>2. nxt' = nxt \o some
    BY DEF Collect
  <2> HIDE DEF some
  <2>3. nxt \in Seq(Resources)
    BY DEF Walking
  <2>4. ToSet(nxt \o some) = ToSet(nxt) \cup ToSet(some)
    BY <2>1, <2>3, ConcatElements
  <2>5. ToSet(nxt') = ToSet(nxt) \cup ToSet(some)
    BY <2>2, <2>4, Zenon
  <2> QED
    BY <1>1, <2>1, <2>5 DEF Descends, Through
<1>4. /\ Head(frontier) \in Resources
      /\ ToSet(frontier) = {Head(frontier)} \cup ToSet(frontier')
  BY TailElements DEF Walking, Collect
<1> QED
  BY <1>2, <1>3, <1>4 DEF Collect

(* The walk a step later, with the same inventory and roots.                 *)
LEMMA SoundLater ==
  ASSUME UNCHANGED <<children, roots, kind>>,
         pc' \in {"walking", "fetching"} =>
           /\ ToSet(frontier') \subseteq Level(depth')
           /\ ToSet(nxt') \subseteq ChildrenOf(Level(depth'), Through),
         pc' = "fetching" => ToSet(out') \subseteq ToSet(children[Head(frontier')]),
         pc' \in {"walking", "fetching", "done"} =>
           ToSet(found') \subseteq Beneath(ToSet(roots), kind)
  PROVE  Sound'
<1>1. Level(depth)' = Level(depth')
  BY DEF Level, Searched, ChildrenOf
<1>2. Through' = Through /\ Beneath(ToSet(roots), kind)' = Beneath(ToSet(roots), kind)
  BY DEF Through, Beneath, Searched, ChildrenOf
<1>3. ChildrenOf(Level(depth), Through)' = ChildrenOf(Level(depth'), Through)
  BY <1>1, <1>2 DEF ChildrenOf
<1> QED
  BY <1>1, <1>2, <1>3 DEF Sound

LEMMA CompleteLater ==
  ASSUME UNCHANGED <<children, roots, kind>>,
         NEW expanded, expanded = (IF pc' = "fetching" THEN visited' \ {Head(frontier')} ELSE visited'),
         pc' \in {"walking", "fetching"} =>
           /\ Level(depth') \subseteq visited' \cup ToSet(frontier')
           /\ ChildrenOf(expanded, {kind}) \subseteq ToSet(found')
           /\ ChildrenOf(expanded, Through) \subseteq visited' \cup ToSet(frontier') \cup ToSet(nxt'),
         pc' = "fetching" =>
           \A i \in DOMAIN children[Head(frontier')] :
             i <= page' * PageSize => children[Head(frontier')][i] \in ToSet(out'),
         pc' = "done" => Beneath(ToSet(roots), kind) \subseteq ToSet(found')
  PROVE  Complete'
<1>1. pc' \in {"walking", "fetching"} =>
        (/\ Level(depth) \subseteq visited \cup ToSet(frontier)
         /\ ChildrenOf(Expanded, {kind}) \subseteq ToSet(found)
         /\ ChildrenOf(Expanded, Through) \subseteq visited \cup ToSet(frontier) \cup ToSet(nxt))'
  <2> SUFFICES ASSUME pc' \in {"walking", "fetching"}
               PROVE  (/\ Level(depth) \subseteq visited \cup ToSet(frontier)
                       /\ ChildrenOf(Expanded, {kind}) \subseteq ToSet(found)
                       /\ ChildrenOf(Expanded, Through)
                            \subseteq visited \cup ToSet(frontier) \cup ToSet(nxt))'
    OBVIOUS
  <2>1. (Level(depth) \subseteq visited \cup ToSet(frontier))'
    BY DEF Level, Searched, ChildrenOf
  <2>2. Expanded' = expanded
    BY Zenon DEF Expanded
  <2>3. (ChildrenOf(Expanded, {kind}) \subseteq ToSet(found))'
    BY <2>2 DEF ChildrenOf
  <2>4. (ChildrenOf(Expanded, Through) \subseteq visited \cup ToSet(frontier) \cup ToSet(nxt))'
    BY <2>2 DEF ChildrenOf, Through
  <2> QED
    BY <2>1, <2>3, <2>4
<1>2. pc' = "fetching" =>
        (\A i \in DOMAIN children[Head(frontier)] :
          i <= page * PageSize => children[Head(frontier)][i] \in ToSet(out))'
  BY Zenon
<1>3. pc' = "done" => (Beneath(ToSet(roots), kind) \subseteq ToSet(found))'
  BY DEF Beneath, Searched, ChildrenOf
<1> QED
  BY <1>1, <1>2, <1>3, Zenon DEF Complete

(* A step of the walk.                                                       *)

\* The resource whose children were fetched is done with.
LEMMA CollectSound ==
  ASSUME Walking, Sound, pc = "fetching", UNCHANGED <<children, roots, kind>>,
         NEW kids \in Seq(Resources), ToSet(kids) \subseteq ToSet(children[Head(frontier)]),
         Collect(kids)
  PROVE  Sound'
<1> DEFINE h == Head(frontier)
           L == Level(depth)
           M == Level(MaxDepth - 1)
<1>1. /\ ToSet(found') = ToSet(found) \cup {r \in ToSet(kids) : Kind[r] = kind}
      /\ ToSet(nxt') = ToSet(nxt) \cup {r \in ToSet(kids) \ visited : Kind[r] \in Through}
      /\ ToSet(frontier) = {h} \cup ToSet(frontier')
      /\ pc' = "walking" /\ depth' = depth
  BY CollectElements
<1>2. /\ ToSet(frontier) \subseteq L
      /\ ToSet(nxt) \subseteq ChildrenOf(L, Through)
      /\ ToSet(found) \subseteq Beneath(ToSet(roots), kind)
  BY DEF Sound
<1>3. depth \in 0 .. MaxDepth - 1
  BY DEF Walking
<1>4. L \subseteq M /\ Beneath(ToSet(roots), kind) = ChildrenOf(M, {kind})
  BY <1>3, Levels
<1> HIDE DEF L, M
<1>5. ToSet(kids) \subseteq ToSet(children[h]) /\ h \in L /\ h \in M
  BY <1>1, <1>2, <1>4
<1> HIDE DEF h
<1>6. ToSet(found') \subseteq Beneath(ToSet(roots), kind)
  BY <1>1, <1>2, <1>4, <1>5 DEF ChildrenOf
<1>7. ToSet(nxt') \subseteq ChildrenOf(L, Through)
  BY <1>1, <1>2, <1>5 DEF ChildrenOf
<1>8. ToSet(frontier') \subseteq Level(depth') /\ ChildrenOf(L, Through) = ChildrenOf(Level(depth'), Through)
  BY <1>1, <1>2 DEF L
<1> QED
  BY <1>1, <1>6, <1>7, <1>8, SoundLater

LEMMA CollectComplete ==
  ASSUME Walking, Fresh, Complete, pc = "fetching", UNCHANGED <<children, roots, kind>>,
         NEW kids \in Seq(Resources), ToSet(children[Head(frontier)]) \subseteq ToSet(kids),
         Collect(kids)
  PROVE  Complete'
<1> DEFINE h == Head(frontier)
           D == visited \ {h}
<1>1. /\ ToSet(found') = ToSet(found) \cup {r \in ToSet(kids) : Kind[r] = kind}
      /\ ToSet(nxt') = ToSet(nxt) \cup {r \in ToSet(kids) \ visited : Kind[r] \in Through}
      /\ ToSet(frontier) = {h} \cup ToSet(frontier')
      /\ pc' = "walking" /\ depth' = depth /\ visited' = visited
  BY CollectElements
<1>2. /\ Level(depth) \subseteq visited \cup ToSet(frontier)
      /\ ChildrenOf(D, {kind}) \subseteq ToSet(found)
      /\ ChildrenOf(D, Through) \subseteq visited \cup ToSet(frontier) \cup ToSet(nxt)
  BY DEF Complete, Expanded
<1>3. h \in visited /\ visited = D \cup {h}
  BY DEF Fresh
<1> HIDE DEF D
<1>4. \A K : ChildrenOf(visited, K) = ChildrenOf(D, K) \cup {c \in ToSet(children[h]) : Kind[c] \in K}
  <2> SUFFICES ASSUME NEW K
               PROVE  ChildrenOf(visited, K) = ChildrenOf(D, K) \cup {c \in ToSet(children[h]) : Kind[c] \in K}
    OBVIOUS
  <2>1. ChildrenOf(D \cup {h}, K) = ChildrenOf(D, K) \cup {c \in ToSet(children[h]) : Kind[c] \in K}
    BY DEF ChildrenOf
  <2> QED
    BY <1>3, <2>1, Zenon
<1>5. ToSet(children[h]) \subseteq ToSet(kids)
  OBVIOUS
<1> HIDE DEF h
<1>6. ChildrenOf(visited, {kind}) \subseteq ToSet(found')
  <2>1. ASSUME NEW c \in ChildrenOf(visited, {kind})
        PROVE  c \in ToSet(found')
    <3>1. CASE c \in ChildrenOf(D, {kind})
      BY <1>1, <1>2, <3>1
    <3>2. CASE c \in ToSet(children[h]) /\ Kind[c] = kind
      BY <1>1, <1>5, <3>2
    <3>3. ChildrenOf(visited, {kind}) =
            ChildrenOf(D, {kind}) \cup {x \in ToSet(children[h]) : Kind[x] \in {kind}}
      BY <1>4
    <3> QED
      BY <2>1, <3>1, <3>2, <3>3
  <2> QED
    BY <2>1
<1>7. ChildrenOf(visited, Through) \subseteq visited \cup ToSet(frontier') \cup ToSet(nxt')
  <2>1. ASSUME NEW c \in ToSet(children[h]), Kind[c] \in Through
        PROVE  c \in visited \cup ToSet(nxt')
    BY <1>1, <1>5, <2>1
  <2>2. ChildrenOf(D, Through) \subseteq visited \cup ToSet(frontier') \cup ToSet(nxt')
    BY <1>1, <1>2, <1>3
  <2> QED
    BY <1>4, <2>1, <2>2
<1>8. Level(depth') \subseteq visited \cup ToSet(frontier')
  BY <1>1, <1>2, <1>3
<1> QED
  BY <1>1, <1>6, <1>7, <1>8, CompleteLater

\* A page of the children of a resource.
LEMMA FetchedElements ==
  ASSUME Walking, Inventories, pc = "fetching",
         NEW kids, kids = children[Head(frontier)],
         NEW fetched, fetched = out \o Batch(kids, page)
  PROVE  /\ fetched \in Seq(Resources)
         /\ Sound => ToSet(fetched) \subseteq ToSet(kids)
         /\ Complete => /\ \A i \in DOMAIN kids : i <= (page + 1) * PageSize => kids[i] \in ToSet(fetched)
                        /\ LastPage(kids, page) => ToSet(kids) \subseteq ToSet(fetched)
<1> DEFINE n == page * PageSize
           e == Smaller((page + 1) * PageSize, Len(kids))
           batch == Batch(kids, page)
<1>1. kids \in Seq(Resources) /\ out \in Seq(Resources) /\ page \in Nat /\ PageSize \in Nat \ {0}
  <2>1. Head(frontier) \in Resources
    BY TailElements DEF Walking
  <2> QED
    BY <2>1, SizesAssumption DEF Walking, Inventories
<1>2. /\ batch \in Seq(Resources)
      /\ ToSet(batch) = Between(kids, n + 1, e)
      /\ batch = <<>> => Len(kids) <= n
  <2>1. batch = Page(kids, PageSize, page)
    BY DEF Batch
  <2> HIDE DEF batch
  <2> QED
    BY <1>1, <2>1, PageElements
<1>3. /\ Len(kids) \in Nat /\ DOMAIN kids = 1 .. Len(kids)
      /\ n \in Nat /\ (page + 1) * PageSize = n + PageSize
  BY <1>1
<1>4. LastPage(kids, page) => batch = <<>> \/ (page + 1) * PageSize >= Len(kids)
  BY DEF LastPage
<1> HIDE DEF n
<1>5. e = IF n + PageSize < Len(kids) THEN n + PageSize ELSE Len(kids)
  BY <1>3 DEF Smaller
<1> HIDE DEF e, batch
<1>6. fetched \in Seq(Resources) /\ ToSet(fetched) = ToSet(out) \cup ToSet(batch)
  <2>1. fetched = out \o batch
    BY DEF batch
  <2> QED
    BY <1>1, <1>2, <2>1, ConcatElements
<1>7. ASSUME Sound
      PROVE  ToSet(fetched) \subseteq ToSet(kids)
  <2>1. ToSet(out) \subseteq ToSet(kids)
    BY <1>7 DEF Sound
  <2>2. n + 1 .. e \subseteq DOMAIN kids
    BY <1>1, <1>3, <1>5
  <2>3. Between(kids, n + 1, e) \subseteq ToSet(kids)
    BY <2>2, Zenon DEF ToSet, Between
  <2> QED
    BY <1>2, <1>6, <2>1, <2>3
<1>8. ASSUME Complete
      PROVE  \A i \in DOMAIN kids : i <= (page + 1) * PageSize => kids[i] \in ToSet(fetched)
  <2> SUFFICES ASSUME NEW i \in DOMAIN kids, i <= n + PageSize
               PROVE  kids[i] \in ToSet(fetched)
    BY <1>3
  <2>1. CASE i <= n
    <3>1. kids[i] \in ToSet(out)
      BY <1>8, <2>1 DEF Complete, n
    <3> QED
      BY <1>6, <3>1
  <2>2. CASE ~(i <= n)
    <3>1. i \in n + 1 .. e
      BY <1>1, <1>3, <1>5, <2>2
    <3>2. kids[i] \in Between(kids, n + 1, e)
      BY <3>1, Zenon DEF Between
    <3> QED
      BY <1>2, <1>6, <3>2
  <2> QED
    BY <2>1, <2>2
<1>9. ASSUME Complete, LastPage(kids, page)
      PROVE  ToSet(kids) \subseteq ToSet(fetched)
  <2>1. \A i \in DOMAIN kids : i <= (page + 1) * PageSize
    BY <1>1, <1>2, <1>3, <1>4, <1>9
  <2>2. \A i \in DOMAIN kids : kids[i] \in ToSet(fetched)
    BY <1>8, <1>9, <2>1
  <2> QED
    BY <2>2, Zenon DEF ToSet
<1> QED
  BY <1>6, <1>7, <1>8, <1>9

LEMMA NothingBeneath ==
  ASSUME roots = <<>>
  PROVE  Beneath(ToSet(roots), kind) = {}
<1>1. Level(0) = {} /\ 0 \in 0 .. MaxDepth - 1
  BY Levels, EmptyElements, DepthAssumption
<1>2. ChildrenOf({}, Through) = {}
  BY DEF ChildrenOf
<1>3. Level(MaxDepth - 1) \subseteq {}
  <2>1. /\ Searched(ToSet(roots), kind)[0] \subseteq {}
        /\ ChildrenOf({}, ContainerKinds \ {kind}) \subseteq {}
    BY <1>1, <1>2 DEF Level, Through
  <2>2. Searched(ToSet(roots), kind)[MaxDepth - 1] \subseteq {}
    BY <1>1, <2>1, SearchedWithin
  <2> QED
    BY <2>2 DEF Level
<1> QED
  BY <1>3, Levels DEF ChildrenOf

LEMMA QuerySound ==
  ASSUME Walking, Inventories, Fresh, Sound, Query
  PROVE  Sound'
<1> USE EmptyElements
<1>1. CASE Resolve
  BY <1>1 DEF Resolve, Sound
<1>2. CASE ListPage
  <2>1. /\ found' = <<>> /\ UNCHANGED <<children, roots, kind>>
        /\ pc' \notin {"walking", "fetching"}
    BY <1>2 DEF ListPage, Fresh, walk, inventory
  <2> QED
    BY <2>1, SoundLater
<1>3. CASE ListFails
  <2>1. /\ found' = <<>> /\ UNCHANGED <<children, roots, kind>>
        /\ pc' \notin {"walking", "fetching"}
    BY <1>3 DEF ListFails, Fresh, walk, inventory
  <2> QED
    BY <2>1, SoundLater
<1>4. CASE Search
  BY <1>4 DEF Search, Sound
<1>5. CASE BeginWalk
  <2>1. /\ UNCHANGED <<children, roots, kind>>
        /\ found' = <<>> /\ nxt' = <<>> /\ depth' = 0
        /\ pc' # "fetching"
    BY <1>5 DEF BeginWalk, Fresh, inventory
  <2>2. ToSet(frontier') = Level(depth')
    <3>1. ToSet(frontier') = ToSet(roots)
      BY <1>5, DistinctElements DEF BeginWalk, Walking
    <3> QED
      BY <2>1, <3>1, Levels
  <2> QED
    BY <2>1, <2>2, SoundLater
<1>6. CASE SkipVisited
  <2>1. /\ UNCHANGED <<children, roots, kind, found, nxt, depth, pc, out>>
        /\ pc = "walking"
    BY <1>6 DEF SkipVisited, inventory
  <2>2. ToSet(frontier') \subseteq ToSet(frontier)
    BY <1>6, TailElements DEF SkipVisited, Walking
  <2> QED
    BY <2>1, <2>2, SoundLater DEF Sound
<1>7. CASE Expand
  <2>1. /\ UNCHANGED <<children, roots, kind, found, nxt, depth, frontier>>
        /\ pc = "walking" /\ out' = <<>>
    BY <1>7 DEF Expand, inventory, Fresh
  <2> QED
    BY <2>1, SoundLater DEF Sound
<1>8. CASE FetchPage
  <2> DEFINE kids == children[Head(frontier)]
             fetched == out \o Batch(kids, page)
  <2>1. /\ pc = "fetching" /\ UNCHANGED <<children, roots, kind>>
        /\ \/ Collect(fetched)
           \/ out' = fetched /\ UNCHANGED <<frontier, nxt, depth, found, pc>>
    BY <1>8 DEF FetchPage, inventory, walk
  <2>2. fetched \in Seq(Resources) /\ ToSet(fetched) \subseteq ToSet(kids)
    BY <2>1, FetchedElements
  <2> HIDE DEF fetched
  <2>3. CASE Collect(fetched)
    BY <2>1, <2>2, <2>3, CollectSound
  <2>4. CASE out' = fetched /\ UNCHANGED <<frontier, nxt, depth, found, pc>>
    BY <2>1, <2>2, <2>4, SoundLater DEF Sound
  <2> QED
    BY <2>1, <2>3, <2>4
<1>9. CASE FetchFails
  <2>1. /\ pc = "fetching" /\ UNCHANGED <<children, roots, kind>> /\ Collect(out)
    BY <1>9 DEF FetchFails, inventory
  <2>2. out \in Seq(Resources) /\ ToSet(out) \subseteq ToSet(children[Head(frontier)])
    BY <2>1 DEF Walking, Sound
  <2> QED
    BY <2>1, <2>2, CollectSound
<1>10. CASE NextLevel
  <2>1. /\ UNCHANGED <<children, roots, kind, found>>
        /\ frontier' = nxt /\ nxt' = <<>> /\ depth' = depth + 1
        /\ pc = "walking" /\ pc' \in {"walking", "done"}
        /\ pc' = "walking" => ~(depth + 1 >= MaxDepth)
    BY <1>10 DEF NextLevel, inventory
  <2>2. ToSet(nxt) \subseteq ChildrenOf(Level(depth), Through)
    BY <2>1 DEF Sound
  <2>3. pc' = "walking" => ToSet(frontier') \subseteq Level(depth')
    <3>1. pc' = "walking" => depth \in 0 .. MaxDepth - 2
      BY <2>1, DepthAssumption DEF Walking
    <3>2. pc' = "walking" => ChildrenOf(Level(depth), Through) \subseteq Level(depth + 1)
      BY <3>1, Levels
    <3> QED
      BY <2>1, <2>2, <3>2
  <2>4. ToSet(found) \subseteq Beneath(ToSet(roots), kind)
    BY <2>1 DEF Sound
  <2> QED
    BY <2>1, <2>3, <2>4, SoundLater
<1> QED
  BY <1>1, <1>2, <1>3, <1>4, <1>5, <1>6, <1>7, <1>8, <1>9, <1>10 DEF Query

LEMMA QueryComplete ==
  ASSUME Walking, Inventories, Fresh, Complete, Query, ~failed'
  PROVE  Complete'
<1> USE EmptyElements
<1>1. CASE Resolve
  BY <1>1 DEF Resolve, Complete
<1>2. CASE ListPage
  <2>1. /\ roots = <<>> /\ UNCHANGED <<children, roots, kind>>
        /\ pc' \notin {"walking", "fetching"}
    BY <1>2 DEF ListPage, Fresh, inventory
  <2> QED
    BY <2>1, NothingBeneath, CompleteLater
<1>3. CASE ListFails
  BY <1>3 DEF ListFails
<1>4. CASE Search
  BY <1>4 DEF Search, Complete
<1>5. CASE BeginWalk
  <2>1. /\ UNCHANGED <<children, roots, kind>>
        /\ found' = <<>> /\ visited' = {} /\ depth' = 0
        /\ pc' = IF roots = <<>> THEN "done" ELSE "walking"
    BY <1>5 DEF BeginWalk, Fresh, inventory
  <2>2. ToSet(frontier') = Level(depth')
    <3>1. ToSet(frontier') = ToSet(roots)
      BY <1>5, DistinctElements DEF BeginWalk, Walking
    <3> QED
      BY <2>1, <3>1, Levels
  <2>3. \A K : ChildrenOf({}, K) = {}
    BY DEF ChildrenOf
  <2>4. CASE roots = <<>>
    BY <2>1, <2>4, NothingBeneath, CompleteLater
  <2>5. CASE roots # <<>>
    BY <2>1, <2>2, <2>3, <2>5, CompleteLater
  <2> QED
    BY <2>4, <2>5
<1>6. CASE SkipVisited
  <2>1. /\ UNCHANGED <<children, roots, kind, found, nxt, visited, depth, pc>>
        /\ pc = "walking" /\ Head(frontier) \in visited
    BY <1>6 DEF SkipVisited, inventory
  <2>2. ToSet(frontier) = {Head(frontier)} \cup ToSet(frontier')
    BY <1>6, TailElements DEF SkipVisited, Walking
  <2>3. /\ Level(depth) \subseteq visited \cup ToSet(frontier)
        /\ ChildrenOf(visited, {kind}) \subseteq ToSet(found)
        /\ ChildrenOf(visited, Through) \subseteq visited \cup ToSet(frontier) \cup ToSet(nxt)
    BY <2>1 DEF Complete, Expanded
  <2> QED
    BY <2>1, <2>2, <2>3, CompleteLater
<1>7. CASE Expand
  <2>1. /\ UNCHANGED <<children, roots, kind, found, nxt, depth, frontier>>
        /\ pc = "walking" /\ pc' = "fetching" /\ page' = 0
        /\ Head(frontier) \notin visited /\ visited' = visited \cup {Head(frontier)}
    BY <1>7 DEF Expand, inventory, Fresh
  <2>2. /\ Level(depth) \subseteq visited \cup ToSet(frontier)
        /\ ChildrenOf(visited, {kind}) \subseteq ToSet(found)
        /\ ChildrenOf(visited, Through) \subseteq visited \cup ToSet(frontier) \cup ToSet(nxt)
    BY <2>1 DEF Complete, Expanded
  <2>3. visited = visited' \ {Head(frontier')}
    BY <2>1
  <2>4. \A i \in DOMAIN children[Head(frontier)] : ~(i <= page' * PageSize)
    <3>1. Head(frontier) \in Resources
      BY <1>7, TailElements DEF Expand, Walking
    <3>2. children[Head(frontier)] \in Seq(Resources)
      BY <3>1 DEF Inventories
    <3>3. page' * PageSize = 0
      BY <2>1, SizesAssumption
    <3> QED
      BY <3>2, <3>3
  <2> QED
    BY <2>1, <2>2, <2>3, <2>4, CompleteLater
<1>8. CASE FetchPage
  <2> DEFINE kids == children[Head(frontier)]
             fetched == out \o Batch(kids, page)
  <2>1. /\ pc = "fetching" /\ UNCHANGED <<children, roots, kind>>
        /\ \/ LastPage(kids, page) /\ Collect(fetched)
           \/ out' = fetched /\ page' = page + 1 /\ UNCHANGED <<frontier, nxt, visited, depth, found, pc>>
    BY <1>8 DEF FetchPage, inventory, walk
  <2>2. /\ fetched \in Seq(Resources)
        /\ \A i \in DOMAIN kids : i <= (page + 1) * PageSize => kids[i] \in ToSet(fetched)
        /\ LastPage(kids, page) => ToSet(kids) \subseteq ToSet(fetched)
    <3> HIDE DEF kids, fetched
    <3>1. pc = "fetching" /\ kids = children[Head(frontier)] /\ fetched = out \o Batch(kids, page)
      BY <2>1 DEF kids, fetched
    <3> QED
      BY <3>1, FetchedElements, Zenon
  <2> HIDE DEF fetched
  <2>3. CASE LastPage(kids, page) /\ Collect(fetched)
    BY <2>1, <2>2, <2>3, CollectComplete
  <2>4. CASE out' = fetched /\ page' = page + 1 /\ UNCHANGED <<frontier, nxt, visited, depth, found, pc>>
    <3>1. /\ Level(depth) \subseteq visited \cup ToSet(frontier)
          /\ ChildrenOf(Expanded, {kind}) \subseteq ToSet(found)
          /\ ChildrenOf(Expanded, Through) \subseteq visited \cup ToSet(frontier) \cup ToSet(nxt)
      BY <2>1 DEF Complete
    <3>2. Expanded = visited \ {Head(frontier)}
      BY <2>1 DEF Expanded
    <3> QED
      BY <2>1, <2>2, <2>4, <3>1, <3>2, CompleteLater
  <2> QED
    BY <2>1, <2>3, <2>4
<1>9. CASE FetchFails
  BY <1>9 DEF FetchFails
<1>10. CASE NextLevel
  <2>1. /\ UNCHANGED <<children, roots, kind, found, visited>>
        /\ frontier = <<>> /\ frontier' = nxt /\ nxt' = <<>> /\ depth' = depth + 1
        /\ pc = "walking"
        /\ pc' = IF nxt = <<>> \/ depth + 1 >= MaxDepth THEN "done" ELSE "walking"
    BY <1>10 DEF NextLevel, inventory
  <2>2. /\ Level(depth) \subseteq visited
        /\ ChildrenOf(visited, {kind}) \subseteq ToSet(found)
        /\ ChildrenOf(visited, Through) \subseteq visited \cup ToSet(nxt)
    BY <2>1 DEF Complete, Expanded
  <2>3. depth \in 0 .. MaxDepth - 1
    BY <2>1 DEF Walking
  <2>4. ASSUME pc' = "walking"
        PROVE  Level(depth') \subseteq visited \cup ToSet(nxt)
    <3>1. depth \in 0 .. MaxDepth - 2
      BY <2>1, <2>3, <2>4, DepthAssumption
    <3>2. Level(depth + 1) = Level(depth) \cup ChildrenOf(Level(depth), Through)
      BY <3>1, Levels
    <3>3. ChildrenOf(Level(depth), Through) \subseteq ChildrenOf(visited, Through)
      BY <2>2 DEF ChildrenOf
    <3> QED
      BY <2>1, <2>2, <3>2, <3>3
  <2>5. ASSUME pc' = "done"
        PROVE  Beneath(ToSet(roots), kind) \subseteq ToSet(found)
    <3>1. Level(MaxDepth - 1) \subseteq visited
      <4>1. CASE nxt = <<>>
        <5>1. ChildrenOf(visited, Through) \subseteq visited
          BY <2>2, <4>1
        <5>2. /\ Searched(ToSet(roots), kind)[depth] \subseteq visited
              /\ ChildrenOf(visited, ContainerKinds \ {kind}) \subseteq visited
          BY <2>2, <5>1 DEF Level, Through
        <5>3. Searched(ToSet(roots), kind)[MaxDepth - 1] \subseteq visited
          BY <2>3, <5>2, SearchedWithin
        <5> QED
          BY <5>3 DEF Level
      <4>2. CASE depth + 1 >= MaxDepth
        <5>1. depth = MaxDepth - 1
          BY <2>3, <4>2, DepthAssumption
        <5> QED
          BY <2>2, <5>1
      <4> QED
        BY <2>1, <2>5, <4>1, <4>2
    <3>2. ChildrenOf(Level(MaxDepth - 1), {kind}) \subseteq ChildrenOf(visited, {kind})
      BY <3>1 DEF ChildrenOf
    <3> QED
      BY <2>2, <3>2, Levels
  <2> QED
    BY <2>1, <2>2, <2>4, <2>5, CompleteLater
<1> QED
  BY <1>1, <1>2, <1>3, <1>4, <1>5, <1>6, <1>7, <1>8, <1>9, <1>10 DEF Query

-----------------------------------------------------------------------------
(* The listing of a kind.                                                    *)

Places(list, T) == {k \in DOMAIN list : list[k] \in T}

LEMMA AmongPlaces ==
  ASSUME NEW S, NEW list \in Seq(S), NEW T
  PROVE  /\ Places(list, T) \subseteq Nat /\ IsFiniteSet(Places(list, T))
         /\ \A k \in Places(list, T) :
              /\ Rank(Places(list, T), k) \in DOMAIN Among(list, T)
              /\ Among(list, T)[Rank(Places(list, T), k)] = list[k]
         /\ \A i \in DOMAIN Among(list, T) :
              \E k \in Places(list, T) : Rank(Places(list, T), k) = i
<1> DEFINE P == Places(list, T)
<1>1. P \subseteq DOMAIN list /\ P \subseteq 1 .. Len(list) /\ Len(list) \in Nat
  BY DEF Places
<1>2. Among(list, T) = At(list, P)
  BY DEF Among, Places
<1> HIDE DEF P
<1>3. /\ At(list, P) \in Seq(S) /\ Len(At(list, P)) = Cardinality(P)
      /\ \A k \in P : /\ Rank(P, k) \in 1 .. Cardinality(P)
                      /\ At(list, P)[Rank(P, k)] = list[k]
  BY <1>1, AtElements
<1>4. IsFiniteSet(P) /\ \A m \in 1 .. Cardinality(P) : \E k \in P : Rank(P, k) = m
  BY <1>1, Ranks
<1>5. DOMAIN At(list, P) = 1 .. Cardinality(P)
  BY <1>3
<1>6. P \subseteq Nat
  BY <1>1
<1> QED
  BY <1>2, <1>3, <1>4, <1>5, <1>6 DEF P

\* A list that another element is put into.
Insertion(list, q, x) == SubSeq(list, 1, q) \o <<x>> \o SubSeq(list, q + 1, Len(list))
Shift(q, k) == IF k <= q THEN k ELSE k + 1

LEMMA InsertionElements ==
  ASSUME NEW S, NEW list \in Seq(S), NEW x \in S, NEW q \in Nat, q <= Len(list)
  PROVE  /\ Insertion(list, q, x) \in Seq(S)
         /\ \A k \in DOMAIN list : /\ Shift(q, k) \in DOMAIN Insertion(list, q, x)
                                   /\ Insertion(list, q, x)[Shift(q, k)] = list[k]
<1> DEFINE n == Len(list)
           a == SubSeq(list, 1, q)
           b == SubSeq(list, q + 1, n)
<1>1. n \in Nat /\ DOMAIN list = 1 .. n /\ q <= n /\ \A k \in 1 .. n : list[k] \in S
  OBVIOUS
<1>2. a \in Seq(S) /\ Len(a) = q /\ \A k \in 1 .. q : a[k] = list[k]
  BY <1>1
<1>3. b \in Seq(S) /\ Len(b) = n - q /\ \A k \in 1 .. n - q : b[k] = list[q + 1 + k - 1]
  <2>1. q + 1 \in Int /\ n \in Int /\ \A k \in q + 1 .. n : list[k] \in S
    BY <1>1
  <2>2. /\ b \in Seq(S)
        /\ Len(b) = IF q + 1 <= n THEN n - (q + 1) + 1 ELSE 0
        /\ \A k \in 1 .. n - (q + 1) + 1 : b[k] = list[q + 1 + k - 1]
    BY <2>1, SubSeqProperties
  <2>3. n - (q + 1) + 1 = n - q /\ (~(q + 1 <= n) => n - q = 0)
    <3>1. n \in Nat /\ q <= n
      BY <1>1
    <3> HIDE DEF n
    <3> QED
      BY <3>1
  <2> HIDE DEF n, b
  <2> QED
    BY <2>2, <2>3
<1> HIDE DEF a, b, n
<1>4. Insertion(list, q, x) = (a \o <<x>>) \o b
  BY DEF Insertion, a, b, n
<1> DEFINE c == a \o <<x>>
<1>5. /\ c \in Seq(S) /\ Len(c) = q + 1
      /\ \A k \in 1 .. q : c[k] = list[k]
  BY <1>2
<1> HIDE DEF c
<1> DEFINE d == c \o b
<1>6. /\ d \in Seq(S) /\ DOMAIN d = 1 .. n + 1
      /\ \A k \in 1 .. q : d[k] = c[k]
      /\ \A k \in q + 2 .. n + 1 : d[k] = b[k - (q + 1)]
  BY <1>1, <1>3, <1>5
<1> HIDE DEF d
<1>7. ASSUME NEW k \in 1 .. n, k <= q
      PROVE  k \in DOMAIN d /\ d[k] = list[k]
  BY <1>1, <1>5, <1>6, <1>7
<1>8. ASSUME NEW k \in 1 .. n, ~(k <= q)
      PROVE  k + 1 \in DOMAIN d /\ d[k + 1] = list[k]
  <2>1. /\ k + 1 \in 1 .. n + 1 /\ k + 1 \in q + 2 .. n + 1
        /\ (k + 1) - (q + 1) = k - q
        /\ k - q \in 1 .. n - q /\ q + 1 + (k - q) - 1 = k
    BY <1>1, <1>8
  <2>2. d[k + 1] = b[k - q]
    BY <1>6, <2>1
  <2>3. b[k - q] = list[k]
    BY <1>3, <2>1
  <2> QED
    BY <1>6, <2>1, <2>2, <2>3
<1>9. \A k \in 1 .. n : Shift(q, k) \in DOMAIN d /\ d[Shift(q, k)] = list[k]
  BY <1>7, <1>8, Zenon DEF Shift
<1>10. Insertion(list, q, x) = d
  BY <1>4 DEF c, d
<1> QED
  BY <1>1, <1>6, <1>9, <1>10

\* It moves none of the others to the front.
LEMMA InsertMoves ==
  ASSUME NEW S, NEW list \in Seq(S), NEW x \in S, NEW q \in Nat, q <= Len(list), NEW T,
         NEW i \in DOMAIN Among(list, T)
  PROVE  \E j \in DOMAIN Among(Insertion(list, q, x), T) :
           j >= i /\ Among(Insertion(list, q, x), T)[j] = Among(list, T)[i]
<1> DEFINE longer == Insertion(list, q, x)
           P == Places(list, T)
           Q == Places(longer, T)
<1>1. /\ longer \in Seq(S)
      /\ \A k \in DOMAIN list : Shift(q, k) \in DOMAIN longer /\ longer[Shift(q, k)] = list[k]
  BY InsertionElements
<1> HIDE DEF longer
<1>2. /\ P \subseteq Nat /\ IsFiniteSet(P)
      /\ \A k \in P : Among(list, T)[Rank(P, k)] = list[k]
      /\ \A m \in DOMAIN Among(list, T) : \E k \in P : Rank(P, k) = m
  BY AmongPlaces
<1>3. /\ Q \subseteq Nat /\ IsFiniteSet(Q)
      /\ \A k \in Q : /\ Rank(Q, k) \in DOMAIN Among(longer, T)
                      /\ Among(longer, T)[Rank(Q, k)] = longer[k]
  BY <1>1, AmongPlaces
<1>4. \A k \in P : Shift(q, k) \in Q /\ longer[Shift(q, k)] = list[k]
  BY <1>1 DEF Places
<1> HIDE DEF P, Q
<1>5. PICK k \in P : Rank(P, k) = i
  BY <1>2
<1>6. Rank(Q, Shift(q, k)) >= Rank(P, k)
  <2> DEFINE A == {m \in P : m <= k}
             B == {m \in Q : m <= Shift(q, k)}
             f == [m \in A |-> Shift(q, m)]
  <2>1. \A m \in A : Shift(q, m) \in B
    <3>1. \A m \in A : Shift(q, m) <= Shift(q, k)
      BY <1>2 DEF Shift
    <3> QED
      BY <1>4, <3>1
  <2>2. \A m, o \in A : Shift(q, m) = Shift(q, o) => m = o
    BY <1>2 DEF Shift
  <2>3. f \in Injection(A, B)
    <3> HIDE DEF B, A
    <3> QED
      BY <2>1, <2>2 DEF Injection, IsInjective
  <2>4. IsFiniteSet(B)
    <3>1. B \in SUBSET Q
      OBVIOUS
    <3> HIDE DEF B
    <3> QED
      BY <1>3, <3>1, FS_Subset
  <2> HIDE DEF f, A, B
  <2>5. IsFiniteSet(A) /\ Cardinality(A) <= Cardinality(B)
    BY <2>3, <2>4, FS_Injection
  <2>6. Cardinality(A) \in Nat /\ Cardinality(B) \in Nat
    BY <2>4, <2>5, FS_CardinalityType
  <2>7. Rank(P, k) = Cardinality(A) /\ Rank(Q, Shift(q, k)) = Cardinality(B)
    BY DEF Rank, A, B
  <2> QED
    BY <2>5, <2>6, <2>7
<1>7. /\ Rank(Q, Shift(q, k)) \in DOMAIN Among(longer, T)
      /\ Among(longer, T)[Rank(Q, Shift(q, k))] = Among(list, T)[i]
  BY <1>2, <1>3, <1>4, <1>5
<1> QED
  BY <1>5, <1>6, <1>7 DEF longer

\* What a listing should find.
Wanted == {r \in ToSet(given.order) : Kind[r] = kind}
Unlisted == Between(OfKind, page * PageSize + 1, Len(OfKind))

\* What is wanted and was not fetched is listed after what was.
Listing ==
  /\ pc = "start" => order = given.order
  /\ pc \in {"searching", "unknown location"} => request.location # NoLocation
  /\ pc \in {"walking", "fetching"} => roots # <<>>
  /\ (request.location = NoLocation /\ roots = <<>> /\ ~failed /\ ~shrunk) =>
       /\ pc = "listing" => Len(out) = page * PageSize /\ Wanted \subseteq ToSet(out) \cup Unlisted
       /\ pc = "done" /\ Len(out) < MaxResources => Wanted \subseteq ToSet(out)

LEMMA InitListing ==
  ASSUME Init
  PROVE  Listing
BY DEF Init, Listing

LEMMA OfKindElements ==
  ASSUME Inventories
  PROVE  OfKind \in Seq(Resources) /\ ToSet(OfKind) = {r \in ToSet(order) : Kind[r] = kind}
<1>1. order \in Seq(Resources)
  BY DEF Inventories
<1>2. OfKind \in Seq(Resources) /\ ToSet(OfKind) = ToSet(order) \cap {r \in Resources : Kind[r] = kind}
  BY <1>1, AmongElements DEF OfKind
<1>3. ToSet(order) \subseteq Resources
  <2>1. \A i \in DOMAIN order : order[i] \in Resources
    BY <1>1
  <2> QED
    BY <2>1, Zenon DEF ToSet
<1> QED
  BY <1>2, <1>3

\* A page of size s from place n of a list of length l ends where the list does,
\* or is full.
LEMMA PageEnds ==
  ASSUME NEW l \in Nat, NEW n \in Nat, NEW s \in Nat \ {0}, NEW e, NEW fetched, NEW got,
         e = IF n + s < l THEN n + s ELSE l,
         got = IF l <= n THEN 0 ELSE e - n,
         fetched = n + got
  PROVE  /\ fetched >= l => l <= n \/ e = l
         /\ ~(fetched >= l) => ~(l <= n) /\ e = n + s
OBVIOUS

LEMMA ListPageListing ==
  ASSUME Walking, Inventories, Listing, ListPage
  PROVE  Listing'
<1> DEFINE list == OfKind
           n == page * PageSize
           e == Smaller((page + 1) * PageSize, Len(list))
           batch == Batch(list, page)
           W == Wanted
<1>1. /\ pc = "listing" /\ out' = out \o batch /\ roots' = roots /\ shrunk' = shrunk
      /\ given' = given /\ kind' = kind /\ order' = order /\ failed' = failed
      /\ \/ Listed(out', page) /\ pc' = "done"
         \/ ~Listed(out', page) /\ pc' = "listing" /\ page' = page + 1
  BY DEF ListPage, inventory
<1>2. list \in Seq(Resources) /\ out \in Seq(Resources) /\ page \in Nat /\ PageSize \in Nat \ {0}
  BY OfKindElements, SizesAssumption DEF Walking
<1>3. list' = list /\ W' = W /\ request' = request
  BY <1>1 DEF OfKind, Wanted, request
<1> HIDE DEF list, W
<1>4. /\ batch \in Seq(Resources)
      /\ ToSet(batch) = Between(list, n + 1, e)
      /\ batch = <<>> => Len(list) <= n
      /\ Len(batch) = IF Len(list) <= n THEN 0 ELSE e - n
  <2>1. batch = Page(list, PageSize, page)
    BY DEF Batch
  <2> HIDE DEF batch
  <2> QED
    BY <1>2, <2>1, PageElements
<1>5. /\ Len(list) \in Nat /\ DOMAIN list = 1 .. Len(list)
      /\ n \in Nat /\ (page + 1) * PageSize = n + PageSize
  BY <1>2
<1>6. Listed(out', page) =>
        batch = <<>> \/ Len(out') >= Len(list) \/ Len(out') >= MaxResources
  BY DEF Listed, list
<1>7. ~Listed(out', page) => ~(Len(out') >= Len(list))
  BY DEF Listed, list
<1> HIDE DEF n
<1>8. e = IF n + PageSize < Len(list) THEN n + PageSize ELSE Len(list)
  BY <1>5 DEF Smaller
<1> HIDE DEF e, batch
<1>9. ToSet(out') = ToSet(out) \cup ToSet(batch) /\ Len(out') = Len(out) + Len(batch)
  <2>1. ToSet(out \o batch) = ToSet(out) \cup ToSet(batch)
    BY <1>2, <1>4, ConcatElements
  <2>2. Len(out \o batch) = Len(out) + Len(batch)
    BY <1>2, <1>4
  <2> QED
    BY <1>1, <2>1, <2>2
<1>10. \A r \in Between(list, n + 1, Len(list)) : \E i \in n + 1 .. Len(list) : r = list[i]
  BY Zenon DEF Between
<1>11. ASSUME request.location = NoLocation, roots = <<>>, ~failed, ~shrunk
       PROVE  Len(out) = n /\ W \subseteq ToSet(out) \cup Between(list, n + 1, Len(list))
  BY <1>1, <1>11 DEF Listing, Unlisted, n, list, W
<1>12. ASSUME Len(out) = n
       PROVE  /\ Len(out') >= Len(list) => Len(list) <= n \/ e = Len(list)
              /\ ~(Len(out') >= Len(list)) => ~(Len(list) <= n) /\ e = n + PageSize
  <2>1. Len(list) \in Nat /\ n \in Nat /\ PageSize \in Nat \ {0}
    BY <1>2, <1>5
  <2>2. Len(batch) = IF Len(list) <= n THEN 0 ELSE e - n
    BY <1>4
  <2>3. Len(out') = n + Len(batch)
    BY <1>9, <1>12
  <2> QED
    BY <1>8, <2>1, <2>2, <2>3, PageEnds
<1>13. ASSUME request.location = NoLocation, roots = <<>>, ~failed, ~shrunk,
              Listed(out', page), Len(out') < MaxResources
       PROVE  W \subseteq ToSet(out')
  <2>1. Len(out) = n /\ Len(out') \in Nat /\ Len(batch) \in Nat
    BY <1>1, <1>2, <1>4, <1>11, <1>13
  <2>2. Len(list) <= n \/ e = Len(list)
    <3>1. MaxResources \in Nat
      BY SizesAssumption
    <3>2. batch = <<>> \/ Len(out') >= Len(list)
      BY <1>6, <1>13, <2>1, <3>1
    <3>3. batch = <<>> => Len(list) <= n
      BY <1>4
    <3> QED
      BY <1>12, <2>1, <3>2, <3>3
  <2>3. ASSUME NEW r \in W
        PROVE  r \in ToSet(out')
    <3>1. CASE r \in ToSet(out)
      BY <1>9, <3>1
    <3>2. CASE r \in Between(list, n + 1, Len(list))
      <4>1. PICK i \in n + 1 .. Len(list) : r = list[i]
        BY <1>10, <3>2
      <4>2. e = Len(list)
        BY <1>5, <2>2, <4>1
      <4> QED
        BY <1>4, <1>9, <3>2, <4>2
    <3> QED
      BY <1>11, <1>13, <3>1, <3>2
  <2> QED
    BY <2>3
<1>14. ASSUME request.location = NoLocation, roots = <<>>, ~failed, ~shrunk,
              ~Listed(out', page)
       PROVE  /\ Len(out') = (page + 1) * PageSize
              /\ W \subseteq ToSet(out') \cup Between(list, (page + 1) * PageSize + 1, Len(list))
  <2>1. Len(out) = n /\ Len(out') \in Nat
    BY <1>1, <1>2, <1>4, <1>11, <1>14
  <2>2. ~(Len(list) <= n) /\ e = n + PageSize
    BY <1>7, <1>14, <1>12, <2>1
  <2>3. Len(out') = n + PageSize
    BY <1>2, <1>4, <1>5, <1>9, <2>1, <2>2
  <2>4. ASSUME NEW r \in W
        PROVE  r \in ToSet(out') \cup Between(list, n + PageSize + 1, Len(list))
    <3>1. CASE r \in ToSet(out)
      BY <1>9, <3>1
    <3>2. CASE r \in Between(list, n + 1, Len(list))
      <4>1. PICK i \in n + 1 .. Len(list) : r = list[i]
        BY <1>10, <3>2
      <4>2. i \in n + 1 .. e \/ i \in n + PageSize + 1 .. Len(list)
        BY <1>2, <1>5, <2>2, <4>1
      <4>3. r \in Between(list, n + 1, e) \/ r \in Between(list, n + PageSize + 1, Len(list))
        BY <4>1, <4>2, Zenon DEF Between
      <4> QED
        BY <1>4, <1>9, <4>3
    <3> QED
      BY <1>11, <1>14, <3>1, <3>2
  <2> QED
    BY <1>5, <2>3, <2>4
<1>15. CASE Listed(out', page) /\ pc' = "done"
  BY <1>1, <1>3, <1>13, <1>15 DEF Listing, W
<1>16. CASE ~Listed(out', page) /\ pc' = "listing" /\ page' = page + 1
  <2>1. Unlisted' = Between(list, (page + 1) * PageSize + 1, Len(list))
    BY <1>3, <1>16 DEF Unlisted, Between, list
  <2> QED
    BY <1>1, <1>3, <1>14, <1>16, <2>1 DEF Listing, W
<1> QED
  BY <1>1, <1>15, <1>16

LEMMA QueryListing ==
  ASSUME Walking, Inventories, Fresh, Listing, Query
  PROVE  Listing'
<1>1. CASE Resolve
  <2>1. /\ pc = "start" /\ UNCHANGED <<inventory, given, kind, roots, page, out, failed>>
        /\ pc' = "listing" => request.location = NoLocation
        /\ pc' \in {"searching", "unknown location"} => request.location # NoLocation
        /\ pc' \in {"listing", "searching", "unknown location"}
    BY <1>1 DEF Resolve
  <2>2. order = given.order /\ out = <<>> /\ page = 0
    BY <2>1 DEF Listing, Fresh
  <2>3. OfKind' = OfKind /\ Wanted' = Wanted /\ request' = request
    BY <2>1 DEF OfKind, Wanted, request, inventory
  <2>4. OfKind \in Seq(Resources) /\ ToSet(OfKind) = Wanted
    BY <2>2, OfKindElements DEF Wanted
  <2>5. page' * PageSize = 0
    <3>1. PageSize \in Nat /\ page' = 0
      BY <2>1, <2>2, SizesAssumption
    <3> QED
      BY <3>1
  <2>6. Unlisted' = ToSet(OfKind)
    <3>1. page' * PageSize + 1 = 1
      BY <2>5
    <3>2. Unlisted' = Between(OfKind, 1, Len(OfKind))
      BY <2>3, <3>1 DEF Unlisted, Between
    <3>3. DOMAIN OfKind = 1 .. Len(OfKind)
      BY <2>4
    <3> QED
      BY <3>2, <3>3 DEF Between, ToSet
  <2>7. Len(out') = page' * PageSize
    BY <2>5, <2>1, <2>2
  <2> QED
    BY <2>1, <2>3, <2>4, <2>6, <2>7 DEF Listing
<1>2. CASE ListPage
  BY <1>2, ListPageListing
<1>3. CASE ListFails \/ FetchFails
  BY <1>3 DEF ListFails, FetchFails, Collect, Listing
<1>4. CASE Search
  BY <1>4 DEF Search, Listing, request
<1>5. CASE BeginWalk
  BY <1>5 DEF BeginWalk, Listing, request
<1>6. CASE SkipVisited \/ Expand \/ FetchPage \/ NextLevel
  BY <1>6 DEF SkipVisited, Expand, FetchPage, NextLevel, Collect, Listing, walk
<1> QED
  BY <1>1, <1>2, <1>3, <1>4, <1>5, <1>6 DEF Query

LEMMA InventoryListing ==
  ASSUME Inventories, Walking, Listing, Inventory
  PROVE  Listing'
<1>1. /\ UNCHANGED <<given, kind, pc, roots, page, out, failed>>
      /\ pc \notin {"start", "done"}
  BY InventoryWalk DEF Inventory, Delete, Move, Create, Changes
<1>2. request' = request /\ Wanted' = Wanted
  BY <1>1 DEF request, Wanted
<1>3. ASSUME \/ \E r \in Resources : Delete(r)
             \/ \E r, from, to \in Resources : Move(r, from, to)
      PROVE  Listing'
  <2>1. shrunk' = TRUE
    BY <1>3 DEF Delete, Move
  <2> QED
    BY <1>1, <1>2, <2>1 DEF Listing
<1>4. ASSUME NEW r \in Resources, NEW p \in Resources, NEW position \in Nat, Create(r, p, position)
      PROVE  Listing'
  <2> DEFINE T == {x \in Resources : Kind[x] = kind}
             n == page * PageSize
  <2>1. /\ order \in Seq(Resources) /\ position \in Nat /\ position <= Len(order)
        /\ order' = Insertion(order, position, r)
        /\ shrunk' = shrunk
    BY <1>4 DEF Create, Inventories, Insertion
  <2>2. n \in Nat
    <3>1. page \in Nat /\ PageSize \in Nat
      BY SizesAssumption DEF Walking
    <3> QED
      BY <3>1
  <2>3. OfKind = Among(order, T) /\ OfKind' = Among(Insertion(order, position, r), T)
    BY <1>1, <2>1 DEF OfKind
  <2>4. Unlisted \subseteq Unlisted'
    <3> DEFINE old == Between(OfKind, n + 1, Len(OfKind))
               new == Between(OfKind', n + 1, Len(OfKind'))
    <3>1. Unlisted = old /\ Unlisted' = new
      BY <1>1 DEF Unlisted, Between
    <3>2. /\ OfKind \in Seq(Resources) /\ OfKind' \in Seq(Resources)
          /\ DOMAIN OfKind = 1 .. Len(OfKind) /\ DOMAIN OfKind' = 1 .. Len(OfKind')
          /\ Len(OfKind) \in Nat /\ Len(OfKind') \in Nat
      <4>1. OfKind \in Seq(Resources)
        BY OfKindElements
      <4>2. OfKind' \in Seq(Resources)
        <5>1. order' \in Seq(Resources)
          BY InventoryTypes DEF Inventories
        <5> QED
          BY <5>1, <2>1, <2>3, AmongElements
      <4> QED
        BY <4>1, <4>2
    <3>3. ASSUME NEW x \in old
          PROVE  x \in new
      <4>1. PICK i \in n + 1 .. Len(OfKind) : x = OfKind[i]
        BY Zenon DEF Between
      <4>2. i \in DOMAIN OfKind
        BY <2>2, <3>2, <4>1
      <4>3. PICK j \in DOMAIN OfKind' : j >= i /\ OfKind'[j] = OfKind[i]
        <5> HIDE DEF T
        <5>1. i \in DOMAIN Among(order, T)
          BY <2>3, <4>2
        <5>2. \E j \in DOMAIN Among(Insertion(order, position, r), T) :
                j >= i /\ Among(Insertion(order, position, r), T)[j] = Among(order, T)[i]
          BY <2>1, <5>1, InsertMoves
        <5> QED
          BY <2>3, <5>2
      <4>4. j \in n + 1 .. Len(OfKind')
        BY <2>2, <3>2, <4>1, <4>2, <4>3
      <4> QED
        BY <4>1, <4>3, <4>4, Zenon DEF Between
    <3> QED
      BY <3>1, <3>3
  <2> QED
    BY <1>1, <1>2, <2>1, <2>4 DEF Listing
<1>5. given.new \subseteq Resources /\ given.places \subseteq Nat
  BY CasesAssumption DEF Inventories
<1> QED
  BY <1>3, <1>4, <1>5 DEF Inventory

-----------------------------------------------------------------------------
(* A tool call.                                                              *)

Scope == Walking /\ Inventories /\ Fresh /\ Listing

Clusters ==
  /\ rows \in Seq(Resources) /\ clusters \in Seq(Resources)
  /\ stage \in {"host scope", "host stats"} => clusters # <<>>

Searches ==
  /\ Scope
  /\ changes = 0 => Sound
  /\ changes = 0 /\ ~failed => Complete
  /\ Clusters

LEMMA InitSearches ==
  ASSUME ToolInit
  PROVE  Searches
<1>1. Init /\ rows = <<>> /\ clusters = <<>> /\ pc = "start" /\ stage = "beginning"
  BY DEF ToolInit, Init
<1>2. Scope
  BY <1>1, InitTypes, InitFresh, InitListing DEF Scope
<1>3. Sound /\ Complete
  BY <1>1 DEF Sound, Complete
<1>4. \A S : <<>> \in Seq(S)
  OBVIOUS
<1> QED
  BY <1>1, <1>2, <1>3, <1>4 DEF Searches, Clusters

(* Nothing of a scope changes with a step that leaves its variables alone.   *)
LEMMA SameScope ==
  ASSUME UNCHANGED scope
  PROVE  /\ Scope => Scope'
         /\ Sound => Sound'
         /\ Complete => Complete'
         /\ changes' = changes /\ failed' = failed
<1>1. UNCHANGED vars
  BY DEF scope
<1>2. Walking /\ Inventories => Walking' /\ Inventories'
  BY <1>1 DEF vars, inventory, walk, Walking, Inventories
<1>3. Fresh => Fresh'
  BY <1>1 DEF vars, walk, Fresh
<1>4. Listing => Listing'
  <2>1. UNCHANGED <<order, given, kind, pc, roots, page, out, failed, shrunk>>
    BY <1>1 DEF vars, inventory
  <2>2. OfKind' = OfKind /\ Wanted' = Wanted /\ request' = request
    BY <2>1 DEF OfKind, Wanted, request
  <2>3. Unlisted' = Unlisted
    BY <2>1, <2>2 DEF Unlisted, Between
  <2> QED
    BY <2>1, <2>2, <2>3 DEF Listing
<1>5. Sound => Sound'
  <2>1. UNCHANGED <<children, roots, kind, pc, frontier, nxt, depth, found, out>>
    BY <1>1 DEF vars, inventory, walk
  <2> QED
    BY <2>1, SoundLater DEF Sound
<1>6. Complete => Complete'
  <2>1. UNCHANGED <<children, roots, kind, pc, frontier, nxt, depth, found, out, visited, page>>
    BY <1>1 DEF vars, inventory, walk
  <2>2. Complete' = Complete
    BY <2>1 DEF Complete, Level, Through, Expanded, Beneath, Searched, ChildrenOf
  <2> QED
    BY <2>2
<1> QED
  BY <1>1, <1>2, <1>3, <1>4, <1>5, <1>6 DEF Scope, vars, inventory

LEMMA SameSearches ==
  ASSUME Searches, UNCHANGED scope, Clusters'
  PROVE  Searches'
<1>1. Scope' /\ changes' = changes /\ failed' = failed
  BY SameScope DEF Searches
<1>2. (Sound => Sound') /\ (Complete => Complete')
  BY SameScope
<1>3. changes = 0 => Sound
  BY DEF Searches
<1>4. changes = 0 /\ ~failed => Complete
  BY DEF Searches
<1>5. changes' = 0 => Sound'
  BY <1>1, <1>2, <1>3
<1>6. changes' = 0 /\ ~failed' => Complete'
  BY <1>1, <1>2, <1>4
<1> QED
  BY <1>1, <1>5, <1>6 DEF Searches

LEMMA ScopingSearches ==
  ASSUME Searches, Scoping
  PROVE  Searches'
<1>1. Query /\ UNCHANGED <<rows, clusters, stage>>
  BY DEF Scoping, attached, placing
<1>2. Walking /\ Inventories /\ Fresh /\ Listing
  BY DEF Searches, Scope
<1>3. UNCHANGED <<order, children, changes, shrunk, given>>
  BY <1>1, QueryInventory DEF inventory
<1>4. Scope'
  <2>1. Inventories'
    BY <1>2, <1>3 DEF Inventories
  <2> QED
    BY <1>1, <1>2, <2>1, QueryTypes, QueryFresh, QueryListing DEF Scope
<1>5. changes = 0 => Sound'
  BY <1>1, <1>2, QuerySound DEF Searches
<1>6. ~failed' => ~failed
  BY <1>1 DEF Query, Resolve, ListPage, ListFails, Search, BeginWalk, SkipVisited, Expand,
              FetchPage, FetchFails, NextLevel
<1>7. changes = 0 /\ ~failed' => Complete'
  BY <1>1, <1>2, <1>6, QueryComplete DEF Searches
<1> QED
  BY <1>1, <1>3, <1>4, <1>5, <1>7 DEF Searches, Clusters

LEMMA InventorySearches ==
  ASSUME Searches, InventoryChanges
  PROVE  Searches'
<1>1. Inventory /\ UNCHANGED <<rows, clusters, stage>>
  BY DEF InventoryChanges, attached, placing
<1>2. Walking /\ Inventories /\ Fresh /\ Listing
  BY DEF Searches, Scope
<1>3. Walking' /\ Fresh'
  BY <1>1, <1>2, InventoryWalk DEF walk, Walking, Fresh
<1>4. changes' # 0
  BY <1>1, <1>2, InventoryWalk DEF Inventories
<1> QED
  BY <1>1, <1>2, <1>3, <1>4, InventoryTypes, InventoryListing DEF Searches, Scope, Clusters

(* The search beneath the next cluster starts as any other.                  *)
LEMMA NextClusterSearches ==
  ASSUME Searches, NextCluster
  PROVE  Searches'
<1>1. Walking /\ Inventories /\ Fresh /\ Listing /\ clusters \in Seq(Resources)
  BY DEF Searches, Scope, Clusters
<1>2. /\ pc' = "walking" /\ found' = <<>> /\ nxt' = <<>> /\ visited' = {} /\ depth' = 0
      /\ page' = 0 /\ out' = <<>>
      /\ roots' = <<Head(clusters)>> /\ frontier' = roots'
      /\ clusters # <<>>
      /\ UNCHANGED <<order, children, changes, shrunk, given, names, failed, rows, clusters>>
  BY DEF NextCluster, inventory, attached, placing
<1>3. roots' \in Seq(Resources) /\ roots' # <<>>
  BY <1>1, <1>2
<1>4. \A S : <<>> \in Seq(S)
  OBVIOUS
<1>5. 0 \in 0 .. MaxDepth /\ 0 \in 0 .. MaxDepth - 1 /\ 0 \in Nat
  BY DepthAssumption
<1>6. Walking'
  BY <1>1, <1>2, <1>3, <1>4, <1>5 DEF Walking
<1>7. Inventories'
  BY <1>1, <1>2 DEF Inventories
<1>8. Fresh'
  BY <1>2 DEF Fresh
<1>9. Listing'
  BY <1>2, <1>3 DEF Listing
<1>10. Level(0)' = ToSet(roots')
  <2>1. Searched(ToSet(roots'), kind')[0] = ToSet(roots')
    BY SearchedSteps
  <2>2. Level(0)' = Searched(ToSet(roots'), kind')[0]
    BY <1>2 DEF Level, Searched, ChildrenOf
  <2> QED
    BY <2>1, <2>2
<1>11. \A K : ChildrenOf({}, K) = {}
  BY DEF ChildrenOf
<1>12. Sound'
  BY <1>2, <1>10, EmptyElements DEF Sound
<1>13. Complete'
  <2>1. Expanded' = {}
    BY <1>2 DEF Expanded
  <2>2. ChildrenOf({}, {kind})' = {} /\ ChildrenOf({}, Through)' = {}
    BY DEF ChildrenOf
  <2>3. ChildrenOf(Expanded, {kind})' = {} /\ ChildrenOf(Expanded, Through)' = {}
    BY <2>1 DEF ChildrenOf
  <2>4. Level(depth)' = Level(0)'
    BY <1>2
  <2> QED
    BY <1>2, <1>10, <2>3, <2>4 DEF Complete
<1> QED
  BY <1>1, <1>2, <1>6, <1>7, <1>8, <1>9, <1>12, <1>13 DEF Searches, Scope, Clusters

LEMMA ToolSearches ==
  ASSUME Searches, [ToolNext]_toolVars
  PROVE  Searches'
<1>1. CASE Scoping
  BY <1>1, ScopingSearches
<1>2. CASE InventoryChanges
  BY <1>2, InventorySearches
<1>3. CASE NextCluster
  BY <1>3, NextClusterSearches
<1>4. CASE Attach
  <2>1. /\ UNCHANGED scope /\ clusters' = clusters /\ rows' \in {out, found}
        /\ stage = "host scope" \/ stage' = "stats"
    BY <1>4 DEF Attach, placing
  <2>2. out \in Seq(Resources) /\ found \in Seq(Resources)
    BY DEF Searches, Scope, Walking
  <2>3. Clusters'
    BY <2>1, <2>2 DEF Searches, Clusters
  <2> QED
    BY <2>1, <2>3, SameSearches
<1>5. CASE FetchStats
  <2>1. /\ UNCHANGED <<inventory, walk, given, kind, pc, names, roots, page, out>>
        /\ UNCHANGED <<rows, clusters, stage>>
        /\ failed' = failed \/ failed' = TRUE
    BY <1>5 DEF FetchStats, placing
  <2>2. CASE failed' = failed
    <3>1. UNCHANGED scope
      BY <2>1, <2>2 DEF scope, vars
    <3>2. Clusters'
      BY <2>1 DEF Searches, Clusters
    <3> QED
      BY <3>1, <3>2, SameSearches
  <2>3. CASE failed' = TRUE
    <3>1. Walking' /\ Inventories'
      BY <2>1, <2>3 DEF Searches, Scope, inventory, walk, Walking, Inventories
    <3>2. Fresh'
      BY <2>1 DEF Searches, Scope, walk, Fresh
    <3>3. Listing'
      BY <2>1, <2>3 DEF Searches, Scope, inventory, Listing, request
    <3>4. Sound => Sound'
      <4>1. UNCHANGED <<children, roots, kind, pc, frontier, nxt, depth, found, out>>
        BY <2>1 DEF inventory, walk
      <4> QED
        BY <4>1, SoundLater DEF Sound
    <3> QED
      BY <2>1, <2>3, <3>1, <3>2, <3>3, <3>4 DEF Searches, Scope, Clusters, inventory
  <2> QED
    BY <2>1, <2>2, <2>3
<1>6. CASE BeginHosts
  <2>1. /\ UNCHANGED <<scope, rows>> /\ clusters' \in {clusters, rows}
        /\ stage' \in {"reported", "clusters"}
    BY <1>6 DEF BeginHosts, Reports, attached, placing
  <2>2. Clusters'
    BY <2>1 DEF Searches, Clusters
  <2> QED
    BY <2>1, <2>2, SameSearches
<1>7. CASE EvaluateHosts
  <2>1. /\ UNCHANGED <<scope, rows>> /\ clusters' = Tail(clusters)
        /\ stage = "host stats" /\ stage' = "clusters"
    BY <1>7 DEF EvaluateHosts, Attached, attached
  <2>2. clusters' \in Seq(Resources)
    BY <2>1, TailElements DEF Searches, Clusters
  <2>3. Clusters'
    BY <2>1, <2>2 DEF Searches, Clusters
  <2> QED
    BY <2>1, <2>3, SameSearches
<1>8. CASE \/ BeginTool \/ ReportUnknown \/ ReportQuery \/ ReportCapacity \/ ReportOversized
           \/ Recommend \/ UNCHANGED toolVars
  <2>1. /\ UNCHANGED <<scope, rows, clusters>>
        /\ stage' \in {stage, "reported", "scope"}
    BY <1>8 DEF BeginTool, ReportUnknown, ReportQuery, ReportCapacity, ReportOversized, Recommend,
                Reports, toolVars, attached, placing
  <2>2. Clusters'
    BY <2>1 DEF Searches, Clusters
  <2> QED
    BY <2>1, <2>2, SameSearches
<1> QED
  BY <1>1, <1>2, <1>3, <1>4, <1>5, <1>6, <1>7, <1>8, Zenon DEF ToolNext, Tool

THEOREM FleetSearches == ToolSpec => []Searches
BY InitSearches, ToolSearches, PTL DEF ToolSpec

(* While the inventory stays as it is, no walk of a tool call collects       *)
(* anything but what is beneath its roots, whatever requests fail            *)
(* (fleet.py:34-65).                                                         *)
THEOREM FleetWalkSound == ToolSpec => []WalkSound
<1>1. ASSUME Searches, changes = 0, pc # "searching"
      PROVE  ToSet(found) \subseteq Beneath(ToSet(roots), kind)
  <2>1. CASE pc \in {"walking", "fetching", "done"}
    BY <1>1, <2>1 DEF Searches, Sound
  <2>2. CASE pc \in {"start", "listing", "unknown location"}
    BY <1>1, <2>2, EmptyElements DEF Searches, Scope, Fresh
  <2> QED
    BY <1>1, <2>1, <2>2 DEF Searches, Scope, Walking
<1>2. Searches => WalkSound
  BY <1>1 DEF WalkSound
<1> QED
  BY <1>2, FleetSearches, PTL

(* And when no request fails it collects all of that, in cycles and on every *)
(* path, down to the greatest depth (fleet.py:46-64,                         *)
(* vrops_client.py:1037-1064).                                               *)
THEOREM FleetWalkComplete == ToolSpec => []WalkComplete
<1>1. Searches => WalkComplete
  BY DEF Searches, Complete, WalkComplete
<1> QED
  BY <1>1, FleetSearches, PTL

(* The listing of a kind misses nothing that is there all the time, however  *)
(* much is created between its pages (vrops_client.py:985-1021).             *)
THEOREM FleetListComplete == ToolSpec => []ListComplete
<1>1. Searches => ListComplete
  BY DEF Searches, Scope, Listing, Wanted, ListComplete
<1> QED
  BY <1>1, FleetSearches, PTL

-----------------------------------------------------------------------------
(* The order of the candidates.                                              *)

(* Positions of which each has a set of others before it, one of any two     *)
(* before the other, have a place of their own each.                         *)
LEMMA PlacesFilled ==
  ASSUME NEW n \in Nat, NEW ahead, ahead \in [1 .. n -> SUBSET (1 .. n)],
         \A i \in 1 .. n : i \notin ahead[i],
         \A i, j \in 1 .. n : i # j => i \in ahead[j] \/ j \in ahead[i],
         \A i, j, k \in 1 .. n : i \in ahead[j] /\ j \in ahead[k] => i \in ahead[k]
  PROVE  /\ \A i \in 1 .. n : 1 + Cardinality(ahead[i]) \in 1 .. n
         /\ \A i, j \in 1 .. n : i \in ahead[j] => Cardinality(ahead[i]) < Cardinality(ahead[j])
         /\ \A m \in 1 .. n : \E i \in 1 .. n : 1 + Cardinality(ahead[i]) = m
<1> DEFINE P == 1 .. n
<1>1. IsFiniteSet(P) /\ Cardinality(P) = n
  BY FS_Interval
<1> HIDE DEF P
<1>2. \A i \in P : ahead[i] \in SUBSET P /\ i \notin ahead[i]
  BY DEF P
<1>3. ASSUME NEW i \in P
      PROVE  IsFiniteSet(ahead[i]) /\ Cardinality(ahead[i]) \in 0 .. n - 1
  <2>1. IsFiniteSet(ahead[i]) /\ Cardinality(ahead[i]) <= n /\ (Cardinality(ahead[i]) = n => ahead[i] = P)
    BY <1>1, <1>2, FS_Subset
  <2>2. Cardinality(ahead[i]) # n
    BY <1>2, <2>1
  <2>3. Cardinality(ahead[i]) \in Nat
    BY <2>1, FS_CardinalityType
  <2> QED
    BY <2>1, <2>2, <2>3
<1>4. ASSUME NEW i \in P, NEW j \in P, i \in ahead[j]
      PROVE  Cardinality(ahead[i]) < Cardinality(ahead[j])
  <2>1. ahead[i] \in SUBSET ahead[j]
    BY <1>2, <1>4 DEF P
  <2>2. ahead[i] # ahead[j]
    BY <1>2, <1>4
  <2>3. Cardinality(ahead[i]) <= Cardinality(ahead[j]) /\ Cardinality(ahead[i]) # Cardinality(ahead[j])
    BY <1>3, <2>1, <2>2, FS_Subset
  <2> QED
    BY <1>3, <2>3
<1>5. \A m \in P : \E i \in P : 1 + Cardinality(ahead[i]) = m
  <2> DEFINE f == [i \in P |-> 1 + Cardinality(ahead[i])]
  <2>1. f \in [P -> P]
    <3>1. \A i \in P : 1 + Cardinality(ahead[i]) \in 1 .. n
      BY <1>3
    <3> QED
      BY <3>1 DEF P
  <2>2. \A i, j \in P : f[i] = f[j] => i = j
    <3>1. \A i, j \in P : i # j => i \in ahead[j] \/ j \in ahead[i]
      BY DEF P
    <3>2. \A i, j \in P : 1 + Cardinality(ahead[i]) = 1 + Cardinality(ahead[j])
                            => Cardinality(ahead[i]) = Cardinality(ahead[j])
      BY <1>3
    <3>3. \A i, j \in P : i # j => Cardinality(ahead[i]) # Cardinality(ahead[j])
      BY <1>3, <1>4, <3>1
    <3> QED
      BY <3>2, <3>3
  <2>3. f \in Injection(P, P)
    BY <2>1, <2>2 DEF Injection, IsInjective
  <2>4. f \in Surjection(P, P)
    BY <1>1, <2>3, FS_Injection
  <2>5. \A m \in P : \E i \in P : f[i] = m
    BY <2>4 DEF Surjection
  <2> QED
    BY <2>5
<1>6. \A i \in P : 1 + Cardinality(ahead[i]) \in 1 .. n
  BY <1>3
<1> QED
  BY <1>4, <1>5, <1>6 DEF P

(* Sorting n positions, of which <<j, i>> \in above say that j is to come    *)
(* before i: those before i are the ones above it and, before it already,    *)
(* those it is not above.                                                    *)
AheadOf(P, above, i) ==
  {j \in P \ {i} : <<j, i>> \in above \/ (j < i /\ <<i, j>> \notin above)}

\* The position that gets to place m.
PlacedAt(P, above, m) == CHOOSE i \in P : 1 + Cardinality(AheadOf(P, above, i)) = m

(* Each position gets to a place of its own, none after one it is above.     *)
LEMMA StableSort ==
  ASSUME NEW n \in Nat, NEW above,
         \A i, j \in 1 .. n : ~(<<i, j>> \in above /\ <<j, i>> \in above),
         \A i, j, k \in 1 .. n : <<i, j>> \notin above /\ <<j, k>> \notin above => <<i, k>> \notin above
  PROVE  /\ \A m \in 1 .. n : PlacedAt(1 .. n, above, m) \in 1 .. n
         /\ \A i \in 1 .. n : \E m \in 1 .. n : PlacedAt(1 .. n, above, m) = i
         /\ \A m, k \in 1 .. n : m < k =>
              /\ PlacedAt(1 .. n, above, m) # PlacedAt(1 .. n, above, k)
              /\ <<PlacedAt(1 .. n, above, k), PlacedAt(1 .. n, above, m)>> \notin above
<1> DEFINE P == 1 .. n
           ahead == [i \in P |-> AheadOf(P, above, i)]
           at(m) == PlacedAt(P, above, m)
<1>1. /\ ahead \in [P -> SUBSET P]
      /\ \A i, j \in P : j \in ahead[i] <=>
           j # i /\ (<<j, i>> \in above \/ (j < i /\ <<i, j>> \notin above))
  BY DEF AheadOf
<1>2. \A i \in P : i \notin ahead[i]
  BY <1>1
<1>3. ASSUME NEW i \in P, NEW j \in P, i # j
      PROVE  i \in ahead[j] \/ j \in ahead[i]
  <2>1. i < j \/ j < i
    BY <1>3
  <2> HIDE DEF P, ahead
  <2> QED
    BY <1>1, <1>3, <2>1
<1>4. ASSUME NEW i \in P, NEW j \in P, NEW k \in P, i \in ahead[j], j \in ahead[k]
      PROVE  i \in ahead[k]
  <2> DEFINE B(x, y) == <<x, y>> \in above
  <2>1. /\ ~(B(i, j) /\ B(j, i)) /\ ~(B(j, k) /\ B(k, j)) /\ ~(B(i, k) /\ B(k, i))
        /\ ~B(i, k) /\ ~B(k, j) => ~B(i, j)
        /\ ~B(j, i) /\ ~B(i, k) => ~B(j, k)
        /\ ~B(k, j) /\ ~B(j, i) => ~B(k, i)
    OBVIOUS
  <2>2. /\ i # j /\ (B(i, j) \/ (i < j /\ ~B(j, i)))
        /\ j # k /\ (B(j, k) \/ (j < k /\ ~B(k, j)))
    <3> HIDE DEF P, ahead
    <3> QED
      BY <1>1, <1>4
  <2>3. i \in ahead[k] <=> i # k /\ (B(i, k) \/ (i < k /\ ~B(k, i)))
    <3> HIDE DEF P, ahead
    <3> QED
      BY <1>1
  <2>4. i \in Int /\ j \in Int /\ k \in Int
    OBVIOUS
  <2> HIDE DEF B, P, ahead
  <2>5. ~B(j, i) /\ ~B(k, j)
    BY <2>1, <2>2
  <2>6. i # k
    BY <2>1, <2>2, <2>4, <2>5
  <2>7. B(i, k) \/ i < k
    <3>1. CASE i < j /\ j < k
      BY <2>4, <3>1
    <3>2. CASE B(i, j)
      BY <2>1, <2>5, <3>2
    <3>3. CASE B(j, k)
      BY <2>1, <2>5, <3>3
    <3> QED
      BY <2>2, <3>1, <3>2, <3>3
  <2> QED
    BY <2>1, <2>3, <2>5, <2>6, <2>7
<1>5. /\ \A i, j \in P : i \in ahead[j] => Cardinality(ahead[i]) < Cardinality(ahead[j])
      /\ \A m \in P : \E i \in P : 1 + Cardinality(ahead[i]) = m
      /\ \A i \in P : 1 + Cardinality(ahead[i]) \in P
  <2> HIDE DEF ahead
  <2> QED
    BY <1>1, <1>2, <1>3, <1>4, PlacesFilled
<1>6. \A m \in P : at(m) \in P /\ 1 + Cardinality(ahead[at(m)]) = m
  <2>1. \A i \in P : ahead[i] = AheadOf(P, above, i)
    OBVIOUS
  <2> HIDE DEF P, ahead
  <2>2. \A m \in P : at(m) = CHOOSE i \in P : 1 + Cardinality(AheadOf(P, above, i)) = m
    BY DEF PlacedAt
  <2> HIDE DEF at
  <2> QED
    BY <1>5, <2>1, <2>2
<1> HIDE DEF at, ahead
<1>7. \A j \in P : Cardinality(ahead[j]) \in Int
  <2>1. \A j \in P : IsFiniteSet(ahead[j])
    <3>1. IsFiniteSet(P)
      BY FS_Interval
    <3> QED
      BY <1>1, <3>1, FS_Subset
  <2> QED
    BY <2>1, FS_CardinalityType
<1>8. \A i, j \in P : Cardinality(ahead[i]) = Cardinality(ahead[j]) => i = j
  <2> HIDE DEF P
  <2> QED
    BY <1>3, <1>5, <1>7
<1>9. ASSUME NEW i \in P
      PROVE  \E m \in P : at(m) = i
  <2>1. PICK m \in P : m = 1 + Cardinality(ahead[i])
    BY <1>5
  <2>2. at(m) \in P /\ 1 + Cardinality(ahead[at(m)]) = m
    BY <1>6
  <2>3. Cardinality(ahead[at(m)]) = Cardinality(ahead[i])
    BY <1>7, <2>1, <2>2
  <2> QED
    BY <1>8, <2>2, <2>3
<1>10. ASSUME NEW m \in P, NEW k \in P, m < k
       PROVE  at(m) # at(k) /\ <<at(k), at(m)>> \notin above
  <2>1. /\ at(m) \in P /\ at(k) \in P
        /\ 1 + Cardinality(ahead[at(m)]) = m /\ 1 + Cardinality(ahead[at(k)]) = k
        /\ Cardinality(ahead[at(m)]) \in Int /\ Cardinality(ahead[at(k)]) \in Int
    BY <1>6, <1>7
  <2>2. at(m) # at(k) /\ ~(Cardinality(ahead[at(k)]) < Cardinality(ahead[at(m)]))
    BY <1>10, <2>1
  <2> HIDE DEF P
  <2>3. at(k) \notin ahead[at(m)]
    BY <1>5, <2>1, <2>2
  <2> QED
    BY <1>1, <2>1, <2>2, <2>3
<1> QED
  BY <1>6, <1>9, <1>10 DEF at

-----------------------------------------------------------------------------
(* Arithmetic.                                                               *)

LEMMA Quotient ==
  ASSUME NEW a \in Int, NEW b \in Nat \ {0}
  PROVE  /\ a \div b \in Int
         /\ (a \div b) * b <= a /\ a < (a \div b) * b + b
OBVIOUS

LEMMA Cancels ==
  ASSUME NEW a \in Int, NEW b \in Int, NEW c \in Nat \ {0}
  PROVE  a * c <= b * c => a <= b
OBVIOUS

LEMMA Scales ==
  ASSUME NEW a \in Int, NEW b \in Int, NEW c \in Nat
  PROVE  a <= b => a * c <= b * c
OBVIOUS

(* Of two fractions, one more than a tenth larger has more tenths.           *)
LEMMA TenthsOrder ==
  ASSUME NEW m \in Int, NEW a \in Nat \ {0}, NEW n \in Int, NEW b \in Nat \ {0},
         10 * (m * b - n * a) > a * b
  PROVE  Tenths(m, a) > Tenths(n, b)
<1> DEFINE p == Tenths(m, a)
           q == Tenths(n, b)
<1>1. /\ p \in Int /\ q \in Int
      /\ 20 * m + a < p * (2 * a) + 2 * a
      /\ q * (2 * b) <= 20 * n + b
  <2>1. 20 * m + a \in Int /\ 2 * a \in Nat \ {0} /\ 20 * n + b \in Int /\ 2 * b \in Nat \ {0}
    OBVIOUS
  <2> QED
    BY <2>1, Quotient DEF Tenths
<1> HIDE DEF p, q
<1>2. m * b \in Int /\ n * a \in Int /\ a * b \in Nat \ {0} /\ p * (a * b) \in Int /\ q * (a * b) \in Int
  BY <1>1
<1>3. 20 * (m * b) + a * b <= 2 * (p * (a * b)) + 2 * (a * b)
  <2>1. (20 * m + a) * b <= (p * (2 * a) + 2 * a) * b
    BY <1>1, Scales
  <2>2. (20 * m + a) * b = 20 * (m * b) + a * b
    OBVIOUS
  <2>3. (p * (2 * a) + 2 * a) * b = 2 * (p * (a * b)) + 2 * (a * b)
    BY <1>1
  <2> QED
    BY <2>1, <2>2, <2>3
<1>4. 2 * (q * (a * b)) <= 20 * (n * a) + a * b
  <2>1. (q * (2 * b)) * a <= (20 * n + b) * a
    BY <1>1, Scales
  <2>2. (20 * n + b) * a = 20 * (n * a) + a * b
    OBVIOUS
  <2>3. (q * (2 * b)) * a = 2 * (q * (a * b))
    BY <1>1
  <2> QED
    BY <2>1, <2>2, <2>3
<1>5. q * (a * b) < p * (a * b)
  <2> DEFINE x == m * b
             y == n * a
             z == a * b
             u == p * (a * b)
             v == q * (a * b)
  <2>1. 10 * (x - y) > z
    OBVIOUS
  <2> HIDE DEF x, y, z, u, v
  <2>2. x \in Int /\ y \in Int /\ z \in Int /\ u \in Int /\ v \in Int
    BY <1>2 DEF x, y, z, u, v
  <2>3. 20 * x + z <= 2 * u + 2 * z /\ 2 * v <= 20 * y + z
    BY <1>3, <1>4 DEF x, y, z, u, v
  <2>4. v < u
    BY <2>1, <2>2, <2>3
  <2> QED
    BY <2>4 DEF u, v
<1>6. ~(p <= q)
  <2>1. p <= q => p * (a * b) <= q * (a * b)
    BY <1>1, <1>2, Scales
  <2> QED
    BY <1>2, <1>5, <2>1
<1> QED
  BY <1>1, <1>6 DEF p, q

-----------------------------------------------------------------------------
(* The statistics of a host.                                                 *)


Measured(s) ==
  \A k \in DOMAIN s : /\ s[k] \in Int
                      /\ k \in {"mhz", "host mem", "cluster mem"} => s[k] >= 0

\* The CPU and the memory that a VM needs are free.
HasCpu(s, vm) ==
  /\ {"mhz", "cores", "cpu usage"} \subseteq DOMAIN s
  /\ s["cores"] > 0
  /\ 100 * vm.vcpu * s["mhz"] <= s["cores"] * s["mhz"] * (100 - s["cpu usage"])

HasMem(s, vm) ==
  /\ "mem usage" \in DOMAIN s
  /\ {"host mem", "cluster mem"} \cap DOMAIN s # {}
  /\ 100 * vm.gb <= MemTotal(s) * (100 - s["mem usage"])

\* More than that is free. The speed counts only where there is any.
SpareCpu(s, vm) ==
  /\ HasCpu(s, vm)
  /\ s["mhz"] = 0 \/ (100 - s["cpu usage"]) * s["cores"] - 100 * vm.vcpu > 0

SpareMem(s, vm) ==
  /\ HasMem(s, vm)
  /\ (100 - s["mem usage"]) * MemTotal(s) - 100 * vm.gb > 0

LEMMA NumKnown ==
  ASSUME NEW s, Measured(s), NEW k
  PROVE  /\ Num(s, k) # Nothing <=> k \in DOMAIN s
         /\ k \in DOMAIN s => Num(s, k) = s[k] /\ s[k] \in Int
BY NothingAssumption DEF Measured, Num

LEMMA Fraction ==
  ASSUME NEW l, NEW a, NEW b, l = [n |-> a, d |-> b]
  PROVE  l.n = a /\ l.d = b
OBVIOUS

LEMMA CpuLeftKnown ==
  ASSUME NEW s, Measured(s), NEW vm, vm.vcpu \in Int
  PROVE  /\ CpuLeft(s, vm) # Nothing <=>
              {"mhz", "cores", "cpu usage"} \subseteq DOMAIN s /\ s["cores"] > 0
         /\ CpuLeft(s, vm) # Nothing =>
              CpuLeft(s, vm) = [n |-> (100 - s["cpu usage"]) * s["cores"] - 100 * vm.vcpu, d |-> s["cores"]]
<1> DEFINE u == s["cpu usage"]
           c == s["cores"]
           left == [n |-> (100 - u) * c - 100 * vm.vcpu, d |-> c]
<1>1. \A k : (Num(s, k) # Nothing <=> k \in DOMAIN s) /\ (k \in DOMAIN s => Num(s, k) = s[k] /\ s[k] \in Int)
  BY NumKnown
<1>2. Known({Num(s, "cores"), Num(s, "cpu usage"), Num(s, "mhz")})
        <=> {"mhz", "cores", "cpu usage"} \subseteq DOMAIN s
  BY <1>1 DEF Known
<1>3. CASE {"mhz", "cores", "cpu usage"} \subseteq DOMAIN s /\ c > 0
  <2>1. c \in Int /\ u \in Int
    BY <1>1, <1>3
  <2>2. (100 - u) * c - 100 * vm.vcpu \in Int
    <3> HIDE DEF u, c
    <3> QED
      BY <2>1
  <2>3. left \in [n : Int, d : Int]
    BY <2>1, <2>2
  <2>4. CpuLeft(s, vm) = left
    BY <1>1, <1>2, <1>3 DEF CpuLeft
  <2> QED
    BY <1>3, <2>3, <2>4, NothingAssumption
<1>4. CASE ~({"mhz", "cores", "cpu usage"} \subseteq DOMAIN s /\ c > 0)
  BY <1>1, <1>2, <1>4 DEF CpuLeft
<1> QED
  BY <1>3, <1>4

(* A VM is said to fit the CPU of a host if more than it needs is free, and  *)
(* only if that much is.                                                     *)
LEMMA CpuFitsTrue ==
  ASSUME NEW s, Measured(s), NEW vm, vm.vcpu \in Int, NEW granted
  PROVE  /\ CpuFits(s, vm, granted) => HasCpu(s, vm)
         /\ SpareCpu(s, vm) => CpuFits(s, vm, granted)
<1>1. CASE CpuLeft(s, vm) = Nothing
  BY <1>1, CpuLeftKnown DEF CpuFits, HasCpu, SpareCpu
<1>2. CASE CpuLeft(s, vm) # Nothing
  <2> DEFINE m == s["mhz"]
             c == s["cores"]
             u == s["cpu usage"]
             x == (100 - u) * c - 100 * vm.vcpu
  <2>1. /\ {"mhz", "cores", "cpu usage"} \subseteq DOMAIN s /\ c > 0
        /\ CpuLeft(s, vm) = [n |-> x, d |-> c]
    BY <1>2, CpuLeftKnown
  <2>2. c \in Nat /\ u \in Int /\ m \in Nat /\ Num(s, "mhz") = m
    <3>1. m \in Int /\ c \in Int /\ u \in Int /\ Num(s, "mhz") = m
      BY <2>1, NumKnown
    <3>2. m >= 0
      BY <2>1 DEF Measured
    <3>3. c > 0
      BY <2>1
    <3> HIDE DEF m, c, u
    <3> QED
      BY <3>1, <3>2, <3>3
  <2>3. /\ CpuFits(s, vm, granted) => x >= 0 \/ m = 0
        /\ x > 0 \/ m = 0 => CpuFits(s, vm, granted)
    <3>1. CpuLeft(s, vm).n = x
      <4> HIDE DEF x, c
      <4> QED
        BY <2>1, Fraction
    <3> DEFINE tie == "cpu" \in granted
    <3>2. CpuFits(s, vm, granted) <=> (x > 0 \/ (x = 0 /\ tie) \/ m = 0)
      <4> HIDE DEF m, x
      <4> QED
        BY <1>2, <2>2, <3>1, Zenon DEF CpuFits
    <3>3. x \in Int
      <4> HIDE DEF m, c, u
      <4> QED
        BY <2>2
    <3> HIDE DEF x, m, tie
    <3> QED
      BY <3>2, <3>3
  <2>9. SpareCpu(s, vm) => m = 0 \/ x > 0
    BY DEF SpareCpu
  <2>4. HasCpu(s, vm) <=> 100 * vm.vcpu * m <= c * m * (100 - u)
    BY <2>1 DEF HasCpu
  <2> HIDE DEF m, c, u
  <2>5. x \in Int /\ c * m * (100 - u) - 100 * vm.vcpu * m = x * m
    BY <2>2
  <2>6. 100 * vm.vcpu * m \in Int /\ c * m * (100 - u) \in Int /\ x * m \in Int
    BY <2>2, <2>5
  <2>7. 100 * vm.vcpu * m <= c * m * (100 - u) <=> 0 <= x * m
    BY <2>5, <2>6
  <2> HIDE DEF x
  <2>8. 0 <= x * m <=> (x >= 0 \/ m = 0)
    <3>1. CASE m = 0
      BY <2>5, <3>1
    <3>2. CASE m \in Nat \ {0}
      <4>1. 0 * m <= x * m => 0 <= x
        BY <2>5, <3>2, Cancels
      <4>2. 0 <= x => 0 * m <= x * m
        BY <2>2, <2>5, Scales
      <4> QED
        BY <2>2, <2>5, <3>2, <4>1, <4>2
    <3> QED
      BY <2>2, <3>1, <3>2
  <2> QED
    BY <2>3, <2>4, <2>7, <2>8, <2>9
<1> QED
  BY <1>1, <1>2

LEMMA MemLeftKnown ==
  ASSUME NEW s, Measured(s), NEW vm, vm.gb \in Int
  PROVE  /\ MemLeft(s, vm) # Nothing <=>
              "mem usage" \in DOMAIN s /\ {"host mem", "cluster mem"} \cap DOMAIN s # {}
         /\ MemLeft(s, vm) # Nothing =>
              /\ MemTotal(s) \in Nat /\ s["mem usage"] \in Int
              /\ MemLeft(s, vm) =
                   [n |-> (100 - s["mem usage"]) * MemTotal(s) - 100 * vm.gb, d |-> MemTotal(s)]
<1> DEFINE u == s["mem usage"]
           t == MemTotal(s)
           left == [n |-> (100 - u) * t - 100 * vm.gb, d |-> t]
<1>1. \A k : (Num(s, k) # Nothing <=> k \in DOMAIN s) /\ (k \in DOMAIN s => Num(s, k) = s[k] /\ s[k] \in Int)
  BY NumKnown
<1>2. /\ t # Nothing <=> {"host mem", "cluster mem"} \cap DOMAIN s # {}
      /\ t # Nothing => t \in Nat
  <2>1. \A k \in {"host mem", "cluster mem"} : k \in DOMAIN s => s[k] >= 0
    BY DEF Measured
  <2>2. t # Nothing => \E k \in {"host mem", "cluster mem"} \cap DOMAIN s : t = s[k]
    BY <1>1 DEF MemTotal
  <2>3. {"host mem", "cluster mem"} \cap DOMAIN s # {} => t # Nothing
    BY <1>1 DEF MemTotal
  <2>4. \A k \in {"host mem", "cluster mem"} : k \in DOMAIN s => s[k] \in Nat
    <3>1. ASSUME NEW k, s[k] \in Int, s[k] >= 0
          PROVE  s[k] \in Nat
      BY <3>1
    <3>2. \A k : k \in DOMAIN s => s[k] \in Int
      BY <1>1
    <3> QED
      BY <2>1, <3>1, <3>2
  <2> HIDE DEF t
  <2>5. t # Nothing => t \in Nat
    BY <2>2, <2>4
  <2>6. t # Nothing => {"host mem", "cluster mem"} \cap DOMAIN s # {}
    BY <2>2
  <2> QED
    BY <2>3, <2>5, <2>6
<1>3. Known({t, Num(s, "mem usage")})
        <=> "mem usage" \in DOMAIN s /\ {"host mem", "cluster mem"} \cap DOMAIN s # {}
  BY <1>1, <1>2 DEF Known
<1>4. CASE "mem usage" \in DOMAIN s /\ {"host mem", "cluster mem"} \cap DOMAIN s # {}
  <2>1. t \in Nat /\ u \in Int
    BY <1>1, <1>2, <1>4
  <2>2. (100 - u) * t - 100 * vm.gb \in Int
    <3> HIDE DEF u, t
    <3> QED
      BY <2>1
  <2>3. left \in [n : Int, d : Int]
    <3> HIDE DEF t, u
    <3> QED
      BY <2>1, <2>2
  <2>4. MemLeft(s, vm) = left
    BY <1>1, <1>3, <1>4 DEF MemLeft
  <2> QED
    BY <1>4, <2>1, <2>3, <2>4, NothingAssumption
<1>5. CASE ~("mem usage" \in DOMAIN s /\ {"host mem", "cluster mem"} \cap DOMAIN s # {})
  BY <1>3, <1>5 DEF MemLeft
<1> QED
  BY <1>4, <1>5

LEMMA MemFitsTrue ==
  ASSUME NEW s, Measured(s), NEW vm, vm.gb \in Int, NEW granted
  PROVE  /\ MemFits(s, vm, granted) => HasMem(s, vm)
         /\ SpareMem(s, vm) => MemFits(s, vm, granted)
<1>1. CASE MemLeft(s, vm) = Nothing
  BY <1>1, MemLeftKnown DEF MemFits, HasMem, SpareMem
<1>2. CASE MemLeft(s, vm) # Nothing
  <2> DEFINE t == MemTotal(s)
             u == s["mem usage"]
             x == (100 - u) * t - 100 * vm.gb
  <2>1. /\ "mem usage" \in DOMAIN s /\ {"host mem", "cluster mem"} \cap DOMAIN s # {}
        /\ t \in Nat /\ u \in Int
        /\ MemLeft(s, vm) = [n |-> x, d |-> t]
    BY <1>2, MemLeftKnown
  <2>2. /\ MemFits(s, vm, granted) => x >= 0
        /\ x > 0 => MemFits(s, vm, granted)
    <3>1. MemLeft(s, vm).n = x
      <4> HIDE DEF x, t
      <4> QED
        BY <2>1, Fraction
    <3> DEFINE tie == "memory" \in granted
    <3>2. MemFits(s, vm, granted) <=> (x > 0 \/ (x = 0 /\ tie))
      <4> HIDE DEF x
      <4> QED
        BY <1>2, <3>1, Zenon DEF MemFits
    <3>3. x \in Int
      <4>1. t \in Nat /\ u \in Int
        BY <2>1, Zenon
      <4> HIDE DEF t, u
      <4> QED
        BY <4>1
    <3> HIDE DEF x, tie
    <3> QED
      BY <3>2, <3>3
  <2>5. SpareMem(s, vm) => x > 0
    BY DEF SpareMem
  <2>3. HasMem(s, vm) <=> 100 * vm.gb <= t * (100 - u)
    BY <2>1 DEF HasMem
  <2> HIDE DEF t, u
  <2>4. x >= 0 <=> 100 * vm.gb <= t * (100 - u)
    <3>1. t \in Nat /\ u \in Int
      BY <2>1 DEF t, u
    <3> QED
      BY <3>1
  <2> QED
    BY <2>2, <2>3, <2>4, <2>5
<1> QED
  BY <1>1, <1>2

LEMMA Fitting ==
  ASSUME NEW s, Measured(s), NEW vm, vm.vcpu \in Int, vm.gb \in Int, NEW granted
  PROVE  /\ Evaluate(s, vm, granted).blockers \subseteq {"cpu", "memory"}
         /\ Evaluate(s, vm, granted).blockers = {} => HasCpu(s, vm) /\ HasMem(s, vm)
         /\ SpareCpu(s, vm) /\ SpareMem(s, vm) => Evaluate(s, vm, granted).blockers = {}
BY CpuFitsTrue, MemFitsTrue DEF Evaluate

Heads == Int \cup {Nothing}

(* The least of some numbers, where they are known.                          *)
LEMMA LeastOfThree ==
  ASSUME NEW a \in Heads, NEW b \in Heads, NEW c \in Heads, NEW V, V = {a, b, c}
  PROVE  /\ LeastOf(V) \in Heads
         /\ LeastOf(V) = Nothing <=> V \subseteq {Nothing}
         /\ LeastOf(V) # Nothing => LeastOf(V) \in V /\ \A v \in V : v # Nothing => LeastOf(V) <= v
<1> DEFINE known == V \ {Nothing}
<1>1. CASE known = {}
  <2>1. LeastOf(V) = Nothing
    BY <1>1 DEF LeastOf
  <2> QED
    BY <1>1, <2>1 DEF Heads
<1>2. CASE known # {}
  <2>1. \E v \in known : \A w \in known : v <= w
    BY <1>2 DEF Heads
  <2>2. LeastOf(V) = CHOOSE v \in known : \A w \in known : v <= w
    BY <1>2 DEF LeastOf
  <2>3. LeastOf(V) \in known /\ \A w \in known : LeastOf(V) <= w
    <3> HIDE DEF known
    <3> QED
      BY <2>1, <2>2
  <2> QED
    BY <2>3, NothingAssumption DEF Heads
<1> QED
  BY <1>1, <1>2

(* What a host has left of its CPU and memory.                               *)
LEMMA CpuHeadKnown ==
  ASSUME NEW s, Measured(s), NEW vm, vm.vcpu \in Int
  PROVE  /\ CpuHead(s, vm) \in Heads
         /\ CpuHead(s, vm) # Nothing <=>
              /\ {"mhz", "cores", "cpu usage"} \subseteq DOMAIN s
              /\ s["cores"] > 0 /\ s["mhz"] # 0
         /\ CpuHead(s, vm) # Nothing =>
              /\ s["cores"] \in Nat \ {0} /\ (100 - s["cpu usage"]) * s["cores"] - 100 * vm.vcpu \in Int
              /\ CpuHead(s, vm) =
                   Tenths((100 - s["cpu usage"]) * s["cores"] - 100 * vm.vcpu, s["cores"])
<1> DEFINE u == s["cpu usage"]
           c == s["cores"]
           x == (100 - u) * c - 100 * vm.vcpu
<1>1. CASE /\ {"mhz", "cores", "cpu usage"} \subseteq DOMAIN s
           /\ c > 0 /\ s["mhz"] # 0
  <2>1. CpuLeft(s, vm) # Nothing /\ CpuLeft(s, vm) = [n |-> x, d |-> c]
    BY <1>1, CpuLeftKnown
  <2>2. c \in Int /\ u \in Int /\ Num(s, "mhz") = s["mhz"]
    BY <1>1, NumKnown
  <2>3. CpuHead(s, vm) = Tenths(CpuLeft(s, vm).n, CpuLeft(s, vm).d)
    BY <1>1, <2>1, <2>2 DEF CpuHead
  <2>4. CpuLeft(s, vm).n = x /\ CpuLeft(s, vm).d = c
    <3> HIDE DEF x, c
    <3> QED
      BY <2>1, Fraction
  <2>5. x \in Int /\ c \in Nat \ {0}
    <3>1. c > 0
      BY <1>1
    <3> HIDE DEF u, c
    <3> QED
      BY <2>2, <3>1
  <2>6. Tenths(x, c) \in Int
    <3> HIDE DEF x, c
    <3>1. 20 * x + c \in Int /\ 2 * c \in Nat \ {0}
      BY <2>5
    <3> QED
      BY <3>1, Quotient DEF Tenths
  <2>7. CpuHead(s, vm) = Tenths(x, c)
    <3> HIDE DEF x, c
    <3> QED
      BY <2>3, <2>4
  <2> QED
    BY <1>1, <2>5, <2>6, <2>7, NothingAssumption DEF Heads
<1>2. CASE ~ /\ {"mhz", "cores", "cpu usage"} \subseteq DOMAIN s
             /\ c > 0 /\ s["mhz"] # 0
  <2>1. CpuLeft(s, vm) = Nothing \/ Num(s, "mhz") = 0
    BY <1>2, CpuLeftKnown, NumKnown
  <2>2. CpuHead(s, vm) = Nothing
    BY <2>1 DEF CpuHead
  <2> QED
    BY <1>2, <2>2 DEF Heads
<1> QED
  BY <1>1, <1>2

LEMMA MemHeadKnown ==
  ASSUME NEW s, Measured(s), NEW vm, vm.gb \in Int
  PROVE  /\ MemHead(s, vm) \in Heads
         /\ MemHead(s, vm) # Nothing <=>
              /\ "mem usage" \in DOMAIN s /\ {"host mem", "cluster mem"} \cap DOMAIN s # {}
              /\ MemTotal(s) > 0
         /\ MemHead(s, vm) # Nothing =>
              /\ MemTotal(s) \in Nat \ {0} /\ (100 - s["mem usage"]) * MemTotal(s) - 100 * vm.gb \in Int
              /\ MemHead(s, vm) =
                   Tenths((100 - s["mem usage"]) * MemTotal(s) - 100 * vm.gb, MemTotal(s))
<1> DEFINE u == s["mem usage"]
           t == MemTotal(s)
           x == (100 - u) * t - 100 * vm.gb
<1>1. CASE MemLeft(s, vm) # Nothing
  <2>1. /\ MemLeft(s, vm) = [n |-> x, d |-> t] /\ t \in Nat /\ u \in Int
        /\ "mem usage" \in DOMAIN s /\ {"host mem", "cluster mem"} \cap DOMAIN s # {}
    BY <1>1, MemLeftKnown
  <2>2. MemHead(s, vm) = IF t <= 0 THEN Nothing ELSE Tenths(MemLeft(s, vm).n, MemLeft(s, vm).d)
    BY <1>1 DEF MemHead
  <2>3. MemLeft(s, vm).n = x /\ MemLeft(s, vm).d = t
    <3> HIDE DEF x, t
    <3> QED
      BY <2>1, Fraction
  <2>4. MemHead(s, vm) = IF t <= 0 THEN Nothing ELSE Tenths(x, t)
    <3> HIDE DEF x, t
    <3> QED
      BY <2>2, <2>3
  <2>5. x \in Int
    <3>1. t \in Nat /\ u \in Int
      BY <2>1
    <3> HIDE DEF u, t
    <3> QED
      BY <3>1
  <2>6. CASE t <= 0
    <3>1. ~(t > 0)
      <4>1. t \in Nat
        BY <2>1
      <4> HIDE DEF t
      <4> QED
        BY <2>6, <4>1
    <3>2. MemHead(s, vm) = Nothing
      <4> HIDE DEF t, x
      <4> QED
        BY <2>4, <2>6
    <3> HIDE DEF t
    <3> QED
      BY <3>1, <3>2 DEF Heads, t
  <2>7. CASE t > 0
    <3>1. t \in Nat \ {0} /\ ~(t <= 0)
      <4>1. t \in Nat
        BY <2>1
      <4> HIDE DEF t
      <4> QED
        BY <2>7, <4>1
    <3>2. Tenths(x, t) \in Int
      <4> HIDE DEF x, t
      <4>1. 20 * x + t \in Int /\ 2 * t \in Nat \ {0}
        BY <2>5, <3>1
      <4> QED
        BY <4>1, Quotient DEF Tenths
    <3>3. MemHead(s, vm) = Tenths(x, t)
      BY <2>4, <3>1
    <3> QED
      BY <2>1, <2>5, <2>7, <3>1, <3>2, <3>3, NothingAssumption DEF Heads
  <2>8. t <= 0 \/ t > 0
    <3>1. t \in Nat
      BY <2>1
    <3> HIDE DEF t
    <3> QED
      BY <3>1
  <2> QED
    BY <2>6, <2>7, <2>8
<1>2. CASE MemLeft(s, vm) = Nothing
  <2>1. MemHead(s, vm) = Nothing
    BY <1>2 DEF MemHead
  <2> QED
    BY <1>2, <2>1, MemLeftKnown DEF Heads
<1> QED
  BY <1>1, <1>2

LEMMA EvaluateHead ==
  ASSUME NEW s, Measured(s), NEW vm, vm.vcpu \in Int, vm.gb \in Int
  PROVE  HeadLeft(s, vm) \in Heads
<1>1. HeadLeft(s, vm) = LeastOf({CpuHead(s, vm), MemHead(s, vm)})
  BY DEF HeadLeft
<1>2. CpuHead(s, vm) \in Heads /\ MemHead(s, vm) \in Heads
  BY CpuHeadKnown, MemHeadKnown
<1> QED
  BY <1>1, <1>2, LeastOfThree

-----------------------------------------------------------------------------
(* The ranking of the candidates.                                            *)

CandidateSet ==
  [host : Resources, cluster : Resources, blockers : SUBSET {"cpu", "memory"}, head : Heads]

(* The rank key orders candidates, up to ties.                               *)
LEMMA BetterOrders ==
  /\ \A a, b \in CandidateSet : ~(Better(a, b) /\ Better(b, a))
  /\ \A a, b, c \in CandidateSet : ~Better(a, b) /\ ~Better(b, c) => ~Better(a, c)
<1>1. \A a \in CandidateSet : a.head \in Heads
  BY DEF CandidateSet
<1>2. \A x, y \in Heads : ~(Higher(x, y) /\ Higher(y, x))
  BY NothingAssumption DEF Higher, Heads
<1>3. \A x, y, z \in Heads : ~Higher(x, y) /\ ~Higher(y, z) => ~Higher(x, z)
  BY NothingAssumption DEF Higher, Heads
<1>4. ASSUME NEW a \in CandidateSet, NEW b \in CandidateSet
      PROVE  ~(Better(a, b) /\ Better(b, a))
  BY <1>1, <1>2 DEF Better
<1>5. ASSUME NEW a \in CandidateSet, NEW b \in CandidateSet, NEW c \in CandidateSet
      PROVE  ~Better(a, b) /\ ~Better(b, c) => ~Better(a, c)
  <2>1. ~Higher(a.head, b.head) /\ ~Higher(b.head, c.head) => ~Higher(a.head, c.head)
    BY <1>1, <1>3
  <2> QED
    BY <2>1, Zenon DEF Better
<1> QED
  BY <1>4, <1>5

InOrder(list) == Ranked(list, Better)

(* The ranking keeps all candidates, none of them before one that is better. *)
LEMMA RankedCandidates ==
  ASSUME NEW list \in Seq(CandidateSet)
  PROVE  LET ranked == InOrder(list)
         IN  /\ DOMAIN ranked = DOMAIN list
             /\ \A m \in DOMAIN list : \E i \in DOMAIN list : ranked[m] = list[i]
             /\ \A i \in DOMAIN list : \E m \in DOMAIN list : ranked[m] = list[i]
             /\ \A m, k \in DOMAIN list : m < k => ~Better(ranked[k], ranked[m])
<1> DEFINE n == Len(list)
           P == DOMAIN list
           above == {w \in P \X P : Better(list[w[1]], list[w[2]])}
           ranked == InOrder(list)
           at(m) == PlacedAt(P, above, m)
<1>1. n \in Nat /\ P = 1 .. n /\ \A i \in P : list[i] \in CandidateSet
  OBVIOUS
<1>2. \A i, j \in P : <<i, j>> \in above <=> Better(list[i], list[j])
  OBVIOUS
<1>3. /\ \A i, j \in P : ~(<<i, j>> \in above /\ <<j, i>> \in above)
      /\ \A i, j, k \in P : <<i, j>> \notin above /\ <<j, k>> \notin above => <<i, k>> \notin above
  <2> HIDE DEF P, above
  <2> QED
    BY <1>1, <1>2, BetterOrders
<1>4. /\ \A m \in P : at(m) \in P
      /\ \A i \in P : \E m \in P : at(m) = i
      /\ \A m, k \in P : m < k => <<at(k), at(m)>> \notin above
  <2> HIDE DEF above, n, P
  <2> DEFINE N == 1 .. n
  <2>1. /\ \A m \in N : PlacedAt(N, above, m) \in N
        /\ \A i \in N : \E m \in N : PlacedAt(N, above, m) = i
        /\ \A m, k \in N : m < k =>
             /\ PlacedAt(N, above, m) # PlacedAt(N, above, k)
             /\ <<PlacedAt(N, above, k), PlacedAt(N, above, m)>> \notin above
    BY <1>1, <1>3, StableSort
  <2>2. P = N
    BY <1>1
  <2> HIDE DEF N
  <2> QED
    BY <2>1, <2>2
<1>5. ranked = [m \in P |-> list[at(m)]]
  <2> DEFINE ahead(i) == {j \in P \ {i} : \/ Better(list[j], list[i])
                                          \/ j < i /\ ~Better(list[i], list[j])}
             place(m) == CHOOSE i \in P : 1 + Cardinality(ahead(i)) = m
  <2>1. ranked = [m \in P |-> list[place(m)]]
    BY DEF InOrder, Ranked
  <2>2. \A i \in P : AheadOf(P, above, i) = ahead(i)
    BY <1>2 DEF AheadOf
  <2>3. \A m \in P : place(m) = at(m)
    BY <2>2 DEF PlacedAt
  <2> HIDE DEF place, at, P
  <2> QED
    BY <2>1, <2>3
<1> HIDE DEF ranked, at, above, P
<1>6. \A m \in P : ranked[m] = list[at(m)]
  BY <1>5
<1>7. \A m, k \in P : m < k => ~Better(ranked[k], ranked[m])
  BY <1>2, <1>4, <1>6
<1> QED
  BY <1>4, <1>5, <1>6, <1>7 DEF ranked, P

LEMMA CutFirst ==
  ASSUME NEW S, NEW list \in Seq(S), NEW n \in Int, n <= Len(list)
  PROVE  /\ SubSeq(list, 1, n) # <<>> => n >= 1 /\ Len(list) >= 1
         /\ n >= 1 => SubSeq(list, 1, n) # <<>> /\ Head(SubSeq(list, 1, n)) = list[1]
<1>1. CASE n >= 1
  <2>1. /\ SubSeq(list, 1, n) = [i \in 1 .. n |-> list[i]]
        /\ n \in Nat /\ 1 \in 1 .. n
    BY <1>1
  <2>2. SubSeq(list, 1, n) \in Seq(S) /\ Len(SubSeq(list, 1, n)) = n
    BY <1>1
  <2> QED
    BY <1>1, <2>1, <2>2
<1>2. CASE n < 1
  <2>1. SubSeq(list, 1, n) = <<>>
    BY <1>2
  <2> QED
    BY <1>2, <2>1
<1> QED
  BY <1>1, <1>2

(* The first of the candidates shown is one that none is better than.        *)
LEMMA BestFirst ==
  ASSUME NEW list \in Seq(CandidateSet), NEW n \in Int
  PROVE  LET top == Top(InOrder(list), n)
         IN  /\ top # <<>> => \E i \in DOMAIN list :
                  /\ Head(top) = list[i]
                  /\ \A j \in DOMAIN list : ~Better(list[j], list[i])
             /\ n > 0 /\ list # <<>> => top # <<>>
<1> DEFINE ranked == InOrder(list)
           len == Len(list)
           cut == IF n < 0 THEN Len(ranked) + n ELSE Smaller(n, Len(ranked))
           top == SubSeq(ranked, 1, cut)
<1>1. /\ DOMAIN ranked = 1 .. len /\ len \in Nat
      /\ \A m \in 1 .. len : \E i \in 1 .. len : ranked[m] = list[i]
      /\ \A i \in 1 .. len : \E m \in 1 .. len : ranked[m] = list[i]
      /\ \A m, k \in 1 .. len : m < k => ~Better(ranked[k], ranked[m])
  <2>1. DOMAIN list = 1 .. len /\ len \in Nat
    OBVIOUS
  <2> HIDE DEF len
  <2>2. /\ DOMAIN ranked = DOMAIN list
        /\ \A m \in DOMAIN list : \E i \in DOMAIN list : ranked[m] = list[i]
        /\ \A i \in DOMAIN list : \E m \in DOMAIN list : ranked[m] = list[i]
        /\ \A m, k \in DOMAIN list : m < k => ~Better(ranked[k], ranked[m])
    BY RankedCandidates, Zenon
  <2> HIDE DEF ranked
  <2> QED
    BY <2>1, <2>2
<1>2. \A i \in 1 .. len : list[i] \in CandidateSet
  OBVIOUS
<1>3. ranked = [m \in 1 .. len |-> ranked[m]]
  <2>1. ranked = [m \in DOMAIN list |-> ranked[m]]
    BY DEF InOrder, Ranked
  <2> QED
    BY <1>1, <2>1
<1>4. ranked \in Seq(CandidateSet) /\ Len(ranked) = len
  <2> HIDE DEF ranked, len
  <2>1. \A m \in 1 .. len : ranked[m] \in CandidateSet
    BY <1>1, <1>2
  <2>2. ranked \in [1 .. len -> CandidateSet]
    BY <1>3, <2>1
  <2> QED
    BY <1>1, <2>2, ListOf
<1>5. Top(InOrder(list), n) = top
  BY DEF Top
<1> HIDE DEF ranked
<1>6. /\ cut \in Int /\ cut <= len
      /\ n > 0 /\ len > 0 => cut > 0
  <2> HIDE DEF len
  <2> QED
    BY <1>1, <1>4 DEF Smaller
<1> HIDE DEF cut, len
<1>7. top # <<>> => cut >= 1 /\ len >= 1
  BY <1>4, <1>6, CutFirst
<1>8. cut >= 1 => top # <<>> /\ Head(top) = ranked[1]
  BY <1>4, <1>6, CutFirst
<1>9. ASSUME len >= 1
      PROVE  \E i \in 1 .. len : ranked[1] = list[i] /\ \A j \in 1 .. len : ~Better(list[j], list[i])
  <2>1. PICK i \in 1 .. len : ranked[1] = list[i]
    BY <1>1, <1>9
  <2>2. ASSUME NEW j \in 1 .. len
        PROVE  ~Better(list[j], ranked[1])
    <3>1. PICK m \in 1 .. len : ranked[m] = list[j]
      BY <1>1
    <3>2. CASE m = 1
      BY <1>2, <3>1, <3>2, BetterOrders
    <3>3. CASE m > 1
      <4>1. 1 \in 1 .. len
        BY <1>1, <1>9
      <4> QED
        BY <1>1, <3>1, <3>3, <4>1
    <3> QED
      BY <1>1, <3>2, <3>3
  <2> QED
    BY <2>1, <2>2
<1>10. DOMAIN list = 1 .. len /\ (list # <<>> => len >= 1)
  BY DEF len
<1> QED
  <2>1. top # <<>> => \E i \in 1 .. len :
             Head(top) = list[i] /\ \A j \in 1 .. len : ~Better(list[j], list[i])
    BY <1>7, <1>8, <1>9
  <2>2. n > 0 /\ list # <<>> => top # <<>>
    <3>1. len >= 1 => len > 0
      BY <1>1
    <3>2. cut > 0 => cut >= 1
      BY <1>6
    <3> QED
      BY <1>6, <1>8, <1>10, <3>1, <3>2
  <2> HIDE DEF top
  <2> QED
    BY <1>5, <1>10, <2>1, <2>2

-----------------------------------------------------------------------------
(* The statistics of what is in scope.                                       *)

LEMMA IdsElements ==
  ASSUME rows \in Seq(Resources)
  PROVE  Ids \in Seq(Resources) /\ ToSet(Ids) = ToSet(rows) /\ ToSet(Ids) \subseteq Resources
<1>1. Ids \in Seq(Resources) /\ ToSet(Ids) = ToSet(rows)
  BY DistinctElements DEF Ids
<1>2. \A i \in DOMAIN Ids : Ids[i] \in Resources
  BY <1>1
<1> QED
  BY <1>1, <1>2, Zenon DEF ToSet

LEMMA ChunkElements ==
  ASSUME rows \in Seq(Resources), asked \in Nat
  PROVE  /\ ToSet(Chunk) = Between(Ids, asked + 1, Smaller(asked + ChunkSize, Len(Ids)))
         /\ ToSet(Chunk) \subseteq Resources
<1> DEFINE e == Smaller(asked + ChunkSize, Len(Ids))
<1>1. Ids \in Seq(Resources) /\ Len(Ids) \in Nat
  BY IdsElements
<1>2. e \in Nat /\ e <= Len(Ids)
  BY <1>1, ChunkAssumption DEF Smaller
<1>3. Chunk = SubSeq(Ids, asked + 1, e)
  BY DEF Chunk
<1> HIDE DEF e
<1>4. Chunk \in Seq(Resources) /\ ToSet(Chunk) = Between(Ids, asked + 1, e)
  BY <1>1, <1>2, <1>3, CutElements
<1>5. \A i \in DOMAIN Chunk : Chunk[i] \in Resources
  BY <1>4
<1> QED
  BY <1>4, <1>5, Zenon DEF ToSet, e

\* What a tool call knows, apart from its scope.
Answers ==
  /\ kind \in {request.kind, "HostSystem"}
  /\ stage \in {"beginning", "scope", "stats", "clusters", "host scope", "host stats", "reported"}
  /\ asked \in Nat
  /\ DOMAIN stats \subseteq Resources \cap DOMAIN given.stats
  /\ \A r \in DOMAIN stats : stats[r] = given.stats[r]
  /\ stage # "reported" => report = <<>>
  /\ stage = "reported" => "says" \in DOMAIN report
  /\ stage \in {"clusters", "host scope", "host stats"} => request.tool = "placement"
  /\ (stage \notin {"beginning", "reported"} /\ request.tool = "placement") =>
       /\ request.vm.vcpu \in Nat \ {0} /\ request.vm.gb \in Nat \ {0}
       /\ request.top \in Int

LEMMA NoDomain == DOMAIN <<>> = {}
OBVIOUS

LEMMA SaysWhat ==
  ASSUME NEW what
  PROVE  "says" \in DOMAIN Says(what) /\ Says(what).says = what
BY DEF Says

LEMMA SaysOther ==
  \A what \in {"unknown location", "no data", "failed", "none oversized", "no hosts", "no clusters",
               "unusable arguments"} :
    "says" \in DOMAIN Says(what) /\ Says(what).says = what /\ what # "place"
BY DEF Says

LEMMA InitAnswers ==
  ASSUME ToolInit
  PROVE  Answers
<1>1. DOMAIN stats = {}
  BY DEF ToolInit
<1> QED
  BY <1>1 DEF ToolInit, Init, Answers

(* The arguments are known to be usable once the tool goes on.               *)
LEMMA Usable ==
  ASSUME Searches, ~Unusable, request.tool = "placement"
  PROVE  /\ request.vm.vcpu \in Nat \ {0} /\ request.vm.gb \in Nat \ {0}
         /\ request.top \in Int
<1>1. given \in Cases
  BY DEF Searches, Scope, Inventories
<1>2. {request.vm.vcpu, request.vm.gb} \subseteq Int \cup {Nothing} /\ request.top \in Int
  BY <1>1, StatsAssumption DEF request
<1>3. \A size \in {request.vm.vcpu, request.vm.gb} : size # Nothing /\ ~(size <= 0)
  BY DEF Unusable
<1>4. \A size \in Int : ~(size <= 0) => size \in Nat \ {0}
  OBVIOUS
<1> QED
  BY <1>2, <1>3, <1>4

LEMMA BeginToolAnswers ==
  ASSUME Searches, Answers, BeginTool
  PROVE  Answers'
<1>1. UNCHANGED <<given, kind, asked, stats>>
  BY DEF BeginTool, Reports, scope, vars, attached
<1>2. CASE Unusable
  <2>1. stage' = "reported" /\ "says" \in DOMAIN report'
    <3>1. stage' = "reported" /\ report' = Says("unusable arguments")
      BY <1>2 DEF BeginTool, Reports
    <3> QED
      BY <3>1, SaysWhat
  <2> QED
    BY <1>1, <2>1 DEF Answers, request
<1>3. CASE ~Unusable
  <2>1. stage' = "scope" /\ stage = "beginning" /\ report' = report
    BY <1>3 DEF BeginTool
  <2>2. request' = request
    BY <1>1 DEF request
  <2>3. request'.tool = "placement" =>
          /\ request'.vm.vcpu \in Nat \ {0} /\ request'.vm.gb \in Nat \ {0}
          /\ request'.top \in Int
    BY <1>3, <2>2, Usable
  <2> QED
    BY <1>1, <2>1, <2>2, <2>3 DEF Answers
<1> QED
  BY <1>2, <1>3

LEMMA FetchStatsAnswers ==
  ASSUME Searches, Answers, FetchStats
  PROVE  Answers'
<1>1. /\ UNCHANGED <<given, kind, stage, report>> /\ asked' = asked + ChunkSize
      /\ \/ stats' = stats
         \/ stats' = [r \in DOMAIN stats \cup (ToSet(Chunk) \cap DOMAIN given.stats) |-> given.stats[r]]
  BY DEF FetchStats
<1>2. asked' \in Nat
  <2>1. asked \in Nat /\ ChunkSize \in Nat
    BY ChunkAssumption DEF Answers
  <2> QED
    BY <1>1, <2>1
<1>3. ToSet(Chunk) \subseteq Resources
  BY ChunkElements DEF Searches, Clusters, Answers
<1>4. DOMAIN stats' \subseteq Resources \cap DOMAIN given.stats
  BY <1>1, <1>3 DEF Answers
<1>5. \A r \in DOMAIN stats' : stats'[r] = given.stats[r]
  BY <1>1 DEF Answers
<1>6. request' = request
  BY <1>1 DEF request
<1> QED
  BY <1>1, <1>2, <1>4, <1>5, <1>6 DEF Answers

(* Every step that ends a call gives a report, and only the placement names  *)
(* a place.                                                                  *)
LEMMA TableSays ==
  ASSUME NEW ranked, NEW n, NEW t
  PROVE  /\ "says" \in DOMAIN Table(ranked) /\ Table(ranked).says = "table"
         /\ "says" \in DOMAIN [Table(ranked) EXCEPT !.total = n]
         /\ [Table(ranked) EXCEPT !.total = n].says = "table"
BY DEF Table

LEMMA OtherReports ==
  ASSUME ReportUnknown \/ ReportQuery \/ ReportCapacity \/ ReportOversized
  PROVE  \E r : Reports(r) /\ "says" \in DOMAIN r /\ r.says # "place"
<1>1. CASE ReportUnknown
  <2>1. Reports(Says("unknown location"))
    BY <1>1 DEF ReportUnknown
  <2>2. "says" \in DOMAIN Says("unknown location") /\ Says("unknown location").says # "place"
    BY SaysOther
  <2> QED
    BY <2>1, <2>2, Zenon
<1>2. CASE ReportQuery
  <2>1. \E ranked : Reports([Table(ranked) EXCEPT !.total = Len(rows)])
    BY <1>2 DEF ReportQuery
  <2> QED
    BY <2>1, TableSays
<1>3. CASE ReportCapacity
  <2>1. \E table, tightest :
          \/ Reports(Says("no data")) \/ Reports(Says("failed"))
          \/ Reports([says |-> "table", total |-> table.total, shown |-> table.shown,
                      tightest |-> tightest])
    BY <1>3 DEF ReportCapacity
  <2>2. \A total, shown, tightest :
          /\ "says" \in DOMAIN [says |-> "table", total |-> total, shown |-> shown, tightest |-> tightest]
          /\ [says |-> "table", total |-> total, shown |-> shown, tightest |-> tightest].says # "place"
    OBVIOUS
  <2>3. \A what \in {"no data", "failed"} :
          "says" \in DOMAIN Says(what) /\ Says(what).says # "place"
    BY SaysOther
  <2>4. CASE \E table, tightest :
               Reports([says |-> "table", total |-> table.total, shown |-> table.shown,
                        tightest |-> tightest])
    BY <2>2, <2>4
  <2>5. CASE Reports(Says("no data")) \/ Reports(Says("failed"))
    BY <2>3, <2>5, Zenon
  <2> QED
    BY <2>1, <2>4, <2>5, Zenon
<1>4. CASE ReportOversized
  <2>1. Reports(Says("none oversized")) \/ \E ranked : Reports(Table(ranked))
    BY <1>4 DEF ReportOversized
  <2> QED
    BY <2>1, SaysOther, TableSays
<1> QED
  BY <1>1, <1>2, <1>3, <1>4

LEMMA RecommendReports ==
  ASSUME Recommend
  PROVE  LET top == Top(InOrder(candidates), request.top)
         IN  /\ stage = "clusters" /\ clusters = <<>>
             /\ \/ top = <<>> /\ Reports(Says("no hosts"))
                \/ /\ top # <<>> /\ Head(top).blockers = {}
                   /\ Reports([says |-> "place", host |-> Head(top).host, cluster |-> Head(top).cluster,
                               shown |-> top])
                \/ /\ top # <<>> /\ Head(top).blockers # {}
                   /\ Reports([says |-> "nothing fits", blockers |-> Head(top).blockers, shown |-> top])
BY DEF Recommend, InOrder

LEMMA ReportAnswers ==
  ASSUME Answers,
         ReportUnknown \/ ReportQuery \/ ReportCapacity \/ ReportOversized \/ Recommend
  PROVE  Answers'
<1>1. PICK r : Reports(r) /\ "says" \in DOMAIN r
  <2>1. CASE Recommend
    <3>1. \/ Reports(Says("no hosts"))
          \/ \E h, c, shown : Reports([says |-> "place", host |-> h, cluster |-> c, shown |-> shown])
          \/ \E b, shown : Reports([says |-> "nothing fits", blockers |-> b, shown |-> shown])
      BY <2>1, RecommendReports, Zenon
    <3>2. "says" \in DOMAIN Says("no hosts")
      BY SaysWhat
    <3>3. /\ \A h, c, shown :
               "says" \in DOMAIN [says |-> "place", host |-> h, cluster |-> c, shown |-> shown]
          /\ \A b, shown : "says" \in DOMAIN [says |-> "nothing fits", blockers |-> b, shown |-> shown]
      OBVIOUS
    <3> QED
      BY <3>1, <3>2, <3>3, Zenon
  <2> QED
    BY <2>1, OtherReports
<1>2. /\ UNCHANGED <<given, kind, asked, stats>>
      /\ stage' = "reported" /\ report' = r
  BY <1>1 DEF Reports, scope, vars, attached
<1> QED
  BY <1>1, <1>2 DEF Answers, request

LEMMA ToolAnswers ==
  ASSUME Searches, Answers, [ToolNext]_toolVars
  PROVE  Answers'
<1>1. CASE BeginTool
  BY <1>1, BeginToolAnswers
<1>2. CASE FetchStats
  BY <1>2, FetchStatsAnswers
<1>3. CASE ReportUnknown \/ ReportQuery \/ ReportCapacity \/ ReportOversized \/ Recommend
  BY <1>3, ReportAnswers
<1>4. CASE Scoping
  <2>1. UNCHANGED <<given, kind, stage, asked, stats, report>>
    BY <1>4 DEF Scoping, attached, Query, Resolve, ListPage, ListFails, Search, BeginWalk,
                SkipVisited, Expand, FetchPage, FetchFails, NextLevel
  <2> QED
    BY <2>1 DEF Answers, request
<1>5. CASE InventoryChanges
  <2>1. UNCHANGED <<given, kind, stage, asked, stats, report>>
    BY <1>5, InventoryWalk DEF InventoryChanges, attached
  <2> QED
    BY <2>1 DEF Answers, request
<1>6. CASE Attach
  <2>1. /\ UNCHANGED <<given, kind, report>> /\ asked' = 0 /\ stats' = <<>>
        /\ \/ stage = "scope" /\ stage' = "stats"
           \/ stage = "host scope" /\ stage' = "host stats"
    BY <1>6 DEF Attach, scope, vars
  <2>2. DOMAIN stats' = {}
    BY <2>1, NoDomain
  <2> QED
    BY <2>1, <2>2 DEF Answers, request
<1>7. CASE BeginHosts
  <2>1. UNCHANGED <<given, kind, asked, stats>> /\ request.tool = "placement"
    BY <1>7 DEF BeginHosts, Reports, scope, vars, attached
  <2>2. \/ stage' = "clusters" /\ stage = "stats" /\ report' = report
        \/ stage' = "reported" /\ "says" \in DOMAIN report'
    <3>1. \/ stage' = "clusters" /\ stage = "stats" /\ report' = report
          \/ stage' = "reported" /\ report' = Says("no clusters")
      BY <1>7 DEF BeginHosts, Reports, Attached
    <3> QED
      BY <3>1, SaysWhat
  <2> QED
    BY <2>1, <2>2 DEF Answers, request
<1>8. CASE NextCluster
  <2>1. /\ UNCHANGED <<given, asked, stats, report>> /\ kind' = "HostSystem"
        /\ stage = "clusters" /\ stage' = "host scope"
    BY <1>8 DEF NextCluster, attached
  <2> QED
    BY <2>1 DEF Answers, request
<1>9. CASE EvaluateHosts
  <2>1. /\ UNCHANGED <<given, kind, asked, stats, report>>
        /\ stage = "host stats" /\ stage' = "clusters"
    BY <1>9 DEF EvaluateHosts, Attached, scope, vars, attached
  <2> QED
    BY <2>1 DEF Answers, request
<1>10. CASE UNCHANGED toolVars
  BY <1>10 DEF toolVars, scope, vars, attached, Answers, request
<1> QED
  BY <1>1, <1>2, <1>3, <1>4, <1>5, <1>6, <1>7, <1>8, <1>9, <1>10, Zenon DEF ToolNext, Tool

-----------------------------------------------------------------------------
(* A host that is recommended.                                               *)

\* What holds of the hosts evaluated, and of those that are to be.
Hosting ==
  /\ candidates \in Seq(CandidateSet)
  /\ stage \in {"host scope", "host stats"} => kind = "HostSystem" /\ roots = <<Head(clusters)>>
  /\ stage = "host scope" => pc \in {"walking", "fetching", "done"}
  /\ stage = "host stats" /\ changes = 0 =>
       ToSet(rows) \subseteq Beneath({Head(clusters)}, "HostSystem")
  /\ \A i \in DOMAIN candidates :
       /\ candidates[i].blockers = {} => Fits(candidates[i].host)
       /\ changes = 0 => candidates[i].host \in Beneath({candidates[i].cluster}, "HostSystem")

LEMMA SameBeneath ==
  ASSUME UNCHANGED children
  PROVE  \A tops, sought : Beneath(tops, sought)' = Beneath(tops, sought)
<1>1. ASSUME NEW tops, NEW sought
      PROVE  Beneath(tops, sought)' = Beneath(tops, sought)
  BY DEF Beneath, Searched, ChildrenOf
<1> QED
  BY <1>1

LEMMA BeneathLater ==
  ASSUME UNCHANGED children
  PROVE  \A r, c : r \in Beneath({c}, "HostSystem") => (r \in Beneath({c}, "HostSystem"))'
<1>1. ASSUME NEW c
      PROVE  Beneath({c}, "HostSystem")' = Beneath({c}, "HostSystem")
  BY SameBeneath
<1> QED
  BY <1>1

LEMMA HostingLater ==
  ASSUME UNCHANGED <<children, given>>,
         candidates' \in Seq(CandidateSet),
         stage' \in {"host scope", "host stats"} => kind' = "HostSystem" /\ roots' = <<Head(clusters')>>,
         stage' = "host scope" => pc' \in {"walking", "fetching", "done"},
         stage' = "host stats" /\ changes' = 0 =>
           ToSet(rows') \subseteq Beneath({Head(clusters')}, "HostSystem"),
         \A i \in DOMAIN candidates' :
           /\ candidates'[i].blockers = {} => Fits(candidates'[i].host)
           /\ changes' = 0 => candidates'[i].host \in Beneath({candidates'[i].cluster}, "HostSystem")
  PROVE  Hosting'
<1>1. \A r : Fits(r) => Fits(r)'
  BY DEF Fits, request
<1>2. (\A i \in DOMAIN candidates : candidates[i].blockers = {} => Fits(candidates[i].host))'
  BY DEF Fits, request
<1>3. \A r, c : r \in Beneath({c}, "HostSystem") => (r \in Beneath({c}, "HostSystem"))'
  BY BeneathLater
<1>4. (\A i \in DOMAIN candidates :
         changes = 0 => candidates[i].host \in Beneath({candidates[i].cluster}, "HostSystem"))'
  BY <1>3
<1>5. (stage = "host stats" /\ changes = 0 =>
         ToSet(rows) \subseteq Beneath({Head(clusters)}, "HostSystem"))'
  BY <1>3
<1> QED
  BY <1>2, <1>4, <1>5 DEF Hosting

(* A step that touches neither what is beneath what nor the candidates.      *)
LEMMA SameHosting ==
  ASSUME Hosting, UNCHANGED <<children, given, changes, candidates>>,
         stage' \in {"host scope", "host stats"} => kind' = "HostSystem" /\ roots' = <<Head(clusters')>>,
         stage' = "host scope" => pc' \in {"walking", "fetching", "done"},
         stage' = "host stats" /\ changes' = 0 =>
           ToSet(rows') \subseteq Beneath({Head(clusters')}, "HostSystem")
  PROVE  Hosting'
BY HostingLater DEF Hosting

LEMMA MeasuredStats ==
  ASSUME given \in Cases, Answers, NEW r \in Resources
  PROVE  /\ Measured(StatsOf(r))
         /\ StatsOf(r) # <<>> => r \in DOMAIN stats /\ StatsOf(r) = given.stats[r]
<1>1. CASE r \in DOMAIN stats
  <2>1. StatsOf(r) = given.stats[r] /\ r \in DOMAIN given.stats
    BY <1>1 DEF StatsOf, Answers
  <2>2. Measured(given.stats[r])
    BY <2>1, StatsAssumption DEF Measured
  <2> QED
    BY <1>1, <2>1, <2>2
<1>2. CASE r \notin DOMAIN stats
  BY <1>2, NoDomain DEF StatsOf, Measured
<1> QED
  BY <1>1, <1>2

LEMMA SizesWhole == \A x \in Nat \ {0} : x \in Int
OBVIOUS

(* A candidate that nothing blocks is a host that the VM fits.               *)
LEMMA CandidateFits ==
  ASSUME Searches, Answers, stage = "host stats", NEW r \in Resources, NEW granted
  PROVE  /\ Candidate(r, granted) \in CandidateSet
         /\ Candidate(r, granted).host = r /\ Candidate(r, granted).cluster = Head(clusters)
         /\ Candidate(r, granted).blockers = {} => Fits(r)
<1> DEFINE s == StatsOf(r)
           vm == request.vm
<1>1. given \in Cases /\ clusters \in Seq(Resources) /\ clusters # <<>>
  BY DEF Searches, Scope, Inventories, Clusters
<1>2. vm.vcpu \in Int /\ vm.gb \in Int
  <2>1. vm.vcpu \in Nat \ {0} /\ vm.gb \in Nat \ {0}
    BY DEF Answers
  <2> QED
    BY <2>1, SizesWhole, Zenon
<1>3. Measured(s) /\ (s # <<>> => r \in DOMAIN stats /\ s = given.stats[r])
  BY <1>1, MeasuredStats
<1> HIDE DEF s, vm
<1>4. /\ Evaluate(s, vm, granted).blockers \subseteq {"cpu", "memory"}
      /\ Evaluate(s, vm, granted).blockers = {} => HasCpu(s, vm) /\ HasMem(s, vm)
      /\ HeadLeft(s, vm) \in Heads
  BY <1>2, <1>3, Fitting, EvaluateHead
<1>5. Head(clusters) \in Resources
  BY <1>1, TailElements
<1>6. Candidate(r, granted) = [host |-> r, cluster |-> Head(clusters),
                      blockers |-> Evaluate(s, vm, granted).blockers, head |-> HeadLeft(s, vm)]
  BY DEF Candidate, Evaluate, s, vm
<1>7. /\ Candidate(r, granted) \in CandidateSet
      /\ Candidate(r, granted).host = r /\ Candidate(r, granted).cluster = Head(clusters)
      /\ Candidate(r, granted).blockers = Evaluate(s, vm, granted).blockers
  <2>1. ASSUME NEW b \in SUBSET {"cpu", "memory"}, NEW h \in Heads, NEW c \in Resources
        PROVE  LET e == [host |-> r, cluster |-> c, blockers |-> b, head |-> h]
               IN  e \in CandidateSet /\ e.host = r /\ e.cluster = c /\ e.blockers = b
    BY DEF CandidateSet
  <2>2. PICK b, h, c : /\ b \in SUBSET {"cpu", "memory"} /\ h \in Heads /\ c \in Resources
                       /\ b = Evaluate(s, vm, granted).blockers /\ h = HeadLeft(s, vm)
                       /\ c = Head(clusters)
    BY <1>4, <1>5, Zenon
  <2>3. Candidate(r, granted) = [host |-> r, cluster |-> c, blockers |-> b, head |-> h]
    BY <1>6, <2>2, Zenon
  <2> DEFINE e == [host |-> r, cluster |-> c, blockers |-> b, head |-> h]
  <2>4. e \in CandidateSet /\ e.host = r /\ e.cluster = c /\ e.blockers = b
    BY <2>1, <2>2
  <2> HIDE DEF e
  <2>5. Candidate(r, granted) = e
    BY <2>3 DEF e
  <2> QED
    BY <2>2, <2>4, <2>5, Zenon
<1>8. ASSUME HasCpu(s, vm), HasMem(s, vm)
      PROVE  Fits(r)
  <2>1. s # <<>>
    BY <1>8, NoDomain DEF HasCpu
  <2>2. r \in DOMAIN given.stats /\ s = given.stats[r]
    BY <1>3, <2>1 DEF Answers
  <2> QED
    BY <1>8, <2>2 DEF HasCpu, HasMem, Fits, vm
<1> QED
  BY <1>4, <1>7, <1>8

LEMMA EvaluateHostsHosting ==
  ASSUME Searches, Answers, Hosting, EvaluateHosts
  PROVE  Hosting'
<1>0. PICK granted : candidates' = candidates \o [i \in DOMAIN rows |-> Candidate(rows[i], granted[rows[i]])]
  BY DEF EvaluateHosts
<1> DEFINE new == [i \in DOMAIN rows |-> Candidate(rows[i], granted[rows[i]])]
<1>1. /\ stage = "host stats" /\ stage' = "clusters"
      /\ candidates' = candidates \o new
      /\ UNCHANGED <<children, given, changes>>
  BY <1>0 DEF EvaluateHosts, Attached, scope, vars, inventory
<1>2. /\ rows \in Seq(Resources) /\ candidates \in Seq(CandidateSet)
      /\ DOMAIN rows = 1 .. Len(rows) /\ Len(rows) \in Nat
      /\ \A i \in DOMAIN rows : rows[i] \in Resources
  <2>1. rows \in Seq(Resources) /\ candidates \in Seq(CandidateSet)
    BY DEF Searches, Clusters, Hosting
  <2> QED
    BY <2>1
<1>3. \A i \in DOMAIN rows : /\ new[i] \in CandidateSet
                             /\ new[i].host = rows[i] /\ new[i].cluster = Head(clusters)
                             /\ new[i].blockers = {} => Fits(rows[i])
  BY <1>1, <1>2, CandidateFits
<1>4. new \in Seq(CandidateSet) /\ Len(new) = Len(rows) /\ DOMAIN new = DOMAIN rows
  <2>1. new \in [1 .. Len(rows) -> CandidateSet]
    BY <1>2, <1>3
  <2> QED
    BY <1>2, <2>1, ListOf
<1> HIDE DEF new
<1>5. candidates' \in Seq(CandidateSet)
  BY <1>1, <1>2, <1>4, ConcatElements
<1>6. \A j \in DOMAIN candidates' : \/ \E i \in DOMAIN candidates : candidates'[j] = candidates[i]
                                    \/ \E i \in DOMAIN rows : candidates'[j] = new[i]
  <2>1. candidates' = candidates \o new
    BY <1>1
  <2>2. candidates \in Seq(CandidateSet) /\ new \in Seq(CandidateSet) /\ DOMAIN new = DOMAIN rows
    BY <1>2, <1>4
  <2>3. \A j \in DOMAIN (candidates \o new) :
          \/ \E i \in DOMAIN candidates : (candidates \o new)[j] = candidates[i]
          \/ \E i \in DOMAIN new : (candidates \o new)[j] = new[i]
    BY <2>2, ConcatParts
  <2> QED
    BY <2>1, <2>2, <2>3
<1>7. ASSUME NEW j \in DOMAIN candidates'
      PROVE  /\ candidates'[j].blockers = {} => Fits(candidates'[j].host)
             /\ changes' = 0 =>
                  candidates'[j].host \in Beneath({candidates'[j].cluster}, "HostSystem")
  <2>1. CASE \E i \in DOMAIN candidates : candidates'[j] = candidates[i]
    BY <1>1, <2>1 DEF Hosting
  <2>2. ASSUME NEW i \in DOMAIN rows, candidates'[j] = new[i]
        PROVE  /\ candidates'[j].blockers = {} => Fits(candidates'[j].host)
               /\ changes' = 0 =>
                    candidates'[j].host \in Beneath({candidates'[j].cluster}, "HostSystem")
    <3>1. rows[i] \in ToSet(rows)
      BY DEF ToSet
    <3>2. changes = 0 => rows[i] \in Beneath({Head(clusters)}, "HostSystem")
      BY <1>1, <3>1 DEF Hosting
    <3> QED
      BY <1>1, <1>3, <2>2, <3>2
  <2> QED
    BY <1>6, <2>1, <2>2
<1> QED
  BY <1>1, <1>5, <1>7, HostingLater

LEMMA InitHosting ==
  ASSUME ToolInit
  PROVE  Hosting
<1>1. candidates = <<>> /\ stage = "beginning"
  BY DEF ToolInit
<1>2. \A S : <<>> \in Seq(S)
  OBVIOUS
<1>3. DOMAIN candidates = {}
  BY <1>1
<1> QED
  BY <1>1, <1>2, <1>3 DEF Hosting

LEMMA ScopingHosting ==
  ASSUME Hosting, Scoping
  PROVE  Hosting'
<1>1. /\ UNCHANGED <<children, given, changes, candidates, kind, stage, clusters>>
      /\ stage \in {"scope", "host scope"}
      /\ pc \in {"walking", "fetching", "done"} => roots' = roots /\ pc' \in {"walking", "fetching", "done"}
  BY DEF Scoping, placing, Query, Resolve, ListPage, ListFails, Search, BeginWalk,
         SkipVisited, Expand, FetchPage, Collect, FetchFails, NextLevel, inventory, walk
<1> QED
  BY <1>1, SameHosting DEF Hosting

(* Of the inventory only what is beneath a cluster is told, while it does    *)
(* not change.                                                               *)
LEMMA InventoryHosting ==
  ASSUME Searches, Hosting, InventoryChanges
  PROVE  Hosting'
<1>1. /\ UNCHANGED <<walk, given, kind, roots, stage, candidates, clusters, rows>>
      /\ changes' # 0
      /\ stage = "host scope" => pc' = pc
  BY InventoryWalk DEF InventoryChanges, attached, placing, Searches, Scope, Inventories
<1>2. \A r : Fits(r) => Fits(r)'
  BY <1>1 DEF Fits, request
<1>3. (\A i \in DOMAIN candidates : candidates[i].blockers = {} => Fits(candidates[i].host))'
  <2>1. candidates' = candidates
    BY <1>1
  <2>2. ASSUME NEW i \in DOMAIN candidates, candidates[i].blockers = {}
        PROVE  Fits(candidates[i].host)'
    <3>1. Fits(candidates[i].host)
      BY <2>2 DEF Hosting
    <3> DEFINE h == candidates[i].host
    <3>2. h' = h
      BY <2>1
    <3> HIDE DEF h
    <3>3. Fits(h)'
      BY <1>1, <3>1, <3>2 DEF Fits, request, h
    <3> QED
      BY <3>3 DEF h
  <2> QED
    BY <2>1, <2>2
<1> QED
  BY <1>1, <1>3 DEF Hosting

LEMMA AttachHosting ==
  ASSUME Searches, Hosting, Attach
  PROVE  Hosting'
<1>1. /\ UNCHANGED <<children, given, changes, candidates, kind, roots, clusters>>
      /\ pc = "done"
      /\ \/ stage = "scope" /\ stage' = "stats"
         \/ stage = "host scope" /\ stage' = "host stats" /\ rows' = found
  BY DEF Attach, scope, vars, inventory, placing
<1>2. CASE stage = "scope"
  BY <1>1, <1>2, SameHosting
<1>3. CASE stage = "host scope"
  <2>1. kind = "HostSystem" /\ roots = <<Head(clusters)>>
    BY <1>3 DEF Hosting
  <2>2. ToSet(roots) = {Head(clusters)}
    BY <2>1 DEF ToSet
  <2>3. changes = 0 => ToSet(found) \subseteq Beneath({Head(clusters)}, "HostSystem")
    BY <1>1, <2>1, <2>2 DEF Searches, Sound
  <2>4. stage' = "host stats" /\ rows' = found
    BY <1>1, <1>3
  <2> QED
    BY <1>1, <2>1, <2>3, <2>4, SameHosting
<1> QED
  BY <1>1, <1>2, <1>3

LEMMA ToolHosting ==
  ASSUME Searches, Answers, Hosting, [ToolNext]_toolVars
  PROVE  Hosting'
<1>1. CASE Scoping
  BY <1>1, ScopingHosting
<1>2. CASE InventoryChanges
  BY <1>2, InventoryHosting
<1>3. CASE Attach
  BY <1>3, AttachHosting
<1>4. CASE EvaluateHosts
  BY <1>4, EvaluateHostsHosting
<1>5. CASE NextCluster
  <2>1. /\ UNCHANGED <<children, given, changes, candidates, clusters>>
        /\ stage' = "host scope" /\ pc' = "walking"
        /\ kind' = "HostSystem" /\ roots' = <<Head(clusters)>>
    BY <1>5 DEF NextCluster, inventory, placing
  <2> QED
    BY <2>1, SameHosting
<1>6. CASE FetchStats
  <2>1. UNCHANGED <<children, given, changes, candidates, kind, pc, roots, stage, rows, clusters>>
    BY <1>6 DEF FetchStats, inventory, placing
  <2> QED
    BY <2>1, SameHosting DEF Hosting
<1>7. CASE BeginHosts \/ BeginTool
  <2>1. /\ UNCHANGED <<children, given, changes, candidates>>
        /\ stage' \in {"clusters", "scope", "reported"}
    BY <1>7 DEF BeginHosts, BeginTool, Reports, scope, vars, inventory, placing
  <2> QED
    BY <2>1, SameHosting
<1>8. CASE ReportUnknown \/ ReportQuery \/ ReportCapacity \/ ReportOversized \/ Recommend
  <2>1. UNCHANGED <<children, given, changes, candidates>> /\ stage' = "reported"
    BY <1>8 DEF ReportUnknown, ReportQuery, ReportCapacity, ReportOversized, Recommend, Reports,
                scope, vars, inventory, placing
  <2> QED
    BY <2>1, SameHosting
<1>9. CASE UNCHANGED toolVars
  <2>1. UNCHANGED <<children, given, changes, candidates, kind, pc, roots, stage, rows, clusters>>
    BY <1>9 DEF toolVars, scope, vars, inventory, placing, attached
  <2> QED
    BY <2>1, SameHosting DEF Hosting
<1> QED
  BY <1>1, <1>2, <1>3, <1>4, <1>5, <1>6, <1>7, <1>8, <1>9, Zenon DEF ToolNext, Tool

LEMMA PlacedLater ==
  ASSUME UNCHANGED <<children, given, changes>>,
         (stage' = "reported" /\ report'.says = "place") =>
           /\ Fits(report'.host)
           /\ changes = 0 => report'.host \in Beneath({report'.cluster}, "HostSystem")
  PROVE  PlacedFits'
<1>1. (stage = "reported" /\ report.says = "place" => Fits(report.host))'
  BY DEF Fits, request
<1>2. \A r, c : r \in Beneath({c}, "HostSystem") => (r \in Beneath({c}, "HostSystem"))'
  BY BeneathLater
<1>3. (stage = "reported" /\ report.says = "place" /\ changes = 0
         => report.host \in Beneath({report.cluster}, "HostSystem"))'
  BY <1>2
<1> QED
  BY <1>1, <1>3 DEF PlacedFits

(* The candidate named first fits, if any does, and is where it is said to   *)
(* be.                                                                       *)
LEMMA RecommendFits ==
  ASSUME Answers, Hosting, Recommend
  PROVE  PlacedFits'
<1> DEFINE top == Top(InOrder(candidates), request.top)
<1>1. /\ UNCHANGED <<children, given, changes>>
      /\ \/ report' = Says("no hosts")
         \/ \E b, shown : report' = [says |-> "nothing fits", blockers |-> b, shown |-> shown]
         \/ /\ top # <<>> /\ Head(top).blockers = {}
            /\ report' = [says |-> "place", host |-> Head(top).host, cluster |-> Head(top).cluster,
                          shown |-> top]
  <2>1. \/ Reports(Says("no hosts"))
        \/ \E b, shown : Reports([says |-> "nothing fits", blockers |-> b, shown |-> shown])
        \/ /\ top # <<>> /\ Head(top).blockers = {}
           /\ Reports([says |-> "place", host |-> Head(top).host, cluster |-> Head(top).cluster,
                       shown |-> top])
    BY RecommendReports, Zenon
  <2> HIDE DEF top
  <2> QED
    BY <2>1 DEF Reports, scope, vars, inventory
<1>2. CASE report' = Says("no hosts")
  <2>1. report'.says # "place"
    BY <1>2, SaysOther
  <2> QED
    BY <1>1, <2>1, PlacedLater
<1>3. CASE \E b, shown : report' = [says |-> "nothing fits", blockers |-> b, shown |-> shown]
  <2>1. \A b, shown : [says |-> "nothing fits", blockers |-> b, shown |-> shown].says # "place"
    OBVIOUS
  <2>2. report'.says # "place"
    BY <1>3, <2>1, Zenon
  <2> QED
    BY <1>1, <2>2, PlacedLater
<1>4. CASE /\ top # <<>> /\ Head(top).blockers = {}
           /\ report' = [says |-> "place", host |-> Head(top).host, cluster |-> Head(top).cluster,
                         shown |-> top]
  <2>1. candidates \in Seq(CandidateSet) /\ request.top \in Int
    <3>1. stage = "clusters"
      BY DEF Recommend
    <3> QED
      BY <3>1 DEF Hosting, Answers
  <2>2. PICK i \in DOMAIN candidates : Head(top) = candidates[i]
    <3>1. top # <<>> => \E i \in DOMAIN candidates : Head(top) = candidates[i]
      BY <2>1, BestFirst
    <3> QED
      BY <1>4, <3>1
  <2>3. /\ Fits(candidates[i].host)
        /\ changes = 0 => candidates[i].host \in Beneath({candidates[i].cluster}, "HostSystem")
    BY <1>4, <2>2 DEF Hosting
  <2>4. report'.host = candidates[i].host /\ report'.cluster = candidates[i].cluster
    <3>1. \A h, c, shown : LET r == [says |-> "place", host |-> h, cluster |-> c, shown |-> shown]
                           IN  r.host = h /\ r.cluster = c
      OBVIOUS
    <3> HIDE DEF top
    <3> QED
      BY <1>4, <2>2, <3>1
  <2> QED
    BY <1>1, <2>3, <2>4, PlacedLater
<1> HIDE DEF top
<1> QED
  BY <1>1, <1>2, <1>3, <1>4, Zenon

LEMMA ToolPlaced ==
  ASSUME Searches, Answers, Hosting, PlacedFits, [ToolNext]_toolVars
  PROVE  PlacedFits'
<1>1. CASE Recommend
  BY <1>1, RecommendFits
<1>2. CASE ReportUnknown \/ ReportQuery \/ ReportCapacity \/ ReportOversized
  <2>1. PICK r : Reports(r) /\ r.says # "place"
    BY <1>2, OtherReports
  <2>2. report'.says # "place"
    BY <2>1 DEF Reports
  <2> QED
    BY <2>2 DEF PlacedFits
<1>3. CASE BeginTool \/ BeginHosts
  <2>1. stage' # "reported" \/ report' \in {Says("unusable arguments"), Says("no clusters")}
    BY <1>3 DEF BeginTool, BeginHosts, Reports
  <2>2. stage' # "reported" \/ report'.says # "place"
    BY <2>1, SaysOther
  <2> QED
    BY <2>2 DEF PlacedFits
<1>4. CASE Scoping \/ Attach \/ FetchStats \/ NextCluster \/ EvaluateHosts
  <2>1. stage' # "reported"
    BY <1>4 DEF Scoping, Attach, FetchStats, NextCluster, EvaluateHosts
  <2> QED
    BY <2>1 DEF PlacedFits
<1>5. CASE InventoryChanges
  <2>1. UNCHANGED <<given, stage, report>> /\ changes' # 0
    BY <1>5, InventoryWalk DEF InventoryChanges, Searches, Scope, Inventories
  <2>2. \A r : Fits(r) => Fits(r)'
    BY <2>1 DEF Fits, request
  <2>3. (stage = "reported" /\ report.says = "place" => Fits(report.host))'
    BY <2>1 DEF PlacedFits, Fits, request
  <2> QED
    BY <2>1, <2>3 DEF PlacedFits
<1>6. CASE UNCHANGED toolVars
  <2>1. UNCHANGED <<children, given, changes, stage, report>>
    BY <1>6 DEF toolVars, scope, vars, inventory
  <2> QED
    BY <2>1, PlacedLater DEF PlacedFits
<1> QED
  BY <1>1, <1>2, <1>3, <1>4, <1>5, <1>6, Zenon DEF ToolNext, Tool

(* A host that is recommended has the CPU and the memory free that the VM    *)
(* needs, whichever statistics are missing, whichever requests fail and      *)
(* however the inventory changes; while it does not change, the host is      *)
(* beneath the cluster named with it (placement.py:34-163).                  *)
THEOREM FleetPlacedFits == ToolSpec => []PlacedFits
<1> DEFINE Inv == Searches /\ Answers /\ Hosting /\ PlacedFits
<1>1. ToolInit => Inv
  <2>1. ToolInit => PlacedFits
    BY DEF ToolInit, PlacedFits
  <2> QED
    BY <2>1, InitSearches, InitAnswers, InitHosting
<1>2. Inv /\ [ToolNext]_toolVars => Inv'
  BY ToolSearches, ToolAnswers, ToolHosting, ToolPlaced
<1>3. Inv => PlacedFits
  OBVIOUS
<1> QED
  BY <1>1, <1>2, <1>3, PTL DEF ToolSpec

(* Every variable of a tool call has its type, and the call has ended        *)
(* exactly if it has a report.                                               *)
THEOREM FleetTypeCorrect == ToolSpec => []ToolTypeOK
<1> DEFINE Inv == Searches /\ Answers /\ Hosting
<1>1. ToolInit => Inv
  BY InitSearches, InitAnswers, InitHosting
<1>2. Inv /\ [ToolNext]_toolVars => Inv'
  BY ToolSearches, ToolAnswers, ToolHosting
<1>3. ASSUME Inv
      PROVE  ToolTypeOK
  <2>1. TypeOK
    BY <1>3, TypesParts DEF Searches, Scope, ScopeTypes
  <2>2. /\ kind \in {request.kind, "HostSystem"}
        /\ stage \in {"beginning", "scope", "stats", "clusters", "host scope", "host stats", "reported"}
        /\ asked \in Nat /\ DOMAIN stats \subseteq Resources
    BY <1>3 DEF Answers
  <2>3. {rows, clusters} \subseteq Seq(Resources)
    BY <1>3 DEF Searches, Clusters
  <2>4. ASSUME NEW i \in DOMAIN candidates
        PROVE  candidates[i].host \in Resources
    <3>1. candidates \in Seq(CandidateSet)
      BY <1>3 DEF Hosting
    <3>2. candidates[i] \in CandidateSet
      <4> HIDE DEF CandidateSet
      <4> QED
        BY <3>1
    <3> QED
      BY <3>2 DEF CandidateSet
  <2>5. stage = "reported" <=> report # <<>>
    BY <1>3, NoDomain DEF Answers
  <2> QED
    BY <2>1, <2>2, <2>3, <2>4, <2>5 DEF ToolTypeOK
<1> QED
  BY <1>1, <1>2, <1>3, PTL DEF ToolSpec

-----------------------------------------------------------------------------
(* The clusters in scope.                                                    *)

\* While the inventory does not change, it is the one of the case.
AsGiven == changes = 0 => order = given.order /\ ~shrunk

\* The datacenters of the location.
Site == {r \in ToSet(given.order) : /\ Kind[r] = "Datacenter"
                                    /\ PartsOf[NameOf[r]] \cap ToSet(Sites[request.location]) # {}}

\* What has been found of the scope so far.
Locating ==
  stage \in {"beginning", "scope"} =>
    /\ kind = request.kind
    /\ request.location = NoLocation =>
         /\ pc \in {"start", "listing", "done"} /\ roots = <<>>
         /\ changes = 0 /\ ~failed /\ pc \in {"listing", "done"} => Len(out) <= Len(OfKind)
    /\ request.location # NoLocation =>
         /\ pc # "listing"
         /\ pc = "searching" => request.location \in DOMAIN Sites
         /\ changes = 0 /\ ~failed =>
              /\ pc = "searching" =>
                   \A name \in ToSet(Sites[request.location]) :
                     name \in ToSet(names) \/ ToSet(Matches(name)) \subseteq ToSet(roots)
              /\ pc \in {"walking", "fetching", "done"} => Site \subseteq ToSet(roots)

LEMMA InitLocating ==
  ASSUME ToolInit
  PROVE  AsGiven /\ Locating
BY DEF ToolInit, Init, AsGiven, Locating, request

LEMMA ToolAsGiven ==
  ASSUME Searches, AsGiven, [ToolNext]_toolVars
  PROVE  AsGiven'
<1>1. CASE InventoryChanges
  <2>1. changes' # 0
    BY <1>1, InventoryWalk DEF InventoryChanges, Searches, Scope, Inventories
  <2> QED
    BY <2>1 DEF AsGiven
<1>2. CASE Scoping
  BY <1>2, QueryInventory DEF Scoping, inventory, AsGiven
<1>3. CASE \/ BeginTool \/ ReportUnknown \/ Attach \/ FetchStats \/ ReportQuery \/ ReportCapacity
           \/ ReportOversized \/ BeginHosts \/ NextCluster \/ EvaluateHosts \/ Recommend
           \/ UNCHANGED toolVars
  <2>1. UNCHANGED inventory /\ given' = given
    BY <1>3 DEF BeginTool, ReportUnknown, Attach, FetchStats, ReportQuery, ReportCapacity,
                ReportOversized, BeginHosts, NextCluster, EvaluateHosts, Recommend, Reports,
                toolVars, scope, vars
  <2> QED
    BY <2>1 DEF inventory, AsGiven
<1> QED
  BY <1>1, <1>2, <1>3, Zenon DEF ToolNext, Tool

LEMMA ElementsType ==
  ASSUME NEW S, NEW list \in Seq(S)
  PROVE  ToSet(list) \subseteq S
<1>1. \A i \in DOMAIN list : list[i] \in S
  OBVIOUS
<1> QED
  BY <1>1, Zenon DEF ToSet

(* A list of fewer elements.                                                 *)
LEMMA AmongLess ==
  ASSUME NEW S, NEW list \in Seq(S), NEW T, NEW U, T \subseteq U
  PROVE  Len(Among(list, T)) <= Len(Among(list, U))
<1> DEFINE P == {i \in DOMAIN list : list[i] \in T}
           Q == {i \in DOMAIN list : list[i] \in U}
<1>1. P \subseteq Q /\ Q \subseteq DOMAIN list
  OBVIOUS
<1>2. Len(Among(list, T)) = Cardinality(P) /\ Len(Among(list, U)) = Cardinality(Q)
  <2>1. Among(list, T) = At(list, P) /\ Among(list, U) = At(list, Q)
    BY DEF Among
  <2> HIDE DEF P, Q
  <2> QED
    BY <1>1, <2>1, AtElements
<1>3. IsFiniteSet(Q)
  <2>1. Len(list) \in Int /\ DOMAIN list = 1 .. Len(list) /\ 1 \in Int
    OBVIOUS
  <2>2. IsFiniteSet(DOMAIN list)
    BY <2>1, FS_Interval
  <2> HIDE DEF P, Q
  <2>3. Q \subseteq DOMAIN list
    BY <1>1
  <2> QED
    BY <2>2, <2>3, FS_Subset
<1> HIDE DEF P, Q
<1> QED
  BY <1>1, <1>2, <1>3, FS_Subset

(* The first page of a search has all matches.                               *)
LEMMA AllMatches ==
  ASSUME Uncut, Inventories, order = given.order, NEW name
  PROVE  FirstMatches(name) \in Seq(Resources) /\ ToSet(FirstMatches(name)) = ToSet(Matches(name))
<1> DEFINE centers == {r \in Resources : Kind[r] = "Datacenter"}
           named == {r \in Resources : Kind[r] = "Datacenter" /\ name \in PartsOf[NameOf[r]]}
           list == Matches(name)
<1>1. order \in Seq(Resources) /\ given \in Cases
  BY DEF Inventories
<1>2. list = Among(order, named) /\ named \subseteq centers
  BY DEF Matches
<1>3. Len(Among(order, centers)) <= SearchSize
  BY <1>1 DEF Uncut
<1> HIDE DEF centers, named, list
<1>4. list \in Seq(Resources) /\ Len(list) <= Len(Among(order, centers))
  BY <1>1, <1>2, AmongElements, AmongLess
<1>5. /\ SearchSize \in Nat \ {0} /\ Len(list) \in Nat /\ Len(Among(order, centers)) \in Nat
      /\ DOMAIN list = 1 .. Len(list)
  <2>1. Among(order, centers) \in Seq(Resources)
    BY <1>1, AmongElements
  <2> QED
    BY <1>4, <2>1, SizesAssumption
<1>6. 0 * SearchSize + 1 = 1 /\ (0 + 1) * SearchSize = SearchSize
  BY <1>5
<1>7. Smaller(SearchSize, Len(list)) = Len(list)
  <2>1. \A l, n, s \in Nat : l <= n /\ n <= s => ~(s < l) \/ s = l
    OBVIOUS
  <2>2. ~(SearchSize < Len(list)) \/ SearchSize = Len(list)
    <3>1. SearchSize \in Nat
      BY SizesAssumption
    <3> QED
      BY <1>3, <1>4, <1>5, <2>1, <3>1
  <2> QED
    BY <2>2, Zenon DEF Smaller
<1>8. /\ Page(list, SearchSize, 0) \in Seq(Resources)
      /\ ToSet(Page(list, SearchSize, 0))
           = Between(list, 0 * SearchSize + 1, Smaller((0 + 1) * SearchSize, Len(list)))
  <2>1. 0 \in Nat
    OBVIOUS
  <2> QED
    BY <1>4, <1>5, <2>1, PageElements
<1>9. Between(list, 1, Len(list)) = ToSet(list)
  BY <1>5 DEF Between, ToSet
<1>10. FirstMatches(name) = Page(list, SearchSize, 0)
  BY DEF FirstMatches, list
<1> QED
  BY <1>6, <1>7, <1>8, <1>9, <1>10 DEF list

(* What a location's search should find is found once it has been through    *)
(* the names.                                                                *)
LEMMA SiteMatched ==
  ASSUME Inventories, order = given.order,
         \A name \in ToSet(Sites[request.location]) : ToSet(Matches(name)) \subseteq ToSet(roots)
  PROVE  Site \subseteq ToSet(roots)
<1> SUFFICES ASSUME NEW r \in Site
             PROVE  r \in ToSet(roots)
  OBVIOUS
<1>1. r \in ToSet(order) /\ Kind[r] = "Datacenter"
  BY DEF Site
<1>2. PICK name \in ToSet(Sites[request.location]) : name \in PartsOf[NameOf[r]]
  BY DEF Site
<1>3. order \in Seq(Resources)
  BY DEF Inventories
<1>4. r \in Resources
  BY <1>1, <1>3, ElementsType
<1>5. r \in ToSet(Matches(name))
  BY <1>1, <1>2, <1>3, <1>4, AmongElements DEF Matches
<1> QED
  BY <1>2, <1>5

LEMMA ListPageLocating ==
  ASSUME Walking, Inventories, Fresh, Listing, AsGiven, Locating,
         stage \in {"beginning", "scope"}, UNCHANGED stage, ListPage
  PROVE  Locating'
<1>1. /\ pc = "listing" /\ out' = out \o Batch(OfKind, page) /\ pc' \in {"done", "listing"}
      /\ UNCHANGED <<order, changes, given, kind, roots, failed>>
  BY DEF ListPage, inventory
<1>2. /\ kind = request.kind /\ request.location = NoLocation /\ roots = <<>>
      /\ request' = request /\ OfKind' = OfKind
  BY <1>1 DEF Locating, OfKind, request
<1>3. ASSUME changes = 0, ~failed
      PROVE  Len(out') <= Len(OfKind)
  <2> DEFINE l == Len(OfKind)
             n == page * PageSize
  <2>1. Len(out) = n /\ Len(out) <= l
    BY <1>1, <1>2, <1>3 DEF Listing, AsGiven, Locating
  <2>2. OfKind \in Seq(Resources) /\ page \in Nat /\ PageSize \in Nat \ {0} /\ out \in Seq(Resources)
    BY OfKindType, SizesAssumption DEF Walking
  <2>3. /\ Batch(OfKind, page) \in Seq(Resources)
        /\ Len(Batch(OfKind, page)) = IF l <= n THEN 0 ELSE Smaller((page + 1) * PageSize, l) - n
    BY <2>2, PageElements DEF Batch
  <2>4. l \in Nat /\ n \in Nat /\ (page + 1) * PageSize \in Nat
    BY <2>2
  <2>5. Len(out') = Len(out) + Len(Batch(OfKind, page))
    <3>1. \A a, b \in Seq(Resources) : Len(a \o b) = Len(a) + Len(b)
      OBVIOUS
    <3> QED
      BY <1>1, <2>2, <2>3, <3>1, Zenon
  <2> HIDE DEF l, n
  <2>6. Smaller((page + 1) * PageSize, l) <= l /\ Smaller((page + 1) * PageSize, l) \in Nat
    BY <2>4 DEF Smaller
  <2>7. Len(out') <= l
    BY <2>1, <2>3, <2>4, <2>5, <2>6
  <2> QED
    BY <2>7 DEF l
<1> QED
  BY <1>1, <1>2, <1>3 DEF Locating

LEMMA SearchLocating ==
  ASSUME Walking, Inventories, AsGiven, Locating, Uncut,
         stage \in {"beginning", "scope"}, UNCHANGED stage, Search
  PROVE  Locating'
<1>1. /\ pc = "searching" /\ pc' = pc /\ names # <<>> /\ names' = Tail(names)
      /\ roots' = roots \o FirstMatches(Head(names)) \/ failed'
      /\ failed => failed'
      /\ UNCHANGED <<order, changes, given, kind, out>>
  BY DEF Search, inventory, Walking
<1>2. request' = request /\ request.location # NoLocation
  BY <1>1 DEF Locating, request
<1>3. ASSUME changes = 0, ~failed',
             NEW name \in ToSet(Sites[request.location])
      PROVE  name \in ToSet(names') \/ ToSet(Matches(name)) \subseteq ToSet(roots')
  <2>1. ~failed /\ roots' = roots \o FirstMatches(Head(names)) /\ order = given.order
    BY <1>1, <1>3 DEF AsGiven
  <2>2. /\ FirstMatches(Head(names)) \in Seq(Resources)
        /\ ToSet(FirstMatches(Head(names))) = ToSet(Matches(Head(names)))
    BY <2>1, AllMatches
  <2>3. ToSet(roots') = ToSet(roots) \cup ToSet(Matches(Head(names)))
    <3>1. roots \in Seq(Resources)
      BY DEF Walking
    <3>2. ToSet(roots \o FirstMatches(Head(names))) = ToSet(roots) \cup ToSet(FirstMatches(Head(names)))
      BY <2>2, <3>1, ConcatElements
    <3> QED
      BY <2>1, <2>2, <3>2, Zenon
  <2>4. ToSet(names) = {Head(names)} \cup ToSet(names')
    BY <1>1, TailElements DEF Walking
  <2>5. name \in ToSet(names) \/ ToSet(Matches(name)) \subseteq ToSet(roots)
    BY <1>1, <1>2, <1>3, <2>1 DEF Locating
  <2> QED
    BY <2>3, <2>4, <2>5
<1>4. \A name : ToSet(Matches(name))' = ToSet(Matches(name))
  BY <1>1 DEF Matches
<1>5. changes = 0 /\ ~failed' =>
        (\A name \in ToSet(Sites[request.location]) :
           name \in ToSet(names) \/ ToSet(Matches(name)) \subseteq ToSet(roots))'
  BY <1>2, <1>3, <1>4
<1> QED
  BY <1>1, <1>2, <1>5 DEF Locating

LEMMA BeginWalkLocating ==
  ASSUME Walking, Inventories, AsGiven, Locating,
         stage \in {"beginning", "scope"}, UNCHANGED stage, BeginWalk
  PROVE  Locating'
<1>1. /\ pc = "searching" /\ names = <<>> /\ pc' \in {"done", "walking"}
      /\ UNCHANGED <<order, changes, given, kind, roots, out, failed>>
  BY DEF BeginWalk, inventory
<1>2. request' = request /\ request.location # NoLocation /\ Site' = Site
  BY <1>1 DEF Locating, request, Site
<1>3. ASSUME changes = 0, ~failed
      PROVE  Site \subseteq ToSet(roots)
  <2>1. \A name \in ToSet(Sites[request.location]) : ToSet(Matches(name)) \subseteq ToSet(roots)
    BY <1>1, <1>2, <1>3, EmptyElements DEF Locating
  <2> QED
    BY <1>3, <2>1, SiteMatched DEF AsGiven
<1> QED
  BY <1>1, <1>2, <1>3 DEF Locating

LEMMA ScopingLocating ==
  ASSUME Searches, AsGiven, Locating, Uncut, Scoping
  PROVE  Locating'
<1>1. Walking /\ Inventories /\ Fresh /\ Listing /\ UNCHANGED stage /\ Query
  BY DEF Searches, Scope, Scoping
<1>2. CASE stage = "host scope"
  BY <1>1, <1>2 DEF Locating
<1>3. CASE stage = "scope"
  <2>1. CASE Resolve
    <3>1. /\ pc = "start"
          /\ UNCHANGED <<order, changes, given, kind, roots, out, failed>>
          /\ IF request.location = NoLocation
             THEN pc' = "listing"
             ELSE IF request.location \in DOMAIN Sites
             THEN pc' = "searching" /\ names' = Sites[request.location]
             ELSE pc' = "unknown location"
      BY <2>1 DEF Resolve, inventory
    <3>2. request' = request /\ roots = <<>> /\ out = <<>> /\ kind = request.kind
      BY <1>1, <1>3, <3>1 DEF Fresh, Locating, request
    <3>3. Len(out') = 0 /\ Len(OfKind') \in Nat
      <4>1. OfKind' = OfKind /\ OfKind \in Seq(Resources)
        BY <1>1, <3>1, OfKindType DEF OfKind
      <4>2. Len(OfKind') \in Nat
        BY <4>1
      <4>3. Len(<<>>) = 0 /\ out' = <<>>
        BY <3>1, <3>2
      <4> QED
        BY <4>2, <4>3, Zenon
    <3>4. CASE request.location = NoLocation
      BY <3>1, <3>2, <3>3, <3>4 DEF Locating
    <3>5. CASE request.location # NoLocation
      BY <3>1, <3>2, <3>5 DEF Locating
    <3> QED
      BY <3>4, <3>5
  <2>2. CASE ListPage
    BY <1>1, <1>3, <2>2, ListPageLocating
  <2>3. CASE ListFails
    <3>1. /\ pc = "listing" /\ pc' = "done" /\ failed' = TRUE
          /\ UNCHANGED <<given, kind, roots>>
      BY <2>3 DEF ListFails
    <3> QED
      BY <1>3, <3>1 DEF Locating, request
  <2>4. CASE Search
    BY <1>1, <1>3, <2>4, SearchLocating
  <2>5. CASE BeginWalk
    BY <1>1, <1>3, <2>5, BeginWalkLocating
  <2>6. CASE SkipVisited \/ Expand \/ FetchPage \/ FetchFails \/ NextLevel
    <3>1. /\ UNCHANGED <<order, changes, given, kind, roots>>
          /\ pc \in {"walking", "fetching"} /\ pc' \in {"walking", "fetching", "done"}
          /\ failed' = failed \/ failed'
      BY <2>6 DEF SkipVisited, Expand, FetchPage, Collect, FetchFails, NextLevel, inventory, walk
    <3>2. request' = request /\ Site' = Site
      BY <3>1 DEF request, Site
    <3> QED
      BY <1>3, <3>1, <3>2 DEF Locating
  <2> QED
    BY <1>1, <2>1, <2>2, <2>3, <2>4, <2>5, <2>6 DEF Query
<1> QED
  BY <1>2, <1>3 DEF Scoping

LEMMA ToolLocating ==
  ASSUME Searches, AsGiven, Locating, Uncut, [ToolNext]_toolVars
  PROVE  Locating'
<1>1. CASE Scoping
  BY <1>1, ScopingLocating
<1>2. CASE InventoryChanges
  <2>1. UNCHANGED <<given, kind, pc, names, roots, out, failed, stage>> /\ changes' # 0
    BY <1>2, InventoryWalk DEF InventoryChanges, Searches, Scope, Inventories
  <2> QED
    BY <2>1 DEF Locating, request
<1>3. CASE BeginTool \/ UNCHANGED toolVars
  <2>1. /\ UNCHANGED <<order, changes, given, kind, pc, names, roots, out, failed>>
        /\ stage' \in {"beginning", "scope"} => stage \in {"beginning", "scope"}
    BY <1>3 DEF BeginTool, Reports, toolVars, scope, vars, inventory
  <2>2. request' = request /\ OfKind' = OfKind /\ Site' = Site
        /\ \A name : ToSet(Matches(name))' = ToSet(Matches(name))
    BY <2>1 DEF request, OfKind, Site, Matches
  <2> QED
    BY <2>1, <2>2 DEF Locating
<1>4. CASE FetchStats
  <2>1. stage' \notin {"beginning", "scope"}
    BY <1>4 DEF FetchStats
  <2> QED
    BY <2>1 DEF Locating
<1>5. CASE \/ ReportUnknown \/ Attach \/ ReportQuery \/ ReportCapacity \/ ReportOversized
           \/ BeginHosts \/ NextCluster \/ EvaluateHosts \/ Recommend
  <2>1. stage' \notin {"beginning", "scope"}
    BY <1>5 DEF ReportUnknown, Attach, ReportQuery, ReportCapacity, ReportOversized, BeginHosts,
                NextCluster, EvaluateHosts, Recommend, Reports
  <2> QED
    BY <2>1 DEF Locating
<1> QED
  BY <1>1, <1>2, <1>3, <1>4, <1>5, Zenon DEF ToolNext, Tool

(* More is beneath more.                                                     *)
LEMMA BeneathGrows ==
  ASSUME NEW some, NEW all, NEW sought, some \subseteq all
  PROVE  Beneath(some, sought) \subseteq Beneath(all, sought)
<1> DEFINE within(d) == Searched(some, sought)[d] \subseteq Searched(all, sought)[d]
           T == {n \in Nat : n \in 0 .. MaxDepth - 1 => within(n)}
<1>1. /\ within(0)
      /\ \A d \in 0 .. MaxDepth - 2 : within(d) => within(d + 1)
  BY SearchedSteps DEF ChildrenOf
<1> HIDE DEF within
<1>2. 0 \in T
  BY <1>1
<1>3. \A n \in Nat : n \in T => n + 1 \in T
  BY <1>1, DepthAssumption
<1>4. Nat \subseteq T
  <2> HIDE DEF T
  <2> QED
    BY <1>2, <1>3, AllNaturals
<1>5. within(MaxDepth - 1)
  <2>1. MaxDepth - 1 \in Nat /\ MaxDepth - 1 \in 0 .. MaxDepth - 1
    BY DepthAssumption
  <2> QED
    BY <1>4, <2>1
<1> QED
  BY <1>5 DEF within, Beneath, ChildrenOf

-----------------------------------------------------------------------------
(* What a host that fits would have left.                                    *)

\* What of its CPU, and of its memory, a host would have left.
CpuShare(r) == LET s == given.stats[r]
               IN  <<(100 - s["cpu usage"]) * s["cores"] - 100 * request.vm.vcpu, s["cores"]>>

MemShare(r) == LET s == given.stats[r]
               IN  <<(100 - s["mem usage"]) * MemTotal(s) - 100 * request.vm.gb, MemTotal(s)>>

LEMMA HostLeft ==
  ASSUME given \in Cases, NEW r \in Resources, Fits(r),
         request.vm.vcpu \in Nat \ {0}, request.vm.gb \in Nat \ {0}
  PROVE  /\ Measured(given.stats[r])
         /\ MemTotal(given.stats[r]) \in Nat /\ MemTotal(given.stats[r]) > 0
         /\ Left(r) = {MemShare(r)} \cup {l \in {CpuShare(r)} : given.stats[r]["mhz"] > 0}
<1> DEFINE s == given.stats[r]
           vm == request.vm
           cpu == <<(100 - s["cpu usage"]) * s["cores"] - 100 * vm.vcpu, s["cores"]>>
           mem == <<(100 - s["mem usage"]) * MemTotal(s) - 100 * vm.gb, MemTotal(s)>>
<1>1. /\ {"mhz", "cores", "cpu usage", "mem usage"} \subseteq DOMAIN s
      /\ {"host mem", "cluster mem"} \cap DOMAIN s # {}
      /\ s["cores"] > 0
      /\ 100 * vm.gb <= MemTotal(s) * (100 - s["mem usage"])
  BY DEF Fits
<1>2. Measured(s)
  BY StatsAssumption DEF Fits, Measured
<1>3. vm.vcpu \in Int /\ vm.gb \in Int
  BY SizesWhole, Zenon
<1>4. /\ MemLeft(s, vm) # Nothing
      /\ MemTotal(s) \in Nat /\ s["mem usage"] \in Int
  BY <1>1, <1>2, <1>3, MemLeftKnown
<1>5. MemTotal(s) > 0
  <2>1. ASSUME NEW t \in Nat, NEW g \in Nat \ {0}, NEW u \in Int, 100 * g <= t * (100 - u)
        PROVE  t > 0
    <3>1. t = 0 => t * (100 - u) = 0
      OBVIOUS
    <3> QED
      BY <2>1, <3>1
  <2> HIDE DEF s, vm
  <2> QED
    BY <1>1, <1>3, <1>4, <2>1 DEF vm
<1>6. Left(r) = {mem} \cup {l \in {cpu} : s["mhz"] > 0}
  <2> DEFINE c == <<100 - s["cpu usage"], 100 * vm.vcpu, s["cores"], s["mhz"]>>
             m == <<100 - s["mem usage"], 100 * vm.gb, MemTotal(s), MemTotal(s)>>
             left(l) == <<l[1] * l[3] - l[2], l[3]>>
  <2>1. c[4] = s["mhz"] /\ left(c) = cpu
    OBVIOUS
  <2>2. m[4] = MemTotal(s) /\ left(m) = mem
    OBVIOUS
  <2>3. SharesLeft(r) = {l \in {c, m} : l[4] > 0}
    BY DEF SharesLeft
  <2>4. Left(r) = {left(l) : l \in SharesLeft(r)}
    BY DEF Left
  <2> HIDE DEF c, m, left, s, vm, cpu, mem
  <2> QED
    BY <1>5, <2>1, <2>2, <2>3, <2>4
<1> QED
  BY <1>2, <1>4, <1>5, <1>6 DEF CpuShare, MemShare

(* A host that fits has no less than nothing left.                           *)
LEMMA FitLeft ==
  ASSUME given \in Cases, NEW r \in Resources, Fits(r),
         request.vm.vcpu \in Nat \ {0}, request.vm.gb \in Nat \ {0}
  PROVE  \A g \in Left(r) : g[1] >= 0
<1> DEFINE s == given.stats[r]
           vm == request.vm
<1>1. vm.vcpu \in Int /\ vm.gb \in Int
  BY SizesWhole, Zenon
<1>2. /\ Measured(s) /\ MemTotal(s) \in Nat
      /\ Left(r) = {MemShare(r)} \cup {l \in {CpuShare(r)} : s["mhz"] > 0}
  BY HostLeft
<1>3. /\ {"mhz", "cores", "cpu usage", "mem usage"} \subseteq DOMAIN s
      /\ 100 * vm.vcpu * s["mhz"] <= s["cores"] * s["mhz"] * (100 - s["cpu usage"])
      /\ 100 * vm.gb <= MemTotal(s) * (100 - s["mem usage"])
  BY DEF Fits
<1>4. \A k \in {"mhz", "cores", "cpu usage", "mem usage"} : s[k] \in Int
  BY <1>2, <1>3 DEF Measured
<1>5. MemShare(r)[1] = (100 - s["mem usage"]) * MemTotal(s) - 100 * vm.gb
  BY DEF MemShare
<1>6. CpuShare(r)[1] = (100 - s["cpu usage"]) * s["cores"] - 100 * vm.vcpu
  BY DEF CpuShare
<1>7. \A t \in Nat, u, g \in Int : 100 * g <= t * (100 - u) => (100 - u) * t - 100 * g >= 0
  OBVIOUS
<1>8. ASSUME NEW m \in Nat \ {0}, NEW c \in Int, NEW u \in Int, NEW v \in Int,
             100 * v * m <= c * m * (100 - u)
      PROVE  (100 - u) * c - 100 * v >= 0
  <2> DEFINE x == (100 - u) * c - 100 * v
  <2>1. x \in Int /\ 0 * m <= x * m
    BY <1>8
  <2> HIDE DEF x
  <2>2. 0 <= x
    BY <2>1, Cancels
  <2> QED
    BY <2>1, <2>2 DEF x
<1>9. MemShare(r)[1] >= 0
  <2>1. s["mem usage"] \in Int /\ MemTotal(s) \in Nat
    BY <1>2, <1>4
  <2>2. PICK t, u, g : t = MemTotal(s) /\ u = s["mem usage"] /\ g = vm.gb
    OBVIOUS
  <2>3. (100 - u) * t - 100 * g >= 0
    <3>1. t \in Nat /\ u \in Int /\ g \in Int /\ 100 * g <= t * (100 - u)
      BY <1>1, <1>3, <2>1, <2>2, Zenon
    <3> HIDE DEF s, vm
    <3> QED
      BY <1>7, <3>1
  <2> QED
    BY <1>5, <2>2, <2>3, Zenon
<1>10. s["mhz"] > 0 => CpuShare(r)[1] >= 0
  <2> SUFFICES ASSUME s["mhz"] > 0
               PROVE  CpuShare(r)[1] >= 0
    OBVIOUS
  <2>1. PICK m, c, u, v : m = s["mhz"] /\ c = s["cores"] /\ u = s["cpu usage"] /\ v = vm.vcpu
    OBVIOUS
  <2>2. m \in Int /\ c \in Int /\ u \in Int /\ v \in Int
    BY <1>1, <1>4, <2>1
  <2>3. m > 0 /\ 100 * v * m <= c * m * (100 - u)
    BY <1>3, <2>1, Zenon
  <2>4. (100 - u) * c - 100 * v >= 0
    <3>1. m \in Nat \ {0}
      <4> HIDE DEF s, vm
      <4> QED
        BY <2>2, <2>3
    <3> HIDE DEF s, vm
    <3> QED
      BY <1>8, <2>2, <2>3, <3>1
  <2> QED
    BY <1>6, <2>1, <2>4, Zenon
<1> QED
  BY <1>2, <1>9, <1>10

(* A host with something to spare has more of both than the VM needs.        *)
LEMMA SpareHas ==
  ASSUME given \in Cases, NEW r \in Resources, Fits(r), Spare(r),
         request.vm.vcpu \in Nat \ {0}, request.vm.gb \in Nat \ {0}
  PROVE  SpareCpu(given.stats[r], request.vm) /\ SpareMem(given.stats[r], request.vm)
<1> DEFINE s == given.stats[r]
           vm == request.vm
<1>1. HasCpu(s, vm) /\ HasMem(s, vm)
  BY DEF Fits, HasCpu, HasMem
<1>2. /\ Measured(s)
      /\ MemShare(r)[1] > 0
      /\ s["mhz"] > 0 => CpuShare(r)[1] > 0
  BY HostLeft DEF Spare
<1>3. s["mhz"] \in Int /\ s["mhz"] >= 0
  BY <1>1, <1>2 DEF Measured, HasCpu
<1>4. s["mhz"] = 0 \/ s["mhz"] > 0
  BY <1>3
<1> QED
  BY <1>1, <1>2, <1>4 DEF SpareCpu, SpareMem, CpuShare, MemShare

LEMMA HostHead ==
  ASSUME given \in Cases, NEW r \in Resources, Fits(r),
         request.vm.vcpu \in Nat \ {0}, request.vm.gb \in Nat \ {0}
  PROVE  LET head == HeadLeft(given.stats[r], request.vm)
         IN  /\ head \in Int
             /\ \A g \in Left(r) : g[1] \in Int /\ g[2] \in Nat \ {0}
             /\ \E f \in Left(r) : head = Tenths(f[1], f[2])
             /\ \A g \in Left(r) : head <= Tenths(g[1], g[2])
<1> DEFINE s == given.stats[r]
           vm == request.vm
           cpu == <<(100 - s["cpu usage"]) * s["cores"] - 100 * vm.vcpu, s["cores"]>>
           mem == <<(100 - s["mem usage"]) * MemTotal(s) - 100 * vm.gb, MemTotal(s)>>
           cpuHead == CpuHead(s, vm)
           memHead == MemHead(s, vm)
<1>1. /\ {"mhz", "cores", "cpu usage", "mem usage"} \subseteq DOMAIN s
      /\ {"host mem", "cluster mem"} \cap DOMAIN s # {}
      /\ s["cores"] > 0
      /\ 100 * vm.gb <= MemTotal(s) * (100 - s["mem usage"])
  BY DEF Fits
<1>2. Measured(s)
  BY StatsAssumption DEF Fits, Measured
<1>3. vm.vcpu \in Int /\ vm.gb \in Int
  BY SizesWhole, Zenon
<1>4. /\ MemLeft(s, vm) # Nothing
      /\ MemTotal(s) \in Nat /\ s["mem usage"] \in Int
  BY <1>1, <1>2, <1>3, MemLeftKnown
<1>5. MemTotal(s) > 0
  BY HostLeft
<1>6. /\ memHead \in Heads /\ memHead # Nothing /\ memHead = Tenths(mem[1], mem[2])
      /\ mem[1] \in Int /\ mem[2] \in Nat \ {0}
  <2> HIDE DEF s, vm
  <2>1. /\ MemHead(s, vm) \in Heads
        /\ MemHead(s, vm) # Nothing <=>
             /\ "mem usage" \in DOMAIN s /\ {"host mem", "cluster mem"} \cap DOMAIN s # {}
             /\ MemTotal(s) > 0
        /\ MemHead(s, vm) # Nothing =>
             /\ MemTotal(s) \in Nat \ {0} /\ (100 - s["mem usage"]) * MemTotal(s) - 100 * vm.gb \in Int
             /\ MemHead(s, vm) =
                  Tenths((100 - s["mem usage"]) * MemTotal(s) - 100 * vm.gb, MemTotal(s))
    BY <1>2, <1>3, MemHeadKnown, Zenon
  <2>2. MemHead(s, vm) # Nothing
    BY <1>1, <1>5, <2>1
  <2> QED
    BY <2>1, <2>2, Zenon
<1>7. /\ cpuHead \in Heads
      /\ cpuHead # Nothing <=> s["mhz"] # 0
      /\ cpuHead # Nothing => /\ cpuHead = Tenths(cpu[1], cpu[2])
                              /\ cpu[1] \in Int /\ cpu[2] \in Nat \ {0}
  <2> HIDE DEF s, vm
  <2>1. /\ CpuHead(s, vm) \in Heads
        /\ CpuHead(s, vm) # Nothing <=>
             /\ {"mhz", "cores", "cpu usage"} \subseteq DOMAIN s
             /\ s["cores"] > 0 /\ s["mhz"] # 0
        /\ CpuHead(s, vm) # Nothing =>
             /\ s["cores"] \in Nat \ {0} /\ (100 - s["cpu usage"]) * s["cores"] - 100 * vm.vcpu \in Int
             /\ CpuHead(s, vm) =
                  Tenths((100 - s["cpu usage"]) * s["cores"] - 100 * vm.vcpu, s["cores"])
    BY <1>2, <1>3, CpuHeadKnown, Zenon
  <2>2. CpuHead(s, vm) # Nothing <=> s["mhz"] # 0
    BY <1>1, <2>1
  <2> QED
    BY <2>1, <2>2, Zenon
<1>8. s["mhz"] > 0 <=> s["mhz"] # 0
  <2>1. "mhz" \in DOMAIN s
    BY <1>1
  <2>2. s["mhz"] \in Int /\ s["mhz"] >= 0
    BY <1>2, <2>1, Zenon DEF Measured
  <2> QED
    BY <2>2
<1>9. Left(r) = {mem} \cup {l \in {cpu} : s["mhz"] > 0}
  BY HostLeft DEF CpuShare, MemShare
<1>10. HeadLeft(s, vm) = LeastOf({cpuHead, memHead})
  BY DEF HeadLeft
<1> HIDE DEF s, vm, cpu, mem, cpuHead, memHead
<1>11. /\ LeastOf({cpuHead, memHead}) \in {cpuHead, memHead} \cap Int
       /\ LeastOf({cpuHead, memHead}) <= memHead
       /\ cpuHead # Nothing => LeastOf({cpuHead, memHead}) <= cpuHead
  <2>1. cpuHead \in Heads /\ memHead \in Heads /\ {cpuHead, memHead} = {cpuHead, memHead, memHead}
    BY <1>6, <1>7 DEF Heads
  <2>2. /\ LeastOf({cpuHead, memHead}) = Nothing <=> {cpuHead, memHead} \subseteq {Nothing}
        /\ LeastOf({cpuHead, memHead}) # Nothing =>
             /\ LeastOf({cpuHead, memHead}) \in {cpuHead, memHead}
             /\ \A v \in {cpuHead, memHead} : v # Nothing => LeastOf({cpuHead, memHead}) <= v
    BY <2>1, LeastOfThree
  <2>3. LeastOf({cpuHead, memHead}) \in Heads
    BY <2>1, LeastOfThree
  <2> QED
    BY <1>6, <1>7, <2>2, <2>3 DEF Heads
<1> QED
  BY <1>6, <1>7, <1>8, <1>9, <1>10, <1>11, NothingAssumption DEF s, vm

(* Hosts ranked by what they would have left are ranked truly, up to         *)
(* rounding.                                                                 *)
LEMMA HeadsOrder ==
  ASSUME given \in Cases, request.vm.vcpu \in Nat \ {0}, request.vm.gb \in Nat \ {0},
         NEW r \in Resources, Fits(r), NEW q \in Resources, Fits(q),
         ~Higher(HeadLeft(given.stats[r], request.vm), HeadLeft(given.stats[q], request.vm))
  PROVE  ~LeastExceeds(Left(r), Left(q), 10)
<1> SUFFICES ASSUME NEW g \in Left(q), \A f \in Left(r) : Exceeds(f, g, 10)
             PROVE  FALSE
  BY DEF LeastExceeds
<1> DEFINE high == HeadLeft(given.stats[r], request.vm)
           low  == HeadLeft(given.stats[q], request.vm)
<1>1. /\ high \in Int /\ \A f \in Left(r) : f[1] \in Int /\ f[2] \in Nat \ {0}
      /\ \E f \in Left(r) : high = Tenths(f[1], f[2])
  BY HostHead
<1>2. low \in Int /\ g[1] \in Int /\ g[2] \in Nat \ {0} /\ low <= Tenths(g[1], g[2])
  BY HostHead
<1>3. ~(high > low)
  <2>1. \A x \in Int : x # Nothing
    BY NothingAssumption
  <2> QED
    BY <1>1, <1>2, <2>1 DEF Higher
<1>4. PICK f \in Left(r) : high = Tenths(f[1], f[2])
  BY <1>1
<1>5. f[1] \in Int /\ f[2] \in Nat \ {0} /\ 10 * (f[1] * g[2] - g[1] * f[2]) > f[2] * g[2]
  BY <1>1 DEF Exceeds
<1>6. Tenths(f[1], f[2]) > Tenths(g[1], g[2])
  BY <1>2, <1>5, TenthsOrder
<1>7. Tenths(g[1], g[2]) \in Int
  <2>1. \A n \in Int, d \in Nat \ {0} : Tenths(n, d) \in Int
    BY DEF Tenths
  <2> QED
    BY <1>2, <2>1
<1> HIDE DEF high, low
<1> QED
  BY <1>1, <1>2, <1>3, <1>4, <1>6, <1>7

(* A host with nothing to spare has no more left than another one that fits. *)
LEMMA NoneLeft ==
  ASSUME given \in Cases, request.vm.vcpu \in Nat \ {0}, request.vm.gb \in Nat \ {0},
         NEW r \in Resources, Fits(r), ~Spare(r), NEW q \in Resources, Fits(q)
  PROVE  ~LeastExceeds(Left(r), Left(q), 10)
<1> SUFFICES ASSUME NEW g \in Left(q), \A f \in Left(r) : Exceeds(f, g, 10)
             PROVE  FALSE
  BY DEF LeastExceeds
<1>1. PICK f \in Left(r) : ~(f[1] > 0)
  BY DEF Spare
<1>2. f[1] \in Int /\ f[2] \in Nat \ {0}
  BY HostHead
<1>3. g[1] \in Int /\ g[2] \in Nat \ {0} /\ g[1] >= 0
  BY HostHead, FitLeft
<1>4. 10 * (f[1] * g[2] - g[1] * f[2]) > f[2] * g[2]
  BY DEF Exceeds
<1>5. \A a \in Int, b, d \in Nat \ {0}, c \in Nat :
        ~(a > 0) => ~(10 * (a * d - c * b) > b * d)
  <2> SUFFICES ASSUME NEW a \in Int, NEW b \in Nat \ {0}, NEW d \in Nat \ {0}, NEW c \in Nat,
                      ~(a > 0)
               PROVE  ~(10 * (a * d - c * b) > b * d)
    OBVIOUS
  <2>1. a * d <= 0 * d
    BY Scales
  <2>2. 0 * b <= c * b /\ 0 * d <= b * d
    BY Scales
  <2>3. a * d \in Int /\ c * b \in Int /\ b * d \in Int
    OBVIOUS
  <2> QED
    BY <2>1, <2>2, <2>3
<1>6. g[1] \in Nat
  BY <1>3
<1> QED
  BY <1>1, <1>2, <1>3, <1>4, <1>5, <1>6

-----------------------------------------------------------------------------
(* Every host that fits is a candidate.                                      *)

\* What a placement ranks a candidate by is what the statistics say.
Headed ==
  \A i \in DOMAIN candidates : candidates[i].blockers = {} =>
    candidates[i].head = HeadLeft(given.stats[candidates[i].host], request.vm)

\* The statistics asked for are there.
Fetched ==
  stage \in {"stats", "host stats"} /\ ~failed =>
    \A i \in DOMAIN Ids : i <= asked /\ Ids[i] \in DOMAIN given.stats => Ids[i] \in DOMAIN stats

\* The resources in scope are among the rows.
Scoped ==
  changes = 0 /\ ~failed =>
    /\ stage = "stats" => InScope(request.kind) \subseteq ToSet(rows)
    /\ stage = "host stats" => Beneath({Head(clusters)}, "HostSystem") \subseteq ToSet(rows)

\* A candidate for a host, which nothing blocks if the host has more than enough.
Considered(h) ==
  \E i \in DOMAIN candidates :
    candidates[i].host = h /\ (Fits(h) /\ Spare(h) => candidates[i].blockers = {})

\* The clusters in scope are gone through, or still to be.
Reached ==
  changes = 0 /\ ~failed /\ stage \in {"clusters", "host scope", "host stats"} =>
    \A c \in InScope(request.kind) :
      c \in ToSet(clusters) \/ \A h \in Beneath({c}, "HostSystem") : Considered(h)

LEMMA InitPlacement ==
  ASSUME ToolInit
  PROVE  Headed /\ Fetched /\ Scoped /\ Reached
<1>1. DOMAIN candidates = {} /\ stage = "beginning"
  BY NoDomain DEF ToolInit
<1> QED
  BY <1>1 DEF Headed, Fetched, Scoped, Reached

(* While the inventory does not change and no request fails, neither has     *)
(* happened before.                                                          *)
LEMMA ToolBefore ==
  ASSUME Searches, [ToolNext]_toolVars
  PROVE  /\ given' = given
         /\ changes' = 0 => changes = 0 /\ children' = children
         /\ ~failed' => ~failed
<1>1. CASE InventoryChanges
  <2>1. UNCHANGED <<given, failed>> /\ changes' # 0
    BY <1>1, InventoryWalk DEF InventoryChanges, Searches, Scope, Inventories
  <2> QED
    BY <2>1
<1>2. CASE Scoping
  <2>1. UNCHANGED <<inventory, given>>
    BY <1>2, QueryInventory DEF Scoping
  <2>2. ~failed' => ~failed
    BY <1>2 DEF Scoping, Query, Resolve, ListPage, ListFails, Search, BeginWalk, SkipVisited, Expand,
                FetchPage, FetchFails, NextLevel
  <2> QED
    BY <2>1, <2>2 DEF inventory
<1>3. CASE FetchStats
  <2>1. /\ UNCHANGED <<changes, children, given>>
        /\ failed' = failed \/ failed' = TRUE
    BY <1>3 DEF FetchStats, inventory
  <2> QED
    BY <2>1
<1>4. CASE NextCluster
  BY <1>4 DEF NextCluster, inventory
<1>5. CASE \/ BeginTool \/ ReportUnknown \/ Attach \/ ReportQuery \/ ReportCapacity
           \/ ReportOversized \/ BeginHosts \/ EvaluateHosts \/ Recommend \/ UNCHANGED toolVars
  <2>1. UNCHANGED scope
    BY <1>5 DEF BeginTool, ReportUnknown, Attach, ReportQuery, ReportCapacity, ReportOversized,
                BeginHosts, EvaluateHosts, Recommend, Reports, toolVars
  <2> QED
    BY <2>1 DEF scope, vars, inventory
<1> QED
  BY <1>1, <1>2, <1>3, <1>4, <1>5, Zenon DEF ToolNext, Tool

LEMMA SameInScope ==
  ASSUME UNCHANGED <<children, given>>
  PROVE  InScope(request.kind)' = InScope(request.kind)
<1>1. request' = request /\ given' = given
  BY DEF request
<1>2. Beneath(Site, request.kind)' = Beneath(Site, request.kind)
  <2>1. Site' = Site
    BY <1>1 DEF Site
  <2>2. PICK tops, sought : tops = Site /\ sought = request.kind
    OBVIOUS
  <2>3. tops = Site' /\ sought = request.kind'
    BY <1>1, <2>1, <2>2
  <2>4. Beneath(Site, request.kind)' = Beneath(tops, sought)'
    BY <2>3 DEF Beneath, Searched, ChildrenOf
  <2> QED
    BY <2>2, <2>4, SameBeneath
<1>3. InScope(request.kind) = IF request.location = NoLocation
                              THEN {r \in ToSet(given.order) : Kind[r] = request.kind}
                              ELSE Beneath(Site, request.kind)
  BY DEF InScope, Site
<1>4. InScope(request.kind)' = (IF request.location = NoLocation
                                THEN {r \in ToSet(given.order) : Kind[r] = request.kind}
                                ELSE Beneath(Site, request.kind))'
  BY DEF InScope, Site
<1> QED
  BY <1>1, <1>2, <1>3, <1>4

LEMMA SameFits ==
  ASSUME UNCHANGED given
  PROVE  \A r : Fits(r)' = Fits(r) /\ Spare(r)' = Spare(r)
BY DEF Fits, Spare, Left, SharesLeft, request

LEMMA ListDomain ==
  ASSUME NEW S, NEW list \in Seq(S)
  PROVE  DOMAIN list = 1 .. Len(list) /\ Len(list) \in Nat
OBVIOUS

LEMMA NotAbove == \A n, m \in Nat : \A k \in 1 .. n : m >= n => k <= m
OBVIOUS

(* Once all its statistics were asked for, a row has those that there are.   *)
LEMMA RowStats ==
  ASSUME Searches, Answers, Fetched, ~failed, NEW at \in {"stats", "host stats"}, Attached(at),
         NEW r \in ToSet(rows), r \in DOMAIN given.stats
  PROVE  StatsOf(r) = given.stats[r]
<1>1. rows \in Seq(Resources) /\ asked \in Nat
  BY DEF Searches, Clusters, Answers
<1>2. Ids \in Seq(Resources) /\ r \in ToSet(Ids)
  BY <1>1, IdsElements
<1>3. PICK i \in DOMAIN Ids : Ids[i] = r
  BY <1>2 DEF ToSet
<1>4. i <= asked
  <2>1. i \in 1 .. Len(Ids) /\ Len(Ids) \in Nat
    BY <1>2, <1>3, ListDomain
  <2>2. asked >= Len(Ids)
    BY DEF Attached
  <2> QED
    BY <1>1, <2>1, <2>2, NotAbove
<1>5. r \in DOMAIN stats
  BY <1>3, <1>4 DEF Fetched, Attached
<1> QED
  BY <1>5 DEF StatsOf, Answers

(* What is made of a host whose statistics are there.                        *)
LEMMA CandidateHeads ==
  ASSUME Searches, Answers, stage = "host stats", NEW r \in Resources, NEW granted
  PROVE  /\ Candidate(r, granted).blockers = {} =>
              Candidate(r, granted).head = HeadLeft(given.stats[r], request.vm)
         /\ Fits(r) /\ Spare(r) /\ StatsOf(r) = given.stats[r] => Candidate(r, granted).blockers = {}
<1> DEFINE s == StatsOf(r)
           vm == request.vm
<1>1. given \in Cases
  BY DEF Searches, Scope, Inventories
<1>2. vm.vcpu \in Int /\ vm.gb \in Int
  <2>1. vm.vcpu \in Nat \ {0} /\ vm.gb \in Nat \ {0}
    BY DEF Answers
  <2> QED
    BY <2>1, SizesWhole, Zenon
<1>3. Measured(s) /\ (s # <<>> => s = given.stats[r])
  BY <1>1, MeasuredStats
<1>4. Fits(r) /\ Spare(r) /\ s = given.stats[r] => SpareCpu(s, vm) /\ SpareMem(s, vm)
  BY <1>1, SpareHas DEF Answers
<1>5. HasCpu(s, vm) => s # <<>>
  BY NoDomain DEF HasCpu
<1>6. Candidate(r, granted) = [host |-> r, cluster |-> Head(clusters),
                      blockers |-> Evaluate(s, vm, granted).blockers, head |-> HeadLeft(s, vm)]
  BY DEF Candidate, Evaluate
<1> HIDE DEF s, vm
<1>7. /\ Evaluate(s, vm, granted).blockers = {} => HasCpu(s, vm) /\ HasMem(s, vm)
      /\ SpareCpu(s, vm) /\ SpareMem(s, vm) => Evaluate(s, vm, granted).blockers = {}
  BY <1>2, <1>3, Fitting
<1>8. Candidate(r, granted).blockers = Evaluate(s, vm, granted).blockers /\ Candidate(r, granted).head = HeadLeft(s, vm)
  <2>1. PICK b, h, c : /\ b = Evaluate(s, vm, granted).blockers /\ h = HeadLeft(s, vm)
                       /\ c = Head(clusters)
    OBVIOUS
  <2>2. Candidate(r, granted) = [host |-> r, cluster |-> c, blockers |-> b, head |-> h]
    BY <1>6, <2>1, Zenon
  <2>3. Candidate(r, granted).blockers = b /\ Candidate(r, granted).head = h
    <3>1. PICK e : e = Candidate(r, granted)
      OBVIOUS
    <3>2. e = [host |-> r, cluster |-> c, blockers |-> b, head |-> h]
      BY <2>2, <3>1, Zenon
    <3>3. e.blockers = b /\ e.head = h
      BY <3>2
    <3> QED
      BY <3>1, <3>3, Zenon
  <2> QED
    BY <2>1, <2>3, Zenon
<1>9. s # <<>> => HeadLeft(s, vm) = HeadLeft(given.stats[r], vm)
  BY <1>3
<1> QED
  BY <1>4, <1>5, <1>7, <1>8, <1>9 DEF s, vm

(* What EvaluateHosts adds.                                                  *)
LEMMA EvaluateAdds ==
  ASSUME Searches, Answers, Hosting, EvaluateHosts
  PROVE  /\ \A i \in DOMAIN candidates : \E j \in DOMAIN candidates' : candidates'[j] = candidates[i]
         /\ \A r \in ToSet(rows) : \E x : \E j \in DOMAIN candidates' : candidates'[j] = Candidate(r, x)
         /\ \A j \in DOMAIN candidates' :
              \/ \E i \in DOMAIN candidates : candidates'[j] = candidates[i]
              \/ \E x : \E r \in ToSet(rows) : candidates'[j] = Candidate(r, x)
<1>0. PICK granted : candidates' = candidates \o [i \in DOMAIN rows |-> Candidate(rows[i], granted[rows[i]])]
  BY DEF EvaluateHosts
<1> DEFINE new == [i \in DOMAIN rows |-> Candidate(rows[i], granted[rows[i]])]
<1>1. stage = "host stats" /\ candidates' = candidates \o new
  BY <1>0 DEF EvaluateHosts, Attached
<1>2. rows \in Seq(Resources) /\ candidates \in Seq(CandidateSet)
  BY DEF Searches, Clusters, Hosting
<1>3. DOMAIN rows = 1 .. Len(rows) /\ Len(rows) \in Nat /\ \A i \in DOMAIN rows : rows[i] \in Resources
  BY <1>2
<1>4. new \in [1 .. Len(rows) -> CandidateSet]
  BY <1>1, <1>3, CandidateFits
<1>5. new \in Seq(CandidateSet)
  BY <1>3, <1>4, ListOf
<1>6. /\ \A r \in ToSet(rows) : \E x : \E i \in DOMAIN new : new[i] = Candidate(r, x)
      /\ \A i \in DOMAIN new : \E x : \E r \in ToSet(rows) : new[i] = Candidate(r, x)
  BY DEF ToSet
<1> HIDE DEF new
<1>7. ToSet(candidates \o new) = ToSet(candidates) \cup ToSet(new)
  BY <1>2, <1>5, ConcatElements
<1>8. \A list, e : e \in ToSet(list) <=> \E i \in DOMAIN list : list[i] = e
  BY DEF ToSet
<1>9. \A e : e \in ToSet(candidates') <=> e \in ToSet(candidates) \/ e \in ToSet(new)
  BY <1>1, <1>7
<1>10. /\ \A e : e \in ToSet(candidates') <=> \E i \in DOMAIN candidates' : candidates'[i] = e
       /\ \A e : e \in ToSet(candidates) <=> \E i \in DOMAIN candidates : candidates[i] = e
       /\ \A e : e \in ToSet(new) <=> \E i \in DOMAIN new : new[i] = e
  BY <1>8
<1>11. \A i \in DOMAIN candidates : \E j \in DOMAIN candidates' : candidates'[j] = candidates[i]
  BY <1>9, <1>10
<1>12. ASSUME NEW r \in ToSet(rows)
       PROVE  \E x : \E j \in DOMAIN candidates' : candidates'[j] = Candidate(r, x)
  <2>0. PICK x : \E i \in DOMAIN new : new[i] = Candidate(r, x)
    BY <1>6, Zenon
  <2>1. PICK i \in DOMAIN new : new[i] = Candidate(r, x)
    BY <2>0, Zenon
  <2>2. new[i] \in ToSet(candidates')
    BY <1>9, <1>10, Zenon
  <2> QED
    BY <1>10, <2>1, <2>2, Zenon
<1>13. ASSUME NEW j \in DOMAIN candidates'
       PROVE  \/ \E i \in DOMAIN candidates : candidates'[j] = candidates[i]
              \/ \E x : \E r \in ToSet(rows) : candidates'[j] = Candidate(r, x)
  <2>1. candidates'[j] \in ToSet(candidates) \/ candidates'[j] \in ToSet(new)
    BY <1>9, <1>10
  <2>2. PICK e : e = candidates'[j]
    OBVIOUS
  <2>3. \/ \E i \in DOMAIN candidates : candidates[i] = e
        \/ \E i \in DOMAIN new : new[i] = e
    BY <1>10, <2>1, <2>2, Zenon
  <2> QED
    BY <1>6, <2>2, <2>3
<1> QED
  BY <1>11, <1>12, <1>13

LEMMA ToolHeaded ==
  ASSUME Searches, Answers, Hosting, Headed, [ToolNext]_toolVars
  PROVE  Headed'
<1>1. request' = request /\ given' = given
  BY ToolBefore DEF request
<1>2. CASE EvaluateHosts
  <2>1. ASSUME NEW j \in DOMAIN candidates', candidates'[j].blockers = {}
        PROVE  candidates'[j].head = HeadLeft(given.stats[candidates'[j].host], request.vm)
    <3>1. CASE \E i \in DOMAIN candidates : candidates'[j] = candidates[i]
      BY <2>1, <3>1 DEF Headed
    <3>2. CASE \E x : \E r \in ToSet(rows) : candidates'[j] = Candidate(r, x)
      <4>0. PICK x : \E r \in ToSet(rows) : candidates'[j] = Candidate(r, x)
        BY <3>2
      <4>1. PICK r \in ToSet(rows) : candidates'[j] = Candidate(r, x)
        BY <4>0
      <4>2. r \in Resources /\ stage = "host stats"
        <5>1. rows \in Seq(Resources)
          BY DEF Searches, Clusters
        <5> QED
          BY <1>2, <5>1, ElementsType DEF EvaluateHosts, Attached
      <4>3. Candidate(r, x).host = r
        BY <4>2, CandidateFits
      <4>4. Candidate(r, x).blockers = {} =>
              Candidate(r, x).head = HeadLeft(given.stats[r], request.vm)
        BY <4>2, CandidateHeads
      <4> QED
        BY <2>1, <4>1, <4>3, <4>4
    <3> QED
      BY <1>2, <3>1, <3>2, EvaluateAdds
  <2> QED
    BY <1>1, <2>1 DEF Headed
<1>3. CASE ~EvaluateHosts
  <2>1. candidates' = candidates
    BY <1>3 DEF ToolNext, Tool, BeginTool, Scoping, ReportUnknown, Attach, FetchStats, ReportQuery,
                ReportCapacity, ReportOversized, BeginHosts, NextCluster, Recommend,
                InventoryChanges, Reports, toolVars, placing
  <2> QED
    BY <1>1, <2>1 DEF Headed
<1> QED
  BY <1>2, <1>3

LEMMA FetchStatsFetched ==
  ASSUME Searches, Answers, Fetched, FetchStats
  PROVE  Fetched'
<1>1. /\ asked' = asked + ChunkSize /\ UNCHANGED <<given, stage, rows>>
      /\ stage \in {"stats", "host stats"}
      /\ \/ stats' = [r \in DOMAIN stats \cup (ToSet(Chunk) \cap DOMAIN given.stats) |-> given.stats[r]]
            /\ failed' = failed
         \/ failed'
  BY DEF FetchStats
<1>2. Ids' = Ids
  BY <1>1 DEF Ids
<1>3. rows \in Seq(Resources) /\ asked \in Nat
  BY DEF Searches, Clusters, Answers
<1>4. Ids \in Seq(Resources) /\ DOMAIN Ids = 1 .. Len(Ids) /\ Len(Ids) \in Nat
  BY <1>3, IdsElements, ListDomain
<1> SUFFICES ASSUME ~failed', NEW i \in DOMAIN Ids, i <= asked', Ids[i] \in DOMAIN given.stats
             PROVE  Ids[i] \in DOMAIN stats'
  BY <1>1, <1>2 DEF Fetched
<1>5. DOMAIN stats' = DOMAIN stats \cup (ToSet(Chunk) \cap DOMAIN given.stats) /\ ~failed
  <2>1. failed' = failed
    BY <1>1, Zenon
  <2>2. stats' = [r \in DOMAIN stats \cup (ToSet(Chunk) \cap DOMAIN given.stats) |-> given.stats[r]]
    BY <1>1, Zenon
  <2> QED
    BY <2>1, <2>2
<1>6. CASE i <= asked
  BY <1>1, <1>5, <1>6 DEF Fetched
<1>7. CASE ~(i <= asked)
  <2>1. \A a, c, l \in Nat : \A k \in 1 .. l :
          k <= a + c /\ ~(k <= a) => k \in a + 1 .. (IF a + c < l THEN a + c ELSE l)
    OBVIOUS
  <2>2. i \in asked + 1 .. Smaller(asked + ChunkSize, Len(Ids))
    BY <1>1, <1>3, <1>4, <1>7, <2>1, ChunkAssumption DEF Smaller
  <2>3. Ids[i] \in ToSet(Chunk)
    BY <1>3, <2>2, ChunkElements DEF Between
  <2> QED
    BY <1>5, <2>3
<1> QED
  BY <1>6, <1>7

LEMMA ToolFetched ==
  ASSUME Searches, Answers, Fetched, [ToolNext]_toolVars
  PROVE  Fetched'
<1>1. CASE FetchStats
  BY <1>1, FetchStatsFetched
<1>2. CASE Attach
  <2>1. rows' \in Seq(Resources) /\ asked' = 0
    <3>1. Searches'
      BY ToolSearches
    <3> QED
      BY <1>2, <3>1 DEF Attach, Searches, Clusters
  <2>2. Ids' = Distinct(rows') /\ Distinct(rows') \in Seq(Resources)
    BY <2>1, DistinctElements DEF Ids
  <2>3. \A i \in DOMAIN Ids' : ~(i <= 0)
    <3>1. DOMAIN Ids' = 1 .. Len(Ids') /\ Len(Ids') \in Nat
      BY <2>2, ListDomain
    <3> QED
      BY <3>1
  <2> QED
    BY <2>1, <2>3 DEF Fetched
<1>3. CASE ~FetchStats /\ ~Attach
  <2>1. /\ stage' \in {"stats", "host stats"} => UNCHANGED <<stage, rows, asked, stats>>
    BY <1>3 DEF ToolNext, Tool, BeginTool, Scoping, ReportUnknown, ReportQuery,
                ReportCapacity, ReportOversized, BeginHosts, NextCluster, EvaluateHosts, Recommend,
                InventoryChanges, Reports, toolVars, attached
  <2>2. given' = given /\ (~failed' => ~failed)
    BY ToolBefore
  <2>3. rows' = rows => Ids' = Ids
    BY DEF Ids
  <2> QED
    BY <2>1, <2>2, <2>3 DEF Fetched
<1> QED
  BY <1>1, <1>2, <1>3

(* A scope that is found is what is in scope.                                *)
LEMMA ScopeFound ==
  ASSUME Searches, AsGiven, Locating, Uncut, stage = "scope", pc = "done", changes = 0, ~failed
  PROVE  InScope(request.kind) \subseteq
           ToSet(IF request.location = NoLocation THEN out ELSE found)
<1>1. kind = request.kind /\ order = given.order /\ ~shrunk
  BY DEF AsGiven, Locating
<1>2. CASE request.location = NoLocation
  <2> DEFINE listed == Among(given.order, {r \in Resources : Kind[r] = request.kind})
  <2>1. roots = <<>> /\ Len(out) <= Len(OfKind)
    BY <1>2 DEF Locating
  <2>2. OfKind = listed
    BY <1>1 DEF OfKind
  <2>3. given \in Cases /\ Inventories /\ out \in Seq(Resources)
    BY DEF Searches, Scope, Inventories, Walking
  <2>4. Len(listed) < MaxResources
    BY <2>3 DEF Uncut, request
  <2>5. Len(out) \in Nat /\ Len(listed) \in Nat /\ MaxResources \in Nat
    <3>1. OfKind \in Seq(Resources)
      BY <2>3, OfKindType
    <3> QED
      BY <2>2, <2>3, <3>1, ListDomain, SizesAssumption
  <2> HIDE DEF listed
  <2>6. Len(out) < MaxResources
    BY <2>1, <2>2, <2>4, <2>5
  <2>7. Wanted \subseteq ToSet(out)
    BY <1>1, <1>2, <2>1, <2>6 DEF Searches, Scope, Listing
  <2> QED
    BY <1>1, <1>2, <2>7 DEF InScope, Wanted
<1>3. CASE request.location # NoLocation
  <2>1. Site \subseteq ToSet(roots)
    BY <1>3 DEF Locating
  <2>2. Beneath(ToSet(roots), kind) \subseteq ToSet(found)
    BY DEF Searches, Complete
  <2>3. Beneath(Site, request.kind) \subseteq Beneath(ToSet(roots), kind)
    BY <1>1, <2>1, BeneathGrows
  <2> QED
    BY <1>3, <2>2, <2>3 DEF InScope, Site
<1> QED
  BY <1>2, <1>3

LEMMA ToolScoped ==
  ASSUME Searches, Answers, Hosting, AsGiven, Locating, Scoped, Uncut, [ToolNext]_toolVars
  PROVE  Scoped'
<1> SUFFICES ASSUME changes' = 0, ~failed'
             PROVE  (/\ stage = "stats" => InScope(request.kind) \subseteq ToSet(rows)
                     /\ stage = "host stats" =>
                          Beneath({Head(clusters)}, "HostSystem") \subseteq ToSet(rows))'
  BY DEF Scoped
<1>1. changes = 0 /\ ~failed /\ UNCHANGED <<children, given>>
  BY ToolBefore
<1>2. InScope(request.kind)' = InScope(request.kind)
  BY <1>1, SameInScope
<1>3. ASSUME NEW c
      PROVE  (Beneath({c}, "HostSystem"))' = Beneath({c}, "HostSystem")
  BY <1>1, SameBeneath
<1>4. (Beneath({Head(clusters)}, "HostSystem"))' = Beneath({Head(clusters')}, "HostSystem")
  <2>1. PICK c : c = Head(clusters')
    OBVIOUS
  <2>2. (Beneath({Head(clusters)}, "HostSystem"))' = (Beneath({c}, "HostSystem"))'
    BY <2>1
  <2> QED
    BY <1>3, <2>1, <2>2
<1>5. CASE Attach
  <2>1. /\ pc = "done" /\ clusters' = clusters
        /\ stage' = IF stage = "scope" THEN "stats" ELSE "host stats"
        /\ stage \in {"scope", "host scope"}
        /\ rows' = IF stage = "scope" /\ request.location = NoLocation THEN out ELSE found
    BY <1>5 DEF Attach, placing
  <2>2. CASE stage = "scope"
    <3>1. InScope(request.kind) \subseteq ToSet(rows')
      BY <1>1, <2>1, <2>2, ScopeFound
    <3> QED
      BY <1>2, <2>1, <2>2, <3>1
  <2>3. CASE stage = "host scope"
    <3>1. kind = "HostSystem" /\ roots = <<Head(clusters)>>
      BY <2>3 DEF Hosting
    <3>2. ToSet(roots) = {Head(clusters)}
      BY <3>1 DEF ToSet
    <3>3. Beneath({Head(clusters)}, "HostSystem") \subseteq ToSet(found)
      BY <1>1, <2>1, <3>1, <3>2 DEF Searches, Complete
    <3> QED
      BY <1>4, <2>1, <2>3, <3>3
  <2> QED
    BY <2>1, <2>2, <2>3
<1>6. CASE ~Attach
  <2>1. stage' \in {"stats", "host stats"} => UNCHANGED <<stage, rows, clusters>>
    BY <1>6 DEF ToolNext, Tool, BeginTool, Scoping, FetchStats, ReportUnknown, ReportQuery,
                ReportCapacity, ReportOversized, BeginHosts, NextCluster, EvaluateHosts, Recommend,
                InventoryChanges, Reports, toolVars, attached, placing
  <2> QED
    BY <1>1, <1>2, <1>4, <2>1 DEF Scoped
<1> QED
  BY <1>5, <1>6

LEMMA EvaluateReached ==
  ASSUME Searches, Answers, Hosting, Fetched, Scoped, Reached, EvaluateHosts, changes = 0, ~failed,
         UNCHANGED given
  PROVE  \A c \in InScope(request.kind) :
           c \in ToSet(clusters') \/ \A h \in Beneath({c}, "HostSystem") : Considered(h)'
<1>1. /\ stage = "host stats" /\ Attached("host stats")
      /\ clusters' = Tail(clusters)
  BY DEF EvaluateHosts, Attached
<1>2. \A h : Fits(h)' = Fits(h) /\ Spare(h)' = Spare(h)
  BY SameFits
<1>3. ASSUME NEW h, Considered(h)
      PROVE  Considered(h)'
  <2>1. PICK i \in DOMAIN candidates :
          candidates[i].host = h /\ (Fits(h) /\ Spare(h) => candidates[i].blockers = {})
    BY <1>3 DEF Considered
  <2>2. PICK j \in DOMAIN candidates' : candidates'[j] = candidates[i]
    BY EvaluateAdds
  <2> QED
    BY <1>2, <2>1, <2>2 DEF Considered
<1>4. ASSUME NEW h \in ToSet(rows)
      PROVE  Considered(h)'
  <2>0. PICK x : \E j \in DOMAIN candidates' : candidates'[j] = Candidate(h, x)
    BY EvaluateAdds
  <2>1. PICK j \in DOMAIN candidates' : candidates'[j] = Candidate(h, x)
    BY <2>0
  <2>2. h \in Resources
    <3>1. rows \in Seq(Resources)
      BY DEF Searches, Clusters
    <3> QED
      BY <3>1, ElementsType
  <2>3. Candidate(h, x).host = h
    BY <1>1, <2>2, CandidateFits
  <2>4. Fits(h) /\ Spare(h) => Candidate(h, x).blockers = {}
    <3>1. Fits(h) => h \in DOMAIN given.stats
      BY DEF Fits
    <3>2. Fits(h) => StatsOf(h) = given.stats[h]
      BY <1>1, <3>1, RowStats
    <3> QED
      BY <1>1, <2>2, <3>2, CandidateHeads
  <2> QED
    BY <1>2, <2>1, <2>3, <2>4 DEF Considered
<1>5. ToSet(clusters) = {Head(clusters)} \cup ToSet(clusters')
  <2>1. clusters \in Seq(Resources) /\ clusters # <<>>
    BY <1>1 DEF Searches, Clusters
  <2> QED
    BY <1>1, <2>1, TailElements
<1>6. Beneath({Head(clusters)}, "HostSystem") \subseteq ToSet(rows)
  BY <1>1 DEF Scoped
<1> SUFFICES ASSUME NEW c \in InScope(request.kind), c \notin ToSet(clusters'),
                    NEW h \in Beneath({c}, "HostSystem")
             PROVE  Considered(h)'
  OBVIOUS
<1>7. c \in ToSet(clusters) \/ Considered(h)
  BY <1>1 DEF Reached
<1>8. c \in ToSet(clusters) => h \in ToSet(rows)
  BY <1>5, <1>6
<1> QED
  BY <1>3, <1>4, <1>7, <1>8

LEMMA ToolReached ==
  ASSUME Searches, Answers, Hosting, Fetched, Scoped, Reached, [ToolNext]_toolVars
  PROVE  Reached'
<1> SUFFICES ASSUME changes' = 0, ~failed', stage' \in {"clusters", "host scope", "host stats"}
             PROVE  (\A c \in InScope(request.kind) :
                       c \in ToSet(clusters) \/ \A h \in Beneath({c}, "HostSystem") : Considered(h))'
  BY DEF Reached
<1>1. changes = 0 /\ ~failed /\ UNCHANGED <<children, given>>
  BY ToolBefore
<1>2. InScope(request.kind)' = InScope(request.kind)
  BY <1>1, SameInScope
<1>3. \A c : (Beneath({c}, "HostSystem"))' = Beneath({c}, "HostSystem")
  BY <1>1, SameBeneath
<1>4. \A c \in InScope(request.kind) :
        c \in ToSet(clusters') \/ \A h \in Beneath({c}, "HostSystem") : Considered(h)'
  <2>1. CASE EvaluateHosts
    BY <1>1, <2>1, EvaluateReached
  <2>2. CASE BeginHosts
    <3>1. stage = "stats" /\ clusters' = rows
      BY <2>2 DEF BeginHosts, Reports, Attached
    <3> QED
      BY <1>1, <3>1 DEF Scoped
  <2>3. CASE ~EvaluateHosts /\ ~BeginHosts
    <3>1. /\ UNCHANGED <<clusters, candidates>>
          /\ stage \in {"clusters", "host scope", "host stats"}
      BY <2>3 DEF ToolNext, Tool, BeginTool, Scoping, Attach, FetchStats, ReportUnknown, ReportQuery,
                  ReportCapacity, ReportOversized, NextCluster, Recommend,
                  InventoryChanges, Reports, toolVars, placing
    <3>2. \A h : Considered(h)' = Considered(h)
      <4>1. \A h : Fits(h)' = Fits(h) /\ Spare(h)' = Spare(h)
        BY <1>1, SameFits
      <4> QED
        BY <3>1, <4>1 DEF Considered
    <3> QED
      BY <1>1, <3>1, <3>2 DEF Reached
  <2> QED
    BY <2>1, <2>2, <2>3
<1> QED
  BY <1>2, <1>3, <1>4

-----------------------------------------------------------------------------
(* The best host.                                                            *)

LEMMA BestLater ==
  ASSUME UNCHANGED <<children, given>>,
         \A h \in HostsInScope : Fits(h) =>
           /\ (request.top > 0 /\ Spare(h)) => report'.says = "place"
           /\ report'.says = "place" => ~LeastExceeds(Left(h), Left(report'.host), 10)
  PROVE  BestHost'
<1>1. \A h : Fits(h)' = Fits(h) /\ Spare(h)' = Spare(h)
  BY SameFits
<1>2. \A h : Left(h)' = Left(h)
  BY DEF Left, SharesLeft, request
<1>3. InScope(request.kind)' = InScope(request.kind)
  BY SameInScope
<1>4. \A c : (Beneath({c}, "HostSystem"))' = Beneath({c}, "HostSystem")
  BY SameBeneath
<1>5. HostsInScope' = HostsInScope
  BY <1>3, <1>4 DEF HostsInScope
<1>6. Left(report.host)' = Left(report'.host)
  BY DEF Left, SharesLeft, request
<1>7. request' = request
  BY DEF request
<1>8. (\A h \in HostsInScope : Fits(h) =>
         /\ (request.top > 0 /\ Spare(h)) => report.says = "place"
         /\ report.says = "place" => ~LeastExceeds(Left(h), Left(report.host), 10))'
  <2>1. ASSUME NEW h
        PROVE  LeastExceeds(Left(h), Left(report.host), 10)' =
                 LeastExceeds(Left(h), Left(report'.host), 10)
    BY <1>2, <1>6 DEF LeastExceeds, Exceeds
  <2> QED
    BY <1>1, <1>5, <1>7, <2>1
<1> QED
  BY <1>8 DEF BestHost

(* When all clusters have been gone through, every host in scope with more   *)
(* than enough is a candidate, and none that fits has more left than the     *)
(* first if that one does.                                                   *)
LEMMA FirstIsBest ==
  ASSUME Searches, Answers, Hosting, Headed, Reached, stage = "clusters", clusters = <<>>,
         changes = 0, ~failed, NEW h \in HostsInScope, Fits(h)
  PROVE  LET top == Top(InOrder(candidates), request.top)
         IN  /\ (request.top > 0 /\ Spare(h)) => top # <<>>
             /\ (top # <<>> /\ Spare(h)) => Head(top).blockers = {}
             /\ (top # <<>> /\ Head(top).blockers = {}) =>
                  ~LeastExceeds(Left(h), Left(Head(top).host), 10)
<1> DEFINE top == Top(InOrder(candidates), request.top)
<1>1. candidates \in Seq(CandidateSet) /\ request.top \in Int
  BY DEF Hosting, Answers
<1>2. PICK j \in DOMAIN candidates :
        candidates[j].host = h /\ (Spare(h) => candidates[j].blockers = {})
  <2>1. PICK c \in InScope(request.kind) : h \in Beneath({c}, "HostSystem")
    BY DEF HostsInScope
  <2>2. Considered(h)
    BY <2>1, EmptyElements DEF Reached
  <2> QED
    BY <2>2 DEF Considered
<1>3. candidates # <<>>
  BY <1>2, NoDomain
<1>4. /\ request.top > 0 => top # <<>>
      /\ top # <<>> => \E i \in DOMAIN candidates :
           /\ Head(top) = candidates[i]
           /\ \A k \in DOMAIN candidates : ~Better(candidates[k], candidates[i])
  BY <1>1, <1>3, BestFirst
<1> HIDE DEF top
<1>5. ASSUME NEW i \in DOMAIN candidates,
             \A k \in DOMAIN candidates : ~Better(candidates[k], candidates[i])
      PROVE  /\ Spare(h) => candidates[i].blockers = {}
             /\ candidates[i].blockers = {} =>
                  ~LeastExceeds(Left(h), Left(candidates[i].host), 10)
  <2>1. ~Better(candidates[j], candidates[i])
    BY <1>2, <1>5
  <2>2. Spare(h) => candidates[i].blockers = {} /\ ~Higher(candidates[j].head, candidates[i].head)
    BY <1>2, <2>1 DEF Better
  <2>3. h \in Resources /\ candidates[i].host \in Resources
    <3>1. candidates[i] \in CandidateSet /\ candidates[j] \in CandidateSet
      <4> HIDE DEF CandidateSet
      <4> QED
        BY <1>1, <1>2, <1>5
    <3> QED
      BY <1>2, <3>1 DEF CandidateSet
  <2>4. given \in Cases /\ request.vm.vcpu \in Nat \ {0} /\ request.vm.gb \in Nat \ {0}
    BY DEF Searches, Scope, Inventories, Answers
  <2>5. ASSUME candidates[i].blockers = {}
        PROVE  ~LeastExceeds(Left(h), Left(candidates[i].host), 10)
    <3>1. Fits(candidates[i].host)
      BY <2>5 DEF Hosting
    <3>2. CASE Spare(h)
      <4>1. /\ candidates[j].head = HeadLeft(given.stats[h], request.vm)
            /\ candidates[i].head = HeadLeft(given.stats[candidates[i].host], request.vm)
        BY <1>2, <2>5, <3>2 DEF Headed
      <4>2. ~Higher(HeadLeft(given.stats[h], request.vm),
                    HeadLeft(given.stats[candidates[i].host], request.vm))
        BY <2>2, <3>2, <4>1
      <4> QED
        BY <2>3, <2>4, <3>1, <4>2, HeadsOrder
    <3>3. CASE ~Spare(h)
      BY <2>3, <2>4, <3>1, <3>3, NoneLeft
    <3> QED
      BY <3>2, <3>3
  <2> QED
    BY <2>2, <2>5
<1> QED
  BY <1>4, <1>5 DEF top

LEMMA RecommendBest ==
  ASSUME Searches, Answers, Hosting, Headed, Reached, Recommend
  PROVE  BestHost'
<1> DEFINE top == Top(InOrder(candidates), request.top)
<1>1. /\ stage = "clusters" /\ clusters = <<>>
      /\ UNCHANGED <<children, given, changes, failed>>
      /\ \/ top = <<>> /\ report' = Says("no hosts")
         \/ /\ top # <<>> /\ Head(top).blockers # {}
            /\ report'.says = "nothing fits"
         \/ /\ top # <<>> /\ Head(top).blockers = {}
            /\ report' = [says |-> "place", host |-> Head(top).host, cluster |-> Head(top).cluster,
                          shown |-> top]
  <2>1. /\ stage = "clusters" /\ clusters = <<>>
        /\ \/ top = <<>> /\ Reports(Says("no hosts"))
           \/ /\ top # <<>> /\ Head(top).blockers # {}
              /\ Reports([says |-> "nothing fits", blockers |-> Head(top).blockers, shown |-> top])
           \/ /\ top # <<>> /\ Head(top).blockers = {}
              /\ Reports([says |-> "place", host |-> Head(top).host, cluster |-> Head(top).cluster,
                          shown |-> top])
    BY RecommendReports, Zenon
  <2>2. UNCHANGED scope
    BY DEF Recommend, Reports
  <2>3. \A b, shown : [says |-> "nothing fits", blockers |-> b, shown |-> shown].says = "nothing fits"
    OBVIOUS
  <2> HIDE DEF top
  <2> QED
    BY <2>1, <2>2, <2>3 DEF Reports, scope, vars, inventory
<1>2. CASE changes = 0 /\ ~failed
  <2>1. ASSUME NEW h \in HostsInScope, Fits(h)
        PROVE  /\ (request.top > 0 /\ Spare(h)) => report'.says = "place"
               /\ report'.says = "place" => ~LeastExceeds(Left(h), Left(report'.host), 10)
    <3>1. /\ (request.top > 0 /\ Spare(h)) => top # <<>>
          /\ (top # <<>> /\ Spare(h)) => Head(top).blockers = {}
          /\ (top # <<>> /\ Head(top).blockers = {}) =>
               ~LeastExceeds(Left(h), Left(Head(top).host), 10)
      BY <1>1, <1>2, <2>1, FirstIsBest
    <3> HIDE DEF top
    <3>2. CASE top = <<>>
      <4>1. report'.says # "place"
        BY <1>1, <3>2, SaysOther
      <4> QED
        BY <3>1, <3>2, <4>1
    <3>4. CASE top # <<>> /\ Head(top).blockers # {}
      <4>1. report'.says # "place"
        BY <1>1, <3>4
      <4> QED
        BY <3>1, <3>4, <4>1
    <3>3. CASE top # <<>> /\ Head(top).blockers = {}
      <4>1. report' = [says |-> "place", host |-> Head(top).host, cluster |-> Head(top).cluster,
                       shown |-> top]
        BY <1>1, <3>1, <3>3
      <4>2. report'.says = "place" /\ report'.host = Head(top).host
        <5>1. \A r, a, c, shown : r = [says |-> "place", host |-> a, cluster |-> c, shown |-> shown] =>
                r.says = "place" /\ r.host = a
          OBVIOUS
        <5> QED
          BY <4>1, <5>1
      <4> QED
        BY <3>1, <3>3, <4>2
    <3> QED
      BY <3>2, <3>3, <3>4
  <2> HIDE DEF top
  <2> QED
    BY <1>1, <2>1, BestLater
<1>3. CASE ~(changes = 0 /\ ~failed)
  <2> HIDE DEF top
  <2> QED
    BY <1>1, <1>3 DEF BestHost, PlacementDone
<1> QED
  BY <1>2, <1>3

LEMMA ToolBest ==
  ASSUME Searches, Answers, Hosting, Headed, Scoped, Reached, BestHost, [ToolNext]_toolVars
  PROVE  BestHost'
<1>1. CASE Recommend
  BY <1>1, RecommendBest
<1>2. CASE BeginHosts
  <2>1. /\ UNCHANGED <<children, given, changes, failed>> /\ stage = "stats"
        /\ rows = <<>> \/ stage' = "clusters"
    BY <1>2 DEF BeginHosts, Reports, Attached, scope, vars, inventory
  <2>2. CASE stage' = "clusters" \/ ~(changes = 0 /\ ~failed)
    BY <2>1, <2>2 DEF BestHost, PlacementDone
  <2>3. CASE rows = <<>> /\ changes = 0 /\ ~failed
    <3>1. InScope(request.kind) = {}
      BY <2>1, <2>3, EmptyElements DEF Scoped
    <3>2. HostsInScope = {}
      BY <3>1 DEF HostsInScope
    <3> QED
      BY <2>1, <3>2, BestLater
  <2> QED
    BY <2>1, <2>2, <2>3
<1>3. CASE BeginTool \/ ReportUnknown
  <2>1. stage' # "reported" \/ report' \in {Says("unusable arguments"), Says("unknown location")}
    BY <1>3 DEF BeginTool, ReportUnknown, Reports
  <2>2. stage' # "reported" \/ report'.says \in {"unusable arguments", "unknown location"}
    BY <2>1, SaysWhat
  <2> QED
    BY <2>2 DEF BestHost, PlacementDone
<1>4. CASE ReportQuery \/ ReportCapacity \/ ReportOversized
  <2>1. request.tool # "placement" /\ request' = request
    BY <1>4 DEF ReportQuery, ReportCapacity, ReportOversized, Reports, scope, vars, request
  <2> QED
    BY <2>1 DEF BestHost, PlacementDone
<1>5. CASE Scoping \/ Attach \/ FetchStats \/ NextCluster \/ EvaluateHosts
  <2>1. stage' # "reported"
    BY <1>5 DEF Scoping, Attach, FetchStats, NextCluster, EvaluateHosts
  <2> QED
    BY <2>1 DEF BestHost, PlacementDone
<1>6. CASE InventoryChanges
  <2>1. changes' # 0
    BY <1>6, InventoryWalk DEF InventoryChanges, Searches, Scope, Inventories
  <2> QED
    BY <2>1 DEF BestHost, PlacementDone
<1>7. CASE UNCHANGED toolVars
  <2>1. UNCHANGED <<children, given, changes, failed, stage, report>>
    BY <1>7 DEF toolVars, scope, vars, inventory
  <2>2. CASE PlacementDone /\ ~failed
    BY <2>1, <2>2, BestLater DEF BestHost
  <2>3. CASE ~(PlacementDone /\ ~failed)
    BY <2>1, <2>3 DEF BestHost, PlacementDone, request
  <2> QED
    BY <2>2, <2>3
<1> QED
  BY <1>1, <1>2, <1>3, <1>4, <1>5, <1>6, <1>7, Zenon DEF ToolNext, Tool

(* If nothing in scope is cut off a list, a placement that is not disturbed  *)
(* recommends a host if any host of any cluster in scope has more than the   *)
(* VM needs, and none that has what it needs has more than a tenth of a      *)
(* percent more left of its scarcer resource than the one recommended,       *)
(* however the comparisons at an exact limit come out (placement.py:34-163). *)
THEOREM FleetBestHost ==
  ASSUME Uncut
  PROVE  ToolSpec => []BestHost
<1> DEFINE Inv == /\ Searches /\ Answers /\ Hosting
                  /\ AsGiven /\ Locating
                  /\ Headed /\ Fetched /\ Scoped /\ Reached
                  /\ BestHost
<1>1. ToolInit => Inv
  <2>1. ToolInit => BestHost
    BY DEF ToolInit, BestHost, PlacementDone
  <2> QED
    BY <2>1, InitSearches, InitAnswers, InitHosting, InitLocating, InitPlacement
<1>2. Inv /\ [ToolNext]_toolVars => Inv'
  BY ToolSearches, ToolAnswers, ToolHosting, ToolAsGiven, ToolLocating, ToolHeaded, ToolFetched,
     ToolScoped, ToolReached, ToolBest
<1>3. Inv => BestHost
  OBVIOUS
<1> QED
  BY <1>1, <1>2, <1>3, PTL DEF ToolSpec

\* What SortedBy puts first.
Over(key, reverse, r, q) == IF reverse THEN key[r] > key[q] ELSE key[r] < key[q]

(* Sorting moves the elements of a list, none behind one it is over.         *)
LEMMA SortedElements ==
  ASSUME NEW S, NEW list \in Seq(S), NEW key, NEW reverse \in BOOLEAN,
         \A i \in DOMAIN list : key[list[i]] \in Int
  PROVE  /\ SortedBy(list, key, reverse) \in Seq(S)
         /\ Len(SortedBy(list, key, reverse)) = Len(list)
         /\ \A i \in DOMAIN list : \E m \in DOMAIN list : SortedBy(list, key, reverse)[m] = list[i]
         /\ \A m \in DOMAIN list : \E i \in DOMAIN list : SortedBy(list, key, reverse)[m] = list[i]
         /\ \A m, k \in DOMAIN list : m < k =>
              ~Over(key, reverse, SortedBy(list, key, reverse)[k], SortedBy(list, key, reverse)[m])
<1> DEFINE n == Len(list)
           P == DOMAIN list
           above == {w \in P \X P : Over(key, reverse, list[w[1]], list[w[2]])}
           sorted == SortedBy(list, key, reverse)
           at(m) == PlacedAt(P, above, m)
<1>1. n \in Nat /\ P = 1 .. n /\ \A i \in P : list[i] \in S
  OBVIOUS
<1>2. \A i, j \in P : <<i, j>> \in above <=> Over(key, reverse, list[i], list[j])
  OBVIOUS
<1>3. \A i \in P : key[list[i]] \in Int
  BY <1>1
<1>4. /\ \A i, j \in P : ~(<<i, j>> \in above /\ <<j, i>> \in above)
      /\ \A i, j, k \in P : <<i, j>> \notin above /\ <<j, k>> \notin above => <<i, k>> \notin above
  <2> HIDE DEF P, above
  <2>1. CASE reverse
    BY <1>2, <1>3, <2>1 DEF Over
  <2>2. CASE ~reverse
    BY <1>2, <1>3, <2>2 DEF Over
  <2> QED
    BY <2>1, <2>2
<1>5. /\ \A m \in P : at(m) \in P
      /\ \A i \in P : \E m \in P : at(m) = i
      /\ \A m, k \in P : m < k => at(m) # at(k) /\ <<at(k), at(m)>> \notin above
  <2> HIDE DEF above, n, P
  <2> DEFINE N == 1 .. n
  <2>1. /\ \A m \in N : PlacedAt(N, above, m) \in N
        /\ \A i \in N : \E m \in N : PlacedAt(N, above, m) = i
        /\ \A m, k \in N : m < k =>
             /\ PlacedAt(N, above, m) # PlacedAt(N, above, k)
             /\ <<PlacedAt(N, above, k), PlacedAt(N, above, m)>> \notin above
    BY <1>1, <1>4, StableSort
  <2>2. P = N
    BY <1>1
  <2> HIDE DEF N
  <2> QED
    BY <2>1, <2>2
<1>6. \A m \in P : at(m) = CHOOSE i \in P : 1 + Cardinality(
        {j \in P \ {i} : \/ Over(key, reverse, list[j], list[i])
                         \/ j < i /\ ~Over(key, reverse, list[i], list[j])}) = m
  <2>1. ASSUME NEW i \in P
        PROVE  AheadOf(P, above, i) =
                 {j \in P \ {i} : \/ Over(key, reverse, list[j], list[i])
                                  \/ j < i /\ ~Over(key, reverse, list[i], list[j])}
    BY <1>2 DEF AheadOf
  <2> QED
    BY <2>1 DEF PlacedAt
<1>7. sorted = [m \in P |-> list[at(m)]]
  <2>1. sorted = [m \in DOMAIN list |-> list[CHOOSE i \in DOMAIN list : 1 + Cardinality(
                   {j \in DOMAIN list \ {i} : \/ Over(key, reverse, list[j], list[i])
                                              \/ j < i /\ ~Over(key, reverse, list[i], list[j])}) = m]]
    BY DEF SortedBy, Ranked, Over
  <2> DEFINE place(m) == CHOOSE i \in P : 1 + Cardinality(
               {j \in P \ {i} : \/ Over(key, reverse, list[j], list[i])
                                \/ j < i /\ ~Over(key, reverse, list[i], list[j])}) = m
  <2>2. sorted = [m \in P |-> list[place(m)]]
    BY <2>1
  <2>3. \A m \in P : place(m) = at(m)
    BY <1>6
  <2> HIDE DEF place, at, P
  <2> QED
    BY <2>2, <2>3
<1> HIDE DEF sorted, at, above, P
<1>8. \A m \in P : sorted[m] = list[at(m)]
  BY <1>7
<1>9. sorted \in Seq(S) /\ Len(sorted) = n
  <2>1. sorted \in [1 .. n -> S]
    BY <1>1, <1>5, <1>7
  <2> QED
    BY <1>1, <2>1, ListOf
<1>10. /\ \A i \in P : \E m \in P : sorted[m] = list[i]
       /\ \A m \in P : \E i \in P : sorted[m] = list[i]
  BY <1>5, <1>8
<1>11. \A m, k \in P : m < k => ~Over(key, reverse, sorted[k], sorted[m])
  BY <1>2, <1>5, <1>8
<1> QED
  BY <1>9, <1>10, <1>11 DEF sorted, P

\* A list without repetitions.
Once(list) == \A i, j \in DOMAIN list : list[i] = list[j] => i = j

(* Elements at positions that repeat none.                                   *)
LEMMA AtOnce ==
  ASSUME NEW S, NEW list \in Seq(S), NEW P, P \subseteq DOMAIN list,
         \A i, j \in P : list[i] = list[j] => i = j
  PROVE  Once(At(list, P))
<1> DEFINE picked == At(list, P)
<1>1. P \subseteq 1 .. Len(list) /\ Len(list) \in Nat
  OBVIOUS
<1>2. /\ picked \in Seq(S) /\ Len(picked) = Cardinality(P)
      /\ \A i \in P : picked[Rank(P, i)] = list[i]
  BY AtElements
<1> HIDE DEF picked
<1>3. \A m \in 1 .. Cardinality(P) : \E i \in P : Rank(P, i) = m
  BY <1>1, Ranks
<1>4. DOMAIN picked = 1 .. Cardinality(P)
  BY <1>2
<1> SUFFICES ASSUME NEW a \in DOMAIN picked, NEW b \in DOMAIN picked, picked[a] = picked[b]
             PROVE  a = b
  BY DEF Once, picked
<1>5. PICK i \in P : Rank(P, i) = a
  BY <1>3, <1>4
<1>6. PICK j \in P : Rank(P, j) = b
  BY <1>3, <1>4
<1>7. i = j
  BY <1>2, <1>5, <1>6
<1> QED
  BY <1>5, <1>6, <1>7

(* Picking elements of a list without repetitions repeats none.              *)
LEMMA AmongOnce ==
  ASSUME NEW S, NEW list \in Seq(S), Once(list), NEW T
  PROVE  Once(Among(list, T))
<1> DEFINE P == {i \in DOMAIN list : list[i] \in T}
<1>1. P \subseteq DOMAIN list /\ \A i, j \in P : list[i] = list[j] => i = j
  BY DEF Once
<1>2. Among(list, T) = At(list, P)
  BY DEF Among
<1> HIDE DEF P
<1> QED
  BY <1>1, <1>2, AtOnce

(* Neither does dropping them.                                               *)
LEMMA DistinctOnce ==
  ASSUME NEW S, NEW list \in Seq(S)
  PROVE  Once(Distinct(list))
<1> DEFINE P == {i \in DOMAIN list : \A j \in 1 .. i - 1 : list[j] # list[i]}
<1>1. P \subseteq DOMAIN list
  OBVIOUS
<1>2. ASSUME NEW i \in P, NEW j \in P, list[i] = list[j]
      PROVE  i = j
  <2>1. i \in Nat \ {0} /\ j \in Nat \ {0}
    OBVIOUS
  <2>2. ~(i \in 1 .. j - 1) /\ ~(j \in 1 .. i - 1)
    BY <1>2
  <2> HIDE DEF P
  <2> QED
    BY <2>1, <2>2
<1>3. Distinct(list) = At(list, P)
  BY DEF Distinct
<1> HIDE DEF P
<1> QED
  BY <1>1, <1>2, <1>3, AtOnce

(* A list without repetitions is as long as it has elements.                 *)
LEMMA ListSize ==
  ASSUME NEW S, NEW list \in Seq(S), Once(list)
  PROVE  IsFiniteSet(ToSet(list)) /\ Cardinality(ToSet(list)) = Len(list)
<1> DEFINE P == 1 .. Len(list)
           T == ToSet(list)
<1>1. IsFiniteSet(P) /\ Cardinality(P) = Len(list)
  <2> DEFINE n == Len(list)
  <2>1. n \in Nat
    OBVIOUS
  <2> HIDE DEF n
  <2>2. IsFiniteSet(1 .. n) /\ Cardinality(1 .. n) = n
    BY <2>1, FS_Interval
  <2> QED
    BY <2>2 DEF n
<1>2. list \in [P -> T] /\ T = {list[i] : i \in P}
  BY DEF ToSet
<1>3. list \in Surjection(P, T)
  <2> HIDE DEF P, T
  <2> QED
    BY <1>2 DEF Surjection
<1>4. list \in Injection(P, T)
  <2>1. \A i, j \in P : list[i] = list[j] => i = j
    BY DEF Once
  <2> HIDE DEF P, T
  <2> QED
    BY <1>2, <2>1 DEF Injection, IsInjective
<1>5. IsFiniteSet(T) /\ Cardinality(T) = Cardinality(P)
  <2> HIDE DEF P, T
  <2>1. IsFiniteSet(T)
    BY <1>1, <1>3, FS_Surjection
  <2>2. list \in Bijection(P, T)
    BY <1>3, <1>4 DEF Bijection
  <2> QED
    BY <1>1, <2>1, <2>2, FS_Bijection DEF ExistsBijection
<1> QED
  BY <1>1, <1>5

(* The first elements of a list.                                             *)
LEMMA TopElements ==
  ASSUME NEW S, NEW list \in Seq(S), NEW n \in Int
  PROVE  \E k \in 0 .. Len(list) :
           /\ Top(list, n) \in Seq(S)
           /\ DOMAIN Top(list, n) = 1 .. k /\ Len(Top(list, n)) = k
           /\ \A i \in 1 .. k : Top(list, n)[i] = list[i]
           /\ n > 0 => k = Smaller(n, Len(list))
<1> DEFINE cut == IF n < 0 THEN Len(list) + n ELSE Smaller(n, Len(list))
<1>1. Top(list, n) = SubSeq(list, 1, cut) /\ (n > 0 => cut = Smaller(n, Len(list)))
  BY DEF Top
<1>2. cut \in Int /\ cut <= Len(list) /\ (n > 0 => cut >= 0)
  <2>1. Len(list) \in Nat
    OBVIOUS
  <2> QED
    BY <2>1 DEF Smaller
<1> HIDE DEF cut
<1>3. CASE cut >= 1
  <2>1. /\ SubSeq(list, 1, cut) \in Seq(S) /\ Len(SubSeq(list, 1, cut)) = cut
        /\ DOMAIN SubSeq(list, 1, cut) = 1 .. cut
        /\ \A i \in 1 .. cut : SubSeq(list, 1, cut)[i] = list[i]
        /\ cut \in 0 .. Len(list)
    BY <1>2, <1>3
  <2> QED
    BY <1>1, <2>1
<1>4. CASE cut < 1
  <2>1. SubSeq(list, 1, cut) = <<>>
    BY <1>2, <1>4
  <2>2. <<>> \in Seq(S) /\ DOMAIN <<>> = 1 .. 0 /\ Len(<<>>) = 0 /\ 0 \in 0 .. Len(list)
    OBVIOUS
  <2>3. n > 0 => cut = 0
    BY <1>2, <1>4
  <2>4. \A i \in 1 .. 0 : FALSE
    OBVIOUS
  <2> QED
    BY <1>1, <2>1, <2>2, <2>3, <2>4
<1> QED
  BY <1>2, <1>3, <1>4

(* The rows of a report that are shown.                                      *)
LEMMA ShownRows ==
  ASSUME NEW S, NEW list \in Seq(S), NEW key, NEW reverse \in BOOLEAN,
         \A i \in DOMAIN list : key[list[i]] \in Int, NEW n \in Int,
         NEW top, top = Top(SortedBy(list, key, reverse), n)
  PROVE  /\ ToSet(top) \subseteq ToSet(list)
         /\ \A i, j \in DOMAIN top : i < j => ~Over(key, reverse, top[j], top[i])
         /\ n > 0 => /\ Len(top) = Smaller(n, Len(list))
                     /\ \A r \in ToSet(list) \ ToSet(top) : \A q \in ToSet(top) :
                          ~Over(key, reverse, r, q)
<1> DEFINE sorted == SortedBy(list, key, reverse)
           P == DOMAIN list
<1>1. /\ sorted \in Seq(S) /\ Len(sorted) = Len(list)
      /\ \A i \in P : \E m \in P : sorted[m] = list[i]
      /\ \A m \in P : \E i \in P : sorted[m] = list[i]
      /\ \A m, k \in P : m < k => ~Over(key, reverse, sorted[k], sorted[m])
  BY SortedElements
<1>2. P = 1 .. Len(list) /\ Len(list) \in Nat
  OBVIOUS
<1> HIDE DEF sorted, P
<1>3. PICK k \in 0 .. Len(sorted) :
           /\ DOMAIN top = 1 .. k /\ Len(top) = k
           /\ \A i \in 1 .. k : top[i] = sorted[i]
           /\ n > 0 => k = Smaller(n, Len(sorted))
  <2>1. top = Top(sorted, n)
    BY DEF sorted
  <2>2. \E k \in 0 .. Len(sorted) :
           /\ Top(sorted, n) \in Seq(S)
           /\ DOMAIN Top(sorted, n) = 1 .. k /\ Len(Top(sorted, n)) = k
           /\ \A i \in 1 .. k : Top(sorted, n)[i] = sorted[i]
           /\ n > 0 => k = Smaller(n, Len(sorted))
    BY <1>1, TopElements
  <2> QED
    BY <2>1, <2>2
<1>4. \A i \in 1 .. k : i \in P
  BY <1>1, <1>2
<1>5. ToSet(top) \subseteq ToSet(list)
  <2> SUFFICES ASSUME NEW r \in ToSet(top)
               PROVE  r \in ToSet(list)
    OBVIOUS
  <2>1. PICK i \in 1 .. k : r = sorted[i]
    BY <1>3 DEF ToSet
  <2>2. PICK m \in P : r = list[m]
    BY <1>1, <1>4, <2>1
  <2> QED
    BY <2>2 DEF ToSet, P
<1>6. \A i, j \in DOMAIN top : i < j => ~Over(key, reverse, top[j], top[i])
  BY <1>1, <1>3, <1>4
<1>7. ASSUME NEW r \in ToSet(list) \ ToSet(top), NEW q \in ToSet(top)
      PROVE  ~Over(key, reverse, r, q)
  <2>1. PICK i \in 1 .. k : q = sorted[i]
    BY <1>3 DEF ToSet
  <2>2. PICK l \in P : r = list[l]
    BY DEF ToSet, P
  <2>5. PICK m \in P : r = sorted[m]
    BY <1>1, <2>2
  <2>3. m \notin 1 .. k
    BY <1>3, <2>5 DEF ToSet
  <2>4. i < m
    BY <1>1, <1>2, <2>3
  <2> QED
    BY <1>1, <1>4, <2>1, <2>5, <2>4
<1> QED
  BY <1>1, <1>3, <1>5, <1>6, <1>7

-----------------------------------------------------------------------------
(* Nothing is ranked that is not in scope.                                   *)

\* A list that another begins with.
Begins(list, whole) == \A i \in DOMAIN list : i \in DOMAIN whole /\ list[i] = whole[i]

(* The next page of a list.                                                  *)
LEMMA PageBegins ==
  ASSUME NEW S, NEW whole \in Seq(S), NEW size \in Nat \ {0}, NEW p \in Nat,
         NEW list \in Seq(S), Len(list) = p * size, Begins(list, whole)
  PROVE  Begins(list \o Page(whole, size, p), whole)
<1> DEFINE n == p * size
           e == Smaller((p + 1) * size, Len(whole))
           batch == Page(whole, size, p)
<1>1. n \in Nat /\ (p + 1) * size = n + size /\ Len(whole) \in Nat /\ Len(list) = n
  OBVIOUS
<1>2. e \in Nat /\ e <= Len(whole)
  <2> HIDE DEF n
  <2> QED
    BY <1>1 DEF Smaller
<1>3. batch = SubSeq(whole, n + 1, e)
  BY DEF Page
<1> HIDE DEF n, e, batch
<1>4. batch \in Seq(S) /\ \A k \in DOMAIN batch : n + k \in DOMAIN whole /\ batch[k] = whole[n + k]
  <2>1. CASE n < e
    <3>1. batch \in Seq(S) /\ Len(batch) = e - n
      BY <1>1, <1>2, <1>3, <2>1
    <3>2. \A k \in 1 .. e - n : n + k \in 1 .. Len(whole) /\ batch[k] = whole[n + k]
      BY <1>1, <1>2, <1>3, <2>1
    <3> QED
      BY <3>1, <3>2
  <2>2. CASE ~(n < e)
    <3>1. batch = <<>>
      BY <1>1, <1>2, <1>3, <2>2
    <3> QED
      BY <3>1
  <2> QED
    BY <2>1, <2>2
<1>5. ASSUME NEW i \in DOMAIN (list \o batch)
      PROVE  i \in DOMAIN whole /\ (list \o batch)[i] = whole[i]
  <2>1. CASE i \in DOMAIN list
    <3>1. (list \o batch)[i] = list[i]
      BY <1>4, <2>1
    <3> QED
      BY <2>1, <3>1 DEF Begins
  <2>2. CASE i \notin DOMAIN list
    <3>1. i - n \in DOMAIN batch /\ (list \o batch)[i] = batch[i - n]
      BY <1>1, <1>4, <2>2
    <3>2. i \in Int /\ n + (i - n) = i
      BY <1>1, <1>4
    <3> QED
      BY <1>4, <3>1, <3>2
  <2> QED
    BY <2>1, <2>2
<1> QED
  BY <1>5 DEF Begins, batch

\* What is found of the scope is in it.
Beginnings ==
  /\ Once(found)
  /\ stage \in {"beginning", "scope"} /\ changes = 0 =>
       /\ request.location = NoLocation =>
            /\ Begins(out, OfKind)
            /\ pc = "listing" => Len(out) = page * PageSize
       /\ request.location # NoLocation =>
            /\ ToSet(roots) \subseteq Site
            /\ pc = "searching" => ToSet(names) \subseteq ToSet(Sites[request.location])

\* What is to be ranked is in scope, and none of it twice.
Within ==
  stage = "stats" /\ changes = 0 => ToSet(rows) \subseteq InScope(request.kind) /\ Once(rows)

LEMMA EmptyOnce == Once(<<>>)
BY NoDomain DEF Once

LEMMA InitBeginnings ==
  ASSUME ToolInit
  PROVE  Beginnings /\ Within
<1>1. found = <<>> /\ out = <<>> /\ roots = <<>> /\ pc = "start" /\ stage = "beginning"
  BY DEF ToolInit, Init
<1>2. Begins(out, OfKind)
  BY <1>1, NoDomain DEF Begins
<1> QED
  BY <1>1, <1>2, EmptyOnce, EmptyElements DEF Beginnings, Within

(* The walk finds nothing twice.                                             *)
LEMMA FoundOnce ==
  ASSUME Walking, Inventories, Once(found), Query
  PROVE  Once(found')
<1>1. CASE UNCHANGED found
  BY <1>1 DEF Once
<1>2. CASE \E kids \in Seq(Resources) : Collect(kids)
  <2>1. PICK kids \in Seq(Resources) : Collect(kids)
    BY <1>2
  <2> DEFINE some == Among(kids, {r \in Resources : Kind[r] = kind})
  <2>2. found' = Distinct(found \o some)
    BY <2>1 DEF Collect
  <2>3. found \o some \in Seq(Resources)
    BY <2>1, AmongElements, ConcatElements DEF Walking
  <2> HIDE DEF some
  <2>4. Once(Distinct(found \o some))
    BY <2>3, DistinctOnce
  <2> QED
    BY <2>2, <2>4
<1>3. CASE FetchPage
  <2>1. /\ pc = "fetching"
        /\ \/ \E kids \in {out \o Batch(children[Head(frontier)], page)} : Collect(kids)
           \/ UNCHANGED <<walk, pc>>
    BY <1>3 DEF FetchPage
  <2>2. out \o Batch(children[Head(frontier)], page) \in Seq(Resources)
    <3>1. children[Head(frontier)] \in Seq(Resources)
      BY <2>1, TailElements DEF Walking, Inventories
    <3>2. Batch(children[Head(frontier)], page) \in Seq(Resources)
      BY <3>1, BatchType DEF Walking
    <3> QED
      BY <3>2, ConcatElements DEF Walking
  <2> QED
    BY <1>1, <1>2, <2>1, <2>2 DEF walk
<1>4. CASE FetchFails
  BY <1>2, <1>4 DEF FetchFails, Walking
<1>5. CASE Resolve \/ ListPage \/ ListFails \/ Search \/ BeginWalk \/ SkipVisited \/ Expand \/ NextLevel
  BY <1>1, <1>5 DEF Resolve, ListPage, ListFails, Search, BeginWalk, SkipVisited, Expand, NextLevel, walk
<1> QED
  BY <1>3, <1>4, <1>5 DEF Query

LEMMA ListPageBegins ==
  ASSUME Walking, Inventories, ListPage, Begins(out, OfKind), Len(out) = page * PageSize
  PROVE  Begins(out', OfKind) /\ (pc' = "listing" => Len(out') = page' * PageSize)
<1> DEFINE l == Len(OfKind)
           n == page * PageSize
           e == Smaller((page + 1) * PageSize, l)
           batch == Batch(OfKind, page)
<1>1. /\ out' = out \o batch
      /\ pc' = "listing" => page' = page + 1 /\ ~(Len(out') >= l)
  BY DEF ListPage, Listed
<1>2. OfKind \in Seq(Resources) /\ page \in Nat /\ PageSize \in Nat \ {0} /\ out \in Seq(Resources)
  BY OfKindType, SizesAssumption DEF Walking
<1>3. Begins(out', OfKind)
  BY <1>1, <1>2, PageBegins DEF Batch
<1>4. /\ batch \in Seq(Resources)
      /\ Len(batch) = IF l <= n THEN 0 ELSE e - n
  BY <1>2, PageElements DEF Batch
<1>5. l \in Nat /\ n \in Nat /\ (page + 1) * PageSize = n + PageSize /\ Len(out) = n
  BY <1>2
<1>6. Len(out') = n + Len(batch)
  <2>1. \A a, b \in Seq(Resources) : Len(a \o b) = Len(a) + Len(b)
    OBVIOUS
  <2> QED
    BY <1>1, <1>2, <1>4, <1>5, <2>1, Zenon
<1>7. e = IF n + PageSize < l THEN n + PageSize ELSE l
  BY <1>5 DEF Smaller
<1> HIDE DEF l, n, e, batch
<1>8. ~(Len(out') >= l) => Len(out') = n + PageSize
  <2> DEFINE got == IF l <= n THEN 0 ELSE e - n
             fetched == n + got
  <2>1. ~(fetched >= l) => ~(l <= n) /\ e = n + PageSize
    <3> HIDE DEF got, fetched
    <3>1. got = (IF l <= n THEN 0 ELSE e - n) /\ fetched = n + got
      BY DEF got, fetched
    <3> QED
      BY <1>2, <1>5, <1>7, <3>1, PageEnds
  <2>2. Len(out') = fetched
    BY <1>4, <1>6
  <2>3. ~(l <= n) /\ e = n + PageSize => fetched = n + PageSize
    BY <1>2, <1>5
  <2> HIDE DEF fetched
  <2> QED
    BY <2>1, <2>2, <2>3
<1> QED
  BY <1>1, <1>3, <1>5, <1>8

\* A search finds datacenters of the location only.
LEMMA SearchWithin ==
  ASSUME Walking, Inventories, order = given.order, Search,
         ToSet(names) \subseteq ToSet(Sites[request.location]), ToSet(roots) \subseteq Site
  PROVE  ToSet(names') \subseteq ToSet(Sites[request.location]) /\ ToSet(roots') \subseteq Site
<1> DEFINE name == Head(names)
           list == Matches(name)
<1>1. /\ names # <<>> /\ names' = Tail(names)
      /\ roots' = roots \o Page(list, SearchSize, 0) \/ roots' = roots
  BY DEF Search, FirstMatches
<1>2. ToSet(names) = {name} \cup ToSet(names')
  BY <1>1, TailElements DEF Walking
<1>3. order \in Seq(Resources) /\ roots \in Seq(Resources)
  BY DEF Inventories, Walking
<1>4. /\ list \in Seq(Resources)
      /\ ToSet(list) = ToSet(order) \cap {r \in Resources : Kind[r] = "Datacenter" /\ name \in PartsOf[NameOf[r]]}
  BY <1>3, AmongElements DEF Matches
<1> HIDE DEF name, list
<1>5. ToSet(list) \subseteq Site
  BY <1>2, <1>4 DEF Site
<1>6. /\ Page(list, SearchSize, 0) \in Seq(Resources)
      /\ ToSet(Page(list, SearchSize, 0)) \subseteq ToSet(list)
  <2>1. SearchSize \in Nat \ {0} /\ 0 \in Nat /\ Len(list) \in Nat /\ 0 * SearchSize + 1 = 1
    BY <1>4, SizesAssumption
  <2> DEFINE e == Smaller((0 + 1) * SearchSize, Len(list))
  <2>2. /\ Page(list, SearchSize, 0) \in Seq(Resources)
        /\ ToSet(Page(list, SearchSize, 0)) = Between(list, 1, e)
    BY <1>4, <2>1, PageElements
  <2>3. e \in Nat /\ e <= Len(list)
    BY <2>1 DEF Smaller
  <2> HIDE DEF e
  <2>4. \A i \in 1 .. e : i \in DOMAIN list
    BY <1>4, <2>3
  <2>5. Between(list, 1, e) \subseteq ToSet(list)
    BY <2>4 DEF Between, ToSet
  <2> QED
    BY <2>2, <2>5
<1>7. ToSet(roots') \subseteq Site
  <2>1. CASE roots' = roots
    BY <2>1
  <2>2. CASE roots' = roots \o Page(list, SearchSize, 0)
    <3>1. ToSet(roots') = ToSet(roots) \cup ToSet(Page(list, SearchSize, 0))
      BY <1>3, <1>6, <2>2, ConcatElements
    <3> QED
      BY <1>5, <1>6, <3>1
  <2> QED
    BY <1>1, <2>1, <2>2
<1> QED
  BY <1>2, <1>7

LEMMA ScopingBeginnings ==
  ASSUME Searches, AsGiven, Locating, Beginnings, Scoping
  PROVE  Beginnings'
<1>1. Walking /\ Inventories /\ Fresh /\ UNCHANGED stage /\ Query
  BY DEF Searches, Scope, Scoping
<1>2. Once(found')
  BY <1>1, FoundOnce DEF Beginnings
<1>3. CASE stage = "host scope"
  BY <1>1, <1>2, <1>3 DEF Beginnings
<1>4. CASE stage = "scope"
  <2>1. UNCHANGED <<inventory, given, kind>>
    BY <1>1, QueryInventory DEF Query, Resolve, ListPage, ListFails, Search, BeginWalk, SkipVisited, Expand,
                FetchPage, FetchFails, NextLevel
  <2>2. request' = request /\ Site' = Site /\ OfKind' = OfKind /\ changes' = changes
    BY <2>1 DEF request, Site, OfKind, inventory
  <2> SUFFICES ASSUME changes = 0
               PROVE  /\ request.location = NoLocation =>
                           /\ Begins(out', OfKind)
                           /\ pc' = "listing" => Len(out') = page' * PageSize
                      /\ request.location # NoLocation =>
                           /\ ToSet(roots') \subseteq Site
                           /\ pc' = "searching" => ToSet(names') \subseteq ToSet(Sites[request.location])
    BY <1>2, <2>2 DEF Beginnings, Begins
  <2>3. /\ request.location = NoLocation =>
             /\ Begins(out, OfKind)
             /\ pc = "listing" => Len(out) = page * PageSize
             /\ pc \in {"start", "listing", "done"}
        /\ request.location # NoLocation =>
             /\ ToSet(roots) \subseteq Site
             /\ pc = "searching" => ToSet(names) \subseteq ToSet(Sites[request.location])
             /\ pc # "listing"
        /\ order = given.order
    BY <1>4 DEF Beginnings, Locating, AsGiven
  <2>4. CASE Resolve
    <3>1. /\ UNCHANGED <<out, page, roots>> /\ pc = "start"
          /\ pc' = "listing" => request.location = NoLocation
          /\ pc' = "searching" => names' = Sites[request.location]
      BY <2>4 DEF Resolve
    <3>2. out = <<>> /\ page = 0 /\ Len(<<>>) = 0 /\ 0 * PageSize = 0
      BY <1>1, <3>1, SizesAssumption DEF Fresh
    <3> QED
      BY <2>3, <3>1, <3>2
  <2>5. CASE ListPage
    <3>1. pc = "listing"
      BY <2>5 DEF ListPage
    <3> QED
      BY <1>1, <2>3, <2>5, <3>1, ListPageBegins
  <2>6. CASE ListFails
    BY <2>3, <2>6 DEF ListFails
  <2>7. CASE Search
    <3>1. pc = "searching"
      BY <2>7 DEF Search
    <3> QED
      BY <1>1, <2>3, <2>7, <3>1, SearchWithin
  <2>8. CASE BeginWalk \/ SkipVisited \/ Expand \/ FetchPage \/ FetchFails \/ NextLevel
    <3>1. /\ UNCHANGED roots /\ pc' \in {"walking", "fetching", "done"}
          /\ pc \in {"searching", "walking", "fetching"}
      BY <2>8 DEF BeginWalk, SkipVisited, Expand, FetchPage, Collect, FetchFails, NextLevel
    <3> QED
      BY <2>3, <3>1
  <2> QED
    BY <1>1, <2>4, <2>5, <2>6, <2>7, <2>8 DEF Query
<1> QED
  BY <1>3, <1>4 DEF Scoping

LEMMA ToolBeginnings ==
  ASSUME Searches, AsGiven, Locating, Beginnings, [ToolNext]_toolVars
  PROVE  Beginnings'
<1>1. CASE Scoping
  BY <1>1, ScopingBeginnings
<1>2. CASE InventoryChanges
  <2>1. UNCHANGED found /\ changes' # 0
    BY <1>2, InventoryWalk DEF InventoryChanges, Searches, Scope, Inventories, walk
  <2> QED
    BY <2>1 DEF Beginnings, Once
<1>3. CASE BeginTool \/ UNCHANGED toolVars
  <2>1. /\ UNCHANGED <<order, changes, given, kind, pc, names, roots, out, page, found>>
        /\ stage' \in {"beginning", "scope"} => stage \in {"beginning", "scope"}
    BY <1>3 DEF BeginTool, Reports, toolVars, scope, vars, inventory, walk
  <2>2. request' = request /\ OfKind' = OfKind /\ Site' = Site
    BY <2>1 DEF request, OfKind, Site
  <2> QED
    BY <2>1, <2>2 DEF Beginnings, Begins, Once
<1>4. CASE NextCluster
  <2>1. found' = <<>> /\ stage' \notin {"beginning", "scope"}
    BY <1>4 DEF NextCluster
  <2> QED
    BY <2>1, NoDomain DEF Beginnings, Once
<1>5. CASE \/ ReportUnknown \/ Attach \/ FetchStats \/ ReportQuery \/ ReportCapacity \/ ReportOversized
           \/ BeginHosts \/ EvaluateHosts \/ Recommend
  <2>1. UNCHANGED found /\ stage' \notin {"beginning", "scope"}
    BY <1>5 DEF ReportUnknown, Attach, FetchStats, ReportQuery, ReportCapacity, ReportOversized, BeginHosts,
                EvaluateHosts, Recommend, Reports, scope, vars, walk
  <2> QED
    BY <2>1 DEF Beginnings, Once
<1> QED
  BY <1>1, <1>2, <1>3, <1>4, <1>5, Zenon DEF ToolNext, Tool

(* A scope that is found is in scope.                                        *)
LEMMA ScopeWithin ==
  ASSUME Searches, AsGiven, Locating, Beginnings, stage = "scope", pc = "done", changes = 0,
         NEW list, list = IF request.location = NoLocation THEN out ELSE found
  PROVE  ToSet(list) \subseteq InScope(request.kind) /\ Once(list)
<1>1. given \in Cases /\ kind = request.kind /\ order = given.order /\ Inventories
  BY DEF Searches, Scope, Inventories, AsGiven, Locating
<1>2. CASE request.location = NoLocation
  <2>1. Begins(out, OfKind) /\ list = out
    BY <1>2 DEF Beginnings
  <2>2. OfKind \in Seq(Resources) /\ ToSet(OfKind) = {r \in ToSet(order) : Kind[r] = kind}
    BY <1>1, OfKindElements
  <2>3. Once(OfKind)
    <3>1. order \in Seq(Resources) /\ Once(order)
      BY <1>1, CasesAssumption DEF Once
    <3> QED
      BY <3>1, AmongOnce DEF OfKind
  <2>4. InScope(request.kind) = ToSet(OfKind)
    BY <1>1, <1>2, <2>2 DEF InScope
  <2>5. ToSet(out) \subseteq ToSet(OfKind)
    BY <2>1 DEF Begins, ToSet
  <2>6. Once(out)
    BY <2>1, <2>3 DEF Begins, Once
  <2> QED
    BY <2>1, <2>4, <2>5, <2>6
<1>3. CASE request.location # NoLocation
  <2>1. list = found /\ Once(found) /\ ToSet(roots) \subseteq Site
    BY <1>3 DEF Beginnings
  <2>2. ToSet(found) \subseteq Beneath(ToSet(roots), kind)
    BY DEF Searches, Sound
  <2>3. Beneath(ToSet(roots), kind) \subseteq Beneath(Site, request.kind)
    BY <1>1, <2>1, BeneathGrows
  <2>4. InScope(request.kind) = Beneath(Site, request.kind)
    BY <1>3 DEF InScope, Site
  <2> QED
    BY <2>1, <2>2, <2>3, <2>4
<1> QED
  BY <1>2, <1>3

LEMMA ToolWithin ==
  ASSUME Searches, AsGiven, Locating, Beginnings, Within, [ToolNext]_toolVars
  PROVE  Within'
<1> SUFFICES ASSUME stage' = "stats", changes' = 0
             PROVE  ToSet(rows') \subseteq InScope(request.kind)' /\ Once(rows')
  BY DEF Within, Once
<1>1. changes = 0 /\ UNCHANGED <<children, given>>
  BY ToolBefore
<1>2. InScope(request.kind)' = InScope(request.kind)
  BY <1>1, SameInScope
<1>3. CASE Attach
  <2>1. /\ pc = "done" /\ stage = "scope"
        /\ rows' = IF request.location = NoLocation THEN out ELSE found
    BY <1>3 DEF Attach
  <2> QED
    BY <1>1, <1>2, <2>1, ScopeWithin
<1>4. CASE ~Attach
  <2>1. UNCHANGED <<stage, rows>>
    BY <1>4 DEF ToolNext, Tool, BeginTool, Scoping, FetchStats, ReportUnknown, ReportQuery,
                ReportCapacity, ReportOversized, BeginHosts, NextCluster, EvaluateHosts, Recommend,
                InventoryChanges, Reports, toolVars, attached
  <2> QED
    BY <1>1, <1>2, <2>1 DEF Within
<1> QED
  BY <1>3, <1>4

-----------------------------------------------------------------------------
(* What a report shows.                                                      *)

(* The first of the rows ranked by a key.                                    *)
LEMMA RankedRows ==
  ASSUME rows \in Seq(Resources), Once(rows), NEW C, C \subseteq ToSet(rows),
         NEW key, \A r \in C : key[r] \in Int, NEW reverse \in BOOLEAN, NEW n \in Int,
         NEW shown, shown = Top(SortedBy(Among(rows, C), key, reverse), n)
  PROVE  /\ ToSet(shown) \subseteq C
         /\ \A i, j \in DOMAIN shown : i < j => ~Over(key, reverse, shown[j], shown[i])
         /\ n > 0 => /\ Len(shown) = Smaller(n, Cardinality(C))
                     /\ \A r \in C \ ToSet(shown) : \A q \in ToSet(shown) : ~Over(key, reverse, r, q)
<1> DEFINE list == Among(rows, C)
<1>1. list \in Seq(Resources) /\ ToSet(list) = C
  <2>1. list \in Seq(Resources) /\ ToSet(list) = ToSet(rows) \cap C
    BY AmongElements
  <2> QED
    BY <2>1
<1>2. Once(list)
  BY AmongOnce
<1>3. shown = Top(SortedBy(list, key, reverse), n)
  OBVIOUS
<1> HIDE DEF list
<1>4. \A i \in DOMAIN list : key[list[i]] \in Int
  <2>1. \A i \in DOMAIN list : list[i] \in C
    BY <1>1 DEF ToSet
  <2> QED
    BY <2>1
<1>5. Cardinality(C) = Len(list)
  BY <1>1, <1>2, ListSize
<1> QED
  BY <1>1, <1>3, <1>4, <1>5, ShownRows

\* The rows that are shown are those to be shown, in their order.
RankedRight(shown) ==
  /\ ToSet(shown) \subseteq Rated(-2)
  /\ \A i, j \in DOMAIN shown : i < j => ~Outranks(shown[j], shown[i])
  /\ (~failed /\ request.top > 0) =>
       /\ Len(shown) >= Smaller(request.top, Cardinality(Rated(2)))
       /\ Len(shown) <= Smaller(request.top, Cardinality(Rated(-2)))
       /\ \A r \in Rated(2) \ ToSet(shown) : \A q \in ToSet(shown) : ~Outranks(r, q)

LEMMA SmallerGrows ==
  ASSUME NEW a \in Int, NEW b \in Int, NEW m \in Int, a <= b
  PROVE  Smaller(m, b) >= Smaller(m, a) /\ Smaller(m, a) <= Smaller(m, b)
BY DEF Smaller

(* Rows that are chosen and ranked by a key that does not contradict the     *)
(* statistics are ranked right.                                              *)
LEMMA RankedByKey ==
  ASSUME rows \in Seq(Resources), Once(rows), NEW C, C \subseteq ToSet(rows),
         NEW key, \A r \in C : key[r] \in Int, NEW reverse \in BOOLEAN, request.top \in Int,
         NEW shown, shown = Top(SortedBy(Among(rows, C), key, reverse), request.top),
         \A r, q \in C : Outranks(r, q) => Over(key, reverse, r, q),
         C \subseteq Rated(-2),
         ~failed => InScope(request.kind) \subseteq ToSet(rows) /\ Rated(2) \subseteq C
  PROVE  RankedRight(shown)
<1> DEFINE n == request.top
<1>1. /\ ToSet(shown) \subseteq C
      /\ \A i, j \in DOMAIN shown : i < j => ~Over(key, reverse, shown[j], shown[i])
      /\ n > 0 => /\ Len(shown) = Smaller(n, Cardinality(C))
                  /\ \A r \in C \ ToSet(shown) : \A q \in ToSet(shown) : ~Over(key, reverse, r, q)
  BY RankedRows
<1>2. \A i \in DOMAIN shown : shown[i] \in C
  BY <1>1 DEF ToSet
<1>3. ASSUME ~failed, n > 0
      PROVE  /\ Len(shown) >= Smaller(n, Cardinality(Rated(2)))
             /\ Len(shown) <= Smaller(n, Cardinality(Rated(-2)))
             /\ \A r \in Rated(2) \ ToSet(shown) : \A q \in ToSet(shown) : ~Outranks(r, q)
  <2>1. IsFiniteSet(ToSet(rows))
    BY ListSize
  <2> DEFINE most == Rated(-2)
             least == Rated(2)
  <2>2. most \subseteq ToSet(rows)
    BY <1>3 DEF Rated
  <2>3. least \subseteq C /\ C \subseteq most
    BY <1>3
  <2> HIDE DEF most, least, n
  <2>4. IsFiniteSet(most) /\ IsFiniteSet(C)
    BY <2>1, <2>2, FS_Subset
  <2>5. /\ Cardinality(least) <= Cardinality(C) /\ Cardinality(C) <= Cardinality(most)
        /\ IsFiniteSet(least)
    BY <2>3, <2>4, FS_Subset
  <2>6. Cardinality(least) \in Nat /\ Cardinality(C) \in Nat /\ Cardinality(most) \in Nat
    BY <2>4, <2>5, FS_CardinalityType
  <2>7. Len(shown) = Smaller(n, Cardinality(C)) /\ n \in Int
    BY <1>1, <1>3 DEF n
  <2>8. \A a, b, m \in Int : a <= b => Smaller(m, b) >= Smaller(m, a) /\ Smaller(m, a) <= Smaller(m, b)
    BY SmallerGrows
  <2>9. Len(shown) >= Smaller(n, Cardinality(least)) /\ Len(shown) <= Smaller(n, Cardinality(most))
    <3> DEFINE x == Cardinality(least)
               y == Cardinality(C)
               z == Cardinality(most)
    <3>1. x \in Int /\ y \in Int /\ z \in Int /\ x <= y /\ y <= z /\ Len(shown) = Smaller(n, y)
      BY <2>5, <2>6, <2>7
    <3> HIDE DEF x, y, z
    <3>2. Smaller(n, y) >= Smaller(n, x) /\ Smaller(n, y) <= Smaller(n, z)
      BY <2>7, <2>8, <3>1
    <3>3. Len(shown) >= Smaller(n, x) /\ Len(shown) <= Smaller(n, z)
      BY <3>1, <3>2
    <3> QED
      BY <3>3 DEF x, z
  <2>10. \A r \in least \ ToSet(shown) : \A q \in ToSet(shown) : ~Outranks(r, q)
    BY <1>1, <1>3, <2>3
  <2> QED
    BY <2>9, <2>10 DEF most, least, n
<1> QED
  BY <1>1, <1>2, <1>3 DEF RankedRight

-----------------------------------------------------------------------------
(* The statistics of what is ranked.                                         *)

Counted(s) ==
  \A k \in DOMAIN s :
    /\ s[k] \in Int
    /\ k \in {"mhz", "host mem", "cluster mem", "vcpus", "vm mhz", "recommended mhz"} => s[k] >= 0

\* The statistics that the server has of a resource.
Served(r) == IF r \in DOMAIN given.stats THEN given.stats[r] ELSE <<>>

LEMMA StatsServed ==
  ASSUME Searches, Answers, NEW r \in Resources
  PROVE  /\ StatsOf(r) = <<>> \/ StatsOf(r) = Served(r)
         /\ Counted(Served(r)) /\ Counted(StatsOf(r))
<1>1. StatsOf(r) = <<>> \/ StatsOf(r) = Served(r)
  BY DEF StatsOf, Served, Answers
<1>2. Counted(<<>>)
  BY NoDomain DEF Counted
<1>3. Counted(Served(r))
  <2>1. given \in Cases
    BY DEF Searches, Scope, Inventories
  <2>2. CASE r \in DOMAIN given.stats
    BY <2>1, <2>2, StatsAssumption DEF Served, Counted
  <2> QED
    BY <1>2, <2>2 DEF Served
<1> QED
  BY <1>1, <1>2, <1>3

(* When no request has failed, every row has its statistics.                 *)
LEMMA RowServed ==
  ASSUME Searches, Answers, Fetched, ~failed, Attached("stats"), NEW r \in ToSet(rows)
  PROVE  StatsOf(r) = Served(r)
<1>1. CASE r \in DOMAIN given.stats
  BY <1>1, RowStats DEF Served
<1>2. CASE r \notin DOMAIN given.stats
  BY <1>2 DEF Served, StatsOf, Answers
<1> QED
  BY <1>1, <1>2

\* What is free of a type of capacity.
FreeOf(s, dim) ==
  IF {dim.remaining, dim.usable} \subseteq DOMAIN s /\ Num(s, dim.usable) > 0
  THEN {<<100 * s[dim.remaining], s[dim.usable]>>}
  ELSE {<<100 - s[k], 1>> : k \in {dim.usage} \cap DOMAIN s}

LEMMA FreeServed ==
  ASSUME NEW r, NEW dim
  PROVE  PctFree(r, dim) = FreeOf(Served(r), dim)
BY DEF PctFree, FreeOf, Served

LEMMA TenthsType ==
  ASSUME NEW m \in Int, NEW a \in Nat \ {0}
  PROVE  Tenths(m, a) \in Int /\ Tenths(m, a) # Nothing
<1>1. 20 * m + a \in Int /\ 2 * a \in Nat \ {0}
  OBVIOUS
<1>2. Tenths(m, a) \in Int
  BY <1>1, Quotient DEF Tenths
<1> QED
  BY <1>2, NothingAssumption

(* What is reported to be free of a type of capacity is what the statistics  *)
(* say, in tenths of a percent.                                              *)
LEMMA FreeKnown ==
  ASSUME NEW s, Counted(s), NEW dim
  PROVE  \/ PctRemaining(s, dim) = Nothing /\ FreeOf(s, dim) = {}
         \/ \E m \in Int, a \in Nat \ {0} :
              /\ FreeOf(s, dim) = {<<m, a>>}
              /\ PctRemaining(s, dim) = Tenths(m, a)
<1> DEFINE rem == dim.remaining
           usable == dim.usable
           usage == dim.usage
           pct == EnginePct(Num(s, rem), Num(s, usable))
<1>1. \A k : /\ Num(s, k) # Nothing <=> k \in DOMAIN s
             /\ k \in DOMAIN s => Num(s, k) = s[k] /\ s[k] \in Int
  BY NothingAssumption DEF Counted, Num
<1>2. PctRemaining(s, dim) =
        IF pct = Nothing /\ Num(s, usage) # Nothing THEN 10 * (100 - Num(s, usage)) ELSE pct
  BY DEF PctRemaining
<1>3. CASE {rem, usable} \subseteq DOMAIN s /\ Num(s, usable) > 0
  <2> DEFINE m == 100 * s[rem]
             a == s[usable]
  <2>1. m \in Int /\ a \in Nat \ {0} /\ Num(s, rem) = s[rem] /\ Num(s, usable) = a
        /\ Num(s, rem) # Nothing /\ Num(s, usable) # Nothing
    BY <1>1, <1>3
  <2>2. pct = Tenths(100 * Num(s, rem), Num(s, usable))
    BY <1>3, <2>1 DEF EnginePct
  <2>3. pct = Tenths(m, a) /\ FreeOf(s, dim) = {<<m, a>>}
    BY <1>3, <2>1, <2>2 DEF FreeOf
  <2> HIDE DEF m, a, pct
  <2>4. pct # Nothing
    BY <2>1, <2>3, TenthsType
  <2> QED
    BY <1>2, <2>1, <2>3, <2>4
<1>4. CASE ~({rem, usable} \subseteq DOMAIN s /\ Num(s, usable) > 0)
  <2>1. pct = Nothing
    <3>1. CASE {rem, usable} \subseteq DOMAIN s
      <4>1. Num(s, usable) \in Int /\ ~(Num(s, usable) > 0)
        BY <1>1, <1>4, <3>1
      <4>2. Num(s, usable) <= 0
        BY <4>1
      <4> QED
        BY <4>2 DEF EnginePct
    <3>2. CASE ~({rem, usable} \subseteq DOMAIN s)
      <4>1. Nothing \in {Num(s, rem), Num(s, usable)}
        BY <1>1, <3>2
      <4> QED
        BY <4>1 DEF EnginePct
    <3> QED
      BY <3>1, <3>2
  <2>2. FreeOf(s, dim) = {<<100 - s[k], 1>> : k \in {usage} \cap DOMAIN s}
    BY <1>4 DEF FreeOf
  <2>3. CASE usage \in DOMAIN s
    <3> DEFINE m == 100 - s[usage]
    <3>1. m \in Int /\ Num(s, usage) # Nothing /\ Num(s, usage) = s[usage]
      BY <1>1, <2>3
    <3>2. FreeOf(s, dim) = {<<m, 1>>}
      BY <2>2, <2>3
    <3>3. PctRemaining(s, dim) = 10 * m
      BY <1>2, <2>1, <3>1
    <3> HIDE DEF m
    <3>4. Tenths(m, 1) = 10 * m
      BY <3>1 DEF Tenths
    <3>5. 1 \in Nat \ {0}
      OBVIOUS
    <3> QED
      BY <3>1, <3>2, <3>3, <3>4, <3>5
  <2>4. CASE usage \notin DOMAIN s
    <3>1. Num(s, usage) = Nothing
      BY <2>4 DEF Num
    <3> QED
      BY <1>2, <2>1, <2>2, <2>4, <3>1
  <2> QED
    BY <2>3, <2>4
<1> QED
  BY <1>3, <1>4

(* The least that is free of any type of capacity.                           *)
LEMMA LeastKnown ==
  ASSUME NEW s, Counted(s)
  PROVE  /\ LeastFree(s) = Nothing <=> \A dim \in ToSet(Dimensions) : PctRemaining(s, dim) = Nothing
         /\ LeastFree(s) # Nothing =>
              /\ LeastFree(s) \in Int
              /\ \E dim \in ToSet(Dimensions) : PctRemaining(s, dim) = LeastFree(s)
              /\ \A dim \in ToSet(Dimensions) :
                   PctRemaining(s, dim) # Nothing => LeastFree(s) <= PctRemaining(s, dim)
<1> DEFINE p(i) == PctRemaining(s, Dimensions[i])
           V == {p(i) : i \in DOMAIN Dimensions}
<1>1. \A dim : PctRemaining(s, dim) \in Heads
  <2>1. ASSUME NEW dim
        PROVE  PctRemaining(s, dim) \in Heads
    <3>1. \A m \in Int, a \in Nat \ {0} : Tenths(m, a) \in Int
      BY TenthsType
    <3> QED
      BY <3>1, FreeKnown DEF Heads
  <2> QED
    BY <2>1
<1>2. DOMAIN Dimensions = {1, 2, 3}
  BY DEF Dimensions
<1>3. LeastFree(s) = LeastOf(V)
  BY DEF LeastFree
<1>4. V = {p(1), p(2), p(3)}
  BY <1>2
<1>5. /\ LeastOf(V) \in Heads
      /\ LeastOf(V) = Nothing <=> V \subseteq {Nothing}
      /\ LeastOf(V) # Nothing => LeastOf(V) \in V /\ \A v \in V : v # Nothing => LeastOf(V) <= v
  <2>1. p(1) \in Heads /\ p(2) \in Heads /\ p(3) \in Heads
    BY <1>1
  <2> HIDE DEF p, V
  <2> QED
    BY <1>4, <2>1, LeastOfThree
<1>6. V = {PctRemaining(s, dim) : dim \in ToSet(Dimensions)}
  BY DEF ToSet
<1> HIDE DEF V
<1> QED
  BY <1>3, <1>5, <1>6 DEF Heads

-----------------------------------------------------------------------------
(* The capacity report.                                                      *)

(* The least that is free of one is more than of another if it exceeds what  *)
(* is free of any type of the other.                                         *)
LEMMA FreeOrder ==
  ASSUME NEW s, Counted(s), NEW t, Counted(t), NEW most, PctRemaining(s, most) = LeastFree(s),
         LeastFree(s) # Nothing, NEW dim \in ToSet(Dimensions), NEW g \in FreeOf(t, dim),
         \A f \in FreeOf(s, most) : Exceeds(f, g, 10)
  PROVE  LeastFree(t) # Nothing /\ LeastFree(s) > LeastFree(t)
<1>1. PICK n \in Int, b \in Nat \ {0} :
        FreeOf(s, most) = {<<n, b>>} /\ LeastFree(s) = Tenths(n, b)
  BY FreeKnown
<1>2. PICK m \in Int, a \in Nat \ {0} :
        FreeOf(t, dim) = {<<m, a>>} /\ PctRemaining(t, dim) = Tenths(m, a)
  BY FreeKnown
<1>3. 10 * (n * a - m * b) > b * a
  <2>1. Exceeds(<<n, b>>, <<m, a>>, 10)
    BY <1>1, <1>2
  <2> QED
    BY <2>1 DEF Exceeds
<1>4. Tenths(n, b) > Tenths(m, a) /\ Tenths(n, b) \in Int /\ Tenths(m, a) \in Int /\ Tenths(m, a) # Nothing
  BY <1>3, TenthsOrder, TenthsType
<1>5. LeastFree(t) # Nothing /\ LeastFree(t) \in Int /\ LeastFree(t) <= Tenths(m, a)
  BY <1>2, <1>4, LeastKnown
<1> QED
  BY <1>1, <1>4, <1>5

LEMMA KnownIsFree ==
  ASSUME NEW s, Counted(s), NEW dim
  PROVE  FreeOf(s, dim) # {} <=> PctRemaining(s, dim) # Nothing
<1>1. \/ PctRemaining(s, dim) = Nothing /\ FreeOf(s, dim) = {}
      \/ \E m \in Int, a \in Nat \ {0} :
           /\ FreeOf(s, dim) = {<<m, a>>}
           /\ PctRemaining(s, dim) = Tenths(m, a)
  BY FreeKnown
<1>2. ASSUME NEW m \in Int, NEW a \in Nat \ {0},
             FreeOf(s, dim) = {<<m, a>>}, PctRemaining(s, dim) = Tenths(m, a)
      PROVE  FreeOf(s, dim) # {} /\ PctRemaining(s, dim) # Nothing
  <2>1. Tenths(m, a) # Nothing
    BY TenthsType
  <2> QED
    BY <1>2, <2>1
<1> QED
  BY <1>1, <1>2

LEMMA CapacityWorth ==
  ASSUME request.tool = "capacity", NEW r, Counted(Served(r))
  PROVE  /\ Worth(r) = UNION {FreeOf(Served(r), dim) : dim \in ToSet(Dimensions)}
         /\ Worth(r) # {} <=> LeastFree(Served(r)) # Nothing
<1>1. Worth(r) = UNION {PctFree(r, dim) : dim \in ToSet(Dimensions)}
  BY DEF Worth
<1>2. Worth(r) = UNION {FreeOf(Served(r), dim) : dim \in ToSet(Dimensions)}
  BY <1>1, FreeServed
<1>3. \A dim : FreeOf(Served(r), dim) # {} <=> PctRemaining(Served(r), dim) # Nothing
  <2>1. ASSUME NEW dim
        PROVE  FreeOf(Served(r), dim) # {} <=> PctRemaining(Served(r), dim) # Nothing
    BY KnownIsFree
  <2> QED
    BY <2>1
<1>4. LeastFree(Served(r)) # Nothing <=>
        \E dim \in ToSet(Dimensions) : PctRemaining(Served(r), dim) # Nothing
  BY LeastKnown
<1> QED
  BY <1>2, <1>3, <1>4

(* Of two resources with capacity, the one with more has more.               *)
LEMMA CapacityOrder ==
  ASSUME request.tool = "capacity", NEW r, Counted(Served(r)), NEW q, Counted(Served(q)),
         LeastFree(Served(r)) # Nothing, LeastExceeds(Worth(r), Worth(q), 10)
  PROVE  LeastFree(Served(r)) > LeastFree(Served(q))
<1>1. PICK g \in Worth(q) : \A f \in Worth(r) : Exceeds(f, g, 10)
  BY DEF LeastExceeds
<1>2. PICK dim \in ToSet(Dimensions) : g \in FreeOf(Served(q), dim)
  BY CapacityWorth
<1>3. PICK most \in ToSet(Dimensions) : PctRemaining(Served(r), most) = LeastFree(Served(r))
  BY LeastKnown
<1>4. \A f \in FreeOf(Served(r), most) : Exceeds(f, g, 10)
  <2>1. FreeOf(Served(r), most) \subseteq Worth(r)
    BY CapacityWorth
  <2> QED
    BY <1>1, <2>1
<1> QED
  BY <1>2, <1>3, <1>4, FreeOrder

(* The type of capacity that is called the tightest is.                      *)
LEMMA TightestTrue ==
  ASSUME request.tool = "capacity", NEW r, Counted(Served(r)), LeastFree(Served(r)) # Nothing
  PROVE  LET tight == PctFree(r, Bottleneck(Served(r)))
         IN  tight # {} /\ ~LeastExceeds(tight, Worth(r), 10)
<1> DEFINE s == Served(r)
           T == {dim \in ToSet(Dimensions) : PctRemaining(s, dim) = LeastFree(s)}
           list == Among(Dimensions, T)
           most == Bottleneck(s)
<1>1. T # {} /\ T \subseteq ToSet(Dimensions)
  BY LeastKnown
<1>2. list \in Seq(ToSet(Dimensions)) /\ ToSet(list) = T
  <2> DEFINE D == ToSet(Dimensions)
  <2>1. Dimensions \in Seq(D)
    <3>1. Dimensions = [i \in 1 .. 3 |-> Dimensions[i]]
      BY DEF Dimensions
    <3>2. \A i \in 1 .. 3 : Dimensions[i] \in D
      BY <3>1 DEF ToSet
    <3> HIDE DEF D
    <3>3. [i \in 1 .. 3 |-> Dimensions[i]] \in [1 .. 3 -> D] /\ 3 \in Nat
      BY <3>2
    <3> QED
      BY <3>1, <3>3, ListOf
  <2> HIDE DEF D, T
  <2>2. list \in Seq(D) /\ ToSet(list) = ToSet(Dimensions) \cap T
    BY <2>1, AmongElements
  <2> QED
    BY <1>1, <2>2 DEF D
<1>3. most = Head(list)
  BY DEF Bottleneck
<1>4. most \in T
  <2> DEFINE D == ToSet(Dimensions)
  <2> HIDE DEF T, list, D
  <2>0. list \in Seq(D)
    BY <1>2 DEF D
  <2>1. list # <<>>
    BY <1>1, <1>2, EmptyElements
  <2>2. Head(list) \in ToSet(list)
    <3>1. ToSet(list) = {Head(list)} \cup ToSet(Tail(list))
      BY <2>0, <2>1, TailElements
    <3> QED
      BY <3>1
  <2> QED
    BY <1>2, <1>3, <2>2
<1>5. PctRemaining(s, most) = LeastFree(s)
  BY <1>4
<1> HIDE DEF T, list, most
<1>6. FreeOf(s, most) # {}
  <2>1. PctRemaining(s, most) # Nothing
    BY <1>5
  <2> QED
    BY <2>1, KnownIsFree
<1>7. ASSUME NEW g \in Worth(r), \A f \in FreeOf(s, most) : Exceeds(f, g, 10)
      PROVE  FALSE
  <2>1. PICK dim \in ToSet(Dimensions) : g \in FreeOf(s, dim)
    BY CapacityWorth
  <2>2. LeastFree(s) > LeastFree(s)
    BY <1>5, <1>7, <2>1, FreeOrder
  <2>3. LeastFree(s) \in Int
    BY LeastKnown
  <2> QED
    BY <2>2, <2>3
<1>8. PctFree(r, most) = FreeOf(s, most)
  BY FreeServed
<1> QED
  BY <1>6, <1>7, <1>8 DEF LeastExceeds, most

LEMMA SortedType ==
  ASSUME NEW S, NEW list \in Seq(S), NEW key, NEW reverse \in BOOLEAN,
         \A i \in DOMAIN list : key[list[i]] \in Int
  PROVE  SortedBy(list, key, reverse) \in Seq(S) /\ Len(SortedBy(list, key, reverse)) = Len(list)
BY SortedElements

(* Of nothing, nothing is shown.                                             *)
LEMMA NothingShown ==
  ASSUME NEW S, NEW list \in Seq(S), list = <<>>, NEW key, NEW reverse \in BOOLEAN, NEW n \in Int
  PROVE  Top(SortedBy(list, key, reverse), n) = <<>>
<1> DEFINE sorted == SortedBy(list, key, reverse)
<1>1. DOMAIN list = {} /\ Len(list) = 0
  OBVIOUS
<1>2. sorted \in Seq(S) /\ Len(sorted) = 0
  <2>1. \A i \in DOMAIN list : key[list[i]] \in Int
    BY <1>1
  <2>2. SortedBy(list, key, reverse) \in Seq(S) /\ Len(SortedBy(list, key, reverse)) = Len(list)
    BY <2>1, SortedType
  <2> QED
    BY <1>1, <2>2
<1> HIDE DEF sorted
<1>3. PICK k \in 0 .. Len(sorted) : Top(sorted, n) \in Seq(S) /\ Len(Top(sorted, n)) = k
  <2>1. \E k \in 0 .. Len(sorted) :
           /\ Top(sorted, n) \in Seq(S)
           /\ DOMAIN Top(sorted, n) = 1 .. k /\ Len(Top(sorted, n)) = k
           /\ \A i \in 1 .. k : Top(sorted, n)[i] = sorted[i]
           /\ n > 0 => k = Smaller(n, Len(sorted))
    BY <1>2, TopElements
  <2> QED
    BY <2>1
<1>4. \A e \in Seq(S) : Len(e) = 0 => e = <<>>
  OBVIOUS
<1>5. k = 0
  BY <1>2, <1>3
<1>6. Top(sorted, n) = <<>>
  BY <1>3, <1>4, <1>5
<1> QED
  BY <1>6 DEF sorted

LEMMA RowTypes ==
  ASSUME Searches
  PROVE  /\ rows \in Seq(Resources) /\ ToSet(rows) \subseteq Resources
         /\ given \in Cases /\ request.top \in Int
<1>1. rows \in Seq(Resources) /\ given \in Cases
  BY DEF Searches, Clusters, Scope, Inventories
<1>2. ToSet(rows) \subseteq Resources
  BY <1>1, ElementsType
<1>3. request.top \in Int
  BY <1>1, StatsAssumption DEF request
<1> QED
  BY <1>1, <1>2, <1>3

LEMMA NoneFree == LeastFree(<<>>) = Nothing
<1>1. Counted(<<>>)
  BY NoDomain DEF Counted
<1>2. ASSUME NEW dim
      PROVE  FreeOf(<<>>, dim) = {}
  BY NoDomain DEF FreeOf
<1>3. ASSUME NEW dim
      PROVE  PctRemaining(<<>>, dim) = Nothing
  BY <1>1, <1>2, FreeKnown
<1> QED
  BY <1>1, <1>3, LeastKnown

\* Nothing but what its first row says is called the tightest.
TightestRight(table) ==
  table.shown # <<>> =>
    LET tight == PctFree(table.shown[1], table.tightest)
    IN  tight # {} /\ ~LeastExceeds(tight, Worth(table.shown[1]), 10)

LEMMA CapacityReported ==
  ASSUME ReportCapacity
  PROVE  LET least == [r \in ToSet(rows) |-> LeastFree(StatsOf(r))]
             list == Among(rows, {r \in ToSet(rows) : least[r] # Nothing})
             shown == Top(SortedBy(list, least, request.mostFree), request.top)
         IN  \/ list = <<>> /\ report' = Says("no data")
             \/ shown = <<>> /\ report' = Says("failed")
             \/ \E total : report' = [says |-> "table", total |-> total, shown |-> shown,
                                      tightest |-> Bottleneck(StatsOf(Head(shown)))]
<1> DEFINE least == [r \in ToSet(rows) |-> LeastFree(StatsOf(r))]
           list == Among(rows, {r \in ToSet(rows) : least[r] # Nothing})
           table == Table(SortedBy(list, least, request.mostFree))
<1>1. Reports(CASE list = <<>> -> Says("no data")
                [] list # <<>> /\ table.shown = <<>> -> Says("failed")
                [] OTHER -> [says |-> "table", total |-> table.total, shown |-> table.shown,
                             tightest |-> Bottleneck(StatsOf(Head(table.shown)))])
  BY Zenon DEF ReportCapacity
<1>2. table.shown = Top(SortedBy(list, least, request.mostFree), request.top)
  BY DEF Table
<1> HIDE DEF list, least, table
<1>3. \/ list = <<>> /\ report' = Says("no data")
      \/ table.shown = <<>> /\ report' = Says("failed")
      \/ report' = [says |-> "table", total |-> table.total, shown |-> table.shown,
                    tightest |-> Bottleneck(StatsOf(Head(table.shown)))]
  BY <1>1 DEF Reports
<1>4. \/ list = <<>> /\ report' = Says("no data")
      \/ table.shown = <<>> /\ report' = Says("failed")
      \/ \E total : report' = [says |-> "table", total |-> total, shown |-> table.shown,
                               tightest |-> Bottleneck(StatsOf(Head(table.shown)))]
  BY <1>3
<1> QED
  BY <1>2, <1>4, Zenon DEF list, least

LEMMA CapacityRanked ==
  ASSUME Searches, Answers, Fetched, Scoped, Within, changes = 0, ReportCapacity
  PROVE  RankedRight(report'.shown) /\ TightestRight(report')
<1> DEFINE least == [r \in ToSet(rows) |-> LeastFree(StatsOf(r))]
           C == {r \in ToSet(rows) : least[r] # Nothing}
           list == Among(rows, C)
           shown == Top(SortedBy(list, least, request.mostFree), request.top)
<1>1. /\ request.tool = "capacity" /\ Attached("stats") /\ stage = "stats"
      /\ rows \in Seq(Resources) /\ ToSet(rows) \subseteq Resources /\ request.top \in Int
      /\ request.mostFree \in BOOLEAN
  <2>1. request.tool = "capacity" /\ Attached("stats") /\ stage = "stats"
    BY DEF ReportCapacity, Attached
  <2> QED
    BY <2>1, RowTypes, StatsAssumption DEF request
<1>2. list \in Seq(Resources) /\ C \subseteq ToSet(rows)
  BY <1>1, AmongElements
<1>3. \A r \in ToSet(rows) : least[r] = LeastFree(StatsOf(r)) /\ (r \in C <=> least[r] # Nothing)
  OBVIOUS
<1>4. ToSet(rows) \subseteq InScope(request.kind) /\ Once(rows)
  BY <1>1 DEF Within
<1>5. /\ report'.shown = shown
      /\ shown # <<>> => report'.tightest = Bottleneck(StatsOf(Head(shown)))
  <2>1. \/ list = <<>> /\ report' = Says("no data")
        \/ shown = <<>> /\ report' = Says("failed")
        \/ \E total : report' = [says |-> "table", total |-> total, shown |-> shown,
                                 tightest |-> Bottleneck(StatsOf(Head(shown)))]
    BY CapacityReported, Zenon
  <2>2. list = <<>> => shown = <<>>
    <3> HIDE DEF C, list, least
    <3> QED
      BY <1>1, <1>2, NothingShown DEF shown
  <2> HIDE DEF shown, list
  <2>3. Says("no data").shown = <<>> /\ Says("failed").shown = <<>>
    BY DEF Says
  <2>4. CASE \E total : report' = [says |-> "table", total |-> total, shown |-> shown,
                                  tightest |-> Bottleneck(StatsOf(Head(shown)))]
    <3>1. PICK total, tightest : /\ tightest = Bottleneck(StatsOf(Head(shown)))
                                 /\ report' = [says |-> "table", total |-> total, shown |-> shown,
                                              tightest |-> tightest]
      BY <2>4
    <3>2. report'.shown = shown /\ report'.tightest = tightest
      BY ONLY <3>1
    <3> QED
      BY <3>1, <3>2
  <2>5. CASE ~(\E total : report' = [says |-> "table", total |-> total, shown |-> shown,
                                    tightest |-> Bottleneck(StatsOf(Head(shown)))])
    BY <2>1, <2>2, <2>3, <2>5, Zenon
  <2> QED
    BY <2>4, <2>5
<1> HIDE DEF least, C, list
<1>6. ASSUME NEW r \in C
      PROVE  /\ r \in Resources /\ r \in InScope(request.kind) /\ Counted(Served(r))
             /\ StatsOf(r) = Served(r) /\ LeastFree(Served(r)) # Nothing
             /\ least[r] = LeastFree(Served(r)) /\ least[r] \in Int
  <2>1. r \in ToSet(rows) /\ r \in Resources /\ least[r] = LeastFree(StatsOf(r)) /\ least[r] # Nothing
    BY <1>1, <1>2, <1>3
  <2>2. Counted(Served(r)) /\ (StatsOf(r) = <<>> \/ StatsOf(r) = Served(r))
    BY <2>1, StatsServed
  <2>3. StatsOf(r) = Served(r)
    BY <2>1, <2>2, NoneFree
  <2> QED
    BY <1>4, <2>1, <2>2, <2>3, LeastKnown
<1>7. ASSUME NEW r \in C, NEW q \in C, Outranks(r, q)
      PROVE  Over(least, request.mostFree, r, q)
  <2>1. IF request.mostFree THEN LeastExceeds(Worth(r), Worth(q), 10)
        ELSE LeastExceeds(Worth(q), Worth(r), 10)
    BY <1>1, <1>7 DEF Outranks
  <2>2. /\ Counted(Served(r)) /\ LeastFree(Served(r)) # Nothing /\ least[r] = LeastFree(Served(r))
        /\ Counted(Served(q)) /\ LeastFree(Served(q)) # Nothing /\ least[q] = LeastFree(Served(q))
        /\ least[r] \in Int /\ least[q] \in Int
    BY <1>6
  <2>3. CASE request.mostFree
    BY <1>1, <2>1, <2>2, <2>3, CapacityOrder DEF Over
  <2>4. CASE ~request.mostFree
    <3>1. LeastFree(Served(q)) > LeastFree(Served(r))
      BY <1>1, <2>1, <2>2, <2>4, CapacityOrder
    <3> QED
      BY <2>2, <2>4, <3>1 DEF Over
  <2> QED
    BY <2>3, <2>4
<1>8. \A more : Rated(more) = {r \in InScope(request.kind) : Worth(r) # {}}
  BY <1>1 DEF Rated
<1>9. C \subseteq Rated(-2)
  BY <1>1, <1>6, <1>8, CapacityWorth
<1>10. ASSUME ~failed
       PROVE  InScope(request.kind) \subseteq ToSet(rows) /\ Rated(2) \subseteq C
  <2>1. InScope(request.kind) \subseteq ToSet(rows)
    BY <1>1, <1>10 DEF Scoped
  <2>2. ASSUME NEW r \in Rated(2)
        PROVE  r \in C
    <3>1. r \in ToSet(rows) /\ r \in Resources /\ Worth(r) # {}
      BY <1>1, <1>8, <2>1
    <3>2. Counted(Served(r)) /\ StatsOf(r) = Served(r)
      BY <1>1, <1>10, <3>1, StatsServed, RowServed
    <3>3. LeastFree(Served(r)) # Nothing
      BY <1>1, <3>1, <3>2, CapacityWorth
    <3> QED
      BY <1>3, <3>1, <3>2, <3>3
  <2> QED
    BY <2>1, <2>2
<1>11. RankedRight(shown)
  <2>1. \A r \in C : least[r] \in Int
    BY <1>6
  <2>2. \A r, q \in C : Outranks(r, q) => Over(least, request.mostFree, r, q)
    BY <1>7
  <2>3. shown = Top(SortedBy(Among(rows, C), least, request.mostFree), request.top)
    BY DEF list
  <2> HIDE DEF shown
  <2> QED
    BY <1>1, <1>2, <1>4, <1>9, <1>10, <2>1, <2>2, <2>3, RankedByKey
<1>12. ASSUME shown # <<>>
       PROVE  LET tight == PctFree(shown[1], Bottleneck(StatsOf(Head(shown))))
              IN  tight # {} /\ ~LeastExceeds(tight, Worth(shown[1]), 10)
  <2>1. shown \in Seq(Resources) /\ ToSet(shown) \subseteq C
    <3>1. \A r \in C : least[r] \in Int
      BY <1>6
    <3>2. shown = Top(SortedBy(Among(rows, C), least, request.mostFree), request.top)
      BY DEF list
    <3>3. ToSet(shown) \subseteq C
      <4> HIDE DEF shown
      <4> QED
        BY <1>1, <1>2, <1>4, <3>1, <3>2, RankedRows
    <3>4. shown \in Seq(Resources)
      <4> DEFINE sorted == SortedBy(list, least, request.mostFree)
      <4>1. \A i \in DOMAIN list : least[list[i]] \in Int
        <5>1. ToSet(list) = ToSet(rows) \cap C
          BY <1>1, AmongElements DEF list
        <5> QED
          BY <3>1, <5>1 DEF ToSet
      <4>2. sorted \in Seq(Resources)
        BY <1>1, <1>2, <4>1, SortedElements
      <4> HIDE DEF sorted
      <4>3. Top(sorted, request.top) \in Seq(Resources)
        BY <1>1, <4>2, TopElements
      <4> QED
        BY <4>3 DEF sorted
    <3> QED
      BY <3>3, <3>4
  <2> HIDE DEF shown
  <2>2. Head(shown) = shown[1] /\ shown[1] \in ToSet(shown)
    BY <1>12, <2>1 DEF ToSet
  <2>3. StatsOf(shown[1]) = Served(shown[1]) /\ Counted(Served(shown[1])) /\ LeastFree(Served(shown[1])) # Nothing
    BY <1>6, <2>1, <2>2
  <2> QED
    BY <1>1, <2>2, <2>3, TightestTrue
<1> HIDE DEF shown
<1> QED
  BY <1>5, <1>11, <1>12 DEF TightestRight

-----------------------------------------------------------------------------
(* The query.                                                                *)

LEMMA QueryReported ==
  ASSUME ReportQuery, request.sortBy # Nothing
  PROVE  LET value == [r \in ToSet(rows) |-> Num(StatsOf(r), request.sortBy)]
             list == Among(rows, {r \in ToSet(rows) : value[r] # Nothing})
         IN  report'.shown = Top(SortedBy(list, value, request.descending), request.top)
<1> DEFINE value == [r \in ToSet(rows) |-> Num(StatsOf(r), request.sortBy)]
           list == Among(rows, {r \in ToSet(rows) : value[r] # Nothing})
           sorted == SortedBy(list, value, request.descending)
           ranked == IF request.sortBy = Nothing THEN rows ELSE sorted
<1>1. Reports([Table(ranked) EXCEPT !.total = Len(rows)])
  BY Zenon DEF ReportQuery
<1>2. ranked = sorted
  OBVIOUS
<1> HIDE DEF list, value, ranked, sorted
<1>3. report' = [Table(ranked) EXCEPT !.total = Len(rows)]
  BY <1>1 DEF Reports
<1>4. [Table(ranked) EXCEPT !.total = Len(rows)].shown = Top(ranked, request.top)
  BY DEF Table
<1>5. report'.shown = Top(sorted, request.top)
  BY <1>2, <1>3, <1>4
<1> QED
  BY <1>5 DEF sorted, list, value

LEMMA QueryRanked ==
  ASSUME Searches, Answers, Fetched, Scoped, Within, changes = 0, ReportQuery, request.sortBy # Nothing
  PROVE  RankedRight(report'.shown)
<1> DEFINE key == request.sortBy
           value == [r \in ToSet(rows) |-> Num(StatsOf(r), request.sortBy)]
           C == {r \in ToSet(rows) : value[r] # Nothing}
           list == Among(rows, C)
           shown == Top(SortedBy(list, value, request.descending), request.top)
<1>1. /\ request.tool = "query" /\ Attached("stats") /\ stage = "stats"
      /\ rows \in Seq(Resources) /\ ToSet(rows) \subseteq Resources /\ request.top \in Int
      /\ request.descending \in BOOLEAN
  <2>1. request.tool = "query" /\ Attached("stats") /\ stage = "stats"
    BY DEF ReportQuery, Attached
  <2> QED
    BY <2>1, RowTypes, StatsAssumption DEF request
<1>2. C \subseteq ToSet(rows)
  OBVIOUS
<1>3. \A r \in ToSet(rows) : value[r] = Num(StatsOf(r), key) /\ (r \in C <=> value[r] # Nothing)
  OBVIOUS
<1>4. ToSet(rows) \subseteq InScope(request.kind) /\ Once(rows)
  BY <1>1 DEF Within
<1>5. report'.shown = shown
  BY QueryReported, Zenon
<1>6. shown = Top(SortedBy(Among(rows, C), value, request.descending), request.top)
  OBVIOUS
<1>7. \A r : Worth(r) = IF key \in DOMAIN Served(r) THEN {<<Served(r)[key], 1>>} ELSE {}
  <2>1. \A r : Worth(r) = IF r \in DOMAIN given.stats /\ key \in DOMAIN given.stats[r]
                          THEN {<<given.stats[r][key], 1>>} ELSE {}
    BY <1>1 DEF Worth
  <2> QED
    BY <2>1, NoDomain DEF Served
<1> HIDE DEF value, C, list, shown, key
<1>8. ASSUME NEW r \in C
      PROVE  /\ r \in InScope(request.kind)
             /\ Worth(r) = {<<value[r], 1>>} /\ value[r] \in Int
  <2>1. r \in ToSet(rows) /\ r \in Resources /\ value[r] = Num(StatsOf(r), key) /\ value[r] # Nothing
    BY <1>1, <1>2, <1>3
  <2>2. Counted(Served(r)) /\ (StatsOf(r) = <<>> \/ StatsOf(r) = Served(r))
    BY <2>1, StatsServed
  <2>3. key \in DOMAIN StatsOf(r) /\ value[r] = StatsOf(r)[key]
    BY <2>1 DEF Num
  <2>4. StatsOf(r) = Served(r)
    BY <2>2, <2>3, NoDomain
  <2>5. key \in DOMAIN Served(r) /\ value[r] = Served(r)[key] /\ value[r] \in Int
    BY <2>2, <2>3, <2>4 DEF Counted
  <2> QED
    BY <1>4, <1>7, <2>1, <2>5
<1>9. ASSUME NEW r \in C, NEW q \in C, Outranks(r, q)
      PROVE  Over(value, request.descending, r, q)
  <2>1. /\ Worth(r) = {<<value[r], 1>>} /\ value[r] \in Int
        /\ Worth(q) = {<<value[q], 1>>} /\ value[q] \in Int
    BY <1>8
  <2>2. \A v, w \in Int : LeastExceeds({<<v, 1>>}, {<<w, 1>>}, 1000) => v > w
    BY DEF LeastExceeds, Exceeds
  <2>3. IF request.descending THEN LeastExceeds(Worth(r), Worth(q), 1000)
        ELSE LeastExceeds(Worth(q), Worth(r), 1000)
    BY <1>1, <1>9 DEF Outranks
  <2>4. CASE request.descending
    BY <2>1, <2>2, <2>3, <2>4 DEF Over
  <2>5. CASE ~request.descending
    <3>1. value[q] > value[r]
      BY <2>1, <2>2, <2>3, <2>5
    <3> QED
      BY <2>1, <2>5, <3>1 DEF Over
  <2> QED
    BY <2>4, <2>5
<1>10. \A more : Rated(more) = {r \in InScope(request.kind) : Worth(r) # {}}
  BY <1>1 DEF Rated
<1>11. C \subseteq Rated(-2)
  BY <1>8, <1>10
<1>12. ASSUME ~failed
       PROVE  InScope(request.kind) \subseteq ToSet(rows) /\ Rated(2) \subseteq C
  <2>1. InScope(request.kind) \subseteq ToSet(rows)
    BY <1>1, <1>12 DEF Scoped
  <2>2. ASSUME NEW r \in Rated(2)
        PROVE  r \in C
    <3>1. r \in ToSet(rows) /\ r \in Resources /\ key \in DOMAIN Served(r)
      BY <1>1, <1>7, <1>10, <2>1
    <3>2. Counted(Served(r)) /\ StatsOf(r) = Served(r)
      BY <1>1, <1>12, <3>1, StatsServed, RowServed
    <3>3. Num(StatsOf(r), key) # Nothing
      BY <3>1, <3>2, NothingAssumption DEF Num, Counted
    <3> QED
      BY <1>3, <3>1, <3>3
  <2> QED
    BY <2>1, <2>2
<1>13. RankedRight(shown)
  <2>1. \A r \in C : value[r] \in Int
    BY <1>8
  <2>2. \A r, q \in C : Outranks(r, q) => Over(value, request.descending, r, q)
    BY <1>9
  <2> QED
    BY <1>1, <1>2, <1>4, <1>6, <1>11, <1>12, <2>1, <2>2, RankedByKey
<1> QED
  BY <1>5, <1>13

-----------------------------------------------------------------------------
(* The report of oversized VMs.                                              *)

Gain(n) == IF n > 0 THEN n ELSE 0

SizesOfVm == {"vcpus", "vm mhz", "recommended mhz"}

\* What a VM could give back of its CPU, a vCPU counting as two, and of its
\* memory.
CpuGain(s) ==
  IF SizesOfVm \subseteq DOMAIN s /\ \A k \in SizesOfVm : s[k] > 0
  THEN <<2 * s["vcpus"] * (s["vm mhz"] - s["recommended mhz"]), s["vm mhz"]>>
  ELSE <<0, 1>>

MemGain(s) ==
  IF {"mem", "recommended mem"} \subseteq DOMAIN s THEN s["mem"] - s["recommended mem"] ELSE 0

LEMMA ReclaimableServed ==
  ASSUME NEW r
  PROVE  LET s == Served(r)
         IN  Reclaimable(r) = <<Gain(CpuGain(s)[1]) + Gain(MemGain(s)) * CpuGain(s)[2], CpuGain(s)[2]>>
BY DEF Reclaimable, Served, Gain, CpuGain, MemGain, SizesOfVm

\* Twice the hundredths of a vCPU, within half a hundredth each.
LEMMA VcpuRounded ==
  ASSUME NEW v \in Nat \ {0}, NEW spare \in Nat \ {0}, NEW d \in Nat \ {0}
  PROVE  LET t == Tenths(10 * v * spare, d)
             x == 2 * v * spare
         IN  /\ t \in Int /\ x \in Nat \ {0}
             /\ 2 * (t * d) <= 100 * x + d /\ 100 * x <= 2 * (t * d) + d
<1> DEFINE t == Tenths(10 * v * spare, d)
           x == 2 * v * spare
           w == v * spare
<1>1. w \in Nat \ {0} /\ x = 2 * w /\ 10 * v * spare = 10 * w
  OBVIOUS
<1> HIDE DEF w
<1>2. 20 * (10 * w) + d \in Int /\ 2 * d \in Nat \ {0} /\ t = (20 * (10 * w) + d) \div (2 * d)
  BY <1>1 DEF Tenths
<1> HIDE DEF t
<1>3. /\ t \in Int /\ t * (2 * d) <= 20 * (10 * w) + d
      /\ 20 * (10 * w) + d < t * (2 * d) + 2 * d
  BY <1>2, Quotient
<1>4. t * (2 * d) = 2 * (t * d) /\ t * d \in Int
  BY <1>3
<1>5. 2 * (t * d) <= 100 * x + d /\ 100 * x <= 2 * (t * d) + d /\ x \in Nat \ {0}
  <2> DEFINE e == t * d
  <2>1. e \in Int /\ 2 * e <= 200 * w + d /\ 200 * w + d < 2 * e + 2 * d
    BY <1>1, <1>3, <1>4
  <2> HIDE DEF e
  <2>2. 2 * e <= 100 * (2 * w) + d /\ 100 * (2 * w) <= 2 * e + d
    BY <1>1, <2>1
  <2> QED
    BY <1>1, <2>2 DEF e
<1> QED
  BY <1>3, <1>5 DEF t

LEMMA VcpuKnown ==
  ASSUME NEW s, Counted(s)
  PROVE  \E x \in Nat, d \in Nat \ {0}, t \in Int :
           /\ Gain(CpuGain(s)[1]) = x /\ CpuGain(s)[2] = d /\ ReclaimableVcpu(s) = t
           /\ t > 0 => x > 0
           /\ 2 * (t * d) <= 100 * x + d /\ 100 * x <= 2 * (t * d) + d
<1> DEFINE v == s["vcpus"]
           m == s["vm mhz"]
           c == s["recommended mhz"]
           sizes == {Num(s, "vcpus"), Num(s, "vm mhz"), Num(s, "recommended mhz")}
<1>1. \A k : /\ Num(s, k) # Nothing <=> k \in DOMAIN s
             /\ k \in DOMAIN s => Num(s, k) = s[k] /\ s[k] \in Int
  BY NothingAssumption DEF Counted, Num
<1>2. \A k \in SizesOfVm \cap DOMAIN s : s[k] \in Nat
  <2>1. \A k \in SizesOfVm \cap DOMAIN s : s[k] \in Int /\ s[k] >= 0
    BY DEF Counted, SizesOfVm
  <2> QED
    BY <2>1
<1>3. CASE /\ SizesOfVm \subseteq DOMAIN s /\ \A k \in SizesOfVm : s[k] > 0
  <2>1. v \in Nat \ {0} /\ m \in Nat \ {0} /\ c \in Nat \ {0}
    <3>1. \A k \in SizesOfVm : s[k] \in Nat /\ s[k] > 0
      BY <1>2, <1>3
    <3>2. \A k \in SizesOfVm : s[k] \in Nat \ {0}
      BY <3>1
    <3> QED
      BY <3>2 DEF SizesOfVm
  <2>7. Num(s, "vcpus") = v /\ Num(s, "vm mhz") = m /\ Num(s, "recommended mhz") = c
    BY <1>1, <1>3 DEF SizesOfVm
  <2>2. Known(sizes) /\ 0 \notin sizes
    <3>1. v # Nothing /\ m # Nothing /\ c # Nothing /\ v # 0 /\ m # 0 /\ c # 0
      <4>1. \A k \in Nat \ {0} : k # Nothing /\ k # 0
        BY NothingAssumption
      <4> HIDE DEF v, m, c
      <4> QED
        BY <2>1, <4>1
    <3> HIDE DEF v, m, c
    <3> QED
      BY <2>7, <3>1 DEF Known
  <2>3. ReclaimableVcpu(s) = IF m - c > 0 THEN Tenths(10 * v * (m - c), m) ELSE 0
    BY <2>7, <2>2 DEF ReclaimableVcpu
  <2>4. CpuGain(s)[1] = 2 * v * (m - c) /\ CpuGain(s)[2] = m
    <3>1. CpuGain(s) = <<2 * v * (m - c), m>>
      BY <1>3, Zenon DEF CpuGain
    <3>2. PICK g : g = 2 * v * (m - c)
      OBVIOUS
    <3>3. CpuGain(s) = <<g, m>>
      BY <3>1, <3>2, Zenon
    <3> HIDE DEF m
    <3>4. CpuGain(s)[1] = g /\ CpuGain(s)[2] = m
      BY <3>3
    <3> QED
      BY <3>2, <3>4
  <2> HIDE DEF v, m, c, sizes
  <2>5. CASE m - c > 0
    <3> DEFINE spare == m - c
               x == 2 * v * spare
               t == Tenths(10 * v * spare, m)
    <3>1. spare \in Nat \ {0}
      BY <2>1, <2>5
    <3> HIDE DEF spare
    <3>2. /\ t \in Int /\ x \in Nat \ {0}
          /\ 2 * (t * m) <= 100 * x + m /\ 100 * x <= 2 * (t * m) + m
      BY <2>1, <3>1, VcpuRounded
    <3>3. CpuGain(s)[1] = x /\ ReclaimableVcpu(s) = t
      BY <2>3, <2>4, <2>5 DEF spare
    <3> HIDE DEF x, t
    <3>4. Gain(CpuGain(s)[1]) = x
      BY <3>2, <3>3 DEF Gain
    <3> QED
      BY <2>1, <2>4, <3>2, <3>3, <3>4
  <2>6. CASE ~(m - c > 0)
    <3>1. ~(2 * v * (m - c) > 0)
      <4>1. 2 * v \in Nat /\ m - c \in Int /\ m - c <= 0 /\ 0 \in Int
        BY <2>1, <2>6
      <4>2. (m - c) * (2 * v) <= 0 * (2 * v)
        BY <4>1, Scales
      <4>3. (m - c) * (2 * v) = 2 * v * (m - c) /\ 0 * (2 * v) = 0 /\ 2 * v * (m - c) \in Int
        BY <4>1
      <4> QED
        BY <4>2, <4>3
    <3>2. Gain(CpuGain(s)[1]) = 0 /\ ReclaimableVcpu(s) = 0
      BY <2>3, <2>4, <2>6, <3>1 DEF Gain
    <3>3. 0 \in Nat /\ 0 \in Int /\ 2 * (0 * m) <= 100 * 0 + m /\ 100 * 0 <= 2 * (0 * m) + m
      BY <2>1
    <3> QED
      BY <2>1, <2>4, <3>2, <3>3
  <2> QED
    BY <2>5, <2>6
<1>4. CASE ~(/\ SizesOfVm \subseteq DOMAIN s /\ \A k \in SizesOfVm : s[k] > 0)
  <2>1. CpuGain(s) = <<0, 1>>
    BY <1>4 DEF CpuGain
  <2>2. Gain(CpuGain(s)[1]) = 0 /\ CpuGain(s)[2] = 1
    BY <2>1 DEF Gain
  <2>3. ~Known(sizes) \/ 0 \in sizes
    <3>1. CASE \E k \in SizesOfVm : k \notin DOMAIN s
      BY <1>1, <3>1 DEF Known, SizesOfVm
    <3>2. CASE \A k \in SizesOfVm : k \in DOMAIN s
      <4>1. PICK k \in SizesOfVm : ~(s[k] > 0)
        BY <1>4, <3>2
      <4>2. s[k] \in Nat /\ Num(s, k) = s[k]
        BY <1>1, <1>2, <3>2
      <4>3. Num(s, k) = 0
        BY <4>1, <4>2
      <4> QED
        BY <4>3 DEF SizesOfVm
    <3> QED
      BY <3>1, <3>2
  <2>4. ReclaimableVcpu(s) = 0
    BY <2>3 DEF ReclaimableVcpu
  <2>5. 0 \in Nat /\ 0 \in Int /\ 1 \in Nat \ {0} /\ 2 * (0 * 1) <= 100 * 0 + 1 /\ 100 * 0 <= 2 * (0 * 1) + 1
    OBVIOUS
  <2> QED
    BY <2>2, <2>4, <2>5
<1> QED
  BY <1>3, <1>4

LEMMA MemKnown ==
  ASSUME NEW s, Counted(s)
  PROVE  Gain(MemGain(s)) \in Nat /\ ReclaimableMem(s) = 100 * Gain(MemGain(s))
<1>1. \A k : /\ Num(s, k) # Nothing <=> k \in DOMAIN s
             /\ k \in DOMAIN s => Num(s, k) = s[k] /\ s[k] \in Int
  BY NothingAssumption DEF Counted, Num
<1>2. CASE {"mem", "recommended mem"} \subseteq DOMAIN s
  <2> DEFINE g == s["mem"] - s["recommended mem"]
  <2>1. /\ g \in Int /\ Num(s, "mem") - Num(s, "recommended mem") = g /\ MemGain(s) = g
        /\ Known({Num(s, "mem"), Num(s, "recommended mem")})
    <3>1. Num(s, "mem") = s["mem"] /\ Num(s, "recommended mem") = s["recommended mem"]
      BY <1>1, <1>2
    <3>2. s["mem"] \in Int /\ s["recommended mem"] \in Int
      BY <1>1, <1>2
    <3>3. Known({Num(s, "mem"), Num(s, "recommended mem")})
      BY <3>1, <3>2, NothingAssumption DEF Known
    <3>4. MemGain(s) = g
      BY <1>2 DEF MemGain
    <3>5. g \in Int
      <4>1. \A a, b \in Int : a - b \in Int
        OBVIOUS
      <4> QED
        BY <3>2, <4>1, Zenon
    <3>6. Num(s, "mem") - Num(s, "recommended mem") = g
      BY <3>1
    <3> HIDE DEF g
    <3> QED
      BY <3>3, <3>4, <3>5, <3>6
  <2>2. ReclaimableMem(s) = IF g > 0 THEN 100 * g ELSE 0
    BY <2>1 DEF ReclaimableMem
  <2> HIDE DEF g
  <2>3. g \in Int /\ MemGain(s) = g
    BY <2>1
  <2>4. CASE g > 0
    <3>1. Gain(MemGain(s)) = g /\ g \in Nat
      BY <2>3, <2>4 DEF Gain
    <3> QED
      BY <2>2, <2>4, <3>1
  <2>5. CASE ~(g > 0)
    <3>1. Gain(MemGain(s)) = 0
      BY <2>3, <2>5 DEF Gain
    <3> QED
      BY <2>2, <2>5, <3>1
  <2> QED
    BY <2>4, <2>5
<1>3. CASE ~({"mem", "recommended mem"} \subseteq DOMAIN s)
  <2>1. ~Known({Num(s, "mem"), Num(s, "recommended mem")})
    BY <1>1, <1>3 DEF Known
  <2>2. ReclaimableMem(s) = 0 /\ MemGain(s) = 0
    BY <1>3, <2>1 DEF ReclaimableMem, MemGain
  <2> QED
    BY <2>2 DEF Gain
<1> QED
  BY <1>2, <1>3

(* The score of a VM is the hundredths of a GB it could give back, within    *)
(* one.                                                                      *)
LEMMA ScoreKnown ==
  ASSUME NEW r, Counted(Served(r)), NEW score, score = OversizeScore(Served(r))
  PROVE  \E n \in Nat, d \in Nat \ {0} :
           /\ Reclaimable(r) = <<n, d>>
           /\ score \in Int
           /\ score > 0 => n > 0
           /\ score * d <= 100 * n + d /\ 100 * n <= score * d + d
<1> DEFINE s == Served(r)
           y == Gain(MemGain(s))
<1>1. PICK x \in Nat, d \in Nat \ {0}, t \in Int :
           /\ Gain(CpuGain(s)[1]) = x /\ CpuGain(s)[2] = d /\ ReclaimableVcpu(s) = t
           /\ t > 0 => x > 0
           /\ 2 * (t * d) <= 100 * x + d /\ 100 * x <= 2 * (t * d) + d
  BY VcpuKnown
<1>2. y \in Nat /\ ReclaimableMem(s) = 100 * y
  BY MemKnown
<1>3. Reclaimable(r) = <<x + y * d, d>>
  BY <1>1, ReclaimableServed
<1>4. score = 2 * t + 100 * y
  BY <1>1, <1>2 DEF OversizeScore
<1> HIDE DEF y
<1> DEFINE n == x + y * d
           u == t * d
           w == y * d
<1>5. /\ u \in Int /\ w \in Nat /\ n = x + w /\ n \in Nat /\ score \in Int
      /\ score * d = 2 * u + 100 * w
  <2>1. (2 * t + 100 * y) * d = 2 * (t * d) + 100 * (y * d)
    BY <1>1, <1>2
  <2> QED
    BY <1>1, <1>2, <1>4, <2>1
<1>6. score > 0 => n > 0
  <2>1. y > 0 => w > 0
    BY <1>1, <1>2
  <2>2. score > 0 => t > 0 \/ y > 0
    BY <1>2, <1>4
  <2> HIDE DEF n, u, w
  <2> QED
    BY <1>1, <1>5, <2>1, <2>2
<1>7. score * d <= 100 * n + d /\ 100 * n <= score * d + d
  <2>1. 2 * u <= 100 * x + d /\ 100 * x <= 2 * u + d
    BY <1>1
  <2> DEFINE z == score * d
  <2>2. z = 2 * u + 100 * w
    BY <1>5
  <2> HIDE DEF n, u, w, z
  <2>3. z <= 100 * n + d /\ 100 * n <= z + d
    BY <1>5, <2>1, <2>2
  <2> QED
    BY <2>3 DEF z
<1> QED
  BY <1>3, <1>5, <1>6, <1>7

(* Of two VMs, the one that could give back more has the higher score.       *)
LEMMA ScoreOrder ==
  ASSUME NEW r, Counted(Served(r)), NEW q, Counted(Served(q)),
         LeastExceeds({Reclaimable(r)}, {Reclaimable(q)}, 50)
  PROVE  OversizeScore(Served(r)) > OversizeScore(Served(q))
<1> DEFINE u == OversizeScore(Served(r))
           v == OversizeScore(Served(q))
<1>1. PICK n \in Nat, a \in Nat \ {0} :
        Reclaimable(r) = <<n, a>> /\ u \in Int /\ 100 * n <= u * a + a
  BY ScoreKnown
<1>2. PICK m \in Nat, b \in Nat \ {0} :
        Reclaimable(q) = <<m, b>> /\ v \in Int /\ v * b <= 100 * m + b
  BY ScoreKnown
<1>3. 50 * (n * b - m * a) > a * b
  <2>1. Exceeds(<<n, a>>, <<m, b>>, 50)
    BY <1>1, <1>2 DEF LeastExceeds
  <2> QED
    BY <2>1 DEF Exceeds
<1> HIDE DEF u, v
<1> DEFINE x == n * b
           y == m * a
           z == a * b
           p == u * z
           w == v * z
<1>4. z \in Nat \ {0} /\ x \in Int /\ y \in Int /\ p \in Int /\ w \in Int /\ u \in Int /\ v \in Int
  BY <1>1, <1>2
<1>5. 100 * x <= p + z
  <2>1. (100 * n) * b <= (u * a + a) * b
    BY <1>1, Scales
  <2>2. (100 * n) * b = 100 * x
    OBVIOUS
  <2>3. (u * a + a) * b = p + z
    BY <1>1
  <2> QED
    BY <2>1, <2>2, <2>3
<1>6. w <= 100 * y + z
  <2>1. (v * b) * a <= (100 * m + b) * a
    BY <1>2, Scales
  <2>2. (100 * m + b) * a = 100 * y + z
    OBVIOUS
  <2>3. (v * b) * a = w
    BY <1>2
  <2> QED
    BY <2>1, <2>2, <2>3
<1>7. w < p
  <2>1. 50 * (x - y) > z
    BY <1>3
  <2> HIDE DEF x, y, z, p, w
  <2> QED
    BY <1>4, <1>5, <1>6, <2>1
<1>8. u <= v => p <= w
  <2> HIDE DEF z
  <2> QED
    BY <1>4, Scales
<1>9. ~(u <= v)
  <2> HIDE DEF p, w, z
  <2> QED
    BY <1>4, <1>7, <1>8
<1> QED
  BY <1>4, <1>9 DEF u, v

\* How much a VM has to be able to give back.
Floor == IF Higher(request.floor, 0) THEN request.floor ELSE 0

LEMMA FloorMeans ==
  ASSUME request.floor \in Int \cup {Nothing}
  PROVE  /\ Floor \in Nat
         /\ \A x \in Int : x > 0 =>
              ((request.floor = Nothing \/ ~Higher(request.floor, x)) <=> Floor <= x)
<1>1. CASE request.floor = Nothing
  BY <1>1, NothingAssumption DEF Floor, Higher
<1>2. CASE request.floor \in Int
  <2>1. \A x \in Int : x # Nothing
    BY NothingAssumption
  <2>2. \A x \in Int : Higher(request.floor, x) <=> request.floor > x
    BY <1>2, <2>1 DEF Higher
  <2>3. Floor = IF request.floor > 0 THEN request.floor ELSE 0
    BY <2>2 DEF Floor
  <2> QED
    BY <1>2, <2>1, <2>2, <2>3
<1> QED
  BY <1>1, <1>2

(* Within two hundredths of a GB, a VM is reported exactly if it could give  *)
(* back as much as asked for.                                                *)
LEMMA FloorRounded ==
  ASSUME NEW score \in Int, NEW n \in Nat, NEW d \in Nat \ {0}, NEW f \in Nat,
         score > 0 => n > 0,
         score * d <= 100 * n + d, 100 * n <= score * d + d
  PROVE  /\ score > 0 /\ f <= score => n > 0 /\ 100 * n >= (f + -2) * d
         /\ n > 0 /\ 100 * n >= (f + 2) * d => score > 0 /\ f <= score
<1> DEFINE e == f * d
           z == score * d
<1>1. e \in Int /\ z \in Int /\ (f + -2) * d = e - 2 * d /\ (f + 2) * d = e + 2 * d /\ (f + 1) * d = e + d
  OBVIOUS
<1>2. f <= score => e <= z
  BY Scales
<1>3. (f + 1) * d <= z => f + 1 <= score
  BY Cancels
<1>4. z <= 100 * n + d /\ 100 * n <= z + d
  OBVIOUS
<1> HIDE DEF e, z
<1>5. ASSUME score > 0, f <= score
      PROVE  100 * n >= (f + -2) * d
  <2>1. 100 * n >= e - 2 * d
    BY <1>1, <1>2, <1>4, <1>5
  <2> QED
    BY <1>1, <2>1
<1>6. ASSUME 100 * n >= (f + 2) * d
      PROVE  f + 1 <= score
  <2>1. 100 * n >= e + 2 * d
    BY <1>1, <1>6
  <2>2. e + d <= z
    BY <1>1, <1>4, <2>1
  <2> QED
    BY <1>1, <1>3, <2>2
<1>7. f + 1 <= score => score > 0 /\ f <= score
  OBVIOUS
<1> QED
  BY <1>5, <1>6, <1>7

LEMMA NoScore == ~(OversizeScore(<<>>) > 0)
<1>1. Counted(<<>>)
  BY NoDomain DEF Counted
<1>2. MemGain(<<>>) = 0 /\ CpuGain(<<>>) = <<0, 1>>
  BY NoDomain DEF MemGain, CpuGain, SizesOfVm
<1>3. ReclaimableMem(<<>>) = 0
  <2>1. Gain(0) = 0
    BY DEF Gain
  <2> QED
    BY <1>1, <1>2, <2>1, MemKnown
<1>4. PICK x \in Nat, t \in Int : Gain(CpuGain(<<>>)[1]) = x /\ ReclaimableVcpu(<<>>) = t /\ (t > 0 => x > 0)
  BY <1>1, VcpuKnown
<1>5. Gain(CpuGain(<<>>)[1]) = 0
  <2>1. <<0, 1>>[1] = 0 /\ Gain(0) = 0
    BY DEF Gain
  <2> QED
    BY <1>2, <2>1
<1> QED
  BY <1>3, <1>4, <1>5 DEF OversizeScore

LEMMA OversizedReported ==
  ASSUME ReportOversized
  PROVE  LET score == [r \in ToSet(rows) |-> OversizeScore(StatsOf(r))]
             list == Among(rows, {r \in ToSet(rows) :
                       score[r] > 0 /\ (request.floor = Nothing \/ ~Higher(request.floor, score[r]))})
         IN  \/ list = <<>> /\ report'.shown = <<>>
             \/ report'.shown = Top(SortedBy(list, score, TRUE), request.top)
<1> DEFINE score == [r \in ToSet(rows) |-> OversizeScore(StatsOf(r))]
           list == Among(rows, {r \in ToSet(rows) :
                     score[r] > 0 /\ (request.floor = Nothing \/ ~Higher(request.floor, score[r]))})
           sorted == SortedBy(list, score, TRUE)
<1>1. Reports(IF list = <<>> THEN Says("none oversized") ELSE Table(sorted))
  BY Zenon DEF ReportOversized
<1> HIDE DEF list, score, sorted
<1>2. \/ list = <<>> /\ report' = Says("none oversized")
      \/ report' = Table(sorted)
  BY <1>1 DEF Reports
<1>3. Says("none oversized").shown = <<>> /\ Table(sorted).shown = Top(sorted, request.top)
  BY DEF Says, Table
<1>4. \/ list = <<>> /\ report'.shown = <<>>
      \/ report'.shown = Top(sorted, request.top)
  BY <1>2, <1>3
<1> QED
  BY <1>4, Zenon DEF list, score, sorted

LEMMA OversizedRanked ==
  ASSUME Searches, Answers, Fetched, Scoped, Within, changes = 0, ReportOversized
  PROVE  RankedRight(report'.shown)
<1> DEFINE score == [r \in ToSet(rows) |-> OversizeScore(StatsOf(r))]
           C == {r \in ToSet(rows) :
                  score[r] > 0 /\ (request.floor = Nothing \/ ~Higher(request.floor, score[r]))}
           list == Among(rows, C)
           shown == Top(SortedBy(list, score, TRUE), request.top)
<1>1. /\ request.tool = "oversized" /\ Attached("stats") /\ stage = "stats"
      /\ rows \in Seq(Resources) /\ ToSet(rows) \subseteq Resources /\ request.top \in Int
      /\ request.floor \in Int \cup {Nothing}
  <2>1. request.tool = "oversized" /\ Attached("stats") /\ stage = "stats"
    BY DEF ReportOversized, Attached
  <2> QED
    BY <2>1, RowTypes, StatsAssumption DEF request
<1>2. C \subseteq ToSet(rows)
  OBVIOUS
<1>3. \A r \in ToSet(rows) :
        /\ score[r] = OversizeScore(StatsOf(r))
        /\ r \in C <=> score[r] > 0 /\ (request.floor = Nothing \/ ~Higher(request.floor, score[r]))
  OBVIOUS
<1>4. ToSet(rows) \subseteq InScope(request.kind) /\ Once(rows)
  BY <1>1 DEF Within
<1>5. report'.shown = shown
  <2>1. \/ list = <<>> /\ report'.shown = <<>>
        \/ report'.shown = shown
    BY OversizedReported, Zenon
  <2>2. list \in Seq(Resources)
    BY <1>1, AmongElements
  <2> HIDE DEF list
  <2>3. list = <<>> => shown = <<>>
    BY <1>1, <2>2, NothingShown
  <2> QED
    BY <2>1, <2>3
<1>6. shown = Top(SortedBy(Among(rows, C), score, TRUE), request.top)
  OBVIOUS
<1> HIDE DEF score, C, list, shown
<1>7. Floor \in Nat /\ \A x \in Int : x > 0 =>
        ((request.floor = Nothing \/ ~Higher(request.floor, x)) <=> Floor <= x)
  BY <1>1, FloorMeans
<1>8. ASSUME NEW r \in ToSet(rows), StatsOf(r) = Served(r)
      PROVE  \E n \in Nat, d \in Nat \ {0} :
               /\ Reclaimable(r) = <<n, d>> /\ score[r] \in Int /\ Counted(Served(r))
               /\ r \in C => n > 0 /\ 100 * n >= (Floor + -2) * d
               /\ n > 0 /\ 100 * n >= (Floor + 2) * d => r \in C
  <2>1. Counted(Served(r)) /\ score[r] = OversizeScore(Served(r))
    BY <1>1, <1>3, <1>8, StatsServed
  <2>2. PICK n \in Nat, d \in Nat \ {0} :
           /\ Reclaimable(r) = <<n, d>> /\ score[r] \in Int
           /\ score[r] > 0 => n > 0
           /\ score[r] * d <= 100 * n + d /\ 100 * n <= score[r] * d + d
    BY <2>1, ScoreKnown
  <2>3. /\ score[r] > 0 /\ Floor <= score[r] => n > 0 /\ 100 * n >= (Floor + -2) * d
        /\ n > 0 /\ 100 * n >= (Floor + 2) * d => score[r] > 0 /\ Floor <= score[r]
    BY <1>7, <2>2, FloorRounded
  <2>4. r \in C <=> score[r] > 0 /\ Floor <= score[r]
    BY <1>3, <1>7, <2>2
  <2> QED
    BY <2>1, <2>2, <2>3, <2>4
<1>9. ASSUME NEW r \in C
      PROVE  /\ r \in InScope(request.kind) /\ StatsOf(r) = Served(r) /\ r \in ToSet(rows)
             /\ Counted(Served(r)) /\ score[r] = OversizeScore(Served(r)) /\ score[r] \in Int
  <2>1. r \in ToSet(rows) /\ r \in Resources /\ score[r] = OversizeScore(StatsOf(r)) /\ score[r] > 0
    BY <1>1, <1>2, <1>3
  <2>2. Counted(Served(r)) /\ (StatsOf(r) = <<>> \/ StatsOf(r) = Served(r))
    BY <2>1, StatsServed
  <2>3. StatsOf(r) = Served(r)
    <3>1. CASE StatsOf(r) = <<>>
      <4>1. CASE Served(r) = <<>>
        BY <3>1, <4>1
      <4>2. CASE Served(r) # <<>>
        BY <2>1, <3>1, NoScore
      <4> QED
        BY <4>1, <4>2
    <3> QED
      BY <2>2, <3>1
  <2> QED
    BY <1>4, <1>8, <2>1, <2>2, <2>3
<1>10. ASSUME NEW r \in C, NEW q \in C, Outranks(r, q)
       PROVE  Over(score, TRUE, r, q)
  <2>1. LeastExceeds({Reclaimable(r)}, {Reclaimable(q)}, 50)
    BY <1>1, <1>10 DEF Outranks, Worth
  <2>2. score[r] > score[q]
    BY <1>9, <2>1, ScoreOrder
  <2> QED
    BY <2>2 DEF Over
<1>11. \A more : Rated(more) = {r \in InScope(request.kind) :
          Reclaimable(r)[1] > 0 /\ 100 * Reclaimable(r)[1] >= (Floor + more) * Reclaimable(r)[2]}
  <2>1. \A r : Worth(r) = {Reclaimable(r)}
    BY <1>1 DEF Worth
  <2>2. \A r : Worth(r) # {}
    BY <2>1
  <2> QED
    BY <1>1, <2>2 DEF Rated, Floor
<1>12. C \subseteq Rated(-2)
  <2> SUFFICES ASSUME NEW r \in C
               PROVE  r \in Rated(-2)
    OBVIOUS
  <2>1. PICK n \in Nat, d \in Nat \ {0} :
          Reclaimable(r) = <<n, d>> /\ n > 0 /\ 100 * n >= (Floor + -2) * d
    BY <1>8, <1>9
  <2>2. Reclaimable(r)[1] = n /\ Reclaimable(r)[2] = d
    BY <2>1
  <2>3. Reclaimable(r)[1] > 0 /\ 100 * Reclaimable(r)[1] >= (Floor + -2) * Reclaimable(r)[2]
    BY <2>1, <2>2
  <2>4. r \in InScope(request.kind)
    BY <1>9
  <2> QED
    BY <1>11, <2>3, <2>4, Zenon
<1>13. ASSUME ~failed
       PROVE  InScope(request.kind) \subseteq ToSet(rows) /\ Rated(2) \subseteq C
  <2>1. InScope(request.kind) \subseteq ToSet(rows)
    BY <1>1, <1>13 DEF Scoped
  <2>2. ASSUME NEW r \in Rated(2)
        PROVE  r \in C
    <3>1. /\ r \in InScope(request.kind)
          /\ Reclaimable(r)[1] > 0 /\ 100 * Reclaimable(r)[1] >= (Floor + 2) * Reclaimable(r)[2]
      BY <1>11, <2>2, Zenon
    <3>2. r \in ToSet(rows)
      BY <2>1, <3>1
    <3>3. StatsOf(r) = Served(r)
      BY <1>1, <1>13, <3>2, RowServed
    <3>4. PICK n \in Nat, d \in Nat \ {0} :
            Reclaimable(r) = <<n, d>> /\ (n > 0 /\ 100 * n >= (Floor + 2) * d => r \in C)
      BY <1>8, <3>2, <3>3
    <3>5. Reclaimable(r)[1] = n /\ Reclaimable(r)[2] = d
      BY <3>4
    <3> QED
      BY <3>1, <3>4, <3>5
  <2> QED
    BY <2>1, <2>2
<1>14. RankedRight(shown)
  <2>1. \A r \in C : score[r] \in Int
    BY <1>9
  <2>2. \A r, q \in C : Outranks(r, q) => Over(score, TRUE, r, q)
    BY <1>10
  <2> QED
    BY <1>1, <1>2, <1>4, <1>6, <1>12, <1>13, <2>1, <2>2, RankedByKey
<1> QED
  BY <1>5, <1>14

-----------------------------------------------------------------------------
(* The ranked reports.                                                       *)

LEMMA SameWorth ==
  ASSUME UNCHANGED <<children, given>>
  PROVE  /\ request' = request
         /\ \A r, dim : PctFree(r, dim)' = PctFree(r, dim)
         /\ \A r : Reclaimable(r)' = Reclaimable(r)
         /\ \A r : Worth(r)' = Worth(r)
         /\ request.tool \in {"query", "capacity", "oversized"} =>
              \A r, q : Outranks(r, q)' <=> Outranks(r, q)
         /\ \A more : Rated(more)' = Rated(more)
<1>1. request' = request /\ given' = given
  BY DEF request
<1>2. \A r, dim : PctFree(r, dim)' = PctFree(r, dim)
  BY <1>1 DEF PctFree
<1>3. \A r : Reclaimable(r)' = Reclaimable(r)
  BY <1>1 DEF Reclaimable
<1>4. \A r : Worth(r)' = Worth(r)
  <2> SUFFICES ASSUME NEW r
               PROVE  Worth(r)' = Worth(r)
    OBVIOUS
  <2>1. UNION {PctFree(r, dim)' : dim \in ToSet(Dimensions)}
          = UNION {PctFree(r, dim) : dim \in ToSet(Dimensions)}
    BY <1>2
  <2> QED
    BY <1>1, <1>3, <2>1 DEF Worth
<1>5. ASSUME NEW r, NEW q, request.tool \in {"query", "capacity", "oversized"}
      PROVE  Outranks(r, q)' <=> Outranks(r, q)
  <2>1. ASSUME NEW a, NEW b, NEW slack
        PROVE  LeastExceeds(Worth(a), Worth(b), slack)' <=> LeastExceeds(Worth(a), Worth(b), slack)
    BY <1>4 DEF LeastExceeds, Exceeds
  <2>2. CASE request.tool = "query"
    BY <1>1, <2>1, <2>2 DEF Outranks
  <2>3. CASE request.tool = "capacity"
    BY <1>1, <2>1, <2>3 DEF Outranks
  <2>4. CASE request.tool = "oversized"
    BY <1>1, <2>1, <2>4 DEF Outranks
  <2> QED
    BY <1>5, <2>2, <2>3, <2>4
<1>6. InScope(request.kind)' = InScope(request.kind)
  BY SameInScope
<1>7. ASSUME NEW more
      PROVE  Rated(more)' = Rated(more)
  BY <1>1, <1>3, <1>4, <1>6 DEF Rated
<1> QED
  BY <1>1, <1>2, <1>3, <1>4, <1>5, <1>7

LEMMA RankedLater ==
  ASSUME UNCHANGED <<children, given, failed>>,
         request.tool \in {"query", "capacity", "oversized"},
         RankedRight(report'.shown),
         request.tool = "capacity" => TightestRight(report')
  PROVE  RankedTruly'
<1> PICK shown, tightest : shown = report'.shown /\ tightest = report'.tightest
  OBVIOUS
<1>1. /\ request' = request
      /\ \A r, dim : PctFree(r, dim)' = PctFree(r, dim)
      /\ \A r : Worth(r)' = Worth(r)
      /\ \A r, q : Outranks(r, q)' <=> Outranks(r, q)
      /\ \A more : Rated(more)' = Rated(more)
  BY SameWorth
<1>2. /\ ToSet(shown) \subseteq Rated(-2)'
      /\ \A i, j \in DOMAIN shown : i < j => ~Outranks(shown[j], shown[i])'
      /\ (~failed' /\ request'.top > 0) =>
           /\ Len(shown) >= Smaller(request'.top, Cardinality(Rated(2)'))
           /\ Len(shown) <= Smaller(request'.top, Cardinality(Rated(-2)'))
           /\ \A r \in Rated(2)' \ ToSet(shown) : \A q \in ToSet(shown) : ~Outranks(r, q)'
  BY <1>1 DEF RankedRight
<1>3. request'.tool = "capacity" /\ shown # <<>> =>
        LET tight == PctFree(shown[1], tightest)'
        IN  tight # {} /\ ~LeastExceeds(tight, Worth(shown[1])', 10)
  BY <1>1 DEF TightestRight
<1> QED
  BY <1>2, <1>3 DEF RankedTruly, LeastExceeds, Exceeds

LEMMA ToolRanked ==
  ASSUME Searches, Answers, Fetched, Scoped, Within, RankedTruly, [ToolNext]_toolVars
  PROVE  RankedTruly'
<1>1. CASE ReportQuery \/ ReportCapacity \/ ReportOversized
  <2>1. UNCHANGED <<children, given, failed, changes>>
    BY <1>1 DEF ReportQuery, ReportCapacity, ReportOversized, Reports, scope, vars, inventory
  <2>2. request' = request /\ request.tool \in {"query", "capacity", "oversized"}
    BY <1>1, <2>1 DEF request, ReportQuery, ReportCapacity, ReportOversized
  <2> SUFFICES ASSUME changes = 0, request.tool = "query" => request.sortBy # Nothing
               PROVE  RankedTruly'
    BY <2>1, <2>2 DEF RankedTruly
  <2>3. CASE ReportQuery
    <3>1. request.tool = "query"
      BY <2>3 DEF ReportQuery
    <3> QED
      BY <2>1, <2>2, <2>3, <3>1, QueryRanked, RankedLater
  <2>4. CASE ReportCapacity
    BY <2>1, <2>2, <2>4, CapacityRanked, RankedLater
  <2>5. CASE ReportOversized
    <3>1. request.tool = "oversized"
      BY <2>5 DEF ReportOversized
    <3> QED
      BY <2>1, <2>2, <2>5, <3>1, OversizedRanked, RankedLater
  <2> QED
    BY <1>1, <2>3, <2>4, <2>5
<1>2. CASE BeginTool \/ ReportUnknown
  <2>1. stage' # "reported" \/ report' \in {Says("unusable arguments"), Says("unknown location")}
    BY <1>2 DEF BeginTool, ReportUnknown, Reports
  <2>2. stage' # "reported" \/ report'.says \in {"unusable arguments", "unknown location"}
    BY <2>1, SaysWhat
  <2> QED
    BY <2>2 DEF RankedTruly
<1>3. CASE BeginHosts \/ Recommend
  <2>1. request.tool = "placement" /\ request' = request
    <3>1. stage = "clusters" => request.tool = "placement"
      BY DEF Answers
    <3> QED
      BY <1>3, <3>1 DEF BeginHosts, Recommend, Reports, scope, vars, request
  <2> QED
    BY <2>1 DEF RankedTruly
<1>4. CASE Scoping \/ Attach \/ FetchStats \/ NextCluster \/ EvaluateHosts
  <2>1. stage' # "reported"
    BY <1>4 DEF Scoping, Attach, FetchStats, NextCluster, EvaluateHosts
  <2> QED
    BY <2>1 DEF RankedTruly
<1>5. CASE InventoryChanges
  <2>1. changes' # 0
    BY <1>5, InventoryWalk DEF InventoryChanges, Searches, Scope, Inventories
  <2> QED
    BY <2>1 DEF RankedTruly
<1>6. CASE UNCHANGED toolVars
  <2>1. UNCHANGED <<children, given, failed, changes, stage, report>>
    BY <1>6 DEF toolVars, scope, vars, inventory
  <2>2. request' = request
    BY <2>1 DEF request
  <2>3. SUFFICES ASSUME stage = "reported", changes = 0,
                        \/ request.tool \in {"capacity", "oversized"}
                        \/ request.tool = "query" /\ request.sortBy # Nothing,
                        report.says \notin {"unusable arguments", "unknown location"}
                 PROVE  RankedTruly'
    BY <2>1, <2>2 DEF RankedTruly
  <2>4. RankedRight(report.shown)
    BY <2>3 DEF RankedTruly, RankedRight
  <2>5. request.tool = "capacity" => TightestRight(report)
    BY <2>3 DEF RankedTruly, TightestRight
  <2> QED
    BY <2>1, <2>3, <2>4, <2>5, RankedLater
<1> QED
  BY <1>1, <1>2, <1>3, <1>4, <1>5, <1>6, Zenon DEF ToolNext, Tool

(* While the inventory stays as it is, a ranked report shows only what is in *)
(* scope, no row below one that belongs below it, calls the type of capacity *)
(* the tightest that is, and, when no request fails and nothing is cut off,  *)
(* leaves out nothing that belongs above a row it shows                      *)
(* (reports.py:100-290, vrops_client.py:1069-1100).                          *)
THEOREM FleetRankedTruly ==
  ASSUME Uncut
  PROVE  ToolSpec => []RankedTruly
<1> DEFINE Inv == /\ Searches /\ Answers /\ Hosting
                  /\ AsGiven /\ Locating /\ Beginnings
                  /\ Fetched /\ Scoped /\ Within
                  /\ RankedTruly
<1>1. ToolInit => Inv
  <2>1. ToolInit => RankedTruly
    BY DEF ToolInit, RankedTruly
  <2> QED
    BY <2>1, InitSearches, InitAnswers, InitHosting, InitLocating, InitPlacement, InitBeginnings
<1>2. Inv /\ [ToolNext]_toolVars => Inv'
  BY ToolSearches, ToolAnswers, ToolHosting, ToolAsGiven, ToolLocating, ToolBeginnings, ToolFetched,
     ToolScoped, ToolWithin, ToolRanked
<1>3. Inv => RankedTruly
  OBVIOUS
<1> QED
  BY <1>1, <1>2, <1>3, PTL DEF ToolSpec
=============================================================================
