------------------------------- MODULE Lists -------------------------------
(* What Python does with lists, and the server with the lists it serves in   *)
(* pages, where several parts of the program need it.                        *)
EXTENDS Integers, Sequences, FiniteSets, SequencesExt

Smaller(a, b) == IF a < b THEN a ELSE b

\* Page p of a list, counted from 0.
Page(list, size, p) == SubSeq(list, p * size + 1, Smaller((p + 1) * size, Len(list)))

\* The elements of a list at some of its positions, in their order.
At(list, positions) ==
  LET rank(i) == Cardinality({j \in positions : j <= i})
  IN  [n \in 1 .. Cardinality(positions) |-> list[CHOOSE i \in positions : rank(i) = n]]

\* [x for x in list if x in S]
Among(list, S) == At(list, {i \in DOMAIN list : list[i] \in S})

\* list(dict.fromkeys(list))
Distinct(list) == At(list, {i \in DOMAIN list : \A j \in 1 .. i - 1 : list[j] # list[i]})

\* list[:n]
Top(list, n) == SubSeq(list, 1, IF n < 0 THEN Len(list) + n ELSE Smaller(n, Len(list)))

\* sorted(list, key): those that are equal stay in their order.
Ranked(list, Above(_, _)) ==
  LET before(j, i) == \/ Above(list[j], list[i])
                      \/ j < i /\ ~Above(list[i], list[j])
      place(i) == 1 + Cardinality({j \in DOMAIN list \ {i} : before(j, i)})
  IN  [n \in DOMAIN list |-> list[CHOOSE i \in DOMAIN list : place(i) = n]]
=============================================================================
