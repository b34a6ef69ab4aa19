------------------------ MODULE Conversation_proofs ------------------------
(* What the trim of a conversation preserves, for every conversation and     *)
(* every window size: its type, that no reply to a tool call is left without *)
(* the call, and the pairing of calls and replies while a round goes on.     *)
EXTENDS Conversation, SequenceTheorems, WellFoundedInduction, TLAPS

(* A nonempty set of naturals has a least element.                           *)
LEMMA LeastNatural ==
  ASSUME NEW T, T \subseteq Nat, T # {}
  PROVE  \E i \in T : \A j \in T : i <= j
<1>1. \E i \in T : \A j \in T : <<j, i>> \notin OpToRel(<, Nat)
  BY NatLessThanWellFounded, WFMin
<1>2. PICK i \in T : \A j \in T : <<j, i>> \notin OpToRel(<, Nat)
  BY <1>1
<1>3. ASSUME NEW j \in T
      PROVE  i <= j
  <2>1. <<j, i>> \in Nat \X Nat
    OBVIOUS
  <2>2. ~(j < i)
    BY <1>2, <2>1 DEF OpToRel
  <2> QED
    BY <2>2
<1> QED
  BY <1>3

(* FirstUser is the position of the first user message, if there is one      *)
(* (the loop of _prune, memory.py:62-67).                                    *)
LEMMA FirstUserIsFirst ==
  ASSUME NEW M, NEW s \in Seq(M), UserPositions(s) # {}
  PROVE  /\ FirstUser(s) \in 1 .. Len(s)
         /\ IsUser(s[FirstUser(s)])
         /\ \A j \in UserPositions(s) : FirstUser(s) <= j
<1>1. UserPositions(s) \subseteq 1 .. Len(s)
  BY DEF UserPositions
<1>2. UserPositions(s) \subseteq Nat
  BY <1>1
<1>3. \E i \in UserPositions(s) : \A j \in UserPositions(s) : i <= j
  BY <1>2, LeastNatural
<1>4. /\ FirstUser(s) \in UserPositions(s)
      /\ \A j \in UserPositions(s) : FirstUser(s) <= j
  BY <1>3 DEF FirstUser
<1> QED
  BY <1>1, <1>4 DEF UserPositions

LEMMA KeepIsPositive == Keep \in Nat \ {0}
  BY MaxTurnsAssumption DEF Keep

(* What _prune returns is empty, or the messages of the conversation from a  *)
(* user message on.                                                          *)
LEMMA PruneIsSuffix ==
  ASSUME NEW M, NEW s \in Seq(M)
  PROVE  \/ Prune(s) = <<>>
         \/ \E p \in 1 .. Len(s) : /\ IsUser(s[p])
                                   /\ Prune(s) = SubSeq(s, p, Len(s))
                                   /\ Len(s) - p + 1 <= Keep
<1> DEFINE a == IF Len(s) > Keep THEN Len(s) - Keep + 1 ELSE 1
           w == LastN(s, Keep)
           f == FirstUser(w)
<1>1. Len(s) \in Nat /\ Keep \in Nat \ {0}
  BY KeepIsPositive
<1>2. CASE UserPositions(w) = {}
  BY <1>2 DEF Prune, FromFirstUser
<1>3. CASE UserPositions(w) # {}
  <2>1. a \in Nat /\ a >= 1 /\ Len(s) - a + 1 <= Keep
    BY <1>1
  <2>2. w = SubSeq(s, a, Len(s))
    BY DEF LastN
  <2>3. \A i \in a .. Len(s) : s[i] \in M
    BY <2>1, <1>1
  <2>4. /\ w \in Seq(M)
        /\ Len(w) = IF a <= Len(s) THEN Len(s) - a + 1 ELSE 0
        /\ \A i \in 1 .. Len(s) - a + 1 : w[i] = s[a + i - 1]
    <3> HIDE DEF a
    <3> QED
      BY <1>1, <2>1, <2>2, <2>3, SubSeqProperties
  <2>5. /\ f \in 1 .. Len(w)
        /\ IsUser(w[f])
    BY <1>3, <2>4, FirstUserIsFirst
  <2>6. a <= Len(s) /\ Len(w) = Len(s) - a + 1
    <3> HIDE DEF a, w, f
    <3> QED
      BY <2>4, <2>5, <2>1, <1>1
  <2>7. Prune(s) = SubSeq(SubSeq(s, a, Len(s)), f, Len(w))
    BY <1>3, <2>2 DEF Prune, FromFirstUser
  <2> DEFINE p == a + f - 1
  <2>8. p \in 1 .. Len(s) /\ Len(s) - p + 1 <= Keep
    <3> HIDE DEF a, w, f
    <3> QED
      BY <1>1, <2>1, <2>5, <2>6
  <2>9. SubSeq(SubSeq(s, a, Len(s)), f, Len(w)) = SubSeq(s, p, Len(s))
    <3> HIDE DEF a, w, f
    <3>1. a \in 1 .. Len(s) /\ Len(s) \in 1 .. Len(s)
      BY <1>1, <2>1, <2>6
    <3>2. f \in 1 .. Len(s) - a + 1 /\ Len(w) \in 1 .. Len(s) - a + 1
      BY <1>1, <2>1, <2>5, <2>6
    <3>3. SubSeq(SubSeq(s, a, Len(s)), f, Len(w))
            = SubSeq(s, a + f - 1, a + Len(w) - 1)
      BY <3>1, <3>2, <1>1, SubSeqOfSubSeq
    <3>4. a + Len(w) - 1 = Len(s)
      BY <1>1, <2>1, <2>6
    <3> QED
      BY <3>3, <3>4
  <2>10. IsUser(s[p])
    <3>1. f \in 1 .. Len(s) - a + 1
      <4> HIDE DEF a, w, f
      <4> QED
        BY <2>5, <2>6
    <3>2. w[f] = s[p]
      <4> HIDE DEF a, w, f
      <4> QED
        BY <2>4, <3>1
    <3> QED
      BY <2>5, <3>2
  <2> QED
    BY <2>7, <2>8, <2>9, <2>10
<1> QED
  BY <1>2, <1>3

(* _prune returns a list of the messages it was given.                       *)
LEMMA PruneType ==
  ASSUME NEW M, NEW s \in Seq(M)
  PROVE  Prune(s) \in Seq(M)
<1>1. CASE Prune(s) = <<>>
  BY <1>1
<1>2. CASE \E p \in 1 .. Len(s) : Prune(s) = SubSeq(s, p, Len(s))
  BY <1>2, SubSeqProperties
<1> QED
  BY <1>1, <1>2, PruneIsSuffix

(* Cutting a list at a user message keeps every reply together with its      *)
(* call: only tool messages stand between the two.                           *)
LEMMA CutAtUserNoOrphans ==
  ASSUME NEW M, NEW s \in Seq(M), NoOrphans(s),
         NEW p \in 1 .. Len(s), IsUser(s[p])
  PROVE  NoOrphans(SubSeq(s, p, Len(s)))
<1> DEFINE w == SubSeq(s, p, Len(s))
<1>1. /\ w \in Seq(M)
      /\ Len(w) = Len(s) - p + 1
      /\ \A i \in 1 .. Len(w) : w[i] = s[p + i - 1]
  <2>1. \A i \in p .. Len(s) : s[i] \in M
    OBVIOUS
  <2> QED
    BY <2>1, SubSeqProperties
<1> SUFFICES ASSUME NEW j \in 1 .. Len(w), IsTool(w[j])
             PROVE  \E i \in 1 .. Len(w) : Answers(w, i, j)
  BY DEF NoOrphans
<1> DEFINE J == p + j - 1
<1>2. J \in 1 .. Len(s) /\ J >= p /\ s[J] = w[j]
  BY <1>1
<1>3. PICK I \in 1 .. Len(s) : Answers(s, I, J)
  BY <1>2 DEF NoOrphans
<1>4. I < J /\ \A n \in I + 1 .. J - 1 : IsTool(s[n])
  BY <1>3 DEF Answers, SameBlock
<1>5. J # p /\ ~IsTool(s[p])
  BY <1>2 DEF IsUser, IsTool
<1>6. I >= p
  <2>1. SUFFICES ASSUME I < p PROVE FALSE
    OBVIOUS
  <2>2. p \in I + 1 .. J - 1
    BY <1>2, <1>5, <2>1
  <2> QED
    BY <1>4, <1>5, <2>2
<1> DEFINE i == I - p + 1
<1>7. i \in 1 .. Len(w) /\ w[i] = s[I] /\ i < j
  BY <1>1, <1>2, <1>4, <1>6
<1>8. \A n \in i + 1 .. j - 1 : IsTool(w[n])
  <2>1. TAKE n \in i + 1 .. j - 1
  <2>2. n \in 1 .. Len(w) /\ w[n] = s[p + n - 1]
    BY <1>1, <1>7
  <2>3. p + n - 1 \in I + 1 .. J - 1
    BY <1>1, <1>7
  <2> QED
    BY <1>4, <2>2, <2>3
<1>9. Answers(w, i, j)
  BY <1>2, <1>3, <1>7, <1>8 DEF Answers, SameBlock
<1> QED
  BY <1>7, <1>9

(* A trim never leaves the reply to a tool call without the call, as _prune's *)
(* docstring claims (memory.py:51-53), given a list that has none.            *)
THEOREM PruneNoOrphans ==
  ASSUME NEW M, NEW s \in Seq(M), NoOrphans(s)
  PROVE  NoOrphans(Prune(s))
<1>1. CASE Prune(s) = <<>>
  BY <1>1 DEF NoOrphans
<1>2. CASE \E p \in 1 .. Len(s) : IsUser(s[p]) /\ Prune(s) = SubSeq(s, p, Len(s))
  BY <1>2, CutAtUserNoOrphans
<1> QED
  BY <1>1, <1>2, PruneIsSuffix

-----------------------------------------------------------------------------
(* How a conversation stays acceptable to the chat APIs while a round of     *)
(* tool calls is being executed: what storing each kind of message and       *)
(* trimming do to the pairing of calls and replies.                          *)

\* s is well paired but for the calls of pending, which may still wait for
\* their replies at the end of s.
Paired(s, pending) ==
  /\ NoOrphans(s)
  /\ \A i \in 1 .. Len(s) : s[i].role = "assistant" => \A c \in s[i].ids :
       \/ \E j \in 1 .. Len(s) : Answers(s, i, j) /\ s[j].ids = {c}
       \/ c \in pending /\ \A n \in i + 1 .. Len(s) : IsTool(s[n])

\* The round that requested the pending calls is the last thing in s.
Open(s, pending) == \E r \in 1 .. Len(s) :
  /\ s[r].role = "assistant"
  /\ pending \subseteq s[r].ids
  /\ \A n \in r + 1 .. Len(s) : IsTool(s[n])

BeginsWithUser(s) == s # <<>> => IsUser(s[1])

(* With nothing pending, paired is what the APIs ask for.                    *)
LEMMA PairedIsWellPaired ==
  ASSUME NEW s
  PROVE  Paired(s, {}) <=> WellPaired(s)
BY DEF Paired, WellPaired, AllAnswered

(* Storing a message changes nothing between two earlier ones.               *)
LEMMA AnswersAppend ==
  ASSUME NEW M, NEW s \in Seq(M), NEW m \in M,
         NEW i \in 1 .. Len(s), NEW j \in 1 .. Len(s)
  PROVE  Answers(Append(s, m), i, j) <=> Answers(s, i, j)
<1> DEFINE w == Append(s, m)
<1>1. Len(s) \in Nat /\ \A n \in 1 .. Len(s) : w[n] = s[n]
  OBVIOUS
<1>2. w[i] = s[i] /\ w[j] = s[j]
  BY <1>1
<1>3. \A n \in i + 1 .. j - 1 : w[n] = s[n]
  BY <1>1
<1> HIDE DEF w
<1>4. SameBlock(w, i, j) <=> SameBlock(s, i, j)
  BY <1>3 DEF SameBlock
<1>5. Answers(w, i, j) <=> Answers(s, i, j)
  BY <1>2, <1>4 DEF Answers
<1> QED
  BY <1>5 DEF w

(* Storing a message that is no reply to a tool call orphans nothing.        *)
LEMMA NoOrphansAppend ==
  ASSUME NEW M, NEW s \in Seq(M), NEW m \in M, NoOrphans(s),
         \/ ~IsTool(m)
         \/ \E i \in 1 .. Len(s) : Answers(Append(s, m), i, Len(s) + 1)
  PROVE  NoOrphans(Append(s, m))
<1> DEFINE w == Append(s, m)
<1>1. /\ Len(s) \in Nat
      /\ Len(w) = Len(s) + 1
      /\ w[Len(s) + 1] = m
      /\ \A n \in 1 .. Len(s) : w[n] = s[n]
  OBVIOUS
<1> SUFFICES ASSUME NEW j \in 1 .. Len(w), IsTool(w[j])
             PROVE  \E i \in 1 .. Len(w) : Answers(w, i, j)
  BY DEF NoOrphans
<1>2. CASE j \in 1 .. Len(s)
  <2>1. IsTool(s[j])
    BY <1>1, <1>2
  <2>2. PICK i \in 1 .. Len(s) : Answers(s, i, j)
    BY <1>2, <2>1 DEF NoOrphans
  <2>3. Answers(w, i, j)
    BY <1>2, <2>2, AnswersAppend
  <2> QED
    BY <1>1, <2>3
<1>3. CASE j = Len(s) + 1
  <2>1. IsTool(m)
    BY <1>1, <1>3
  <2>2. PICK i \in 1 .. Len(s) : Answers(w, i, Len(s) + 1)
    BY <2>1
  <2> QED
    BY <1>1, <1>3, <2>2
<1> QED
  BY <1>1, <1>2, <1>3

(* A question, an answer, or the request of a round, stored when nothing is  *)
(* pending: the calls it makes are pending from then on.                     *)
LEMMA RequestPaired ==
  ASSUME NEW M, NEW s \in Seq(M), NEW m \in M, Paired(s, {}), ~IsTool(m)
  PROVE  /\ Paired(Append(s, m), m.ids)
         /\ m.role = "assistant" => Open(Append(s, m), m.ids)
<1> DEFINE w == Append(s, m)
<1>1. /\ Len(s) \in Nat
      /\ Len(w) = Len(s) + 1
      /\ w[Len(s) + 1] = m
      /\ \A n \in 1 .. Len(s) : w[n] = s[n]
  OBVIOUS
<1>2. NoOrphans(w)
  BY NoOrphansAppend DEF Paired
<1>3. ASSUME NEW i \in 1 .. Len(w), w[i].role = "assistant", NEW c \in w[i].ids
      PROVE  \/ \E j \in 1 .. Len(w) : Answers(w, i, j) /\ w[j].ids = {c}
             \/ c \in m.ids /\ \A n \in i + 1 .. Len(w) : IsTool(w[n])
  <2>1. CASE i \in 1 .. Len(s)
    <3>1. w[i] = s[i]
      BY <1>1, <2>1
    <3>2. PICK j \in 1 .. Len(s) : Answers(s, i, j) /\ s[j].ids = {c}
      BY <1>3, <2>1, <3>1 DEF Paired
    <3>3. Answers(w, i, j)
      BY <2>1, <3>2, AnswersAppend
    <3>4. w[j] = s[j] /\ j \in 1 .. Len(w)
      BY <1>1
    <3> QED
      BY <3>2, <3>3, <3>4
  <2>2. CASE i = Len(s) + 1
    <3>1. \A n \in i + 1 .. Len(w) : FALSE
      BY <1>1, <2>2
    <3> QED
      BY <1>1, <1>3, <2>2, <3>1
  <2> QED
    BY <1>1, <2>1, <2>2
<1>4. Paired(w, m.ids)
  BY <1>2, <1>3 DEF Paired
<1>5. ASSUME m.role = "assistant"
      PROVE  Open(w, m.ids)
  <2>1. \A n \in Len(s) + 1 + 1 .. Len(w) : FALSE
    BY <1>1
  <2>2. Len(s) + 1 \in 1 .. Len(w)
    BY <1>1
  <2> QED
    BY <1>1, <1>5, <2>1, <2>2 DEF Open
<1> QED
  BY <1>4, <1>5

(* The reply to a pending call: the others are still pending.                *)
LEMMA ReplyPaired ==
  ASSUME NEW M, NEW s \in Seq(M), NEW m \in M, NEW pending, NEW rest, NEW c,
         Paired(s, pending), Open(s, pending),
         IsTool(m), m.ids = {c}, c \in pending,
         rest \subseteq pending, pending \subseteq {c} \cup rest
  PROVE  /\ Paired(Append(s, m), rest)
         /\ Open(Append(s, m), rest)
<1> DEFINE w == Append(s, m)
           e == Len(s) + 1
<1>1. /\ Len(s) \in Nat
      /\ Len(w) = e
      /\ w[e] = m
      /\ \A n \in 1 .. Len(s) : w[n] = s[n]
  OBVIOUS
<1>2. PICK r \in 1 .. Len(s) : /\ s[r].role = "assistant"
                               /\ pending \subseteq s[r].ids
                               /\ \A n \in r + 1 .. Len(s) : IsTool(s[n])
  BY DEF Open
<1> HIDE DEF w
<1>3. ASSUME NEW i \in 1 .. Len(s), \A n \in i + 1 .. Len(s) : IsTool(s[n])
      PROVE  \A n \in i + 1 .. Len(w) : IsTool(w[n])
  <2>1. TAKE n \in i + 1 .. Len(w)
  <2>2. CASE n = e
    BY <1>1, <2>2
  <2>3. CASE n # e
    <3>1. n \in i + 1 .. Len(s) /\ n \in 1 .. Len(s)
      BY <1>1, <2>3
    <3> QED
      BY <1>1, <1>3, <3>1
  <2> QED
    BY <2>2, <2>3
<1>4. ASSUME NEW i \in 1 .. Len(s), s[i].role = "assistant", c \in s[i].ids,
             \A n \in i + 1 .. Len(s) : IsTool(s[n])
      PROVE  Answers(w, i, e)
  <2>1. w[i] = s[i] /\ i < e
    BY <1>1
  <2>2. \A n \in i + 1 .. e - 1 : IsTool(w[n])
    BY <1>1, <1>4
  <2> QED
    BY <1>1, <1>4, <2>1, <2>2 DEF Answers, SameBlock
<1>5. NoOrphans(w)
  <2>1. Answers(w, r, e)
    BY <1>2, <1>4
  <2> QED
    BY <2>1, NoOrphansAppend DEF Paired, w
<1>6. ASSUME NEW i \in 1 .. Len(w), w[i].role = "assistant", NEW d \in w[i].ids
      PROVE  \/ \E j \in 1 .. Len(w) : Answers(w, i, j) /\ w[j].ids = {d}
             \/ d \in rest /\ \A n \in i + 1 .. Len(w) : IsTool(w[n])
  <2>1. i \in 1 .. Len(s) /\ w[i] = s[i]
    <3>1. i # e
      BY <1>1, <1>6 DEF IsTool
    <3> QED
      BY <1>1, <3>1
  <2>2. CASE \E j \in 1 .. Len(s) : Answers(s, i, j) /\ s[j].ids = {d}
    <3>1. PICK j \in 1 .. Len(s) : Answers(s, i, j) /\ s[j].ids = {d}
      BY <2>2
    <3>2. Answers(w, i, j)
      BY <2>1, <3>1, AnswersAppend DEF w
    <3>3. w[j] = s[j] /\ j \in 1 .. Len(w)
      BY <1>1
    <3> QED
      BY <3>1, <3>2, <3>3
  <2>3. CASE d \in pending /\ \A n \in i + 1 .. Len(s) : IsTool(s[n])
    <3>1. CASE d = c
      <4>1. Answers(w, i, e)
        BY <1>4, <1>6, <2>1, <2>3, <3>1
      <4>2. w[e].ids = {d} /\ e \in 1 .. Len(w)
        BY <1>1, <3>1
      <4> QED
        BY <4>1, <4>2
    <3>2. CASE d # c
      BY <1>3, <2>1, <2>3, <3>2
    <3> QED
      BY <3>1, <3>2
  <2> QED
    BY <1>6, <2>1, <2>2, <2>3 DEF Paired
<1>7. Paired(w, rest)
  BY <1>5, <1>6 DEF Paired
<1>8. Open(w, rest)
  <2>1. r \in 1 .. Len(w) /\ w[r] = s[r] /\ rest \subseteq w[r].ids
    BY <1>1, <1>2
  <2>2. \A n \in r + 1 .. Len(w) : IsTool(w[n])
    BY <1>2, <1>3
  <2> QED
    BY <1>2, <2>1, <2>2 DEF Open
<1> QED
  BY <1>7, <1>8 DEF w

-----------------------------------------------------------------------------
(* The trim.                                                                 *)

(* Cutting a list at its start or at a user message: the pairing is kept.    *)
LEMMA CutPaired ==
  ASSUME NEW M, NEW s \in Seq(M), NEW p \in 1 .. Len(s),
         p = 1 \/ IsUser(s[p]), NEW pending
  PROVE  LET w == SubSeq(s, p, Len(s))
         IN  /\ w \in Seq(M)
             /\ Len(w) = Len(s) - p + 1
             /\ \A i \in 1 .. Len(w) : w[i] = s[p + i - 1]
             /\ Paired(s, pending) => Paired(w, pending)
             /\ Open(s, pending) => Open(w, pending)
<1> DEFINE w == SubSeq(s, p, Len(s))
<1>1. /\ w \in Seq(M)
      /\ Len(w) = Len(s) - p + 1
      /\ Len(s) \in Nat
      /\ \A i \in 1 .. Len(w) : w[i] = s[p + i - 1]
  <2>1. \A i \in p .. Len(s) : s[i] \in M
    OBVIOUS
  <2> QED
    BY <2>1, SubSeqProperties
<1> HIDE DEF w
<1>0. p \in Nat /\ p >= 1 /\ Len(s) \in Nat /\ Len(w) = Len(s) - p + 1
  BY <1>1
\* Whatever only tool messages follow cannot be before the cut.
<1>2. ASSUME NEW i \in 1 .. Len(s), NEW j \in p .. Len(s), i < j,
             IsTool(s[j]), \A n \in i + 1 .. j - 1 : IsTool(s[n])
      PROVE  i >= p
  <2>1. SUFFICES ASSUME i < p PROVE FALSE
    OBVIOUS
  <2>2. p # 1 /\ ~IsTool(s[p])
    BY <2>1 DEF IsUser, IsTool
  <2>3. p # j
    BY <1>2, <2>2
  <2>4. p \in i + 1 .. j - 1
    BY <2>1, <2>3
  <2> QED
    BY <1>2, <2>2, <2>4
<1>3. ASSUME NEW i \in 1 .. Len(w), NEW j \in 1 .. Len(w)
      PROVE  Answers(w, i, j) <=> Answers(s, p + i - 1, p + j - 1)
  <2>1. w[i] = s[p + i - 1] /\ w[j] = s[p + j - 1]
    BY <1>1
  <2>2. i < j <=> p + i - 1 < p + j - 1
    BY <1>1
  <2>3. ASSUME \A n \in i + 1 .. j - 1 : IsTool(w[n])
        PROVE  \A n \in p + i - 1 + 1 .. p + j - 1 - 1 : IsTool(s[n])
    <3>1. TAKE n \in p + i - 1 + 1 .. p + j - 1 - 1
    <3>2. n - p + 1 \in i + 1 .. j - 1 /\ n - p + 1 \in 1 .. Len(w)
      BY <1>1
    <3>3. w[n - p + 1] = s[n]
      <4>1. w[n - p + 1] = s[p + (n - p + 1) - 1]
        BY <1>1, <3>2
      <4>2. p + (n - p + 1) - 1 = n
        BY <1>1
      <4> QED
        BY <4>1, <4>2
    <3> QED
      BY <2>3, <3>2, <3>3
  <2>4. ASSUME \A n \in p + i - 1 + 1 .. p + j - 1 - 1 : IsTool(s[n])
        PROVE  \A n \in i + 1 .. j - 1 : IsTool(w[n])
    <3>1. TAKE n \in i + 1 .. j - 1
    <3>2. /\ p + n - 1 \in p + i - 1 + 1 .. p + j - 1 - 1
          /\ n \in 1 .. Len(w)
      BY <1>1
    <3>3. w[n] = s[p + n - 1]
      BY <1>1, <3>2
    <3> QED
      BY <2>4, <3>2, <3>3
  <2> QED
    BY <2>1, <2>2, <2>3, <2>4 DEF Answers, SameBlock
<1>4. ASSUME NoOrphans(s)
      PROVE  NoOrphans(w)
  <2> SUFFICES ASSUME NEW j \in 1 .. Len(w), IsTool(w[j])
               PROVE  \E i \in 1 .. Len(w) : Answers(w, i, j)
    BY DEF NoOrphans
  <2>1. /\ p + j - 1 \in 1 .. Len(s) /\ p + j - 1 \in p .. Len(s)
        /\ IsTool(s[p + j - 1])
    BY <1>1
  <2>2. PICK I \in 1 .. Len(s) : Answers(s, I, p + j - 1)
    BY <1>4, <2>1 DEF NoOrphans
  <2>3. I >= p
    BY <1>2, <2>1, <2>2 DEF Answers, SameBlock
  <2>4. /\ I - p + 1 \in 1 .. Len(w)
        /\ p + (I - p + 1) - 1 = I
    BY <1>1, <2>3
  <2>5. Answers(w, I - p + 1, j)
    BY <1>3, <2>2, <2>4
  <2> QED
    BY <2>4, <2>5
<1>5. ASSUME Paired(s, pending)
      PROVE  Paired(w, pending)
  <2> SUFFICES ASSUME NEW i \in 1 .. Len(w), w[i].role = "assistant",
                      NEW c \in w[i].ids
               PROVE  \/ \E j \in 1 .. Len(w) : Answers(w, i, j) /\ w[j].ids = {c}
                      \/ c \in pending /\ \A n \in i + 1 .. Len(w) : IsTool(w[n])
    BY <1>4, <1>5 DEF Paired
  <2>1. p + i - 1 \in 1 .. Len(s) /\ w[i] = s[p + i - 1]
    BY <1>1
  <2>2. CASE \E J \in 1 .. Len(s) : Answers(s, p + i - 1, J) /\ s[J].ids = {c}
    <3>1. PICK J \in 1 .. Len(s) : Answers(s, p + i - 1, J) /\ s[J].ids = {c}
      BY <2>2
    <3>2. p + i - 1 < J
      BY <3>1 DEF Answers, SameBlock
    <3>3. /\ J - p + 1 \in 1 .. Len(w)
          /\ p + (J - p + 1) - 1 = J
      BY <1>0, <3>2
    <3>4. Answers(w, i, J - p + 1) /\ w[J - p + 1] = s[J]
      BY <1>1, <1>3, <3>1, <3>3
    <3> QED
      BY <3>1, <3>3, <3>4
  <2>3. CASE /\ c \in pending
             /\ \A n \in p + i - 1 + 1 .. Len(s) : IsTool(s[n])
    <3>1. ASSUME NEW n \in i + 1 .. Len(w)
          PROVE  IsTool(w[n])
      <4>1. /\ n \in 1 .. Len(w)
            /\ p + n - 1 \in p + i - 1 + 1 .. Len(s)
        BY <1>0
      <4> QED
        BY <1>1, <2>3, <4>1
    <3> QED
      BY <2>3, <3>1
  <2> QED
    BY <1>5, <2>1, <2>2, <2>3 DEF Paired
<1>6. ASSUME Open(s, pending)
      PROVE  Open(w, pending)
  <2>1. PICK r \in 1 .. Len(s) : /\ s[r].role = "assistant"
                                 /\ pending \subseteq s[r].ids
                                 /\ \A n \in r + 1 .. Len(s) : IsTool(s[n])
    BY <1>6 DEF Open
  <2>2. r >= p
    <3>1. SUFFICES ASSUME r < p PROVE FALSE
      OBVIOUS
    <3>2. p \in r + 1 .. Len(s) /\ p # 1
      BY <3>1
    <3> QED
      BY <2>1, <3>2 DEF IsUser, IsTool
  <2>3. /\ r - p + 1 \in 1 .. Len(w)
        /\ p + (r - p + 1) - 1 = r
    BY <1>1, <2>2
  <2>4. w[r - p + 1] = s[r]
    BY <1>1, <2>3
  <2>5. ASSUME NEW n \in r - p + 1 + 1 .. Len(w)
        PROVE  IsTool(w[n])
    <3>1. n \in 1 .. Len(w) /\ p + n - 1 \in r + 1 .. Len(s)
      BY <1>0, <2>2
    <3> QED
      BY <1>1, <2>1, <3>1
  <2> QED
    BY <2>1, <2>3, <2>4, <2>5 DEF Open
<1> QED
  BY <1>1, <1>5, <1>6 DEF w

(* A trim keeps what follows a user message that is within the window.       *)
LEMMA TrimKeepsQuestion ==
  ASSUME NEW M, NEW s \in Seq(M), NEW q \in 1 .. Len(s), IsUser(s[q]),
         Len(s) - q + 1 <= MaxTurns
  PROVE  \E p \in 1 .. q : /\ p = 1 \/ IsUser(s[p])
                           /\ Trim(s) = SubSeq(s, p, Len(s))
<1>1. Len(s) \in Nat /\ MaxTurns \in Nat
  BY MaxTurnsAssumption
<1>2. CASE Len(s) <= MaxTurns
  <2>1. SubSeq(s, 1, Len(s)) = s
    BY SubSeqFull
  <2>2. Trim(s) = s
    BY <1>1, <1>2 DEF Trim
  <2> QED
    BY <2>1, <2>2
<1>3. CASE Len(s) > MaxTurns
  <2> DEFINE a == Len(s) - MaxTurns + 1
             w == SubSeq(s, a, Len(s))
             f == FirstUser(w)
  <2>1. MaxTurns >= 1
    BY <1>1
  <2>2. Keep = MaxTurns
    BY <1>1, <2>1 DEF Keep
  <2>3. LastN(s, Keep) = w
    BY <1>3, <2>2 DEF LastN
  <2>4. a \in 1 .. q /\ a \in 1 .. Len(s)
    BY <1>1, <1>3
  <2>5. /\ w \in Seq(M)
        /\ Len(w) = Len(s) - a + 1
        /\ \A i \in 1 .. Len(w) : w[i] = s[a + i - 1]
    <3>1. \A i \in a .. Len(s) : s[i] \in M
      BY <2>4
    <3> HIDE DEF a
    <3> QED
      BY <3>1, <2>4, <1>1, SubSeqProperties
  <2> HIDE DEF a, w
  <2>6. q - a + 1 \in 1 .. Len(w) /\ a + (q - a + 1) - 1 = q
    BY <1>1, <2>4, <2>5
  <2>7. q - a + 1 \in UserPositions(w)
    BY <2>5, <2>6 DEF UserPositions
  <2>8. /\ f \in 1 .. Len(w)
        /\ IsUser(w[f])
        /\ f <= q - a + 1
    BY <2>5, <2>7, FirstUserIsFirst
  <2> HIDE DEF f
  <2>9. a + f - 1 \in 1 .. q /\ IsUser(s[a + f - 1])
    BY <1>1, <2>4, <2>5, <2>8
  <2>10. Trim(s) = SubSeq(w, f, Len(w))
    BY <1>3, <2>3, <2>7 DEF Trim, Prune, FromFirstUser, f
  <2>11. SubSeq(w, f, Len(w)) = SubSeq(s, a + f - 1, Len(s))
    <3>1. a \in 1 .. Len(s) /\ Len(s) \in 1 .. Len(s)
      BY <1>1, <2>4
    <3>2. f \in 1 .. Len(s) - a + 1 /\ Len(w) \in 1 .. Len(s) - a + 1
      BY <1>1, <2>4, <2>5, <2>8
    <3>3. SubSeq(SubSeq(s, a, Len(s)), f, Len(w))
            = SubSeq(s, a + f - 1, a + Len(w) - 1)
      BY <3>1, <3>2, SubSeqOfSubSeq
    <3>4. a + Len(w) - 1 = Len(s)
      BY <1>1, <2>4, <2>5
    <3> QED
      BY <3>3, <3>4 DEF w
  <2> QED
    BY <2>9, <2>10, <2>11
<1>4. Len(s) <= MaxTurns \/ Len(s) > MaxTurns
  BY <1>1
<1> QED
  BY <1>2, <1>3, <1>4, Zenon
=============================================================================
