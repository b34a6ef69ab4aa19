---------------------- MODULE ConversationMemory_proofs ----------------------
(* Type correctness of the memory, and, when the callers use disjoint keys,  *)
(* that no append is lost and that it implements AtomicMemory.               *)
EXTENDS ConversationMemory, Conversation_proofs

(* Type correctness of _store, of its lists and of append's local variables, *)
(* whether or not callers share keys.                                        *)
THEOREM TypeCorrect == Spec => []TypeOK
<1> USE DEF Idle, Extending, Measuring, Replacing
<1>1. Init => TypeOK
  BY DEF Init, TypeOK
<1>2. TypeOK /\ [Next]_vars => TypeOK'
  <2> SUFFICES ASSUME TypeOK, [Next]_vars
               PROVE  TypeOK'
    OBVIOUS
  <2> USE DEF TypeOK
  <2>1. ASSUME NEW t \in Threads, NEW k \in Keys, NEW m \in Message, Setdefault(t, k, m)
        PROVE  TypeOK'
    <3>1. PICK o \in ListFor(k) :
            /\ store' = [store EXCEPT ![k] = o]
            /\ heap' = [heap EXCEPT ![o] = Contents(k)]
            /\ op' = [op EXCEPT ![t] = [phase |-> "extend", key |-> k, msg |-> m, conv |-> o]]
      BY <2>1 DEF Setdefault
    <3>2. o \in Objects /\ Contents(k) \in Seq(Message)
      BY <3>1 DEF ListFor, Unused, Contents
    <3> QED
      BY <2>1, <3>1, <3>2 DEF Setdefault
  <2>2. ASSUME NEW t \in Threads, Extend(t)
        PROVE  TypeOK'
    <3>1. op[t] \in Extending
      BY <2>2 DEF Extend
    <3> QED
      BY <2>2, <3>1 DEF Extend
  <2>3. ASSUME NEW t \in Threads, Fits(t)
        PROVE  TypeOK'
    BY <2>3 DEF Fits, Swept
  <2>4. ASSUME NEW t \in Threads, Overflows(t)
        PROVE  TypeOK'
    <3>1. op[t] \in Measuring
      BY <2>4 DEF Overflows
    <3>2. Prune(heap[op[t].conv]) \in Seq(Message)
      BY <3>1, PruneType
    <3> QED
      BY <2>4, <3>1, <3>2 DEF Overflows, Swept
  <2>5. ASSUME NEW t \in Threads, NEW k \in Keys, NEW s \in Seq(Message), Rebind(t, k, s)
        PROVE  TypeOK'
    BY <2>5 DEF Rebind, Unused, Swept
  <2>6. ASSUME NEW t \in Threads, Replace(t)
        PROVE  TypeOK'
    <3>1. op[t] \in Replacing
      BY <2>6 DEF Replace
    <3> QED
      BY <2>5, <2>6, <3>1 DEF Replace
  <2>7. ASSUME NEW t \in Threads, NEW k \in Keys, NEW messages \in Presets,
               SetHistory(t, k, messages)
        PROVE  TypeOK'
    BY <2>5, <2>7, PresetsAssumption DEF SetHistory
  <2>8. ASSUME NEW t \in Threads, NEW k \in Keys, Clear(t, k)
        PROVE  TypeOK'
    BY <2>8 DEF Clear, Swept
  <2>9. CASE UNCHANGED vars
    BY <2>9 DEF vars
  <2> QED
    BY <2>1, <2>2, <2>3, <2>4, <2>6, <2>7, <2>8, <2>9 DEF Next
<1> QED
  BY <1>1, <1>2, PTL DEF Spec

-----------------------------------------------------------------------------
(* Disjoint keys.                                                            *)

\* A thread inside append works on a key of its own.
OwnKeys == \A t \in Threads : op[t] # Idle => op[t].key \in KeysOf[t]

IInv == TypeOK /\ OwnKeys /\ NoAliasing /\ StillStored /\ StillCurrent

(* The fields of a thread's local variables, by its phase.                   *)
LEMMA OpCases ==
  ASSUME TypeOK, NEW t \in Threads
  PROVE  /\ op[t] = Idle <=> op[t].phase = "idle"
         /\ op[t].phase \in {"idle", "extend", "measure", "replace"}
         /\ op[t].phase # "idle" => op[t].key \in Keys
         /\ op[t].phase = "extend" => op[t].msg \in Message
         /\ op[t].phase \in {"extend", "measure"} => op[t].conv \in Objects
         /\ op[t].phase = "replace" => op[t].kept \in Seq(Message)
BY DEF TypeOK, Idle, Extending, Measuring, Replacing

(* A sweep keeps the contents of every stored list.                          *)
LEMMA SweepKeepsStored ==
  ASSUME NEW h, NEW s, NEW p, NEW k \in Keys, s[k] \in Objects
  PROVE  Swept(h, s, p)[s[k]] = h[s[k]]
BY DEF Swept, Refs

(* Two threads inside append work on different keys.                         *)
LEMMA KeysDiffer ==
  ASSUME DisjointKeys, TypeOK, OwnKeys,
         NEW t \in Threads, NEW u \in Threads, t # u, op[t] # Idle,
         NEW k \in KeysOf[u]
  PROVE  op[t].key # k
BY DEF DisjointKeys, OwnKeys

LEMMA InitIInv == Init => IInv
BY DEF Init, IInv, TypeOK, OwnKeys, NoAliasing, StillStored, StillCurrent, Idle

(* No two threads share a key, so each step of one leaves what another has   *)
(* read still true.                                                          *)
LEMMA SetdefaultIInv ==
  ASSUME DisjointKeys, IInv, TypeOK',
         NEW t \in Threads, NEW k \in Keys, NEW m \in Message, Setdefault(t, k, m)
  PROVE  IInv'
<1> USE DEF IInv
<1>1. PICK o \in ListFor(k) :
        /\ store' = [store EXCEPT ![k] = o]
        /\ heap' = [heap EXCEPT ![o] = Contents(k)]
        /\ op' = [op EXCEPT ![t] = [phase |-> "extend", key |-> k, msg |-> m, conv |-> o]]
  BY DEF Setdefault
<1>2. k \in KeysOf[t] /\ op[t] = Idle
  BY DEF Setdefault
<1>3. store[k] = NoObject \/ store' = store
  BY <1>1 DEF ListFor, TypeOK
<1>4. \A l \in Keys : store[k] = NoObject => store[l] # o
  BY <1>1 DEF ListFor, Unused, Refs
<1>5. \A l \in Keys : l # k => store[l] # o
  BY <1>1, <1>4 DEF ListFor, NoAliasing, TypeOK
<1>6. \A l \in Keys : l # k /\ store[l] # NoObject => heap'[store[l]] = heap[store[l]]
  BY <1>1, <1>5 DEF TypeOK
<1>7. \A u \in Threads : u # t => op'[u] = op[u] /\ (op[u] # Idle => op[u].key # k)
  BY <1>1, <1>2, KeysDiffer DEF TypeOK
<1>8. op'[t].phase = "extend" /\ op'[t].key = k /\ op'[t].conv = o /\ store'[k] = o
  BY <1>1 DEF TypeOK
<1>9. OwnKeys'
  BY <1>2, <1>7, <1>8 DEF OwnKeys
<1>10. NoAliasing'
  BY <1>1, <1>3, <1>4 DEF NoAliasing, TypeOK
<1>11. \A l \in Keys : l # k => store'[l] = store[l]
  BY <1>1 DEF TypeOK
<1>12. StillStored'
  BY <1>7, <1>8, <1>11, OpCases DEF StillStored
<1>13. StillCurrent'
  <2> SUFFICES ASSUME NEW u \in Threads, op'[u].phase = "replace"
               PROVE  /\ store'[op'[u].key] # NoObject
                      /\ MustPrune(heap'[store'[op'[u].key]])
                      /\ op'[u].kept = Prune(heap'[store'[op'[u].key]])
    BY DEF StillCurrent, MustPrune
  <2>1. u # t /\ op'[u] = op[u] /\ op[u] # Idle
    BY <1>7, <1>8, OpCases
  <2>2. op[u].key \in Keys /\ op[u].key # k
    BY <1>7, <2>1, OpCases
  <2> QED
    BY <1>11, <1>6, <2>1, <2>2 DEF StillCurrent
<1> QED
  BY <1>9, <1>10, <1>12, <1>13

LEMMA ExtendIInv ==
  ASSUME DisjointKeys, IInv, TypeOK', NEW t \in Threads, Extend(t)
  PROVE  IInv'
<1> USE DEF IInv
<1> DEFINE k == op[t].key
           o == op[t].conv
<1>1. /\ k \in Keys /\ k \in KeysOf[t] /\ o \in Objects
      /\ store[k] = o /\ store' = store /\ op[t] # Idle
  BY OpCases DEF Extend, OwnKeys, StillStored
<1>2. /\ op'[t].phase = "measure" /\ op'[t].key = k /\ op'[t].conv = o
      /\ \A u \in Threads : u # t => op'[u] = op[u]
      /\ \A p \in Objects : p # o => heap'[p] = heap[p]
  BY DEF Extend, TypeOK
<1>3. \A u \in Threads : u # t /\ op[u] # Idle => op[u].key # k
  BY <1>1, KeysDiffer
<1>4. OwnKeys'
  BY <1>1, <1>2 DEF OwnKeys
<1>5. NoAliasing'
  BY <1>1 DEF NoAliasing
<1>6. StillStored'
  BY <1>1, <1>2, OpCases DEF StillStored
<1>7. StillCurrent'
  <2> SUFFICES ASSUME NEW u \in Threads, op'[u].phase = "replace"
               PROVE  /\ store'[op'[u].key] # NoObject
                      /\ MustPrune(heap'[store'[op'[u].key]])
                      /\ op'[u].kept = Prune(heap'[store'[op'[u].key]])
    BY DEF StillCurrent, MustPrune
  <2>1. u # t /\ op'[u] = op[u] /\ op[u] # Idle
    BY <1>2, OpCases
  <2>2. op[u].key \in Keys /\ op[u].key # k
    BY <1>3, <2>1, OpCases
  <2>3. store[op[u].key] \in Objects /\ store[op[u].key] # o
    BY <1>1, <2>1, <2>2 DEF NoAliasing, StillCurrent, TypeOK
  <2> QED
    BY <1>1, <1>2, <2>1, <2>3 DEF StillCurrent
<1> QED
  BY <1>4, <1>5, <1>6, <1>7

LEMMA FitsIInv ==
  ASSUME DisjointKeys, IInv, TypeOK', NEW t \in Threads, Fits(t)
  PROVE  IInv'
<1> USE DEF IInv
<1>1. /\ op'[t] = Idle /\ store' = store
      /\ \A u \in Threads : u # t => op'[u] = op[u]
  BY DEF Fits, TypeOK
<1>2. \A k \in Keys : store[k] # NoObject => heap'[store[k]] = heap[store[k]]
  BY SweepKeepsStored DEF Fits, TypeOK
<1>3. OwnKeys' /\ NoAliasing'
  BY <1>1 DEF OwnKeys, NoAliasing
<1>4. StillStored'
  BY <1>1, OpCases DEF StillStored, Idle
<1>5. StillCurrent'
  <2> SUFFICES ASSUME NEW u \in Threads, op'[u].phase = "replace"
               PROVE  /\ store'[op'[u].key] # NoObject
                      /\ MustPrune(heap'[store'[op'[u].key]])
                      /\ op'[u].kept = Prune(heap'[store'[op'[u].key]])
    BY DEF StillCurrent, MustPrune
  <2>1. u # t /\ op'[u] = op[u] /\ op[u].key \in Keys
    BY <1>1, OpCases DEF Idle
  <2> QED
    BY <1>1, <1>2, <2>1 DEF StillCurrent
<1> QED
  BY <1>3, <1>4, <1>5

LEMMA OverflowsIInv ==
  ASSUME DisjointKeys, IInv, TypeOK', NEW t \in Threads, Overflows(t)
  PROVE  IInv'
<1> USE DEF IInv
<1> DEFINE k == op[t].key
<1>1. /\ k \in Keys /\ k \in KeysOf[t] /\ store[k] = op[t].conv
      /\ op[t].conv \in Objects /\ store' = store
  BY OpCases DEF Overflows, OwnKeys, StillStored
<1>2. /\ op'[t].phase = "replace" /\ op'[t].key = k
      /\ op'[t].kept = Prune(heap[store[k]]) /\ MustPrune(heap[store[k]])
      /\ \A u \in Threads : u # t => op'[u] = op[u]
  BY <1>1 DEF Overflows, TypeOK
<1>3. \A l \in Keys : store[l] # NoObject => heap'[store[l]] = heap[store[l]]
  BY SweepKeepsStored DEF Overflows, TypeOK
<1>4. OwnKeys' /\ NoAliasing'
  BY <1>1, <1>2 DEF OwnKeys, NoAliasing
<1>5. StillStored'
  BY <1>1, <1>2, OpCases DEF StillStored
<1>6. StillCurrent'
  <2> SUFFICES ASSUME NEW u \in Threads, op'[u].phase = "replace"
               PROVE  /\ store'[op'[u].key] # NoObject
                      /\ MustPrune(heap'[store'[op'[u].key]])
                      /\ op'[u].kept = Prune(heap'[store'[op'[u].key]])
    BY DEF StillCurrent, MustPrune
  <2>1. CASE u = t
    BY <1>1, <1>2, <1>3, <2>1, NoObjectAssumption
  <2>2. CASE u # t
    BY <1>1, <1>2, <1>3, <2>2, OpCases DEF StillCurrent
  <2> QED
    BY <2>1, <2>2
<1> QED
  BY <1>4, <1>5, <1>6

(* A thread that rebinds a key of its own, outside append or as its last     *)
(* step, disturbs no other thread.                                           *)
LEMMA RebindIInv ==
  ASSUME DisjointKeys, IInv, TypeOK',
         NEW t \in Threads, NEW k \in Keys, k \in KeysOf[t],
         NEW s \in Seq(Message), Rebind(t, k, s)
  PROVE  IInv'
<1> USE DEF IInv
<1>1. PICK o \in Unused :
        /\ store' = [store EXCEPT ![k] = o]
        /\ op' = [op EXCEPT ![t] = Idle]
        /\ heap' = Swept([heap EXCEPT ![o] = s], store', op')
  BY DEF Rebind
<1>2. /\ op'[t] = Idle
      /\ \A u \in Threads : u # t => op'[u] = op[u]
      /\ \A l \in Keys : l # k => store'[l] = store[l]
      /\ \A l \in Keys : store[l] # o
      /\ store'[k] = o /\ o \in Objects
  BY <1>1 DEF TypeOK, Unused, Refs
<1>3. \A l \in Keys : l # k /\ store[l] # NoObject => heap'[store[l]] = heap[store[l]]
  <2>1. TAKE l \in Keys
  <2>2. HAVE l # k /\ store[l] # NoObject
  <2>3. store'[l] = store[l] /\ store[l] \in Objects /\ store[l] # o
    BY <1>2, <2>2 DEF TypeOK
  <2>4. store'[l] \in Refs(store', op')
    BY DEF Refs
  <2>5. heap'[store'[l]] = [heap EXCEPT ![o] = s][store'[l]]
    BY <1>1, <2>3, <2>4 DEF Swept
  <2> QED
    BY <2>3, <2>5 DEF TypeOK
<1>4. \A u \in Threads : u # t /\ op[u] # Idle => op[u].key # k
  BY KeysDiffer
<1>5. OwnKeys'
  BY <1>2 DEF OwnKeys
<1>6. NoAliasing'
  BY <1>2 DEF NoAliasing
<1>7. StillStored'
  BY <1>2, <1>4, OpCases DEF StillStored, Idle
<1>8. StillCurrent'
  <2> SUFFICES ASSUME NEW u \in Threads, op'[u].phase = "replace"
               PROVE  /\ store'[op'[u].key] # NoObject
                      /\ MustPrune(heap'[store'[op'[u].key]])
                      /\ op'[u].kept = Prune(heap'[store'[op'[u].key]])
    BY DEF StillCurrent, MustPrune
  <2>1. u # t /\ op'[u] = op[u] /\ op[u] # Idle
    BY <1>2, OpCases DEF Idle
  <2>2. op[u].key \in Keys /\ op[u].key # k
    BY <1>4, <2>1, OpCases
  <2> QED
    BY <1>2, <1>3, <2>1, <2>2 DEF StillCurrent
<1> QED
  BY <1>5, <1>6, <1>7, <1>8

LEMMA ClearIInv ==
  ASSUME DisjointKeys, IInv, TypeOK',
         NEW t \in Threads, NEW k \in Keys, Clear(t, k)
  PROVE  IInv'
<1> USE DEF IInv
<1>1. /\ k \in KeysOf[t] /\ op[t] = Idle /\ op' = op
      /\ store'[k] = NoObject
      /\ \A l \in Keys : l # k => store'[l] = store[l]
  BY DEF Clear, MayReplace, TypeOK
<1>2. \A l \in Keys : l # k /\ store[l] # NoObject => heap'[store[l]] = heap[store[l]]
  <2>1. TAKE l \in Keys
  <2>2. HAVE l # k /\ store[l] # NoObject
  <2>3. store'[l] = store[l] /\ store[l] \in Objects
    BY <1>1, <2>2 DEF TypeOK
  <2>4. store'[l] \in Refs(store', op)
    BY DEF Refs
  <2> QED
    BY <2>3, <2>4 DEF Clear, Swept
<1>3. \A u \in Threads : op[u] # Idle => op[u].key # k
  BY <1>1, KeysDiffer
<1>4. OwnKeys' /\ NoAliasing'
  BY <1>1 DEF OwnKeys, NoAliasing
<1>5. StillStored'
  BY <1>1, <1>3, OpCases DEF StillStored
<1>6. StillCurrent'
  <2> SUFFICES ASSUME NEW u \in Threads, op'[u].phase = "replace"
               PROVE  /\ store'[op'[u].key] # NoObject
                      /\ MustPrune(heap'[store'[op'[u].key]])
                      /\ op'[u].kept = Prune(heap'[store'[op'[u].key]])
    BY DEF StillCurrent, MustPrune
  <2>1. op'[u] = op[u] /\ op[u].key \in Keys /\ op[u].key # k
    BY <1>1, <1>3, OpCases
  <2> QED
    BY <1>1, <1>2, <2>1 DEF StillCurrent
<1> QED
  BY <1>4, <1>5, <1>6

LEMMA NextIInv ==
  ASSUME DisjointKeys, IInv, TypeOK', [Next]_vars
  PROVE  IInv'
<1>1. ASSUME NEW t \in Threads, Replace(t)
      PROVE  IInv'
  <2>1. /\ op[t].key \in Keys /\ op[t].key \in KeysOf[t] /\ op[t].kept \in Seq(Message)
        /\ Rebind(t, op[t].key, op[t].kept)
    BY <1>1, OpCases DEF IInv, OwnKeys, Replace
  <2> QED
    BY <2>1, RebindIInv
<1>2. ASSUME NEW t \in Threads, NEW k \in Keys, NEW messages \in Presets,
             SetHistory(t, k, messages)
      PROVE  IInv'
  <2>1. k \in KeysOf[t] /\ messages \in Seq(Message) /\ Rebind(t, k, messages)
    BY <1>2, PresetsAssumption DEF SetHistory, MayReplace
  <2> QED
    BY <2>1, RebindIInv
<1>3. CASE UNCHANGED vars
  BY <1>3 DEF vars, IInv, TypeOK, OwnKeys, NoAliasing, StillStored, StillCurrent
<1> QED
  BY <1>1, <1>2, <1>3, SetdefaultIInv, ExtendIInv, FitsIInv, OverflowsIInv, ClearIInv
  DEF Next

LEMMA InductiveInvariant == ASSUME DisjointKeys PROVE Spec => []IInv
<1>1. Init => IInv
  BY InitIInv
<1>2. IInv /\ TypeOK' /\ [Next]_vars => IInv'
  BY NextIInv
<1> QED
  BY <1>1, <1>2, TypeCorrect, PTL DEF Spec

(* When callers use disjoint keys, a thread inside append always holds the   *)
(* list that is stored for its key: no message goes to a list get_history no *)
(* longer returns (memory.py:41-46).                                         *)
THEOREM DisjointKeysStillStored == ASSUME DisjointKeys PROVE Spec => []StillStored
BY InductiveInvariant, PTL DEF IInv

(* When callers use disjoint keys, no two conversations ever share a list:   *)
(* what is said in one is never read in another (memory.py:41-46, 74-83).    *)
THEOREM DisjointKeysNoAliasing == ASSUME DisjointKeys PROVE Spec => []NoAliasing
BY InductiveInvariant, PTL DEF IInv

(* When callers use disjoint keys, what _prune returned is still the trim of *)
(* the stored list when it replaces it: no append is overwritten.            *)
THEOREM DisjointKeysStillCurrent == ASSUME DisjointKeys PROVE Spec => []StillCurrent
BY InductiveInvariant, PTL DEF IInv

(* When callers use disjoint keys, no trim leaves a tool reply without its   *)
(* call in a conversation that had none.                                     *)
THEOREM DisjointKeysNeverOrphan == ASSUME DisjointKeys PROVE Spec => []TrimNeverOrphans
<1>1. IInv => TrimNeverOrphans
  <2> SUFFICES ASSUME IInv, NEW t \in Threads, op[t].phase = "replace",
                      NoOrphans(heap[store[op[t].key]])
               PROVE  NoOrphans(op[t].kept)
    BY DEF TrimNeverOrphans
  <2>1. op[t].key \in Keys
    BY OpCases DEF IInv
  <2>2. heap[store[op[t].key]] \in Seq(Message)
    BY <2>1 DEF IInv, StillCurrent, TypeOK
  <2>3. op[t].kept = Prune(heap[store[op[t].key]])
    BY DEF IInv, StillCurrent
  <2> QED
    BY <2>2, <2>3, PruneNoOrphans
<1> QED
  BY <1>1, InductiveInvariant, PTL

-----------------------------------------------------------------------------
(* Refinement.                                                               *)

(* The definitions AtomicMemory shares with this module are the same.        *)
LEMMA SameAppended ==
  ASSUME NEW s, NEW m
  PROVE  Atomic!Appended(s, m) = Trim(Append(s, m))
BY DEF Atomic!Appended, Atomic!Trim, Atomic!Prune, Atomic!FromFirstUser,
       Atomic!FirstUser, Atomic!UserPositions, Atomic!IsUser, Atomic!LastN, Atomic!Keep,
       Trim, Prune, FromFirstUser, FirstUser, UserPositions, IsUser, LastN, Keep

(* A thread inside append is the only one that may be at work on its key, and *)
(* nobody is at work on the key of a thread outside append.                  *)
LEMMA MidAppendOwner ==
  ASSUME DisjointKeys, IInv, NEW t \in Threads
  PROVE  /\ op[t] # Idle =>
              (MidAppend(op[t].key) <=> op[t].phase \in {"measure", "replace"})
         /\ op[t] = Idle => \A k \in KeysOf[t] : ~MidAppend(k)
<1>1. ASSUME NEW u \in Threads, u # t, op[u].phase \in {"measure", "replace"},
             NEW k \in KeysOf[t]
      PROVE  op[u].key # k
  BY <1>1, OpCases, KeysDiffer DEF IInv
<1> QED
  BY <1>1, OpCases DEF MidAppend, IInv, OwnKeys

(* A step of thread t on key k leaves the histories of the other keys alone. *)
LEMMA OtherHistories ==
  ASSUME NEW t \in Threads, NEW k \in Keys,
         \A u \in Threads : u # t => op'[u] = op[u],
         op[t].phase \in {"measure", "replace"} => op[t].key = k,
         op'[t].phase \in {"measure", "replace"} => op'[t].key = k,
         \A l \in Keys : l # k =>
           /\ store'[l] = store[l]
           /\ store[l] # NoObject => heap'[store[l]] = heap[store[l]]
  PROVE  \A l \in Keys : l # k => History'[l] = History[l]
<1> SUFFICES ASSUME NEW l \in Keys, l # k
             PROVE  History'[l] = History[l]
  OBVIOUS
<1>1. MidAppend(l)' <=> MidAppend(l)
  BY DEF MidAppend
<1>2. Contents(l)' = Contents(l)
  BY DEF Contents
<1> QED
  BY <1>1, <1>2 DEF History

(* Two histories that agree outside k differ as an update of k does.         *)
LEMMA HistoryUpdate ==
  ASSUME NEW k \in Keys, NEW v,
         \A l \in Keys : l # k => History'[l] = History[l],
         History'[k] = v
  PROVE  History' = [History EXCEPT ![k] = v]
BY DEF History

LEMMA HistorySame ==
  ASSUME NEW k \in Keys,
         \A l \in Keys : l # k => History'[l] = History[l],
         History'[k] = History[k]
  PROVE  History' = History
BY DEF History

LEMMA SetdefaultRefines ==
  ASSUME DisjointKeys, IInv, IInv',
         NEW t \in Threads, NEW k \in Keys, NEW m \in Message, Setdefault(t, k, m)
  PROVE  History' = History
<1>1. PICK o \in ListFor(k) :
        /\ store' = [store EXCEPT ![k] = o]
        /\ heap' = [heap EXCEPT ![o] = Contents(k)]
        /\ op' = [op EXCEPT ![t] = [phase |-> "extend", key |-> k, msg |-> m, conv |-> o]]
  BY DEF Setdefault
<1>2. /\ k \in KeysOf[t] /\ op[t] = Idle /\ op[t].phase = "idle"
      /\ op'[t] # Idle /\ op'[t].key = k /\ op'[t].phase = "extend"
      /\ \A u \in Threads : u # t => op'[u] = op[u]
      /\ \A l \in Keys : l # k => store'[l] = store[l]
      /\ store'[k] = o
  BY <1>1 DEF Setdefault, IInv, TypeOK, Idle
<1>3. \A l \in Keys : l # k /\ store[l] # NoObject => heap'[store[l]] = heap[store[l]]
  <2>1. \A l \in Keys : l # k /\ store[l] # NoObject => store[l] # o
    BY <1>1 DEF ListFor, Unused, Refs, NoAliasing, IInv
  <2> QED
    BY <1>1, <2>1 DEF IInv, TypeOK
<1>4. \A l \in Keys : l # k => History'[l] = History[l]
  BY <1>2, <1>3, OtherHistories
<1>5. ~MidAppend(k) /\ ~MidAppend(k)'
  <2>1. ~MidAppend(k)
    BY <1>2, MidAppendOwner
  <2>2. ~MidAppend(k)'
    BY <1>2, <2>1 DEF MidAppend
  <2> QED
    BY <2>1, <2>2
<1>6. Contents(k)' = Contents(k)
  <2>1. o \in Objects
    BY <1>1 DEF ListFor, Unused, IInv, TypeOK
  <2>2. Contents(k)' = heap'[o]
    BY <1>2, <2>1, NoObjectAssumption DEF Contents
  <2> QED
    BY <1>1, <2>1, <2>2 DEF IInv, TypeOK
<1>7. History'[k] = History[k]
  BY <1>5, <1>6 DEF History
<1> QED
  BY <1>4, <1>7, HistorySame

(* The message is added to the list: the step that implements the append.    *)
LEMMA ExtendRefines ==
  ASSUME DisjointKeys, IInv, IInv', NEW t \in Threads, Extend(t)
  PROVE  /\ op[t].key \in Keys /\ op[t].msg \in Message
         /\ Atomic!AppendTo(op[t].key, op[t].msg)
<1>0. PICK k \in Keys, o \in Objects : k = op[t].key /\ o = op[t].conv
  BY OpCases DEF Extend, IInv
<1>1. /\ k \in Keys /\ op[t].msg \in Message /\ o \in Objects /\ store[k] = o
      /\ op[t] # Idle /\ op[t].phase = "extend"
  BY <1>0, OpCases DEF Extend, IInv, StillStored
<1>2. /\ op'[t].phase = "measure" /\ op'[t].key = k
      /\ \A u \in Threads : u # t => op'[u] = op[u]
      /\ store' = store /\ heap' = [heap EXCEPT ![o] = Append(@, op[t].msg)]
  BY <1>0 DEF Extend, IInv, TypeOK
<1>3. \A l \in Keys : l # k /\ store[l] # NoObject => heap'[store[l]] = heap[store[l]]
  BY <1>1, <1>2 DEF IInv, TypeOK, NoAliasing
<1>4. \A l \in Keys : l # k => History'[l] = History[l]
  BY <1>0, <1>1, <1>2, <1>3, OtherHistories
<1>5. ~MidAppend(k) /\ MidAppend(k)'
  BY <1>0, <1>1, <1>2, MidAppendOwner DEF MidAppend
<1>6. Contents(k) = heap[o] /\ Contents(k)' = Append(heap[o], op[t].msg)
  <2>1. o # NoObject /\ heap'[o] = Append(heap[o], op[t].msg)
    BY <1>1, <1>2, NoObjectAssumption DEF IInv, TypeOK
  <2>2. Contents(k) = heap[o]
    BY <1>1, <2>1 DEF Contents
  <2>3. Contents(k)' = heap'[o]
    BY <1>1, <1>2, <2>1 DEF Contents
  <2> QED
    BY <2>1, <2>2, <2>3
<1>7. History[k] = heap[o] /\ History'[k] = Trim(Append(heap[o], op[t].msg))
  BY <1>1, <1>5, <1>6 DEF History
<1>8. History'[k] = Atomic!Appended(History[k], op[t].msg)
  BY <1>7, SameAppended
<1>9. History' = [History EXCEPT ![k] = Atomic!Appended(History[k], op[t].msg)]
  BY <1>1, <1>4, <1>8, HistoryUpdate
<1> QED
  BY <1>0, <1>1, <1>9 DEF Atomic!AppendTo

LEMMA FitsRefines ==
  ASSUME DisjointKeys, IInv, IInv', NEW t \in Threads, Fits(t)
  PROVE  History' = History
<1>0. PICK k \in Keys : k = op[t].key
  BY OpCases DEF Fits, Overflows, IInv
<1>1. /\ k \in Keys /\ store[k] = op[t].conv /\ store[k] # NoObject
      /\ op[t] # Idle /\ op[t].phase = "measure" /\ ~MustPrune(heap[store[k]])
  BY <1>0, OpCases, NoObjectAssumption DEF Fits, IInv, StillStored
<1>2. /\ op'[t] = Idle /\ op'[t].phase = "idle" /\ store' = store
      /\ \A u \in Threads : u # t => op'[u] = op[u]
  BY DEF Fits, IInv, TypeOK, Idle
<1>3. \A l \in Keys : store[l] # NoObject => heap'[store[l]] = heap[store[l]]
  BY SweepKeepsStored DEF Fits, IInv, TypeOK
<1>4. \A l \in Keys : l # k => History'[l] = History[l]
  BY <1>0, <1>1, <1>2, <1>3, OtherHistories
<1>5. MidAppend(k)
  BY <1>0, <1>1 DEF MidAppend
<1>6. ~MidAppend(k)'
  <2>1. ASSUME NEW u \in Threads, u # t, op[u].phase \in {"measure", "replace"}
        PROVE  op[u].key # k
    <3>1. op[u] # Idle /\ k \in KeysOf[t]
      BY <1>0, <1>1, <2>1, OpCases DEF IInv, OwnKeys
    <3> QED
      BY <1>0, <1>1, <2>1, <3>1, KeysDiffer DEF IInv
  <2> QED
    BY <1>2, <2>1 DEF MidAppend
<1>7. Contents(k)' = Contents(k) /\ Trim(Contents(k)) = Contents(k)
  BY <1>1, <1>2, <1>3 DEF Contents, Trim, MustPrune
<1>8. History'[k] = History[k]
  BY <1>1, <1>5, <1>6, <1>7 DEF History
<1> QED
  BY <1>1, <1>4, <1>8, HistorySame

LEMMA OverflowsRefines ==
  ASSUME DisjointKeys, IInv, IInv', NEW t \in Threads, Overflows(t)
  PROVE  History' = History
<1>0. PICK k \in Keys : k = op[t].key
  BY OpCases DEF Fits, Overflows, IInv
<1>1. k \in Keys /\ op[t] # Idle /\ op[t].phase = "measure"
  BY <1>0, OpCases DEF Overflows, IInv
<1>2. /\ op'[t].phase = "replace" /\ op'[t].key = k /\ store' = store
      /\ \A u \in Threads : u # t => op'[u] = op[u]
  BY <1>0 DEF Overflows, IInv, TypeOK
<1>3. \A l \in Keys : store[l] # NoObject => heap'[store[l]] = heap[store[l]]
  BY SweepKeepsStored DEF Overflows, IInv, TypeOK
<1>4. \A l \in Keys : l # k => History'[l] = History[l]
  BY <1>0, <1>1, <1>2, <1>3, OtherHistories
<1>5. MidAppend(k) /\ MidAppend(k)' /\ Contents(k)' = Contents(k)
  BY <1>0, <1>1, <1>2, <1>3 DEF MidAppend, Contents
<1>6. History'[k] = History[k]
  BY <1>1, <1>5 DEF History
<1> QED
  BY <1>1, <1>4, <1>6, HistorySame

(* A rebind of a key nobody else is at work on makes s its history.          *)
LEMMA RebindHistory ==
  ASSUME DisjointKeys, IInv, IInv',
         NEW t \in Threads, NEW k \in Keys, k \in KeysOf[t],
         op[t] # Idle => op[t].key = k,
         NEW s \in Seq(Message), Rebind(t, k, s)
  PROVE  History' = [History EXCEPT ![k] = s]
<1>1. PICK o \in Unused :
        /\ store' = [store EXCEPT ![k] = o]
        /\ op' = [op EXCEPT ![t] = Idle]
        /\ heap' = Swept([heap EXCEPT ![o] = s], store', op')
  BY DEF Rebind
<1>2. /\ op'[t] = Idle /\ op'[t].phase = "idle"
      /\ \A u \in Threads : u # t => op'[u] = op[u]
      /\ \A l \in Keys : l # k => store'[l] = store[l]
      /\ \A l \in Keys : store[l] # o
      /\ store'[k] = o /\ o \in Objects
  BY <1>1 DEF IInv, TypeOK, Unused, Refs, Idle
<1>3. \A l \in Keys : store'[l] # NoObject =>
        heap'[store'[l]] = [heap EXCEPT ![o] = s][store'[l]]
  <2>1. TAKE l \in Keys
  <2>2. HAVE store'[l] # NoObject
  <2>3. store'[l] \in Objects /\ store'[l] \in Refs(store', op')
    BY <2>2 DEF IInv, TypeOK, Refs
  <2> QED
    BY <1>1, <2>3 DEF Swept
<1>4. \A l \in Keys : l # k /\ store[l] # NoObject => heap'[store[l]] = heap[store[l]]
  BY <1>2, <1>3 DEF IInv, TypeOK
<1>5. op[t].phase \in {"measure", "replace"} => op[t].key = k
  BY OpCases DEF IInv
<1>6. \A l \in Keys : l # k => History'[l] = History[l]
  BY <1>2, <1>4, <1>5, OtherHistories
<1>7. ~MidAppend(k)'
  <2>1. ASSUME NEW u \in Threads, u # t, op[u].phase \in {"measure", "replace"}
        PROVE  op[u].key # k
    <3>1. op[u] # Idle
      BY <2>1, OpCases DEF IInv
    <3> QED
      BY <2>1, <3>1, KeysDiffer DEF IInv
  <2> QED
    BY <1>2, <2>1 DEF MidAppend
<1>8. Contents(k)' = s
  <2>1. heap'[o] = s
    BY <1>2, <1>3, NoObjectAssumption DEF IInv, TypeOK
  <2> QED
    BY <1>2, <2>1, NoObjectAssumption DEF Contents
<1>9. History'[k] = s
  BY <1>7, <1>8 DEF History
<1> QED
  BY <1>6, <1>9, HistoryUpdate

LEMMA ReplaceRefines ==
  ASSUME DisjointKeys, IInv, IInv', NEW t \in Threads, Replace(t)
  PROVE  History' = History
<1>1. PICK k \in Keys : k = op[t].key
  BY OpCases DEF Replace, IInv
<1>2. /\ op[t] # Idle /\ op[t].phase = "replace" /\ k \in KeysOf[t]
      /\ op[t].kept \in Seq(Message) /\ Rebind(t, k, op[t].kept)
  BY <1>1, OpCases DEF Replace, IInv, OwnKeys
<1>3. op[t].kept = Trim(Contents(k))
  BY <1>1, <1>2 DEF IInv, StillCurrent, MustPrune, Contents, Trim
<1>4. MidAppend(k)
  BY <1>1, <1>2 DEF MidAppend
<1>5. History[k] = op[t].kept
  BY <1>3, <1>4 DEF History
<1>6. History' = [History EXCEPT ![k] = op[t].kept]
  BY <1>1, <1>2, RebindHistory
<1> QED
  BY <1>5, <1>6 DEF History

LEMMA ClearRefines ==
  ASSUME DisjointKeys, IInv, IInv', NEW t \in Threads, NEW k \in Keys, Clear(t, k)
  PROVE  Atomic!SetTo(k, <<>>)
<1>1. /\ k \in KeysOf[t] /\ op[t] = Idle /\ op' = op /\ op[t].phase = "idle"
      /\ store'[k] = NoObject
      /\ \A l \in Keys : l # k => store'[l] = store[l]
      /\ heap' = Swept(heap, store', op)
  BY DEF Clear, MayReplace, IInv, TypeOK, Idle
<1>2. \A l \in Keys : l # k /\ store[l] # NoObject => heap'[store[l]] = heap[store[l]]
  <2>1. TAKE l \in Keys
  <2>2. HAVE l # k /\ store[l] # NoObject
  <2>3. store'[l] = store[l] /\ store[l] \in Objects /\ store'[l] \in Refs(store', op)
    BY <1>1, <2>2 DEF IInv, TypeOK, Refs
  <2> QED
    BY <1>1, <2>3 DEF Swept
<1>3. \A l \in Keys : l # k => History'[l] = History[l]
  BY <1>1, <1>2, OtherHistories
<1>4. ~MidAppend(k)'
  BY <1>1, MidAppendOwner DEF MidAppend
<1>5. Contents(k)' = <<>>
  BY <1>1 DEF Contents
<1>6. History'[k] = <<>>
  BY <1>4, <1>5 DEF History
<1>7. History' = [History EXCEPT ![k] = <<>>]
  BY <1>3, <1>6, HistoryUpdate
<1> QED
  BY <1>7 DEF Atomic!SetTo

(* When callers use disjoint keys, the memory implements AtomicMemory: the   *)
(* steps of append, interleaved with those of other threads, look like one   *)
(* atomic append (the claim of the class's docstring, memory.py:14-18).      *)
THEOREM DisjointKeysAtomic == ASSUME DisjointKeys PROVE Spec => AtomicSpec
<1>1. Init => Atomic!Init
  BY DEF Init, Atomic!Init, History, MidAppend, Contents, Idle
<1>2. IInv /\ IInv' /\ [Next]_vars => [Atomic!Next]_History
  <2> SUFFICES ASSUME IInv, IInv', [Next]_vars
               PROVE  Atomic!Next \/ History' = History
    OBVIOUS
  <2>1. ASSUME NEW t \in Threads, NEW k \in Keys, NEW m \in Message, Setdefault(t, k, m)
        PROVE  History' = History
    BY <2>1, SetdefaultRefines
  <2>2. ASSUME NEW t \in Threads, Extend(t)
        PROVE  Atomic!Next
    BY <2>2, ExtendRefines DEF Atomic!Next
  <2>3. ASSUME NEW t \in Threads, Fits(t) \/ Overflows(t) \/ Replace(t)
        PROVE  History' = History
    BY <2>3, FitsRefines, OverflowsRefines, ReplaceRefines
  <2>4. ASSUME NEW t \in Threads, NEW k \in Keys, NEW messages \in Presets,
               SetHistory(t, k, messages)
        PROVE  Atomic!Next
    <3>1. /\ k \in KeysOf[t] /\ k \in Replaceable /\ op[t] = Idle
          /\ messages \in Seq(Message) /\ Rebind(t, k, messages)
      BY <2>4, PresetsAssumption DEF SetHistory, MayReplace
    <3>2. History' = [History EXCEPT ![k] = messages]
      BY <3>1, RebindHistory
    <3> QED
      BY <3>1, <3>2 DEF Atomic!Next, Atomic!SetTo
  <2>5. ASSUME NEW t \in Threads, NEW k \in Keys, Clear(t, k)
        PROVE  Atomic!Next
    BY <2>5, ClearRefines DEF Atomic!Next, Clear, MayReplace
  <2>6. CASE UNCHANGED vars
    BY <2>6 DEF vars, History, MidAppend, Contents
  <2> QED
    BY <2>1, <2>2, <2>3, <2>4, <2>5, <2>6 DEF Next
<1> QED
  BY <1>1, <1>2, InductiveInvariant, PTL DEF Spec, AtomicSpec, Atomic!Spec
=============================================================================
