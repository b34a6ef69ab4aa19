------------------------- MODULE ConversationMemory -------------------------
(* ConversationMemory of src/memory/memory.py as the threads of the process  *)
(* run it. CPython switches threads between bytecodes, so append is not one  *)
(* step: setdefault, list.append, the length test with _prune, and the store *)
(* of the trimmed list are each atomic, and other threads run in between.    *)
(*                                                                           *)
(* Lists are objects: _store maps a key to an object, and a thread inside    *)
(* append holds a reference to the object it found, which may no longer be   *)
(* the stored one. Objects nothing refers to are collected.                  *)
EXTENDS Conversation

CONSTANTS
  Threads,      \* the worker threads and the listener
  Keys,         \* the strings _key makes of a channel and a thread
  Message,      \* the messages callers append
  Objects,      \* list objects, enough of them for every key and thread
  KeysOf,       \* KeysOf[t]: the keys thread t calls the memory with
  Replaceable,  \* the keys a caller clears or sets
  Presets,      \* the histories a caller sets
  NoObject      \* the absence of a key in _store

ASSUME KeysOfAssumption == KeysOf \in [Threads -> SUBSET Keys]
ASSUME ReplaceableAssumption == Replaceable \subseteq Keys
ASSUME MessageAssumption == \A m \in Message : m.role \in Roles
ASSUME PresetsAssumption == Presets \subseteq Seq(Message)
ASSUME NoObjectAssumption == NoObject \notin Objects

VARIABLES
  store,  \* store[k]: the object _store holds for k, or NoObject
  heap,   \* heap[o]: the contents of list object o
  op      \* op[t]: how far thread t is in append, and its local variables

vars == <<store, heap, op>>

\* What the class's docstring asks of callers: no two threads use the same key.
DisjointKeys == \A t, u \in Threads : t # u => KeysOf[t] \cap KeysOf[u] = {}

-----------------------------------------------------------------------------

Idle == [phase |-> "idle"]
Extending == [phase : {"extend"}, key : Keys, msg : Message, conv : Objects]
Measuring == [phase : {"measure"}, key : Keys, conv : Objects]
Replacing == [phase : {"replace"}, key : Keys, kept : Seq(Message)]

\* The list objects that _store and threads inside append refer to.
Refs(s, p) ==
  {s[k] : k \in Keys} \cup
  {p[t].conv : t \in {u \in Threads : p[u].phase \in {"extend", "measure"}}}

\* What get_history(k) returns.
Contents(k) == IF store[k] = NoObject THEN <<>> ELSE heap[store[k]]

Unused == Objects \ Refs(store, op)

\* The heap h without the objects that s and p do not refer to.
Swept(h, s, p) == [o \in Objects |-> IF o \in Refs(s, p) THEN h[o] ELSE <<>>]

Init ==
  /\ store = [k \in Keys |-> NoObject]
  /\ heap = [o \in Objects |-> <<>>]
  /\ op = [t \in Threads |-> Idle]

\* dict.get in place of dict.setdefault.
StoredOnly(k) == {store[k]}

\* A default list that is one object for all keys.
SharedDefault(k) == IF store[k] = NoObject THEN Objects ELSE {store[k]}

\* The list setdefault(k, []) returns: the stored one, or a new one.
ListFor(k) == IF store[k] = NoObject THEN Unused ELSE {store[k]}

Setdefault(t, k, m) ==
  /\ op[t] = Idle
  /\ k \in KeysOf[t]
  /\ \E o \in ListFor(k) :
       /\ store' = [store EXCEPT ![k] = o]
       /\ heap' = [heap EXCEPT ![o] = Contents(k)]
       /\ op' = [op EXCEPT ![t] =
                  [phase |-> "extend", key |-> k, msg |-> m, conv |-> o]]

Extend(t) ==
  /\ op[t].phase = "extend"
  /\ heap' = [heap EXCEPT ![op[t].conv] = Append(@, op[t].msg)]
  /\ op' = [op EXCEPT ![t] =
             [phase |-> "measure", key |-> op[t].key, conv |-> op[t].conv]]
  /\ UNCHANGED store

\* The length test of append, off by one.
MustPruneLate(s) == Len(s) > MaxTurns + 1

MustPrune(s) == Len(s) > MaxTurns

Fits(t) ==
  /\ op[t].phase = "measure"
  /\ ~MustPrune(heap[op[t].conv])
  /\ op' = [op EXCEPT ![t] = Idle]
  /\ heap' = Swept(heap, store, op')
  /\ UNCHANGED store

Overflows(t) ==
  /\ op[t].phase = "measure"
  /\ MustPrune(heap[op[t].conv])
  /\ op' = [op EXCEPT ![t] = [phase |-> "replace", key |-> op[t].key,
                              kept |-> Prune(heap[op[t].conv])]]
  /\ heap' = Swept(heap, store, op')
  /\ UNCHANGED store

\* _store[k] = a new list that holds s, by thread t, whose call then returns.
Rebind(t, k, s) == \E o \in Unused :
  /\ store' = [store EXCEPT ![k] = o]
  /\ op' = [op EXCEPT ![t] = Idle]
  /\ heap' = Swept([heap EXCEPT ![o] = s], store', op')

Replace(t) ==
  /\ op[t].phase = "replace"
  /\ Rebind(t, op[t].key, op[t].kept)

\* A clear or a set that any thread issues for any key.
MayReplaceAny(t, k) == op[t] = Idle /\ k \in Replaceable

MayReplace(t, k) == op[t] = Idle /\ k \in KeysOf[t] \cap Replaceable

SetHistory(t, k, messages) ==
  /\ MayReplace(t, k)
  /\ Rebind(t, k, messages)

Clear(t, k) ==
  /\ MayReplace(t, k)
  /\ store' = [store EXCEPT ![k] = NoObject]
  /\ heap' = Swept(heap, store', op)
  /\ UNCHANGED op

Next == \E t \in Threads :
  \/ \E k \in Keys, m \in Message : Setdefault(t, k, m)
  \/ Extend(t)
  \/ Fits(t)
  \/ Overflows(t)
  \/ Replace(t)
  \/ \E k \in Keys, messages \in Presets : SetHistory(t, k, messages)
  \/ \E k \in Keys : Clear(t, k)

Spec == Init /\ [][Next]_vars

-----------------------------------------------------------------------------
(* Properties                                                                *)

\* Type correctness of _store, of the lists and of append's local variables.
TypeOK ==
  /\ store \in [Keys -> Objects \cup {NoObject}]
  /\ heap \in [Objects -> Seq(Message)]
  /\ op \in [Threads -> {Idle} \cup Extending \cup Measuring \cup Replacing]

\* The list a thread is appending to is still the stored one when it goes on
\* with it: nobody replaced or cleared the conversation in between, so no
\* message goes to a list that get_history no longer returns. This is what
\* "disjoint keys" buys in append, memory.py:41-46.
StillStored == \A t \in Threads :
  op[t].phase \in {"extend", "measure"} => store[op[t].key] = op[t].conv

\* What _prune returned is still the trim of the stored list when it is put
\* in its place: no message another thread appended meanwhile is overwritten
\* (memory.py:46).
StillCurrent == \A t \in Threads : op[t].phase = "replace" =>
  /\ store[op[t].key] # NoObject
  /\ MustPrune(heap[store[op[t].key]])
  /\ op[t].kept = Prune(heap[store[op[t].key]])

\* Two conversations are never one list.
NoAliasing == \A k, l \in Keys :
  (k # l /\ store[k] = store[l]) => store[k] = NoObject

\* _prune never leaves the reply to a tool call without the call, whatever
\* list of complete turns it is given (its docstring, memory.py:51-53).
TrimNeverOrphans == \A t \in Threads : op[t].phase = "replace" =>
  (NoOrphans(heap[store[op[t].key]]) => NoOrphans(op[t].kept))

-----------------------------------------------------------------------------
(* Refinement of AtomicMemory: an append takes effect when the message is    *)
(* added to the list, trimmed as the trim that follows will leave it.        *)

MidAppend(k) == \E t \in Threads :
  op[t].phase \in {"measure", "replace"} /\ op[t].key = k

History == [k \in Keys |-> IF MidAppend(k) THEN Trim(Contents(k)) ELSE Contents(k)]

Atomic == INSTANCE AtomicMemory WITH history <- History

\* Under disjoint keys the four steps of append, with the other threads' steps
\* in between, look like one atomic append to every caller.
AtomicSpec == Atomic!Spec
=============================================================================
