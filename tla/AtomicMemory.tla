---------------------------- MODULE AtomicMemory ----------------------------
(* What the conversation memory promises its callers: a history per key,     *)
(* which an append extends and trims, and which a clear or a set replaces,   *)
(* each in one step.                                                         *)
EXTENDS Conversation

CONSTANTS
  Keys,         \* the strings _key makes of a channel and a thread
  Message,      \* the messages callers append
  Replaceable,  \* the keys a caller clears or sets
  Presets       \* the histories a caller sets

VARIABLE history \* history[k]: what get_history(k) returns

Init == history = [k \in Keys |-> <<>>]

AppendTo(k, m) == history' = [history EXCEPT ![k] = Appended(@, m)]

SetTo(k, conv) == history' = [history EXCEPT ![k] = conv]

Next ==
  \/ \E k \in Keys, m \in Message : AppendTo(k, m)
  \/ \E k \in Replaceable, conv \in Presets \cup {<<>>} : SetTo(k, conv)

Spec == Init /\ [][Next]_history
=============================================================================
