---------------------------- MODULE Conversation ----------------------------
(* One conversation of the memory component (src/memory/memory.py): the list *)
(* of messages kept for a channel/thread, and how it is trimmed.             *)
(*                                                                           *)
(* A message is a record with a "role", the "turn" (one pipeline run) that   *)
(* wrote it and "ids", the tool-call ids it carries: those an assistant      *)
(* message requests, or the one a tool message answers. Contents are not     *)
(* modelled.                                                                 *)
(*                                                                           *)
(* No caller stores a "system" message (the prompt is put in front of the    *)
(* history by whoever sends it), so _prune's partition into system and other *)
(* messages is the identity here.                                            *)
EXTENDS Integers, Sequences

CONSTANT MaxTurns \* max_turns: the messages kept per conversation

ASSUME MaxTurnsAssumption == MaxTurns \in Nat

Roles == {"user", "assistant", "tool"}

IsUser(m) == m.role = "user"
IsTool(m) == m.role = "tool"

-----------------------------------------------------------------------------
(* _prune                                                                    *)

\* A window that leaves room for a tool call and its reply.
KeepWithReserve == IF MaxTurns > 3 THEN MaxTurns - 2 ELSE 1

Keep == IF MaxTurns > 1 THEN MaxTurns ELSE 1

LastN(s, n) == SubSeq(s, IF Len(s) > n THEN Len(s) - n + 1 ELSE 1, Len(s))

UserPositions(s) == {i \in 1 .. Len(s) : IsUser(s[i])}

FirstUser(s) ==
  CHOOSE i \in UserPositions(s) : \A j \in UserPositions(s) : i <= j

FromFirstUser(s) ==
  IF UserPositions(s) = {} THEN <<>> ELSE SubSeq(s, FirstUser(s), Len(s))

\* A trim that forgets to advance to a user message.
PruneAnywhere(conv) == LastN(conv, Keep)

Prune(conv) == FromFirstUser(LastN(conv, Keep))

\* What append leaves of a conversation that has just grown.
Trim(conv) == IF Len(conv) > MaxTurns THEN Prune(conv) ELSE conv

Appended(conv, m) == Trim(Append(conv, m))

-----------------------------------------------------------------------------
(* The contract of the chat APIs on a list of messages: a tool message       *)
(* answers a call of the assistant message its block of tool messages        *)
(* follows, and every call is answered in the block that follows it.         *)

\* Only tool messages stand strictly between positions i and j.
SameBlock(s, i, j) == i < j /\ \A n \in i + 1 .. j - 1 : IsTool(s[n])

Answers(s, i, j) ==
  /\ IsTool(s[j])
  /\ s[i].role = "assistant"
  /\ s[j].ids \subseteq s[i].ids
  /\ SameBlock(s, i, j)

NoOrphans(s) == \A j \in 1 .. Len(s) :
  IsTool(s[j]) => \E i \in 1 .. Len(s) : Answers(s, i, j)

AllAnswered(s) == \A i \in 1 .. Len(s) :
  s[i].role = "assistant" => \A c \in s[i].ids :
    \E j \in 1 .. Len(s) : Answers(s, i, j) /\ s[j].ids = {c}

WellPaired(s) == NoOrphans(s) /\ AllAnswered(s)
=============================================================================
