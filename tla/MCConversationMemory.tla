------------------------ MODULE MCConversationMemory ------------------------
(* Two threads with a conversation each, one of which is also set and        *)
(* cleared, over messages of one tool-calling turn.                          *)
EXTENDS ConversationMemory, TLC

CONSTANTS t1, t2, k1, k2, o1, o2, o3, o4

User == [role |-> "user", turn |-> 1, ids |-> {}]
Calls == [role |-> "assistant", turn |-> 1, ids |-> {1}]
Reply == [role |-> "tool", turn |-> 1, ids |-> {1}]

MCMessage == {User, Calls, Reply}
MCKeysOf == (t1 :> {k1}) @@ (t2 :> {k2})
MCReplaceable == {k2}
MCPresets == {<<User>>}

Symmetry == Permutations(Objects)
=============================================================================
