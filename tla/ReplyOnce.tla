------------------------------ MODULE ReplyOnce ------------------------------
(* What the bot promises of each Slack event it receives: it is ignored, or  *)
(* it is taken on and later settled, once. What is posted for it is nothing  *)
(* if it is ignored; else a reply, an error, or both when the post of the    *)
(* reply seems to fail and did not; or nothing when Slack takes no post. No  *)
(* message is repeated.                                                      *)
EXTENDS Sequences

CONSTANT Events

VARIABLES
  state,  \* state[e]: "new", "ignored", "open" or "settled"
  posted  \* posted[e]: the messages posted for e, in order

vars == <<state, posted>>

Init ==
  /\ state = [e \in Events |-> "new"]
  /\ posted = [e \in Events |-> <<>>]

Move(e, from, to) ==
  /\ state[e] = from
  /\ state' = [state EXCEPT ![e] = to]

Receive(e) ==
  /\ Move(e, "new", "ignored") \/ Move(e, "new", "open")
  /\ UNCHANGED posted

\* The reply is posted at most once, and never after an error.
PostReply(e) ==
  /\ posted[e] = <<>>
  /\ posted' = [posted EXCEPT ![e] = <<"reply">>]
  /\ Move(e, "open", "open") \/ Move(e, "open", "settled")

Settle(e) ==
  /\ Move(e, "open", "settled")
  /\ posted' = [posted EXCEPT ![e] = Append(@, "error")] \/ UNCHANGED posted

Next == \E e \in Events : Receive(e) \/ PostReply(e) \/ Settle(e)

\* What is taken on is settled.
Fairness == \A e \in Events : WF_vars(Settle(e))

Spec == Init /\ [][Next]_vars /\ Fairness
=============================================================================
