------------------------------ MODULE MCSlackBot ------------------------------
(* Events for the Slack bot: which of them arrive is a configuration's       *)
(* choice.                                                                   *)
EXTENDS SlackBot

CONSTANTS c1, e1, e2, e3, e4

\* A message, by its time stamp, in a thread or outside any.
Msg(handler, text, ts, thread) ==
  [handler |-> handler, channel |-> c1, text |-> text, user |-> "human",
   subtype |-> "", ts |-> ts, thread_ts |-> thread]

\* e1 and e2 are messages of a thread each, the second a mention in a thread
\* begun earlier; e3 and e4 are left alone: a mention of the bot with a command
\* for another one, and a post of a bot.
MCDistinctThreads == [e \in Events |->
  CASE e = e1 -> Msg("message", "plain", 1, NoTs)
    [] e = e2 -> Msg("mention", "mention plain", 4, 2)
    [] e = e3 -> Msg("mention", "mention bang", 3, NoTs)
    [] OTHER -> [Msg("message", "plain", 6, 2) EXCEPT !.subtype = "bot_message"]]

\* e1 begins a thread, and e2 follows in it.
MCOneThread == [e \in Events |->
  CASE e = e1 -> Msg("message", "plain", 1, NoTs)
    [] OTHER -> Msg("message", "plain", 2, 1)]
=============================================================================
