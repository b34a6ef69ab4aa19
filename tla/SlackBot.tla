------------------------------- MODULE SlackBot -------------------------------
(* The Slack bot (src/slack/bot.py) on top of the agent loop: the listeners  *)
(* of message and app_mention events, the daemon thread each accepted event  *)
(* gets, the post of its reply or of an error, and /reset.                   *)
(*                                                                           *)
(* Slack decides which events it delivers and whether a post succeeds. A     *)
(* post reaches the channel once or not at all, and one that raises may have *)
(* reached it all the same.                                                  *)
EXTENDS Naturals, Sequences

CONSTANTS
  Events,          \* deliveries of message and app_mention events
  Payload,         \* Payload[e]: what the listener reads of event e
  Channels,        \* channel ids
  CommandThreads,  \* what command.get("thread_ts") may be for a /reset
  NoTs,            \* an absent thread_ts
  MaxTurns, MaxIterations, MaxRetries, MaxParallel, Nobody  \* see AgentLoop

ASSUME LoopAssumption ==
  /\ {MaxTurns, MaxIterations, MaxRetries} \subseteq Nat
  /\ MaxParallel \in Nat \ {0}
  /\ Nobody \notin Events

VARIABLES
  history, pc, iteration, forced, sent, attempt, todo,  \* see AgentLoop
  stage,     \* stage[e]: where the bot is with event e
  posts,     \* posts[e]: the messages that reached the channel for it, in order,
             \* the working note left out
  forgotten  \* <<f, e>> in forgotten: a /reset came after f's turn and before e

loopVars == <<history, pc, iteration, forced, sent, attempt, todo>>
vars == <<loopVars, stage, posts, forgotten>>

-----------------------------------------------------------------------------
(* Keys                                                                      *)

\* A key made of the channel alone.
KeyOfChannel(channel, thread) == <<channel>>

\* ConversationMemory._key
Key(channel, thread) == IF thread = NoTs THEN <<channel>> ELSE <<channel, thread>>

\* A message outside any thread is answered in, and stored as, its own thread.
ThreadOf(e) == IF Payload[e].thread_ts = NoTs THEN Payload[e].ts ELSE Payload[e].thread_ts

EventKey(e) == Key(Payload[e].channel, ThreadOf(e))

StoredKeys == {EventKey(e) : e \in Events} \cup
              {Key(c, thread) : c \in Channels, thread \in CommandThreads}

Loop == INSTANCE AgentLoop
  WITH Turns <- Events, Keys <- StoredKeys, KeyOf <- [e \in Events |-> EventKey(e)]

-----------------------------------------------------------------------------
(* Listeners                                                                 *)

Init ==
  /\ Loop!Init
  /\ stage = [e \in Events |-> "new"]
  /\ posts = [e \in Events |-> <<>>]
  /\ forgotten = {}

\* The text without the mention of the bot.
Stripped(text) ==
  CASE text = "mention" -> "empty"
    [] text = "mention plain" -> "plain"
    [] text = "mention bang" -> "bang"
    [] OTHER -> text

\* handle_message takes the text as it is, handle_mention strips it; only the
\* first looks at the subtype. The other tests are _process_text's.
Accepts(e) ==
  LET text == IF Payload[e].handler = "mention" THEN Stripped(Payload[e].text)
                                                ELSE Payload[e].text
  IN  /\ Payload[e].handler = "message" => Payload[e].subtype # "bot_message"
      /\ text \notin {"empty", "bang"}
      /\ Payload[e].user \notin {"", "USLACKBOT"}

\* The listener posts a note (whether that works or not), starts the worker
\* thread and returns.
Deliver(e) ==
  /\ stage[e] = "new"
  /\ stage' = [stage EXCEPT ![e] = IF Accepts(e) THEN "working" ELSE "ignored"]
  /\ UNCHANGED <<loopVars, posts, forgotten>>

-----------------------------------------------------------------------------
(* Worker threads                                                            *)

StartTurn(e) ==
  /\ stage[e] = "working"
  /\ Loop!Start(e)
  /\ UNCHANGED <<stage, posts, forgotten>>

TurnStep(e) ==
  /\ Loop!Step(e)
  /\ UNCHANGED <<stage, posts, forgotten>>

Posted(e, kind, reached) ==
  posts' = IF reached THEN [posts EXCEPT ![e] = Append(@, kind)] ELSE posts

\* A reply that is posted again when the post of it raises.
PostReplyRetried(e) ==
  /\ stage[e] = "working"
  /\ pc[e] = "answered"
  /\ \/ /\ Posted(e, "reply", TRUE)
        /\ stage' = [stage EXCEPT ![e] = "closed"]
     \/ /\ \E reached \in BOOLEAN : Posted(e, "reply", reached)
        /\ \E next \in {"working", "failed"} : stage' = [stage EXCEPT ![e] = next]
  /\ UNCHANGED <<loopVars, forgotten>>

\* The reply is posted; if that raises, the worker goes on to report an error.
PostReply(e) ==
  /\ stage[e] = "working"
  /\ pc[e] = "answered"
  /\ \/ /\ Posted(e, "reply", TRUE)
        /\ stage' = [stage EXCEPT ![e] = "closed"]
     \/ /\ \E reached \in BOOLEAN : Posted(e, "reply", reached)
        /\ stage' = [stage EXCEPT ![e] = "failed"]
  /\ UNCHANGED <<loopVars, forgotten>>

\* The error is reported, once and whether that works or not.
ReportError(e) ==
  /\ stage[e] = "failed" \/ (stage[e] = "working" /\ pc[e] = "raised")
  /\ \E reached \in BOOLEAN : Posted(e, "error", reached)
  /\ stage' = [stage EXCEPT ![e] = "closed"]
  /\ UNCHANGED <<loopVars, forgotten>>

Worker(e) == StartTurn(e) \/ TurnStep(e) \/ PostReply(e) \/ ReportError(e)

-----------------------------------------------------------------------------
(* /reset                                                                    *)

Reset(channel, thread) ==
  /\ history' = [history EXCEPT ![Key(channel, thread)] = <<>>]
  /\ LET inChannel == {e \in Events : Payload[e].channel = channel}
         said == {f \in inChannel : pc[f] \in {"answered", "raised"}}
         later == {e \in inChannel : stage[e] = "new"}
     IN  forgotten' = forgotten \cup (said \X later)
  /\ UNCHANGED <<pc, iteration, forced, sent, attempt, todo, stage, posts>>

Next ==
  \/ \E e \in Events : Deliver(e) \/ Worker(e)
  \/ \E c \in Channels, thread \in CommandThreads : Reset(c, thread)

\* A worker is a thread: it runs on until it ends.
Fairness == \A e \in Events : WF_vars(Worker(e))

Spec == Init /\ [][Next]_vars /\ Fairness

-----------------------------------------------------------------------------
(* Properties                                                                *)

\* Type correctness, that of the agent loop included.
TypeOK ==
  /\ Loop!TypeOK
  /\ stage \in [Events -> {"new", "ignored", "working", "failed", "closed"}]
  /\ posts \in [Events -> Seq({"reply", "error"})]
  /\ forgotten \subseteq Events \X Events

\* Whatever else the bot does meanwhile, a request to the model holds only
\* messages of the channel and thread it is answering in: conversations of
\* different threads never mix (memory.py:29-30, bot.py:186, 204).
ThreadsIsolated == \A e \in Events : \A i \in 1 .. Len(sent[e]) :
  LET f == sent[e][i].turn
  IN  f # Nobody => /\ Payload[f].channel = Payload[e].channel
                    /\ ThreadOf(f) = ThreadOf(e)

\* Every request to the model is one it accepts, also while events of other
\* threads are answered and /reset is used.
PromptsAccepted == Loop!PromptsAccepted

\* What was said in a channel before a /reset is not sent to the model for a
\* message that comes after it (README.md:280, and the reply at bot.py:215).
FreshAfterReset == \A f, e \in Events : <<f, e>> \in forgotten =>
  \A i \in 1 .. Len(sent[e]) : sent[e][i].turn # f

Promise == INSTANCE ReplyOnce WITH
  state <- [e \in Events |-> CASE stage[e] = "closed" -> "settled"
                               [] stage[e] \in {"working", "failed"} -> "open"
                               [] OTHER -> stage[e]],
  posted <- posts

\* Every accepted event is settled, with one reply posted at most and one error
\* at most, the error last; an ignored one gets nothing (bot.py:40-66).
RepliesOnce == Promise!Spec
=============================================================================
