------------------------------ MODULE AgentLoop ------------------------------
(* The bounded agentic loop: process_with_llm (src/ai/llm.py) and its twin   *)
(* process_with_anthropic (src/ai/anthropic_llm.py), with with_retry around  *)
(* every model call, the action registry behind every tool call and the      *)
(* conversation memory under both.                                           *)
(*                                                                           *)
(* A turn is one run of the pipeline for one message. What the model answers *)
(* is a free choice among what the loop tells apart: tool calls, a text, an  *)
(* empty content, no choices, a transient or a permanent error. The two      *)
(* providers differ only in which of their fields decide that.               *)
(*                                                                           *)
(* The memory's append is one step here: ConversationMemory_proofs shows it  *)
(* to be one for callers with disjoint keys.                                 *)
EXTENDS Conversation

CONSTANTS
  Turns,          \* runs of the pipeline
  Keys,           \* conversation keys
  KeyOf,          \* KeyOf[t]: the key of the channel and thread of turn t
  MaxIterations,  \* max_tool_iterations
  MaxRetries,     \* RetryOptions.max_retries
  MaxParallel,    \* bound: tool calls the model may put in one message
  Nobody          \* the author of the summarization request, which is no turn

ASSUME KeyOfAssumption == KeyOf \in [Turns -> Keys]
ASSUME BoundsAssumption ==
  MaxIterations \in Nat /\ MaxRetries \in Nat /\ MaxParallel \in Nat \ {0}
ASSUME NobodyAssumption == Nobody \notin Turns

VARIABLES
  history,    \* history[k]: the conversation stored under key k
  pc,         \* pc[t]: where turn t is
  iteration,  \* iteration[t]: rounds of tool calls done
  forced,     \* forced[t]: t is at its tool-free summarization
  sent,       \* sent[t]: the messages of the request in flight
  attempt,    \* attempt[t]: retries of that request so far
  todo        \* todo[t]: requested tool calls not yet executed

vars == <<history, pc, iteration, forced, sent, attempt, todo>>

-----------------------------------------------------------------------------
(* Messages. A tool call is named by its iteration and its place in it.      *)

CallIds == (0 .. MaxIterations) \X (1 .. MaxParallel)

Message == [role : Roles, turn : Turns, ids : SUBSET CallIds]

Question(t) == [role |-> "user", turn |-> t, ids |-> {}]
Request(t, calls) == [role |-> "assistant", turn |-> t, ids |-> calls]
Reply(t, call) == [role |-> "tool", turn |-> t, ids |-> {call}]
Answer(t) == [role |-> "assistant", turn |-> t, ids |-> {}]
Nudge == [role |-> "user", turn |-> Nobody, ids |-> {}]

\* memory.append under the turn's channel and thread.
Remember(t, m) == history' = [history EXCEPT ![KeyOf[t]] = Appended(@, m)]

-----------------------------------------------------------------------------
(* Control                                                                   *)

Init ==
  /\ history = [k \in Keys |-> <<>>]
  /\ pc = [t \in Turns |-> "new"]
  /\ iteration = [t \in Turns |-> 0]
  /\ forced = [t \in Turns |-> FALSE]
  /\ sent = [t \in Turns |-> <<>>]
  /\ attempt = [t \in Turns |-> 0]
  /\ todo = [t \in Turns |-> <<>>]

Running(t) == pc[t] \in {"prompt", "calling", "tools"}

Goto(t, label) == pc' = [pc EXCEPT ![t] = label]

\* The turn returns its reply, or raises. Its local variables are gone.
End(t, label) ==
  /\ Goto(t, label)
  /\ sent' = [sent EXCEPT ![t] = <<>>]
  /\ attempt' = [attempt EXCEPT ![t] = 0]
  /\ iteration' = [iteration EXCEPT ![t] = 0]
  /\ forced' = [forced EXCEPT ![t] = FALSE]
  /\ UNCHANGED todo

\* The user's message is stored before anything is sent.
Start(t) ==
  /\ pc[t] = "new"
  /\ Remember(t, Question(t))
  /\ Goto(t, "prompt")
  /\ UNCHANGED <<iteration, forced, sent, attempt, todo>>

Exhausted(t) == iteration[t] = MaxIterations

\* The history is read, and turned into the messages of the next request.
Prompt(t) ==
  /\ pc[t] = "prompt"
  /\ forced' = [forced EXCEPT ![t] = @ \/ Exhausted(t)]
  /\ sent' = [sent EXCEPT ![t] =
               IF forced'[t] THEN Append(history[KeyOf[t]], Nudge)
                             ELSE history[KeyOf[t]]]
  /\ attempt' = [attempt EXCEPT ![t] = 0]
  /\ Goto(t, "calling")
  /\ UNCHANGED <<history, iteration, todo>>

\* Retries without a limit.
RetriesForever(t, retryable) == retryable

Retries(t, retryable) == retryable /\ attempt[t] < MaxRetries

\* The model call fails: with_retry tries again, or the turn raises. A list
\* of messages the API rejects fails this way too, with a 400.
CallFails(t, retryable) ==
  /\ pc[t] = "calling"
  /\ \/ /\ Retries(t, retryable)
        /\ attempt' = [attempt EXCEPT ![t] = @ + 1]
        /\ UNCHANGED <<pc, sent, iteration, forced, todo>>
     \/ /\ ~Retries(t, retryable)
        /\ End(t, "raised")
  /\ UNCHANGED history

\* The model call returns: only for messages the API accepts.
Called(t) == pc[t] = "calling" /\ WellPaired(sent[t])

\* A response without choices: the loop raises, and so does the subscript of
\* the summarization.
NoChoices(t) ==
  /\ Called(t)
  /\ End(t, "raised")
  /\ UNCHANGED history

OffersTools(t) == ~forced[t]

RequestTools(t, n) ==
  /\ Called(t)
  /\ OffersTools(t)
  /\ LET calls == [i \in 1 .. n |-> <<iteration[t], i>>]
     IN  /\ Remember(t, Request(t, {calls[i] : i \in 1 .. n}))
         /\ todo' = [todo EXCEPT ![t] = calls]
  /\ sent' = [sent EXCEPT ![t] = <<>>]
  /\ attempt' = [attempt EXCEPT ![t] = 0]
  /\ Goto(t, "tools")
  /\ UNCHANGED <<iteration, forced>>

\* A round that its first call may end, the others staying unanswered.
AbandonsRound(t) == Len(todo[t]) >= 1

LastOfRound(t) == Len(todo[t]) = 1

\* The next call is executed and its result stored; after the last one the
\* loop goes round. The registry returns a result for every call, whether the
\* action is known or not and whether its handler returns or raises.
RunTool(t) ==
  /\ pc[t] = "tools"
  /\ Remember(t, Reply(t, Head(todo[t])))
  /\ IF LastOfRound(t)
     THEN /\ Goto(t, "prompt")
          /\ iteration' = [iteration EXCEPT ![t] = @ + 1]
          /\ todo' = [todo EXCEPT ![t] = <<>>]
     ELSE /\ todo' = [todo EXCEPT ![t] = Tail(@)]
          /\ UNCHANGED <<pc, iteration>>
  /\ UNCHANGED <<forced, sent, attempt>>

\* A text: the turn's reply. An empty summarization is replaced by a fallback
\* text, so that at that point any content is a reply.
AnswerText(t) ==
  /\ Called(t)
  /\ Remember(t, Answer(t))
  /\ End(t, "answered")

\* An empty content that makes the loop ask again.
EmptyAsksAgain(t) ==
  /\ Called(t)
  /\ ~forced[t]
  /\ sent' = [sent EXCEPT ![t] = <<>>]
  /\ attempt' = [attempt EXCEPT ![t] = 0]
  /\ Goto(t, "prompt")
  /\ UNCHANGED <<history, iteration, forced, todo>>

\* Neither tool calls nor text: the loop is left for the summarization.
EmptyContent(t) ==
  /\ Called(t)
  /\ ~forced[t]
  /\ forced' = [forced EXCEPT ![t] = TRUE]
  /\ sent' = [sent EXCEPT ![t] = <<>>]
  /\ attempt' = [attempt EXCEPT ![t] = 0]
  /\ Goto(t, "prompt")
  /\ UNCHANGED <<history, iteration, todo>>

\* A step of a turn that has started.
Step(t) ==
  \/ Prompt(t)
  \/ \E retryable \in BOOLEAN : CallFails(t, retryable)
  \/ NoChoices(t)
  \/ \E n \in 1 .. MaxParallel : RequestTools(t, n)
  \/ RunTool(t)
  \/ AnswerText(t)
  \/ EmptyContent(t)

-----------------------------------------------------------------------------
(* Turns whose callers use a key one at a time, as the memory asks of them.  *)

KeyFree(t) == \A u \in Turns : KeyOf[u] = KeyOf[t] => ~Running(u)

Next == \E t \in Turns : (KeyFree(t) /\ Start(t)) \/ Step(t)

\* Every model call ends by its request timeout and every tool by its own, so
\* a thread that runs a turn keeps taking steps.
Fairness == \A t \in Turns : WF_vars(Step(t))

Spec == Init /\ [][Next]_vars /\ Fairness

\* No turn can outgrow the window: the question, every round of tool calls
\* with its replies, and the answer.
TurnFits == 2 + MaxIterations * (1 + MaxParallel) <= MaxTurns

-----------------------------------------------------------------------------
(* Properties                                                                *)

\* Type correctness. No system message is ever stored, a request in flight
\* never has more than max_retries retries behind it, and no turn goes beyond
\* its iterations.
TypeOK ==
  /\ history \in [Keys -> Seq(Message)]
  /\ pc \in [Turns -> {"new", "prompt", "calling", "tools", "answered", "raised"}]
  /\ iteration \in [Turns -> 0 .. MaxIterations]
  /\ forced \in [Turns -> BOOLEAN]
  /\ sent \in [Turns -> Seq(Message \cup {Nudge})]
  /\ attempt \in [Turns -> 0 .. MaxRetries]
  /\ todo \in [Turns -> Seq(CallIds)]

\* No stored conversation holds a tool reply without the assistant message
\* that asked for it (_prune's docstring, memory.py:51-53).
NeverOrphans == \A k \in Keys : NoOrphans(history[k])

\* Every request the loop sends is one the chat APIs accept: whatever earlier
\* turns of the thread left behind, failed ones included, each tool call in
\* it is answered and each reply is called for (llm.py:220-229).
PromptsAccepted == \A t \in Turns : pc[t] = "calling" => WellPaired(sent[t])

\* The trim never takes the question a turn is answering out of the requests
\* of that turn (memory.py:58-69 under llm.py:219-301).
AsksOwnQuestion == \A t \in Turns : pc[t] = "calling" =>
  \E i \in 1 .. Len(sent[t]) : sent[t][i] = Question(t)

\* A turn that fails leaves a conversation the next message of the thread can
\* go on from: nothing half done, and beginning with a user message.
UsableBetweenTurns == \A k \in Keys :
  (\A t \in Turns : KeyOf[t] = k => ~Running(t)) =>
    /\ WellPaired(history[k])
    /\ history[k] # <<>> => IsUser(history[k][1])

\* A turn that answers leaves its question and its answer in the conversation
\* for the next one, the answer last (llm.py:280, 315).
AnswerRemembered == [][
  \A t \in Turns : (pc[t] = "calling" /\ pc'[t] = "answered") =>
    LET h == history'[KeyOf[t]]
    IN  /\ \E i \in 1 .. Len(h) : h[i] = Question(t)
        /\ h[Len(h)] = Answer(t)]_vars

\* Every turn ends, whatever the model answers: with a reply or an exception.
TurnEnds == \A t \in Turns : Running(t) ~> pc[t] \in {"answered", "raised"}
=============================================================================
