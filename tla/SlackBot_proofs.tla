--------------------------- MODULE SlackBot_proofs ---------------------------
(* The Slack bot, for any number of events, channels and threads: what of    *)
(* other conversations the model is told, when what is sent to the model is  *)
(* what the chat APIs accept, that each step keeps the promise of ReplyOnce, *)
(* and how much an event can take of its worker.                             *)
(*                                                                           *)
(* Facts!X is lemma X of the agent loop about the loop of the bot. Each step *)
(* of the bot is a step of the loop, empties one of its conversations, or    *)
(* leaves it alone.                                                          *)
EXTENDS SlackBot, TLAPS

Facts == INSTANCE AgentLoop_proofs
  WITH Turns <- Events, Keys <- StoredKeys, KeyOf <- [e \in Events |-> EventKey(e)]

(* What the loop assumes of its constants holds of those it is given here.   *)
LEMMA LoopConstants ==
  /\ MaxTurns \in Nat /\ MaxIterations \in Nat /\ MaxRetries \in Nat
  /\ MaxParallel \in Nat \ {0}
  /\ Nobody \notin Events
  /\ [e \in Events |-> EventKey(e)] \in [Events -> StoredKeys]
BY LoopAssumption DEF StoredKeys

-----------------------------------------------------------------------------
(* The loop of the bot and the loop of the proofs are the same.              *)

LEMMA SameInit == Loop!Init => Facts!Init
BY DEF Loop!Init, Facts!Init

LEMMA SameRemember ==
  ASSUME NEW e, NEW m, Loop!Remember(e, m)
  PROVE  Facts!Remember(e, m)
BY DEF Loop!Remember, Facts!Remember, Loop!Appended, Facts!Appended,
       Loop!Trim, Facts!Trim, Loop!Prune, Facts!Prune,
       Loop!LastN, Facts!LastN, Loop!Keep, Facts!Keep,
       Loop!FromFirstUser, Facts!FromFirstUser, Loop!FirstUser, Facts!FirstUser,
       Loop!UserPositions, Facts!UserPositions, Loop!IsUser, Facts!IsUser

LEMMA SameWellPaired ==
  ASSUME NEW s
  PROVE  Loop!WellPaired(s) <=> Facts!WellPaired(s)
BY DEF Loop!WellPaired, Facts!WellPaired, Loop!NoOrphans, Facts!NoOrphans,
       Loop!AllAnswered, Facts!AllAnswered, Loop!Answers, Facts!Answers,
       Loop!SameBlock, Facts!SameBlock, Loop!IsTool, Facts!IsTool

LEMMA SameEnd ==
  ASSUME NEW e, NEW label, Loop!End(e, label)
  PROVE  Facts!End(e, label)
BY DEF Loop!End, Facts!End, Loop!Goto, Facts!Goto

LEMMA SameStart ==
  ASSUME NEW e \in Events, Loop!Start(e)
  PROVE  Facts!Start(e)
BY SameRemember DEF Loop!Start, Facts!Start, Loop!Question, Facts!Question,
                    Loop!Goto, Facts!Goto

LEMMA SameCalled ==
  ASSUME NEW e, Loop!Called(e)
  PROVE  Facts!Called(e)
BY SameWellPaired DEF Loop!Called, Facts!Called

LEMMA SameStep ==
  ASSUME NEW e \in Events, Loop!Step(e)
  PROVE  Facts!Step(e)
<1>1. Loop!Prompt(e) => Facts!Prompt(e)
  BY DEF Loop!Prompt, Facts!Prompt, Loop!Exhausted, Facts!Exhausted,
         Loop!Nudge, Facts!Nudge, Loop!Goto, Facts!Goto
<1>2. \A retryable : Loop!CallFails(e, retryable) => Facts!CallFails(e, retryable)
  BY SameEnd DEF Loop!CallFails, Facts!CallFails, Loop!Retries, Facts!Retries
<1>3. Loop!NoChoices(e) => Facts!NoChoices(e)
  BY SameCalled, SameEnd DEF Loop!NoChoices, Facts!NoChoices
<1>4. \A n : Loop!RequestTools(e, n) => Facts!RequestTools(e, n)
  BY SameCalled, SameRemember
     DEF Loop!RequestTools, Facts!RequestTools, Loop!OffersTools,
         Facts!OffersTools, Loop!Request, Facts!Request, Loop!Goto, Facts!Goto
<1>5. Loop!RunTool(e) => Facts!RunTool(e)
  BY SameRemember
     DEF Loop!RunTool, Facts!RunTool, Loop!LastOfRound, Facts!LastOfRound,
         Loop!Reply, Facts!Reply, Loop!Goto, Facts!Goto
<1>6. Loop!AnswerText(e) => Facts!AnswerText(e)
  BY SameCalled, SameRemember, SameEnd
     DEF Loop!AnswerText, Facts!AnswerText, Loop!Answer, Facts!Answer
<1>7. Loop!EmptyContent(e) => Facts!EmptyContent(e)
  BY SameCalled DEF Loop!EmptyContent, Facts!EmptyContent, Loop!Goto, Facts!Goto
<1> QED
  BY <1>1, <1>2, <1>3, <1>4, <1>5, <1>6, <1>7 DEF Loop!Step, Facts!Step

LEMMA SameTypeOK == Loop!TypeOK <=> Facts!TypeOK
BY DEF Loop!TypeOK, Facts!TypeOK, Loop!Message, Facts!Message, Loop!Roles,
       Facts!Roles, Loop!CallIds, Facts!CallIds, Loop!Nudge, Facts!Nudge

LEMMA SamePromptsAccepted == Loop!PromptsAccepted <=> Facts!PromptsAccepted
BY SameWellPaired DEF Loop!PromptsAccepted, Facts!PromptsAccepted

-----------------------------------------------------------------------------
(* The loop under the bot.                                                   *)

\* What the bot's steps keep true of the loop.
LoopInv == Facts!IInv /\ Facts!OwnMessages

\* A conversation is emptied by /reset, the turns going on as they were.
Emptied(k) ==
  /\ history' = [history EXCEPT ![k] = <<>>]
  /\ UNCHANGED <<pc, iteration, forced, sent, attempt, todo>>

LEMMA LoopStep ==
  ASSUME [Next]_vars
  PROVE  \/ \E e \in Events : Facts!Start(e)
         \/ \E e \in Events : Facts!Step(e)
         \/ \E c \in Channels, thread \in CommandThreads : Emptied(Key(c, thread))
         \/ UNCHANGED Facts!vars
<1>1. UNCHANGED loopVars => UNCHANGED Facts!vars
  BY DEF loopVars, Facts!vars
<1>2. ASSUME NEW e \in Events, Deliver(e)
      PROVE  UNCHANGED loopVars
  BY <1>2 DEF Deliver
<1>3. ASSUME NEW e \in Events, Worker(e)
      PROVE  UNCHANGED loopVars \/ Facts!Start(e) \/ Facts!Step(e)
  <2>1. CASE StartTurn(e)
    BY <2>1, SameStart DEF StartTurn
  <2>2. CASE TurnStep(e)
    BY <2>2, SameStep DEF TurnStep
  <2>3. CASE PostReply(e) \/ ReportError(e)
    BY <2>3 DEF PostReply, ReportError
  <2> QED
    BY <1>3, <2>1, <2>2, <2>3 DEF Worker
<1>4. ASSUME NEW c \in Channels, NEW thread \in CommandThreads, Reset(c, thread)
      PROVE  Emptied(Key(c, thread))
  BY <1>4 DEF Reset, Emptied
<1>5. CASE UNCHANGED vars
  BY <1>1, <1>5 DEF vars
<1> QED
  BY <1>1, <1>2, <1>3, <1>4, <1>5 DEF Next

LEMMA InitLoop == Init => LoopInv
<1> SUFFICES ASSUME Init
             PROVE  LoopInv
  OBVIOUS
<1>1. Facts!Init
  BY SameInit DEF Init
<1> QED
  BY <1>1, LoopConstants, Facts!InitIInv, Facts!InitOwn DEF LoopInv

LEMMA NextLoop == LoopInv /\ [Next]_vars => LoopInv'
<1> SUFFICES ASSUME LoopInv, [Next]_vars
             PROVE  LoopInv'
  OBVIOUS
<1>1. Facts!IInv /\ Facts!TypeOK /\ Facts!OwnMessages
  BY DEF LoopInv, Facts!IInv
<1>2. ASSUME NEW e \in Events, Facts!Start(e)
      PROVE  LoopInv'
  BY <1>1, <1>2, LoopConstants, Facts!StartIInv, Facts!StartOwn DEF LoopInv
<1>3. ASSUME NEW e \in Events, Facts!Step(e)
      PROVE  LoopInv'
  BY <1>1, <1>3, LoopConstants, Facts!StepIInv, Facts!StepOwn DEF LoopInv
<1>4. ASSUME NEW c \in Channels, NEW thread \in CommandThreads,
             Emptied(Key(c, thread))
      PROVE  LoopInv'
  <2>1. Key(c, thread) \in StoredKeys
    BY DEF StoredKeys
  <2>2. Facts!IInv'
    BY <1>1, <1>4, <2>1, LoopConstants, Facts!ForgetIInv DEF Emptied
  <2>3. Facts!OwnMessages'
    BY <1>1, <1>4, <2>1, LoopConstants, Facts!ForgetOwn DEF Emptied
  <2> QED
    BY <2>2, <2>3 DEF LoopInv
<1>5. ASSUME UNCHANGED Facts!vars
      PROVE  LoopInv'
  <2>1. UNCHANGED <<history, sent>>
    BY <1>5 DEF Facts!vars
  <2> QED
    BY <1>1, <1>5, <2>1, LoopConstants, Facts!StutterIInv, Facts!StutterOwn
       DEF LoopInv
<1> QED
  BY <1>2, <1>3, <1>4, <1>5, LoopStep

LEMMA LoopInvHolds == Spec => []LoopInv
BY InitLoop, NextLoop, PTL DEF Spec

(* Two channels and threads with one key are the same channel and thread.    *)
LEMMA KeyInjective ==
  ASSUME NEW c, NEW d, NEW thread, NEW other, Key(c, thread) = Key(d, other)
  PROVE  c = d /\ thread = other
<1>1. ASSUME NEW a, NEW b, NEW x
      PROVE  <<x>> # <<a, b>>
  <2>1. Len(<<x>>) = 1 /\ Len(<<a, b>>) = 2
    OBVIOUS
  <2> QED
    BY <2>1
<1> QED
  BY <1>1 DEF Key

(* Whatever the bot does, /reset included, and however many messages of a    *)
(* thread are being answered at a time, the model is told nothing from any   *)
(* other channel or thread (memory.py:29-30, bot.py:186, 204).               *)
THEOREM BotThreadsIsolated == Spec => []ThreadsIsolated
<1>1. LoopInv => ThreadsIsolated
  <2> SUFFICES ASSUME LoopInv, NEW e \in Events, NEW i \in 1 .. Len(sent[e]),
                      sent[e][i].turn # Nobody
               PROVE  /\ Payload[sent[e][i].turn].channel = Payload[e].channel
                      /\ ThreadOf(sent[e][i].turn) = ThreadOf(e)
    BY DEF ThreadsIsolated
  <2> DEFINE f == sent[e][i].turn
  <2>1. f \in Events /\ EventKey(f) = EventKey(e)
    BY LoopConstants, Facts!OwnAuthors DEF LoopInv
  <2> QED
    BY <2>1, KeyInjective DEF EventKey
<1> QED
  BY <1>1, LoopInvHolds, PTL

-----------------------------------------------------------------------------
(* What is posted, and when.                                                 *)

StageType == {"new", "ignored", "working", "failed", "closed"}

ShellTypeOK ==
  /\ stage \in [Events -> StageType]
  /\ posts \in [Events -> Seq({"reply", "error"})]
  /\ forgotten \subseteq Events \X Events

\* Nothing is posted for an event that is not taken on, or whose turn goes on;
\* an error only by the step that is its worker's last.
PostedSoFar == \A e \in Events :
  /\ stage[e] \in {"new", "ignored", "working"} => posts[e] = <<>>
  /\ stage[e] = "failed" => posts[e] \in {<<>>, <<"reply">>}

ShellInv == ShellTypeOK /\ PostedSoFar

LEMMA InitShell == Init => ShellInv
BY DEF Init, ShellInv, ShellTypeOK, StageType, PostedSoFar

(* A message more for one event.                                             *)
LEMMA PostedTyped ==
  ASSUME ShellInv, NEW e \in Events, NEW kind \in {"reply", "error"}
  PROVE  [posts EXCEPT ![e] = Append(posts[e], kind)] \in [Events -> Seq({"reply", "error"})]
<1>1. posts \in [Events -> Seq({"reply", "error"})]
  BY DEF ShellInv, ShellTypeOK
<1>2. \A s \in Seq({"reply", "error"}) : Append(s, kind) \in Seq({"reply", "error"})
  OBVIOUS
<1>3. Append(posts[e], kind) \in Seq({"reply", "error"})
  BY <1>1, <1>2
<1> QED
  BY <1>1, <1>3, Zenon

(* The post of a reply: made, or failed, reaching the channel or not.        *)
LEMMA PostReplyEffect ==
  ASSUME ShellInv, NEW e \in Events, PostReply(e)
  PROVE  /\ stage[e] = "working" /\ posts[e] = <<>>
         /\ posts' \in [Events -> Seq({"reply", "error"})]
         /\ \/ /\ stage' = [stage EXCEPT ![e] = "closed"]
               /\ posts' = [posts EXCEPT ![e] = <<"reply">>]
            \/ /\ stage' = [stage EXCEPT ![e] = "failed"]
               /\ posts' = [posts EXCEPT ![e] = <<"reply">>]
            \/ /\ stage' = [stage EXCEPT ![e] = "failed"]
               /\ posts' = posts
<1>1. stage[e] = "working" /\ posts[e] = <<>>
  BY DEF PostReply, ShellInv, PostedSoFar
<1>2. Append(posts[e], "reply") = <<"reply">>
  BY <1>1
<1>3. \A reached \in BOOLEAN : Posted(e, "reply", reached) =>
        posts' = IF reached THEN [posts EXCEPT ![e] = <<"reply">>] ELSE posts
  BY <1>2 DEF Posted
<1>4. \/ /\ stage' = [stage EXCEPT ![e] = "closed"]
         /\ posts' = [posts EXCEPT ![e] = <<"reply">>]
      \/ /\ stage' = [stage EXCEPT ![e] = "failed"]
         /\ \/ posts' = [posts EXCEPT ![e] = <<"reply">>]
            \/ posts' = posts
  BY <1>3 DEF PostReply
<1>5. [posts EXCEPT ![e] = <<"reply">>] \in [Events -> Seq({"reply", "error"})]
  BY <1>1, <1>2, PostedTyped
<1>6. posts' \in [Events -> Seq({"reply", "error"})]
  BY <1>4, <1>5 DEF ShellInv, ShellTypeOK
<1> QED
  BY <1>1, <1>4, <1>6

(* The report of an error, reaching the channel or not.                      *)
LEMMA ReportErrorEffect ==
  ASSUME ShellInv, NEW e \in Events, ReportError(e)
  PROVE  /\ stage[e] \in {"working", "failed"}
         /\ posts' \in [Events -> Seq({"reply", "error"})]
         /\ stage' = [stage EXCEPT ![e] = "closed"]
         /\ \/ posts' = [posts EXCEPT ![e] = Append(posts[e], "error")]
            \/ posts' = posts
<1>1. \/ posts' = [posts EXCEPT ![e] = Append(posts[e], "error")]
      \/ posts' = posts
  BY DEF ReportError, Posted
<1>2. posts' \in [Events -> Seq({"reply", "error"})]
  BY <1>1, PostedTyped DEF ShellInv, ShellTypeOK
<1> QED
  BY <1>1, <1>2 DEF ReportError

LEMMA NextShell == ShellInv /\ [Next]_vars => ShellInv'
<1> SUFFICES ASSUME ShellInv, [Next]_vars
             PROVE  ShellInv'
  OBVIOUS
<1>1. ASSUME NEW e \in Events, Deliver(e)
      PROVE  ShellInv'
  BY <1>1 DEF Deliver, ShellInv, ShellTypeOK, StageType, PostedSoFar
<1>2. ASSUME NEW e \in Events, StartTurn(e) \/ TurnStep(e)
      PROVE  ShellInv'
  BY <1>2 DEF StartTurn, TurnStep, ShellInv, ShellTypeOK, PostedSoFar
<1>3. ASSUME NEW e \in Events, PostReply(e)
      PROVE  ShellInv'
  <2>1. ShellTypeOK'
    BY <1>3, PostReplyEffect DEF PostReply, ShellInv, ShellTypeOK, StageType
  <2>2. PostedSoFar'
    BY <1>3, PostReplyEffect DEF ShellInv, ShellTypeOK, PostedSoFar
  <2> QED
    BY <2>1, <2>2 DEF ShellInv
<1>4. ASSUME NEW e \in Events, ReportError(e)
      PROVE  ShellInv'
  <2>1. ShellTypeOK'
    BY <1>4, ReportErrorEffect DEF ReportError, ShellInv, ShellTypeOK, StageType
  <2>2. PostedSoFar'
    BY <1>4, ReportErrorEffect DEF ShellInv, ShellTypeOK, PostedSoFar
  <2> QED
    BY <2>1, <2>2 DEF ShellInv
<1>5. ASSUME NEW c \in Channels, NEW thread \in CommandThreads, Reset(c, thread)
      PROVE  ShellInv'
  <2>1. forgotten' \subseteq Events \X Events
    BY <1>5 DEF Reset, ShellInv, ShellTypeOK
  <2>2. UNCHANGED <<stage, posts>>
    BY <1>5 DEF Reset
  <2> QED
    BY <2>1, <2>2 DEF ShellInv, ShellTypeOK, PostedSoFar
<1>6. CASE UNCHANGED vars
  BY <1>6 DEF vars, ShellInv, ShellTypeOK, PostedSoFar
<1> QED
  BY <1>1, <1>2, <1>3, <1>4, <1>5, <1>6 DEF Next, Worker

LEMMA ShellInvHolds == Spec => []ShellInv
BY InitShell, NextShell, PTL DEF Spec

(* The bot and the loop under it keep to their types and bounds (bot.py).    *)
THEOREM BotTypeCorrect == Spec => []TypeOK
<1>1. LoopInv /\ ShellInv => TypeOK
  BY SameTypeOK DEF LoopInv, Facts!IInv, ShellInv, ShellTypeOK, StageType, TypeOK
<1> QED
  BY <1>1, LoopInvHolds, ShellInvHolds, PTL

-----------------------------------------------------------------------------
(* The promise: every step of the bot is a step of ReplyOnce or none.        *)

LEMMA PromiseInit == Init => Promise!Init
BY DEF Init, Promise!Init

\* The stage of an event, as ReplyOnce sees it.
Seen(label) == CASE label = "closed" -> "settled"
                 [] label \in {"working", "failed"} -> "open"
                 [] OTHER -> label

LEMMA PromiseMove ==
  ASSUME ShellInv, NEW e \in Events, NEW label \in StageType,
         stage' = [stage EXCEPT ![e] = label]
  PROVE  Promise!Move(e, Seen(stage[e]), Seen(label))
BY DEF ShellInv, ShellTypeOK, StageType, Seen, Promise!Move

LEMMA PromiseNext == ShellInv /\ [Next]_vars => [Promise!Next]_(Promise!vars)
<1> SUFFICES ASSUME ShellInv, [Next]_vars
             PROVE  [Promise!Next]_(Promise!vars)
  OBVIOUS
<1>0. UNCHANGED <<stage, posts>> => UNCHANGED Promise!vars
  BY DEF Promise!vars
<1>1. ASSUME NEW e \in Events, Deliver(e)
      PROVE  Promise!Receive(e)
  <2>1. CASE Accepts(e)
    <3>1. Promise!Move(e, Seen("new"), Seen("working"))
      BY <1>1, <2>1, PromiseMove DEF Deliver, StageType
    <3> QED
      BY <1>1, <3>1 DEF Deliver, Promise!Receive, Seen
  <2>2. CASE ~Accepts(e)
    <3>1. Promise!Move(e, Seen("new"), Seen("ignored"))
      BY <1>1, <2>2, PromiseMove DEF Deliver, StageType
    <3> QED
      BY <1>1, <3>1 DEF Deliver, Promise!Receive, Seen
  <2> QED
    BY <2>1, <2>2
<1>2. ASSUME NEW e \in Events, StartTurn(e) \/ TurnStep(e)
      PROVE  UNCHANGED Promise!vars
  BY <1>0, <1>2 DEF StartTurn, TurnStep
<1>3. ASSUME NEW e \in Events, PostReply(e)
      PROVE  Promise!PostReply(e) \/ UNCHANGED Promise!vars
  <2>1. CASE /\ stage' = [stage EXCEPT ![e] = "closed"]
             /\ posts' = [posts EXCEPT ![e] = <<"reply">>]
    <3>1. Promise!Move(e, Seen("working"), Seen("closed"))
      BY <1>3, <2>1, PromiseMove, PostReplyEffect DEF StageType
    <3> QED
      BY <1>3, <2>1, <3>1, PostReplyEffect DEF Promise!PostReply, Seen
  <2>2. CASE /\ stage' = [stage EXCEPT ![e] = "failed"]
             /\ posts' = [posts EXCEPT ![e] = <<"reply">>]
    <3>1. Promise!Move(e, Seen("working"), Seen("failed"))
      BY <1>3, <2>2, PromiseMove, PostReplyEffect DEF StageType
    <3> QED
      BY <1>3, <2>2, <3>1, PostReplyEffect DEF Promise!PostReply, Seen
  <2>3. CASE stage' = [stage EXCEPT ![e] = "failed"] /\ posts' = posts
    BY <1>3, <2>3, PostReplyEffect DEF ShellInv, ShellTypeOK, Promise!vars
  <2> QED
    BY <1>3, <2>1, <2>2, <2>3, PostReplyEffect
<1>4. ASSUME NEW e \in Events, ReportError(e)
      PROVE  Promise!Settle(e)
  <2>1. Promise!Move(e, Seen(stage[e]), Seen("closed"))
    BY <1>4, PromiseMove, ReportErrorEffect DEF StageType
  <2>2. Promise!Move(e, "open", "settled")
    BY <1>4, <2>1, ReportErrorEffect DEF Seen
  <2> QED
    BY <1>4, <2>2, ReportErrorEffect DEF Promise!Settle
<1>5. ASSUME NEW c \in Channels, NEW thread \in CommandThreads, Reset(c, thread)
      PROVE  UNCHANGED Promise!vars
  BY <1>0, <1>5 DEF Reset
<1>6. CASE UNCHANGED vars
  BY <1>0, <1>6 DEF vars
<1> QED
  BY <1>1, <1>2, <1>3, <1>4, <1>5, <1>6 DEF Next, Worker, Promise!Next

(* The bot implements ReplyOnce, the fairness left aside: an ignored event   *)
(* gets nothing; one taken on gets one reply at most, and at most one error, *)
(* after which nothing is posted for it; nothing is posted a second time     *)
(* (bot.py:40-66).                                                           *)
THEOREM BotKeepsPromise == Spec => Promise!Init /\ [][Promise!Next]_(Promise!vars)
<1>1. Init => Promise!Init
  BY PromiseInit
<1>2. ShellInv /\ [Next]_vars => [Promise!Next]_(Promise!vars)
  BY PromiseNext
<1> QED
  BY <1>1, <1>2, ShellInvHolds, PTL DEF Spec

-----------------------------------------------------------------------------
(* What is sent to the model.                                                *)

\* No two messages of a thread are being answered at the same time. The bot
\* does not see to it: it depends on when people write.
OneAtATime == \A e, f \in Events :
  EventKey(e) = EventKey(f) /\ Loop!Running(e) /\ Loop!Running(f) => e = f

\* /reset empties a conversation of a channel, outside any thread: Slack gives
\* a slash command no thread.
ResetsOutsideThreads ==
  \A c \in Channels, thread \in CommandThreads, e \in Events :
    Key(c, thread) # EventKey(e)

LEMMA NextSafe ==
  ASSUME Loop!TurnFits, ResetsOutsideThreads, Facts!SafeInv, [Next]_vars,
         OneAtATime'
  PROVE  Facts!SafeInv'
<1>1. Facts!TurnFits
  BY DEF Loop!TurnFits, Facts!TurnFits
<1>2. Facts!OneTurnPerKey'
  BY DEF OneAtATime, Facts!OneTurnPerKey, Loop!Running, Facts!Running
<1>3. Facts!IInv /\ Facts!TypeOK
  BY DEF Facts!SafeInv, Facts!IInv
<1>4. ASSUME NEW e \in Events, Facts!Start(e)
      PROVE  Facts!SafeInv'
  <2>1. Facts!KeyFree(e)
    BY <1>2, <1>3, <1>4, LoopConstants, Facts!StartKeyFree
  <2>2. Facts!IInv'
    BY <1>3, <1>4, LoopConstants, Facts!StartIInv
  <2> QED
    BY <1>1, <1>4, <2>1, <2>2, LoopConstants, Facts!StartSafe
<1>5. ASSUME NEW e \in Events, Facts!Step(e)
      PROVE  Facts!SafeInv'
  BY <1>1, <1>5, LoopConstants, Facts!StepSafe
<1>6. ASSUME NEW c \in Channels, NEW thread \in CommandThreads,
             Emptied(Key(c, thread))
      PROVE  Facts!SafeInv'
  <2> DEFINE k == Key(c, thread)
  <2>1. k \in StoredKeys
    BY DEF StoredKeys
  <2>2. Facts!Quiet(k)
    BY DEF ResetsOutsideThreads, Facts!Quiet
  <2> HIDE DEF k
  <2>3. Facts!IInv'
    BY <1>3, <1>6, <2>1, LoopConstants, Facts!ForgetIInv DEF Emptied, k
  <2>4. history \in [StoredKeys -> Seq(Facts!Message)]
    BY <1>3 DEF Facts!TypeOK
  <2>5. history' = [history EXCEPT ![k] = <<>>]
    BY <1>6 DEF Emptied, k
  <2>6. \A j \in StoredKeys : history'[j] = history[j] \/ (j = k /\ history'[j] = <<>>)
    BY <2>4, <2>5
  <2>7. \A j \in StoredKeys : \/ history'[j] = history[j]
                              \/ Facts!Quiet(j) /\ history'[j] = <<>>
    BY <2>2, <2>6, Zenon
  <2> QED
    BY <1>6, <2>3, <2>7, LoopConstants, Facts!ForgetSafe DEF Emptied
<1>7. ASSUME UNCHANGED Facts!vars
      PROVE  Facts!SafeInv'
  BY <1>7, LoopConstants, Facts!StutterSafe
<1> QED
  BY <1>4, <1>5, <1>6, <1>7, LoopStep

(* As long as the messages of a thread are answered one after the other, and *)
(* no turn can outgrow the window, every request to the model is one it      *)
(* accepts, whatever happens in other threads and whenever /reset is used    *)
(* (bot.py:40-66, 207-217).                                                  *)
THEOREM BotPromptsAccepted ==
  ASSUME Loop!TurnFits, ResetsOutsideThreads
  PROVE  Spec => ([]OneAtATime => []PromptsAccepted)
<1>1. Init => Facts!SafeInv
  BY SameInit, LoopConstants, Facts!InitSafe DEF Init
<1>2. Facts!SafeInv /\ [Next]_vars /\ OneAtATime' => Facts!SafeInv'
  BY NextSafe
<1>3. Facts!SafeInv => PromptsAccepted
  <2> SUFFICES ASSUME Facts!SafeInv, NEW e \in Events, pc[e] = "calling"
               PROVE  Facts!WellPaired(sent[e])
    BY SamePromptsAccepted DEF PromptsAccepted, Facts!PromptsAccepted
  <2>1. Facts!Paired(sent[e], {})
    BY DEF Facts!SafeInv, Facts!TurnSafe
  <2> QED
    BY <2>1, LoopConstants, Facts!PairedIsWellPaired
<1> QED
  BY <1>1, <1>2, <1>3, PTL DEF Spec

\* Only an event that is accepted gets a turn.
TurnsAccepted == \A e \in Events :
  /\ stage[e] \in {"working", "failed", "closed"} => Accepts(e)
  /\ pc[e] # "new" => stage[e] \in {"working", "failed", "closed"}

LEMMA NextAccepted ==
  ASSUME LoopInv, ShellInv, TurnsAccepted, [Next]_vars
  PROVE  TurnsAccepted'
<1>0. \A e : Accepts(e)' <=> Accepts(e)
  BY DEF Accepts
<1>1. ASSUME NEW e \in Events, Deliver(e)
      PROVE  TurnsAccepted'
  <2>1. /\ stage \in [Events -> StageType]
        /\ pc' = pc
        /\ stage[e] = "new"
        /\ stage' = [stage EXCEPT ![e] = IF Accepts(e) THEN "working" ELSE "ignored"]
    BY <1>1 DEF Deliver, loopVars, ShellInv, ShellTypeOK
  <2> QED
    BY <1>0, <2>1 DEF TurnsAccepted
<1>2. ASSUME NEW e \in Events, StartTurn(e) \/ TurnStep(e)
      PROVE  TurnsAccepted'
  <2>1. Facts!TypeOK
    BY DEF LoopInv, Facts!IInv
  <2>2. /\ pc[e] # "new" \/ stage[e] = "working"
        /\ \A f \in Events : f # e => pc'[f] = pc[f]
    <3>1. CASE StartTurn(e)
      BY <2>1, <3>1 DEF StartTurn, Loop!Start, Loop!Goto
    <3>2. CASE TurnStep(e)
      BY <2>1, <3>2, SameStep, LoopConstants, Facts!StepMoves DEF TurnStep
    <3> QED
      BY <1>2, <3>1, <3>2
  <2>3. stage' = stage
    BY <1>2 DEF StartTurn, TurnStep
  <2> QED
    BY <1>0, <2>2, <2>3 DEF TurnsAccepted
<1>3. ASSUME NEW e \in Events, PostReply(e) \/ ReportError(e)
      PROVE  TurnsAccepted'
  <2>1. pc' = pc
    BY <1>3 DEF PostReply, ReportError, loopVars
  <2>2. /\ stage[e] \in {"working", "failed"}
        /\ \E label \in {"failed", "closed"} : stage' = [stage EXCEPT ![e] = label]
    BY <1>3 DEF PostReply, ReportError
  <2> QED
    BY <1>0, <2>1, <2>2 DEF TurnsAccepted, ShellInv, ShellTypeOK
<1>4. ASSUME NEW c \in Channels, NEW thread \in CommandThreads, Reset(c, thread)
      PROVE  TurnsAccepted'
  BY <1>0, <1>4 DEF Reset, TurnsAccepted
<1>5. CASE UNCHANGED vars
  BY <1>0, <1>5 DEF vars, loopVars, TurnsAccepted
<1> QED
  BY <1>1, <1>2, <1>3, <1>4, <1>5 DEF Next, Worker

(* Messages that are accepted and each begin or go on with a thread of their *)
(* own are always answered so, whatever else is delivered.                   *)
COROLLARY BotDistinctAccepted ==
  ASSUME Loop!TurnFits, ResetsOutsideThreads,
         \A e, f \in Events :
           Accepts(e) /\ Accepts(f) /\ EventKey(e) = EventKey(f) => e = f
  PROVE  Spec => []PromptsAccepted
<1>1. Init => TurnsAccepted
  BY DEF Init, Loop!Init, TurnsAccepted
<1>2. LoopInv /\ ShellInv /\ TurnsAccepted /\ [Next]_vars => TurnsAccepted'
  BY NextAccepted
<1>3. TurnsAccepted => OneAtATime
  BY DEF TurnsAccepted, OneAtATime, Loop!Running
<1> QED
  BY <1>1, <1>2, <1>3, LoopInvHolds, ShellInvHolds, BotPromptsAccepted, PTL
     DEF Spec

-----------------------------------------------------------------------------
(* How long an event keeps its worker.                                       *)

\* A turn only runs while its worker waits for it.
TurnsAwaited == \A e \in Events : Facts!Running(e) => stage[e] = "working"

\* The most steps an event's worker can take yet: its turn's, the post of the
\* reply and the report of an error.
WorkLeft(e) == CASE stage[e] \in {"ignored", "closed"} -> 0
                 [] stage[e] = "failed" -> 1
                 [] OTHER -> 2 + Facts!StepsLeft(e)

LEMMA NextAwaited ==
  ASSUME LoopInv, ShellInv, TurnsAwaited, [Next]_vars
  PROVE  TurnsAwaited'
<1>1. Facts!TypeOK
  BY DEF LoopInv, Facts!IInv
<1>2. ASSUME NEW e \in Events, Deliver(e)
      PROVE  TurnsAwaited'
  <2>1. pc' = pc /\ stage[e] = "new"
    BY <1>2 DEF Deliver, loopVars
  <2>2. ~Facts!Running(e)
    BY <2>1 DEF TurnsAwaited
  <2>3. \A f \in Events : f # e => stage'[f] = stage[f]
    BY <1>2 DEF Deliver, ShellInv, ShellTypeOK
  <2> QED
    BY <2>1, <2>2, <2>3 DEF TurnsAwaited, Facts!Running
<1>3. ASSUME NEW e \in Events, StartTurn(e) \/ TurnStep(e)
      PROVE  TurnsAwaited'
  <2>1. stage' = stage /\ stage[e] = "working"
    <3>1. CASE StartTurn(e)
      BY <3>1 DEF StartTurn
    <3>2. CASE TurnStep(e)
      BY <3>2, SameStep, LoopConstants, Facts!StepRuns DEF TurnStep, TurnsAwaited
    <3> QED
      BY <1>3, <3>1, <3>2
  <2>2. \A f \in Events : f # e => pc'[f] = pc[f]
    <3>1. CASE StartTurn(e)
      BY <1>1, <3>1, SameStart DEF StartTurn, Facts!Start, Facts!Goto, Facts!TypeOK
    <3>2. CASE TurnStep(e)
      BY <1>1, <3>2, SameStep, LoopConstants, Facts!StepMoves DEF TurnStep
    <3> QED
      BY <1>3, <3>1, <3>2
  <2> QED
    BY <2>1, <2>2 DEF TurnsAwaited, Facts!Running
<1>4. ASSUME NEW e \in Events, PostReply(e) \/ ReportError(e)
      PROVE  TurnsAwaited'
  <2>1. pc' = pc /\ ~Facts!Running(e)
    BY <1>4 DEF PostReply, ReportError, loopVars, TurnsAwaited, Facts!Running
  <2>2. \A f \in Events : f # e => stage'[f] = stage[f]
    BY <1>4 DEF PostReply, ReportError, ShellInv, ShellTypeOK
  <2> QED
    BY <2>1, <2>2 DEF TurnsAwaited, Facts!Running
<1>5. ASSUME NEW c \in Channels, NEW thread \in CommandThreads, Reset(c, thread)
      PROVE  TurnsAwaited'
  BY <1>5 DEF Reset, TurnsAwaited, Facts!Running
<1>6. CASE UNCHANGED vars
  BY <1>6 DEF vars, loopVars, TurnsAwaited, Facts!Running
<1> QED
  BY <1>2, <1>3, <1>4, <1>5, <1>6 DEF Next, Worker

(* Every step of a worker uses up at least one of those it had left.         *)
LEMMA WorkerWorks ==
  ASSUME LoopInv, ShellInv, TurnsAwaited, Facts!StepsCounted, Facts!StepsCounted',
         NEW e \in Events, Worker(e)
  PROVE  WorkLeft(e)' < WorkLeft(e)
<1>1. Facts!StepsLeft(e) \in Nat /\ Facts!StepsLeft(e)' \in Nat
  BY DEF Facts!StepsCounted
<1>2. CASE StartTurn(e) \/ TurnStep(e)
  <2>1. stage'[e] = "working" /\ stage[e] = "working"
    <3>1. CASE StartTurn(e)
      BY <3>1 DEF StartTurn
    <3>2. CASE TurnStep(e)
      BY <3>2, SameStep, LoopConstants, Facts!StepRuns DEF TurnStep, TurnsAwaited
    <3> QED
      BY <1>2, <3>1, <3>2
  <2>2. Facts!Start(e) \/ Facts!Step(e)
    BY <1>2, SameStart, SameStep DEF StartTurn, TurnStep
  <2>3. Facts!StepsLeft(e)' < Facts!StepsLeft(e)
    BY <2>2, LoopConstants, Facts!TurnTakes DEF LoopInv
  <2>4. WorkLeft(e) = 2 + Facts!StepsLeft(e) /\ WorkLeft(e)' = 2 + Facts!StepsLeft(e)'
    BY <2>1 DEF WorkLeft
  <2> QED
    BY <1>1, <2>3, <2>4
<1>3. CASE PostReply(e)
  <2>1. stage[e] = "working" /\ stage'[e] \in {"closed", "failed"}
    BY <1>3 DEF PostReply, ShellInv, ShellTypeOK
  <2>2. WorkLeft(e) = 2 + Facts!StepsLeft(e) /\ WorkLeft(e)' \in {0, 1}
    BY <2>1 DEF WorkLeft
  <2> QED
    BY <1>1, <2>2
<1>4. CASE ReportError(e)
  <2>1. stage[e] \in {"working", "failed"} /\ stage'[e] = "closed"
    BY <1>4 DEF ReportError, ShellInv, ShellTypeOK
  <2>2. WorkLeft(e)' = 0 /\ (WorkLeft(e) = 1 \/ WorkLeft(e) = 2 + Facts!StepsLeft(e))
    BY <2>1 DEF WorkLeft
  <2> QED
    BY <1>1, <2>2
<1> QED
  BY <1>2, <1>3, <1>4 DEF Worker

(* And nothing that others do makes it more.                                 *)
LEMMA WorkNeverMore ==
  ASSUME LoopInv, ShellInv, TurnsAwaited, Facts!StepsCounted, Facts!StepsCounted',
         [Next]_vars, NEW e \in Events
  PROVE  WorkLeft(e)' <= WorkLeft(e) /\ WorkLeft(e) \in Nat
<1>1. Facts!StepsLeft(e) \in Nat /\ Facts!StepsLeft(e)' \in Nat
  BY DEF Facts!StepsCounted
<1>2. WorkLeft(e) \in Nat /\ WorkLeft(e)' \in Nat
  BY <1>1 DEF WorkLeft
<1>3. Facts!StepsLeft(e)' <= Facts!StepsLeft(e)
  <2>1. ASSUME NEW f \in Events, Facts!Start(f) \/ Facts!Step(f)
        PROVE  Facts!StepsLeft(e)' <= Facts!StepsLeft(e)
    BY <2>1, LoopConstants, Facts!TurnTakes DEF LoopInv
  <2>2. ASSUME UNCHANGED <<pc, iteration, forced, attempt, todo>>
        PROVE  Facts!StepsLeft(e)' <= Facts!StepsLeft(e)
    <3>1. Facts!StepsLeft(e)' = Facts!StepsLeft(e)
      BY <2>2, LoopConstants, Facts!IdleKeepsSteps
    <3> QED
      BY <1>1, <3>1
  <2> QED
    BY <2>1, <2>2, LoopStep DEF Emptied, Facts!vars
<1>4. ASSUME stage'[e] = stage[e] \/ (stage[e] = "new" /\ stage'[e] \in {"working", "ignored"})
      PROVE  WorkLeft(e)' <= WorkLeft(e)
  BY <1>1, <1>3, <1>4 DEF WorkLeft
<1>5. ASSUME NEW f \in Events, Deliver(f)
      PROVE  WorkLeft(e)' <= WorkLeft(e)
  BY <1>4, <1>5 DEF Deliver, ShellInv, ShellTypeOK
<1>6. ASSUME NEW f \in Events, Worker(f)
      PROVE  WorkLeft(e)' <= WorkLeft(e)
  <2>1. CASE f = e
    BY <1>2, <1>6, <2>1, WorkerWorks
  <2>2. CASE f # e
    <3>1. stage'[e] = stage[e]
      BY <1>6, <2>2 DEF Worker, StartTurn, TurnStep, PostReply, ReportError,
                        ShellInv, ShellTypeOK
    <3> QED
      BY <1>4, <3>1
  <2> QED
    BY <2>1, <2>2
<1>7. ASSUME NEW c \in Channels, NEW thread \in CommandThreads, Reset(c, thread)
      PROVE  WorkLeft(e)' <= WorkLeft(e)
  BY <1>4, <1>7 DEF Reset
<1>8. CASE UNCHANGED vars
  <2>1. stage' = stage
    BY <1>8 DEF vars
  <2> QED
    BY <1>2, <1>4, <2>1
<1> QED
  BY <1>2, <1>5, <1>6, <1>7, <1>8 DEF Next

\* No event has more ahead of it than a turn, a reply and an error, and none at
\* all just when it is ignored or closed.
WorkBounded == \A e \in Events :
  /\ WorkLeft(e) \in 0 .. 3 + Facts!StepsFrom(0)
  /\ WorkLeft(e) = 0 <=> stage[e] \in {"ignored", "closed"}

\* Every step of a worker uses up at least one of those it had left, and no
\* other event or /reset gives it any.
WorkUsedUp == [][\A e \in Events :
  /\ WorkLeft(e)' <= WorkLeft(e)
  /\ Worker(e) => WorkLeft(e)' < WorkLeft(e)]_vars

LEMMA MostSteps == Facts!StepsFrom(0) \in Nat
<1>1. 0 \in 0 .. MaxIterations
  BY LoopAssumption
<1> QED
  BY <1>1, LoopConstants, Facts!RoundTakes

LEMMA InitWork == Init => WorkBounded
<1> SUFFICES ASSUME Init, NEW e \in Events
             PROVE  /\ WorkLeft(e) \in 0 .. 3 + Facts!StepsFrom(0)
                    /\ WorkLeft(e) = 0 <=> stage[e] \in {"ignored", "closed"}
  BY DEF WorkBounded
<1>1. stage[e] = "new"
  BY DEF Init
<1>2. Facts!StepsLeft(e) <= 1 + Facts!StepsFrom(0)
  BY SameInit, LoopConstants, Facts!InitSteps DEF Init, Facts!StepsBounded
<1>3. Facts!StepsLeft(e) \in Nat
  BY InitLoop, LoopConstants, Facts!StepsCount DEF LoopInv, Facts!StepsCounted
<1>4. WorkLeft(e) = 2 + Facts!StepsLeft(e)
  BY <1>1 DEF WorkLeft
<1> QED
  BY <1>1, <1>2, <1>3, <1>4, MostSteps

LEMMA NextWork ==
  ASSUME LoopInv, ShellInv, TurnsAwaited, Facts!StepsCounted, Facts!StepsCounted',
         WorkBounded, [Next]_vars
  PROVE  WorkBounded'
<1> SUFFICES ASSUME NEW e \in Events
             PROVE  /\ WorkLeft(e)' \in 0 .. 3 + Facts!StepsFrom(0)
                    /\ WorkLeft(e)' = 0 <=> stage'[e] \in {"ignored", "closed"}
  BY DEF WorkBounded, Facts!StepsFrom, Facts!RoundSteps, Facts!LastSteps
<1>1. WorkLeft(e)' <= WorkLeft(e) /\ WorkLeft(e) \in Nat
  BY WorkNeverMore
<1>2. WorkLeft(e) <= 3 + Facts!StepsFrom(0)
  BY DEF WorkBounded
<1>3. /\ WorkLeft(e)' \in Nat
      /\ WorkLeft(e)' = 0 <=> stage'[e] \in {"ignored", "closed"}
  <2>1. Facts!StepsLeft(e)' \in Nat
    BY DEF Facts!StepsCounted
  <2> QED
    BY <2>1 DEF WorkLeft
<1> QED
  BY <1>1, <1>2, <1>3, MostSteps

(* No event keeps its worker thread for more than a bounded number of steps, *)
(* whatever the model, the tools and Slack answer, whatever other events do  *)
(* to the conversation meanwhile and whenever it is reset: the steps of a    *)
(* turn, the post of its reply and the report of an error. A thread that     *)
(* runs on closes its event (bot.py:40-66).                                  *)
THEOREM BotWorkBounded == Spec => []WorkBounded /\ WorkUsedUp
<1> DEFINE Used == \A e \in Events :
             /\ WorkLeft(e)' <= WorkLeft(e)
             /\ Worker(e) => WorkLeft(e)' < WorkLeft(e)
<1>1. Init => TurnsAwaited /\ WorkBounded
  BY InitWork DEF Init, Loop!Init, TurnsAwaited, Facts!Running
<1>2. LoopInv /\ ShellInv /\ TurnsAwaited /\ [Next]_vars => TurnsAwaited'
  BY NextAwaited
<1>3. LoopInv => Facts!StepsCounted
  BY LoopConstants, Facts!StepsCount DEF LoopInv
<1>4. /\ LoopInv /\ ShellInv /\ TurnsAwaited /\ Facts!StepsCounted /\ Facts!StepsCounted'
      /\ WorkBounded /\ [Next]_vars
      => WorkBounded' /\ [Used]_vars
  BY WorkerWorks, WorkNeverMore, NextWork
<1> HIDE DEF Used
<1>5. Spec => []WorkBounded /\ [][Used]_vars
  BY <1>1, <1>2, <1>3, <1>4, LoopInvHolds, ShellInvHolds, PTL DEF Spec
<1> QED
  BY <1>5 DEF WorkUsedUp, Used
=============================================================================
