------------------------- MODULE AlertWebhook_proofs -------------------------
(* The alert webhook, for any number of requests and any payloads: how often *)
(* an alert is announced, what of other alerts the model is told with it,    *)
(* when what is sent to the model is what the chat APIs accept, and how much *)
(* an alert can take of its worker.                                          *)
(*                                                                           *)
(* What the agent loop contributes is taken from its own proofs, instantiated*)
(* as AlertWebhook instantiates the loop: Facts!X is lemma X about this      *)
(* loop. Each step of the webhook is a step of the loop or leaves it alone.  *)
EXTENDS AlertWebhook, TLAPS

Facts == INSTANCE AgentLoop_proofs
  WITH Turns <- Requests, Keys <- {ThreadTs(r) : r \in Requests},
       KeyOf <- [r \in Requests |-> ThreadTs(r)]

(* What the loop assumes of its constants holds of those it is given here.   *)
LEMMA LoopConstants ==
  /\ MaxTurns \in Nat /\ MaxIterations \in Nat /\ MaxRetries \in Nat
  /\ MaxParallel \in Nat \ {0}
  /\ Nobody \notin Requests
  /\ [r \in Requests |-> ThreadTs(r)]
       \in [Requests -> {ThreadTs(r) : r \in Requests}]
BY LoopAssumption

-----------------------------------------------------------------------------
(* The loop of the webhook and the loop of the proofs are the same.          *)

LEMMA SameInit == Loop!Init => Facts!Init
BY DEF Loop!Init, Facts!Init

LEMMA SameRemember ==
  ASSUME NEW r, NEW m, Loop!Remember(r, m)
  PROVE  Facts!Remember(r, m)
BY DEF Loop!Remember, Facts!Remember, Loop!Appended, Facts!Appended,
       Loop!Trim, Facts!Trim, Loop!Prune, Facts!Prune,
       Loop!LastN, Facts!LastN, Loop!Keep, Facts!Keep,
       Loop!FromFirstUser, Facts!FromFirstUser, Loop!FirstUser, Facts!FirstUser,
       Loop!UserPositions, Facts!UserPositions, Loop!IsUser, Facts!IsUser

LEMMA SameWellPaired ==
  ASSUME NEW s
  PROVE  Loop!WellPaired(s) <=> Facts!WellPaired(s)
BY DEF Loop!WellPaired, Facts!WellPaired, Loop!NoOrphans, Facts!NoOrphans,
       Loop!AllAnswered, Facts!AllAnswered, Loop!Answers, Facts!Answers,
       Loop!SameBlock, Facts!SameBlock, Loop!IsTool, Facts!IsTool

LEMMA SameEnd ==
  ASSUME NEW r, NEW label, Loop!End(r, label)
  PROVE  Facts!End(r, label)
BY DEF Loop!End, Facts!End, Loop!Goto, Facts!Goto

LEMMA SameStart ==
  ASSUME NEW r \in Requests, Loop!Start(r)
  PROVE  Facts!Start(r)
BY SameRemember DEF Loop!Start, Facts!Start, Loop!Question, Facts!Question,
                    Loop!Goto, Facts!Goto

LEMMA SameCalled ==
  ASSUME NEW r, Loop!Called(r)
  PROVE  Facts!Called(r)
BY SameWellPaired DEF Loop!Called, Facts!Called

LEMMA SameStep ==
  ASSUME NEW r \in Requests, Loop!Step(r)
  PROVE  Facts!Step(r)
<1>1. Loop!Prompt(r) => Facts!Prompt(r)
  BY DEF Loop!Prompt, Facts!Prompt, Loop!Exhausted, Facts!Exhausted,
         Loop!Nudge, Facts!Nudge, Loop!Goto, Facts!Goto
<1>2. \A retryable : Loop!CallFails(r, retryable) => Facts!CallFails(r, retryable)
  BY SameEnd DEF Loop!CallFails, Facts!CallFails, Loop!Retries, Facts!Retries
<1>3. Loop!NoChoices(r) => Facts!NoChoices(r)
  BY SameCalled, SameEnd DEF Loop!NoChoices, Facts!NoChoices
<1>4. \A n : Loop!RequestTools(r, n) => Facts!RequestTools(r, n)
  BY SameCalled, SameRemember
     DEF Loop!RequestTools, Facts!RequestTools, Loop!OffersTools,
         Facts!OffersTools, Loop!Request, Facts!Request, Loop!Goto, Facts!Goto
<1>5. Loop!RunTool(r) => Facts!RunTool(r)
  BY SameRemember
     DEF Loop!RunTool, Facts!RunTool, Loop!LastOfRound, Facts!LastOfRound,
         Loop!Reply, Facts!Reply, Loop!Goto, Facts!Goto
<1>6. Loop!AnswerText(r) => Facts!AnswerText(r)
  BY SameCalled, SameRemember, SameEnd
     DEF Loop!AnswerText, Facts!AnswerText, Loop!Answer, Facts!Answer
<1>7. Loop!EmptyContent(r) => Facts!EmptyContent(r)
  BY SameCalled DEF Loop!EmptyContent, Facts!EmptyContent, Loop!Goto, Facts!Goto
<1> QED
  BY <1>1, <1>2, <1>3, <1>4, <1>5, <1>6, <1>7 DEF Loop!Step, Facts!Step

LEMMA SameTypeOK == Loop!TypeOK <=> Facts!TypeOK
BY DEF Loop!TypeOK, Facts!TypeOK, Loop!Message, Facts!Message, Loop!Roles,
       Facts!Roles, Loop!CallIds, Facts!CallIds, Loop!Nudge, Facts!Nudge

LEMMA SamePromptsAccepted == Loop!PromptsAccepted <=> Facts!PromptsAccepted
BY SameWellPaired DEF Loop!PromptsAccepted, Facts!PromptsAccepted

-----------------------------------------------------------------------------
(* Type correctness, and what a notice says of where its alert is.           *)

StageType == {"new", "rejected", "answering", "dropped", "dispatched",
              "skipped", "working", "failed", "published"}

ShellTypeOK ==
  /\ setting \in Settings
  /\ listener \in {"off", "up", "failed"}
  /\ stage \in [Requests -> StageType]
  /\ notices \in [Requests -> Seq({"summary", "fallback"})]

\* Nothing is announced before the last step of an alert's worker, and that
\* step announces it in one way.
AnnouncedLast == \A r \in Requests :
  \/ notices[r] = <<>>
  \/ stage[r] = "published" /\ notices[r] \in {<<"summary">>, <<"fallback">>}

\* What gets past the filter is not below the floor.
PastFilter == {"working", "failed", "published"}
Filtered == \A r \in Requests : stage[r] \in PastFilter => ~BelowFloor(r)

ShellInv == ShellTypeOK /\ AnnouncedLast /\ Filtered

(* A level has one rank.                                                     *)
LEMMA RankOf ==
  ASSUME NEW i \in 1 .. Len(Levels)
  PROVE  Known(Levels[i]) /\ Rank(Levels[i]) = i
<1>1. \A k, l \in 1 .. 4 : Levels[k] = Levels[l] => k = l
  BY DEF Levels
<1>2. Len(Levels) = 4
  BY DEF Levels
<1>3. \E k \in 1 .. Len(Levels) : Levels[k] = Levels[i]
  OBVIOUS
<1>4. Rank(Levels[i]) \in 1 .. Len(Levels) /\ Levels[Rank(Levels[i])] = Levels[i]
  BY <1>3, Zenon DEF Rank
<1>5. Rank(Levels[i]) = i
  BY <1>1, <1>2, <1>4
<1> QED
  BY <1>3, <1>5 DEF Known

(* The filter stops every alert below the floor.                             *)
LEMMA PassesAbove ==
  ASSUME NEW r \in Requests, Passes(r)
  PROVE  ~BelowFloor(r)
<1> SUFFICES ASSUME BelowFloor(r)
             PROVE  FALSE
  OBVIOUS
<1>1. PICK i \in 1 .. Len(Levels), j \in 1 .. Len(Levels) :
        i < j /\ Alert[r].criticality = Levels[i] /\ Upper[setting.floor] = Levels[j]
  BY Zenon DEF BelowFloor
<1>2. /\ Known(Alert[r].criticality) /\ Rank(Alert[r].criticality) = i
      /\ Known(Upper[setting.floor]) /\ Rank(Upper[setting.floor]) = j
  BY <1>1, RankOf, Zenon
<1>3. i >= j
  BY <1>2, Zenon DEF Passes
<1>4. i \in Nat /\ j \in Nat /\ i < j
  BY <1>1 DEF Levels
<1> QED
  BY <1>3, <1>4

(* The floor is a setting, and the settings do not change.                   *)
LEMMA FilteredMove ==
  ASSUME ShellInv, NEW r \in Requests, NEW label \in StageType,
         label \in PastFilter => stage[r] \in PastFilter \/ Passes(r),
         stage' = [stage EXCEPT ![r] = label], setting' = setting
  PROVE  Filtered'
<1>1. \A q \in Requests : BelowFloor(q)' <=> BelowFloor(q)
  BY DEF BelowFloor
<1>2. label \in PastFilter => ~BelowFloor(r)
  BY PassesAbove DEF ShellInv, Filtered
<1>3. stage \in [Requests -> StageType]
  BY DEF ShellInv, ShellTypeOK
<1> SUFFICES ASSUME NEW q \in Requests, stage'[q] \in PastFilter
             PROVE  ~BelowFloor(q)
  BY <1>1 DEF Filtered
<1>4. CASE q = r
  <2>1. stage'[r] = label
    BY <1>3
  <2> QED
    BY <1>2, <1>4, <2>1
<1>5. CASE q # r
  <2>1. stage'[q] = stage[q]
    BY <1>3, <1>5
  <2> QED
    BY <2>1 DEF ShellInv, Filtered
<1> QED
  BY <1>4, <1>5

LEMMA FilteredSame ==
  ASSUME ShellInv, UNCHANGED <<stage, setting>>
  PROVE  Filtered'
BY DEF ShellInv, Filtered, BelowFloor

LEMMA PublishShell ==
  ASSUME ShellInv, NEW r \in Requests, NEW kind \in {"summary", "fallback"},
         stage[r] \in {"working", "failed"}, Publish(r, kind),
         stage' = [stage EXCEPT ![r] = "published"],
         UNCHANGED <<setting, listener>>
  PROVE  ShellInv'
<1>1. notices[r] = <<>>
  BY DEF ShellInv, AnnouncedLast
<1>2. Append(notices[r], kind) = <<kind>>
  BY <1>1
<1>3. notices' = notices \/ notices' = [notices EXCEPT ![r] = <<kind>>]
  BY <1>2 DEF Publish
<1>4. <<kind>> \in Seq({"summary", "fallback"})
  OBVIOUS
<1>5. ShellTypeOK'
  <2>1. notices' \in [Requests -> Seq({"summary", "fallback"})]
    BY <1>3, <1>4 DEF ShellInv, ShellTypeOK
  <2> QED
    BY <2>1 DEF ShellInv, ShellTypeOK, StageType
<1>6. AnnouncedLast'
  BY <1>3 DEF ShellInv, ShellTypeOK, AnnouncedLast
<1>7. Filtered'
  BY FilteredMove DEF StageType, PastFilter
<1> QED
  BY <1>5, <1>6, <1>7 DEF ShellInv

LEMMA InitShell == Init => ShellInv
BY DEF Init, ShellInv, ShellTypeOK, StageType, AnnouncedLast, Filtered, PastFilter

(* A step that announces nothing and moves at most one alert on.             *)
LEMMA MoveShell ==
  ASSUME ShellInv, NEW r \in Requests, stage[r] # "published",
         NEW label \in StageType, stage' = [stage EXCEPT ![r] = label],
         label \in PastFilter => stage[r] \in PastFilter \/ Passes(r),
         UNCHANGED <<setting, listener, notices>>
  PROVE  ShellInv'
<1>1. ShellTypeOK' /\ AnnouncedLast'
  BY DEF ShellInv, ShellTypeOK, AnnouncedLast
<1> QED
  BY <1>1, FilteredMove DEF ShellInv

(* A step that neither announces nor moves anything.                         *)
LEMMA StillShell ==
  ASSUME ShellInv, UNCHANGED <<setting, stage, notices>>,
         listener' \in {"off", "up", "failed"}
  PROVE  ShellInv'
<1>1. ShellTypeOK' /\ AnnouncedLast'
  BY DEF ShellInv, ShellTypeOK, AnnouncedLast
<1> QED
  BY <1>1, FilteredSame DEF ShellInv

LEMMA WorkerShell ==
  ASSUME ShellInv, NEW r \in Requests, Worker(r)
  PROVE  ShellInv'
<1>1. CASE Skip(r)
  BY <1>1, MoveShell DEF Skip, StageType, PastFilter
<1>2. CASE StartTurn(r)
  BY <1>2, MoveShell DEF StartTurn, StageType
<1>3. CASE PrepareFails(r)
  BY <1>3, MoveShell DEF PrepareFails, StageType
<1>4. CASE TurnStep(r)
  BY <1>4, StillShell DEF TurnStep, ShellInv, ShellTypeOK
<1>5. CASE PublishSummary(r)
  BY <1>5, PublishShell DEF PublishSummary
<1>6. CASE PublishFallback(r)
  BY <1>6, PublishShell DEF PublishFallback
<1> QED
  BY <1>1, <1>2, <1>3, <1>4, <1>5, <1>6 DEF Worker

LEMMA NextShell == ShellInv /\ [Next]_vars => ShellInv'
<1> SUFFICES ASSUME ShellInv, [Next]_vars
             PROVE  ShellInv'
  OBVIOUS
<1>1. CASE Listen
  BY <1>1, StillShell DEF Listen
<1>2. ASSUME NEW r \in Requests, NEW h \in Arrivals, Receive(r, h)
      PROVE  ShellInv'
  BY <1>2, MoveShell DEF Receive, StageType, PastFilter
<1>3. ASSUME NEW r \in Requests, Respond(r)
      PROVE  ShellInv'
  BY <1>3, MoveShell DEF Respond, StageType, PastFilter
<1>4. CASE UNCHANGED vars
  BY <1>4, StillShell DEF vars, ShellInv, ShellTypeOK
<1> QED
  BY <1>1, <1>2, <1>3, <1>4, WorkerShell DEF Next

(* One notice at most is made of a request, whatever fails and whatever the  *)
(* publisher swallows, and none of one that is rejected, dropped, skipped or *)
(* below the floor (alerts.py:110-135, publisher.py:22-27, server.py:38-50). *)
THEOREM WebhookOneNotice == Spec => []OneNotice
<1>1. Init => ShellInv
  BY InitShell
<1>2. ShellInv /\ [Next]_vars => ShellInv'
  BY NextShell
<1>3. ShellInv => OneNotice
  <2> SUFFICES ASSUME ShellInv, NEW r \in Requests
               PROVE  /\ Len(notices[r]) <= 1
                      /\ notices[r] # <<>> =>
                           stage[r] = "published" /\ ~BelowFloor(r)
    BY DEF OneNotice
  <2>1. CASE notices[r] = <<>>
    BY <2>1
  <2>2. CASE stage[r] = "published" /\ notices[r] \in {<<"summary">>, <<"fallback">>}
    <3>1. Len(notices[r]) = 1
      BY <2>2
    <3>2. ~BelowFloor(r)
      BY <2>2 DEF ShellInv, Filtered, PastFilter
    <3> QED
      BY <2>2, <3>1, <3>2
  <2> QED
    BY <2>1, <2>2 DEF ShellInv, AnnouncedLast
<1> QED
  BY <1>1, <1>2, <1>3, PTL DEF Spec

-----------------------------------------------------------------------------
(* The loop under the webhook.                                               *)

\* What the webhook's steps keep true of the loop.
LoopInv == Facts!IInv /\ Facts!OwnMessages

LEMMA InitLoop == Init => LoopInv
<1> SUFFICES ASSUME Init
             PROVE  LoopInv
  OBVIOUS
<1>1. Facts!Init
  BY SameInit DEF Init
<1> QED
  BY <1>1, LoopConstants, Facts!InitIInv, Facts!InitOwn DEF LoopInv

(* Every step of the webhook starts a turn, is a step of one, or leaves the  *)
(* loop as it is.                                                            *)
LEMMA LoopStep ==
  ASSUME [Next]_vars
  PROVE  \/ \E r \in Requests : Facts!Start(r)
         \/ \E r \in Requests : Facts!Step(r)
         \/ UNCHANGED Facts!vars
<1>1. UNCHANGED loopVars => UNCHANGED Facts!vars
  BY DEF loopVars, Facts!vars
<1>2. CASE Listen
  BY <1>1, <1>2 DEF Listen
<1>3. ASSUME NEW r \in Requests, NEW h \in Arrivals, Receive(r, h)
      PROVE  UNCHANGED loopVars
  BY <1>3 DEF Receive
<1>4. ASSUME NEW r \in Requests, Respond(r)
      PROVE  UNCHANGED loopVars
  BY <1>4 DEF Respond
<1>5. ASSUME NEW r \in Requests, Worker(r)
      PROVE  UNCHANGED loopVars \/ Facts!Start(r) \/ Facts!Step(r)
  <2>1. CASE StartTurn(r)
    BY <2>1, SameStart DEF StartTurn
  <2>2. CASE TurnStep(r)
    BY <2>2, SameStep DEF TurnStep
  <2>3. CASE Skip(r) \/ PrepareFails(r) \/ PublishSummary(r) \/ PublishFallback(r)
    BY <2>3 DEF Skip, PrepareFails, PublishSummary, PublishFallback
  <2> QED
    BY <1>5, <2>1, <2>2, <2>3 DEF Worker
<1>6. CASE UNCHANGED vars
  BY <1>1, <1>6 DEF vars
<1> QED
  BY <1>1, <1>2, <1>3, <1>4, <1>5, <1>6 DEF Next

LEMMA NextLoop == LoopInv /\ [Next]_vars => LoopInv'
<1> SUFFICES ASSUME LoopInv, [Next]_vars
             PROVE  LoopInv'
  OBVIOUS
<1>1. Facts!IInv /\ Facts!TypeOK /\ Facts!OwnMessages
  BY DEF LoopInv, Facts!IInv
<1>2. ASSUME NEW r \in Requests, Facts!Start(r)
      PROVE  LoopInv'
  BY <1>1, <1>2, LoopConstants, Facts!StartIInv, Facts!StartOwn DEF LoopInv
<1>3. ASSUME NEW r \in Requests, Facts!Step(r)
      PROVE  LoopInv'
  BY <1>1, <1>3, LoopConstants, Facts!StepIInv, Facts!StepOwn DEF LoopInv
<1>4. ASSUME UNCHANGED Facts!vars
      PROVE  LoopInv'
  <2>1. UNCHANGED <<history, sent>>
    BY <1>4 DEF Facts!vars
  <2> QED
    BY <1>1, <1>4, <2>1, LoopConstants, Facts!StutterIInv, Facts!StutterOwn
       DEF LoopInv
<1> QED
  BY <1>2, <1>3, <1>4, LoopStep

LEMMA LoopInvHolds == Spec => []LoopInv
BY InitLoop, NextLoop, PTL DEF Spec

(* The webhook and the loop under it keep to their types and bounds: as many *)
(* retries and iterations as are configured, and no other listener state,    *)
(* stage or notice (webhook/server.py:37-62, alerts.py:108-135).             *)
THEOREM WebhookTypeCorrect == Spec => []TypeOK
<1>1. LoopInv /\ ShellInv => TypeOK
  BY SameTypeOK DEF LoopInv, Facts!IInv, ShellInv, ShellTypeOK, StageType, TypeOK
<1> QED
  BY <1>1, LoopInvHolds, InitShell, NextShell, PTL DEF Spec

(* If every alert carries an id, the model is told nothing of any other      *)
(* alert: a request about one holds only messages about alerts with its id   *)
(* (the design document of the webhook, 59-60; alerts.py:123-128).           *)
THEOREM WebhookAlertsIsolated ==
  ASSUME \A r \in Requests : Alert[r].id # Missing
  PROVE  Spec => []AlertsIsolated
<1>1. LoopInv => AlertsIsolated
  <2> SUFFICES ASSUME LoopInv, NEW r \in Requests, NEW i \in 1 .. Len(sent[r]),
                      sent[r][i].turn # Nobody
               PROVE  /\ Alert[sent[r][i].turn].id = Alert[r].id
                      /\ Alert[r].id # Missing
    BY DEF AlertsIsolated
  <2> DEFINE q == sent[r][i].turn
  <2>1. q \in Requests /\ ThreadTs(q) = ThreadTs(r)
    BY LoopConstants, Facts!OwnAuthors DEF LoopInv
  <2>2. Alert[q].id # Missing /\ Alert[r].id # Missing
    BY <2>1
  <2> QED
    BY <2>1, <2>2 DEF ThreadTs
<1> QED
  BY <1>1, LoopInvHolds, PTL

-----------------------------------------------------------------------------
(* What is sent to the model.                                                *)

\* No two alerts of one conversation are with the model at the same time. The
\* webhook does not see to it: it depends on when alerts arrive.
OneAtATime == \A q, r \in Requests :
  ThreadTs(q) = ThreadTs(r) /\ Loop!Running(q) /\ Loop!Running(r) => q = r

LEMMA NextSafe ==
  ASSUME Loop!TurnFits, Facts!SafeInv, [Next]_vars, OneAtATime'
  PROVE  Facts!SafeInv'
<1>1. Facts!TurnFits
  BY DEF Loop!TurnFits, Facts!TurnFits
<1>2. Facts!OneTurnPerKey'
  BY DEF OneAtATime, Facts!OneTurnPerKey, Loop!Running, Facts!Running
<1>3. Facts!IInv /\ Facts!TypeOK
  BY DEF Facts!SafeInv, Facts!IInv
<1>4. ASSUME NEW r \in Requests, Facts!Start(r)
      PROVE  Facts!SafeInv'
  <2>1. Facts!KeyFree(r)
    BY <1>2, <1>3, <1>4, LoopConstants, Facts!StartKeyFree
  <2>2. Facts!IInv'
    BY <1>3, <1>4, LoopConstants, Facts!StartIInv
  <2> QED
    BY <1>1, <1>4, <2>1, <2>2, LoopConstants, Facts!StartSafe
<1>5. ASSUME NEW r \in Requests, Facts!Step(r)
      PROVE  Facts!SafeInv'
  BY <1>1, <1>5, LoopConstants, Facts!StepSafe
<1>6. ASSUME UNCHANGED Facts!vars
      PROVE  Facts!SafeInv'
  BY <1>6, LoopConstants, Facts!StutterSafe
<1> QED
  BY <1>4, <1>5, <1>6, LoopStep

(* As long as the alerts of a conversation are processed one after the       *)
(* other, and no turn can outgrow the window, every request to the model is  *)
(* one it accepts, whatever alerts of other conversations are being          *)
(* processed meanwhile (alerts.py:123-128).                                  *)
THEOREM WebhookPromptsAccepted ==
  ASSUME Loop!TurnFits
  PROVE  Spec => ([]OneAtATime => []PromptsAccepted)
<1>1. Init => Facts!SafeInv
  BY SameInit, LoopConstants, Facts!InitSafe DEF Init
<1>2. Facts!SafeInv /\ [Next]_vars /\ OneAtATime' => Facts!SafeInv'
  BY NextSafe
<1>3. Facts!SafeInv => PromptsAccepted
  <2> SUFFICES ASSUME Facts!SafeInv, NEW r \in Requests, pc[r] = "calling"
               PROVE  Facts!WellPaired(sent[r])
    BY SamePromptsAccepted DEF PromptsAccepted, Facts!PromptsAccepted
  <2>1. Facts!Paired(sent[r], {})
    BY DEF Facts!SafeInv, Facts!TurnSafe
  <2> QED
    BY <2>1, LoopConstants, Facts!PairedIsWellPaired
<1> QED
  BY <1>1, <1>2, <1>3, PTL DEF Spec

(* Alerts that all have a conversation of their own are always processed so. *)
COROLLARY WebhookDistinctAccepted ==
  ASSUME Loop!TurnFits,
         \A q, r \in Requests : ThreadTs(q) = ThreadTs(r) => q = r
  PROVE  Spec => []PromptsAccepted
<1>1. OneAtATime
  BY DEF OneAtATime
<1> QED
  BY <1>1, WebhookPromptsAccepted, PTL

-----------------------------------------------------------------------------
(* How long an alert keeps its worker.                                       *)

\* A turn only begins when its alert has been dispatched, and only runs while
\* its worker waits for it.
TurnsAwaited == \A r \in Requests :
  /\ stage[r] \in {"new", "answering", "dispatched"} => pc[r] = "new"
  /\ Facts!Running(r) => stage[r] = "working"

\* The most steps an alert's worker can take yet: its turn's, and a notice.
WorkLeft(r) == CASE stage[r] \in {"rejected", "dropped", "skipped", "published"} -> 0
                 [] stage[r] = "failed" -> 1
                 [] OTHER -> 1 + Facts!StepsLeft(r)

LEMMA NextAwaited ==
  ASSUME LoopInv, ShellInv, TurnsAwaited, [Next]_vars
  PROVE  TurnsAwaited'
<1>1. Facts!TypeOK
  BY DEF LoopInv, Facts!IInv
<1>2. CASE Listen
  BY <1>2 DEF Listen, loopVars, TurnsAwaited, Facts!Running
<1>3. ASSUME NEW r \in Requests, UNCHANGED loopVars, NEW label \in StageType,
             stage' = [stage EXCEPT ![r] = label],
             ~Facts!Running(r),
             label \in {"new", "answering", "dispatched"} => pc[r] = "new"
      PROVE  TurnsAwaited'
  BY <1>3 DEF loopVars, ShellInv, ShellTypeOK, TurnsAwaited, Facts!Running
<1>4. ASSUME NEW r \in Requests, NEW h \in Arrivals, Receive(r, h)
      PROVE  TurnsAwaited'
  BY <1>3, <1>4 DEF Receive, StageType, TurnsAwaited, Facts!Running
<1>5. ASSUME NEW r \in Requests, Respond(r)
      PROVE  TurnsAwaited'
  BY <1>3, <1>5 DEF Respond, StageType, TurnsAwaited, Facts!Running
<1>6. ASSUME NEW r \in Requests, StartTurn(r)
      PROVE  TurnsAwaited'
  <2>1. stage' = [stage EXCEPT ![r] = "working"] /\ Facts!Start(r)
    BY <1>6, SameStart DEF StartTurn
  <2>2. \A q \in Requests : q # r => pc'[q] = pc[q]
    BY <1>1, <2>1 DEF Facts!Start, Facts!Goto, Facts!TypeOK
  <2> QED
    BY <2>1, <2>2 DEF ShellInv, ShellTypeOK, TurnsAwaited, Facts!Running
<1>7. ASSUME NEW r \in Requests, TurnStep(r)
      PROVE  TurnsAwaited'
  <2>1. stage' = stage /\ Facts!Step(r)
    BY <1>7, SameStep DEF TurnStep
  <2>2. stage[r] = "working"
    BY <2>1, LoopConstants, Facts!StepRuns DEF TurnsAwaited
  <2>3. \A q \in Requests : q # r => pc'[q] = pc[q]
    BY <1>1, <2>1, LoopConstants, Facts!StepMoves
  <2> QED
    BY <2>1, <2>2, <2>3 DEF TurnsAwaited, Facts!Running
<1>8. ASSUME NEW r \in Requests, Skip(r) \/ PrepareFails(r)
      PROVE  TurnsAwaited'
  BY <1>3, <1>8 DEF Skip, PrepareFails, StageType, TurnsAwaited, Facts!Running
<1>9. ASSUME NEW r \in Requests, PublishSummary(r) \/ PublishFallback(r)
      PROVE  TurnsAwaited'
  <2>1. stage[r] \in {"failed", "working"} /\ stage' = [stage EXCEPT ![r] = "published"]
    BY <1>9 DEF PublishSummary, PublishFallback
  <2>2. UNCHANGED loopVars /\ ~Facts!Running(r)
    BY <1>9 DEF PublishSummary, PublishFallback, TurnsAwaited, Facts!Running
  <2> QED
    BY <1>3, <2>1, <2>2 DEF StageType
<1>10. CASE UNCHANGED vars
  BY <1>10 DEF vars, loopVars, TurnsAwaited, Facts!Running
<1> QED
  BY <1>2, <1>4, <1>5, <1>6, <1>7, <1>8, <1>9, <1>10 DEF Next, Worker

(* Every step of a worker uses up at least one of those it had left.         *)
LEMMA WorkerWorks ==
  ASSUME LoopInv, ShellInv, TurnsAwaited, Facts!StepsCounted, Facts!StepsCounted',
         NEW r \in Requests, Worker(r)
  PROVE  WorkLeft(r)' < WorkLeft(r)
<1>1. Facts!StepsLeft(r) \in Nat /\ Facts!StepsLeft(r)' \in Nat
  BY DEF Facts!StepsCounted
<1>2. CASE StartTurn(r) \/ TurnStep(r)
  <2>1. stage'[r] = "working" /\ stage[r] \in {"dispatched", "working"}
    <3>1. CASE StartTurn(r)
      BY <3>1 DEF StartTurn, ShellInv, ShellTypeOK
    <3>2. CASE TurnStep(r)
      BY <3>2, SameStep, LoopConstants, Facts!StepRuns DEF TurnStep, TurnsAwaited
    <3> QED
      BY <1>2, <3>1, <3>2
  <2>2. Facts!Start(r) \/ Facts!Step(r)
    BY <1>2, SameStart, SameStep DEF StartTurn, TurnStep
  <2>3. Facts!StepsLeft(r)' < Facts!StepsLeft(r)
    BY <2>2, LoopConstants, Facts!TurnTakes DEF LoopInv
  <2>4. WorkLeft(r) = 1 + Facts!StepsLeft(r) /\ WorkLeft(r)' = 1 + Facts!StepsLeft(r)'
    BY <2>1 DEF WorkLeft
  <2> QED
    BY <1>1, <2>3, <2>4
<1>3. CASE PrepareFails(r)
  <2>1. stage[r] = "dispatched" /\ stage'[r] = "failed" /\ pc[r] = "new"
    BY <1>3 DEF PrepareFails, ShellInv, ShellTypeOK, TurnsAwaited
  <2>2. Facts!StepsLeft(r) # 0
    BY <2>1 DEF Facts!StepsCounted
  <2>3. WorkLeft(r) = 1 + Facts!StepsLeft(r) /\ WorkLeft(r)' = 1
    BY <2>1 DEF WorkLeft
  <2> QED
    BY <1>1, <2>2, <2>3
<1>4. CASE Skip(r) \/ PublishSummary(r) \/ PublishFallback(r)
  <2>1. /\ stage[r] \in {"dispatched", "working", "failed"}
        /\ stage'[r] \in {"skipped", "published"}
    BY <1>4 DEF Skip, PublishSummary, PublishFallback, ShellInv, ShellTypeOK
  <2>2. WorkLeft(r)' = 0 /\ (WorkLeft(r) = 1 \/ WorkLeft(r) = 1 + Facts!StepsLeft(r))
    BY <2>1 DEF WorkLeft
  <2> QED
    BY <1>1, <2>2
<1> QED
  BY <1>2, <1>3, <1>4 DEF Worker

(* And nothing that others do makes it more.                                 *)
LEMMA WorkNeverMore ==
  ASSUME LoopInv, ShellInv, TurnsAwaited, Facts!StepsCounted, Facts!StepsCounted',
         [Next]_vars, NEW r \in Requests
  PROVE  WorkLeft(r)' <= WorkLeft(r) /\ WorkLeft(r) \in Nat
<1>1. Facts!StepsLeft(r) \in Nat /\ Facts!StepsLeft(r)' \in Nat
  BY DEF Facts!StepsCounted
<1>2. WorkLeft(r) \in Nat /\ WorkLeft(r)' \in Nat
  BY <1>1 DEF WorkLeft
<1>3. Facts!StepsLeft(r)' <= Facts!StepsLeft(r)
  <2>1. ASSUME NEW q \in Requests, Facts!Start(q) \/ Facts!Step(q)
        PROVE  Facts!StepsLeft(r)' <= Facts!StepsLeft(r)
    BY <2>1, LoopConstants, Facts!TurnTakes DEF LoopInv
  <2>2. ASSUME UNCHANGED <<pc, iteration, forced, attempt, todo>>
        PROVE  Facts!StepsLeft(r)' <= Facts!StepsLeft(r)
    <3>1. Facts!StepsLeft(r)' = Facts!StepsLeft(r)
      BY <2>2, LoopConstants, Facts!IdleKeepsSteps
    <3> QED
      BY <1>1, <3>1
  <2> QED
    BY <2>1, <2>2, LoopStep DEF Facts!vars
<1>4. ASSUME \/ stage'[r] = stage[r]
             \/ stage[r] = "new" /\ stage'[r] \in {"answering", "rejected"}
             \/ stage[r] = "answering" /\ stage'[r] \in {"dispatched", "dropped"}
      PROVE  WorkLeft(r)' <= WorkLeft(r)
  BY <1>1, <1>3, <1>4 DEF WorkLeft
<1>5. ASSUME NEW q \in Requests, NEW h \in Arrivals, Receive(q, h)
      PROVE  WorkLeft(r)' <= WorkLeft(r)
  BY <1>4, <1>5 DEF Receive, ShellInv, ShellTypeOK
<1>6. ASSUME NEW q \in Requests, Respond(q)
      PROVE  WorkLeft(r)' <= WorkLeft(r)
  BY <1>4, <1>6 DEF Respond, ShellInv, ShellTypeOK
<1>7. ASSUME NEW q \in Requests, Worker(q)
      PROVE  WorkLeft(r)' <= WorkLeft(r)
  <2>1. CASE q = r
    BY <1>2, <1>7, <2>1, WorkerWorks
  <2>2. CASE q # r
    <3>1. stage'[r] = stage[r]
      BY <1>7, <2>2 DEF Worker, Skip, StartTurn, PrepareFails, TurnStep, PublishSummary,
                        PublishFallback, ShellInv, ShellTypeOK
    <3> QED
      BY <1>4, <3>1
  <2> QED
    BY <2>1, <2>2
<1>8. ASSUME Listen \/ UNCHANGED vars
      PROVE  WorkLeft(r)' <= WorkLeft(r)
  <2>1. stage' = stage
    BY <1>8 DEF Listen, vars
  <2> QED
    BY <1>4, <2>1
<1> QED
  BY <1>2, <1>5, <1>6, <1>7, <1>8 DEF Next

\* No alert has more ahead of it than a turn and a notice, and none at all just
\* when it was rejected, dropped, skipped or published.
WorkBounded == \A r \in Requests :
  /\ WorkLeft(r) \in 0 .. 2 + Facts!StepsFrom(0)
  /\ WorkLeft(r) = 0 <=> stage[r] \in {"rejected", "dropped", "skipped", "published"}

\* Every step of a worker uses up at least one of those it had left, and no
\* other request gives it any.
WorkUsedUp == [][\A r \in Requests :
  /\ WorkLeft(r)' <= WorkLeft(r)
  /\ Worker(r) => WorkLeft(r)' < WorkLeft(r)]_vars

LEMMA MostSteps == Facts!StepsFrom(0) \in Nat
<1>1. 0 \in 0 .. MaxIterations
  BY LoopAssumption
<1> QED
  BY <1>1, LoopConstants, Facts!RoundTakes

LEMMA InitWork == Init => WorkBounded
<1> SUFFICES ASSUME Init, NEW r \in Requests
             PROVE  /\ WorkLeft(r) \in 0 .. 2 + Facts!StepsFrom(0)
                    /\ WorkLeft(r) = 0
                         <=> stage[r] \in {"rejected", "dropped", "skipped", "published"}
  BY DEF WorkBounded
<1>1. stage[r] = "new"
  BY DEF Init
<1>2. Facts!StepsLeft(r) <= 1 + Facts!StepsFrom(0)
  BY SameInit, LoopConstants, Facts!InitSteps DEF Init, Facts!StepsBounded
<1>3. Facts!StepsLeft(r) \in Nat
  BY InitLoop, LoopConstants, Facts!StepsCount DEF LoopInv, Facts!StepsCounted
<1>4. WorkLeft(r) = 1 + Facts!StepsLeft(r)
  BY <1>1 DEF WorkLeft
<1> QED
  BY <1>1, <1>2, <1>3, <1>4, MostSteps

LEMMA NextWork ==
  ASSUME LoopInv, ShellInv, TurnsAwaited, Facts!StepsCounted, Facts!StepsCounted',
         WorkBounded, [Next]_vars
  PROVE  WorkBounded'
<1> SUFFICES ASSUME NEW r \in Requests
             PROVE  /\ WorkLeft(r)' \in 0 .. 2 + Facts!StepsFrom(0)
                    /\ WorkLeft(r)' = 0
                         <=> stage'[r] \in {"rejected", "dropped", "skipped", "published"}
  BY DEF WorkBounded, Facts!StepsFrom, Facts!RoundSteps, Facts!LastSteps
<1>1. WorkLeft(r)' <= WorkLeft(r) /\ WorkLeft(r) \in Nat
  BY WorkNeverMore
<1>2. WorkLeft(r) <= 2 + Facts!StepsFrom(0)
  BY DEF WorkBounded
<1>3. /\ WorkLeft(r)' \in Nat
      /\ WorkLeft(r)' = 0
           <=> stage'[r] \in {"rejected", "dropped", "skipped", "published"}
  <2>1. Facts!StepsLeft(r)' \in Nat
    BY DEF Facts!StepsCounted
  <2> QED
    BY <2>1 DEF WorkLeft
<1> QED
  BY <1>1, <1>2, <1>3, MostSteps

(* No alert keeps its worker thread for more than a bounded number of steps, *)
(* whatever the model and the tools answer, whatever other alerts do to the  *)
(* conversation meanwhile and whether or not a notice gets through: those of *)
(* a turn, and one notice. A thread that runs on is done with its alert      *)
(* (alerts.py:108-135).                                                      *)
THEOREM WebhookWorkBounded == Spec => []WorkBounded /\ WorkUsedUp
<1> DEFINE Used == \A r \in Requests :
             /\ WorkLeft(r)' <= WorkLeft(r)
             /\ Worker(r) => WorkLeft(r)' < WorkLeft(r)
<1>1. Init => TurnsAwaited /\ WorkBounded
  BY InitWork DEF Init, Loop!Init, TurnsAwaited, Facts!Running
<1>2. LoopInv /\ ShellInv /\ TurnsAwaited /\ [Next]_vars => TurnsAwaited'
  BY NextAwaited
<1>3. LoopInv => Facts!StepsCounted
  BY LoopConstants, Facts!StepsCount DEF LoopInv
<1>4. /\ LoopInv /\ ShellInv /\ TurnsAwaited /\ Facts!StepsCounted /\ Facts!StepsCounted'
      /\ WorkBounded /\ [Next]_vars
      => WorkBounded' /\ [Used]_vars
  BY WorkerWorks, WorkNeverMore, NextWork
<1> HIDE DEF Used
<1>5. Spec => []WorkBounded /\ [][Used]_vars
  BY <1>1, <1>2, <1>3, <1>4, LoopInvHolds, InitShell, NextShell, PTL DEF Spec
<1> QED
  BY <1>5 DEF WorkUsedUp, Used
=============================================================================
