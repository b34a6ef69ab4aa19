---------------------------- MODULE AlertWebhook ----------------------------
(* The alert webhook (src/webhook/, started by src/slack/bot.py) on top of   *)
(* the agent loop: the listener, the answer to a request, and the daemon     *)
(* thread each accepted alert gets, which filters it, runs the pipeline on   *)
(* it and publishes a notice.                                                *)
(*                                                                           *)
(* Enrichment only adds facts to the prompt and cannot fail the alert; it is *)
(* not modelled. Nor is which status a rejected request gets.                *)
EXTENDS Naturals, Sequences, SequencesExt

CONSTANTS
  Requests,     \* HTTP requests
  Arrivals,     \* what of a request decides whether it is accepted
  Payload,      \* Payload[r]: the body of request r, from its fields to values
  Upper,        \* Upper[v]: value v in capitals
  Missing,      \* None
  MaxBodyBytes,
  Settings,     \* values of the WEBHOOK_ settings, and VROPS_ALERT_CHANNEL
  MaxTurns, MaxIterations, MaxRetries, MaxParallel, Nobody  \* see AgentLoop

ASSUME LoopAssumption ==
  /\ {MaxTurns, MaxIterations, MaxRetries} \subseteq Nat
  /\ MaxParallel \in Nat \ {0}
  /\ Nobody \notin Requests

VARIABLES
  history, pc, iteration, forced, sent, attempt, todo,  \* see AgentLoop
  setting,   \* the settings of this run of the bot
  listener,  \* "off", "up", or "failed" when the port is taken
  stage,     \* stage[r]: where the webhook is with request r
  notices    \* notices[r]: the notices of r that reached the alert channel, in order

loopVars == <<history, pc, iteration, forced, sent, attempt, todo>>
vars == <<loopVars, setting, listener, stage, notices>>

\* _first: the first of the keys that has a value; an empty one is none.
First(payload, keys) ==
  LET present == SelectSeq(keys, LAMBDA k : k \in DOMAIN payload /\ payload[k] # "")
  IN  IF present = <<>> THEN Missing ELSE payload[Head(present)]

\* parse_alert, the fields that something depends on.
Alert ==
  [r \in Requests |->
    LET level == First(Payload[r], <<"criticality", "alertLevel", "alertCriticality", "status">>)
    IN  [id |-> First(Payload[r], <<"alertId", "alert_id", "id">>),
         criticality |-> IF level = Missing THEN Missing ELSE Upper[level]]]

\* One conversation for all alerts.
OneThread(r) == "alert"

\* The thread an alert's conversation is kept under; the channel is always
\* "vrops-webhook".
ThreadTs(r) == IF Alert[r].id = Missing THEN "alert" ELSE Alert[r].id

Loop == INSTANCE AgentLoop
  WITH Turns <- Requests, Keys <- {ThreadTs(r) : r \in Requests},
       KeyOf <- [r \in Requests |-> ThreadTs(r)]

-----------------------------------------------------------------------------
(* The listener                                                              *)

Init ==
  /\ Loop!Init
  /\ setting \in Settings
  /\ listener = "off"
  /\ stage = [r \in Requests |-> "new"]
  /\ notices = [r \in Requests |-> <<>>]

\* It is not started without a token or a channel; binding the port may fail.
Listen ==
  /\ listener = "off"
  /\ setting.enabled
  /\ setting.token # ""
  /\ setting.channel # ""
  /\ listener' \in {"up", "failed"}
  /\ UNCHANGED <<loopVars, setting, stage, notices>>

\* do_POST reads at most one byte more than the cap.
BytesRead(h) == IF h.length > MaxBodyBytes THEN MaxBodyBytes + 1 ELSE h.length

Accepts(h) ==
  /\ h.path = "expected"
  /\ h.method = "POST"
  /\ BytesRead(h) <= MaxBodyBytes
  /\ setting.token # "" /\ h.token = setting.token
  /\ h.body = "object"

\* The answer goes out before the worker is started: if it cannot be written,
\* because the sender has gone, there is no worker.
Receive(r, h) ==
  /\ listener = "up"
  /\ stage[r] = "new"
  /\ stage' = [stage EXCEPT ![r] = IF Accepts(h) THEN "answering" ELSE "rejected"]
  /\ UNCHANGED <<loopVars, setting, listener, notices>>

Respond(r) ==
  /\ stage[r] = "answering"
  /\ \E written \in BOOLEAN :
       stage' = [stage EXCEPT ![r] = IF written THEN "dispatched" ELSE "dropped"]
  /\ UNCHANGED <<loopVars, setting, listener, notices>>

-----------------------------------------------------------------------------
(* Workers                                                                   *)

Levels == <<"INFORMATION", "WARNING", "IMMEDIATE", "CRITICAL">>
Rank(level) == CHOOSE i \in 1 .. Len(Levels) : Levels[i] = level
Known(level) == \E i \in 1 .. Len(Levels) : Levels[i] = level

\* A filter that takes a level it does not know for the lowest.
PassesKnown(r) == Known(Upper[setting.floor]) =>
  /\ Known(Alert[r].criticality)
  /\ Rank(Alert[r].criticality) >= Rank(Upper[setting.floor])

\* passes_criticality: index raises ValueError for what is not in the list, an
\* empty floor included.
Passes(r) == (Known(Upper[setting.floor]) /\ Known(Alert[r].criticality)) =>
  Rank(Alert[r].criticality) >= Rank(Upper[setting.floor])

Skip(r) ==
  /\ stage[r] = "dispatched"
  /\ ~Passes(r)
  /\ stage' = [stage EXCEPT ![r] = "skipped"]
  /\ UNCHANGED <<loopVars, setting, listener, notices>>

StartTurn(r) ==
  /\ stage[r] = "dispatched"
  /\ Passes(r)
  /\ Loop!Start(r)
  /\ stage' = [stage EXCEPT ![r] = "working"]
  /\ UNCHANGED <<setting, listener, notices>>

\* An exception before the turn: the prompt or the event loop cannot be made.
PrepareFails(r) ==
  /\ stage[r] = "dispatched"
  /\ Passes(r)
  /\ stage' = [stage EXCEPT ![r] = "failed"]
  /\ UNCHANGED <<loopVars, setting, listener, notices>>

TurnStep(r) ==
  /\ Loop!Step(r)
  /\ UNCHANGED <<setting, listener, stage, notices>>

\* The publisher swallows its errors: a notice may or may not reach the
\* channel, once.
Publish(r, kind) == \E reached \in BOOLEAN :
  notices' = IF reached THEN [notices EXCEPT ![r] = Append(@, kind)] ELSE notices

\* A publisher that lets its exceptions through, and so into the fallback.
PublishOrRaise(r) ==
  /\ stage[r] = "working"
  /\ pc[r] = "answered"
  /\ Publish(r, "summary")
  /\ \E next \in {"published", "failed"} : stage' = [stage EXCEPT ![r] = next]
  /\ UNCHANGED <<loopVars, setting, listener>>

PublishSummary(r) ==
  /\ stage[r] = "working"
  /\ pc[r] = "answered"
  /\ Publish(r, "summary")
  /\ stage' = [stage EXCEPT ![r] = "published"]
  /\ UNCHANGED <<loopVars, setting, listener>>

PublishFallback(r) ==
  /\ stage[r] = "failed" \/ (stage[r] = "working" /\ pc[r] = "raised")
  /\ Publish(r, "fallback")
  /\ stage' = [stage EXCEPT ![r] = "published"]
  /\ UNCHANGED <<loopVars, setting, listener>>

Worker(r) ==
  \/ Skip(r)
  \/ StartTurn(r)
  \/ PrepareFails(r)
  \/ TurnStep(r)
  \/ PublishSummary(r)
  \/ PublishFallback(r)

Next ==
  \/ Listen
  \/ \E r \in Requests, h \in Arrivals : Receive(r, h)
  \/ \E r \in Requests : Respond(r) \/ Worker(r)

\* A worker is a thread: it runs on until it ends.
Fairness == \A r \in Requests : WF_vars(Worker(r))

Spec == Init /\ [][Next]_vars /\ Fairness

-----------------------------------------------------------------------------
(* Properties                                                                *)

\* Type correctness, that of the agent loop included.
TypeOK ==
  /\ Loop!TypeOK
  /\ setting \in Settings
  /\ listener \in {"off", "up", "failed"}
  /\ stage \in [Requests -> {"new", "rejected", "answering", "dropped",
                  "dispatched", "skipped", "working", "failed", "published"}]
  /\ notices \in [Requests -> Seq({"summary", "fallback"})]

\* Every request to the model is one it accepts, also while other alerts are
\* being processed (alerts.py:123-128).
PromptsAccepted == Loop!PromptsAccepted

\* The model is asked about an alert without anything of another alert in the
\* conversation: each alert is isolated in the memory, and no stale context is
\* carried from one to the next (the design document of the webhook, 59-60).
AlertsIsolated == \A r \in Requests : \A i \in 1 .. Len(sent[r]) :
  LET q == sent[r][i].turn
  IN  q \in {r, Nobody} \/ (Alert[q].id = Alert[r].id /\ Alert[r].id # Missing)

\* The level of the alert is known, and known to be below a known floor.
BelowFloor(r) == \E i, j \in 1 .. Len(Levels) :
  i < j /\ Alert[r].criticality = Levels[i] /\ Upper[setting.floor] = Levels[j]

\* One notice at most is made of a request, with a summary or without, and that
\* only at the end of its worker: nothing is announced twice, and nothing of a
\* request that is rejected or dropped or of an alert below the floor
\* (alerts.py:110-135 with publisher.py:22-27, and server.py:38-50).
OneNotice == \A r \in Requests :
  /\ Len(notices[r]) <= 1
  /\ notices[r] # <<>> => stage[r] = "published" /\ ~BelowFloor(r)

\* Only a level below the floor keeps an alert from being published, with a
\* summary or, whatever fails meanwhile, without (alerts.py:54-63, 110-135).
AlertsPublished == \A r \in Requests :
  (stage[r] = "dispatched" /\ ~BelowFloor(r)) ~> stage[r] = "published"
=============================================================================
