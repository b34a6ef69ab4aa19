# VCF operations harness: TLA+ models, checks and proofs

The harness is a Slack bot that lets a language model operate VMware Aria
Operations (vROps) through tool calls. This directory holds TLA+ models of it,
the TLC configurations that check them on small instances, and TLAPS proofs.
Sources are named relative to the repository (`src/...`); line numbers are those
of the modelled commit.

## The system

| Part | Source | State it keeps | Operations |
|---|---|---|---|
| Conversation memory | `src/memory/memory.py` | a list of messages per channel/thread, at most `max_turns` long | `append` (and its trim), `get_history`, `set_history`, `clear` |
| Agent loop | `src/ai/llm.py`, `src/ai/anthropic_llm.py` | its local variables; the conversation is in the memory | one turn: question, rounds of tool calls, answer or forced summarization |
| Retry | `src/utils/retry.py` | attempt counter | `with_retry` around every model call |
| Action registry | `src/actions/registry.py` | name to handler | `register` at start-up, `execute` |
| Pipeline | `src/pipeline/orchestrator.py` | none | `run_pipeline` chooses the provider's loop |
| Slack bot | `src/slack/bot.py` | none but the memory it owns | two listeners, one daemon thread per accepted message, `/reset` |
| Alert webhook | `src/webhook/` | none | HTTP listener, decision, answer, one daemon thread per alert, publisher |
| vROps API client | `src/actions/builtin/vrops/vrops_client.py` | session token | one request with re-authentication, pagers, resource and policy calls |
| vROps actions, sites | `actions.py`, `sites.py` | cache of clients | about thirty tool handlers |
| Fleet scope | `fleet.py` | none | search for descendants, scope of a location, statistics of what is in scope |
| Reports | `reports.py` | none | fleet query, capacity report, oversized VMs |
| Placement | `placement.py` | none | fit and ranking of hosts for a VM |
| Diagnosis, analysis | `diagnose.py`, `analysis.py` | none | facts of a resource, verdict; summary of alerts; scores |
| Configuration, start-up | `src/config`, `src/main.py` | settings | read once |

How they interact: a listener of the Slack bot returns at once and leaves the
pipeline to a new daemon thread; the webhook does the same for an alert. Every
such thread runs an event loop of its own, calls the agent loop, and shares with
all the others one `ConversationMemory` and one `ActionRegistry`, neither of
them locked. Tool calls run inside the turn, in the same thread, and share the
cache of vROps clients.

What is hard here, and what correctness means for each part:

* **Memory**: `append` is four steps between which other threads run. No message
  may go to a list that is no longer stored, none may be overwritten by a trim,
  and a trim may not separate a tool reply from its request: the chat APIs
  reject such a list, and since the list is stored, they go on rejecting it.
* **Agent loop**: whatever the model answers and whatever fails, every request
  it sends must be acceptable, must hold the question being answered, and the
  turn must end. A turn that fails must leave a conversation that can go on.
* **Slack bot**: conversations of different threads must not mix; an accepted
  message is settled, with at most one reply, although posts may fail and may
  seem to have failed when they did not; `/reset` must forget.
* **Alert webhook**: an alert is published once, with a summary or without,
  unless it is known to be below the floor; alerts are isolated from each other.
* **vROps client**: a token that expires between calls, pages of a list that
  changes, several calls of which a later one fails.
* **Fleet scope**: what is collected is what is in scope, although relations form
  cycles, pages are fetched one by one from lists that change, and any of them
  may fail.
* **Reports and placement**: a ranking must be that of the statistics, and a host
  recommended must have room, although any statistic, or a chunk of them, may be
  missing, and percentages are rounded before they are compared.
* **Diagnosis and alerts**: verdict, advice and counts must be those of the facts,
  put together from several requests of which some fail.

`PROJECT.json` lists these at their lines under `hazards`, with the properties
that cover them.

## Modules

| Module | Models | Extends or instantiates |
|---|---|---|
| `Conversation` | one conversation: `_prune` as operators; the chat APIs' contract (`WellPaired`) | |
| `AtomicMemory` | the promise of the memory: one-step operations | `Conversation` |
| `ConversationMemory` | the memory as threads execute it | `Conversation`, `AtomicMemory` (refined) |
| `AgentLoop` | one or more turns of the loop, with retries and tools | `Conversation` |
| `ReplyOnce` | the promise of the bot for each event | |
| `SlackBot` | listeners, workers, posts, `/reset` | `AgentLoop`, `ReplyOnce` (refined) |
| `AlertWebhook` | listener, decision, workers, notices | `AgentLoop` |
| `VropsClient` | the client cache, the session token, requests and the registration of resource kinds, by several threads | |
| `Lists` | pages of a list, and what Python does with lists: `dict.fromkeys`, `[:n]`, a filter, stable `sorted` | |
| `FleetScope` | scope of a fleet query: listings, search for datacenters, walk over their descendants | `Lists` |
| `FleetRanking` | pure functions: fit and head-room of a host, capacity by type, what an oversized VM could give back | `Lists` |
| `FleetTools` | one call of a fleet tool: scope, statistics in chunks, reports, placement | `FleetScope`, `FleetRanking` |
| `Diagnosis` | one diagnosis: its requests, the verdict and the recommendations | `Lists` |
| `AlertSummary` | one `vrops_get_alerts`: listing, names in chunks, summary; or a diagnosis | `Diagnosis` |
| `Conversation_proofs` | lemmas about `_prune` and about what the APIs accept | `Conversation` |
| `ConversationMemory_proofs`, `AgentLoop_proofs` | theorems | the module of that name, `Conversation_proofs` |
| `SlackBot_proofs`, `AlertWebhook_proofs` | theorems | the module of that name; `AgentLoop_proofs`, for their loop |
| `VropsClient_proofs`, `FleetTools_proofs` | theorems | the module of that name |
| `Diagnosis_proofs` | theorems | `AlertSummary` |
| `MC...` | values of the constants for TLC | the module of that name |

### State and actions against the code

**`Conversation`.** A message is its role, the turn that wrote it and the tool
call ids it requests or answers. Contents are left out, and so are `system`
messages: no caller stores one, so that `_prune`'s partition is the identity.
`Keep`, `LastN`, `FromFirstUser` and `Prune` are lines 55-69 of `memory.py`.

**`ConversationMemory`.** `store` is the dictionary, `heap` the list objects it
and the threads refer to, `op[t]` the local variables of a thread inside
`append`. CPython switches threads between bytecodes, and each of `setdefault`,
`list.append`, the length test with `_prune`, and the store of the result is
atomic: the actions `Setdefault`, `Extend`, `Fits`/`Overflows`, `Replace`.
`SetHistory` and `Clear` are the other two writers. `KeysOf` says which keys a
thread uses; `DisjointKeys` is what the class's docstring asks of callers.

**`AgentLoop`.** `pc[t]` is where a turn is: `prompt` (about to read the
history), `calling` (a request in flight, `sent[t]`), `tools` (executing
`todo[t]`), `answered`, `raised`. `Start` stores the question; `Prompt` builds a
request, with the summarization's extra message once the iterations are used up
or an empty content was received; then a model call either fails (`CallFails`,
`with_retry` deciding between another attempt and the exception) or returns
something: no choices, tool calls, a text, nothing. A request that breaks the
contract of the APIs only fails. `RunTool` executes one call and stores its
result: the registry returns one in every case. The two providers' functions
have the same control flow and differ in the fields they read.
`append` is one step here, which the refinement justifies for disjoint keys.

**`SlackBot`.** `stage[e]` follows an event: ignored by the listener's tests,
or taken on by a worker, which runs a turn of `AgentLoop` (an instance, one turn
per event), posts the reply, and reports an error when the turn or that post
raises. `posts[e]` are the messages that reached the channel, in their order: one that is
posted by a call that raises may have. A call posts once; what Slack's library may
retry inside it is not modelled.
`forgotten` is a history variable for `/reset`. The note "Working on it" is
best-effort and left out.

**`AlertWebhook`.** `setting` is chosen at first among the configured ones;
`Listen` starts the listener if token and channel are set. A request is judged
by what `handle_webhook` reads of it (`Arrivals`); the body is cut at one byte
above the cap as `do_POST` does. `Respond` writes the answer, and only if that
works is the worker started. The worker filters, runs a turn on the thread
named by the alert id or `"alert"`, and publishes the reply or the fallback; the
publisher makes one attempt and swallows its failure. `notices[r]` are the notices
that reached the channel, in their order. Payloads are functions from
their fields to values, and `First` and `Alert` take from them what `parse_alert`
does: the first of several fields that is neither missing nor empty.

**`VropsClient`.** A thread's tool call goes through `Lookup` to `Fetch` (the
cache), `Prepare` (headers from the token the client has at that moment), then
`Served` or `Rejected`. Authentication is two steps, since another thread can
act between the server's issuing a token (`Acquire`) and its being stored
(`StoreToken`). `job[t]` tells the reads, which go through `_request` and
authenticate again on a 401, from the calls that do not, and from
`register_adapter_instance`, whose headers serve for all its requests
(`CheckKind`, `CreateKind`). Tokens are named by the `epoch` they are issued in:
all tokens issued so far expire together, but never one that is on its way to the
client, since tokens live for hours and an authentication takes 30 s at most. A
server that restarts in those 30 s, and so forgets a token that is still to be
stored, is not modelled.
Nothing in the repository calls `register_adapter_instance`; it is modelled as a
public method.

**`FleetScope`.** One scope: `Resolve` chooses between listing a kind (`ListPage`)
and the walk from the datacenters of a location (`Search`, `BeginWalk`, then
`Expand`, `FetchPage`, `NextLevel` as in `collect_descendants`, whose `found`,
`visited`, `frontier`, `nxt` and `depth` are variables). Each page is a step of
its own and is cut from the list as it is at that moment; `Delete`, `Move` and
`Create` change the inventory in between. A request that fails ends its list.
`given` is the inventory and the request of a case.

**`FleetTools`.** `stage` is where the handler is. `BeginTool` checks the
arguments; `Scoping` takes the steps of `FleetScope`, once for the tool's scope
(stage `scope`) and, in a placement, again for each cluster found (`NextCluster`,
stage `host scope`), as `collect_descendants` is called in a loop. `Attach` and
`FetchStats` are `attach_stats` with one request per chunk, which may fail and
then leaves its resources without statistics. `EvaluateHosts` adds the hosts of a
cluster to the candidates; `Recommend` and the three `Report...` actions rank, cut
and answer. `report.says` tells the kinds of answer apart, `report.shown` are its
rows.

**`FleetRanking`.** `_evaluate`, `_rank_key`, `_capacity_dimension` and the scores
of `analysis.py`, over statistics of which any may be missing (`Nothing`).
Quotients are computed as integer fractions and rounded to the digits the code
rounds to, in units of a tenth of a percent or a hundredth of a GB; a tie is
rounded up where Python goes by the binary value. Whether a VM fits the code decides
with floats (`placement.py:54-55`, `64-65`): with percentages in whole numbers, the
rounding can matter only where what is free is exactly what is needed (with 200 MHz,
10 cores and a usage of 90 %, one vCPU does not fit: 19.999999999999996 < 20.0), and
there `CpuFits` and `MemFits` may come out either way (`granted`). The references the properties
compare with (`Fits`, `Left`, `PctFree`, `Reclaimable`) are fractions that are
never rounded. The capacity engine's numbers that `_evaluate` reports as a caveat
are left out.

**`Diagnosis`.** One call of `vrops_diagnose`: `Search`, `GetHealth`,
`AlertsPage`, `GetSeries` and `Report`, each request also failing, against an
`estate` of facts that does not change meanwhile. `Trend`, `Breached`, `Rollup`
and `Recommend` are functions of `analysis.py`; the trend is computed in
integers by multiplying out, so that rounding is not modelled. `TrueVerdict`
says what the facts themselves call for.

**`AlertSummary`.** `estate.tool` chooses between a diagnosis (`Diagnose`: the steps
of `Diagnosis`) and `vrops_get_alerts` (`GetAlerts`), which shares `get_alerts`
with it: `BeginList`, the pages, `FetchNames` by chunks, and `Summarize`. Alerts
have an id, a level, a status, a name, a resource and a start; those without a
level, status or name have the stand-in that `summarize_alerts` counts them under.

## Runs

Every property has a comment in its module that says what it means.

| Run | Instance | Shows |
|---|---|---|
| `memory` | 2 threads with a key each, 4 list objects, 3 kinds of message, window 3 | no append is lost or overwritten, the trim never orphans, the memory implements `AtomicMemory` |
| `agent_loop` | 3 turns of one thread, one after the other; 2 iterations, 2 parallel calls, 1 retry, window 8 | requests always acceptable, holding their question; a failed turn leaves a usable conversation; turns end |
| `agent_loop_overflow` (violation) | 1 turn, window 4 | a turn longer than the window stores an orphaned tool reply |
| `slack_bot` | 2 threads processed at the same time, 2 ignored deliveries, `/reset` | threads do not mix, every event is settled as `ReplyOnce` says, and no message is posted for it twice |
| `slack_one_thread` (violation) | 2 messages of one thread | the second request holds an unanswered tool call |
| `slack_reset` (violation) | the same | `/reset` clears a key nothing is stored under |
| `alert_webhook` | 3 alerts with ids, in payloads of different fields; 7 kinds of request, 6 settings | alerts are isolated, and published once unless below the floor |
| `alert_without_id` (violation) | 2 alerts without an id | the model is asked about one with messages of the other |
| `vrops_client` | 2 threads, 1 lapse of all tokens, 2 resource kinds | no client is used before it has a token, reads heal a lapsed one, a registration reported is complete |
| `fleet_scope` | 9 resources, 3 inventories (two parents, cycles, too deep) with 1 change, and one without for every tool with 4 to 9 readings per resource or none; pages and chunks of 2, depth 3 | what is reported is in scope and ranked as the statistics say, a host is recommended if any has more than the VM needs, and that one fits and is the best; a listing misses nothing that stays, every call ends |
| `diagnosis` | 3202 estates: listings of up to 3 alerts on pages of 2, CPU series of up to 4 samples around the threshold; and 3490 listings of up to 3 alerts by level, name and time for the summary, which shows 2 of them and 1 name | verdict and advice are those of the facts, missing facts never make them worse, and a summary counts and ranks the alerts as they are |
| `diagnosis_gaps` (violation) | the same | alerts that could not be fetched are not noted as missing |

Bounds. The window of 8 in `agent_loop` is exactly 2 + 2 * (1 + 2), the longest
turn with its question and answer (`TurnFits`), so that every turn but the first
is trimmed while it goes on, at every position; one message less is the
violation. Three turns suffice for a trim to meet what two earlier turns left,
failed or not. Two threads and two keys suffice for the memory because its
actions relate a thread to one key; four objects are one per key and one per
thread. One retry tells a retry from the last attempt. In `slack_bot` and
`alert_webhook` one iteration with one call already leaves a round half done
while the other worker runs. One
lapse is enough in `vrops_client`: between two of them a client is as it is after
the first one. In `fleet_scope` pages of 2 split lists of 3, and the chain is one
hop deeper than the walk goes; the cap of the listing (6) is not reached, and its
property says nothing of a listing that is cut. `Uncut`, which the theorem on the
best host and the one on rankings assume, is evaluated on the cases (`NothingCut`). A new resource is listed at one
of four places, which are all that differ for the virtual machines listed before
or after it. The readings of `MCFleetTools` put a host exactly at its limit and
just above it, without cores or MHz, with either figure of memory, and with any
figure missing; three resources in chunks of 2 make the second chunk a short one.
The alerts' summary shows fewer alerts and names than there are. `agent_loop` runs with the real limits replaced by
these; the defaults are 50 messages, 5 iterations and 3 retries.

Deadlock is not checked where all messages may have been dealt with: those
systems do stop. The models of the memory and of the API client never stop, and
are checked.

Fairness. `WF` of a turn's `Step` and of a worker, which are threads: model
calls end by `request_timeout_s` and tool calls by the HTTP client's timeout, so
a thread keeps going. The same holds of a tool call in `VropsClient` (`Step`),
but not of its beginning, and of a tool call in `FleetTools` (`Tool`). `SelfHeals` is stated
of runs with ever more reads in which the server issues tokens in the end.
Nothing is assumed of Slack's deliveries, of `/reset`, of
alerts' arrival, or of which outcome a call has.

Mutants. For each property of a passing run, `PROJECT.json` names a plausible
error in a definition that models code (defined just before it, such as
`PruneAnywhere` before `Prune`) under which the property fails.

## Findings

1. `agent_loop_overflow`: `_prune` never separates a reply from its request in
   the list it is given, but in the middle of a round it may return an empty
   list, after which `append` stores the next reply alone.
2. `slack_one_thread`: the docstring of the memory takes the key of a Slack
   thread for one worker's. Two messages sent in a thread while the first is
   being answered are two workers with one key.
3. `slack_reset`: `/reset` clears the channel's key; conversations are always
   stored under channel and thread.
4. `alert_without_id`: alerts without an id are accepted and share one conversation,
   though the design document has the id isolate each alert and says that one
   without is rejected.
5. `diagnosis_gaps`: a diagnosis whose listing of alerts failed notes no gap, and
   may call a resource with critical alerts OK.

Met while modelling and not the subject of a run, because no text of the
repository says otherwise, because they are of one kind with a finding or, the
first, because they follow from one line of the code:

* A location's datacenters are looked up by parts of their names
  (`vrops_client.py:793`), and every match is taken, also one of another location,
  though `fleet.py:74-75` speaks of the location's datacenters. The search is
  modelled so (`Search`), and `WalkSound` takes its matches for the location's.
* The same alert delivered twice shares a conversation with its first delivery. A
  search returns one page of matches.
* A listing that grows between two pages returns some resources twice, and a
  report then has two rows for one resource. Alerts raised or canceled between
  two pages are counted twice or missed.
* A chunk of statistics that fails leaves its resources out of a report without a
  word; names that could not be fetched are shown as none.
* With no statistics at all, the placement says that no host can fit the VM,
  "blocked by cpu, memory", and the rightsizing report that no VM is oversized,
  though the design documents promise to say that data is missing.
* A host that reports a CPU capacity of 0 fits any number of vCPUs. A recommended
  memory size of 0 counts as all memory being reclaimable, a recommended CPU size
  of 0 as missing.
* `top_n = 0` makes a capacity report fail and a placement say that there are no
  hosts.
* The design document of the placement has it choose the best cluster first, by the
  capacity engine's figures; the code, and the README, compare all hosts of all
  clusters by raw head-room.

## Proofs

`Conversation_proofs`: `PruneNoOrphans`. What `_prune` returns is empty or a
suffix that begins at a user message (`PruneIsSuffix`); only tool messages stand
between a call and its reply, so a cut at a user message keeps both or drops
both (`CutAtUserNoOrphans`).

`ConversationMemory_proofs`: `TypeCorrect` for any callers. The rest assumes
`DisjointKeys`. The inductive invariant `IInv` adds to the properties that a
thread inside `append` works on a key of its own (`OwnKeys`) and that no two
keys share a list (`NoAliasing`): without these a step of another thread could
change the list a thread holds. From it, `StillStored`, `StillCurrent` and
`TrimNeverOrphans`, `NoAliasing` itself, and `DisjointKeysAtomic`: the memory implements
`AtomicMemory`, an append taking effect at `Extend`, with the history read as
already trimmed until the trim is done (`History`).

`AgentLoop_proofs`: `LoopTypeCorrect`, with `RoundsLeft` as the strengthening: a
round is only begun before the last iteration, and has a call left while it goes
on. Then `LoopNeverOrphans`, `LoopPromptsAccepted`, `LoopAsksOwnQuestion`,
`LoopUsableBetweenTurns` and `LoopAnswerRemembered`, all under `TurnFits`: the window
holds the longest turn. With the default of 50 messages and 5 iterations it does
for up to 8 calls per round; `agent_loop_overflow` shows what happens otherwise. In
the middle of a round a conversation is not what the APIs accept, so the invariant
says how far it is from it: all calls are answered but those still in `todo`
(`Paired`), and the round that made these is the last thing in it (`Open`).
`RequestPaired` and `ReplyPaired` say what storing a message does to that,
`CutPaired` that cutting at a user message does nothing. The trim cuts no later than
the question of the running turn (`TrimKeepsQuestion`), because what follows the
question is never more than the rounds account for (`HoldsQuestion`, `Room`); and no
other turn stores into the same conversation (`OneTurnPerKey`), since `Start` awaits
a free key.

`LoopStepsBounded` assumes neither: whatever the model answers and however often it
fails, a turn takes no more steps than its start, `MaxIterations` rounds of a prompt,
a call with its retries and the tools called for (`RoundSteps`), and a summarization
(`LastSteps`). `StepsLeft` counts what a turn can still take; every step of the turn
leaves fewer, a step of another turn as many, and there are none left just when the
turn has returned or raised (`StepsUsedUp`, `StepsCounted`). It is the safety `TurnEnds`
rests on; what the run adds is that a thread which can go on does.

`SlackBot_proofs` and `AlertWebhook_proofs` take what the loop contributes from
`AgentLoop_proofs`, which they instantiate as the bot and the webhook instantiate the
loop (`Facts`): every step of theirs is a step of the loop or leaves it alone, except
`/reset`, which is considered by itself. Their own part is `ShellInv`: which stage
goes with which state of the turn and what has been posted. From it:

* `BotThreadsIsolated`, `BotTypeCorrect`, and `BotKeepsPromise`: every step of the bot
  is a step or a stutter of `ReplyOnce`, the safety part of `RepliesOnce`, so that a
  message posted twice is neither.
* `WebhookOneNotice` (the filter lets nothing past that is below the floor, `Filtered`,
  and nothing is announced before a worker's last step, `AnnouncedLast`),
  `WebhookTypeCorrect`, and `WebhookAlertsIsolated`, which assumes
  that every alert has an id, since all that have none share a conversation.
* `BotPromptsAccepted` and `WebhookPromptsAccepted`. Here several turns may run on one
  conversation, since nothing in the code prevents it, and then requests are not
  accepted: `slack_one_thread`. The theorems say that this is the only way it can
  happen: under `TurnFits`, a behaviour in which no two turns of a conversation
  overlap (`[]OneAtATime`) has acceptable requests only. For the bot this also takes
  `ResetsOutsideThreads`, that no `/reset` hits the conversation of a thread, which
  `slack_reset` is the other side of. `BotDistinctAccepted` and
  `WebhookDistinctAccepted` name instances where `OneAtATime` always holds: messages
  that are each of a thread of their own, alerts with ids of their own.
* `BotWorkBounded` and `WebhookWorkBounded`: an event takes no more steps of its worker
  than those of a turn, a reply and the report of an error, an alert no more than those
  of a turn and a notice. Every step of the worker leaves it fewer, no other event or
  alert and no `/reset` gives it more, and none is left just when the event is closed
  or ignored, the alert published, skipped or dropped, or its request rejected
  (`WorkUsedUp`, `WorkBounded`). This
  is the safety under `RepliesOnce` and `AlertsPublished`.

`VropsClient_proofs`: `ClientTypeCorrect`, `RequestsAuthenticated`,
`ReadsHealLapses` and `RegistrationComplete`, for any number of threads, lapses and
resource kinds. The invariant adds to the type that
a client in the cache has a token, and one a thread is making is that thread's own
until it has one (`ClientsReady`); that no request is sent with headers built
without a token (`HeadersBuilt`); that the token of a read's second attempt is good
unless tokens lapsed meanwhile, although other threads may replace it
(`RetriesGood`); and that whatever kind the server lacks is still ahead of a
registration under way, whichever thread creates it (`NothingSkippedByAny`). By
`ReadsAloneRetry` only reads are authenticated again, and by `CallStepsBounded` a tool
call ends after 11 steps of its own at most, a registration after 7 and two for each
kind, whatever the server and the other threads do (`CallLeft`, `CallsUsedUp`).

`Diagnosis_proofs`: `DiagnosisVerdictTrue`, `DiagnosisAdviceAgrees`,
`DiagnosisTypeCorrect`, `AlertSummaryTrue` and `DiagnosisTrendConsistent`, for any
estate, page size and limit. The invariant says that the alerts collected are a beginning of the listing, page by page, and all of it when
the listing has ended without a failure or a cut (`Listing`); and that health and
series are the estate's or missing (`Known`). A part of the alerts never rolls up to
worse than all of them. For the summary, the alerts collected are the first of the
estate's whatever fails (`Part`), so that no count is too high (`Tallied`), and the names
are those of the resources asked for so far (`Asking`), one chunk after the other
(`UptoGrows`). Alerts and names are sorted stably (`Places`, `StableSort`,
`PlacedElements`), and whatever a cut leaves out of a sorted list comes after all it
keeps (`TopOf`); what `Truthful` says then follows for the alerts in hand (`SummaryMade`).
For the trend, sums over a series are those of its beginnings, each the last and a
sample, and what holds of one and passes on to the next holds of all (`AllNaturals`,
which stands in for the induction theorem, as that takes an operator as a parameter). A
series read backwards has the same mean and the opposite slope; in one that never goes
down, each sample is paired with its opposite (the i-th from the start and the i-th
from the end), whose difference has the sign of the distance between them, so that
the slope is not below zero.

`FleetTools_proofs`, for any inventory, relations, statistics, page and chunk sizes
and depth, and however the inventory changes where the theorem does not say otherwise:

* `FleetWalkSound`, `FleetWalkComplete`, `FleetListComplete`, `FleetTypeCorrect`. What
  a listing should find has been fetched or is listed after the pages fetched, as long
  as nothing is deleted or moved (`Listing`). In a walk, what is on the frontier is as
  many hops from a root as levels are done (`Sound`); and while nothing changes and
  fails, each resource within that many hops is visited or on the frontier, and of what
  was visited the children of the kind sought are found, and those to descend through
  visited, on the frontier or in the next one (`Complete`). Every walk of a tool, for
  its scope or for one cluster, begins in a state that satisfies these
  (`FleetSearches`).
* `FleetPlacedFits`. A host answered is one that was evaluated (`Answers`), under the
  cluster whose hosts were collected (`Hosting`), and says that it fits only if its
  statistics do, however the comparisons at the limit come out (`CpuFitsTrue`,
  `MemFitsTrue`).
* `FleetBestHost`. If no request failed, the datacenters of a location are all those named
  in the request (`Locating`), the resources in scope are among the rows and their
  statistics fetched (`Scoped`, `Fetched`), and of each cluster in scope the hosts were
  evaluated, or it is still to be gone through (`Reached`); what a candidate says of its
  head-room is that of its statistics (`Headed`). The answer is first in the order of
  `_rank_key` (`FirstIsBest`, from the lemma that a stable sort puts every element at
  a place of its own, `PlacesFilled`), and a head-room in whole tenths of a percent is
  less than another's only if the fractions are less or equal up to a tenth
  (`HeadsOrder`). A host that the VM would leave nothing of may be refused, so that the
  theorem has a host recommended where one in scope has more than that (`Spare`); one
  that is refused is still no better than the one recommended (`NoneLeft`). The theorem assumes `Uncut`: as many resources as a listing or a search
  is cut at and a host may be missed, which the code says of listings and does not
  say of searches.
* `FleetRankedTruly`. What is fetched and collected is, page by page, a beginning of a
  listing as it is (`Beginnings`), so that what is in hand is in scope and repeats nothing
  (`Within`); with `Scoped` and `Fetched` it is all there is in scope when no request
  failed. Each report sorts by a key computed from the statistics (`SortedElements`, of
  the same `StableSort` as the ranking of hosts), and cutting a sorted list leaves out
  only what belongs below (`RankedByKey`). What remains is arithmetic: that the keys
  order resources as the fractions do, up to rounding (`CapacityOrder`, `ScoreOrder`),
  and that the type of capacity named has a key no other is below (`TightestTrue`). It
  assumes `Uncut` too. `RankedTruly` allows for the rounding of the code, to a tenth of a percent and
  to hundredths of a GB: a VM that could give back as much as asked for but for two
  hundredths may be shown or not (`Rated`).

Assumptions are the ASSUMEs of the modules, which TLC evaluates in the runs, and those
a theorem names; nothing else bounds threads, turns, keys, messages, alerts, resources
or the window. The ASSUMEs say that bounds are natural numbers and functions have the
right domain (`LoopAssumption`, `SizesAssumption`, `CasesAssumption`,
`SitesAssumption`, `EstatesAssumption`), that alerts start at a number and one without a
resource names none that is found (`AlertsAssumption`), that the server lists each resource once
(`CasesAssumption`), that statistics and the numbers among the arguments are numbers, and
the number and speed of processors and a size of memory not negative
(`StatsAssumption`), and that a missing value is none of these (`NothingAssumption`).

Only model-checked:

* Liveness, and the part of a refinement that needs it (`TurnEnds`, `RepliesOnce`
  beyond `BotKeepsPromise`, `AlertsPublished`, `SelfHeals`, `ToolEnds`), since ENABLED is
  out of the prover's reach. That the steps of a turn, an event, an alert and a tool
  call of the client are bounded is proved, as above; for a fleet tool (`ToolEnds`) that
  too is only model-checked.

Every invariant and action property of a passing run is the subject of a theorem.

## Not modelled

Contents of messages, prompts, token limits and the wording of posts, reports and
notices; the enrichment of alerts, which cannot fail them and changes no state; the
parsing of tool arguments. Of the vROps client, the single reads and writes of
resources, policies and super metrics: each is one request whose answer is handed
on, without a state of its own; and the capacity engine's numbers that the placement
adds as a caveat. Configuration, start-up, logging, and the echo and time actions
have no behaviour over time. The process is not crashed: everything is in memory and
nothing is recovered.

## Plan

Done: the memory, the agent loop, the bot, the webhook and the client; the fleet
tools with placement and reports; the diagnosis and the summary of alerts; the
theorems above. Left, in this order:

1. Proofs: a bound on the steps of a fleet tool call, as there is for the other
   components. What else is left of the properties above, the refinement of `ReplyOnce`
   included, is liveness.
2. The policies and super metrics of the client, if they come to take more than one
   request each.
