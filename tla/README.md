# Bottega in TLA+

Bottega (`src/`) is a shared agent for Slack: a **server** process owns the
Slack connection, the agent sessions, policy and memory; an **executor**
process (its own container, without Slack tokens) runs long work in one sandbox
container per job; both share one SQLite file through `src/src/store/db.ts`.
Almost everything that can go wrong between them goes wrong in the rows of that
file, so the models below are models of rows, of the processes that write them,
and of the windows between two writes.

Paths below are relative to `src/`.

## 1. The system

### Components, state, operations

| Component | Code | State it keeps | Operations | Modelled by |
|---|---|---|---|---|
| Work items | `src/store/db.ts` 700-780, 1044-1147, 1354-1414, 2314-2346; `src/tools/work-items.ts` | `work_items` | create, claim, transition, cancel, complete, stale recovery | `WorkItemRules`, `WorkItems`, `WorkQueue` |
| Worker job bus | `src/store/db.ts` 1149-1263, `src/worker/envelope.ts` | `worker_jobs` | enqueue, claim, requeue, renew, complete, fail, sweep | `WorkQueue` |
| Executor and sandbox supervisor | `src/executor.ts`, `src/worker/run-job.ts` | job in hand, renewal timer, container | boot, claim loop, retry, reap, failLoud | `WorkQueue` |
| Isolated job bodies | `src/worker/job-bodies.ts` | item in hand | claim, work, deliver, await approval, self-report, unstick | `WorkQueue` |
| Store RPC, scoped store | `src/worker/store-rpc.ts`, `scoped-store.ts` | pending calls, socket | call, dispatch, timeout, close | not modelled (section 13) |
| Outbox and post seam | `src/store/outbox.ts`, `src/server/services/outbox-post-seam.ts`, `src/ingest/dispatch.ts` | `outbox` | write, consume, post, dispatch, requeue, fail, nudge | `Outbox`, `OutboxSeam` |
| Reactive core | `src/events/reactive.ts`, `single-flight-loop.ts` | `reactive_watermarks`, `reactive_deliveries`, `reactive_dead_letter`, in-memory retry gates | tail, react, consume, back off, dead-letter, sweep | `ReactiveLedger`, `ReactiveCore`; the sweep leg in `OutboxSeam` |
| Delivery approval | `src/server/services/delivery-poller.ts`, `src/server/adapters/delivery-router.ts`, `waitForDeliveryApproval` | audit rows only | announce, click, wait, deliver | `Delivery`; the wait also in `WorkQueue` |
| Space sessions and turns | `src/server/services/space-service.ts`, `pending_turns` in `db.ts` | live sessions, turn queue, `pending_turns` | message, steer, queue, drain, stop, recover, dispose | `SpaceTurns` |
| Turn presenter | `src/server/services/slack-turn-presenter.ts` | pending message, coalesced update, request, flushes under way | phrase, steer, progress, message, error, turn end, settle, flush, retry | `TurnReply`; the stream renderer is not modelled |
| Slack adapter | `src/server/adapters/slack.ts` | socket, action handlers | normalise, post, update | not modelled (section 13) |
| Scheduler | `src/scheduler/*`, `db.ts` 1968-2312 | `scheduler_jobs`, `scheduler_invocations` | tick, claim occurrence, run now, complete, skip, edit | `Invocations`, `Scheduler` |
| Approval router and policy gate | `src/server/adapters/approval-router.ts`, `src/policy/*`, the gate's wrapper in `agent-driver.ts` | in-memory pending registry, failure memory | gate, request, click, evict, nudge, time out | `Policy`, `ApprovalGate` |
| Extension connections | `src/extensions/lifecycle.ts`, `connect.ts`, `boundary.ts`, `db.ts` 1421-1622 | `extension_credentials`, broker vault, secret files | connect, replace (begin/commit/rollback), disconnect, revoke | `Connections` |
| Work review | `src/server/work-review/*`, `src/server/adapters/work-review-router.ts`, `db.ts` 1659-1966 | `work_review_*`, per-item locks | mint, redeem, read, continue | `WorkReview` |
| Single-use tokens | `src/extensions/upload-link.ts`, `mcp-oauth.ts` | `upload_tokens`, `oauth_flows` | mint, redeem, expire, rate-limit | not modelled (section 13) |
| Ingest | `src/ingest/*` | `ingest_watermark`, replay window | webhook, poll, dispatch | dispatch in `OutboxSeam`, rest not modelled |
| Memory | `src/memory/*` | facts, consolidation watermark | write, search, consolidate | not modelled (section 13) |
| Agent driver | `src/server/drivers/agent-driver.ts` | SDK sessions | prompt, steer, abort, dispose | the gate's wrapper in `ApprovalGate`, rest not modelled |
| Work forks and timeline | `src/work-items/*` | pure views of audit and transcripts | fork, preamble, timeline | the fork in `WorkReview`; the views are not modelled |
| Org settings, policy config | `src/store/org-settings.ts`, `src/policy/config.ts` | `org_settings`, config files | parse, merge, overlay | `Policy`, `ApprovalGate` |
| Workspace lifecycle | `src/worker/workspace-lifecycle.ts` | marker files | create, replace, remove, purge | not modelled (section 13) |
| Egress, catalogues, OpenAPI/MCP tools, graph, KB, voice, rendering | `src/egress`, `src/extensions/*`, `src/graph`, `src/kb`, `src/voice`, `src/tools/render-chart.ts` | none of their own | generation and formatting | not modelled: pure transformation or I/O |

### How they interact

* **Server -> executor** only through rows: `createWorkItem` inserts the item
  and the job with the same id; a delivery decision is an audit row.
* **Executor -> server** only through rows: the outbox (results and
  notifications) and the audit ledger (`work_item.delivery_pending`).
* **Sandbox child -> store** through RPC calls served by its executor, each a
  separate transaction: there is no transaction around a job body.
* **Humans** click on prompts; several can click on one prompt.
* Every process can die between two writes; compose restarts it.

### What is hard

Two owners of one job after a lease lapse; a caller that acts on a state it
read before an `await`; a job body whose writes are separate transactions; a
supervisor that must repair what a dead child left; a queue consumer that marks
before it acts; a tailing loop whose frontier must not pass an unhandled row;
timers (lease, backoff, stale window, unclaimed TTL, approval timeout) that race
with late answers.

## 2. Plan

Order: the work queue first (it is the promise of the product), then what
carries its results to people, then the server's own concurrency.

| # | Module | Abstract specification | State |
|---|---|---|---|
| 1 | `WorkQueue` (on `WorkItemRules`) | `WorkItems` | done, checked and proved |
| 2 | `ReactiveCore` | `ReactiveLedger`: every wanted row, in order, at least once | done, checked and proved |
| 3 | `OutboxSeam` | `Outbox`: the life of a row, whoever has it | done, checked and proved |
| 4 | `Delivery`: poller, router and waiting job body together | stated as invariants: first decision wins | done, checked and proved |
| 5 | `Scheduler` | `Invocations`: the life of an invocation; stated as properties: no job gets stuck, no backlog is claimed | done, checked and proved |
| 6 | `SpaceTurns` (with the `pending_turns` table) | stated as invariants: one turn at a time, in order, none forgotten | done, checked and proved |
| 7 | `Policy`, and `ApprovalGate` with the router | stated as invariants: nothing runs without consent, a gate settles once, by default with a denial | done, checked and proved |
| 8 | `Connections` | stated as invariants: no authority outlives its connection | done, checked and proved |
| 9 | `WorkReview`: review tokens, sessions, forks | stated as invariants: one continuation of an item, for members only | done, checked and proved |
| 10 | `TurnReply`: the presenter of the turns | stated as properties: what was said is shown and stays | done, checked and proved, but for what is shown in the end |
| 11 | the presenter's stream renderer, upload and OAuth tokens, store RPC, memory consolidation, workspace ownership, agent queue | per component | open; section 13 |

## 3. The work queue

### Modules

* `WorkItemRules` - the states of a row, `ALLOWED_TRANSITIONS`,
  `assertLegalTransition` and `assertDoneResult` as operators over the four
  kinds of item (git, extension, chat; a scheduler's extension item needs no
  url).
* `WorkItems` - the abstract lifecycle: create once, move only along the legal
  map, never return to `open`, never leave a settled state. The one bypass,
  `markStaleWorkItems` (claimed -> blocked), is an action of its own.
* `WorkQueue` - the code. `state`, `evidence`, `approvals`, `result` and `idle`
  are the columns of `work_items`; `status`, `attempts`, `lease`, `aged` and
  `created` those of `worker_jobs`; `outbox` and `audit` are the ids and facts
  written; `pc`, `at`, `tries`, `exit`, `lost`, `loud`, `post` are an executor
  and its sandbox child; `cancelling` and `chat` are server tool calls between
  their read and their write. One action per store call: a child's job body is
  a sequence of them, and everything may happen between two.

  `store_faults` lets the store reject any call of an executor or its child, also
  one between two writes of one operation: a transition commits its UPDATE before
  it appends the audit row and inserts the outbox row (`db.ts` 1382-1411).
  `StoreFault` and `FailFails` are rejected calls of the body, of `failSelf` and of
  `failLoud`; `StartTorn` and `DoneTorn` are transitions whose audit row is
  rejected after the UPDATE; `NoticeRejected` is a landing whose notification is;
  `UnstickReadFails` and `UnstickFails` are rejections in the repair, which only
  logs those of its transitions. `faulted` records the rejections that leave an
  item without its start's audit row, its repair or its notification.
* `MCWorkQueue` - instances for TLC.

Clock comparisons become flags (`lease` null/future/past, `aged`, `idle`) that
actions of the clock raise; a backoff gate is a lease on a queued row, as in
the code. `LeaseElapses` for a live owner needs the hazard `lease_lapses`
(renewal runs twice per lease, so only a stalled process loses it).

Operators whose comment says `MUTANT` are deliberately wrong versions of the
operator below them; no specification uses them. They document which mistake
each property would catch.

### What each run checks

| Run | Instance | Question |
|---|---|---|
| `WorkQueue_crash` | 1 git, extension or chat item or plain job in a behaviour, 1 executor, 2 attempts, 1 crash, every hazard but lapsing leases, fair | do obligations, completed-job accounting and the lifecycle survive any failure, does every job end, and does no item hang at claimed or working, save for what `NeverHangsAtWorking` names? |
| `WorkQueue_race` | 1 extension item, 2 executors (symmetric), 2 attempts, lapsing leases, sandbox deaths, store faults, idle rows, no process death | is the item run once, every completion reported, and every blocked landing whose notification the store takes? |

Bounds: `OneAtATime`, a state constraint, keeps one item or plain job in a
behaviour, of whichever kind; items share nothing but the queue order and the
executors. Two executors exercise every double-claim
(the theorems lift both bounds). `MaxAttempts = 2` gives one retry and one final
failure; `attempts` saturates there. `MaxCrashes` bounds process deaths; one
death, of the executor or the server, between any two steps is what recovery is
written for. The race is run with an extension item, whose body is the shortest
that claims, works and lands: lapsing leases reach it at each of its steps, and the
longer body of a git item is in the other run.
Deadlock checking is off because the system may stop: when every item is
settled and every job finished, nothing is left to do.

Fairness: `WF(ExecutorStep(e))` - a process that can step does, and compose
restarts a dead one (`restart: on-failure`) - and `WF(LeaseElapses(j))` - time
passes. No fairness is assumed for people, faults, the server's tools or the
sweeps. The agent session is assumed to return (the sandbox timeout kills it).

### Properties

`OneRunner`, `Obligations`, `CompletedIsAccountedFor`, `ReportedOrLoud`,
`BlockedIsAnnounced`, `LifecycleSpec` (refinement), `JobsTerminate`,
`NeverHangsAtWorking`; each is stated with its comment at the end of
`WorkQueue.tla`. Type correctness and `JobsStayTerminal` are theorems and have no
run. `ReportedOrLoud` and `BlockedIsAnnounced` hold only while
no executor process dies between the two writes they relate; nothing in the
code promises more, so the run that checks them has no executor crash.
Nor does it promise anything for a call that the store rejects between two writes:
`BlockedIsAnnounced` excuses a landing whose own notification was rejected,
`CompletedIsAccountedFor` an item whose start was written and not audited, and
`NeverHangsAtWorking` both an item whose repair was rejected and one with such a
start, behaviours in which a process died, and items whose failure is on the trail.
Each exception names the one rejected write (`faulted`): a fault in any other call,
of the work or of another item, excuses nothing. Section 12 tells what the documents
say of these cases.

### Proofs

`WorkQueueProofs` proves `TypeCorrect` and `ImplementsLifecycle`
(`Spec => LifecycleSpec`), and then the safety invariants: `OneRunnerHolds`,
`ObligationsHold`, `CompletedIsAccountedForHolds`, `JobsStayTerminalHolds`,
`ReportedOrLoudHolds` and `BlockedIsAnnouncedHolds`. The last two are stated for
behaviours in which no executor died so far (`NoExecutorDied`: no death, or the
hazard is not among those allowed), the condition of their run.
They assume only the named `ASSUME`s: delivery kinds are disjoint, plain jobs
are not items, `MaxAttempts` is a positive natural. They hold for any number of
items, jobs, executors, attempts and crashes, and any set of hazards.

None of the properties is inductive alone. `SafetyInv` adds, in three groups:

* execution: an item being worked on by `e` was claimed from `open`
  (`ItemFirst`: an item that is open or has no row is in nobody's hands), an
  executor in a body holds an existing job (`HeldExists`), and an executor
  between the claim and the start finds the item claimed or moved on
  (`WorkClaimed`). The claim is the only way into `WorkPcs`, it needs `open`,
  and rows never return to `open`: hence `OneRunner`, whatever the leases do.
* accounting: `GotClaimed`, `UnstickAfterFail` (a job being unstuck is already
  failed, so it cannot be completed later) and `CompletingAccounted` (a body
  that reached completion left a settled item or a `work_item.failed`).
* consent: `ApprovedFirst` (a body past the wait, and any row in review or done,
  follows an approved decision).

* announcements: a completed job's report and a blocked item's notification are
  each written or in the hands of a live executor about to write them.

Only model-checked: the liveness properties.

## 4. The reactive core

`ReactiveLedger` is what `reactive.ts` promises: rows of one behaviour are
reacted to in ledger order, each at least once, and a row is passed only when it
was reacted to or given up. `ReactiveCore` is the loop: `ledger` and
`watermark`, `delivered` and `dead` are the audit table and the three reactive
tables; `attempts` and `gated` are the retry gates in memory; `stage` is where a
row of the batch is inside `consumeOne`; `toQuery`, `pending`, `last` and `high`
are the locals of a pass; `reacted` remembers which reactions had their effect.
A pass reads the watermark, runs one SELECT per event type, then takes its rows
in batches of `MaxInFlight`, whose reactions run concurrently, and stops behind
a batch that left a row waiting. `Crash` loses the memory; a storage call that
throws outside `consumeOne`'s try ends the loop until the next boot
(`PassThrows`), as nothing schedules another pass.

| Run | Instance | Question |
|---|---|---|
| `ReactiveCore_ordered` | 3 rows, 1 event type, foreign rows, 1 in flight, 2 attempts, 2 deaths or faults, fair | is the ledger's contract implemented, and every row settled? |

Every boot uses one reaction in flight and behaviours of one event type. The
constants allow more: with `MaxInFlight = 2` a later row's consume moves the
watermark past an earlier row that waits out its backoff, which is then never
delivered, and with two event types a row written between the two SELECTs is
passed. `NothingSkipped` and the theorems are therefore about the setting in use
(`Ordered` in `ReactiveCoreProofs`). Three rows give a settled, a waiting and a
not yet written row at once; two attempts give a retry and a dead letter.

Fairness: a step of a running loop is taken, a backoff elapses, and a process
that is down is booted (compose restarts it). `EveryRowSettles` needs no more,
as faults are bounded.

Proved in `ReactiveCoreProofs` for any number of rows, attempts and faults:
`TypeCorrect`; and in the setting in use `NothingSkippedHolds`,
`DeliveredNeverAgainHolds` and `ImplementsLedger` (the first two are theorems
only: the refinement the run checks implies what they say of the ledger). The invariant adds to the
type invariant that a pass in hand holds the wanted rows above the watermark it
read (`PassInv`), that what lies behind the frontier was consumed (`Passed`) and
that what is consumed was reacted to or is a dead letter (`Evidence`). Only
model-checked: `EveryRowSettles`.

## 5. The outbox and the post seam

`OutboxSeam` is the table, the passes of any number of servers, and the polled
events dispatched from it. `status`, `tries` (the attempts column) and `created`
are the table; `kind` is what a row asks for, chosen when it is written;
`batch`, `row`, `stale` and `nudging` are the locals of a pass; `delivered` and
`unclaimed` the audit rows; `told` counts what people saw of a row, its message
or its nudge. A pass consumes (SELECT and mark in one transaction), deals with
the batch row by row, selects stale rows, fails each one that is still pending,
then posts the nudges. How old a row is is left open: the SELECT of stale rows
may see any number of the oldest pending rows. `LosePass` is a pass that ends
early, by a death or by an exception that only the reactive core's sweep
catches: what it had consumed and not dealt with stays marked posted, and is put on
record as `lost`.

| Run | Instance | Question |
|---|---|---|
| `OutboxSeam` | 2 servers, 2 rows of any kind, batches of 2, 2 attempts, 1 pass cut short, refused posts, lost answers, storage faults, fair | is nobody told twice, is no row forgotten and does every row settle, save for the rest of a batch whose pass was cut short? |

Two rows and two servers give every race between a consume, a requeue and a
nudge for one row, with another row in the same batch to be lost or skipped;
two attempts give a retry and a terminal failure. `ToldAtMostOnce` carries its
one exception: `postMessage` may throw although Slack took the message, and the
retry repeats it, up to the bound on attempts. `NothingForgotten` and `EveryRowSettles` have
one too: the rows that a pass cut short still had before it. They hold of every
other row, also after such a pass: what it had dealt with, the batches of the other
servers, and what was still pending. The module accepts a lost delivery when a
process dies between the consume and the post ("a duplicate user-facing post is
worse than a rare lost one").

Fairness: `WF(ServerStep(s))`: the loop chains one pass after another. None is
assumed of writers or faults.

Proved in `OutboxSeamProofs` for any number of rows, servers, attempts and
faults: `TypeCorrect`, `ToldAtMostOnceHolds` and `NothingForgottenHolds`. The
invariant says who may speak for a row: the one server whose batch holds it
(`Owned`), or the one that failed it as unclaimed (`NudgedOnce`); until it has
spoken nobody was told (`Silence`). Only model-checked: `EveryRowSettles`.

`Outbox` is what the seam promises of one row, without servers, batches, clocks or
places in a pass: a row waits, is taken, is told or refused, put back while it has
an attempt left or failed, or its time is up and it is nudged for; what is over
stays over. `ImplementsOutbox` proves that any number of servers implement it:
`Life` says where a row is, whoever has it (taken while it is in a batch and not at
hand, refused between its post and its settlement, surfaced until its nudge), and
each step of a server is one step of that life (`RowStepShows`, `ConsumeShows`,
`SettleFailureShows`, `MarkUnclaimedShows`, `PostNudgeShows`, `LossShows`) or does
not show (`QuietSteps`). It rests on `Owned` and `NudgedOnce`, without which a row
would have two places, and on `Emptied`: a server that consumes has nothing left
from the pass before, or that would be lost in a step that only takes. No action of
`Outbox` starts where a row is over, so the refinement gives `OverIsFinalHolds`: no
late pass, retry, nudge or second server touches such a row again. Both hold by
proof alone; no run lists them.

## 6. The turns of a space

`SpaceTurns` is one space: the handlers of its inbound messages, its session and
the `pending_turns` table. Messages are the constant `Msgs`; sessions are
numbered by `gen`, and whatever the code captured in a closure (the session of a
handler, of a turn) is such a number. `pc[m]` is where `handleInboundMessage` is
with a message, `deferred` whether its activation waits for the end of a running
turn, `orphans` the handlers whose presenter was deleted under them;
`turn[g][m]` is the turn of its own that a message has on a session (hot-swap,
prompt, settlement), `heir` the drained turn whose end a settlement awaits;
`requestActive` is the presenter's flag, `queue` the entry of `#queues`, `row`
and `rank` the status and id of a message's row. `missed` and `stalled` are
history: which messages a failed write gave up to chance, and whether a refused
prompt left a queue behind.

JavaScript interleaves only at an `await`, so a step runs from one await that
leaves the process (a download, the creation of a session, a model switch, a
prompt, a disposal) to the next; awaits of the in-process database or of a
settled promise do not let a timer or a socket in between. What the model assumes
of the agent SDK: a run that ends emits `turn_end` on a session that no longer
streams and then settles its prompt; a session being disposed emits nothing and
its prompts fail at any time. Whether a correction steers or queues is a free
choice, here and in `TurnReply`, so the presenter's safe window (delivered text,
tools in flight) is not in the state; a press on Stop is a run that ends. Left out: threads of a direct
message, tool rounds, the driver's ghost-run recovery, the digest.

| Run | Instance | Question |
|---|---|---|
| `SpaceTurns` | 3 messages, channel and direct message, 2 disposals or crashes, refused prompts, failing creations, storage faults, fair | is there one turn at a time, in the order of the queue, is nobody forgotten, and does the queue always move on? |

Three messages are one running turn and two in the queue, whose order can be
wrong. Two ends give a recovery of recovered rows.
Deadlock checking is off: a space with every message dealt with is at rest.

Fairness: a handler that has what it waits for goes on, prompts are made, runs on
a live session end, sessions get created or fail, disposals end. Nothing makes
messages arrive, prompts of a dead session settle, or settlements of one end.
`QueueMovesOn` has one exception, the flag `stalled`: a prompt refused before its
run has no `turn_end`, and unless its request is pending nobody drains the queue
until another message opens a turn.

Proved in `SpaceTurnsProofs`, for any finite set of messages, any bound on ends
and any hazards: `TypeCorrect`, `OneTurnAtATimeHolds`, `ArrivalOrderHolds`,
`NothingForgottenHolds` and `MarkedIsFinalHolds`. The properties help each other
(a drained message had no turn yet because of the order of the queue; the order
after a recovery needs the fresh session to have no turns), so that one invariant
`Inv` holds them all with four facts of its own: who has a turn, a row or a place
in the queue (`TurnsOwned`, `RowsOwned`, `QueueOwned`), ranks only grow
(`RanksBounded`), and sessions to come are empty (`FreshSessions`). `TurnsMoveOn`
is the one lemma about all steps of turns: whatever ends one, drained or not,
preserves `Inv`. Only model-checked: `QueueMovesOn`.

### What people see of a turn

`TurnReply` is `SlackTurnPresenter`, which turns the events of the session into
posts and edits without ever awaiting one: the next event is handled while calls of
the last are under way, and they land in any order, or are refused. `s` is the
presenter, one component per field of the class: `pending` (`pendingTs`, the message
that the turn rewrites), `update` (`#streamUpdate`, the coalesced line or text that
waits for its timer), `opening` (a phrase whose post has not landed), `active` and
`reply` (the request of a top-level direct message and its buffered answer), the
flags of the turn, and the calls under way (`flights`, the flushes; `edits`,
everything else). A method is a function from one such record to the next, so that
a handler is composed of the methods it calls, as in the code; an action applies a
handler to `s`. `shown` is Slack: what each message says now. The session is reduced
to the order of its events (`run`): opened, rounds of messages, progress, failures
and turn ends, and the settlement of prompts, of which a direct message may owe
several (`owed`: a steer's, or that of the turn before).

| Run | Instance | Question |
|---|---|---|
| `TurnReply` | 2 turns or steers, each threaded or not, in a channel or a direct message, 2 rounds, 1 text, 1 trouble (an empty completion, an error, a stop, a refused call, prompt or session), 2 flushes under way, 1 retry, fair | does no line of progress cover an answer, and is what the agent says shown in the end? |

Two turns give a steer, or a turn whose calls outlive it; two rounds a line of
progress after an answer; two flushes the one that a settlement waits for and an
older one (a flush takes longer than the 400 ms between two); one trouble is each
fault against every interleaving. These bounds are for `AnswerShown`, which takes
fairness; `AnswerStays` is proved for all bounds.

Both properties name their exceptions. `raced` marks the messages to which a flush
and a closing text were under way together, without the one waiting for the other:
nothing orders those in the code. `left` marks those that a newer turn or steer took
the presenter from with a line of progress still on its way (section 12). What the
code does order, the settlement of a request behind the newest flush (#365), is not
excused: progress may land ahead of the answer that waits for it (`Awaited`), and not
after it. Nor is anything that was
still waiting in memory when a closing text went out. The message the presenter
still works on (`s.pending`) may go back to progress, as a later round does on
purpose. Deadlock checking is off: the bounds end every behaviour.

`let_go` marks texts that Slack refused for good or that something newer replaced
(`AnswerShown` promises no more than the last word).

Fairness: Slack answers a call, a phrase or a text at the latest when a turn waits
for it, timers fire, turns end and prompts settle (`WF(Progresses)`,
`WF(UpdateDue)`). None for people, for what the agent says, for the clock's tick or
for flushes of mere progress.

Proved in `SpaceTurnsProofs`, which extends `SpaceTurns` and `TurnReply` (their names
do not meet: `ReplySpec`, `direct`, `Corrects`), for any number of turns, rounds,
texts, flights and troubles and any limits of the presenter: `AnswerStaysHolds`. A
handler rewrites the whole record, so the proof goes by
methods and not by actions: each one is shown to `Follow` what it is called with (it
keeps the pending message or turns away from it behind a closing text, with nothing
waiting; it sends progress to no other message), a relation that composes as the
methods do. `Moves` is the same without the closing text, for a newer message, which
may leave a message as it is. `ReplyInv` then says that no line of progress waits for
or flies to a message other than the pending one and the named exceptions, but those
flights that an answer waits for, and that a phrase is posted only while nothing is
pending. The attempt found `left`: two turns, the run's bound, are one too few for
it. Only model-checked: `AnswerShown`.

Left out: `StreamTurnPresenter`, the plan message, the stop control (a stop is a way
for a turn to end), the digest, the outcomes of sources and their summary line
(`Note`), reactions, the audit of latencies, and the bounds on lengths.

## 7. The scheduler

`Scheduler` is the runner of `runner.ts` over `scheduler_jobs` and
`scheduler_invocations`, with people's edits beside it. `life`, `enabled`, `cron`,
`next` and `revision` are columns of a job, `status` that of an invocation. A
scheduled invocation is the pair `<<j, t>>` that the code writes as
`scheduled:<job>:<time>`; `Manuals` are the ids of run-now requests. `pc` is where
`tickScheduler` is: idle between passes, `enqueue` over the jobs it has listed
(`listing`, a copy that people's edits do not reach), `noting` the audit row of a
skipped occurrence, then `claim`, `fire`, `acting`, `acted`, `audited` round and
round until nothing is pending. `first` is `firstTick`. What a tool call has read
and is about to write is `draft[e]`; the read and the UPDATE are two steps, as
both tool processes await between them. `runs`, `fired` and `missed` count what
happened; `overtaken` records the jobs into whose row an edit wrote a time that a
claim, a skip or the clock had overtaken.

Time is in minutes, which is all a cron tells apart, and `NextFire` is any
function to a later minute. The first pass skips what is strictly older than its
own time in milliseconds, so that an occurrence of the same minute is skipped or
claimed, either way. Which pending invocation is claimed next is left open (the
code takes the oldest request). Whether the registry knows an action is a free
choice under `old_rows`. What throws while an occurrence is skipped is caught by
the code and disables the job (`SkipFails`); any other storage fault ends the pass
(`PassFails`). Left out: what actions do (a timed-out one runs on by itself), the
audit rows and authorization of edits, the Slack feedback of a run now. A run-now
id is assumed not to be spelled like an occurrence's (`ManualsAssumption`); the
pattern for such ids would allow it.

| Run | Instance | Question |
|---|---|---|
| `Scheduler` | 1 job, schedules of 1 and 2 minutes, 3 minutes, 1 run-now request, 1 tool call, 2 revisions, 1 crash or storage fault, fair | does nothing run twice, is no occurrence of before the start claimed, does no job get stuck on an occurrence, and do due jobs move on? |
| `Scheduler_edit` | the same without faults | is no write lost? One is (section 12) |

Jobs meet only in the runner's loop, over which the proofs quantify; three minutes
are an occurrence, its successor and a restart between them, and one fault is
enough for a first pass that fails and is retried. Deadlock checking is off: time
is bounded. `NeverWedged` is the heart of it. A claim whose invocation exists is
ignored (`INSERT OR IGNORE`, then `return null`) and leaves the job where it is,
on every pass: if a job ever points at such an occurrence it stops for good.
Claims, skips, restarts and edits never lead there, save for the lost write of
section 12, which `overtaken` marks; `RunsOnce` (its second half), `ClaimsNoBacklog` and
`DueMovesOn` have the same exception. `ClaimsNoBacklog` is about claims: what downtime
passed over gets no invocation. An invocation that an earlier process claimed in time
and left pending, by a death or a failed pass before its turn, is run by the first
pass after the restart, however old it is (section 12).

Fairness: `WF_vars(RunnerStep)`. The chain of passes goes on from the end of each
(`runner.ts` 213-220), actions are cut off by a timeout, and compose restarts the
server. Faults are bounded, people are free to do nothing.

Proved in `SchedulerProofs`, for any jobs, schedules, requests, tool calls, time
and faults: `TypeCorrect`, `RunsOnceHolds`, `NeverWedgedHolds`, `ClaimsNoBacklogHolds`.
`NeverWedged` alone is not inductive. The invariant says of a job without an
overtaken edit that everything claimed, skipped or being skipped lies strictly
before `next` and not in the future (`DealtInv`): a claim or skip advances beyond
the pass's own time, a new schedule starts after now, and an update that keeps the
cron writes back what it read (`DraftsInv`), unchanged unless overtaken.
`MissedInv` keeps missed and claimed apart. For `ClaimsNoBacklog`, `SinceBoot` says that
once the first pass has dealt with its row, or is over, no enabled job is due
since before the start; within that pass a row not yet dealt with still is as it
was listed, or was edited to a time after now. Only model-checked: `DueMovesOn`.

`Invocations` is what the queue of invocations promises, without jobs, times,
passes, edits or clocks: an invocation is asked for once, taken by the one runner,
one at a time, started at most once and never after its audit row, and completed
only with one; what a fault or a death drops is left where it is.
`ImplementsInvocations` proves that `Scheduler` implements it, step by step, with
the invocation in hand (`InHand`) for `held` and the other variables as they are.
It needs `HandInv` (what is in hand is running, and before `fire` was not started)
and one more invariant, `FiredInvariant`: an audited invocation is past pending,
and the one in hand has no audit row before its action is over.
`Invocations` has no step that touches a running invocation which nobody holds, so
`DroppedForGoodHolds` follows from the refinement: no later pass, retry or
restart starts, audits or completes what an earlier one left running. That is at
most once, bought with rows that stay `running` for good. Both formulas are outside the runs' list and were checked
with TLC on the instance of `Scheduler` (1.5 million states) before they were
proved; a claim that also takes up running invocations (`ClaimAbandoned`) breaks
both.

## 8. The approval gate

`Policy` is the algebra of `policy/config.ts`: a policy is what a file or an
overlay parses to, or a refusal of everything (`PolicyError` fails closed), with
the merge of the org's settings over `config.yml`, the merge of a space's overlay
over that, and `DecidePolicyCall`. `ApprovalGate` is every gated tool call
(`gate.ts` and the wrapper in `agent-driver.ts`) together with the router that
asks people. Both wait on one prompt: the gate has a timer of its own, armed
before the router arms its own for the registry's entry. `settings` and `overlay`
are columns, read when a call starts and written at any time; `org` is the policy
of this boot; `pending`, `ticket` and `outcome` are the registry, `prompt` the
message in Slack and `rewriting` the rewrites on their way to it; `failures` is
the bounded memory of confirmed writes that failed, which the next prompt for the
same tool shows in a banner; it decides nothing. As in
section 6, a step runs from one await that leaves the process to the next.

| Run | Instance | Question |
|---|---|---|
| `ApprovalGate` | 2 calls (an exec tool that `config.yml` asks for, a reading tool of an extension that is not on its allowlist), 3 overlays, 2 settings, registry of 1, failure memory of 1, 1 restart, Slack and storage faults, fair | does nothing run without consent, does nothing loosen the file's floor, does the prompt tell the truth, is the registry exact, is every call answered and every prompt closed? |

A registry of one makes the second request evict the first, a memory of one makes
the second failure forget the first. The overlays are a document that loosens one
tool, which must not count, and tightens the other, a text that does not parse, and
none. The settings are an allowlist that adds an extension to the file's, which must
not count either and leaves its call denied, and one that shares nothing with the
file's: it empties the list, and the extension's call is allowed or asked for
(`lifted`, the exception of `NeverLooserThanFloor`). Deadlock checking is off:
answered calls rest.

Fairness: the gate's timer and the router's fire, a rewrite lands or is refused,
and a call whose answer is there goes on. None for clicks, for the post of a
prompt or for the tools.

Proved in `ApprovalGateProofs`, for any calls, policies, settings, overlays,
bounds and restarts: `MergesTighten` (neither merge loosens any decision, unless it
takes the last id out of an allowlist), `TypeCorrect`, `RunsOnlyWithConsentHolds`,
`PromptTellsTheTruthHolds`, `RegistryIsExactHolds`, `NeverLooserThanFloorHolds` and
`OutcomeStaysHolds`. The invariant says that tickets are distinct and below the
next one (`TicketInv`), that an entry is pending exactly while its outcome is open
and its prompt agrees with it (`EntryInv`), which audit rows and clicks a call at
each place has behind it (`CallInv`), and that the policy of the boot is a merge
over the file (`OrgInv`). Only model-checked: `EveryCallIsAnswered`,
`PromptsCloseUp`.

## 9. The delivery

`Delivery` composes the three parties of an approval: the job body that opened a
pull request, appends the marker and polls the trail (`runner`, `verdict`); the
server's announcement, a reaction of the reactive core (`row` is the marker's way
through it, `tries` the failed reactions, `requested` the row that it was
announced); and the clicks (`clicks` are past their guard and about to append,
`rewrites` on their way to Slack). `prompts` are the messages people see and
`resolved` the decisions in the trail. Guard and append are two steps, as the code
awaits between them, so that two people decide at once. So are the wait's read of
the trail and its test of the deadline (`EmptyRead`, then `WaitExpires` or
`PollAgain`): the pages come over the store RPC.

| Run | Instance | Question |
|---|---|---|
| `Delivery` | 1 item, 2 people, 2 attempts, 2 clicks at once, 3 faults, fair | does the first decision count, is nobody asked twice save for an unrecorded post, does an approval deliver that a read finds, and is every marker announced or given up aloud? |

Items meet nowhere. Two people and two clicks give two decisions that contradict
each other, on one prompt or on two; three faults give a post that landed without
its row, its repetition, and a death. `ApprovalDelivers` is about approvals that are
on record while the job sleeps between two reads, or before its first: the next read
finds them, whatever the deadline. One that is recorded while a read is under way may
be missed by it, and is denied when the deadline passes before the read ends. Deadlock
checking is off: a delivered item rests.

Fairness: the job body steps, its deadline passes, a job body that died is
repaired, an announcement is retried. Nobody has to click.

Proved in `DeliveryProofs`, for any items and people, any number of clicks at once,
of reactions and of faults: `TypeCorrect`, `DeliveredOnFirstDecisionHolds` and
`AskedOnceHolds`. Types need that a marker on its way has tries left (`RowInv`). The
first property rests on a verdict being the head of a trail that only grows, and on
an approval being the verdict (`DecisionInv`); the second on the order of check,
post and record: until a marker's prompt is recorded, every earlier prompt of its
item is one that was not recorded (`AskInv`). Only model-checked: `ApprovalDelivers`,
`EveryMarkerIsAnnounced`.

## 10. The review of blocked work

`WorkReview` is the way from a blocked item's card to its continuation: the button
that mints a private link, the redemption that turns the link into a session, the
pages, the form, and the fork that the form or the API makes. `token` and `session`
are the two tables, `csrf` and `cookies` the session's form value and where its
cookie is; `req` is where each request is; `lock` the queue of the in-process lock
of an item; `fork` is how much of a fork is written: row, edge, job.

| Run | Instance | Question |
|---|---|---|
| `WorkReview` | 1 item, 1 person, 1 token, 2 requests at once, 3 forks, 2 readings, 1 fault, fair | is an item continued at most once, does only a member see or continue it, and is every request answered? |

Two requests are the least that can race for one token, form or lock; three forks
are one that is left half-written, its successor and one by the API; two readings
make the first form stale. Leaving the channel is possible between any two steps
(rejoining is not modelled). There is one server process: the lock lives in its
memory. The retry button has its handler here, but nothing presses it (`Routed`):
see section 12. Deadlock checking is off: without requests nothing happens.

Fairness: a request that can go on does.

Proved in `DeliveryProofs`, which extends `Delivery` and `WorkReview` (both are about
the decisions people take on one item, and their names do not meet: `ReviewSpec`,
`Works`, `Visitors`), for any items, people, tokens, requests,
forks, readings and faults: `OneContinuationHolds` and `MembersOnlyHolds`. The
invariant `ReviewInv` says of each request what its place implies (`ReqInv`), that
whoever passed the look at the membership was a member or asked before leaving
(`SeenInv`), that the line before an item's lock is without repetition and only its
head works (`LineInv`), and that a fork being written is in one request's hand, that
of a continuation only while the item has none (`ForkInv`). Only model-checked:
`EveryRequestIsAnswered`. `ReviewTypeOK` documents the types of the state and is no
property of the run.

## 11. The connections of extensions

`Connections` is one connection: its `row` (status, revision and the three
credential ids), the broker's `vault`, the boundary's secret `file` and the
`backup` that a refused activation restores, and the calls of `lifecycle.ts` and
`connect.ts`. `pc` names the step a call takes next, one per store call, vault or
proxy request; `seen` is the row it read before its approval and goes by ever
after; `staged` the credential it made or took up. `hosted` extensions store
through their OAuth server and may have their credential withdrawn there.

| Run | Instance | Question |
|---|---|---|
| `Connections` (on `MCConnections`) | 2 calls, 3 rows and 3 stores in the vault, 4 revisions of the row, 1 fault, hosted or not, fair | does no authority outlive its connection, is none revoked that is in use, does a disconnect leave the boundary clear, and can every phase be retried to its end, save where calls share a credential? |

Two calls are two people, or one person and a call of before the approval; three
credentials are the current one, its replacement and a third that contests it, or
fewer that are stored again. A
fault is a refused revoke or clearing, a lost answer, a dead credential, or the end
of any set of calls. Failures to resolve a secret or to reload the proxy are
unbounded. Four sets of credentials carry the exceptions: `lost` are those a call
let go of unrevoked, `contested` those that two calls had in hand, `restored` those
that a replacement put back into the boundary's file when the row had moved on, and
`again` those that the vault stored again while the row, a call or the boundary had
them; section 12 tells how calls come to do so. The third takes a fourth credential,
more than the run has: the proof found it.

The vault keeps one row per account or namespace and an upload upserts it
(`tests/e2e/auth-broker-leg.test.ts` 178-179 and 212-214, `mcp-oauth.ts` 1209-1211).
`Stored` may therefore answer with a new row, or with any row there is, in whatever
state, which is then enabled. This is more than the code asks for: an update reuses
only the row of its own key, such as the `:r<revision + 1>` that replacements of one
revision share (`lifecycle.ts` 383-386, `connect.ts` 547-550), and the keys are not
told apart here. A new row has a new, greater id, and the id a call gets is that of
the row it wrote: that `pickNewestBrokerEntry` may name a row of somebody else's
upload in between is not modelled. `MaxCreds` bounds both the rows and the stores.
`MCConnections` adds two bounds for the run. `AgainOnlyInHand`, on actions: a row that
is stored again is one the row, a call or the boundary has; any other behaves as a new
row would, and with as many rows as stores a new one is always left. `FewRevisions`,
on states: the row is connected, switched or disconnected at most four times in all,
enough for a connect, two replacements and a disconnect, or a connect and a disconnect
twice over. The proofs need neither.
Upload links and OAuth logins end in `Connect` and `Reconnect`; how their tokens are
redeemed is not in the model. Deadlock checking is off: a connection may rest.

Fairness: a call in hand steps and someone keeps asking for a change that stopped half way and is not always refused
(strong fairness; `PhasesAreRetryable` says that asking again is enough, not that
people do).

Proved in `ConnectionsProofs`, for any calls, credentials and faults: `TypeCorrect`,
`NoStrayAuthorityHolds`, `NeverRevokedUnderfootHolds` and `DisconnectedIsClearHolds`.
The first invariant adds to `NoStrayAuthority` that the row names just the
credentials its status has room for (`RowInv`), and where a call stands tells which
credential it holds and what it read (`CallInv`). Lemma `KeptIsEnough` says that
whoever lets go of a credential must leave it in the row, in a hand or in `lost`. The
other two properties rest on three more (`CredentialsApart`), each on the one before
it: the row's credentials and those in the calls' hands are different ones, save
contested ones and those stored again (`Apart`); hence what a call revokes is not in use (`Unharmed`); and
the boundary holds nothing that only a call knows of and stays clear from the step of
a disconnect that cleared it (`Boundary`). Only model-checked: `PhasesAreRetryable`.

## 12. Where the code and its documents disagree

One has a run whose counterexample TLC prints.

| Run | Says | Does |
|---|---|---|
| `Scheduler_edit` | `db.ts` 2042-2043: another connection that wins after the read makes the UPDATE "return no row, never a lost write" | a claim between the read and the UPDATE advances `next_fire_at` and leaves the revision alone: the UPDATE writes the old time back, the job points at an occurrence that has its invocation, every later claim is ignored, and the job does not fire again until a restart skips the occurrence or its cron is edited |

Further divergences, met while modelling. The models have these states; no run
asks for them.

* Work queue. `README.md` 60-62: "delivered, or blocked with evidence — never
  silently dropped"; if the executor dies with the item at working and comes back
  within 30 minutes, stale recovery sees nothing, the re-claimed job only requeues
  itself until it fails, and the item stays at working. `run-job.ts` 1064-1066 says
  that a crashed job "surfaces as a failed job + a blocked work item", but a child
  that dies before its claim leaves the item open, as open -> blocked is illegal and
  the refusal is only logged; the sweep's failure of an unclaimed job leaves its
  item open too. An empty last message passes review and is refused at done, so that
  the item stays in review although its job is completed (`job-bodies.ts` 336-338
  says work failures "land the item in blocked"). A renewal by the loser of a lease
  succeeds once the job is re-claimed, as `renewWorkerJobLease` asks for `running`
  and not for the owner (`db.ts` 1210-1212 says "a swept/re-claimed job returns 0").
  A death of the server between an item's row and its job leaves an open item that
  no executor will see, and a death of the executor between a job's completion and
  its outbox row a result the server never hears of. Rejected store calls do the
  same without a death. `db.ts` 2335-2337 posts the notification of stale
  work "so a restarted item is never silently stuck", but it follows the committed UPDATE (1382-1411, and the
  loop of `markStaleWorkItems`, 2328-2343): rejected, it is never written, and whoever
  comes next finds the item blocked already. A start whose audit row is rejected is taken for one
  by somebody else: `processItem` returns, the job completes, and the item stays at
  working without a word in the trail. A repair that is rejected is logged
  (`job-bodies.ts` 1141-1143), or, when `failJob` or its audit row throws, given up
  for the executor's catch, which never comes back to the item; it stays at claimed or
  working, which `unstickWorkItem` is there to prevent.
* Reactive core. `single-flight-loop.ts` 10-14: "one bad pass must not kill the
  loop"; the core's tick calls `tail` unwrapped, a storage call that throws there
  rejects the tick, and no pass follows. More than one reaction in flight would skip
  rows (section 4).
* Post seam. `outbox-post-seam.ts` 368-370: a dispatch error "propagates to the
  caller's retry path ... exactly like the generic Slack post branch"; the exception
  ends the pass, and the row and the rest of its batch stay posted and are never
  posted, retried or failed. A lost answer of Slack posts a result twice (section 5).
* Scheduler. `runner.ts` 4-8: "The runner never replays a backlog of actions after
  downtime". No pass claims an occurrence of before the start, but an invocation that
  was claimed before the process died or its pass failed, and was still pending, has
  no such filter (`db.ts` 2251, `runner.ts` 130): the first pass after the restart runs
  it, however long the downtime was.
* Turns. `space-service.ts` 1132-1134: a recovered turn "is NOT re-delivered once its
  drained turn settles ...; a completed turn is never re-delivered"; in a direct
  message a drained turn marks its row only after everything drained behind it is
  over, and a crash in between runs the answered turn again. Line 647 calls a null
  session "unreachable: the mid-dispose pre-check handled it", but a disposal that
  begins while attachments are stored reaches it (`pc[m] = "unreachable"` in
  `SpaceTurns`), and the acknowledged message gets no turn, no row and no audit.
* Presenter. `slack-turn-presenter.ts` 1631-1633: a "stale progress line or a late
  tick must never overwrite what actually landed"; only the settlement of a direct
  message's request waits for a flush under way, and only for the newest. A channel's
  reply does not, and the older line may land over it. A message in a thread turns
  the presenter away from the message it works on (688-693) and leaves a coalesced
  line of progress waiting for that message; the end of the turn sends it, over the
  answer that was streamed there. A steer cancels such a line but not a flush under
  way, to the same effect. A refused interim flush is
  kept over whatever came since and goes out at the end of the turn, also after the
  reply; until then, having no timer, it keeps live progress away, and it takes over
  the next turn's text. A steered turn leaves its message pending when it ends, so
  that the next turn's phrase rewrites the answer with progress, and cancels the
  answer's retries. A phrase that lands after its steer's reply stays as it is. A
  session that cannot be made leaves a direct message's request active, its clock
  ticking on the card. The first prompt to settle, be it a steer's or an older
  turn's, settles the request that is active then, with "Done." if nothing was said
  yet (the comment at 945-946 counts on both prompts resolving on one run).
* Policy. `config.ts` 825: settings and overlays "can only tighten"; an allowlist
  that intersects to nothing means no restriction (`lifted` in `ApprovalGate`), and
  an overlay that takes away an id the registry does not know cures a policy that
  failed closed because of it.
* Approval gate. The nudge comes after 30 minutes by default, the timeout after 5.
  The gate's timer is armed just before the router's: a click between the two leaves
  "Approved" on the prompt of a call that was denied (the exception in
  `PromptTellsTheTruth`). A restart leaves prompts whose buttons do nothing. A call
  runs under the policy it loaded, whatever was written since.
* Delivery. `delivery-poller.ts` 10-11 records the request "so a restart never
  double-posts", and 110-112 reacts "exactly once per item". The record follows the
  post: when the server dies between the two, or Slack's answer or the row is lost,
  the replayed marker posts a second prompt (`again` in `Delivery`). An approval that
  is recorded after the last read of the wait began, but before its deadline, is
  denied as unresolved. A decision recorded after the deadline writes "approved" on the prompt of
  an item that is blocked. A job body that dies between review and done leaves the
  item at review, which the repair accepts as an end.
* Review. `features.md` 31 and 733 promise one "**Retry with context** click on
  the blocked card": the button is drawn (`blocks.ts` 28) and has a handler
  (`index.ts` 449), but the list of actions that `registerActionHandler`
  (`slack.ts` 1057) subscribes to lacks its id, so the click reaches nobody. A fork
  that died between its edge and its job answers "already continued" for ever.
  `continueReview` answers "could not be continued" when only the confirmation could
  not be posted.
* Connections. A new connect after a failed disconnect, or during a replacement,
  writes over the row, and the authority it named is never revoked
  (`features.md` 590-591: "then durably resumes boundary and vault cleanup").
  Transitions ask for the status and not for the revision, so that a call approved
  late clears what another call retires, or settles its disconnect
  (`architecture.md` 612-620: "revision compare-and-swap"). Two replacements
  that stage one credential: the one whose activation fails revokes what the other
  committed. Two replacements of one revision store into one row of the vault; the
  second finds the row replacing already and revokes what it has just stored
  (`lifecycle.ts` 418), which is what the first has switched to, or is about to. A
  login with the account that is connected already replaces a credential by itself and
  retires it. A death after an activation followed by a resume that fails leaves the
  revoked credential's secret in the boundary's file while the row is back at the old
  one; `prepared.rollback()` does nothing after an activation.

## 13. Not modelled

SQLite's own atomicity and durability are taken as given: one statement or
`BEGIN IMMEDIATE` block is one step. Liveness is checked by TLC only, on the
instances above: the provers reason neither about fairness nor about ENABLED. It is
all that is not proved: every invariant and every action or refinement property of
the passing runs has its theorem.

| Part | Why |
|---|---|
| The presenter's stream renderer | `StreamTurnPresenter` opens, appends to and closes a Slack stream per turn; a renderer of its own over the presenter that `TurnReply` models, left for later |
| Agent driver | sessions of an external SDK; what the other models need of it is stated there (section 6), its policy wrapper is in `ApprovalGate`; ghost-run recovery and the digest are left for later |
| Store RPC, scoped store | framing, bounds and timeouts of a socket with one call at a time per child; a call is one atomic step of `WorkQueue` |
| Slack adapter | I/O and formatting of messages; a post succeeds, fails, or fails after it landed in every model that posts |
| Upload and OAuth tokens | each is redeemed by one `DELETE ... RETURNING`, which is atomic as it stands; what redemption leads to is `Connect` and `Reconnect` |
| Ingest | the webhook's replay window and the poll's watermark; the dispatch of polled events is part of `OutboxSeam` |
| Memory | search, extraction and consolidation by an agent; its cadence is a job of the scheduler |
| Workspace lifecycle | checks of paths and markers on the file system by one process |
| Tools, MCP server, catalogues | schemas and dispatch to the stores that the models cover |
| Egress, graph, KB, voice, charts, rendering, prompts, Docker arguments, mounts | generation, formatting or I/O without state of their own |
