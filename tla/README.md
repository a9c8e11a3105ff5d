# A TLA+ model of the Coro runner

Coro runs software development jobs: a workflow of phases, each executed by a
language model agent, that parks for reviews, developer input and rate limits
and is woken by messages, webhooks and timers; a job may be a campaign of child
jobs. This directory holds TLA+ models of the parts of the runner that decide
*when* a job runs, stops, parks and wakes, of the agent sessions in which it
works, of campaigns, of the ways by which
events reach the runner, and of the planning chat that precedes a job, checked
with TLC and, where marked, proved with TLAPS. Paths without
a package are relative to `src/packages/runner/src/`.

## 1. Inventory

| component | state it keeps | operations | hard behaviour |
|---|---|---|---|
| **Dispatcher** `jobs/dispatcher.ts` | `activeJobs`, `eventQueue`, `deferredDispatch`, `activeSessions`, `activeInputQueues` (memory) | dispatch, cancel, pause, resume, interactive toggle, rerun, message, webhook event, `fireAndForget` with its drain | every operation reads the job, awaits, and writes; calls, timers and drains interleave |
| **Runner** `jobs/runner.ts` | its copy of the job (`liveJob`), signals, gate counters | the phase loop of `runJob` | acts on a stale copy; is interrupted by pause and cancel; throws |
| **Job statuses** `jobs/helpers.ts` | none | predicates and patches | every other component decides by them |
| **Rate limit scheduler** `jobs/rate-limit-scheduler.ts` | `timers` (memory) | schedule, cancel, fire, bootstrap | races resume, pause and cancel; lost and rebuilt on restart |
| **Idle watchdog** `jobs/idle-watchdog.ts` | nudges, timers of one phase | nudge, park, backstop | acts by the run's copy while the agent works |
| **Anthropic executor** `packages/llm-anthropic/src/` `executor.ts`, `pushable.ts`, `mcp-heal.ts` | of one session: the input, what is known of the MCP transport, interrupts and heals under way | execute a phase, push, interrupt, heal, end | SDK, agent, steering, watchdog and heals act on one session at the same time |
| **Gates** `jobs/completion-gate.ts`, `jobs/contribution-coverage.ts` | none (the run counts attempts) | evaluate, block, escalate | bounded retries |
| **Decision layer and overseer** `decision/`, `overseer/` | decision records | after a phase, before a resume | real I/O between a check and the write it guards |
| **State backends** `state/sqlite-backend.ts`, `state/cloud-backend.ts`, `cloud/db/postgres-backend.ts` | the job rows | get, update, list | local: atomic with the code around them; cloud: an RPC per call, JSON, missing columns |
| **Cloud link** `state/ws-transport.ts`, `cloud/ws/`, `runner/hybrid-dispatcher.ts` | the socket, pending RPCs (runner); registry and queued events (cloud) | connect, register, send, queue, drain, rpc | each end notices a break by itself; replaced sockets; start-up before anyone listens |
| **Polling transport** `state/polling-transport.ts` | last reading and failures of each pull request, those given up on (memory) | poll, compare, deliver, escalate | a cycle works by rows and readings that change while it awaits; restart forgets all |
| **Campaigns** `tools/campaign.ts`, dispatcher 1145-1608 | `campaignChildren` of the parent row | register, finalise, sweep, child stopped, skip, abandon, rerun, resume, start | concurrent read-modify-write of one list |
| **Intake chat** `intake/`, `state/investigation.ts`, dashboard `plan-session.tsx` | hot sessions, active turns, tombstones (memory); a row; the tabs' transcripts | send, answer, autosave, tool access, open, discard | three copies of a conversation that change independently |
| **Workflows** `workflow-parser.ts`, `tools/workflow-switch.ts` | workflow files | parse, next phase, switch | phase names that no longer exist |
| intelligence, guardrails, plugins, tools, server, desktop, other executors | files, external services | see `PROJECT.json` | little shared state with the above |

**Interactions.** HTTP routes, webhooks (transport) and the scheduler call the
dispatcher. It starts at most one `runJob` per job and learns of the agent's
session through callbacks (`onPhasePrepare`, `onSessionStart`, `onSessionEnd`,
`onRateLimitPark`). Everyone shares the job row. When a run ends, the `finally`
of `fireAndForget` frees the slot and takes the queued events or the deferred
dispatch; for a campaign or a child of one it sweeps the campaign first.
An executor answers with an input, which messages and nudges are pushed to, and a
controller, by which they interrupt the agent and a pause or a park stops it. In
local mode events are made up by the polling transport, in hybrid mode they come
over the cloud link. The chat shares nothing with jobs but the state backend.

**What makes them correct.** One run per job; bookkeeping that agrees with the runs
there are; no event, message or re-dispatch forgotten; none delivered twice; a cancelled
job stays so; a paused job stops; a checkpoint is passed only with approval; a rate
limited job is woken, and only such a job is; every run ends. Children start after what
they depend on and a campaign goes on only with all of them settled, and does go on.
Events of the cloud and comments of reviewers arrive in order and once, a queue or an
awaited merge does not wait for ever. A session hears what it is told, gets its tools
back after each interrupt, and ends when it is done. A discarded chat stays discarded
and a recorded turn recorded. The hazards behind these are listed line by line in
`PROJECT.json`.

## 2. Modules

| module | what it is |
|---|---|
| `JobStatus` | statuses and predicates of `helpers.ts` |
| `JobLifecycle` | one job: dispatcher, runner, scheduler, watchdog, gates, decision layer, backend |
| `NoteDelivery` | abstract: what becomes of a message or an event |
| `JobDelivery` | `JobLifecycle` implements `NoteDelivery`: the refinement mapping |
| `MCLifecycle`, `MCDelivery` | instances for TLC |
| `JobLifecycle_proofs` | types of `JobLifecycle` and the three invariants of the dispatcher's bookkeeping, proved |
| `JobWakes_proofs` | wake-ups, cancels, checkpoints and channels left behind, with the local backend, proved |
| `JobDelivery_proofs` | that `JobLifecycle` implements `NoteDelivery`, with the local backend, proved |
| `Campaign`, `MCCampaign` | a campaign's parent, its children's jobs and the calls that share the list |
| `RunnerLink`, `MCRunnerLink` | sockets, registrations and queued events between the cloud and a team's runners |
| `Polling`, `MCPolling` | the poller, the dispatcher's end of an event, and one job with its pull requests |
| `Intake`, `MCIntake` | one conversation: tabs, hot session, turn in flight, row |
| `PhaseSession`, `MCPhaseSession` | the agent sessions of a job: channel, input, SDK, transport, steering |
| `Campaign_proofs`, `RunnerLink_proofs`, `Polling_proofs`, `Intake_proofs`, `PhaseSession_proofs` | types and the safety properties of these five, proved |

`JobLifecycle` models one job: every map and set of the dispatcher is keyed by
the job's id and none of the handlers modelled touches another entry. The
campaign coordinator does; `Campaign` models it, with the runs of the children
reduced to what `JobLifecycle` promises of them: at most one per job, ending in
one of the statuses. `Polling` reduces the dispatcher in the same way to
the slot, the queue and the drain. `PhaseSession` is the inside of one step of
`JobLifecycle`, the agent's turn, with the start and the end of the session.
`JobLifecycle` keeps of these what other calls can tell apart: a channel that takes
messages before anyone listens, and one that stays behind when the executor throws
before it could report an end. `PhaseSession` has the details.

### JobLifecycle: state

| variable | code |
|---|---|
| `row` | the persisted job: `status`, `phase`, `pendingPrompt` (a set of texts), `awaitingEvent` (its kinds), `awaitingNextPhase`, `approvedAdvanceFromPhase`, `interactive` |
| `active`, `queue`, `deferred` | `activeJobs`, `eventQueue`, `deferredDispatch` |
| `timer` | `RateLimitScheduler.timers` |
| `session`, `inbox` | `activeSessions` with `activeInputQueues`, and what was pushed and not read: `deaf` from `onPhasePrepare` until the executor has wired the channel, and for good if it throws before that; then `open`; `stopping` once its abort signal is set |
| `task` | the asynchronous calls in flight: where each is (`pc`), its copy of the row (`live`), what it carries |
| `sent`, `seen`, `spent` | history, and how much of each bound is used |

### JobLifecycle: steps

Node runs one callback at a time, so the model's atomic step is the code
between two awaits. Which awaits let another call in depends on the backend:

* **Local** (`Hybrid = FALSE`). `sqlite-backend.ts` is synchronous behind its
  promises, so its awaits only yield to microtasks and a call runs on to real
  I/O. `MayStep` says so: a task moves only while the others rest at one of
  `Resting` (preparing a run, building a prompt, waiting for the agent, waiting
  for a decision provider).
* **Cloud** (`Hybrid = TRUE`). `cloud-backend.ts` makes each read and write an
  RPC, so tasks interleave at each one. `JSON.stringify` drops the keys a patch
  sets to `undefined` (`Clear`, `Store`), Postgres has no column for
  `rateLimitInfo` (`Rearmed`) and takes `interactive` from the parameters.

Consecutive reads without a write in between are one read, at the later place:
it sees no less. A row update is one step. Writes of usage and the session id
matter only because they refresh the run's copy; `RecordUsage` is the last of
them before the boundary check.

A run goes `fire → boot → loading → top → prep → status → open → auth → exec →
usage → post → commit → (consult → decide → leave) → top ... fin → drain`, with exits
for parks, gates, exceptions and external stops. `PreparationThrows` is the run that
finds no executor or prompt (`unprepared`, `runner.ts:633`, `676`) or whose executor
finds the credentials wanting (`bootfail`, `executor.ts:779`); only `PhaseEnds`, past
the executor's `try`, closes the session. `EndRun` leaves the run's slot
to the drain; a call that starts a run becomes that run.

The two retry counters, of the completion gate and of the phase-advance gate,
are one (`tries`): a run blocked by one is not in reach of the other before it
is reset. Agents, executors and gates are free choices limited by `Outcomes`.
What a gate or the overseer finds, prompts' wording, session ids, models, token
counts, logs, PR mappings and decision records are left out. Statuses that no
predicate or handler tells apart are one value.

### Campaign

`parent` is the parent's row: phase, status and `campaignChildren`; `jobs` the
children's jobs; `task` the calls in flight, each with its copy of the row. As
in `JobLifecycle` a step is what runs between two awaits, and with SQLite a call
only stops at file work: the copy of the context folder to a child (`copy`) and
the sync back from it (`sync`). Everything that writes the list writes all of it
back from its copy (`Settle`, `Promote`, `Mark`, `Abandon`, `Apply`, ...), which
is where calls could lose each other's changes. The planner registers children
and may call `campaign_finalize` (`Finalize`) in the middle of its turn; when the
turn ends (`PlannerEnds`) the run goes on to coordinating by default
(`runner.ts:1358`), also without that call, after a refused one and with children
registered later, so coordination may begin with any list the planner can leave.
The runs between that advance and the park of the agent-less phase, where other
calls see a parent that still runs, are merged into the one step.
`RunEnds` is the hook in the
drain of `fireAndForget`. `Mishaps` are a context copy that fails, a run that
parks, a run's status that overwrites a cancel, and a restart, which ends every
call where it is. Titles, logs, reports and the contents of the folders are left
out; the cycle check is stated as a condition on the graph.

### RunnerLink

Each end has its own view of a connection: `up` the runner's open socket, `open`
and `closing` the sockets whose close the cloud has not seen, `hello` and
`asked` the frames it has yet to read, `registry` and `queue` its memory, `wire`
what is under way to the runner. `handler` follows the start of a hybrid runner:
connected with no listener, the dispatcher's listener while the rate limit
bootstrap waits for its RPC, all of them. Events carry what became of them
(`fate`). A registration drains the queue onto its socket whatever is listening.

### Polling

A cycle lists the job once (`stopped` is what it then knows of the status) and visits
its pull requests (`todo`); `Answers` stores the reading and queues what changed as
`pending`, which `Delivers`, `ColdStarts` and `Escalates` work off event by event, each
an await at which the run, people, reviewers and a restart come in. `Handles` is
`handlePluginEvent`, and `Wakes` the wake-up by it or by the drain, which a live wake
gate may refuse to comments (`noise`; other events carry no text to judge). A restart
may come between the stamp of a merge and its wake-up. A reference that cannot be
resolved, or whose plugin is missing, is skipped with a warning at every cycle
(`polling-transport.ts:166-182`) and is not modelled: it is never counted as
unreachable, and its job waits until somebody looks. Readings are counts, as in the
code; a comment is its number on its pull request. The interval is dropped: a cycle may
start whenever none is under way.

### Intake

Exchanges are numbers, with whether the tools' results are kept. `tab` is what
each browser tab shows, `live` the hot session, `row` the stored investigation,
`discarded` the tombstone. A request is atomic (SQLite's awaits are microtasks);
only the model's answer is waited for, and the file work of a dispatched run:
`starting` holds the tabs whose `POST /jobs` has made its job and not yet stamped the
investigation (`MarkDispatched`). `Restart` and `Expire` (twelve idle hours)
are the two ways the hot session is lost.

### PhaseSession

`pc` is where the phase attempt is: the credentials are checked (`auth`), a
resumed session has its MCP server attached (`boot`), the event loop runs
(`loop`), the stream has ended and the usage is booked (`done`). `channel` and
`controlled` are the dispatcher's two entries; a channel is `mute` until the
executor has replaced its no-op. `input` and `reader` are the pushable and the
SDK's loop over it; `mcp` is a record of the executor's local variables:
`mcpTransportReady`, `inFlightMcpTool` (`tool`), the heal in flight and the one
queued (`again`), the one a safe steer owes, failures, the debounce (`recent`)
and the closed control stream (`dead`). `calls` are the MCP calls really in
flight, up to two in parallel, where the executor has one slot. Heals,
interrupts and nudges are begun and ended by separate actions, each a promise
that settles by itself; `sendMessage` and `runNudge` run to their first await in
one step. Every session starts with fresh locals, so those of an ended one are
dropped. Abstracted: that events of a call reach the executor some time after the
call; the contents of messages other than which they are; clocks.

Definitions called `...Fault` or `...TooSoon` are slips used only for mutation
runs.

## 3. Runs

Bounds: two slots for calls in flight give every pair of racing calls, since a
call, the run it races and the drain of that run are all tasks; the hybrid run
has three, so that two calls race a run. Two control operations allow
pause-then-resume and cancel-during-pause; one jump or rate limit (`MaxLoops`)
and one restart reach every place those matter, since each can happen at any
step. Two phases with a checkpoint on the first give a boundary and an end; in
`hybrid` the second has no agent. Gates are asked in `liveness`, where they could
keep a run going for ever. The runs share the outcomes and the operations among
them so that each state space can be exhausted. `unprepared` is among the outcomes of
`hybrid` only: in `lifecycle` it would break `RateLimitedJobWakes` (section 5).
`CHECK_DEADLOCK FALSE`: a job may rest parked for ever once the bounds are used.

| run | checks | result |
|---|---|---|
| `lifecycle` | all invariants and action properties of `JobLifecycle`, local, all operations and outcomes, and that it implements `NoteDelivery` | pass |
| `liveness` | queues are drained, rate limits end, runs end, with the overseer and the wake gate letting other calls in | pass |
| `hybrid` | one run per job at every interleaving of RPCs | pass |
| `campaign` | dependency order, no stranded child, integration only when all is settled, whatever list the planner leaves | pass |
| `campaign_liveness` | with a sound list a waiting parent has a reason and coordination moves | pass |
| `link` | order of events, registration of live sockets, the queue is taken | pass |
| `polling` | comments once, awaited merges heard, lost pull requests reported | pass |
| `intake` | discards are final, recorded turns stay | pass |
| `session` | no lost wake-up, no tools blocked for nothing, no heal forgotten; tools come back, steering is read, finished sessions end | pass |
| `pause_defeated`, `offline_dispatch`, `startup_message` | one documented promise each | violated, see section 5 |

The bounds of the other runs. `campaign`: a diamond of three children is the least graph
with a join; two slots give every pair of concurrent calls, five jobs a rerun of each
kind; one child may run at a time, so that sweeps compete for the slot.
`campaign_liveness`: a chain of two, so that a stop must start the next. In both the
planner may leave any part of the graph, so lists that are empty or dangling occur;
cyclic ones need another graph, and are covered by the proofs. `link`: two runners of a
team, two events, one break and restarts of both ends, which reach a replaced socket
whose close comes late, a queue refilled after a drain and a second runner that takes
over. `polling`: two pull requests and a threshold of two failures, so that both can be
given up on in one cycle; two acts of reviewers, one mishap, one restart, and comments
that may be noise; the code's threshold of five only makes the way longer. `intake`: two
tabs, four messages, three requests and two lapses: enough for a tab that is two turns
behind to send after a restart. `session`: one message, since nothing tells two apart;
two calls for the single slot, one nudge to overlap with message and stop, and one
failed heal, after which no more is tried, where the code allows three, which only makes
the way longer. One session is enough, since each starts with fresh locals. The four
invariants were also checked with two sessions and two failed heals (2.2 million
states), and hold for every bound by section 4. `CHECK_DEADLOCK FALSE` throughout: all
these systems may rest.

The properties of `JobLifecycle`:

* `OneRunPerJob`, `ActiveWhileRunning`, `QueuedEventsHaveADrainer`: the dispatcher's
  memory and the runs there are agree. `AbandonedChannelIsUnused`: the channel that a
  failed start leaves behind is never where a message to a job nobody runs would go.
* `RateLimitedJobWakes`, `TimerWakesOnlyRateLimited`: wake-ups are neither lost,
  also over a restart, nor spent on a job that went on without them.
* `CancelledJobGoesNowhere`, `CancelledIdleJobStaysCancelled`: a cancel is
  respected at every boundary, and final when no run is in flight. Of a run that is
  preparing a phase they say nothing: see `CancelledIsTerminal` in section 5.
* `CheckpointNeedsApproval`: an interactive job leaves a checkpoint by itself
  only with the developer's approval, also after a toggle in mid-phase or a jump.
* `NotesAreDeliveredAtMostOnce`: no text reaches agents twice and none comes back
  once dropped.
* `QueueIsDrained`, `RateLimitEnds`, `RunEnds`: liveness.

Of the others:

* `ReadyIsEarned`, `PendingIsBlocked`: with every writer of the list replacing
  all of it, a child becomes `ready` only when its dependencies are met, and in
  coordination none whose are met is left `pending` but by a sweep about to promote it:
  neither an early start nor a child forgotten by a sweep with an older copy.
* `CoordinationEndsSettled`, `WaitingHasAReason`, `CoordinationMoves`: the
  parent neither leaves its children too early nor waits for none. The last two
  suppose a list that is not empty, dangling or cyclic (`Sound`); what happens
  otherwise is in section 5.
* `EventsKeepTheirOrder`, `LiveSocketIsRegistered`, `QueueIsTaken`: queue, socket
  and registry agree however connections break.
* `CommentsAreToldOnce`: a comment reaches the dispatcher at most once and in
  order. `AwaitedMergeIsHeard`, `LostPullRequestIsReported`: a parked job does
  not wait for ever for a merge that has happened or a reference nobody answers
  for. The first wants the job woken or stopped, not just the merge stamped, and leaves
  out what the code does not do: see section 5.
* `DiscardedStaysGone`, `RecordedTurnsStay`: neither a turn in flight nor another tab
  brings back what was said in a discarded conversation, nor do tabs with older
  transcripts replace what the runner recorded.
* `NoLostWakeup`, `SteeringIsRead`, `FinalResultEndsTheSession`: pushes and
  closes reach the SDK wherever its loop is; so a message pushed before the input
  ends is read, and a phase that is done does not hang.
* `BlockedToolsHaveACause`, `ToolsComeBack`, `PutOffHealIsTaken`: interrupts,
  heals, queued heals and owed heals share a flag and a slot, and still neither
  block the agent's tools for good nor leave the transport broken.

**Fairness.** Each task is weakly fair as a whole: an await settles, an agent's
turn ends by `maxTurns` or the watchdog, and a started call goes on. Firing an
armed timer is weakly fair (`setTimeout`). Nothing else is: developers, webhooks,
the watchdog, incidents and restarts (`Surprise`, `Restart`) never have to
happen. `RunEnds` therefore rests on the gate's retry cap and on the bounded
number of jumps: an agent that calls `goto_phase` for ever does run for ever.

In `Campaign` each started call goes on, and the children's runs end (which is
`RunEnds`). In `RunnerLink` a runner that was connected once redials with its timer,
frames sent on a live connection arrive, and a close that one end asked for reaches the
other; connections need not break and nobody need send. In `Polling` the interval timer
starts cycles and the calls of a cycle return, by answer or by error; runs end. People,
reviewers and the provider owe nothing. In `PhaseSession` the SDK's loop over the input
and the executor's and the runner's own steps go on, an interrupt is acked or times out
after five seconds, the calls of a heal return. The check of the credentials, the agent,
its tools and whoever steers owe nothing: the agent may work for ever, and a session
that nobody stops then lasts.

## 4. Proofs

For every value of the constants:

* `JobLifecycle_proofs`, for any number of calls in flight and either backend:
  `TypeCorrect`, `Spec => []TypeOK`, with one lemma per group of actions, each of which
  shows separately that `task` and `row` keep their types; and `OneRun`, `ActiveIsExact`
  and `QueueHasADrainer`. These three share one inductive invariant, `RunsInv`: their
  conjunction, with the fact that an open session has its agent at work, is inductive
  once `TypeOK` is known. `OneRunPerJob` alone is not: that `Fire` finds `active` false
  says nothing unless `active` is tied to the runs. The step is proved by roles:
  `RoleStep` says what a step of one task does to the four facts, and that the other
  tasks stay where they are; each action is shown to be a `RoleStep`, and the invariant
  is proved once from that.
* `JobWakes_proofs`, for any number of calls and the local backend (`Hybrid = FALSE` is
  a hypothesis): `RateLimitWakes`, `TimerWakes` and `CancelledGoesNowhere`, and without
  a decision layer `CancelledIdleStays` and `CheckpointApproval`. The inductive
  invariant `KnowInv` adds to the first of them what each call knows of the row at each
  of its steps (`Knows`): where its copy is the stored row, where the job is known not
  to be terminal, or not rate limited. A call that is not at rest runs on alone, so only
  the call that moves can learn or lose something; `WakeStep` says what its step may do
  to the status, the timer and itself (a wake-up is handed on, or finds a run), and the
  invariant is proved once from that. `RateLimitWakes` also supposes that no run is
  thrown out while it prepares a phase (`"unprepared" \notin Outcomes`).
  `AbandonedChannel` has an invariant of its own, `ChannelInv`: a run past its agent's
  turn has closed its channel, and one that ends without has left the job parked or
  terminal (`Silent`). The conditions are not for convenience: section 5 lists what TLC
  finds without them.
* `JobDelivery_proofs`, for any number of calls and notes and the local backend:
  `DeliveredAtMostOnce`, that `JobLifecycle` implements `NoteDelivery` under the mapping
  of `JobDelivery` (initial states to initial states, each step to a step or a stutter).
  It rests on `NotesInvariant`: a note is in at most one place (the dispatcher's queue,
  an agent's inbox, the prompt, what one call carries, or what agents have seen), and a
  call that is about to write the prompt knows the one that is stored. Without the
  second part the first is not inductive: a call that writes back an older prompt would
  put a note in two places. The proof is again by roles: a `NoteRole` step leaves each
  note where it is (`Stays`), moves it on (`Moved`) or drops it, each action is one, and
  where a note is decides its fate.
* `Campaign_proofs`: `TypeCorrect` for both backends, and for the local one
  (`Hybrid = FALSE` is a hypothesis) `PendingChildrenAreBlocked`,
  `ReadyChildrenEarnedIt` and `CampaignEndsSettled`. The inductive invariant
  `CampaignInv` says what each call knows (`Informed`): a call between its read
  of the parent and its write has the stored row as its copy, and one that is
  past the verdict still has the stored list, with nothing failed in it. A
  call steps only while the others rest (`Alone`), so only the one that moved has
  to be looked at. `ListStep` then leaves four ways for the list to change
  (`Kept`, `Marked`, `Added`, `Renewed`), and the three theorems follow from
  these and from what a reconciliation does (`ReconciledBlocks`). Coordination may
  begin with any list: one that was not reconciled is, until the sweep that follows
  the advance has promoted its children, the exception `Promoting` of the property.
  `ParentHasSomethingToWaitFor` is `WaitingHasAReason` under `Untroubled`: the local
  backend, no cancel of a child's job by a developer, no context copy that fails
  (section 5 says what happens with them). Cancels of the campaign, parks, woken jobs,
  overwritten cancels, restarts and the other operations on children stay allowed, and
  the planner may leave any list: the property speaks while the stored one is `Sound`.
  Its inductive invariant `InOrder` says that the job of a dispatched child runs or is
  parked unless a call is mending the entry (`Fit`, `Mends`); that jobs belong to
  registered children and a coordinating parent does not run itself (`Rested`); what each
  call relies on (`Knows`); and that in coordination of a sound list there is a
  reason to wait or a call that will sweep again (`Owed`, `Owes`). The heart is
  `SomethingIsOut`: a sweep that has nothing to dispatch and nothing to settle has
  found a child that is out, since otherwise each pending child would wait for
  another pending one, and the plan would have a cycle. A call owes its sweep over
  the steps of other calls because they find it at rest, so `InOrderKept` needs to
  look at one call and one child only.
* `RunnerLink_proofs`: `TypeCorrect`, `LiveSocketStays` (inductive once types are
  known) and `EventsInOrder`. The latter needs that the queue is sorted, that
  what is on a wire precedes what is queued, that no event is on two wires and its
  fate says so (`OrderInv`), and that events are queued only while nobody can be reached
  (`QueueInv`), with lemmas on sorted sequences: a drain appends a sorted queue to
  a wire all of whose events precede it.
* `Polling_proofs`: `TypeCorrect`, whose strengthening `Shape` says what the cycle
  holds at each of its steps, and `CommentsInOrder`. Its invariant `ToldInv` ties
  what was told of a pull request to the reading stored and to the events still
  pending: told comments rise and are within that reading, pending ones come after
  them and are within it too.
* `Intake_proofs`: `TypeCorrect`, `DiscardIsFinal` (over autosaves, turns in flight and
  runs dispatched from the conversation) and `RecordedTurnsAreKept`, from one invariant
  `ChatInv`: both properties, and that a discarded conversation has no recorded turns
  left. Neither is inductive alone: a discard removes the row, in which the recorded
  turns have to be.
* `PhaseSession_proofs`: `TypeCorrect`, `ReaderIsWoken`, `BlocksEnd` and
  `HealsAreNotForgotten`. The transport is treated apart from the rest: lemmas say
  what `Heal`, `ClearTool` and `Healed` keep of any transport (`HealKeeps`,
  `ClearToolKeeps`, `HealedKeeps`), and the inductive invariants are three, of the
  input (`StreamOK`), of the transport with the interrupts and calls (`SteerOK`)
  and of the rest (`RestOK`). That the count of failures is bounded needs
  `HealMayFail`: a heal in flight leaves room for its failure, whoever began it.

Assumed: the named assumptions of each module on its constants, and no others.

Only model-checked: all liveness (queues drained, rate limits and runs ended,
coordination, the offline queue, merges, lost pull requests and sessions), which is out of
TLAPS's reach here. Sequences that the models only extend or cut are treated by
lemmas on indices; nothing is proved by induction over data.

## 5. Where the code and its documentation disagree

Each is a run of one property that TLC violates; `PROJECT.json` quotes the lines.

| run | what happens |
|---|---|
| `pause_defeated` | storing usage refreshes the run's copy with the pause, which the boundary check then takes for its own: the paused job advances |
| `offline_dispatch` | a dispatch queued while the team was offline is drained to the next runner before that listens to dispatches, and dropped: the job never starts |
| `startup_message` | the channel is wired only after the credentials were checked: a message sent meanwhile goes to a no-op |

Seen while modelling, without a run of their own. The properties named here are
defined in the modules, and TLC refutes them when a configuration of the runs
above lists them:

* `CancelledIsTerminal`: a cancel made while a phase is prepared is overwritten
  by the phase's status (`runner.ts:713`); a watchdog park by an older copy does
  the same (`idle-watchdog.ts:195`).
* `RateLimitRespectsPause`: a rate limit thrown after a pause turns it into a
  timed wait (`runner.ts:1657` tests only terminal statuses).
* `DeferredDispatchIsConsumed`: a drain with events for a job no longer parked
  returns before the deferred dispatch (`dispatcher.ts:1723`): the job is
  'coding' and nothing runs it.
* `KeptMessageReachesTheAgent`: the second of two messages is cleared with a
  prompt it was not part of (`runner.ts:581`).
* With `Hybrid = TRUE`, `NotesAreDeliveredAtMostOnce` (the consumed prompt is not
  cleared and starts the next phase as well) and `RateLimitedJobWakes` (no timer is
  armed after a restart, since Postgres has no `rateLimitInfo`).
* `RateLimitedJobWakes` fails with `"unprepared"` among the `Outcomes`: a rate limited
  job is dispatched again while its timer is armed, the timer fires during that run and
  is skipped (`rate-limit-scheduler.ts:100`), the run throws before it has stored its
  phase's status (`runner.ts:633`, `676`), and the still stored rate limit is taken for
  a clean park (`runner.ts:1725`): until a restart nobody wakes the job.
* `OneJobPerChild` of `Campaign`: a second sweep while the first copies a child's
  context still finds the child ready and dispatches it again
  (`dispatcher.ts:1411-1461`); the first job goes on unseen.
* With `Hybrid = TRUE`, `PendingIsBlocked`, `ReadyIsEarned` and
  `CoordinationEndsSettled` of `Campaign`: with an RPC between the read and the
  write of the list, two calls lose each other's changes. This is why the
  theorems about them assume the local backend.
* `CancelledCampaignRests`: a sweep in flight parks a cancelled campaign again
  (`dispatcher.ts:1197`).
* `WaitingHasAReason` fails with `"copy"` among the `Mishaps`: a child whose
  context cannot be copied is marked failed after the sweep that would have
  halted on it, and nothing sweeps again (`dispatcher.ts:1429`). It fails with
  `"cancel-job"` among the `Controls` too: `cancelJob` of a child's job that does not
  run tells the parent nothing, and the entry stays dispatched (`dispatcher.ts:204`).
* `EveryCoordinationMoves` of `Campaign`: `campaign_finalize` refuses empty and dangling
  lists, since they would stall in silence (`tools/campaign.ts:230`), but the planner's
  turn may end without `campaign_finalize`, or after it was refused, and the run still
  goes on to coordinating (`runner.ts:1358`). A sweep of an empty list returns at once
  (`dispatcher.ts:1176`), one of a dangling list finds nothing ready; the campaign waits
  for ever and nobody is asked.
* `PutKeepsTurns` of `Intake`, against "a dashboard PUT must not wipe runner
  turns" (`state/investigation.ts:91`): a tool-access change after a restart
  makes an empty session, and the next autosave stores its empty turns over those
  of the row (`intake/persist.ts:76`).
* `DiscardedRowStaysGone` of `Intake`, against "Nothing may persist it again"
  (`intake/session-store.ts:101`): a run dispatched by a tab that still shows a discarded
  conversation stamps the investigation without asking for the tombstone
  (`dispatcher.ts:140`), and the upsert inserts the missing row
  (`sqlite-backend.ts:470`). The row has no turns, which is what `DiscardedStaysGone`
  still promises.
* `MergeIsHeardAfterRestart` of `Polling`, against "Run an immediate poll so any
  already-merged PRs are detected on startup" (`polling-transport.ts:115`): a merge is
  stamped before its wake-up, or queued behind a run that is about to end
  (`dispatcher.ts:743`). If the process dies in between, the wake-up is gone, the
  stamped mapping is not polled while another is open, and the job waits for ever.
* `ReasonIsKept` of `Polling`, against "Leaves an already-stopped job alone"
  (`polling-transport.ts:398`): two pull requests given up on in one cycle
  escalate twice, by the cycle's copy of the row, and the first reason is
  overwritten.
* `LateMessagesAreRead` of `PhaseSession`, against "reopens when pushed after
  close so steering is not dropped" (`llm-anthropic/tests/pushable.test.ts:35`): a
  push after the SDK's reader has returned reopens an input nobody reads.
* `HealingBlocksTools`, against "PreToolUse blocks `mcp__*` while heal runs"
  (`docs/agent-host-spec.md:514`): an interrupt that ends during a heal lets the
  tools through to the transport being rebuilt (`executor.ts:1118`).
* `SteeringSparesTools`, against "avoids aborting in-flight MCP control requests"
  (`docs/agent-host-spec.md:513`): any tool's result clears the one slot for calls
  in flight, and the next message interrupts a parallel MCP call; the watchdog
  also decides before it writes the log and interrupts after it.
* `EndedSessionIsForgotten`, against `onSessionEnd` being "Called exactly once"
  (`plugin-sdk/src/types.ts:1012`): an executor that fails before its `try` never
  reports its end; its channel stays registered, and takes messages, until the
  next phase. A message sent after the job was resumed and before that phase has its
  own channel goes to the dead one and is lost (`dispatcher.ts:904`).
  `AbandonedChannelIsUnused` says that only a job that is being run again is exposed.
* A merge the poller has read before the job awaited it, or one suppressed at a
  cold start, is not told again (`polling-transport.ts:235-270`); a failed
  delivery is not retried, though the log says "will retry next cycle"; a
  comment made before the first reading is never told; an awaited reference
  whose mapping is stamped is not polled while another mapping is open.
* The escalation by a stale row can also stop a job that was resumed or finished
  in the same cycle (`polling-transport.ts:421`).
* `POST /jobs/:id/message` of the cloud answers 503, message dropped, though the
  message was queued (`cloud/routes/jobs.ts:255`). No heartbeat carries a job, so
  `sendToJob` never finds a runner. An RPC retried after a timeout is a second
  call: a job may be created twice, a later patch undone.
* A failed turn and a reload of its tab can make the browser's transcript one
  exchange longer than the session: reconciliation is by count, so an exchange is
  told twice and another not at all (`intake/session-store.ts:231-253`).
* With a decision layer, a pause that lands while the overseer is asked becomes
  the run's copy and does not stop it (`Reconsider`, `CheckAgain`); an approval
  that the pause withdrew is still used. A job cancelled while the wake gate is
  asked about an event is set running again: `CancelledIdleJobStaysCancelled`
  fails with `Decides = TRUE`, and so is checked without.
* `awaitingNextPhase` survives a webhook's wake-up (`Inject`), so a message to
  the job when it is rate limited later counts as a checkpoint approval.
* An agent-less phase whose webhook wakes it
  is entered again and parks again, so the self-update workflow's `tracking`
  phase does not advance by itself.
* `PostgresStateBackend` keeps the stored `workflowPath` on every update, so a
  workflow switch does not persist there.

## 6. Not modelled, and what could come next

* **RPCs as messages.** `JobLifecycle` and `Campaign` take an RPC as one step.
  Retries after a timeout, the read and the write inside one `updateJob` of
  Postgres, and the log buffer are left out; with them rows may go back in time,
  and most promises of `JobLifecycle` with `Hybrid = TRUE` would have to be
  restated first.
* **The watchdog** in detail (idle clock, grace timer), where a cancel is
  overwritten by a stall and the backstop looks for a status the park has
  replaced (`idle-watchdog.ts:102`, `195`); and liveness with
  the cloud backend, whose state space is out of reach of the bounds above.
* **Gates and workflow files** as operators over work items, pull requests and
  phase lists: sequential code, well covered by unit tests.
* **Intelligence overlays, guardrails, self-improvement tools, plugins, other
  executors, HTTP routes, desktop shell and nearly all of the dashboard.** They
  are I/O, data transformation and presentation, hold no protocol state shared
  with the above, and make up most of the repository's lines: the share of the
  lines that the models stand for is small for that reason.
* **Proofs** still to do: what the models promise with the cloud backend beyond
  types and `OneRunPerJob`, once that is restated; and, for the liveness properties,
  the invariants they rest on that are not proved yet.
