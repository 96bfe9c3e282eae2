# Verification of PC-SDK Next

PC-SDK Next is an agent orchestration application: one server process
(`apps/server`), one SQLite database (`packages/db`), provider runtimes driven
as child processes (Claude and Codex), and a browser client (`apps/web`) on one
WebSocket per project. This directory holds TLA+ models of the parts of it whose
correctness depends on the order in which things happen, the TLC runs that check
them on small instances and the TLAPS proofs that carry some of the results to
every instance.

`PROJECT.json` lists the components, the runs, the source lines behind every
definition, the findings, the hazards and the theorems in a form that tools can
read. This file says what they mean.

1. [The system](#1-the-system)
2. [The modules](#2-the-modules)
3. [The runs](#3-the-runs)
4. [Fairness](#4-fairness)
5. [The proofs](#5-the-proofs)
6. [What the work found](#6-what-the-work-found)
7. [What is not modelled](#7-what-is-not-modelled)
8. [Plan](#8-plan)

## 1. The system

The server is one Node process with one thread. Every database call is
synchronous (`better-sqlite3`), so a repository function is atomic with respect
to everything else in the process; what interleaves are the stretches between
two `await`s, timers, socket messages and the callbacks of provider streams. The
process may stop between any two transactions; what survives is the database.

### Components with a module

**Orchestrator session rows** (`packages/db/src/repos/orchestrator-sessions.ts`,
the session transitions of `conversation-queue.ts`, the triggers of
`packages/db/drizzle/0012_*.sql`). State: one row per app session: active or
ended, the native thread it is bound to, the state of its continuation, the id of
its current attempt, a handoff seed and the session it was taken over from.
Operations: replace, close, resume, continue across a model selection, delete
with the project, prepare a create or a resume, confirm a runtime receipt, fail a
resume, clear the seed. Hard: a mint takes seconds, and its receipt may arrive
after the user has switched, handed off or resumed, or after a restart. Correct
means: one active session per project; a row is bound and confirmed only by the
attempt that is current; the seed of a handoff survives until a mint binds; the
triggers, which abort what they take for illegal, never meet a legal call.

**Conversation queue store** (`packages/db/src/repos/conversation-queue.ts`).
State: receipts of client commands, queue items with position, revision and
delivery revision, turns, interrupt requests, and per session the next position
and the queue revision. Operations: send, edit, remove, interrupt, interrupt and
send (a queued or a new message), claim the next turn, settle a turn, fail an
interrupt, recover after a crash, and the session transitions with the
cancellations they carry. Clients retry under the same or a new command id, and
several windows act on one queue. Hard: an interrupt locks the head of the queue
until it is settled; a session switch must not pull a session from under its
turn; duplicates must become one message. Correct means: one turn per session,
first in first out, no lost update, nothing stranded, nothing locked for ever.

**Chat session service and send queue** (`apps/server/src/chat/session-service.ts`,
`send-queue.ts`). State, all of it lost with the process: the drain loop, the
attached runtime, the runtime being disposed, the drivers and watchdogs of
interrupt requests. Operations: kick the loop, claim and deliver, mint or resume a
runtime, read its stream, interrupt it, settle, shut down. It calls the two stores
above, is called by the socket router, the HTTP routes and the boot recovery, and
awaits the provider. Hard: almost all of it. A native interrupt names a session
and not a turn; a mint may be abandoned while it runs; a shutdown may come in any
phase; a kick may arrive while the loop is ending.

**Boot recovery** (`apps/server/src/boot-recovery.ts`, `server.ts`, `index.ts`).
Turns left active are settled as recovered before the listener opens; runs left
active are failed, except the ones that wait for an answer; sealed contracts are
verified, landings, abandonments and teardowns driven again, worktrees reconciled
and swept; then dispatch is attached, paused and exhausted runs are taken up and
the queues are kicked. Hard: each pass meets what any other left half done.

**Durable mailbox** (`packages/db/src/repos/mailbox.ts`,
`packages/app-services/src/mailbox/mailbox-service.ts`). State: delivery rows
with status, lease owner, lease end, due time and attempts; dead letters.
Operations: enqueue, lease, accept, retry, defer, dead-letter, mint the notice of a
dead letter. The worker that calls them is not part of the repository yet. Hard:
no outcome checks that the caller still owns the lease.

**Live outbox, relay and the browser's lists** (`packages/db/src/repos/live-outbox.ts`,
`apps/server/src/resources/relay.ts`, `ws/router.ts`, `ws/hub.ts`, and in
`apps/web/src`: `lib/ws-client.ts`, `state/resource-store.ts`, `state/connection.ts`,
`features/agent-runs`, `features/contracts`). State: the outbox, the relay's cursor, frames
under way, and in the page a persisted cursor, a store of the latest event per
resource and lists read over HTTP. Operations: commit a row, drain, subscribe and
replay, receive, fetch, lose the socket, restart, load the page. Hard: the live
path, the replay and the lists overtake one another, and the cursor follows
whatever comes first. Correct means: once settled, the page shows what the server
has, and what aged out stays out.

**Conversation relay, ask registry, chat projector**
(`packages/db/src/repos/conversation-events.ts`, `apps/server/src/chat/conversation-relay.ts`,
`ask-registry.ts`, `turn-runner.ts`, the adapter's permission handler in
`runner/claude-adapter.ts`, and `apps/web/src/features/chat/chat-reducer.ts`). State: the event
log with its outbox, the permission requests that wait, the runtime's open turn, frames
under way, and in the tab the projection with held frames, cards, turns and tool states.
Operations: append with the closing of open calls, drain and mark, snapshot and replay,
ask, reply, lapse, clear, a turn the runtime starts by itself, the observation of the
context after a turn, and the fold of a frame. Hard: asks are sent outside the outbox; a
frame may come twice, or a replay with it; a card may come before or after the events of
its call. Correct means: the screen is a prefix of the log, a turn ends once, and the cards
are the asks that wait.

**Agent runs, dispatch, pending asks** (`packages/db/src/repos/agent-runs.ts`,
`pending-asks.ts`, `packages/app-services/src/agent-runs/run-gateway.ts`,
`apps/server/src/dispatch/service.ts`, the triggers of `0013_*.sql`). State: run rows with
status, attempt and continuation state, asks, the version and producer of the contract; in
the process the installed runtimes, mints, revivals, calls that answer, continuations and
disposals. Operations: dispatch, mint, receipt, deliver, ask, end of a turn, answer, revive,
kill, wall clock, continue (requested or automatic), shut down, sweep, recover. Hard: almost
every await is one across which a kill, an answer or a shutdown may come. Correct means: one
terminal per run, one answer per question, one runtime per worktree, and somebody
responsible for every active run.

**Contracts, worktrees, landing** (`packages/db/src/repos/contracts.ts`,
`apps/server/src/dispatch/service.ts`, `worktrees.ts`). State: the contract's seal, verdict,
verified base and landing state, the agent branch, directory, registration and row of the
worktree, the target branch, the chain of repository mutations, teardown attempts and
retries. Operations: verify, review, land, abandon, reclaim, retry, sweep, and the boot passes
over each. Hard: Git and the database are two stores with no common transaction, files of
a worktree may be held by other programs, and the target branch belongs to people. Correct
means: only verified work is merged, merged work is recorded, and nothing that is not
merged is deleted.

### Components without one

The repository lease, the admission of a data directory, the owner lifecycle projection
and the acceptance evaluator are core logic that the plan still has to reach. The Codex
adapter and the rest of the Claude adapter are seen through the interface the modules use. MCP,
quotas, CRUD repositories, HTTP routes and screens are listed in `PROJECT.json` with the
reason why they come last or not at all.

How the parts interact: dispatch runs agents through the runtime adapters, keeps their
state in agent runs, contracts and worktrees, guards the repository with the lease,
talks to the orchestrator through the conversation queue (agent envelopes) and the
mailbox, and announces every change through the live outbox. The session service turns the
queue into provider turns and writes what they say to the conversation log.

## 2. The modules

| Module | Models | Builds on |
| --- | --- | --- |
| `OrchestratorSessions` | the session rows, their transitions and the database triggers | |
| `ConversationQueue` | the conversation store | extends `OrchestratorSessions`, and implements it |
| `SessionService` | the process that drives one project's conversation | extends `ConversationQueue`, and implements it |
| `ConversationFeed` | event log, relay, asks, socket and the tab's projector | |
| `Mailbox` | the durable mailbox under several workers | |
| `ResourceFeed` | outbox, relay, socket, page | |
| `RunExchange` | what a run, its questions and its continuations promise | |
| `AgentRuns` | the runs of one contract from dispatch to terminal | implements `RunExchange` |
| `Landing` | verification, landing, abandonment and reclaim of contracts in one repository | |
| `*Proofs` | the theorems about each | the module of that name |
| `MC*` | model values and symmetry for TLC | the module of that name |

The first three are three levels of one system. `SessSpec` says what may happen to
session rows, whoever asks. `Spec` of `ConversationQueue` says what may happen to
the whole conversation database, whoever asks; its steps are the repository's
mutators of conversations, each one transaction. `ServiceSpec` says when the process asks.
Each level implements the one above it with the identity as refinement mapping. That
is how the levels are built and no finding: an action of a level conjoins one of the
level above, or leaves its variables alone. Two lemmas of the proofs say so, and
carry every invariant of the store over to the process.

### OrchestratorSessions

`session` maps an app session to its row; an absent row has not been inserted
yet. Attempt ids, random in the code, count up within their session: the
properties only ask whether two are equal and which came later. A native thread is
named by the mint that created it. `minted` and `attached` are the outside world:
mints handed to a provider, and those whose provider positively attached. A
receipt may be delivered at any later time, any number of times; nothing is ever
taken out of `attached`.

`RowStateConsistent`, `AttemptRotationAllowed`, `FreshAttemptAllowed`, `ReactivationAllowed`,
`ContinuationMoves` and `BindOnceAllowed` are the triggers. They guard nothing in
the model. `TriggersNeverFire` says they need not: no transition that the
repository makes is one that a trigger would abort.

### ConversationQueue

Everything is named by the command that made it: an item by the command that
inserted it, a turn by its item, a request by its command. `command` keeps the receipts
that `priorCommand` looks up, with the input as the fingerprint. A command can be
applied, refused with a stored rejection, or replayed (`Reject`, `Replay`, which
change nothing but the receipt). `drev` is the delivery revision, `link` the request
that locked an item. `Claim` has the guard of `claimNextConversationTurn` with all its
early returns: an active session, no active turn, the FIFO head, and a link whose request is
confirmed. The session transitions are those of the rows together with what the
transaction does to the queue.

Bounds: `MaxRevision` revisions of one message, `MaxRejected` stored rejections,
`MaxAttempt` attempts per session, as many commands as `Command` has.

### SessionService

One project. A step is the synchronous stretch between two awaits. `queue.phase`
says where `deliver` stands: waiting for the disposal of the former runtime,
minting, reading the stream, or in one of the short phases in which a promise has
settled and the code that reacts to it has not run (`Quiet` keeps timers and
messages out while microtasks are due). `running` holds the open stream,
`pending` the native interrupts that may still land, `control` what each
interrupt driver waits for. `Stop` is a crash at any point or the end of a
shutdown; it wipes every process variable and leaves the database. `Recover`, `Boot`
and `EnableQueueDrain` are the boot: recovery, listener, kick.

### Mailbox

A delivery is named by its message and by how many notices deep it is. Clocks are
two booleans per row: `lapsed` (the lease ran out) and `due`; `Lapse` and `ComeDue` are
the passing of time. A worker remembers what it leased; `Crash` makes it forget. The
worker is external: the repository has the store and the service, and nothing that
calls them in a loop.

### ResourceFeed

The rows that concern one page of one project. Since each change of a resource
writes one outbox row in the same transaction, the number of that row stands for
the version of the resource, for the cursor of the frame and for the frame itself.
`store` has the row of the latest event per resource, `seed` the last list adopted
from HTTP, `fetch` the request for the next one. `Drain` sends to a socket as soon as it is
in its room (`Join`), `Open` is the page's `onopen`, which sends the cursor and
makes the run list be fetched again, and `CatchUp` is the server's replay. The two
lists differ as they do in the code: runs are fetched again at every epoch and
carry the high water they were read at, contracts are fetched once. Pruning is left out:
no code of the product calls it.

### ConversationFeed

One session, one tab. `log` is `conversation_events` by sequence, `relayed` how much of it
the outbox has marked; a row is a record of kind, turn, call and state, and the rows one
transaction writes together (send state, user message, session state, activity) are one
`"start"`. `phase` is where `deliver` stands, `open` the adapter's current turn, `asks` the
registry, `cut` turns whose stream a disposal ended and whose runner has yet to read it.
`Publish` is the commit and the drain behind it; a drain that throws has fanned up to a row it did
not mark. `tab` is `ChatState`: `FoldEvent`, `ApplyEvent`, `ApplySnapshot` and `ApplyAsks` are the
reducer, case by case, and `broken` its conflict flag. One action is one task of an
event loop, with the microtasks it causes; a turn the runtime starts by itself may begin between
any two of them. The log of a legacy conversation begins with rows the replay hides.

### RunExchange and AgentRuns

`RunExchange` is the promise: a run is absent, working, waiting or ended; a question is
open, answered or withdrawn; an answer and the resumption of its run are one step; an ended
run has at most one living continuation. `AgentRuns` maps rows to it with `X`: `Phase` of a row,
`Question` of an ask.

`row`, `ask` and `contract` are the database. `live` is the map of installed runtimes, `task` and
`revival` what a start or a revival waits for, `answering` and `continuing` the calls in flight
with what they captured before their await, `retiring` the disposals, `post` the
follow-up of a terminal, `server` the phase of the process with the lists its recovery
works through. Actions are named for the code they are: `StartPrepares`, `MintResolves`,
`Receipt`, `TurnEnds`, `DoorCloses`, `AnswerSent`, `RevivalMinted`, `ContinueInserts`, `RecoverAgentRun`.
One that starts in the middle of a handler re-reads what the code re-reads there.
`DisposeAll` is the shutdown, `Crash` the end of the process, also halfway through an answer
(`CrashAfterAnswer`). The triggers of migration 0013 are `RowStepAllowed`: `RowConsistent` for the row as it is
after an update, `RowMoveAllowed` for what changed; they guard nothing. A tool call (`ToolCall`: a question, a delivery)
comes only after the receipt of its runtime. Both adapters yield the receipt first and end a stream that
speaks before it (`claude-adapter.ts:982`), and the row needs it: a question asked by an unconfirmed runtime would be
rolled back by the consistency trigger, as the mutant `ToolCallUnconfirmed` shows.

### Landing

A repository with a target branch (`head`, and the `merges` among its commits), and one contract
per agent branch. Commits of a branch are numbered. `contract` has the seal, the verdict with
the seal it judged, the verified base and the landing state; `exact` holds the readers whose
snapshot is still the row, which is what the code's version comparison tells them. `queue` is the
chain of repository mutations and `step` where its head stands; `attempt` and `retry` are the
teardown attempts and timers, `task` the producer's post-terminal work, `decision` a review call in
flight; `stage` and `todo` are the boot passes. `AgentCommits`, `OutsideCommit`, `StrayCommit`, `Hold` and
`LetGo` are people and other programs. `MaxFaults` counts killed runs, refused leases and failing Git
calls, reads included: a seal that cannot be read is not compared, an ancestry that cannot be read answers "not
landed", a target that cannot be read parks the landing. `Reviewable` has no condition on the boot: the review route
is open as soon as the server listens. `Ahead` is the count from the stored base that `probeAlreadyLanded`
asks for, so a branch the target held before its base was verified is not recognised as landed.

Taken together: the last two Git commands of `landBranch`; merge-ready, verifying, conflict and
the other parks of the lifecycle label as `"parked"`, tearing-down as `"merged"`. Independent review and its
checkouts are left out, and so is the check of base against branch at provisioning. A commit of others on the
target also stands for the landing of another contract, and a recovery pass takes its time over one contract because it
awaits those listed before it (`Handle`).

## 3. The runs

State counts are those of a complete search.

| Run | Instance | States | Asks |
| --- | --- | --- | --- |
| `store` | 2 sessions, 3 commands, 2 clients, 3 attempts, 2 revisions, 1 stored rejection, together at most a budget of 6 | 288,460 | queue and session transitions in every order; triggers |
| `service` | 1 session, 3 commands, 2 clients, 3 attempts, 2 revisions, 1 stored rejection, 1 stop | 273,079 | interrupts, watchdogs, mints, runtimes, crash; the order, the identity and the revisions of messages |
| `service_live` | 1 session, 2 commands, 1 stored rejection, 1 stop | 13,638 | liveness with providers that hang, and with providers that answer |
| `conversation_feed` | 2 claimed turns, 1 of the runtime's own, 1 call, 1 migrated row, 1 fault | 207,521 | the screen, the cards, the turns, and that the tab catches up |
| `mailbox` | 2 messages, 2 workers, 3 attempts | 6,981 | leases, crashes, dead letters |
| `resource_feed` | 1 run, 1 contract, 2 rows, 2 breaks, 1 failure | 280,119 | the run list of a page, and that every change reaches it |
| `agent_runs` | 2 runs, 2 asks, 2 callers, 3 attempts, 1 automatic continuation, 1 restart | 216,122 | rows, asks and runtimes; triggers; refinement of `RunExchange` |
| `agent_runs_live` | 2 runs, 1 ask, 1 caller, 1 restart | 59,227 | that runs end or wait, and exhausted ones are continued or reported |
| `landing` | 1 contract, 1 commit of it, 1 commit or held directory of others, 1 fault, 1 stop | 245,579 | what is merged, recorded, deleted and written; that landed work is reclaimed and reservations settle |
| `early_answer`, `lease_reclaim`, `pending_landing` | | | violations, section 6 |

What they show:

- **One conversation, whatever the order.** `OneActiveSession` and `TurnKeepsItsSession`: the unique
  index that would abort a transaction is never reached, and a turn never loses its session,
  although the user's session commands and the drain loop race. `TriggersNeverFire`: no
  legal sequence of calls meets a trigger.
- **Nothing is delivered twice, out of order, or never.** `FifoDelivery`, `NoLostUpdate`,
  `OneItemPerClientMessage` and `NothingStranded`: across edits from two windows, retries, removals,
  failed turns and interrupts. `ActiveTurnIsDriven` says that somebody in the process is responsible for
  every active turn; `QueueDrains` and `InterruptSettles` are the liveness.
- **Late events hit nobody else.** `InterruptHitsItsTarget`: a turn is only sent to
  a runtime on which no interrupt of an earlier turn is still under way. `RuntimeIsCurrent` and
  `OneRuntime` say the same of receipts and runtimes. `ConfirmedByItsInterrupt`: the abort that a shutdown, a
  quarantine or a restart yields never becomes the receipt of an interrupt.
- **A tab shows the log.** `ScreenFollowsTheLog`: after any number of drains that failed halfway, replays and
  repeated frames the tab shows the state that a prefix of the log leaves, with nothing held behind
  a gap and no conflict. `CardsAreTheOpenAsks` holds although asks travel outside the outbox, unless a
  drain failed (the exception is real, section 6). `TurnsEndOnce` counts ends per turn.
  `ContextConflictNeedsAnOverlap` says what costs the tab its context projection, and the only thing that does.
- **A run ends once and answers to one.** `ImplementsRunExchange` with kills, wall clocks, two callers that
  answer, revivals and restarts between any two awaits; `PausedWithItsAsk`, `ActiveRunIsDriven`,
  `OneRuntimePerWorktree` (until the first restart, which is all the code gives, section 6).
- **Only verified work lands, and none is lost.** `MergesVerifiedWork`, `MergedWorkIsRecorded`,
  `WorkIsNeverLost`, `WorktreeIsHeld`, `ReceiptIsFinal`, with the boot driving half-done operations again, verdicts
  before it has ended and Git reads that fail. The first two say what the code gives: what is merged was judged at its
  seal on the base it lands on, and had passed unless another writer took the row from the landing, which then gets
  no receipt; merged work is never abandoned or back at the start, but may be parked as stale until a later verdict.
- **Retried work is not redone.** `AttemptIsExclusive` holds of the mailbox although no outcome checks
  its lease, for one reason: an expired lease is not reclaimable (section 6). The mutant
  `LeasableOnceLapsed`, which makes it so, violates it; whoever repairs the one must add the other check.
- **A page agrees with the server.** `RunsConverge` does not rest on the replay: a live frame received
  before the catch-up moves the cursor past rows the page never saw, and it is the list fetched at
  every epoch that makes up for it.

Every property of a passing run has a mutant in `PROJECT.json`: a definition changed
the way a bug would change it (`LateInterrupts` to `NoLateInterrupts`, `HighWater` to `VisibleRows`,
`Swept` to `SweptOnceRunning`), under which TLC finds the property violated. The mutants stand before the
definitions they change. Invariants that hold because of the shape of a row, or that only
serve a proof, are theorems and not runs: the types of every module, `OneTurnPerSession`, `InterruptsAreSingle`,
`ConfirmedByCurrentAttempt`, `ThreadProvenance`, `RequestIsWatched`, `RuntimeSpeaksForItsRow`,
`CompletedMeansReclaimed`, `SettledStays`, and three that the runs' properties rest on: `LockedHeadIsReleasable`,
`CallsMoveLegally` and `AsksAreTheWaitingCalls`.

### Why the bounds are enough

The hazards need few actors. Two sessions give a switch and a handoff; an attempt
is abandoned by the next, and a third lets the receipt of either arrive
later. Three commands are a running turn, a message behind it and an interrupt. The store run takes these
extremes by a state constraint, `Budget`: commands used, sessions used and the attempts of either
session add up to at most 6, so three commands meet one session, two commands two sessions, and three attempts
two sessions with one command. Two clients of
which one is the repeated one make a duplicate, two revisions a conflict. One stop is a
shutdown or a crash in any phase with a full recovery after it; after a boot the process is in
its initial state and only the database differs, whose reachable states the store run covers
whatever happened before. Two workers make a lease race, three attempts a retry
that is not the last. Two breaks (lost socket, restart, page load) are a socket lost again while
the page recovers from the first. Two claimed turns and one of the runtime's own are a turn
refused because the runtime is busy, and an observation with a turn in front of or behind
it; a frame that is late by one task is enough to meet a replay. Two runs are a run and its
continuation, two asks a question after a revival, two callers a race for one answer. One contract is what each
door of `Landing` compares and writes; others are represented by what they do to the target
and the chain. The agent's commit is what is sealed; a commit of others on the branch is what comes after the seal.

Symmetry is used for sessions, commands, clients, texts, messages, workers, runs' asks and callers in runs
without liveness; the models compare them for equality only. `CHECK_DEADLOCK FALSE` is
set where the system may rest: all commands used up, all messages settled, all rows
shown, every run ended.

## 4. Fairness

- `ProcessFairness` (run `service_live`): microtasks of the drain loop run, drivers and
  watchdog timers fire (`setTimeout` in the session service), a shutdown that has
  begun ends, a server that is down is booted again and recovers. Nothing is assumed
  of providers: they may hang for ever. The code sets the timer before it issues
  an interrupt.
- `ProviderFairness` (the premise of `QueueDrains`, same run): mints settle, disposals
  resolve and streams end. The code has no timeout around a turn, and cannot have
  one: a turn may legitimately take hours. So a queue drains only if its provider
  ends its streams, and the property says so.
- `LiveSpec` of `ResourceFeed` (run `resource_feed`): the 250 ms drain timer fires
  (`server.ts:217`), a closed socket is opened again (`scheduleReconnect`), frames arrive unless
  their socket dies, and a request is answered or fails. Losing the socket, failing, restarting and
  committing are never forced; a failed list counts as an outcome because the page
  says so and offers `retry`.
- `Fairness` of `ConversationFeed`: the same timer, frames and socket, a stopped server is started again, a disposed
  turn is read, and an ask that nobody answers lapses (its watchdog is a timer). Nobody has to send, to answer
  or to work. The fairness of frames is stated on `Arrives`, the step that takes one from the channel, because
  TLC cannot evaluate ENABLED of the fold behind it in reasonable time; only `Deliver` takes that step.
- `Fairness` of `AgentRuns`: the boot runs, a shutdown ends, the wall clock of an installed runtime fires, disposals,
  reports and the preflight of a continuation return, and so do the doors of an ending turn and the calls that
  answer. Nobody has to dispatch, answer or kill; a provider may stay silent in a turn, and the preflight and the mint of
  a start or a revival may hang for ever: the code awaits them without a timeout (`service.ts:1724`, `:1811`) and arms the wall
  clock at the install (`:1869`), so `RunsEndOrWait` speaks of runs whose start has resolved.
- `Fairness` of `Landing`: the chain goes on, recovery passes run, the janitor's interval and the retry timers fire,
  files are let go of. `SF` only for a recovery pass, which waits for the attempts it began while timers
  may start others. `ReservationSettles` and `LandedIsReclaimed` except histories with a fault: a landing whose
  boot re-drive is refused a lease waits for the next restart. `ReservationSettles` excepts a verdict that was written
  over the reservation, too (section 6). `LandedIsReclaimed` also excepts a branch that
  moved after its merge.

Except for that pass all of it is weak fairness.

## 5. The proofs

Each theorem holds for every value of the constants that meets the module's
assumption. The assumptions say that the bounds are natural numbers (at least one
attempt and one revision; two for the sessions' attempts, since a resume follows a
create), that `None` and `NoRun` are none of the ids, that the commands, attempts and calls a bounded model draws
from are finitely many, that claimed and unsolicited turns are different turns, that `None` is no state of a
call, and that runs are not contracts.

**OrchestratorSessionsProofs.** `SessTypeOK` is inductive only with what the
code maintains between its rows: an active row has an attempt, a row's thread was
issued to its own mint or its source's, and mints are never newer than the current attempt.
From it: `SessionTypes`, `ActiveSessionIsUnique`, `ThreadsHaveProvenance`,
`ConfirmationsAreCurrent`, `HandoffSeedIsKept`, `EndedRowsAreFrozen` and `TriggersAreSilent`,
which is every property of the module.

**ConversationQueueProofs.** The lemma `StoreImplementsRows` carries the invariants of the rows over:
each mutator is built from a row transition or leaves the rows alone. `QueueTypes`, `OneTurnPerSession` and
`FreshUnused` (nothing lives under a command id that was never used) are inductive
together: a settlement keeps the type of an item because its turn is active, an
insertion because its id is unused. On it stand `TurnsKeepTheirSession` and
`NothingIsStranded` (queued messages; with `SessionOK` of the rows for the active session), then
`InterruptsStaySingle`.
What a step may do to the messages is one lemma, `StepEvolves`: it inserts one message at the next
position of its session, or delivers the head, or edits, cancels and ends messages where they are. From it
follow the properties about the order and the identity of messages. `OneItemPerClientMessage` is
inductive by itself. `OrderOK` adds that a position is below the head counter of its session and
belongs to one message, which makes a delivery in order for good. `UpdatesOK` adds, for every
update that was acknowledged, that the message has a higher revision now and that a removed message never
waits again. `LockedHeadIsReleasable` is inductive together with the requests and the order: a command
locks the head only; a message that stays queued stays at the head, since others only leave or come last; and what ends
a request without confirming it takes its message out of the queue. Hence `ClientMessagesAreSingle`, `DeliveryIsFifo`, `UpdatesAreNotLost` and
`LocksAreReleasable`.

**SessionServiceProofs.** By the lemma `ServiceImplementsStore` all of the above holds while the process
runs: its steps are built from steps of the store, or leave it alone. `Driven` says
which turn the loop has in hand in each phase, including a shutdown, where
`ActiveTurnIsDriven` says nothing; `Halted` says that nothing runs before the boot. From
these: `ServiceTypes`, `TurnsAreDriven`, `RuntimesAreSingle`, `RequestsAreWatched`.
`RuntimeIsCurrent` needs `Minting` (nothing is attached while the loop acquires or mints) and `KeepsAttempts`: no command,
claim, settlement, interrupt or receipt changes the status or the attempt of a row, and what does detaches the
runtime first. Hence `RuntimesAreCurrent`. `InterruptHitsItsTarget` needs the chain from a native call back to the turn:
`Streams` (a stream belongs to the turn in hand), `PendingInterrupts` and `Aimed`. An interrupt under way to the attached
runtime has a driver, its driver has an open request, and the target of an open request is the active turn, which is the
one in hand; any other is under way to a runtime that is being disposed. TLC checked `Aimed` on the instance of
`service` before it was proved. Hence `InterruptsHitTheirTargets`.

**MailboxProofs.** `MailboxInv` adds to the types that a lease has exactly the
worker that holds it, and that an unsettled delivery has attempts left. Both
properties of the run are proved, and that settled deliveries stay as they are.

**ResourceFeedProofs.** The heart is `Accounted`: every row a list does not cover is
still to be drained, on the wire, or in the store. It holds of every list that was
asked for after the socket opened, since the socket is in its room before it opens.
With `Versioned` (a version is the row of the last change) and `Truthful` (a list
answers for every run whose last change it was read after) it gives `FeedTypes`,
`RunsAlwaysConverge` and `AgedOutRunsStayGone`. The replay appears in the proof only as
frames that do no harm.

**AgentRunsProofs.** `RunsInv` relates each run's row to the one thing in the process that may
act for it. Its conjuncts: the types; `RunOK` (start, revival, installed runtime, disposal and follow-up agree
with the row and with each other); `PausedOK` and `AskOK` (a paused run has exactly one open
question); `AnswerOK` and `ContinueOK` (what a call captured before its await, against the row it
will read again); `BootOK` and `ResumeOK` (what the recovery lists still hold is what the sweep left);
`FirstProcessOK` (before the first restart runtimes exclude each other through the quiescence
check); and `ConsistentInv`, inductive on top of these: every row is one the consistency trigger
admits, because an installed runtime that calls a tool has confirmed its row. From it: `RunTypes`, `PausedRunHasItsAsk`, `RuntimesSpeakForTheirRows`, `ActiveRunsAreDriven`,
`OneRuntimeBeforeRestart`, `RowTriggersNeverFire`, and the refinement `RunsImplementExchange`: the initial
state maps to the initial state, and every action to an exchange step or a stutter.

**LandingProofs.** After the types, `LandingInv`: `DownOK` (nothing runs in a stopped process), `QueueOK`
(what the mutation at the head found still holds at each of its steps), `MergesOK`, and for each contract
`TaskOK`, `LiveOK`, `RowOK`, `HeadOK`, `ReclaimOK`, `LandedOK`, `TreeOK`. One lemma per action, each split into the
contract the action is about and the frame for the others. A verdict may come while recovery still runs, so a
mutation may lose its row in the middle: what `QueueOK` and `HeadOK` say of the verdict they say of a mutation that still
owns its row (`Owns`), and what a merge needs without it, that the row was judged at its seal, is in `RowOK`. TLC checked
`LandingInv` on the instance of `landing` and on one with two commits and two acts of others (2,195,295 states)
before it was proved. From it: `LandingInvariant`,
`OnlyVerifiedWorkMerges`, `MergedWorkIsAlwaysRecorded`, `WorkSurvivesCleanup`, `WorktreeStays`,
`CompletionIsReclaimed`, `ReceiptsAreFinal`.
**ConversationFeedProofs.** `FeedInv` is the types, `ServerOK` (which phases have a runtime, and whose turn is open in it)
and `History`: for every turn, what its rows in the log say, where `Live` names the turns under way and `lost` those the
end of a process cut off. It stands on lemmas about the operators of the model: that `SetToSeq` lists a finite set, each
element once; that `SelectLastInSeq` finds the last row of a call; that the closings of a turn settle every call it left
open. With it `FeedTypesHold` and `TurnsAreClosedOnce`.

`CallInv`, inductive together with `FeedInv`, is about the calls: each row of a call follows the row before it as
`toolStateTransitionError` demands, an ask waits exactly while the last row of its call says so and its turn is open, and a
turn that is still waiting for its runtime has no call. The rows a step appends are shown to be legal once (`LegalNext`) and
the steps then differ only in which call they move: `EndsKeepCalls`, `PlainKeepsCalls` and `MoveKeepsCalls`. With
it `CallsAlwaysMoveLegally` (`CallsMoveLegally`: the check in the commit never rejects a row, not even one the boot
writes) and `AsksAreAlwaysWaiting` (`AsksAreTheWaitingCalls`). These two are the server's half of what a tab
shows.

Three more invariants carry the tab's half, each inductive together with the ones before it. TLC checked all of them as
invariants, on the instance of `conversation_feed` and on a million states of one with two calls, before they were proved.

- `LogInv`, about the rows: each is formed as its kind demands; the rows of claimed turns do not interleave (`Serial`); the
  context of a turn is observed at most once, behind its start and its end (`ContextOnce`); a hidden row is one the
  migration left, which the relay is past (`Visible`). `Current` ties the turn at hand to the log, which
  is what makes the next row keep all this. `TurnsAreClosed` reads off `History` and `CallInv` what the tab needs:
  nothing but its trailing rows follows the end of a turn, and its calls are settled by then.
- `Fits` says of a tab that it shows the first n rows of a log: `Shows` (nothing held, no conflict, every call in the state
  of its last row, exactly the ended turns), `Projects` (what the context projection knows, or that two turns
  overlapped) and `CardsFit`. `FitsStep` is the induction step of the fold, one lemma per kind of row before it; and since
  the invariant is about the state of the tab and not about the fold as a whole, the induction over the log
  that a replay needs is one over a number, with `FoldExists` for the recursive function (`ReplayFits`).
- `ChannelInv`: a tab that is live fits the rows up to `through`; with `Base` for that row, or for the high water of the
  snapshot that is still ahead, every row from `Base` to what the relay has marked is under way, and no frame is ahead of a
  row it follows (`EventsOK`, `Covers`). A drain that fails halfway sends rows again; it leaves no gap, since
  it marks a row only behind its frame. So `ApplyEvent` never holds a frame, and the duplicates are ignored. Hence
  `ScreensFollowTheLog` (`ScreenFollowsTheLog`) and `ContextConflictsAreOverlaps` (`ContextConflictNeedsAnOverlap`).
- `CardsInv`: where each card is. An ask that waits was made at the last row of its call, and nothing disturbed its turn
  since (`AsksOK`); a snapshot lists asks of which that was true at its high water (`SnapshotOK`); an ask
  frame stands behind the rows up to its ask, and is never behind a row that follows it (`AsksInOrder`). A card on the
  screen, in a snapshot or under way has an ask that waits or a row ahead that clears it (`PendingOK`); and, unless a drain
  failed, an ask that waits is in one of these places, with its rows ahead of it (`CardsShown`). Of the steps, only
  how they send matters: `Steps` reduces `Next` to rows that are sent with an ask or without one, a few that nobody outside the
  server sees, and what happens to sockets. Hence `CardsAreAlwaysTheOpenAsks` (`CardsAreTheOpenAsks`).

For these proofs the replay is a recursive function over row numbers (`FoldRows`), and the asks of a snapshot are
applied as a set (`ApplyAsks`): the code applies them one after another, and none looks at another's card.

**Out of the prover's reach.** Liveness under fairness and anything about ENABLED
(`QueueDrains`, `InterruptSettles`, `RunsAreShown`, `FeedCatchesUp`, `ExhaustedIsHandled`, `RunsEndOrWait`,
`LandedIsReclaimed`, `ReservationSettles`) stay with TLC. No module has a RECURSIVE operator.
What is left to TLC alone is the liveness. Every invariant and every action property of a passing run is stated by a
theorem.

## 6. What the work found

Three statements of the repository are refuted by a run:

- **An answer can fail its run** (`early_answer`). The ask tool tells the specialist that the answer arrives
  as its next message (`http/agent-runs.ts:519`), and `dispatch/service.ts:2468` calls the answer an atomic flip and
  resumption. The flip commits first and the message is sent after; while the turn that asked has not ended,
  the adapter refuses it, and the run is failed with its question answered.
- **An expired lease is not reclaimable** (`lease_reclaim`). The header of `mailbox.ts` and
  the comment above `acquireDeliveryLease` promise that a later pass takes it over. Acquiring
  sets the status to `leased`, and both the acquisition and the list of due deliveries
  ask for `pending` or `retrying`. A worker that dies under its lease strands the
  delivery. The test of the promise sets the row back to `retrying` by hand.
- **A re-drive can leave its landing pending** (`pending_landing`). The comment above `listContractsPendingLanding`
  (`contracts.ts:648`) says that an interrupted landing converges when it is driven again at boot. The review route is open
  during recovery (`service.ts:3362` says so), and the sealed pass walks a list it read before it awaited the
  contracts in front. If the orchestrator accepts a contract of that list first, the verification of its failed run
  writes `failed` over the reservation (`service.ts:3403` spares landed contracts only), the landing loses its receipt,
  perhaps after its merge, and the re-drive refuses the contract because its verdict is not `passed`. Review,
  continuation and abandonment refuse a pending contract, so no door is left. A completed run can meet the same with a
  verdict other than passed (`service.ts:3384`).

Others were met on the way and are kept here with the definition or the trace that shows them; no
run is spent on them.

- *Two runtimes in one worktree after a restart* (`WorktreeIsOwnedByOneRun` in `AgentRuns`). One run owns one
  worktree (`docs/worktree-lifecycle.md:378`, `docs/master-plan.md:83`). Quiescence is asked of process memory
  (`service.ts:1492`). A run fails, its continuation fails, the second continuation pauses with a question, the server
  restarts, and the first continuation is continued again before the paused one is revived.
- *The contract list goes stale* (`ContractsConverge` in `ResourceFeed`). It is fetched when the page mounts
  and not when the socket opens (`use-project-contracts.ts:33`), unlike the run list it says it mirrors and unlike what
  `connection.ts:20` promises of such lists. A contract that changes between the answer and the first socket of a page
  without a cursor stays as it was until another change of it, or a reload.
- *The row of landed work can go before its branch* (`RowOutlivesBranch` in `Landing`).
  `docs/worktree-lifecycle.md:456-464` says that recovery destroys the row only once the ref is gone, and the reclaim
  does (`worktrees.ts:2303-2312`); the orphan sweep (`worktrees.ts:2539-2555`) destroys the row of a directory it deletes
  without looking at the branch. With a killed run and a stop before the retry, `contracts.ts:665` no longer lists
  the contract and the branch is never deleted.
- *A dead letter can be silent.* The notice of a dead letter is itself a delivery that can be dead-lettered, and a
  notice gets no notice (`mailbox-service.ts:338`, `:309`), though the comment at `:298` counts on its being accepted at once.
- *A pruned outbox replays nothing.* The gap test compares the cursor with the oldest surviving row; when there is
  none, a client with an old cursor gets an empty replay instead of a reset (`live-outbox.ts:111`, `:244`). Nothing
  prunes yet.
- *A runtime's own turn costs the tab its context projection.* A native message after a turn's terminal and before its
  context observation opens an unsolicited turn; the observation then meets another turn's evidence and the
  projection is conflicted for good, also after a replay. `ContextConflictNeedsAnOverlap` says that nothing else does.
- *A claimed turn can meet an unsolicited one.* `sendTurn` then throws, the claimed turn fails and the runtime is
  quarantined, although the comment at `session-service.ts:1850` calls a second exclusion redundant. Only a
  native `result` closes such a turn, any native system message opens one.
- *An unsolicited turn that the end of the process cuts off has no terminal.* Boot recovery settles rows of
  `conversation_turns`, which such a turn does not have; its open calls stay open in every replay, against
  `docs/event-contract.md:189` and `:605`. `TurnsEndOnce` excepts exactly these (`lost`).
- *A card can be dropped.* Asks are sent outside the outbox: when a drain failed, the card overtakes the events
  of its call, and the tab has no turn to hang it on. `CardsAreTheOpenAsks` excepts exactly that (`lagged`); a reconnect
  brings the card back.
- *The question of an ended run can stay open*, when the run was failed by something that does not look at asks.
- *Merged work can be parked as stale.* When a receipt fails after its merge and the contract is accepted again, the
  new base holds the branch already, `probeAlreadyLanded` counts no commits from it (`worktrees.ts:1193`) and
  answers "not landed"; so it does when a Git read fails. If the target then moves, the contract is parked `stale-base`
  although its work is merged, and stays there until another verdict. `MergedWorkIsRecorded` says that it is never abandoned.
- *A verified base outlives its verdict.* A rejection or a continuation keeps it (`docs/worktree-lifecycle.md:474` lists it among
  what is cleared), and a verdict can be lost after a continuation (`contracts.ts:704-709`).
- *`git merge` names the branch.* Between the check of its tip and the merge (`service.ts:4990-5022`) the agent branch
  can move, so what lands may be more than was verified; `MergesVerifiedWork` says at least.
- *Work that waits for a restart.* A pending landing whose boot re-drive is refused a lease; an abandonment stuck on a
  held directory, unless it is approved again; a contract whose post-terminal task failed, for its accept.

## 7. What is not modelled

In the modelled components:

- session service: the coalescing of agent envelopes into one message, changes of model and
  effort. Every transaction of a running process commits: a settlement that throws
  is listed as a hazard without a property;
- conversation store: the text of a message stands for its first revision; reads and
  DTO mapping;
- conversation feed: session-state events of a provider (they change the state bar and none of the
  verdicts here), deltas and stream buffers, optimistic messages, the send queue's snapshot, the frames of
  specialist runs, turns from before the durable queue (`hasOpenTurn`), sockets that throw while they are sent to;
- mailbox: one recipient per message; the read, actioned and dismissed flags; the
  audit trail;
- resource feed: rows of other projects and global ones, batches of 500, pruning, events of equal version (the
  `stalled` badge), the lists other than runs and contracts. A request under way when the server restarts may
  still be answered;
- agent runs: prompts, envelopes to the orchestrator, phase receipts, dismissal and lists;
- landing: independent reviews and their checkouts, provisioning and freezing, the creation and
  derivation of contracts; Git commands are external, and so are the people and programs that move branches and
  hold files.

Of the system: the repository lease (a refused lease is a nondeterministic outcome where one is asked for), the admission
of a data directory, the owner lifecycle projection, the acceptance evaluator, the translation of provider messages by the
adapters, generated code (`runner/codex/generated`), MCP connections, quota polling, CRUD, route parsing, rendering, and
`apps/spike`, which the product does not use.

## 8. Plan

In this order; each module with its runs first and its proofs after.

1. `RepositoryLease`: engines that compete for a repository (witness, lease rows, bootstrap markers, creation
   claims), runtime admission against project creation and the staged release. Theorem: no runtime in a
   repository whose identity is released.
2. Reviews on `Landing`: independent reviewers, their checkouts, provisioning and freezing. Property: one admitted review per
   sealed work, and its verdict is about that work.
3. Pure algorithms: the owner lifecycle projection (`packages/contracts/src/owner-lifecycle.ts`)
   and the acceptance evaluator (`packages/domain/src/ac-evaluator.ts`) as operators,
   against a reference definition over bounded inputs.
4. `DataDirAdmission`: two processes that compete for one data directory.
5. A store that can refuse a transaction, under which `ActiveTurnIsDriven` is to be weakened to what the code guarantees.
6. The refinement of `Mailbox` and `ResourceFeed` to an abstract at-least-once delivery, which they do not state yet.
