# A TLA+ model of nimplex

nimplex is a durable coding-agent harness: a local runtime that runs the turns of
a conversation, commits every step to SQLite, and can be killed at any instant
and continue. This directory holds a model of it in TLA+, the TLC runs that check
the model on small instances, and theorems about its core that TLAPS checks for
every size. `PROJECT.json` is the index: components, runs, mutants, the map from
definitions to source lines, the finding, hazards and theorems.

Paths without a directory below are under `packages/runtime/src/`.

## Inventory

| Component | Source | State it keeps | Operations | What makes it correct |
| --- | --- | --- | --- | --- |
| Session runtime | `runtime.ts`, `sessions.ts`, `store.ts` | tables `sessions`, `turns`, `events`, `accepted_inputs`; the map `active`, abort controllers, `closing` | open, create, rename, fork, start, resume, stop, close; timer, finish, sandbox cleanup | one owner per running turn; a request ID opens one turn; settled turns are frozen; an interrupted turn is not superseded; shutdown ends |
| Event stream | `runtime.ts` 425-453 | listeners, a cursor per consumer | subscribe, next, wake, abort, notify | each event once and in order; no lost wakeup; streams end |
| Legacy executor and compaction | `pi-executor.ts`, `checkpoints.ts`, `context.ts`, core's `conversation.ts` | the turn's events and workspace; transcript, shell files, queue of tool calls | ask, respond, run a tool, compact, commit, resume, continue an earlier turn | no hole in a transcript; effects once, whole and in order |
| Native bash | `native-bash.ts` | the attached sandbox; in the sandbox: job directories and journals | resume, create, record, escalate, launch, poll, collect, pause | a command runs once; every sandbox is accounted for; calls end |
| Sandbox usage | `sandbox-usage.ts` | the open interval of a session, the ledger `sandbox_usage` | start, observe, settle, inherit, discard | no time charged twice; observed time certain, unobserved time flagged |
| Pi harness engine | `pi-harness-engine.ts`, `pi-harness-local-host.ts` | maps of attempts, inbox, tools started; Pi's own operations | open, reconcile, align, drive, project a commit, settle, queue and cancel input, abort | each write projected once and committed with Pi's records; the two ledgers balance |
| Pi storage | `pi-storage/sqlite.ts`, `schema.ts` | journal of commits and its projections | commit, import a fork, rebuild, page | the projections equal the journal replayed; forks read whole |
| Pi extensions | `pi-extensions/mutations.ts`, `settings-actions.ts`, `model-change.ts`, `tools.ts`, `bridge.ts` | the mutation line, the view behind the getters | set, stage, track, flush, refresh, close | nothing staged is lost or reordered; the first failure is latched; the getters match the lane; no half change is dispatched |
| Extensions' session view | `pi-extensions/compatibility-store.ts`, `compaction.ts`, projections | the public entries and positions beside Pi's own | accept, project, navigate, compact | the snapshot builds; it says what the model is sent |
| Terminal | `apps/cli/src/terminal`, `plain.ts` | conversations, tasks, dialogs, timed keys | submit, stop, resume, fork, list, exit | a stop is never dropped; a turn is shown whole |
| Summary responses | `pi-storage/summary-responses.ts` | pending and active requests | admit, capture, settle | one admission per identity |
| Extension cache | `runtime.ts` 469-513 | loads in flight | load, reload | a reload is not undone |
| Workspace, models, pricing, contracts | `workspace.ts`, `packages/core`, `packages/contracts` | none | pure functions | limits, rates, schemas |
| Sandbox providers | `packages/sandbox` | remote | create, resume, pause, exec, delete | what an answer means |
| Test kit, site, examples | `packages/testkit`, `apps/site`, `examples` | - | - | - |

How they interact. A product surface, such as the terminal, calls the session
runtime and reads the event stream. `startTurn` and `resumeTurn` launch one
`execute` per session, which runs one of two engines to an outcome and then
`finish`es the turn. The default engine drives Pi's harness, whose writes go
through Pi storage and are projected to events in the same transaction; the legacy
one commits through `checkpoints.ts`. Either refuses to commit for a turn that is
no longer running, calls native bash for commands that need a real system, and is
told of a stop, a timer or a shutdown only through an abort signal. Native bash
tells the usage meter what it observes of the provider. Extensions change the lane
through the mutation line and read it through the session view. Every commit is
followed by `notify`, which wakes the event streams.

What is hard in this code: the process may die between any two commits, and the
next one knows only what was committed; an abort, a timer and a shutdown race
with the engine's own settlement; two ledgers (Pi's records and the turn's events)
must agree although only one of them drives; provider calls take effect before,
after or without their answer; setters answer before they commit; JavaScript
interleaves at every `await` and every `yield`. `PROJECT.json` lists these hazards
at their lines.

## Conventions

- A SQLite transaction is one step. JavaScript runs one callback at a time, so
  code between two awaits on real work (an executor, a provider, the consumer of
  a generator) is one step too.
- Variables are grouped into what survives a process and what does not. A death
  may happen in any state, resets the second group and nothing else.
- IDs, names and contents are model values or left out. The text of messages,
  files and prices does not appear.
- A definition preceded by "Fault:" is a plausible wrong version of the one after
  it. Nothing uses it; the mutants in `PROJECT.json` put it in place of the right
  one to see that a property notices.
- `CHECK_DEADLOCK FALSE` is set in every configuration because each system does
  stop: the process is down and may not be opened again within the bound, the turn
  is over, the stream has ended, the writes are used up or the clock has reached its
  last instant.

## Modules

**`Runtime.tla`** is the session runtime. `session`, `turnIds`, `parent`, `titled`
and `sandbox` are the columns of a session that steer control; `status`, `error`,
`owner`, `log` those of a turn; `accepted` is the table of request IDs; `verdict`
is what the engine has itself made durable (Pi's result, or the committed final
answer), which a resumed turn cannot contradict. `task[s]` is the entry of `active`
with its abort reason and how far `execute` has got: `executing` until the engine
settles, `settled` until `finish`, `cleaning` while a provider deletes a sandbox,
`ending` until the `finally` of `launch`; reason and outcome are locals of `execute`
and go with it. Titles are tracked only until a session has turns, after which
nothing depends on them. Actions are the methods of
`NimplexRuntime` (`StartTurn`, `ResumeTurn`, `ForkSession`, `StopTurn`, `Close`,
...) and the steps of `execute` (`Settle`, `FinishTurn`, `FailTurn`, `CleanupTask`,
`EndTask`). The engine is abstracted to a choice of outcome: what it settles and
what it returns, which may be a failure found on the way out (a denied attempt, an
extension error). `Engine` selects which outcomes are durable. `Lineage` is the chain
of sources that the lookup of a result climbs, as the smallest set closed under it.

**`SessionLedger.tla`** is the abstract specification: append-only histories, one
turn per request, one unsettled turn per session, branches that copy settled
prefixes. `Runtime` instantiates it with statuses and errors mapped to phases and
implements it. It has no process, task, abort or sandbox: those are how the
promise is kept.

**`EventStream.tla`** is the generator `events()` of one turn for each consumer,
and the execution that commits and notifies. The generator's state is where it is
suspended (`yielded` or `waiting`), the batch it has read and not delivered, its
cursor, and whether the promise it waits for has been resolved. Behind each batch it
ends if the turn is over, as in the code, whether or not more was committed meanwhile.
`owed` is a commit whose `notify` has still to run: the harness engine notifies some
microtasks after its transaction.

**`LegacyLoop.tla`** is one turn of the legacy executor with the loop of
`runtime.ts` around it. `log` and `workspace` are committed, `vfs` and `queue` are
rebuilt by every iteration, with `stopReason` of the response that `queue` comes
from, `prior` is what `continuationMessages` made of an
earlier turn that ended anywhere, behind what the conversation kept of the turns before
it (`Before`). A transcript is a sequence of messages by role, so
compaction (`CompactContext`) and its projection (`History`) are the code's own
functions on lists; when a transcript is long enough to compact is left to chance,
as length is data. A tool's effect is a record that is whole only when the tool has
returned. A turn that is over keeps nothing of its execution (`Forget`).

**`NativeBash.tla`** is one turn's native calls, one at a time, as the engine makes
them. `pc` is where the call is suspended. `box`, `pausing`, `starting`, `marked`
and `journal` are the provider's and the sandboxes' state: a launch may start the
supervisor although its answer is lost, a pause may take effect after the process
that asked is dead, a sandbox may vanish at any time. The usage meter appears
without its clock.

**`SandboxUsage.tla`** is the meter with its clock. A provider call begins, takes
effect and is answered at three times; the provider ends a sandbox at the lifetime
set when the last create or resume took effect, the meter counts it from when the
call began. The variables under "History" record what really ran, what was watched
and what nobody can have known, for the properties to compare the ledger with.

**`Harness.tla`** is one turn on the default engine. `ops`, `batch` and `inbox` are
Pi's durable records: the operations of the lane (the turn's context operation and
its run, and one that an earlier turn may have left), the open tool batch, the queue
of inputs. `calls`, `tools` and `inputs` are the turn's events, counted by the
identity they carry. `engine` is `EngineState`, rebuilt from the events by every
execution (`Restored`). Pi writes a batch of records; `planCommit` derives events
from the difference to what it has seen; both commit together or not at all
(`RefuseCommit`), and after a refusal the lane is sealed and the engine opens Pi once
more (`Recover`) or gives up. `pc` follows `driveHarnessTurn`: open, reconcile an
operation of another turn, reattach to one's own, which after an abort is driven to its
end and no further (`reconciles`), align the lane, the context
operation, the prompt, the drive. Pi itself is external: it writes what its
operations allow, in their order, again after a failed commit, and settles an operation once.

**`PiStore.tla`** is Pi's storage: `journal` is the immutable table of commits,
`rows` the tables the reads use, `nextSeq` the session's counter. `Replay` is
`rebuildProjections`; `Snapshot` with `ImportFork` is a fork; `BranchRows`, `ReadList`,
`Scan` and `ReadCommits` are the paged readers.

**`Extensions.tla`** is the mutation line and what depends on it. `ops`, `settled`,
`step`, `failure` are the line; `notes` the notifications that run beside it, whose
handlers may call setters and wait for them; `drain` the waits of a hook's flush and
of `close`. `view` is what the getters show, with the intent counters that decide
whether a settled operation may still write it. `refresh` is a running refresh of the
view: it has read the lane's model, its level, both or neither, each at a time of its
own, and then overwrites what the getters show. The hooks of Pi wait for theirs, the end
of a compaction tracks its own beside the line, where drains wait for it; one of either
runs at a time. `torn` records, for the properties only, that the last refresh did not
run at a drained boundary. The tools and the name, which a refresh overwrites in the same
way, are left out. The refresh of `create` is part of `Start`: nothing can be staged
before it ends. `change` is the durable record by
which a change of model and thinking level is completed after a death, and `whole`
records, for the property only, the last configuration that was completed.

**`PiProjection.tla`** is the history that extensions read, derived commit by commit
from Pi's records. `native` and `tip` are Pi's entries and lanes, `entries` and
`position` the public list with its own positions, `hook` the branch that a running
compaction hook was shown. A custom entry is public where it was accepted and native
where the lane's inbox is drained; a compaction with a retained tail becomes derived
entries. A lane may go to any entry that has been placed. Going to a custom entry moves
the visible tip to where it was accepted, without what was placed between its acceptance
and its drain: from then on the two branches of the lane differ, and with them what the
lane places. `aside` and `astray` record these lanes and entries, for the property only.
What two trees say to the model is compared message by message.

**`Terminal.tla`** is the terminal over one runtime. `runs` and `turnIds` are the
runtime's, external; `objects` the conversation objects in memory (several may hold
the same conversation after a listing), `tasks` and `calls` the map of running tasks
and the suspended calls of `submit` and of the observers that `resume` leaves
behind, with the batch of events each has been given; `resuming` a dialog; `exit` and `warned` the timed exit keys; `plain` the
headless front end. An observer takes a turn for over when its events end, which may be
before the last ones came (`cut`). A read of the terminal may hold several keys, so keys come
between a call and its answer.

The `...MC` modules instantiate the modules for TLC and add symmetry where it is
sound. The proofs are in modules of their own: `RuntimeProofs`, `FrontEndProofs`,
`TranscriptProofs`, `NativeBashProofs`, `SandboxUsageProofs`, `HarnessProofs`,
`PiStoreProofs` and `ExtensionsProofs`. `TranscriptProofs` is about `LegacyLoop` and
`PiProjection`, `FrontEndProofs` about `Terminal` and `EventStream`.

Each module is checked alone. What one takes from another is stated where it is
used: `Runtime` takes an outcome from an engine; `LegacyLoop`, `NativeBash` and
`Harness` take abort, finish and resumption from the runtime; `SandboxUsage` takes
the order of calls from native bash; `Harness` takes from `PiStore` that a commit is
atomic; `Terminal` takes from `Runtime` and `EventStream` what a call answers and
which events arrive.

## Runs

| Run | Instance | Checks |
| --- | --- | --- |
| `RuntimeSessions` | Pi harness, 2 sessions, 2 turns, 2 request IDs, 2 processes; all three sets symmetric | `OneOwner`, `OnlyNewestUnsettled`, `AncestorsPersist`; `SettledIsFrozen`, `SandboxKeptForResume`; implements the ledger |
| `RuntimeEnds` | legacy engine, 2 sessions, 2 turns, 1 request ID, 2 processes, fair | `AbortClassifies`; `CloseEnds`, `ExecutionsEnd` |
| `EventStreamFollow` | 1 consumer, 6 events, fair | `InOrder`; `FollowersCatchUp` |
| `LegacyLoopSafety` | 2 tool calls (symmetric), 4 requests, 3 executions, first turn or after others | `TranscriptIsWhole`, `EffectsOnce` |
| `NativeBashCalls` | pausable provider, 2 tool calls, 2 sandboxes, 3 executions, fair | `OncePerSandbox`, `OneDeathNeverReplays`, `BoxesAreAccountedFor`; `MeterStopsWithBox`, `CallsEnd` |
| `NativeBashReplay` | provider without pause, 1 tool call, 2 sandboxes, 3 executions | refutes `NeverRunsTwice` |
| `SandboxUsageSafety` | lifetime 2, instants 0-4, 4 calls | `IntervalsAreDisjoint`, `RunningIsMetered`, `CertainWasWatched` |
| `HarnessTurn` | 2 tool calls (symmetric), 1 input, 3 requests, 2 executions, 1 failed commit | `AttemptsBalance`, `ToolsOnce`, `InputsLogged`, `NeverMisfits`, `PromptFollowsContext` |
| `PiStoreScopes` | 2 scopes and 3 identities (both symmetric), 1 key, 4 writes in commits of up to 2 | `Rebuildable`, `BranchesReadWhole`, `PagesFollowOn` |
| `ExtensionsLine` | 2 models, one that can think, 2 levels, 3 operations staged (the recovery included) or refreshes begun per activation, 2 activations, fair | `CommitsInOrder`, `ViewMatchesLane`, `DispatchesSeeWholeChanges`; `FlushSettlesAll`, `DrainsEnd` |
| `TerminalKeys` | 2 conversations, 2 runs of 2 events and an end, 2 objects, fair | `TurnsAreWhole`, `ExitWasAnnounced`; `StopsArrive` |
| `PiProjectionViews` | 2 lanes, 3 entries, 1 metadata record, 2 navigations | `SnapshotsBuild`, `ContextsAgree`, `AnswersStand` |

Bounds, and why they are enough.

- `MaxOpens = 2`: an interruption, a resumption in the next process and what a
  second interruption leaves. Two sessions give a source and a branch that
  continues with a turn of its own; two turns give a history to supersede or to
  branch at; two request IDs give a retry and a new request. The liveness run uses
  one request ID per session because a retry changes nothing there, and the legacy
  engine because its verdicts allow more outcomes after a resumption.
- `MaxEvents = 6`: two initial events, two batches of two while the consumer is
  busy, or a resumption in between. One consumer is enough: consumers read the log
  and never each other.
- `LegacyLoop`: a response with two calls, killed between their results, then further
  responses; four requests compact a turn of its own as well, and with the three
  responses of earlier turns that is enough for a compaction before its first request, between
  and after the results, and for a second one. Three tool calls hold too.
- Two sandboxes and three executions: a loss, a replacement and a death after it.
  A third sandbox repeats the second.
- Instants 0 to 4 with lifetime 2 pass a deadline with a sandbox running, idle, or
  resumed in between; four calls are a create, a pause, a resume and the call that
  settles them.
- `Harness`: three requests are a summary, a response with a batch of two tools and
  a final answer; one death and one failed commit come anywhere between and during
  them, and the second execution finds what either left.
- `PiStore`: four writes are a branch with a sibling, or a value written, read and
  deleted on both sides of a fork. Pages of one row make every row an edge.
- `Extensions`: behind the recovery that opens each activation, two operations are one
  that fails and one staged behind it, or one and another that its notification nests;
  an operation and a refresh are one that is staged, or commits, while the view is read.
  Two activations are a death and what completes after it. For more of them in one
  activation, such as a refresh that mends what another has left, there is the theorem.
- `Terminal`: two conversations and two runs are a turn in the background while
  another is on the screen. Two objects hold both conversations, or one and a listed
  copy of it; two events and an end are a batch with something behind it.
- `PiProjection`: three entries are an accepted custom entry, a message that
  overtakes it, and a compaction over both. Instances with four entries (two lanes
  without metadata, or one lane with it) hold too but take too long to repeat.

Fairness, and what in the code justifies it.

- `Runtime`: timers fire (`setTimeout`), an aborted executor observes its signal
  (it is passed to every request and tool), provider deletions answer or fail, and
  promise callbacks run (`finish`, the `finally` of `launch`, `close`). Nothing is
  assumed of an engine that has not been aborted: it may hang until its timer.
- `EventStream`: the consumer keeps asking for the next event, a resolved promise
  continues, and a committed batch is announced. Nothing makes a turn finish.
- `NativeBash`: provider calls answer or fail (all have time limits) and the poll
  loop reaches its deadline: strong fairness of `Deadline`, because reconnects take
  the call out of `polling` and back. Nothing makes a command end.
- `Extensions`: promise callbacks run, the storage answers or fails, and the handler
  of a notification returns (it may wait only for what it staged). A refresh that has begun
  reads and ends, because its reads are answered. Nothing makes an extension call a
  setter, or anything begin a refresh.
- `Terminal`: calls are answered, events arrive, and a turn ends when it was told to
  stop. Nothing makes another turn end, or a user press a key.

## Finding

The trace and the quoted lines are in `PROJECT.json`.

- `NativeBashReplay`: a dispatched command runs a second time after its sandbox is
  lost, when a second death comes between the record of the replacement sandbox and
  the commit of the error. One death alone never repeats a command:
  `OneDeathNeverReplays` holds in `NativeBashCalls`.

## Observations without a run

Met while modelling; the modules have the behaviour, no run of this project asks
about it.

- Legacy executor: a request lost to a death of the process leaves a `model.started`
  that nothing ever declares unknown, although README.md:74 of the repository says
  that lost responses remain explicit unknown outcomes. Only the process that sees a
  request fail records it.
- Compaction keeps `messages[0]` as the prompt (`context.ts:32`, "preserving the
  original prompt"). In a turn that continues a conversation that is the first
  message of the conversation: the turn's own prompt is reduced to at most 384
  characters of the summary.
- Usage meter: a resume that takes effect just before a death runs without an
  interval, so that time is neither charged nor flagged, although README.md:204 says
  unobserved time is flagged. `RunningIsMetered` leaves out just this time.
- Harness: an abort that comes between two drives (after a context operation, or
  before an accepted prompt is driven) asks to cancel an operation that is over or
  not there; the refusal is swallowed (590) and the next drive goes on uncancelled.
- Event stream: once a batch is delivered, `events()` looks whether the turn is active
  (`runtime.ts` 444) and may end with events undelivered that were committed while the
  consumer was busy, the last one included. The terminal then shows the turn as over
  without them until the conversation is opened again, and the plain front end never
  prints them. What is delivered is in order and without a gap (`InOrder`).
- Extensions: the refresh that the end of a compaction starts beside the line
  (`compaction.ts` 147) overwrites what a setter has staged since, so the getter stays on
  the old value after the lane has the new one, and setting the value shown is dropped.
  At a drained boundary, as the comment of `refresh` asks, the getters do match
  (`ViewMatchesLane`, from its first read to its end).
- Extensions: setting the thinking level to the value shown is dropped even while a
  pending change of model will change it.
- Session view: a lane that goes to a custom entry which was drained after a later
  message shows a branch without that message, because the public entry sits where it was
  accepted and the native one where it was drained. `ContextsAgree` leaves out such a lane
  until it goes elsewhere or is compacted. The repository's notes on the composition
  (`docs/product/2026-09-16-pi-composition-gate.md` 203) say that the two graphs differ in
  parent and order.
- Extension cache: a load that fails after a reload deletes the cache entry of the
  newer load (`runtime.ts:491`).
- Terminal: keys in the same read as the Enter that picks "resume" may submit between
  the call of `resumeTurn` and the record of its task; the resumed run is then not
  observed. This order is left out of the model.
- The transition table of `packages/core/src/status.ts` (10-18) allows no way out of
  `failed`, while `resumeTurn` takes an interrupted turn from `failed` to `running`.
  Only the table's own test consults it.

## Proofs

Every theorem holds for any values of the constants that the modules' named
assumptions allow, and rests on nothing else; in particular the sets of `Runtime` need
not be finite. Each safety proof has the same shape: an inductive invariant that says
why the property holds, a lemma for each part of it that the steps can disturb, and the
property as a consequence. TLC looked for a counterexample to every invariant at the
bounds of the module's run before it was proved.

`RuntimeProofs.tla`, for any sessions, turns and requests, either engine and any number
of processes:

- `Typing`: `Spec => []TypeOK`. `TypeOK` is inductive by itself.
- `ExecutionHasOneOwner` and `InterruptedIsNewest`: `Spec => []OneOwner` and
  `Spec => []OnlyNewestUnsettled`. Neither is inductive alone: that a new turn may
  take the place of the newest one rests on what its session's histories contain,
  and that rests on turns not being shared before they are settled. The invariant
  `Ownership` joins the two with `TypeOK` and three facts: a turn that has not been
  started is in no history, a session without a row has neither turns nor a task,
  and a dead process executes nothing. There is one lemma per group of actions.
- `SettledTurnsAreFrozen`: the action property `SettledIsFrozen`. Its core is the
  lemma that an execution about to finish never meets an ended turn (`EndWrites`), so
  the early return of `finish` is never what protects a settled turn.
- `AbortsClassify`: what ends an aborted execution is what its reason says
  (`AbortClassifies`). `SandboxesOutliveInterruption`: `SandboxKeptForResume`. Both
  rest on the invariant `Kept`: an execution that runs has no outcome, only tasks that
  leave no interrupted turn clean up, a handle is held by a session with turns, and
  only stored sessions have turns. The last two are why a session that is deleted never
  takes a sandbox along.
- `AncestorsStay`: `AncestorsPersist`, that the lookup of a result finds the session
  that owns it. The invariant `Traceable` says so without counting steps: if a session
  holds a turn, the turn's owner is in every set of sessions that has this one and, with
  each holder that is not the owner, also its source. A branch adds a step to a chain,
  and a source that holds turns is never deleted.
- `RuntimeImplementsLedger`: `Spec => Ledger!LedgerSpec`. `PhaseMap` says how one
  step moves the mapped phases; each action then maps to `Accept`, `Conclude`,
  `Interrupt`, `Reopen`, `Branch` or a stutter. `Accept` needs that all turns of a
  history are settled, which is `OnlyNewestUnsettled` with the guard `MayFollow`.

`FrontEndProofs.tla`, on the stream of events and the terminal that reads it:

- `DeliveredInOrder`, `StreamSpec => []InOrder`, for any consumers and any number of
  events. `InOrder` alone is not inductive: the next event comes from a batch that may
  be older than the log. The invariant `Following` adds that the rows are numbered from
  0 without a gap and, for each generator, that what it has sent lies between its start
  and its cursor and that its batch is an interval that begins right behind the cursor
  (`Delivers`); `DrainDelivers` and `LoopDelivers` are the two ways from one suspension
  to the next.
- `TurnsStayWhole` (`TurnsAreWhole`), for any conversations, turns, events and copies of
  a conversation in memory, from the invariant `Watchful`: the types; `Histories`, that
  of a session's turns all but the last have ended for good; `Copies`, that a copy of a
  turn is of the turn at its place and holds the first of its events; `Settled`, that a
  copy that is over, was not cut short by the end of its observer's stream and may come
  to the screen holds them all; `Engaged`, that each call
  on its way is the task of its session and works on the last turn of its object; and
  `Screen`, that the object on the screen is the one its session's task works on or has
  all turns of the session. The last two are why a turn that runs in the background while
  the conversation is read anew is never shown as finished early.
- `ExitIsAnnounced` (`ExitWasAnnounced`), from `Announced`: a key for exit that waits is
  the one the last warning was for.

`TranscriptProofs.tla`, on `LegacyLoop`, for any tool calls, requests and executions:

- `EffectsAreCommittedOnce` (`EffectsOnce`): the committed files hold the effects of the
  committed results, whole and in order, across deaths and resumptions. The invariant
  `Committed` adds where the in-memory files stand (`Files`): on the committed ones
  between calls, and one effect ahead of them while a call that may run has no result.
- `TranscriptsAreWhole` (`TranscriptIsWhole`), from the invariant `Talking`: at every
  moment the transcript that would be rebuilt from the log lacks the results of just the
  calls that are queued, and nothing else (`Lacking`). It is about lists of any length:
  `UserMore`, `ResponseMore` and `ResultMore` say what one more message does to what is
  lacking, `CompactedKeeps` that neither the summary nor the cut of a compaction
  separates a response from its results, and `MissingIs` and `ContinuationsAre` that the
  calls a resumption finds are those.

The same module on `PiProjection`, for any lanes, entries, metadata and moves of the tip.
The invariant `HistoryInv` (`HistoriesStayWhole`) has five parts. Pi's entries and the
public ones are rooted trees whose branches are finite, without a node twice (`IsNative`,
`IsHistory`). Every entry of Pi is shown, and a branch that ends at a placed entry says the
same in both (`Whole`), unless it is a custom entry or a lane that is aside has placed it
(`astray`): the properties say this of the tips only, but a lane may be moved to any
entry. Both tips of a lane are known (`Standing`), those of a lane that is not aside say
the same (`Agree`), and the recorded native tip is the lane's (`Positions`). The branch a hook has
read is the beginning of the visible one, and what came behind it says nothing to the
model (`Waits`).

- `HistoriesBuild` (`SnapshotsBuild`), `ContextsStayAgreed` (`ContextsAgree`) and
  `AnswersKeepStanding` (`AnswersStand`) follow from it.
- A commit is followed write by write, with what each write has to find and leaves; every
  operation ends in `Lands`: both trees have grown, what they held says what it said, and
  the new tips say the same, or the lane is aside. Behind a compaction either branch
  says its summary and the retained tail, which is why it brings the two together. The hard cases are a drain, whose entries
  are shown above other parents than Pi gives them, and a compaction whose retained tail
  the visible branch says elsewhere or not at all, which is shown behind derived entries.

`NativeBashProofs.tla`, for any tools, sandboxes, executions and either provider, from
the invariant `Faithful` (`CallsAreFaithful`), which joins the types with three parts.
`Control` says what a call holds wherever it is suspended; `Dispatched`, that no
supervisor starts before the dispatch of its command is durable and that every start
leaves its mark in the sandbox; `OneBox`, that as long as the process died at most once a
command belongs to one sandbox.

- `CommandsBeginOnce` (`OncePerSandbox`) follows from the marks,
  `DispatchedIsNotReplayed` (`OneDeathNeverReplays`) from `OneBox`: the two together are
  as much as can hold, because two deaths do replay a command (`NativeBashReplay`).
- `NoBoxIsLost` (`BoxesAreAccountedFor`): every sandbox that exists is the session's,
  the one about to be recorded, charged as discarded, or one whose creator died before
  it could record it.
- `MeterRunsWithBox`: the action property `MeterStopsWithBox`.

`SandboxUsageProofs.tla`, for any lifetime, clock and number of calls, from the invariant
`Accounted` (`TimeIsAccounted`): the types, `Clocked` (nothing lies in the future, an
interval begins before the call on its way), `Ordered` (what is charged ends before
whatever can be charged next begins), `Seen` (a sandbox runs in sight only by an open
interval or by a call that will open one) and `Sure` (an interval not flagged has been
watched throughout).

- `NothingChargedTwice` (`IntervalsAreDisjoint`), `RunningIsSpokenFor`
  (`RunningIsMetered`) and `CertainIsWatched` (`CertainWasWatched`) are its consequences.

`HarnessProofs.tla`, for any tool calls, inputs and numbers of requests, executions and
failed commits, from the invariant `InAgreement` (`LedgersAgree`): the types; `Sequence`,
which operations of Pi there can be at each place of the drive; `Boxed`, the inputs in
the queue against those logged; `Tooled`, the batch against the tools logged; `Ledger`,
the attempts logged against the requests that Pi knows; and `Asking`, what is known of
the request on its way.

- `EveryCommitFits` (`NeverMisfits`): no commit of Pi meets a projection that has no
  place for it, whatever died or failed before. It comes first: the lemma
  `NothingMisfits` is what makes the other parts of the invariant go through.
- `AttemptsAreSettled` (`AttemptsBalance`), `ToolsAreRecordedOnce` (`ToolsOnce`),
  `InputsAreLogged` (`InputsLogged`) and `PromptsFollowContext` (`PromptFollowsContext`).

`PiStoreProofs.tla`, for any scopes, identities, keys and batches, from the invariant
`Journalled /\ Stored /\ Forked`: the numbers of each journal, what the rows say of it,
and what each scope has of the one it was forked from.

- `JournalHasNoGap`: the commits of a journal carry consecutive numbers up to the next
  one, forks included. `JournalOnlyGrows`: no step changes or removes a commit.
- `JournalRebuilds` (`Rebuildable`): the rows are what replaying the journal gives. A
  replay is treated as a chain of tables, each the one before it with one commit more,
  so that a commit at the end extends the chain and a snapshot is a journal of one
  commit with a chain of its own.
- `ReadersTurnPages` (`PagesFollowOn`): a reader's order is by rank (`InOrder`), the page
  after a row holds the next of the rows that remain, whatever the order and wherever the
  page before it ended.
- `BranchesStayWhole` (`BranchesReadWhole`): the rows of a branch are the least set that
  is closed under parents, and a fork's branch is the one its source had at the tip.

`ExtensionsProofs.tla`, for any models, levels and numbers of staged operations, from the
invariant `Consistent` (`LineIsConsistent`): the types; `InLine`, what has committed of
the line and that nothing does behind a failure; `Whole`, that the lane is half changed
only between the commits of an accepted change; `Intents`, that intents are numbered in
the order of staging; `Reads`, that what a refresh at a drained boundary has read is
still the lane's; and `Shown`, which of the staged operations the getters show if the last
refresh was such a one.

- `CommittedInOrder` (`CommitsInOrder`) is part of it; `GettersMatchLane`
  (`ViewMatchesLane`) and `DispatchesAreWhole` (`DispatchesSeeWholeChanges`) follow.
- `FlushesSettle`: the action property `FlushSettlesAll`.

The prover has no induction over sequences or trees. Where a proof needs one it is done
over the naturals: the set of lengths, or of steps, for which a statement holds contains
0 and with each number the next (`NatSets`).

What stays with TLC alone:

- Liveness under fairness and `ENABLED`, beyond the prover: `CloseEnds`,
  `ExecutionsEnd`, `FollowersCatchUp`, `CallsEnd`,
  `DrainsEnd`, `StopsArrive`.

## Not modelled, and why

- Summary responses: a decorator of the storage with an interleaving of its own. And the
  extension cache, a map of loads that decides which extension code a turn sees and
  touches neither ledger nor log.
- Of the extensions' code only the fixture of the tests (`testing/`)
  installs the summary responses, the compatibility store, the settings actions, the model
  change and the compaction hook; the bridge that the runtime itself installs uses the
  mutation line. `Extensions` and `PiProjection` model that composition.
- In `Harness`, the automatic compaction inside a run and the tools themselves. A
  compaction that fails in Pi is fatal only for the execution that accepted it, as in
  the code. Reconciling another turn's operation is assumed not to touch the inbox.
- In `PiStore`, the branch readers' stop at a type and filter by custom type (`sqlite.ts`
  353-360); they stop at an entry and filter by type.
- In `Extensions`, setters that stage a single write without a view, and the
  translation between the APIs. In `PiProjection`, the refusal of a foreign header or
  of a second migration, closing, and the notification that a compaction has ended.
- In `Terminal`, drafts, history, drawing, preferences and logins, and the exact time
  within which a second key counts: it may come in time or not.
- File contents, message text, prices, attachments and the size limits: data. A
  refused workspace appears as a failed commit. Where `forkSession` refuses a result
  without a tip, the branch is simply not made. The digest of a checkpoint always
  matches, because logs are only appended to.
- The adapters of sandbox providers and the site: I/O and user interface. What
  providers may answer is in `NativeBash` and `SandboxUsage`.
- In `NativeBash` the engine commits a tool's result only after the call has
  returned, and makes one native call at a time, as both engines do.
- In `SandboxUsage` a deletion of a sandbox that is already gone counts as observed,
  as in the code.
- The modules are not composed: a common state space of the runtime, an engine and
  native bash is out of TLC's reach at bounds where the interesting cases happen.
