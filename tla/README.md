# A formal model of TideMind's runtime

TideMind keeps a user's "brain" in one SQLite file and works on it from several
processes: the desktop application, a worker thread inside it, stdio MCP servers
started by other agents, and hooks.  Whatever needs a language model goes through
one of the user's model connections, in the interesting case through a *local
subscription CLI* (`claude`, `codex`), where a prompt that was submitted costs
quota and cannot be taken back.

This directory holds TLA+ modules translated from that code, TLC configurations
that check them on small instances, and TLAPS proofs for every value of their
constants.

1. [The system](#1-the-system): components, state, interaction, hard behaviours
2. [Plan](#2-plan)
3. [The modules](#3-the-modules)
4. [Runs and bounds](#4-runs-and-bounds)
5. [Where code and comments disagree](#5-where-code-and-comments-disagree)
6. [Proofs](#6-proofs)
7. [What is only model-checked](#7-what-is-only-model-checked)
8. [What is not modelled](#8-what-is-not-modelled)

Paths below are relative to the repository; `L/` is `src/llm/`, `C/` is
`src/llm/cli/`, `E/` is `client/electron/`.

## 1. The system

| component | code | state | operations | talks to |
|---|---|---|---|---|
| capacity lease | `C/capacity-lease.ts` | `cli_capacity_leases`, a row per account | acquire, renew, fence, release | call service, reconciliation |
| invocation state | `C/invocation-state.ts` | `cli_invocations`, `model_connections.status` | start, mark committed, finish, reconcile, resume | call service, settings, daemon |
| call service | `C/service.ts`, `C/child-process-runner.ts`, `C/claude.ts` | a call's own control, the child process | `runCliLLM` | all of the above |
| digest queue | `src/db/pending-digests.ts`, `src/tools/digest.ts`, `src/metabolism/tasks.ts` | `pending_digests` | enqueue in flight, claim, complete, park, fail, recover | call service, scheduler |
| settings | `E/ipc/connections.ts` | operation in progress per connection | test, check, resume, archive | invocation state, health |
| connection health | `L/connection-health.ts` | `llm_connection_health`, `llm_connection_probe_leases` | admit, record success / failure, reset, recover | model client, settings |
| model client, routes | `L/client.ts`, `L/route.ts`, `L/model-admission.ts` | a call's probe token, attempts | `callLLM` | health, call service |
| scheduler | `src/metabolism/scheduler.ts`, `scheduler-run-lock.ts`, `src/daemon.ts` | `last_task_*`, circuit keys in `metadata`, the run lock | claim, roll back, pass, record failure | tasks, worker |
| metabolism worker | `E/workers/*`, `E/daemon.ts` | generation, runtime revision, controller life cycle | start, restart, drain, degrade, shut down | scheduler, desktop |
| cloud sync | `E/cloud/*`, triggers of `src/db/schema.ts` | `cloud_dirty`, `sync_apply_guard`, cursor, dead letters | mark, claim, post, pull, reconcile, stop | server, brain store |
| brain store | `src/db/*` | nodes, links, life cycle, schema | each a transaction | everything |
| digest / recall / prepare | `src/tools/*` | – | segmentation, embedding, ranking | brain store |
| note integrations | `src/integrations/*` | `obsidian_sync`, scan lock, timers, watchers | scan, watch, digest a note, evict, delete, stop | digest, brain store |
| agent integration | `E/agent-integration/*` | installations, runs, journals, fences, the user's intent | connect, repair, disconnect, pause, recover, finalize | files of other agents |
| updater, shell, UI | `E/updater/*`, `E/main.ts`, `client/src/*` | staged release, views | download, verify, install | – |

### Processes

* **A stdio server** (`src/index.ts`) has one event loop.  It digests in the
  background, and `brain_prepare` may run the scheduler in it.
* **The desktop application** opens its window at once; its settings are usable
  from then on.  Two seconds later (`E/main.ts:605`) it starts the embedded
  daemon, which reconciles what earlier processes left behind and starts one
  worker thread for the scheduler.  The worker may die while the process lives;
  a session whose worker died gets no second one.
* **CLI children** are detached and outlive the process that started them.
* **The main thread of the desktop** also runs the cloud synchronisation, the agent
  integration and the note sources: each is a set of asynchronous functions that
  interleave at every `await`, with each other and with the user.

They share nothing but the SQLite file; each `db.transaction(...).immediate()`
and each statement outside of one is atomic, and everything between two of them
is not.

### Hard behaviours

`PROJECT.json` lists the hazards line by line.  They group as follows.

* *Unknown outcomes.*  A prompt was submitted and its result was lost in a crash,
  timeout or kill.  It must neither be repeated silently nor be recorded as a
  failure, and the connection must stay paused until the user decides.
* *Stalls.*  A laptop sleeps, a heartbeat stops, a lease runs out; its owner wakes
  up and goes on.
* *Two transactions where one was meant*: admission and commit, release and
  persistence of the outcome, invocation row and health row, read and write of a
  reset.
* *Late verdicts*: owners, reconciliation, tests, checks and resumes judge rows in
  any order.
* *Liveness*: a lease, a circuit, a run or a claim whose owner died must come free
  without help; a restart, an edit or a mark that arrives while an earlier one is being
  handled must not be forgotten.
* *Effects outside of the database*: a file of another program or a row of a server was
  changed and the process died before it recorded that.
* *State read before an await*: a manifest, a page, the text of a note, the user's
  choice, a configuration, each used after it changed.

### What makes each component correct

| component | properties |
|---|---|
| lease | one living caller per account; an expired lease is never used to write |
| invocations | final outcomes are final; "may have run" is never recorded as "failed" |
| pause | a connection with an unresolved ambiguity stays paused, whoever writes its status |
| resume | resolves what the user saw, and only when nothing can still run |
| digest queue | every turn a worker takes on a digest counts against its retries; never submitted again after it may have run |
| health | a row that opens can be tried again; one prober; late verdicts ignored; newer errors survive older evidence |
| scheduler | a claimed task runs once per interval; a rollback restores only its own claim |
| worker | at most one live generation; messages of an old one are ignored; shutdown terminates |
| cloud sync | no edit loses its mark silently; nothing behind the cursor is missing; no edit is undone by an older one; a marked edit arrives |
| note sources | the active nodes of a note are those its state names; an evicted note keeps its memories; the last text is digested and a deleted note archived |
| agent integration | one run writes a file; what is shown as applied is journalled; a fragment the user restored or removed is left alone; old work stops at the user's choice; interrupted runs end |

## 2. Plan

Done, in this order:

1. `CliRuntime` with the abstract `AccountTurn`, `MCCliRuntime`, `CliRuntimeProofs`.
2. `ConnectionHealth`, `MCConnectionHealth`, `ConnectionHealthProofs`.
3. `MetabolismWorker` and `MetabolismWorkerProofs`.
4. `Scheduler`, `MCScheduler`, `SchedulerProofs`.
5. `AgentIntegration` with the abstract `FileTurns`, `AgentIntegrationProofs`.
6. `CloudSync`, `CloudSyncProofs`, `CloudSyncPullProofs`.
7. `NoteSource`, `MCNoteSource`, `NoteSourceProofs`.

Every safety property of a passing run has a theorem.  Left:

* `CliProcesses`: pending admissions and shutdown of `child-process-runner.ts`; no
  child survives a completed shutdown.
* `CloudAccount`: a token refresh in flight across a logout and a login.
* The parts of the modelled components that section 8 lists.

## 3. The modules

### CliRuntime: calls of a subscription CLI

One step is one transaction of one process, or one thing the outside world does
(time, a crash, an answer).

| variable | code |
|---|---|
| `proc` | a process: `server`; `desktop` (window open), `daemon` (reconciled, worker running), `degraded` (worker dead); a restart is a new member of `Proc` |
| `lease` | `cli_capacity_leases`: invocation, fencing token, age of the heartbeat |
| `inv` | `cli_invocations`: outcome, committed mark, resolution, unconfirmed exit, age |
| `conn`, `archived` | `model_connections.status` and `.archived` |
| `digest` | `pending_digests`: status and retry count |
| `call`, `pc`, `held`, `res` | a call inside its process: parameters, control point, its copy of the token, the result it is about to report |
| `prompt` | what the child does: outside the program, and visible to no process but the one whose child it is |
| `op` | the settings operation in progress; a test is `prepare` while its environment is checked and `test` from its second `testing` write on |

A call goes `working → started → leased → checked → committed → sent → answered →
settled → reporting → done`, with `failing → released → reporting` beside it; a digest
ends in `completing` or `refusing` where a row is first looked up and then written.  Each
arrow is an action named for the function or branch it stands for.  Some control
points have only synchronous code behind them (`Transient`): no other callback of
the same thread gets in between, but other threads and processes, time and a crash
do.  The desktop's worker thread and main thread are told apart (`OnThread`).

What is merged, and why that loses nothing:

* Statuses that let a background call through are `ready`; `checking` and `testing` are
  `busy`; those that say why the CLI cannot be used are `unfit`, which a restarted daemon
  leaves as they are.
* A digest's one model call is the duplicate check of `src/graph/dedup.ts`, which catches every
  error (`:62-68`).  So how the work ends does not depend on how its call ended: either
  report may follow either result.  The branches that park a digest from its worker
  (`src/metabolism/tasks.ts:72`, `src/tools/digest.ts:362`) are reached by no call; only the
  reconciliation parks.
* An aborted call is among the definite failures.
* Environment checks, auth bindings and catalog lookups are a refusal that may
  always happen.
* Main-thread calls other than tests behave as asynchronous digests do: same
  thread, same admission, nothing else touched.
* The standalone `src/daemon.ts` reconciles at its start, as a desktop does when it
  becomes a daemon, and runs the scheduler without a settings window.
* The wall clock appears as ages capped at `MaxLeaseAge` and `MaxInvAge`, beyond
  which no guard tells them apart.
* Resume needs `conn = "ambiguous"` and unresolved rows, so a resume of an archived
  or re-created row is a refusal.

`AccountTurn` says what the whole thing is for: the calls of an account take turns,
and each is judged at most once and never behind the back of the caller whose turn
it is.  It knows nothing of leases, expiry, processes or reconciliation.  The
refinement maps `turn` to the living call between commit mark and recorded result
(`CurrentCall`) and `verdict` to the outcome (`VerdictOf`).

### ConnectionHealth: the circuit breaker of a connection

Rows of different connections never meet, so the module has one.

| variable | code |
|---|---|
| `health` | the row of `llm_connection_health`; `wait` and `retry` count down to `opened_at + cooldown_ms` and `retry_at`; the failure count stops at the threshold, beyond which the code does not look |
| `probe` | the row of `llm_connection_probe_leases`, with the ticks it has left |
| `pc`, `token`, `error`, `age` | a `callLLM`: control point, whether it was given a probe token, the error it will record, ticks since admission |
| `ousted` | history only: what took a probing call's lease from it, another call that was let through or a reset |
| `unresolved` | ambiguous invocations nobody has resolved (what `CliRuntime` calls `Unresolved`) |
| `op`, `resetting` | the settings: operation in progress and whether an error was recorded since it began; a reset between its read and its transaction |

Errors come in the classes the code tells apart.  `Fault` pairs each with the
`needsUserAction` and `retryAt` values that the code can produce for it.  Kinds of
the model or of the caller (`shouldIgnoreFailure`, `aborted`) end in `EndUnrecorded`.

Larger than the code, on purpose: several calls of one connection run at once (API
connections do that; a CLI account's lease allows one, and then the others fail);
settings operations are allowed for every connection; recording and releasing may
fail (they are best effort in the code).

Processes may be suspended for any time at any point.  A call whose own timeouts work ends
within `Budget` ticks, which is the assumption behind `probeLeaseMs` (`L/client.ts:978`), a
sum of timeouts and backoffs plus a minute; `OneProber` speaks of the calls that are still
within it.  That the sum is large enough (`Budget <= ProbeTtl`) is assumed of the constants and
not checked: it is arithmetic over configured timeouts.

### MetabolismWorker: generations of the worker thread

The main thread of the desktop keeps one scheduler thread alive
(`E/workers/metabolism-worker-{generation-manager,controller,entry}.ts`, `E/daemon.ts`).
One step is one task of an event loop; messages, exits and terminations are delayed.

| variable | code |
|---|---|
| `m` | the fields of the generation manager and where its asynchronous methods stand: `restart` (the loop `restartUntilCurrent`), `spawn` (build, handoff, wait for ready, terminate), `quit` (shutdown) |
| `life`, `settled` | the controller of each generation |
| `thread`, `stopping`, `busy` | the worker thread of each generation |
| `inbox`, `outbox` | messages under way; exit events are the last of them |
| `config`, `seen`, `fenced`, `snap` | the version of configuration and strategies: on disk, acknowledged by the main thread, last fenced, in the snapshot of a generation |
| `files`, `dropped` | the last edit that the watcher can see; the last edit for which the main thread failed to ask for a restart |
| `revision` | `metabolism_worker_runtime_revision`, which a prompt must match to be committed |
| `prompt` | the last committed prompt: the version it was built with and the version fenced then |

The manager is written as functions from the record `m` to the next one
(`requestRestart`, `onDegraded`, `onExit`, ...), as its class has one field for each; every
handler applies them to one event.  Deadlines (`expire`) may fire at any time after they
were set, which covers every duration.  The request for a restart is the last of three steps
that may throw (`E/daemon.ts:235-239`): the fence may be busy, the sources unreadable
(`mutationFails`); and the watcher takes a fingerprint for known before it reports it
(`pollFails`).

### Scheduler: passes over the metabolism tasks

Processes that share one database run passes (`src/metabolism/scheduler.ts`,
`scheduler-run-lock.ts`).

| variable | code |
|---|---|
| `since`, `by` | the claim of a task in `last_task_*`: its age, and whose it is (the value compared and swapped) |
| `kept` | history: age of the last attempt that may have had an effect |
| `owner` | the run lock, a transaction of the sidecar database |
| `pass` | the pass of a process: place in the list, route, whether it probed or observed a call |
| `writes` | the statements that a turn has still to execute: a failure is recorded row by row |
| `circuit` | the three metadata rows of each of the two circuit breakers |
| `gate`, `mode` | the gate check of a task; background, or not: foreground or paused |
| `outdated` | workers told to stop, or whose runtime snapshot a task invalidated (`retire`): their pass ends with the attempt, and they are replaced |

Times are ages that stop where the code no longer tells them apart, so time is not
bounded.  What a task does is its outcome: it returns, it fails with its effect known,
it fails with its effect unknown, its process dies.  `write` is one autocommit
statement, so another process sees a half-recorded failure, and a crash leaves one.

The run lock already serialises the passes, so the compare-and-swap of a claim never meets a
second scheduler between its check and its write; it is checked against what a crashed or
earlier pass left, not against a race of its own.

### AgentIntegration: projecting an integration into another program's files

`coordinator.ts`, `coordinator-repository.ts`, `mutation-runner.ts`, `repository.ts`,
`service.ts`, `production-service.ts` and `safe-file.ts` of `E/agent-integration/` change
files that belong to another program.
A *run* is planned in one transaction, journalled per mutation, verified with the host and
finalized; whatever interrupts it, a maintenance pass recovers it.

| variable | code |
|---|---|
| `content` | a file of the host: nothing of ours, part of an effect, our fragment, something of the user's |
| `run` | `reconcile_runs`: operation, state, whether automatic, revision of the intent, consent |
| `journal` | `projection_mutations`: state, and which fingerprints and receipts were saved |
| `inst`, `intent` | the installation (desired state, consent) and the user's choice with its revision |
| `writerFence`, `executionFence` | lease and lock file per mutation domain and per run |
| `wk` | the two threads of control, `apply` (the user's operation) and `maintenance`; `pc` is the state the worker is about to save, or where it is between two awaits |

The order of the code is kept: a state is saved before the effect, the precondition is
read, the choice, the consent and the run are checked once more at the boundary, the file
is replaced only if it is still what was planned, the effect is read back, and the evidence is
saved in three steps.  An adapter of `hosts/` is `Before` and `Desired`: what a file holds before
and after its effect; it may also stop half-way, which a recovery that is sure of the planned content
completes (`safeToResumeFrom`).  Trust of the source, the version of the host, frozen generations
and shared consumers are readings of the outside world: each may refuse whenever the
code takes it; a verified run whose source cannot be verified just now stays as it is
(`sourceUnavailable`), and a plan of a connection that is already applied confirms it instead
(`Confirmable`).  A crash ends both threads; the execution fence is free then, the writer
fence only when its lease has run out.

`FileTurns` is what all this promises to the owner of the files: runs take turns on a
file, a turn ends only after the run has seen its effect there, a run is shown as
applied when it has no turn left and gives way to another one only then, none installs
twice what it has seen installed, and none installs while the last plan is a removal.  It
knows no threads, fences, leases, states of the journal or crashes.  The user's `Edit` is told apart
from a `Write`, since it is counted, and never leaves a part of an effect: every other change of
a file must pass the guards of `Write` (the run has the turn, the file holds what the plan
replaces, no second install, none under a removal).  The refinement (`Turns`) maps the turns of a run to
its uncommitted entries, `seen` to the entries proved, its phase to its state
(`PhaseOf`: everything in flight, and `needs_recovery`, is open), `last` to
the desired state of the installation, and `edits` to the count of edits.

### CloudSync: marks, pump, pull, reconcile

`E/cloud/{uplink,sync-client,cache-manager,local-apply,reconciler,reconciler-utils}.ts`
and the triggers of `src/db/schema.ts`.

| variable | code |
|---|---|
| `local` | the rows of a synchronised table; a row is what two copies are judged by: `edit_seq`, `updated`, archived, superseded |
| `dirty`, `applying` | `cloud_dirty` and the guard that keeps the triggers from marking downlinked rows |
| `cursor`, `dead` | the last version applied; `cloud_sync_dead_letters` |
| `server`, `top` | the server's rows with their `sync_version` (external: what the client relies on) |
| `polling` | the timers of the current client are set: they stop while the user is idle or the cloud is not available |
| `current`, `sync` | which `CloudSyncClient` is not stopped, and where each one's `syncOnce` is, since a stopped one may still hold a page |
| `pump`, `recon`, `main` | the uplink pump, the reconciler, and the synchronous block the main thread is in |
| `lost`, `overlaid`, `quiet` | history: marks lost in a known way, rows the downlink replaced against the order of the manifests, whether a reconcile ran alone |

Between two awaits the main thread is not interrupted, but other processes are not kept
out: they write between the statement that raises the guard and the one that lowers it.
`Applied` (downlink), `ManifestWinner` (reconcile) and `Judged` (server) are the three rules
that must agree.  The order of versions is `VersionWinner`; a manifest takes two copies of one edit for the
same if they were written less than `Tolerance` apart (`TS_EQUAL_TOLERANCE_MS`, a second), so a
reconcile leaves such copies as they are.  `now` is the time of the last write.

### NoteSource: a vault of notes

`src/integrations/obsidian/{index,queue,sync-state}.ts`, with `src/tools/digest.ts` and
`src/db/node-lifecycle.ts` where they make and retire nodes.  A full scan and a file watcher process
notes, one `await` per segment.

| variable | code |
|---|---|
| `disk` | a note: here, evicted to iCloud (dataless) or gone; its text and stamp |
| `state` | `obsidian_sync`: text and stamp last digested, and the nodes |
| `node`, `stray` | active nodes that a state or a run knows; those that were left behind |
| `worker` | `processOneFile`, once for a scan and once for each of the watcher's firings (`Watches`) |
| `scan`, `queue` | the scan lock; the changed notes that the scan has yet to take |
| `stale`, `orphans` | deleted notes whose state is yet to go; their nodes that are yet to be archived |
| `stopped`, `watching`, `timer` | the stop flag, the watcher, the debounce timers with their retries |
| `spoiled` | history: notes whose versions were mixed in a known way (section 5) |

Every write is a transaction of its own, and the failure, stop or crash may come between any two:
between the states of deleted notes, between these and their nodes, between two superseded
nodes, between two nodes of a clean-up.  Where the code does not await between two writes
(`MidTurn`) no other callback of the thread runs; the vault may change there, but the code read
it at the start of the turn, so the model lets it change after.  A text without segments
(`<<>>`) is a note that is blank or too short: `preprocessFile` returns null and the note is
skipped, state and nodes untouched.  A note evicted to a `.icloud` stub is, to this code, a
deleted one (`Delete`).

## 4. Runs and bounds

| run | checks | what may happen | states |
|---|---|---|---|
| `settings` | `PauseIsKept`, `ResumeIsSafe` | tests, checks, archive and restore, resumes, crashes, two calls | @settings@ |
| `digests` | `TypeOK`, `OneLiveCall`, `NeverWrittenOff`, `EveryTurnCounts`, `OutcomeIsFinal`, `ImplementsTurns` | an in-process worker, the retry task and stale recovery on one digest; stalls, takeovers, failed releases, restarts | @digests@ |
| `verdicts` | `NeverStranded`, `OustedProbesAreMute`, `NewErrorSurvives` | two workers that stall anywhere; check, test, resume, reset | @verdicts@ |
| `healing` | `OneProber`, `SelfHeals` (liveness) | the same with a budget and a threshold of 2; of the user only the reset | @healing@ |
| `worker` | `TypeOK`, `OneLiveWorker`, `ReleasedAfterShutdown`, `NoStalePrompt`, `EditReachesWorker`, `ShutdownReturns` (liveness) | edits, requests that arrive or fail, a shutdown; threads that fail to boot, hang, crash, learn | @worker@ |
| `passes` | `OneExecution`, `NoEarlyReplay` | the desktop worker and another process; busy database, crashes, an outdated worker, calls and resets beside the passes | @passes@ |
| `scheduling` | `CircuitHeals`, `EveryTaskAttempted` (liveness) | the worker alone with both circuits and a gated task that may fail always; it may be replaced | @scheduling@ |
| `agent_runs` | `OneRunPerFile`, `AppliedIsJournalled`, `NoSecondInstall`, `DisconnectSticks`, `ImplementsFileTurns` | two files, two runs, two faults, one edit of a file, one change of mind | @agent_runs@ |
| `agent_recovery` | `OldWorkStops`, `InterruptedRunsEnd`, `StaleTokenEnds` (liveness) | one file, two runs, two faults, two changes of mind | @agent_recovery@ |
| `cloud` | `UnsentIsMarked`, `NothingSkipped`, `ReconcileConverges`, `EditsSurvive`, `MarkedEditsArrive` (liveness) | two writes anywhere and one fault; clients and timers start and stop at will | @cloud@ |
| `notes` | `StateNamesTheNodes`, `EvictionSpares`, `EditsArrive`, `DeletionsArrive` (liveness) | two changes of a note, two firings of the watcher beside the scan, one failure, stop or crash | @notes@ |

and `replay`, which refutes a sentence of the source (section 5).

**CliRuntime.**  Two calls, two processes, one account, connection and
digest.  Every property relates at most two calls (two callers of one account; an
owner and the reconciliation that judges it; a failing call and the call that is
running when the user resumes), and a call never waits for a third.  Two processes
give a crash and its restart, or two living ones; `OneDesktop` keeps the second
one a server when the first is a desktop.  `LeaseTtl` 1 (2 in `replay`) and `Grace` 0
distinguish valid, expired and stale; `MaxRetries` 2 gives a retry and a last one.
The constraints of `MCCliRuntime` divide the system into the parts one run looks
at; each action is left enabled by some passing run.  In `settings` an unfit connection
(`UnfitWithOne`) and an archived one (`ArchivedWithOne`) meet one call, and leases that could not be
released are left to `digests` (`NoneRetained`), where they meet calls that take a digest for the
first time (`FewRetained`).  They are constraints on states:
TLC evaluates the properties on a step that leaves the part, and does not follow it.
A call happens once, so a behaviour ends when all have been used:
`CHECK_DEADLOCK FALSE`.  The proofs lift every bound.

**ConnectionHealth.**  Two calls and the user meet every pair of verdicts;
slots are reused, so a run contains arbitrarily many calls.  `Threshold` 3 is the
code's; `healing` uses 2, which reaches half-open in fewer steps.  `Cooldown` 1 and
`MaxCooldown` 2 allow one doubling and the cap; `Backoff` 2 lies beyond the cooldown, so
the two ways into half-open differ.  In `healing` the only operation of the user is the
reset, the only one that touches the lease.  Nothing ever stops: both runs check deadlock.

**MetabolismWorker.**  Two edits and one request: a restart can find a restart in each of
its stages (waiting, draining, spawning) and still be followed by one more; the number of
generations follows.  The bound on requests is also that on polls that cannot read the sources.

**Scheduler.**  Two processes compete for the lock and for two tasks, one of which needs
the model.  `Interval` 1 separates an age within it, at its end and past it; a threshold
of 2 gives a failure that trips the circuit and one that does not; a cooldown of 1 doubles
once to its cap of 2.  One crash, which may hit any statement, or one worker that is outdated
in a pass.

**AgentIntegration.**  Two runs are the smallest number with an overlap, a retirement or a
recovery beside a new plan; the properties relate at most two.  A plan of two files is
interrupted between the files, and two faults interrupt its recovery as well; the two files are
interchangeable.  One change of the intent overtakes a run; two, on one file in
`agent_recovery`, give a disconnection and the connection that undoes it, or a pause and a
resume, which `OldWorkStops` is about.  The behaviours end when the bounds
are used up (`CHECK_DEADLOCK FALSE`).

**CloudSync.**  Every rule judges one row at a time, and only pages and batches can tell two
rows from one; the proofs are for any number, the run has one, and liveness too.  Two writes
give every pair of a local edit, a metabolism write, a
retirement, an archive and another device's write, and `Tolerance` 2 makes two times in a row the same
to a manifest, and the initial version and the second write not.

**NoteSource.**  One note with the texts `<<>>`, `<<1, 2>>` and `<<2>>`: it is emptied,
cut short, grown, and a segment stays.  Two firings of the watcher and a scan are all
pairs of runs that can meet on a note.  `Others` stands for notes nobody touches, without
which a scan takes a vault for empty and stops.  Two changes give an edit during the digest
of an earlier edit.  `MaxNodes` 8 is more than the nodes in use at once, whose numbers are
reused; with fewer a digest would wait for a free number.

**Symmetry** permutes calls, processes and files, which are only compared for equality.
No liveness run has any.

**Fairness.**  Nothing is asked of users, other processes or other programs, and every
process may die.  Each run assumes what the code itself brings about:

* `healing`: `WF_vars(Tick)`, the wall clock.
* `worker`: the main thread handles its events, deadlines expire, and the configuration is polled.  Nothing is asked of a worker thread: it may hang for ever.
* `scheduling`: time passes; the worker is timed to try passes, is replaced when it is outdated
  and is started again; a
  task ends, because its calls have timeouts; and the database is not busy for ever at
  the same place of the scan (strong fairness, since a pass comes to that place again
  and again and leaves it when the database is busy).
* `agent_*`: threads of control go on, leases run out, every maintenance pass visits every
  open run (strong: a visit is impossible while a thread owns the run).  A visit finds the source
  unavailable, the host unready or a statement failing only finitely often (these are faults);
  were the source never to be verified, a verified run would stay one
  (`coordinator.ts:944-946`, `:1003-1005`).
* `cloud`: the main thread finishes what it began without an await; the timer of the
  pump fires, and its token and its post succeed now and then (strong: without that nothing
  can ever arrive).  Timers that are not set are an excuse (`~polling`), and nobody has to set
  them.  Nothing is asked of pulls and reconciles.
* `notes`: awaits return, the thread goes on with the turn it is in, a scan takes its next note and
  ends after the last, and the poll timer fires while the source runs.

**Mutants.**  For every property of a passing run the modules define a plausible bug
beside the definition it would spoil (their comments begin with "Mutant"), and
`PROJECT.json` pairs them.  Substituting it makes TLC find the property violated.

## 5. Where code and comments disagree

* **`replay` / `NoReplay`** (`src/db/pending-digests.ts:84`).  A process claims a digest,
  submits its prompt and dies.  Stale recovery looks at the age of the row and not at
  `cli_invocations`, so while no reconciliation has judged the invocation (another
  daemon is already running, or the restart falls in its grace period) the digest is
  claimed again and the prompt is submitted a second time, although "such work must
  not re-enter the ordinary retry queue" (`:187`).

The models above contain the following behaviour too; no run checks it now.

Model calls:

* A digest whose model call failed, or may have run, is completed like any other, its row deleted:
  `dedup.ts:62-68` swallows the error before `digest.ts:329-335` or `tasks.ts:68` could see it.
  What was lost is the duplicate check; the node is there.
* `completePendingDigest` and `failPendingDigest` (`pending-digests.ts:128`, `:168`) change a row by id
  whatever its status: a digest that a reconciliation has parked as ambiguous is deleted, or
  `pending` again, by the retry task that still worked on it.
* A failure that was admitted before an ambiguous call ended writes the circuit `closed`
  and its kind transient (`L/connection-health.ts:336`), though a message says that only the
  user ends an ambiguity (`:366`).  The pause of the connection itself is not affected.
* The refusal to reset an ambiguous connection is decided on a row read before the
  transaction (`:362`).
* The invocation is persisted as ambiguous before the health row is.  If the user resumes
  in between, the row is opened afterwards with a kind no check or test clears (`:397`).
* The fencing token (`C/capacity-lease.ts:87`) restarts at 1 whenever the row was
  deleted.  Leases are told apart by owner and invocation id too, and `OneLiveCall` is
  proved without monotonic tokens.
* A lease whose release failed does not expire by itself if the outcome could not be
  persisted either (`:78`): the account is refused until that process exits.
* The last admission and the commit mark (`C/service.ts:376`) are two transactions, so
  one more prompt can be committed on a connection that was paused in between.
* A connection archived during a call misses the pause and, once restored, looks
  usable until the next check, test or restart.
* An invocation whose child outlived its owner keeps `process_exit_unconfirmed` for
  ever, so its account can never be resumed.

Scheduler and worker:

* In the foreground the desktop's pass stops after one attempt, so a first task that always fails keeps
  the later ones from ever running; `EveryTaskAttempted` is about the background.
* `recordLLMFailure` reads and writes in autocommit, so two processes that fail at once
  may count one failure.  A comment of `runSchedulerTick` says that any error of the
  service skips the remaining tasks; while the circuit is closed they are attempted.
* An edit of the configuration whose fence or fingerprint throws asks for no restart
  (`daemon.ts:235-239`), the user is told that the worker is degraded, and it goes on with the old
  snapshot (or, if the fence was written, has all its prompts refused).  If the watcher's report throws
  twice, or once after a poll that could not read the sources, the edit is forgotten: the watcher
  has taken the fingerprint for known (`metabolism-worker-runtime-mutations.ts:90-106`).  `dropped`
  records both.
* After the worker itself changed a strategy no fence is written: the restart follows,
  and prompts of the old snapshot may be committed until it is drained.

Cloud:

* The downlink takes any archived copy, the manifest and the server compare `edit_seq`
  first: a local unarchive with a higher `edit_seq` is archived again by a pull, against the
  comment of `reconciler-utils.ts:80-84`.  `overlaid` records it.
* While the guard is up, writes of *other* processes are not marked either (comment of
  `schema.ts:37`: the guard is for the downlink); after a crash it stays up until the next
  downlink lowers it.  `lost` records it; only a reconcile finds such rows.
* Two versions with the same `edit_seq` written less than a second apart are the same to a
  reconcile (`reconciler-utils.ts:56-62`), which leaves them different on both sides.
* Deletions are said to travel with the reconcile (`uplink.ts:107`), whose plan downloads
  what only the server has.
* A page fetched before a stop is still applied after it, and neither the cursor nor
  `last_reconcile` is reset when the account changes.

Notes:

* A scan of the poll timer may overlap a watcher's work on the same note, as may two
  firings of the watcher (`obsidian/index.ts:58`; `logseq/index.ts:45` says why it excludes
  this).  The two versions are mixed; `spoiled` records it.
* A note that is emptied, or cut to a few characters, keeps its nodes and its state: `preprocessFile`
  returns null (`preprocessor.ts:70`, `:140`) and the note is skipped.  So the branches for notes
  without text (`queue.ts:218-241`, `:309-318`) are never reached by such a note, though the comment
  at `:309` says that its old nodes are retired.
* A removal deletes all states first (`index.ts:257`) and archives the nodes then (`:262`).  If it
  fails or the process dies in between, the nodes stay active for ever: no state names them, so no later
  scan finds them.  A note whose iCloud copy is a `.icloud` stub is removed as well.
* A failure while the old nodes are superseded one by one leaves a note whose old version is not whole
  (`queue.ts:353-368`); one before it leaves the nodes of a failing digest active for
  ever, and so does a clean-up that fails itself (`:391-400`); `spoiled` and `stray` record them.
* The last note of a vault, once deleted, is never archived: an empty vault looks like an
  unmounted one (`:231`).
* A restart during a first scan leaks a watcher and a poll timer.

Agent integration:

* The journal of a *removal* has no fingerprint to keep (`Saved`).  If the process dies
  after the effect was observed, and the user restores the fragment, a first recovery
  refuses and a second one removes it again.  `NoSecondInstall` is therefore about
  installations.
* A run that waits for recovery, or is verified while the user pauses, keeps every other
  operation on the same installation waiting; one that a disconnection could not prove
  stays in `needs_recovery` after it.

## 6. Proofs

All proofs are checked by tlapm with Z3, Zenon and LS4.  They assume only what each
module assumes of its constants (`ParamAssumption`, `HealthAssumption`,
`BoundsAssumption`, `ConstantsAssumption`, `SyncAssumption`, `SourceAssumption`: bounds are
naturals, `None` is nothing else, a table is finite, a list of tasks has no repetition, a lease
outlasts the budget of its call); TLC evaluates these in every run of the module.

| module | theorem | of |
|---|---|---|
| `CliRuntimeProofs` | `Inductive` | `Spec => []IInv` |
| | `TypeCorrect`, `OneLiveCallCorrect`, `NeverWrittenOffCorrect`, `EveryTurnCountsCorrect` | the invariants of `digests` |
| | `TurnsAreBounded` | no queued digest is worked on more than `MaxRetries` times |
| | `OutcomeIsFinalCorrect`, `ResumeIsSafeCorrect`, `PauseIsKeptCorrect` | the action properties of `digests` and `settings` |
| | `TurnsImplemented` | `ImplementsTurns`: the refinement of `AccountTurn` |
| `ConnectionHealthProofs` | `Stranding`, `WellFormed` | `NeverStranded`, `TypeOK` |
| | `Probing` | `OneProber` |
| | `Ousting`, `Freshness` | `OustedProbesAreMute`, `NewErrorSurvives` |
| `MetabolismWorkerProofs` | `OneWorker`, `Released`, `Fresh` | `OneLiveWorker`, `ReleasedAfterShutdown`, `NoStalePrompt` |
| | `Degraded`, `WellFormed` | `NoSpawnWhenDegraded`, `TypeOK` |
| `SchedulerProofs` | `Exclusion`, `NoReplay`, `WellFormed` | `OneExecution`, `NoEarlyReplay`, `TypeOK` |
| `CloudSyncProofs` | `NoEditForgotten`, `EditsSurviveCorrect`, `WellFormed` | `UnsentIsMarked`, `EditsSurvive`, `TypeOK` |
| `CloudSyncPullProofs` | `NothingIsSkipped`, `ReconcileIsRight` | `NothingSkipped`, `ReconcileConverges` |
| `AgentIntegrationProofs` | `AppliedIsComplete`, `FilesAreExclusive` | `AppliedIsJournalled`, `OneRunPerFile` |
| | `InstalledOnce`, `DisconnectionSticks`, `OldWorkEnds` | `NoSecondInstall`, `DisconnectSticks`, `OldWorkStops` |
| | `TokensOnlyEnd`, `WellFormed` | `VerifiedOnlyEnds`, `TypeOK` |
| | `FileTurnsImplemented` | `ImplementsFileTurns`: the refinement of `FileTurns` |
| `NoteSourceProofs` | `MemoriesMatch`, `EvictionIsSafe` | `StateNamesTheNodes`, `EvictionSpares` |

Each module from `MetabolismWorkerProofs` on also has `Invariance`, `Spec => []IInv` (in
`CloudSyncPullProofs`: `PassedInvariance`), from which the others follow.  Proofs go action by action; lemmas shared by many actions are stated once.

**CliRuntime.**  `OneLiveCall` is not inductive: an in-flight call whose lease row is gone
or whose invocation was judged would be overtaken in the next step.  `IInv` adds `Owned` (a
lease row names an invocation of its own account) and for each call `RowFollows` (what the
invocation row says at each control point), `KeepsLease` (a living caller under its lease
still has the row, whatever its age, since neither takeover nor reconciliation removes it
while the owner lives and its invocation runs), `Unknown` (what a row may say of a submitted
prompt) and `Traced` (what an executing prompt leaves visible: a running row, an
outstanding child in the resuming thread, or an unconfirmed exit).  Two in-flight calls of an account then
hold the same lease row, hence are the same.  `NeverWrittenOff` follows from `Unknown`,
`ResumeIsSafe` from `Traced`: the three guards of a resume exclude the three traces.  The
refinement step needs `KeepsLease` to show that a committing call finds no other turn, and
`RowFollows` that no row is judged during its caller's turn.

`EveryTurnCounts` is about the queue alone (`Counts`): whatever is done to a row, in any status and by
whomever, forgets no turn (`NotLess`), and a claim takes a row that has a retry left
(`Spent`), because a recovery takes one off the budget for the worker it gives up.

**ConnectionHealth.**  `NeverStranded` needs `FaultKnown`: a call about to record a failure
has an error of a class the code can produce.  `OneProber` needs `LeaseLasts`: the lease of a
live probing call, unless it was ousted, has at least `ProbeTtl - age` ticks left, so as
long as the age stays within the budget it is still there to keep the next one out.
`OustedProbesAreMute` needs `Ousted`: a call whose lease went to another, or was deleted by a reset,
is not the owner of the row of leases, and nothing but an admission of its own makes it one.

**MetabolismWorker.**  That one thread lives follows from the fields of the manager
(`Current`): a generation is built only while no controller is current, and a controller
is given up only after the exit event of its thread, which is the last message of its
outbox (`Life`).  That a new thread never has the number of an old one is `Unused`.  The manager's methods are
functions, so each has one lemma (`Follows`) that says what it does to these fields, and the
handlers only combine them.  The fence of prompts (`Fences`) is independent: whatever
generation the revision row names was built from a snapshot no older than the last fence.
`TypeOK` bounds the generations by the edits and requests, and only counting shows it:
`Budget` adds the restarts asked for and the reports still under way, of which an edit
causes one by the mutation or the poll and one by the worker itself, and `Counted` says
that a generation is built only for the start or for a restart that was asked for.

**Scheduler.**  Only the owner of the run lock is inside a pass (`InsidePass`), and the age of
a claim is at most the age of the last attempt that may have had an effect
(`ClaimsAreYounger`): so a claim that is old enough to be swapped has no such attempt
within its interval, although rollbacks rewrite the row.

**CloudSync.**  The order of the manifests (`Beats`) is shown to be a total preorder that the
server's rule never descends; so what was read from the server, by a page, a manifest or a
fetch, is never newer than what it holds later (`Held`).  `UnsentIsMarked` then needs one fact
about the pump (`Marks`): a row it is posting that is neither marked again nor lost is the
version that is here, or the server already holds something as new.

`NothingSkipped` is not inductive, because a page is in memory while the cursor is not yet
moved.  `Passed` says what lies behind each: behind the cursor nothing is missing, behind a
page at most its own rows, unchanged on the server since, and behind a page whose rows were
applied nothing either.  A step of the server keeps it because the row it changes gets a
version ahead of all of them (`Numbered`, and the lemmas on `Onward`); a step here keeps it
because a row that gives way to an older one is recorded in `overlaid`.  The last is true only
if two copies with the same `updated` are the same write (`WritesApart`).  For
`ReconcileConverges`, `Converging` follows the stages of a reconcile that is still `quiet`:
the manifest is the server's, the rows to post are those that win here and the rows to
download those that win there; then nothing wins here; then nothing wins anywhere.  Winning is that
of the plan (`Planned`), which is not transitive under a tolerance; the proof only needs that a
copied row is the same as its copy.

**AgentIntegration.**  A thread owns its run by the execution fence (`Works`), so its record
of it stays true although the run is changed in the database by others, except by a
disconnection, which only takes runs that wait or are applied.  An applied run has nothing
left to write (`Journalled`); hence the run a disconnection overtakes and the run that
overtakes it never share a file (`Exclusive`).  `NoSecondInstall` needs that a thread on
its way to a write has an entry that was never proved: a new run starts with none, and a
recovery asks the evidence of the entry.  `OldWorkStops` is the chain *revision of the run ≤
revision the attempt began with ≤ revision of the intent* (`Works`, `Fits`, `Dated`), closed by the check
at the boundary.  The refinement needs that a turn ends with its effect seen, for
which `EInv` adds `Witnessed` (an entry past the read-back, or with a receipt, is proved),
`Sure` (so is the entry that a thread is about to save as such) and `Settled` (a run not begun or
cancelled has nothing uncommitted); a write that is not a repetition is `InstalledOnce`, one under
a removal `DisconnectionSticks`, and `Exclusive` shows that the files of a new plan are
in nobody's turn.  No theorem needs the writer fence: it keeps out other programs and other
installations, not the runs of this one.

**NoteSource.**  The nodes of a note, those its state, its runs and the graph hold, are never
another note's (`Apart`): a new node has a number that nobody holds, so `CreateNode` counts
those as in use that only a run remembers.  A note that is not spoiled (`FileOK`) is free
and `Remembered` (its state is whole and names just its active nodes), or in the hands of
one run that knows this state (`InHand`), or about to be archived (`Orphaned`: without a state,
and all its nodes on the list of the removal).  `StaleOK` says that what a removal has yet to take are
deleted notes.  Under `InHand` the old version is whole until
each new segment has its node, the new one is from then on, and in between both sets of nodes
are active; that a segment keeps its node only at its own place is what makes the
switch right.  A run that fails leaves behind just what it created (`LeaveBehind`), which
returns the note to the first case.  `EvictionSpares` needs `Apart` too: another note's run
must not retire a node of the evicted one.

## 7. What is only model-checked

* *Liveness* (`SelfHeals`, `EditReachesWorker`, `ShutdownReturns`, `CircuitHeals`,
  `EveryTaskAttempted`, `InterruptedRunsEnd`, `StaleTokenEnds`, `MarkedEditsArrive`,
  `EditsArrive`, `DeletionsArrive`): it rests on fairness, whose ENABLED the provers do
  not handle.
* Nothing else: every invariant and every action property of a passing run has its theorem.
  `replay` is a counterexample and needs none.
* No module declares a RECURSIVE operator.

## 8. What is not modelled

`PROJECT.json` lists each component with its status and what its module leaves out.  In
short:

* *Arithmetic and text*: embedding, ranking, graph scores, the prompts of the
  metabolism tasks, segmentation, Markdown and canvas parsing, strategy files.
* *I/O whose result is an arbitrary success or failure to its caller*: discovery and probing of
  executables, host adapters, update downloads, views.
* *Protocols of their own, not begun*: token refresh of the cloud account, schema migration
  and recovery, the updater's staging, the Notion, Logseq and Apple Notes sources.
* *Inside the modelled components*: reuse of process ids, creation and deletion of
  connections, a clock that is set back, the cache of SDK clients, usage accounting, the
  draining of calls at shutdown (model calls); fingerprint and identity checks of the startup handoff
  and the schedule context (worker); the cloud's switch for the metabolism and the checkpoint of the log
  (scheduler); web socket, device registration, strategy
  push, re-embedding, hard deletes, and the outbox, which nothing fills (cloud); tags and links
  between notes, initialisation and its rollback (notes); shared identities, ownership
  transfers and compensation, consent coverage, the repair budget of missing artifacts,
  apply tasks (agent integration).
