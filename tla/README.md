# A verification project for codereview-cli

`cr` reviews pull requests with language-model reviewers. It reads a pull
request from GitHub or GitLab, plans a review, stores the plan in a local
SQLite ledger and posts it: replies to threads, resolved threads, inline
comments, one rollup comment and one verdict. Everything here is about what the
program does with its own state and with the pull request; what the language
model answers is an input.

Contents: [the system](#1-the-system), [the plan](#2-the-plan),
[Outbox](#3-outbox), [ReviewGate](#4-reviewgate), [ReviewRun](#5-reviewrun),
[LedgerStore](#6-ledgerstore), [DataRoot and Startup](#7-dataroot-and-startup),
[InitSession](#8-initsession), [ReviewRounds](#9-reviewrounds),
[ModelTask and GitHubClient](#10-modeltask-and-githubclient), [the runs](#11-the-runs),
[what is proved](#12-what-is-proved),
[disagreements](#13-where-code-and-documents-disagree),
[limits](#14-what-is-abstracted-and-what-is-not-modelled).

To repeat a check, in this directory: `tlc -workers 2 -config outbox_github.cfg MCOutbox`
for a run (`PROJECT.json` names the module of each configuration), `tlapm OutboxProofs.tla`
for a proof module.

## 1. The system

One invocation of `cr review` is one process. Processes share a ledger file,
lock files, artifact directories and a configuration on one machine, and the pull
request on the host. Nothing else is shared; two machines meet on the pull request only, through
the markers (HTML comments with the run, its scope and the action) that every
post carries.

```
 cr review ── gateio.Evaluate ── reviewrun ── pipeline ── llmlifecycle ── llmadapters ── provider CLI
     │             │   │              │           │                                     (subprocess)
     │         runlock │              │       checkpoint
     │                 └── gate.Decide│           │
     │                                └── outbox ─┴── gitprovider (github, gitlab) ── pull request
     └────────────── ledger (SQLite, one writer) ── datalifecycle (prune, retention)

 cr init ── initcmd ── credentials (keyring) ── config (one file, one lock)
```

### Components

| part | state it keeps | operations | what makes it correct | here |
|---|---|---|---|---|
| `outbox` | rows of `planned_actions` (status, class, attempts), the run's outcome | `Post`, `PostCheckpoint`, `recoverWrite` | every action reaches the pull request at most once; the ledger never claims more than the host shows; the recorded outcome is honest; a pass ends | `Outbox` |
| `gate` | none (pure) | `Decide`, `DecideLocal`, `RetryEligible` | exit early, resume, repair or start afresh, from rows and markers | `ReviewGate` |
| `gateio` | runs of the pull request in the ledger, scope locks | `Evaluate`, lock probing, reaping stale runs, repair, retry-posts, approval override | one process at a time works on a scope; what was delivered is not delivered again; stale runs are aborted, live ones are not | `ReviewGate` |
| `reviewrun` | the run in hand | `Run`, `planOrResume`, `continueRun`, `abortIfMoved` | a verdict is posted only while the pull request is where it was planned for | `ReviewGate` |
| `pipeline` | artifacts, LLM task metadata, checkpoint rows, saved cohort, named session | `Live`, `DryRun`, reviewer cohort, thread checkpoint, plan | every selected reviewer is run or reported; the final plan keeps the checkpoint rows; a pass that was cut can be continued; an approval covers the change, in every round | `ReviewRun`, `ReviewRounds`; its posting in `Outbox` |
| `ledger` | SQLite database, one writer goroutine, queue of 64 | writes, `AllocateRun`, `CompleteRun`, `Close` | an acknowledged write is durable and applied once, as a whole; attempts of a scope are unique; `Close` loses nothing it accepted | `LedgerStore`; rows in `Outbox`, `ReviewGate`, `ReviewRun` |
| `runlock` | lock file per scope | try, hold, release | exclusive; free when its process is gone | `DataRoot`, `ReviewGate` |
| `runlifecycle`, `datalifecycle` | active-runs lock; ledger rows, artifact directories | hold shared, prune, delete, orphan sweep | pruning never removes what a running review uses | `DataRoot`; rows in `ReviewGate` |
| `approvaloverride` | none | decides whether an author's request lifts an approval | needs an active approval and a request newer than every marker | `ReviewGate` |
| `threadrespond`, `threadcontext`, `threadanalysis` | a response run and its rows, cached analyses | `cr respond`, resume, eligibility | a thread gets one reply; a cached answer is used only for the thread it was made for | one disturbance of `ReviewGate`; the analysis in `ReviewRun` |
| `llmlifecycle`, `sessionreuse` | task directories, session rows | run a task, reuse its output, resume or fork a session | a task's output is used only for the input it was made from; what is stored can be loaded; nothing is paid for twice | `ReviewRun` |
| `llm`, `llmadapters` | subprocesses, streams, timers | start, wait, cancel, transient retry, background to foreground retry, RPC settlement | a task ends, with an answer of its own session or a reason; nothing is run twice at once | `ModelTask` |
| `gitprovider/github` | installation token | reads with retries, writes without | a call gives up within attempts, wait and total time; a token outlives the loop that sends it | `GitHubClient`; writes in `Outbox` |
| `gitprovider/gitlab` | – | reads and writes without bundling | – | a parameter of `Outbox` |
| `token_bucket` (`internal/outbox/token_bucket.go`) | tokens and last refill per host | `Wait` | the write rate stays under the limit, a waiter is served | no |
| `dbmig` | schema version in `meta` | apply migrations under the write lock | versions are applied in order and once; a newer schema is refused | `Startup` |
| `runartifact`, `fsatomic`, `statepaths` | files of a run, the state root | write atomically, mark, locate; move an old release's state | a reader sees a whole file; an old release's state arrives whole | `DataRoot`, `Startup` |
| `reviewplan`, `review`, `plannedactions` | none (pure) | findings to actions, event of the verdict, payload validation | the event follows from findings and policy; nothing is raised twice; no finding is lost | `ReviewPlan` in `ReviewRounds`; kinds and derivability in `Outbox` |
| `marker` | none (pure) | encode, parse, classify | parsing what was encoded gives it back; text of others is not a marker | by meaning |
| `credentials` | cached secrets, reads in flight | single-flight `Get`, `Close` | one read per key at a time; a cleanup spares keys that are needed | the cleanup in `InitSession` |
| `hooks` | commands in flight | `Dispatch`, `Drain` | every dispatched command is waited for | no |
| `config`, `configedit`, `cmd/initcmd` | one YAML file under a file lock; the draft of an init session | read, merge, edit, delete, undo, save | what others saved is not lost; secrets are there before they are named; undo restores | `ConfigFile`, `InitSession` |
| `agents`, `agentfreshness`, `stagemodel`, `modelcatalog`, `modelprefs`, `pricing` | none (pure) | catalogues, globs, resolution of model and effort | a required agent sees the files it matches; precedence of overrides | the globs in `ReviewScope` |
| `dossier` | summary of the discussion | summarise, start over when the discussion changes | reviewers see the discussion as it is | `ReviewRun` (as a task) |
| `gitexec` | none | `git fetch` with a token per attempt, other git commands | a fetch is repeated only when that may help, each time with a live token | fetches in `GitHubClient` |
| `workbench`, `symlinkmetadata`, `pireviewtool` | worktrees, diff snapshots | prepare a checkout, read-only review tools | reviewers see the head that is reviewed | no |
| `app`, `appruntime` | – | wiring, progress | the thread checkpoint is run before the final plan | `Outbox` (checkpoint) |
| `identity`, `prref`, `reporoot`, `reportidentity`, `invitations`, `gitproviders`, `progress`, `view`, `version`, `benchmark`, `cmd/*` | – | parsing, output, shells of commands | sequential, no shared state | start, flags and exit of a process in `ReviewGate` |

### What is hard to get right

- **Writes of unknown fate.** A provider call that fails may have been applied,
  may be applied later, or not at all; a process may die right after it. Only the
  markers on the host tell. (`outbox`, `write_retry`)
- **State read before a lock and used under it.** The gate lists reviews first,
  takes its lock second and reads comments third. (`gateio`)
- **Two sources of truth.** The ledger may lose rows (retention, another
  machine), the host may lose nothing but shows only what was posted.
- **Rows of other commands in the same table.** Dry runs, `cr respond` and
  approval overrides allocate rows of the scope that `cr review` then meets.
- **A moving pull request.** Head or base change while reviewers work for
  minutes; a run must stop short of posting.
- **Crashes between any two steps.** Everything persisted must lead the next
  invocation to a sensible decision.
- **Resuming by fingerprint.** A stored answer is good only for the very prompt it
  answered, and prompts contain what the run itself has changed since.
  (`pipeline`, `llmlifecycle`)
- **A batch that is cut by its first failure.** Siblings see a cancelled context,
  waiting goroutines leave silently, and all share one saved cohort.
- **Cancellation and timers around subprocesses**, and results that arrive
  after them. (`llm`, `llmadapters`)
- **Clocks that bound each other.** Attempts, waits the host asks for, a total time,
  an HTTP timeout, and a token that was fresh when the loop began. (`gitprovider/github`)
- **One queue, one writer, one mutex.** A sender keeps the mutex while it waits
  for room; closing must let everybody through. (`ledger`)
- **Advisory locks that may be refused.** A run goes on without the lock, a prune
  gives up; a purge removes the very file that is locked. (`runlock`,
  `datalifecycle`)
- **Several steps without a lock.** Two releases start at once on an old state
  directory. (`statepaths`, `dbmig`)
- **A long edit of shared configuration**, with deletions that can be undone in any
  order, and two stores to be saved to. (`initcmd`, `config`, `credentials`)
- **What is kept between rounds**: a saved cohort meets another change and other
  agents. (`pipeline`, `reviewplan`)

`PROJECT.json` lists each hazard with its line and with the properties that are
about it, or a note that says why there is none.

## 2. The plan

Most important first; an item is done when its runs, mutants and proofs are.

| # | module | what | abstract specification | proof | state |
|---|---|---|---|---|---|
| 1 | `Outbox` | posting one run | `Delivery`: at-most-once delivery with an honest verdict | safety and the refinement | done |
| 2 | `ReviewGate` | invocations on one pull request; one delivery step stands for a pass of 1 | ownership of runs, stated as invariants | type, exclusion, silence after a move | done |
| 3 | `ReviewRun` | planning passes of one run: pipeline stages, reviewer fan-out with first error and cancellation, `llmlifecycle` tasks and session rows over crashes, the saved cohort | each task runs to one stored output, stated as invariants | type and all safety invariants | done |
| 4 | `LedgerStore` on `LedgerRows` | writer goroutine, bounded queue, `Close`, every method as a transaction | `Ledger`: a call takes effect as a whole, at one moment, or not at all | no send on a closed queue, `Close` drains | done |
| 5 | `DataRoot`, `Startup` | runs against retention and purge on one data root; how a process comes by its database | - | type and all safety properties | done |
| 6 | `InitSession` on `ConfigFile` | `cr init` with edits, deletions, undo and save beside another command | - | all safety properties | done |
| 7 | `ReviewRounds` on `ReviewPlan` and `ReviewScope` | rounds of review: who reads what, what is raised, how it ends | - | approvals are covered, rounds do not repeat | done |
| 8 | `ModelTask` | one task through a subprocess, a stream or a background job | - | type and all safety properties | done |
| 9 | `GitHubClient` | calls, fetches and the token of one client under the retry policy | - | calls end in time, tokens outlive their loops | done |
| 10 | `ThreadRespond` | `cr respond` step by step: runs that are cut, taken up, refused, run again | each remark answered at most once | nobody is answered twice | done |

What happens inside the label `plan` of 2 is 3, what it decides about files and findings
is 7, what a task of 3 does to get its answer is 8; 3 ends in the plan that 1 posts; the
rows all of them use are those 4 keeps, in the root that 5 guards. What 1 sends and
2 reads goes through 9. 10 is what happens inside the atomic disturbance `Respond` of 2. Modules meant for proofs use no recursive operator. The
runs are few and each asks its own question.

## 3. Outbox

`Outbox.tla` is one run's way to the pull request: `internal/outbox/outbox.go`
(`Post`, `PostCheckpoint`, `finalOutcome`), `write_retry.go` (`recoverWrite`) and
their callers in `pipeline` (checkpoint and final plan), `gateio`
(`executeRetryPosts`) and `reviewrun` (`continueRun`).

State. `planned`, `status`, `class`, `attempts`, `outcome` are the ledger's rows
and the run's outcome. `pc`, `mode`, `why`, `todo`, `cur`, `bundle`, `sends`,
`spent`, `err`, `seen`, `seenResolved` are the locals of one pass: lost in a
crash. `copies`, `resolved`, `late` are the host: how often an action is on the
pull request, which threads are resolved, and writes that were reported as
failed and are still being processed. `faults` counts injected failures.

Steps. A pass reads threads and reviews (`ReadThreads`, `ReadReviews`), marks
what it finds (`ReconcileHit`), then takes actions in the order of `sortActions`
(`First`): plan the payload (`PlanFails`), wait for the limiter (`LimiterFails`),
count the attempt (`Attempt`), send (`SendAccepted`, `SendRefused`,
`SendUnclear`), and record the answer (`RecordPosted`, `RecordRetryable`, …). A
send with an unclear answer goes to `RecoverWait`, `Wake`, `RecoveredByMarker`,
`Resend`: the loop of `recoverWrite`. Every ledger update and every provider
call is a step, so `Crash` falls between any two. `LateWriteLands` and
`LateWriteLost` decide about `late` writes at any time; `HumanResolves` is a
person on the pull request.

`Delivery.tla` is what the outbox promises, with three variables: what was
delivered, what was acknowledged, and the verdict. `ImplementsDelivery` maps
copies, posted rows and the outcome to them.

`SettledStart` names the one assumption at-most-once needs: an invocation starts
after the host has settled the writes of the one before it. Within a pass the
code waits for the settle time (`WriteSettle`) before it looks and resends;
between invocations it waits for nothing. With `SettledStart = FALSE` TLC finds
the duplicate in a few steps: a write is reported as failed, the process dies,
the next invocation does not see it and sends it again, then the first lands.

## 4. ReviewGate

`ReviewGate.tla` is several `cr review` processes on one pull request, for one
profile and posting identity: `gateio.Evaluate` and what it calls, `gate.Decide`,
`reviewrun`, and the parts of `pipeline`, `ledger`, `runlock`, `runlifecycle`,
`datalifecycle`, `threadrespond` that change what they share.

State. `runs` and `nextRun` are the ledger's runs with their scope, attempt,
state and the status of their reply, rollup and submit. `lock` gives the owner
of each scope's lock file. `pr` is where the pull request is, `posts` everything
on it in order, with the marker's content. `pc` and `job` are the processes;
`job.rev` and `job.com` say up to which post a process has read reviews and
comments: reading is taking a snapshot, and a stale one stays stale.

| label | code | actions |
|---|---|---|
| `precheck` | `Evaluate` before the lock: list reviews, resolve | `Precheck` |
| `lock` | `runlock` try | `Acquire` |
| `host` | comments, again reviews from the second round on | `ReadHost` |
| `override` | the author's request against an approval | `NoOverride`, `AllocateOverride` |
| `local` | rows of the scope, `DecideLocal` | `LocalReview`, `LocalResume`, `LocalRerun`, `LocalRetry`, `NothingToRetry` |
| `probe` | `attachExternalState` | `Probe` |
| `decide`, `reap` | `Decide`; abort of stale runs and start over | `DecideExit`, `DecideFresh`, `DecideRepair`, `DecideAbort`, `AbortStale`, `StaleAborted` |
| `supersede` | `--rerun` | `Supersede`, `Superseded` |
| `insert` | repair: run, action, state | `InsertSubmit`, `InsertFails` |
| `chosen`, `plan`, `reviewers` | `planOrResume`, `pipeline.Live` | `KeepPlan`, `EnterPlanner`, `CheckpointLook`, `NoThreads`, `Plan`, `PlanFails` |
| `checkpoint` | `PostCheckpoint` behind its look at the pull request | `Checkpoint`, `PostThenCrash` |
| `premises` | `abortIfMoved` | `Premises` |
| `post` | the outbox, one delivered action per step | `PostAct`, `PostFails`, `PostStaleSHA`, `PostThenCrash`, `Finish` |

The thread checkpoint is two steps, as its look at the pull request (`CheckpointLook`,
`outbox.go:338`) and the reply it sends (`Checkpoint`, `:345` to `:418`) have the listing of the
host and the wait for the limiter between them: the pull request may move there.
`Move`, `Ask`, `ManualReview`, `DryRun`, `Respond`, `Prune` are the rest of the
world; `Crash` frees a process's locks and forgets its locals.

## 5. ReviewRun

`ReviewRun.tla` is the planning half of one live run, over as many passes
(processes) as it takes: `pipeline.executeLLMPhases` and what it calls,
`llmlifecycle`, the saved cohort and named session of the ledger, and the part of
`reviewrun.planOrResume` that decides whether a cut run is taken up again. What
runs against other processes is `ReviewGate`'s subject; here one pass follows
another, as the scope lock makes them.

State. `meta`, `output` and `rows` are the task directories and session rows of
the run; `plan`, `reply` and `outcome` its planned rows and outcome; `cohort` and
`named` the ledger rows that outlive the run; `discussion` and `replied` the pull
request. The rest is the process and is gone with it: `pc` is the phase, `job`
the call of each task, `rpc` where each reviewer's goroutine is, `firstErr` the
error that cancelled the batch, `dead` a cancelled context. `meta[t].cut` and
`error` are kept for the properties only.

Every question to a model is a task with the same life:

| step | code | actions |
|---|---|---|
| take what is stored | `LoadStructured`, `ValidateMetadata` | `Load`, `Refuse`; `ResetDossier` for the one task that starts over |
| ask | `RunStructured`, `RunStructuredWithSessionResume` | `Call`; `Return` with an answer or a failure, `ReturnNothing` without a session, `ReturnLate` after the context is done |
| store | `InsertSession`, `WriteSuccess`, `WriteFailure` | in `Return`; `WriteOutput`, `WriteMeta` with `FinalStatus` |

Between the tasks go the phases, in the order of the code: `StartPass`,
`AfterDossier`, `LoadCohort`, `AfterSelection`, `PersistCohort`, `AfterThread`,
`PlanReply`, `PostReply`, `MarkPosted`, `StartReviewers`, `Join`, `AfterRollup`,
`Publish`. Within `reviewers`, each goroutine goes `Acquire`, its task,
`AfterPrimary`, perhaps a repair, `AfterRepair`; or it leaves with `GiveUp`.
`Crash` ends a pass anywhere, `Cancel` marks its context, `Comment` is a person.

`Input(t)` says what a task's fingerprint covers. It is the heart of the module:
whether a stored answer is taken, refused or asked for again depends on nothing
else. `FindingIDs` stands for the identities that `DecodeFindings` gives to
findings whenever it decodes a report, fresh or stored: a name per pass.

## 6. LedgerStore

`LedgerStore.tla` is `ledger.Store` as the goroutines of one process use it.
`LedgerRows.tla` holds the rows and, for each method that writes, the list of its
statements: what each does to the rows, what constraint may refuse it, which ones
find nothing to change. `Ledger.tla` is the promise.

State. `db` are the committed rows: runs with their attempts, findings, planned actions,
sessions, the named session and the reviewer cohort, with the foreign keys between them.
`mutex`, `closed`, `queue`, `sealed`, `open` are the fields of the store; `pc`, `req`,
`answer`, `seen`, `cancelled` belong to the callers, `writer`, `serving`, `result`, `txn`,
`todo` to the writer goroutine.

Steps. A write takes the mutex (`LockToSend`), waits for room with the mutex held
(`Send`, `SendCancelled`), gives it back and waits for its result (`Receive`). The writer
takes a request (`TakeRequest`), opens a transaction (`Begin`), runs one statement after
the other (`Execute`), and commits, rolls back or gives up (`Commit`, `Refuse`,
`Rollback`, `AbandonTxn`, `StatementFails`), then answers (`Reply`). Reads look at the
closed flag (`CheckOpen`) and query; the cohort is two queries (`QueryHeader`,
`QueryMembers`) outside a transaction. `Close` marks, seals the queue under the mutex
(`CloseFirst`, `CloseAgain`), waits for the writer (`Drain`) and closes the database
(`Shut`). `Cancel` ends any context, `Crash` keeps `db` and nothing else.

`ImplementsLedger` maps a call to "pending" until the writer has committed it, and to
"done" with its answer from then on, although the caller learns it later: so an error may
not be reported for what was committed, nor half of a method be seen by anybody. The one
read of two statements may see two states; the promise says so (`LookAtHeader`,
`LookAtMembers`).

Taken from SQLite and its driver (external): a transaction is all or nothing, also when
its context is cancelled or the process dies, and a single statement is a transaction.

## 7. DataRoot and Startup

`DataRoot.tla` is what several processes do to one data root: `pipeline.execute` and
`threadrespond.Run` with the lock they take, `datalifecycle.PruneGuarded`, `Prune`,
`Purge`, and `cr data`. A lock is on a *file*, the path is one more piece of state
(`lockfile`, `database`): after a purge the next process creates and locks another one.
`rows` are the runs in each database file, `dirs` when a run's directory was last changed,
`marked` whether its marker is in it; per process `fd` and `held`, the run in hand, and
what a retention pass has selected and listed.

A retention pass lists runs (`ListRuns`), deletes a row and then its directory
(`DeleteRun`, `RemoveArtifacts`), reloads the rows (`Reload`), lists the directories
(`Walk`) and removes what nobody refers to (`Sweep`). A runner's gate resumes or allocates
a row (`Gate`), tries for the shared lock (`OpenShared`, `FlockShared`) and goes on without
it, looks for a run to resume (`Find`), sets directories up (`SetUp`), allocates
(`AllocateRun`), marks (`WriteMarker`), works and posts. Time passes in `Tick`;
`SetUpWithinGrace` is the one assumption on it: a run is set up within the grace of an
orphan (24 hours in the code).

`secured` remembers who got the lock. `GuardedRunKept` speaks of those runs only and,
since a purge is told to take everything, of roots that were not purged.

`Startup.tla` is how a process comes by its ledger: `statepaths`' migration of an old
release's directory, `OpenLedger`, `dbmig.Apply`. No lock is held. Each `stat`, rename and
directory listing is a step, as is each transaction of the schema migration; processes
of two releases start in any number, and die. `place` says of each old entry where it is,
`own` and `early` what the root had besides, `version` and `applied` the schema of the two
databases there may be. `alone` remembers whether a process met nobody: then it finds
everything (`AloneFindsAll`), however many starts died before it. With company it need not,
see section 13.

## 8. InitSession

`ConfigFile.tla` says what a configuration is: accesses, reviewer entities and runtimes
by name, profiles that name them and carry copies of what the names stand for, routes.
`InitSession.tla` is `cr init` on such a configuration (`cmd/initcmd`), and its save
(`applyInitApplicationPlan`, `credentials` planning, `config.Save`), beside one other
command that saves a route or a credential.

State. `cfg`, `active`, `touched` are the draft, the profile on the screen and the record
of touched profiles; `writes`, `overwrite`, `satisfied` the credentials given so far;
`pending` the deletions that can be undone. From Save on `entries`, `settled`, `planned`,
`forced`, `stale`, `written` are the plan. `disk`, `store`, `lock` are the file, the
credential store and the file's lock; `base` and `draft` what each writer has read and will
write. `trail` remembers the drafts that the deletions not yet undone were made on.

Steps. The menu: `StageAccess`, `StageEntity`, `StageRuntime`, `EditProfile`,
`EditRuntime`, the four `Delete…` and the four `Undo…`, `Abandon`. Then `Save` or
`RefusePlan`, `Ask` for each credential the plan lacks, `GoBack`, `BeginWrites`, `WriteBundle`
per credential, `Acquire` or `AcquireTimesOut`, `Check` of the digest under the lock,
`Rename`, `Clean`, `Cleaned`. `Break` is a failing call or a kill at any of them.

## 9. ReviewRounds

`ReviewScope.tla` holds the operators that decide who reads what: how a proposal of the
orchestrator is adjusted to the catalog (`Adjusted`: unknown files dropped, required
reviewers added and widened, caps, exclusions reconciled, leftovers covered), how a saved
cohort is rebased on the present change (`Reused`, `Grown`, `NeedsFresh`), what a pass left
unread (`Missing`, `NeedsRepair`, `Merged`) and whether everything was read
(`CoverageComplete`). `ReviewPlan.tla` holds what follows from findings: the checks of a
rollup and its replacement, the event of the verdict, anchoring, the cap on inline comments
and the comparison with what was raised before (`Comments`, `KeyOf`).

`ReviewRounds.tla` puts them to work over several rounds. `change` is the head and the
catalog loaded for it, `cohort`, `stored`, `threads` are what outlives a round (ledger, run
directory, pull request); the rest is the round's. `Push` changes the head or the agents.
`BeginFresh`, `BeginFirst`, `BeginReused` start a round, `Select` takes a proposal or the
stored selection, `Review`, `ReviewFails`, `Repair`, `RepairFails` are the reviewers,
`Rollup` plans, `Publish` posts one comment, `Finish` or `Abandon` end. A model's answer is
anything its decoder accepts. `read` is the measure that the code does not have: the files
that a pass with proven tool use has read.

## 10. ModelTask and GitHubClient

`ModelTask.tla` is one task given to a model through a command line tool
(`llm/subprocess.go`, `llm/adapter.go`, `llmadapters`): the child with its pipes and its
context, the goroutine that reads and judges it (`read`), Pi's settlement watch (`watch`),
Claude's background job (`job`), the result of the first attempt while a retry runs
(`first`), and what the caller got (`out`).

The child, a worker that left its process group and holds the pipes, and Claude's job
service are external: they take any step they can, or none. A line of output is what it
means to its reader (`PiLines`, `CodexLines`). The reader takes a line (`TakeLine`),
handles it in a later step (`Handle`), so that the settlement timer falls in between (it fires,
`TimerFires`, and can then not be stopped any more; its goroutine marks the watch,
`TimerExpires`, and cancels the run, `TimerCancels`, when it comes to it); meets the end of the stream (`ScanDone`), waits
(`WaitChild`), judges (`Judge`, by the four verdicts). A background job goes through the
child that hands it over, `PollState`, `PollNothing`, `PollTimeout`, `AwaitSession`,
`ReadResult`, and is then cleaned up: `StopJob` when it failed, `RemoveJob` always. These two run
commands of their own (`CleanUp`, `runClaudeBGCommand`) under a limit of ten seconds, and any
descendant of such a command may hold the output it was given (`held`) until it pleases to let
go (`DescendantLetsGo`): the limit kills the command and does not close its pipes. `Retry` is the one retry in the foreground, `Return` answers. The
budget and the caller end the context (`BudgetEnds`, `CallerCancels`); the system then
kills (`Kill`), and the grace closes the pipes (`ClosePipes`).

`GitHubClient.tla` is a client of the GitHub provider that signs in as a GitHub App
(`gitprovider/github/retry.go`, `app_auth.go`, `http.go`, `gitexec/client.go`), and the calls
made with it. `left` is the life of the stored token and `mu` its mutex; `call` is what each
goroutine is doing: waiting for the mutex, looking the installation up, minting a token,
sending a request, running git. Looking up, minting and a read are the same loop
(`Failed`, `Wake`, `SleepCut`, with `GivesUp` for all its ways out); a write is sent once. A
listing asks for the token again for each page (`NextPage`), a fetch for each attempt
(`FetchAgain`). Time is one `Tick` for all clocks, which waits for everything that is due
(`Urgent`): what code does between two waits takes no time. `Cancel` ends a caller's
context at any moment; the construction has a deadline of its own (`initLeft`).

### ThreadRespond

`ThreadRespond.tla` is `cr respond` (`threadrespond.Run`): several processes on the threads
of one pull request. `thread` are the threads on the host, `head` stands for head and base,
`runs` are the rows of response runs with their planned actions and the analyses in their
directories, `lock` the live-run lock of each head; `pc`, `req`, `work` belong to a process.

`ReadPR`, `Lock`, `Busy`, `Recheck` and `MovedBeforeLock` are `readPRWithOptionalLock`. `List`
keeps the eligible threads as they are now (`seen`), `Resume`, `Allocate` and `Mark` are
`allocateOrResumeRun`. A run with planned actions is posted as it stands if the options and
the threads allow it (`LoadActions`), or fails (`Refuse`); otherwise the threads are analysed one
by one (`Reuse`, `Analyse`, `AnalysisFails`, `Stale`), the answers planned in one transaction
(`Plan`), and posted (`Unmoved` or `Moved`, `Reconcile`, `Send`, `Complete`). `RetryRun` and
`RefuseRetry` are `--retry-posts`. People comment and settle threads (`Deed`), somebody
pushes (`Push`), a process dies (`Crash`).

`AnsweredOnce` speaks of all runs of all processes at once: when a reply lands, the comments
of people behind our last answer are not all older than what the reply's run has read. `EventuallyAnswered`:
with finitely many disturbances and repeated calls nobody waits for ever, so a run that can never
go on must not be found again. A thread that the model has decided to leave without a reply does not
wait (`Waiting`).

## 11. The runs

| run | question | answer |
|---|---|---|
| `outbox_github` | a host that bundles inline comments into the verdict and declares a settle time; checkpoint pass and final pass, failures anywhere, payloads that do not validate | nothing is posted twice, an outage does not multiply the waits, `Delivery` is refined; with finitely many failures and repeated invocations the run settles |
| `gate_seq` | one invocation after the other, with `--rerun` and `--retry-posts`, over three scopes (another head, another base), everything else may happen in between | no repeated review by what `cr review` posts unasked (no `--rerun`, no `--retry-posts`), a scope with a verdict exits early |
| `gate_race` | two processes that invoke `cr review` again and again while the base moves | a run is worked on under its scope's lock only and stays its owner's; nothing is posted for a scope that was left, but by whoever had looked before; once the pull request stays put it is reviewed, or a failed run is left to the user as the gate's message says |
| `review_run` | two passes over one run, two reviewers, one of them required, one or two slots, with and without a saved cohort, a pending thread, `--fresh-session` | nothing is paid for twice; every reviewer is accounted for; nobody is blamed for a sibling's failure; sessions keep apart; a pass ends |
| `ledger` | three goroutines, a queue of one, three calls: one of any kind (two runs, a planning result that grows, a cohort), one that replaces the cohort, `Close`; one crash, cancelled context or failing statement | `Ledger` is refined: all or nothing, and what is reported happened; nothing accepted is left behind when the database is closed; every call returns |
| `dataroot` | a live, a dry and a response run, a prune with any selection and a purge, crashes | a run that got the lock keeps its row and directory; the sweep takes no run's directory |
| `startup` | two processes of two releases, three old entries, four starts, crashes | alone, a start finds everything; nothing earlier is replaced; each migration once and in order |
| `init_session` | two edits or deletions and any undos, then save, beside another command, failures anywhere | secrets before the configuration that names them; undone latest first, deletions leave the draft as it was; no reviewer loses a key it needs; nobody's save is lost |
| `review_rounds` | three rounds over three heads and two catalogs, five proposals, a cohort taken over, abandoned rounds | approvals are covered, required reviewers see what they match, findings are accounted for, rounds do not repeat each other |
| `model_task` | one task through each adapter, children, services and cleanup commands that do anything | one retry and not beside the job it replaces; answer, session and error are those of one attempt; a failure of the run's own is not reported as an interruption; every task ends, unless somebody holds a cleanup command's output for good |
| `thread_respond` | two processes that answer two threads, called in every way (`--dry-run`, `--rerun`, `--no-resolve-threads`, `--retry-posts`), two disturbances: a comment, a thread settled by a person, a push, another call, a fault, a death at any step | nobody is answered twice or from what is older than our last answer; whoever waits is answered in the end |
| `github_client` | the construction and then two goroutines with listings of two pages, writes and fetches; rate limits, timeouts, refusals and cancellation at any time | no expired token is sent; attempts, waits and total time end a loop; every call ends, also one that waits for another's refresh |

Bounds, and why they are enough.

- `MaxFaults` counts failed provider calls, failed ledger writes, crashes, failed
  plans and deleted rows. One fault reaches every recovery path; in `gate_seq` two were checked by hand without
  `--rerun`, and two to four with `--retry-posts` (a crash during recovery, a run that is
  retried after a later one), and the proofs of section 12 bound none of it; one unlucky write of the outbox uses several
  (unclear, unclear again, crash), so its run has five. One in
  `review_run`, with two passes: the pass that is cut and the one that resumes;
  three passes and two faults (2.7 million states, without comments and
  `--fresh-session`) were checked by hand and show nothing new. One in the ledger's runs: it
  ends the call it hits, and calls share nothing but rows, queue and mutex.
- `MaxRuns = 2` gives a run and its successor, and with a lost row a repaired
  one, since a repair reuses the marker's run ID. Three in `gate_race`: a failed
  one, a superseded one and a new one. Two in `dataroot`: the one in hand and the one that is
  pruned.
- `MaxMoves = 1` with three scopes: to another base, to another head; going
  back needs two and is left out for `gate_seq`'s size.
- `MaxExtras = 1`: one thing other people do (a request, a review, a dry run,
  a response) at any point of two invocations.
- Plans: one action of each kind; the order among actions of one kind does not matter to
  the properties. A behaviour starts with any of the inline comment's and the reply's payloads
  unusable (`malformed`): an unusable inline comment makes the whole verdict fail, since it is
  bundled into it, an unusable reply only itself. The instance without bundling and without
  resends (`Actions = {"reply", "inline", "submit"}`, `Bundle = FALSE`, `WriteRetry = FALSE`)
  was checked by hand: `NoDuplicate` and `SuccessIsDelivered` hold.
- `MaxComments = 1`, between the passes or just before the early reply; what people
  wrote before the first pass is the initial discussion, which is tried with and
  without a pending thread.
- Two reviewers with one and with two slots: a goroutine that waits, one that is
  cancelled in a call, one that has not begun. `Reports` leaves out the clean report: it
  differs from `found` only in not naming anything. `Renewed = TRUE` (a resumed
  call that reports a new session) was checked by hand.
- `MaxSends = 3`, the value in the code (`write_retry.go`).
- Two processes: locks are pairwise, and the proofs of section 12 cover any
  number of them, and `--rerun` and `--retry-posts` in them, which `gate_race` leaves out:
  its liveness assumes that the user asks for nothing but a review. Runs that check liveness
  do without symmetry.
- `QueueSize = 1` for 64: with three callers, one request in the writer's hands, one in the
  queue and one that waits for room is all there is to a full queue. Of three calls one is of
  any kind and meets a run that has posted its first action; the others are what it may
  meet half-way: a cohort that changes between its two queries, a database that is closed.
- `MaxUpsets = 2` in `thread_respond`: one disturbance leaves a run behind, the other meets its
  successor. Three (3.6 million states) were checked by hand for `AnsweredOnce`. Calls that
  find somebody waiting are not bounded. Two threads: one that the model may leave without an
  answer, one that it answers. `LockAttempts = 2` for 3.
- Retention of 2 and 1, a grace of 2 and a clock up to 2: a run is older than its
  window or not, within the grace or not. `MaxStarts = 3` is a run that is resumed and a prune
  beside it, or two prunes. `MaxFiles = 3`: a lock file, a database, and one of them again.
- `startup`: `ledger.db`, a file after it and a directory; versions 2 and 3, so that
  each process has something to migrate and one something to refuse. Four starts are two that
  die and two that go on.
- `MaxEdits = 2` with any number of undos: a profile that is edited after another was, a
  reviewer that changes twice before the save. Two profiles, two accesses, one reviewer, two
  runtimes. A deletion undone out of order leaves names that nothing stands for, and only a third
  deletion meets them (with two, `MadeUp` never matters): that is left to the theorem
  `DeletionsUndone` and to a run by hand, `MaxEdits = 3` with `Faults = FALSE`,
  `AccessValues <- MCAccesses`, `EntityValues <- MCEntities`, `FirstConfigs <- MCConfigs` and
  `FirstKeys <- MCAllKeys`, which takes three minutes.
- `MaxRounds = 3`: a first review, one that takes over its cohort, one that takes over what
  that has grown to. Three files (two sources, one of which is moved and one deleted in
  other heads, and a lockfile), three reviewers (one required, one without globs, one
  with an exclusion), `MaxAgents = 2` so that the cap cuts, `MaxInline = 1` so that
  inline comments run over.
- `github_client`: the policy scaled down so that each of its ends comes first in some behaviour:
  three attempts, a total time of 2, a wait of 2 that is just sat through and one of 3
  that is not, a deadline of 1. The total time is as long as the skew, as in the code (five
  minutes each), so that a token may be used up to its last unit. Attempts of 1 and a
  token of 5 let it go stale within one listing.
- `MaxLines = 4`: an answer, a boundary, a message after the boundary, and the settled line.

`CHECK_DEADLOCK FALSE` in all runs but `github_client`: bounds end them, and the program ends too.

Fairness. `FairSpec` (outbox): the pass goes on (a goroutine is scheduled,
provider calls have timeouts), `late` writes are eventually decided, and `cr
review` is run again. `LiveSpec` (gate): each process's own steps are weakly
fair as one action (no step waits for another process: the lock is tried, not
waited for), and each process is started again. `FairSpec` (run): the steps of the
pass at hand, as one action: provider calls have deadlines, file and ledger calls
return, and passes are not restarted. `FairSpec` (ledger): the writer is weakly fair; a
caller strongly, because a mutex that others take again and again is handed over by
`sync.Mutex` to a waiter that starves. `Spec` (model task): the adapter's goroutines run,
the operating system kills, closes and reaps, and the budget of a task (fourteen
minutes unless set, `llm/subprocess.go`) runs out, as do the ten seconds of a cleanup command;
nothing is assumed of the child, its worker, the job service, or of who holds the output of such
a command. `FairSpec` (client): goroutines run, a request is answered or
times out, git ends (the code gives it no timeout), time goes on, and the mutex is handed to a
waiter that starves. `LiveSpec` (thread_respond): each process's steps as one action, and `cr respond` is
called again while somebody waits. No fairness for faults, cancellation, moves or people. The liveness properties of outbox,
gate and thread_respond promise something only under repeated invocation: that is how the documentation says a
run is completed.

Every property of a run has a mutant: a plausible slip in one mapped
definition (a dropped guard, a swapped order, a cleared flag) with which TLC
finds the property violated under the same configuration. The mutants stand
before the definitions they replace and are named in `PROJECT.json`.

## 12. What is proved

TLAPS proves the following for all values of the constants that satisfy the assumptions
(`OutboxAssumption`, `GateAssumption`, `ReviewRunAssumption`, `NoneAssumption`,
`LedgerAssumption`, `StoreAssumption`, `DataRootAssumption`, `StartupAssumption`,
`ScopeAssumption`, `PlanAssumption`, `RoundsAssumption`, `AdaptersAssumption`,
`LinesAssumption`, `RespondAssumption`, `PolicyAssumption`, `TokenAssumption`,
`ConfigFileAssumption`, `InitSessionAssumption`): any plan, any number of processes, scopes,
runs, reviewers, passes, files and faults. `NoneAssumption` says that the absent value is no
answer, no cohort and no error; TLC evaluates them all.

**Outbox** (`OutboxProofs`). The inductive invariant is

    IInv == TypeInv /\ Rows /\ Bundling /\ View /\ Done /\ PostedIsOnHost /\ Settled

`TypeInv` ties the control point to its locals (an action in progress is a planned one). `Rows`:
before the final plan only checkpoint rows exist, and what is on the host or still being
processed belongs to planned rows. `Bundling`: a verdict in progress, or still being processed,
carries every pending inline comment. `View`: what a pass has seen is on the host, which takes
nothing back. `Done`: what is about to be recorded as posted is on the host. `Settled`: a
successful run has its required rows posted. Each is needed: posted rows rest on `View` and
`Done`, the verdict's completeness on `Bundling` and `Rows`. At-most-once adds `Once == Single
/\ Knowledge /\ Ahead /\ Together /\ NoResolveCopies`, an invariant under `SettledStart`: each
message has one copy, or one write under way, or neither; nothing is under way while the process
reads, so what it has read is complete; what it has yet to send is absent; bundled comments
travel with their verdict only. From these:

- `TypeCorrect`, `PostedRows` (posted means on the host), `CompleteVerdict`
  (a verdict leaves no inline behind), `SoundSuccess` (success means delivered);
- `AtMostOnce`, `SafeResend`, `BoundedResends`, `AnsweredFirst`, `ForwardOnly`;
- `OutboxImplementsDelivery`: initial states map to initial states, each action
  to `Deliver`, `Acknowledge`, `Conclude` or a stutter (`SettledStart` assumed).

**ReviewGate** (`ReviewGateProofs`). The inductive invariant is

    IInv == TypeOK /\ RowInv /\ PostInv /\ \A p \in Procs : ProcInv(p)

`RowInv`: existing rows were allocated. `PostInv`: a run's post names an allocated
live run of its own scope. `ProcInv`: past the lock a process owns its
scope's lock; it has a run in hand exactly at the labels that handle one; that
row was allocated, has the process's scope and is live and not aborted; the runs it
is about to abort belong to scopes whose locks it owns. The step proof is local: each action of
process q gets one lemma, which gives q's own part and `Frame(q)`: q changes
only rows of scopes whose lock q holds (or deletes rows, when `Prunes`), and
other processes' locks stay. `Frame` keeps every other process's part
(`FrameKeeps`), so no pair of actions is ever looked at. From it:

- `Invariance`, `TypeCorrect`, `RunsExclusive`, `HandsUnderLock`, `AbortedStay`;
- `HandsAreMine`, for `Prunes = FALSE`: with retention it is false, see
  section 13;
- `LeftIsSilent`: once the pull request has left a scope and nobody is between
  a look at it and the posting that look allows, nobody gets there again: every way
  to `post` leads through `Premises`, a retry's look or the `insert` of a repair, the way to
  `checkpoint` through `CheckpointLook`, and these were decided for the current scope. Of
  somebody who has looked already it says nothing, and early replies are no exception:
  section 13.

Two more invariants rest on `IInv`, for invocations that do not overlap
(`Overlap = FALSE`; with overlap both properties fail, section 13). `AloneInv`: one
process is at work, and until it has chosen a run the reviews it read before the lock
(`SeesVerdicts`) hold every verdict of the tool, since only people post meanwhile, and
people only comment. With it `Submits` is `SubmitsOnHost`, whence
`CompleteEndsEarly` (`CompleteExitsEarly`). `OwnInv` is about second verdicts:

    OwnLedger == OneOpen /\ OpenIsNew /\ ByKind /\ OwnRunsReviewOnce

`OneOpen`: of the rows that may still post unasked, a scope has at most one. `OpenIsNew`:
the verdict of such a row is on the host, or every unasked verdict of its scope is history,
that is, followed by a person's comment or a verdict for another scope. `ByKind`: a
repair reuses a run's ID only when the run posted no verdict, so the kind in a post is
that of its row. Beside it, per process: at `probe` and `decide` the scope has no open
row of its own (`NoneOpen`, from the guard of `LocalReview`; rows that others open meanwhile
are responses), and a run taken up unasked was not finished (`HandOpen`). Most steps are
quiet (`RowsQuiet`: no row becomes one that may post unasked) and share one lemma
(`QuietLedger`); posting the verdict (`VerdictLedger`) and the two allocations
(`OpenedLedger`: a fresh row, a repaired one) have lemmas of their own. The result is
`OwnRunsPostOnce` (`OwnRunsReviewOnce`), with every flag, `Prunes` or not, and any number of faults.

**ReviewRun** (`ReviewRunProofs`). The inductive invariant of the tasks is

    IInv == TaskInv /\ Walk /\ Covered

`TaskInv` holds task by task. `Kept(t)`: metadata is backed by the row and the
output it stands for, and no row of a settled task is newer than it. `Flying(t)`:
a call is in flight only while the task is unsettled (else `PaidOnce` would not
survive `Return`), its row comes before its files, a cut call has a finished
context or an expired deadline (else `NotBlamed` would not survive `WriteMeta`),
and a finished job holds what was stored. `Walk` types the rest. `Covered` relates
the cohort to the *stored* selection, not only to the current one: a resumed pass
that reuses a cohort goes back to the selection on disk without saving a cohort
again, and only the history says that the two agree. The step proof has one
lemma per action; a task's step is shown to touch its own entries only
(`OneTask`), every other step to keep the tasks (`TasksKept`) or to forget the
jobs of the pass (`JobsForgotten`). A second invariant on top of it is that of a batch:

    BatchInv == IInv /\ Owned /\ Located /\ Batched /\ Ordered /\ Published

`Owned` names the conversations each task may continue; `Located` says that a
call in flight runs where the control of its task is; `Batched` that a goroutine
moves on with settled results, and leaves without one only when the batch is
lost; `Ordered` that a stored rollup answers for the finding names in its own
prompt; `Published` carries the last two to the plan. From these:

- `TypeCorrect`, `StoredBacked`, `NeverPaidTwice`, `CutNotBlamed`, `CohortCovers`;
- `SessionsOwned`, `ConversationsApart`, `ReviewComplete`, `RollupMatches`.

So each safety invariant that `review_run` checks is also a theorem.

**LedgerStore** (`LedgerProofs`). Two inductive invariants, the second on top of the first:

    IInv == types of pc and answer /\ Locked /\ Accepted /\ Closing
    WInv == Handed /\ Asked /\ Working

`Locked`: the sender owns the mutex, and while the queue is sealed nobody does.
`Accepted`: a caller that waits is in the queue, in the writer's hands or has its result, so a
write cannot be lost between the three. `Closing`: past the drain the writer has ended, with
nothing in the queue or in hand. `Handed`: a call is in one of the three places only, once, and
nobody is answered who did not wait. `Asked`: what is in the queue is a write. `Working`: the
rows fit together, and the transaction is `Halfway`: for some k the statements left are those
after the first k of the call's list, and the transaction's view of the rows is what the first k
make of the rows committed last. That needs no other transaction in between: `db` changes at
`Commit` only, and there is one writer.

`Halfway` is where the lists come in, findings, actions and members of any length. What the
first k statements make of the rows is said without recursion (`Reached`): the first k rows of a
planning result are a planning result themselves (`Upto`), the first members of a cohort a
cohort, and `OneMoreFinding`, `OneMoreAction`, `CohortGrows` show that the next statement,
unless it is refused, takes the meaning of k rows to the meaning of k + 1. So the induction over
the list is the induction over the steps of the writer. `HalfwayEnds`: with no statement left,
the method could take effect (`Possible`) and the rows are its `Meaning`. The converse, that a
method is refused only when it could not take effect, is not claimed: the contract lets any call
fail. `MaxExists` (a finite set of numbers has a largest one, for `NextAttempt`) is an induction
over a finite set, done with a smallest counterexample and the library's theorem that strict
inclusion of finite sets is well-founded. `StoreAssumption` has the requests well-formed
(`Calls`: what the parameters' types and `validate*` let through), `LedgerAssumption` has what
earlier processes left fit together. From these, for any callers, requests and size of queue:

- `SenderIsSafe` (`NoPanic`), `CloseDrains` (`DrainedBeforeShut`), `TypeCorrect`;
- `RowsStayConsistent` (`RowsConsistent`): the meaning of every method keeps `RowsFit`, the
  cascade of `DeleteRun` included (`MeaningFits`);
- `StoreImplementsLedger`: a `Commit` is `Perform`, a look of a query is a look, whatever ends a
  call in an error is `Fail`, and every other step is a stutter.

**DataRoot** (`DataRootProofs`). The inductive invariant is

    IInv == Typed /\ SameFile /\ Exclusion /\ HandOnlyUnderLock /\ MarkedIsThere /\ GuardedRunKept

Until the first purge all processes open the same lock file and the same database
(`SameFile`); whoever deletes holds the lock of its file exclusively, and then nobody else has it
(`Exclusion`); a run that got the lock has it still, and looks for its row and directory only
under it (`HandOnlyUnderLock`). So no deletion is under way when it finds a row, and none can
begin. From it `TypeCorrect` and `LockedRunKept` (`GuardedRunKept`).

What retention removes needs the runs that hold no lock, and the clock:

    SInv == IInv /\ FreshIsNew /\ UnbornIsAlone /\ OnlyPurgersPurge /\ NewRowsAreYoung /\ RemovesTheGone

A run is unborn from its ID to its row; its ID is then its own and, but for a dry run's young
directory, names nothing (`UnbornIsAlone`). So a row added between the reload and the walk has
no directory or a young one (`NewRowsAreYoung`), and what is an orphan to the walk has neither a
row nor an unborn run. It stays so (`GoneStep`), as does what `DeleteRun` took the row of: only
an unborn run books a row for an old ID. `RemovesTheGone` says this of all that is still to be
removed, and from it `RetentionSparesRuns` (`SweepSparesRuns`). Used are `SetUpWithinGrace`, the
guard of `Tick`, and that the grace is not zero (`OrphanGrace` is 24 hours): with none, TLC
finds a dry run's directory swept before its row is there.

**ReviewRounds** (`RoundsStartupProofs`). `ReadInv`: what each result proves is in `read`, a
repair follows a first pass with proven tools, and a plan that approves was made from complete
coverage. The lemmas on `Merged` and `Failed` say that joining a repair to its first pass claims
nothing that neither has proved; `CompleteIsRead` that complete coverage leaves no
obligation unread, whatever was assigned to whom. `RepeatInv`: what is left to post says
nothing that another round's comments say; `CommentsAreNew` is the property of the plan
that starts it. From these `ApprovalsAreCovered` and `RoundsDoNotRepeat`. Selections,
cohorts and proposals are arbitrary in both.

`SelInv` is about the way there:

    SelInv == TypeOK /\ ... /\ (phase \in {"review", "repair"} => Sees(sel, change.catalog, changed))
                            /\ (stored.sel # <<>> => Sees(stored.sel, change.catalog, changed))
                            /\ (phase = "post" => Accounted(notes, plan.rollup)) /\ IsPlan

The clause on `stored` is the strengthening: a round may take over the selection of an
interrupted one, so that must do for the present change; it does since every `Push` drops it.
That a selection shows required reviewers their matches (`Sees`) is proved operator by operator.
`EnsureSees` and `WidenSees` establish it, from any proposal and any cohort; `CapSees` (a cap
that does not refuse the selection keeps all required reviewers, as they go first),
`ReconcileIs` (no exclusion takes a file that the reviewer matches) and `CoverSees` (leftovers
only add) keep it. `FilterIs`, `RebaseIs` and `GrownIs` come before or after and need only leave
assignments. `AnswerIs` says that a valid rollup, and the one that replaces an invalid one,
account for every finding. From these `RequiredSeeTheirMatches`, `NoFindingIsLost` and
`RoundsTypeCorrect`. The provers know nothing of `SelectSeq`, so the models take the entries of
a sequence at a set of positions instead (`EntriesAt`, by rank in the set): `EntriesAre` says
that these are all of them and no others.

**ModelTask** (`TaskRespondProofs`). The inductive invariant is

    Inv == TypeOK /\ Control /\ Retired /\ Piped /\ Final /\ Causes

`Control`: what a label says of the child, and where errors can come from: only the hand-over
and the following of a job blame the transport. `Retired`: whoever gives a named job up has
tried to stop it, and the retry inherits that; it is what `RetryAlone` needs across `Retry`,
where the child and the error of the first attempt are forgotten. `Piped` follows the last
message on its way: it is the last one in the pipe, and if none is there what the reader holds
or has in hand (`Heard`); nothing follows "settled", so when the reader handles that line the
pipe is empty and what it holds is what was said last. `Final` carries this to the verdict.
`Causes` says why a context has ended: the budget did it, the caller, the watch, or the run
itself, and in the last case its error is known already (`refused`) or it is finished; what is
asked first in a verdict then decides what is reported. `FinishInv` says once what any verdict must
satisfy, and is used for each way to finish. From these, for any adapters, any number of lines
and every schedule of child, reader, timers and job service: `TypeCorrect`, `RetryIsAlone`
(`RetryAlone`), `SessionsOfAnswers` (`SessionOfItsAnswer`), `FinalAnswerOnly`
(`OnlyTheFinalAnswer`), `NoFalseInterruption` (`InterruptionsAreReal`). The last one excepts a
watch that expires after the reader has looked at it for the last time (section 13).

**ThreadRespond** (the last part of `TaskRespondProofs`). The inductive invariant is

    RespondInv == Types /\ \A p \in Procs : ProcInv(p)

`ProcInv` says what a process knows at each label. Who may write for a head holds its lock
(`lock[work[p].head] = p`), so that nobody else writes for that head. What it has read of a
thread is still a prefix of the thread, ends with a person's word after something of ours
(`Asked`), and what is ours beyond it belongs to a run for another head or is the reply it has
itself just sent (`Beyond`). What it is about to send was asked about what it has read
(`AsSeen`): for a run it has begun, since it has asked itself, and for one it has taken up,
since `SameThreads` has compared. As in the gate, each action of a process gets one lemma with
its own part and `Frame(p)`: the others' runs, the locks, and the threads but for replies of p's
own run; `FrameKeeps` gives the rest. `OnlySendWrites` and `NobodyTwice` then say that a reply
lands on a thread whose last word of ours is the one its run has read; `NewestOursIs` and
`MaxExists` are needed since the newest comment of ours is a `CHOOSE`. From these
`RespondInvariance` and `AnswersAreOnce` (`AnsweredOnce`), for any threads, processes, calls,
pushes and deaths. `RespondAssumption` says of the threads at first that they hold comments of
people and of `cr`, none of a run of `cr respond`, which has not run yet.

**GitHubClient** (`ClientInitProofs`). The inductive invariant says of every call

    Sound(rec) == rec \in CallType /\ InTime(rec) /\ Covered(rec)

`InTime`: a loop about to send is within its total time, one in flight is beyond it by no more
than the age of the attempt, and one asleep will be within it when it wakes; `EndsInTime` alone
is not inductive, as it forgets how long a sleep still lasts. `Covered`: what a token has lost
of its life since it was judged fresh, the loop has spent of its time. `TokenAssumption` is then
all that is needed: the total time is no longer than the skew (`defaultRetryMaxElapsed`,
`gitHubAppRefreshSkew`), and a token lives longer than the skew and one attempt. From it
`TypeCorrect`, `TokensAlive` (`TokenAlive`) and `LoopsEndInTime` (`EndsInTime`), for any policy,
any waits of the host and any number of goroutines. A policy whose total time exceeds the skew
is not covered, and could send a token that has expired.

**InitSession** (the last two parts of `ClientInitProofs`). For the save,

    SaveInv == ... /\ (pc[s] \in {"check", "rename"} => lock = s)
                   /\ (pc[s] = "rename" => base[s] \in {None, disk})
                   /\ (pc["init"] \in {"acquire", "check", "rename"} => planned \subseteq store)
                   /\ (pc["init"] = "clean" \/ saved => planned \ stale \subseteq store) /\ ...

The comparison stays true until the rename because both happen under the file's lock; what is
planned is in the store before the lock is tried; and what is stale is a key no reviewer of the
configuration uses, fixed when the writes begin. From it `SecretsComeFirst`
(`StoredBeforeSaved`), `SavesAreCompared` (`NoLostUpdate`) and `CleanupSpares`
(`ReviewerKeysSpared`).

For the deletions,

    UndoInv == Formed /\ Keeps /\ Chained

`Formed`: the draft is a configuration, whatever was staged. `Keeps`: what is kept of each
pending deletion fits what was deleted. `Chained`: the traced deletions are pending, each once,
and each leads from the draft it was made on to the one that the next was made on. Deleting an
entity or a runtime normalises the draft first, which refreshes the copies in every profile, and
undoing does not take that back; so two drafts are related by `Like`, equal but for copies that
one has refreshed, and what `UndoneInReverse` compares is normalised (`LikeNormal`). For each
kind there is a relation between the draft, what is kept and the draft after (`ProfileGone`,
`AccessGone`, `EntityGone`, `RuntimeGone`), a lemma that the deletion establishes it
(`ProfileDeleted`, ...), one that undoing inverts it up to `Like` (`ProfileUndone`, ...). Edits
and undoing out of order clear the trail; that, and two kinds of deletion named at the property,
is what `DeletionsUndone` (`UndoneInReverse`) leaves out. The runtime took most of the work:
deleting one moves every profile that counts as using it, also by contents alone, to a
replacement that may be new, may be there already, or may only be a name made up for such
contents (`RuntimeOf`, `MadeUp`). The proof showed two things that two edits are too few to
reach: a profile may count as using a runtime that it does not name, so that the deletion has to
keep each profile's own name for it; and undoing does not remove a replacement whose name a
profile still bears (section 13). `UndoInv` was checked by TLC first, on the 1.1 million states
of the run with three edits (section 11).

**Startup** (the last part of `RoundsStartupProofs`). The inductive
invariant is

    StartupInv == Types /\ Shifted /\ Spared /\ Opened /\ Unmet /\ MigratedInOrder

`Shifted`: no old entry is left in the old directory once it is staged, nor in the staged one
once it is removed. `Spared`: names looked at so far, and those still to be moved, are none of
the root's first entries. `Opened`: a database in hand stays the file at `ledger.db`, and no
version read is ahead of it, so that a migration that finds the version behind its own finds
just the one it read. `Unmet`: who has met nobody still has what it saw. From these
`WholeWhenAlone` (`AloneFindsAll`), `RootSpared` (`EarlyKept`) and `MigrationsInOrder`
(`MigratedInOrder`).

**Model-checked only.** Every safety property that a run checks is a theorem.
What stays with TLC is liveness (`RunSettles`, `EventuallyReviewed`, `PassEnds`, `CallsReturn`,
`TaskEnds`, `CallsEnd`, `EventuallyAnswered`): the prover knows neither ENABLED nor fairness
arguments about it. Induction over data and recursive operators are beyond it too; the modules
need none.

The other way round, the type invariants of the modules with proofs and `HandUnderLock`,
`PostedIsOnHost`, `ResendOnlyIfAbsent`,
`CheckpointResolvesAnswered`, `SuccessIsDelivered`, `VerdictCarriesInlines`,
`LedgerMovesForward`, `RunExclusive`, `AbortedIsFinal`, `StoredIsBacked`, `RowsConsistent`,
`RollupNamesPublished`, `OneCallPerSession`, `CohortBeforeReviewers` and `NoPanic` are theorems
and were checked by TLC before they were proved; no run repeats them. The type invariants of
`InitSession`, `Startup` and `ThreadRespond` hold under their runs' configurations and are
not repeated either.

## 13. Where code and documents disagree

What a document, a comment or a test says and the code does not do. Each has a property in the
module, which TLC finds violated; the runs of section 11 are about what holds, so these are
repeated by hand: take the configuration named, replace its properties by the one given, and
change the constants as said.

- `ResolutionAfterReply` (`outbox_github.cfg` with `SPECIFICATION Spec`, `MaxFaults = 2`): the
  final pass resolves a thread whose reply failed; only the checkpoint pass asks whether the
  reply was posted (`outbox.go:183`, `:376`). docs/review-lifecycle.md:125: "a resolution is
  not sent until its reply is posted or reconciled".
- `PendingKeepsRunOpen` (the same, and `Actions = {"reply", "inline", "submit"}`, `Bundle = FALSE`,
  `WriteRetry = FALSE`): an optional inline comment that is still pending does not
  keep the run open (`outbox.go:938`), and no later invocation posts it.
  docs/review-lifecycle.md:118: "Whatever is left stays pending, the run exits 5, and the
  next `cr review` reconciles it".
- `ReviewedOnce` (`gate_seq.cfg` with `Commands = {"review"}`, `Scopes <- TwoBases`, `Events = {"comment"}`,
  `Responses = {"pending"}`, `Prunes = FALSE`, `MaxMoves = 0`, `MaxFaults = 0`): an open run of
  `cr respond` is resumed by `cr review` as a review of a scope that has its verdict
  (`gate.go:227`); README.md:1416 has it exit early.
- `OpenStaleReaped` (`gate_seq.cfg` with `Commands = {"review"}`, `Scopes <- TwoBases`, `Events = {"comment"}`,
  `Responses = {}`, `Prunes = FALSE`, `MaxFaults = 1`): a process takes its own lock on a stale
  scope for another process's when that scope has several rows (`gateio.go:864`), and leaves an
  open run behind, where gate_test.go:133 shows all of them reaped.
- `RollupResumes` (`review_run.cfg` with `SPECIFICATION Spec`, `Reviewers <- OneReviewer`,
  `Required <- NoReviewer`, `Reports <- MCFound`, `Cohorts <- FirstReview`, `SlotCounts <- OneSlot`,
  `Discussions <- Silent`, `FreshPasses = {}`, `Cancellable = FALSE`, `MaxComments = 0`): a
  rollup that failed is never asked again. Stored reports are
  decoded on resume with new finding IDs (`contracts.go:357`), the IDs are in the rollup's
  prompt, and the prompt is in its fingerprint. docs/llm-task-artifacts.md:162 promises that
  failed tasks and what follows them are run again; the test that shows it uses a constant ID.
- `OwnReplyResumes` (the same with `Reports <- MCClean`, `Discussions <- Asked`): a pass that
  is cut after its early reply was posted and a reviewer
  has finished cannot be continued: the reply changes the discussion (`pipeline.go:1416`), and
  the stored selection was asked about the old one. docs/review-lifecycle.md:89 has it resumed.
- `OwnReplyResumes` of `ThreadRespond` (`thread_respond.cfg` with `SPECIFICATION Spec`): a run
  of `cr respond` that was cut after one of its replies had landed is not continued: the
  thread is not eligible any more, the cached action is refused (`threadrespond.go:468`) and the
  run fails; a resolution behind the reply is left unposted. docs/llm-task-artifacts.md:388
  has a rerun continue with posting where actions are planned.
- `WholeRunGuarded` (`dataroot.cfg` with `Dry = {}`, `Respond = {}`, `Purgers = {}`): a live run
  posts after `execute` has given the active-runs lock back (`pipeline.go:626`,
  `reviewrun.go:303`), so a retention pass or `cr data prune` can delete the row in hand.
  pipeline.go:622: "Hold the data-root active-runs lock shared for the whole run";
  statepaths.go:178: "every review run holds it shared for its duration". `gate_race.cfg` with
  `SPECIFICATION Spec` and `Prunes = TRUE` shows the same as a violation of `HandIsMine`.
- `WritersFindAll` (`startup.cfg`): with two first starts of a new release at once, the second
  finds neither the old directory nor yet all of its entries, and opens (creates) a database
  before the old one arrives. README.md:1672 says that commands that write migrate the entries.
- `KeysInUseSpared` (`init_session.cfg` with `Faults = FALSE`): when a reviewer entity goes from a
  token to a GitHub App under the same credential name, the cleanup deletes the key by which
  another profile reads its repositories, since only references of reviewers are looked at
  (`credentials/planning.go:307`). planning.go:233: "protects keys used by every active profile".
- `EveryTaskEnds` (`model_task.cfg`): the commands that stop and remove a background job
  (`subprocess.go:1862`) write to buffers and set no `WaitDelay`, so that a descendant that
  keeps their output open holds the task past the command's ten seconds and its own budget, also
  after the result has been read. llm/subprocess.go:29 has the remedy for the child itself, since
  otherwise "the run wedges at 0% CPU holding the ledger". `TaskEnds` is what remains: the task ends,
  or one such output is held for good.
- `NoSessionWithoutWorker` (`model_task.cfg`): a background job on which no worker ran is reported
  with its session when the budget ends first (`subprocess.go:1655`) or the service gives the
  job up (`:1638`, `:1591`), as only `errClaudeBGNotStarted` suppresses it.
  subprocess.go:93, of the failure "where no worker ever ran the job": "Its session holds no
  conversation, so it must not be reported for a later resume."
- `ExpiresOnQuiet` (`model_task.cfg`): the settlement timer fires while the reader has a later
  line in hand, or one waits in the pipe; stopping a timer that has fired does nothing
  (`pi_rpc.go:607`, `:711`), and the run is failed, a settled answer included.
  pi_rpc.go:692: "fails a run that goes quiet after a boundary".
- `BlockingRequestsChanges` (`review_rounds.cfg`): a blocking finding that the rollup drops as a
  duplicate of a nit does not request changes (`reviewplan.go:353`), while `--fail-on` counts
  it (`pipeline.go:789`). README.md:692: a blocking finding always requests changes.

Seen in the models, and contradicted by no document that we know of:

- Two overlapping invocations (`gate_seq` with `Procs = {p1, p2}` and `Overlap = TRUE`):
  the second one may use the reviews it read before the lock (`gateio.go:167`,
  `:198`), and then ends with an error where README.md:1416 promises an early exit;
  `CompleteExitsEarly` fails.
- `--retry-posts` posts the verdict of a failed run although a later run has reviewed the
  scope meanwhile: it takes the latest run with something to retry (`gate.go:269`), and asks
  neither the markers nor whether the run is the latest of the scope. It needs a run whose
  rollup and verdict both failed. `OwnRunsReviewOnce` is therefore about verdicts that were
  not asked for, the row's `retried` in the model.
- `SettledStart = FALSE`: a late write of an earlier invocation is duplicated.
- With `Overlap = TRUE`, a stale run that finishes between
  the read of its row (`gateio.go:317`) and the probe of its lock (`:864`) is
  marked aborted, since `CompleteRun` (`ledger.go:1303`) asks for no state.
- The second row that an approval override opens is, after a crash, resumed by
  the next `cr review` just as the open row of a response is.
- `ReviewRun` with three passes: a reviewer that was selected in the first pass and
  is met through the saved cohort in the second has another rationale in its prompt
  (`pipeline.go:1892`), and may be refused as stale in the third.
- `ReviewRun` with `Cancellable = TRUE`: a context that is cancelled while reviewers
  wait for a slot lets the pass go on to its rollup with a part of the batch
  (`pipeline.go:2352` returns without an error); nothing is published, but the
  rollup's metadata now has a short list of dependencies and is refused later.
  `cr` never cancels that context itself.
- `DataRoot`: two dry runs may resume the same incomplete run, since nothing but the shared
  lock is between them, and then share the names of temporary files (`fsatomic.go:15`). A purge
  removes the lock file it holds, and the next process goes on beside it as if alone.
- `Startup`: a process that dies between moving `ledger.db` and its journal leaves them apart
  until the next writing start; `cr data show` started then opens the database without it. An
  older binary that is at work keeps the database open while a newer one migrates it.
- `InitSession`: undone out of order, a deletion brings back a profile whose access or runtime is
  gone, and Save then refuses the plan and ends the session with all its edits
  (`initcmd.go:4124`). Undoing the deletion of a runtime whose replacement has been added under
  the same name takes the restored one away. A profile may then bear the name of a runtime that is
  gone, as `uniqueInitLLMRuntimeName` looks at the names of runtimes only (`initcmd.go:4213`): a
  replacement that is added under that name becomes the profile's, and undoing leaves it, since it
  counts as referenced (`initcmd.go:4271`). And a runtime that only such profiles hold has a made-up name:
  chosen as the replacement, it brings an empty one with it, since it is looked up among the
  configured ones (`initcmd.go:4203`). Undoing the deletion of a profile restores its
  copies as they were, so that a cleanup may take a key which the next normalisation needs. A
  session that found no file replaces one that was created meanwhile, as nothing was read that
  could be compared (`config.go:1109`; docs/init-config-surface.md:320 speaks of loaded drafts).
- `ReviewRounds`: `DecodeSelection` accepts one reviewer twice; the selection is stored as
  succeeded, the cohort is refused, and every resume meets the same selection until the head
  moves. Narrowing a required reviewer to what it must see may leave a file that only it was
  assigned to nobody: the approval is withheld and later rounds ask for `--fresh-session`. A
  pull request that only deletes what a required agent matches does not run it. Two
  reviewers that say the same in one round are both posted unless the rollup drops one; a rename
  makes an old comment new.
- `GitHubClient`: the comment on `doAppREST` says that retries can outlast one JWT's
  lifetime (`app_auth.go:243`); with the default policy they cannot (five minutes and one
  attempt of two against nine), and signing for each attempt does no harm.
- `ThreadRespond`: a remark that lands between the listing and the reply is followed by a reply
  that does not know it, and the thread then counts as answered (`NoRemarkBuried`).
  `--retry-posts` posts a planned resolution under `--no-resolve-threads`, and answers threads
  that have moved on, since it looks at no thread. A host that cannot be read for a moment
  marks a run failed for good (`outbox.go:145`, `threadrespond.go:585`). A run is allocated even where no
  thread is eligible. Runs for two heads do not exclude each other, and both may answer.
- `ReviewGate` with `MaxExtras = 1`, or in `gate_race` a process at `post`: what a process was
  about to post when the pull request moved is posted for the scope that was left, an early reply
  (`outbox.go:338`, `:401`) as well as a rollup; only the host's check of a verdict's head stops it.
- `ModelTask`: a settlement watch that expires after the reader has looked at it for the
  last time (`pi_rpc.go:654`) ends the run as "cancelled" although nobody cancelled it (without
  `watch.expired`, `InterruptionsAreReal` fails). The retry runs beside its job when the job's ID could not be read or the
  stop failed; a job that finishes between the last poll and the stop is run again. A line of
  more than 4 MB ends Codex's scan without cancelling, and `Wait` then lasts until the child
  exits or the budget ends. When the retry fails on a missing session, the first error
  hides it.

## 14. What is abstracted, and what is not modelled

- Payloads, texts, severities and prompts: an action is its kind, thread, rank,
  whether it is required and whether it validates.
- A marker is the record it encodes; encoding and parsing are not modelled yet.
- In `ReviewGate` one delivered action is one step: `Outbox` is what happens
  inside it. Its rollup event stands for the verdict that is derived from a plan.
- Listing the host is a snapshot; pages of one listing are not read apart. All
  locks of one probe are tried in one step.
- `cr respond` and a dry run are one step in `ReviewGate`. `ThreadRespond` is about one profile
  and posting identity: the lock's path and the rows name both (`lockPath`, `findIncompleteRun`), so
  runs of two profiles on one pull request do not exclude each other, and nothing here speaks of
  them. In it a comment is who
  wrote it and which run; a prompt is the thread's comments, an answer its decision; the
  outbox is a step for each action, without markers that a person copied.
- The host is read-your-writes except for `late` writes, and posts are totally
  ordered. Dismissed reviews and reopened threads are not modelled.
- In `ReviewRun` an answer is what later phases tell apart, one thread stands for
  all that are analysed, a provider session is named after the task that opened
  it, and a successful call reports one (the pseudo-session of adapters that do
  not is left out). `sessionreuse` is taken to have accepted the saved sessions.
  Metadata, outputs and prompts of dry runs and of `--without-discussion` are left
  out, and so are model changes between passes, which change every fingerprint.
- One machine: the ledger and the locks are common to all processes. A second
  machine shows up as rows that are not there, which is what `Prune` does too.
- In `LedgerStore` a row is its key, its references and the columns the methods decide on;
  timestamps, texts and counts of tokens are left out. The lines that scan rows into structs
  are not mapped.
- In `DataRoot` an attempt at the shared lock fails only because it is held; a live gate
  resumes rows of its own kind only; `cr data show` and `--dry-run` of a prune change nothing
  and are left out, as are the checks of paths against symlinks. The legacy migration is
  `Startup`'s, which in turn has no retention.
- In `InitSession`: one credential store and one Git host; global settings, LLM credentials, names
  that the editor invents, and the projection of inline profiles of old files are left out;
  a profile's repository routes are one bit. The other command runs once, and after the menu
  was left: before that nothing it does can be told from another first state.
- In `ReviewRounds` a file's path is its identity, a rename is a kind of change, and old paths
  are not in `Files`. Reviewers run one after the other, as they share nothing. A resume
  within a round is the stored selection. Comments of people are ignored, as the code
  compares with its own. `MaxAgents = 0` with the default limit is in the module and not in the
  instance.
- In `ModelTask`: errors are classes, and the classification of texts is data; argument lists,
  transcripts, usage, which old background jobs are collected
  (`gcClaudeBGJobs`, whose commands are part of `RemoveJob`), Windows job objects and the adapters that call an API are left out.
- In `GitHubClient`: requests and answers are data, and so is the classification of an error as
  one that may be repeated. A client with a personal token has the same loops and no refresh. The
  JWT is signed for each attempt and not tracked. The clocks of the host and of the machine
  agree. Today `cr` makes its provider calls one after the other; the mutex allows for any
  number of goroutines, and so does the model. A goroutine that waits for the mutex does not look
  at its context.
- Not modelled at all: the components marked `not_modelled` in `PROJECT.json`, with the reason.
  The largest of them are the client of GitLab (`gitprovider/gitlab`), what reviewers get to
  see (`workbench`), and look-ups and output without shared state.
