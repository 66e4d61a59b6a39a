# Cardre in TLA+

Cardre builds credit scorecards: a user edits a *plan* of steps, commits a
version of it, and submits *runs* of that version; a run executes the steps,
registers content-addressed artifacts and evidence, and ends with a manifest
that auditors rely on. This directory models the part of the program where
threads, processes, transactions and crashes meet, and the canonical pathway
from the imported data to the exported scorers; it checks both with TLC and
proves part of them with TLAPS.

## Inventory

| Component | State | Operations | How it meets the others |
|---|---|---|---|
| **Run lifecycle** (`application/runs`, `application/execution/heartbeat.py`, `run_repo`, `dispatch_repo`) | tables `runs`, `run_steps`, `diagnostics`, `pending_run_dispatches`, manifest rows of `publication_outbox`; per attempt: the worker's place, its lease, its watchdog | submit, claim, execute a step, heartbeat, cancel, finalize, sweep stale runs, reconcile dispatches | one SQLite file, many threads, possibly several processes; each use case is one or more `BEGIN IMMEDIATE` transactions |
| **Publication** (`publisher.py`, `publication_repo`, `artifact_store`, `manifest_publisher`, `reconcile_publications`) | outbox rows (pending, published, failed), staged files, object files, manifest files | enqueue (inside a transaction), move or write the file, mark, reconcile at startup | called by ExecuteRun and FinalizeRun after their commit |
| **Run dispatcher** (`thread_dispatcher`, `sync_dispatcher`) | FIFO queue, active set, bounded histories, shutdown flag | dispatch, worker loop, shutdown with drain | called by SubmitRun and reconciliation; calls ExecuteRun and CancelRun |
| **Application** (`bootstrap`, `api/app.py`) | container, settings | build, reconcile, serve, shut down | owns the dispatcher and the recovery thread |
| **Plans** (`application/plans`, `plan_repo`, `step_repo`, `manual_binning_repo`) | plans, versions (draft or committed), steps, edges, reviews | create, edit parameters (with propagation of the target column), manual binning edit, commit | a run executes a committed version |
| **Topology and step graph** (`topology.py`, `step_graph.py`) | none (pure) | validate, order, walk | used by commit, execution and staleness |
| **Step execution** (`step_runner`, `input_collection`, `contract_validation`, `fingerprints`) | staged files | resolve the parents' artifacts, keep the roles of the contract, find one by role or kind, run the node, stage outputs | called by ExecuteRun between two transactions |
| **Evidence and staleness** (`application/evidence`) | evidence edges | resolve, explain staleness | reads runs, run steps and plans |
| **Reporting and export** (`application/reporting`, `adapters/rendering`) | reports, exports, directories | readiness, generate, export an audit pack | reads finished runs |
| **Projects** (`application/projects`, registry, provisioner) | registry file, project directories | create, list, open | every use case is bound to one project |
| **Modelling nodes** (`nodes`, `modeling`, `domain/binning`) | none beyond data frames; what one node knows of another is in artifacts | prepare, split, bin, override, weigh, select, fit, scale, freeze, apply, validate, export | called by the step runner; each finds its inputs by role or kind among what its parents have published |
| **Surfaces** (`api/routes`, `frontend`, Tauri shell) | query cache, child process | requests, polling, start and stop of the server | call the use cases |

### Which behaviours are hard

* **Concurrency.** Request threads, pool workers, one heartbeat watchdog per
  executing run and a periodic recovery thread write the same rows. A second
  process may do the same while the first one drains.
* **Reads that age.** The status ExecuteRun reads on entry, the cancellation
  flag, and the heartbeats that a sweep observes are used after the transaction
  that read them has ended.
* **Crashes.** A run may be lost between its creation and its dispatch, between
  dispatch and claim, or while it executes; three mechanisms (the dispatch row,
  reconciliation at startup, the stale sweep) must cover all of the gaps.
* **Partial failure.** A terminal transaction commits and the file operation
  after it fails; renewals of the lease fail for a while.
* **Implicit order and lookup.** A node sees everything its parents have
  published and takes the first of a role; steps that could run at the same time
  run by name. Leakage, completeness of the manifest and which scorecard is
  applied depend on both.
* **Three implementations of one function.** The weight of a value is computed
  by masks on data frames, by generated Python and by generated SQL, over bins
  that an analyst has merged, grouped and reordered.

### What makes each component correct

Run lifecycle: one owner per run; terminal runs never change; the manifest says
what the rows say; success means that every step succeeded and nobody cancelled;
no live worker is swept; every submitted run ends. Publication: a published row
has its file, and every row is eventually published or keeps an error.
Dispatcher: no request is lost or executed twice at once; shutdown terminates.
Plans: a committed version is valid and never changes; its target is the same
everywhere. Topology: the order respects the edges and exists iff there is no
cycle. Step execution and nodes: nothing of a scorecard is made of a row outside
the training sample; each row of training counts once in the weights of a
variable; a selection keeps its limits; a frozen bundle can be applied; the
exported scorers give the weights of the applied frames; the manifest of a
successful run lists all of it. Evidence: a step that reads as fresh has evidence that agrees with its
parents'. Export: a reader finds the old pack or the new one.

## Modules

| Module | What it is |
|---|---|
| `RunContract` | What a run promises its users: the transitions of `domain/run.py` with their preconditions, as if one worker served the run. The abstract specification. |
| `RunLifecycle` | The threads and transactions that implement it. |
| `MCRunLifecycle` | Symmetry sets and a state constraint for TLC. |
| `RunLifecycleProofs` | Theorems about `RunLifecycle`: its rows, its owners, and the races that a setting excludes (a sweep against a worker that renews in time, a failing submission or refused attempt against the owner). |
| `RunContractProofs` | That a run which succeeded is complete, and that `RunLifecycle` implements `RunContract`. |
| `Publication` | The publication outbox: rows, staged files, object and manifest files, publishers in workers and in starting processes, crashes between any two of their operations. |
| `MCPublication` | Placements of workers on processes, and a symmetry set. |
| `PublicationProofs` | Theorems about `Publication`. |
| `DispatcherContract` | What `get_status` may answer over time, as if admission, execution and shutdown took a moment each. The abstract specification. |
| `ThreadDispatcher` | The pool, its queue and its lock, and a shutdown with its sentinels and joins. |
| `MCThreadDispatcher` | The module of the dispatcher's runs. |
| `ThreadDispatcherProofs` | Theorems about `ThreadDispatcher`. |
| `PlanVersions` | The versions of a plan: configuration, edits that carry the target along, manual-binning copies, commit, and what runs read. |
| `MCPlanVersions` | A symmetry set. |
| `PlanVersionsProofs` | Theorems about `PlanVersions`. |
| `Binning` | Operators on bins: automatic bins, manual overrides, weights of evidence, selection, and the three scorers. No state. |
| `Pathway` | One run of the canonical pathway: its 31 steps, in which order they run, which artifacts each sees and publishes, and when it fails. |
| `MCPathway` | Applicants, seeds and parameters. |
| `BinningProofs` | What is proved of the operators of `Binning` alone: bins in order, bins that share no value, selections within their limits. |
| `PathwayProofs` | Theorems about `Pathway`: what its artifacts are made of, the order of its steps, the agreement of the scorers, the selection. |
| `ScorecardProofs` | Theorems about the scorecard of a run: that its weights account for the sample, and that a frozen bundle can be applied. |

`RunLifecycle` uses the dispatcher and the outbox by what they promise: its queue
is the set of requests that `ThreadDispatcher` shows to be neither lost nor
executed twice, and the file operation that `PublishArtifacts` may see fail is
the one `Publication` takes apart. The three are not composed into one state
machine. `Pathway` is what happens in `RunNode`, step by step; since a run has one
owner (`OneOwner`) and records steps in order, it needs no second thread, and
the end of a run by cancellation or a sweep only cuts it short.

### RunLifecycle and the code

**Atomicity.** `SqliteUnitOfWork` begins every mutation with `BEGIN IMMEDIATE`
and holds it until commit, so one transaction is one action. A read through the
read-only factory that is used later is an action of its own (`SubmitScan`,
`RecoverScan`, `Enter`, `PreExecRead`, `StepTop`). Two reads are folded into the
transaction that follows: `_publish_run_summary` builds the summary from rows
that only its own worker adds before it writes it under the lease, and
`ReconcileDispatches` removes the row of a run it has just read as no longer
submitted, which cannot become submitted again.

**State.** `status`, `versionOf`, `forced`, `cancelRequested`, `generation` and
`heartbeatAt` are columns of `runs`. `pendingDispatch`, `runSteps`, `summaries`,
`diagnostics` and `manifests` are the rows a run owns elsewhere, kept to what the
properties tell apart: the statuses of the run steps in order, how many steps a
summary covers, the codes of the diagnostics, and for a manifest its status and
steps. Per process there are the state of the server, the dispatches left to
reconcile, the queue (a set), the submission under way and the observations of
the recovery thread. Per execution attempt, named by process and run, there are
the place in `ExecuteRun.__call__` / `_execute_steps` (`pc`), the generation it
was given (`lease`), the step it is at (`at`), the result of its node
(`outcome`), and its `HeartbeatWatchdog` (`watchdog`, `misses`, `due`).

**Actions.** `SubmitScan`, `SubmitSweep`, `SubmitCreate`, `SubmitRefused`,
`SubmitDispatch`, `SubmitDispatchFails` are `SubmitRun.__call__`; a submission is
synchronous or goes to the dispatcher. `CancelSubmitted` and `CancelRunning` are
the two branches of `CancelRun`. `Take` is a pool worker; `Enter`,
`PreExecFails`, `Claim`, `ClaimLost`, `PreExecRead`, `PreExecFinalize` lead to
the claim and `StepTop`, `WriteSummary`, `Heartbeat`, `RunNode`, `Persist`,
`PublishArtifacts` are the loop over the steps. `Finalize` and `FinalizeLost`
are `FinalizeRun` as the worker calls it, with the four rules for cancelled,
succeeded, failed and interrupted; `Terminalize` is what `FinalizeRun` writes
after its conditional transition, shared by every caller. `WatchdogBeat` and
`WatchdogTerminalize` are the heartbeat thread, `RecoverScan`, `RecoverOne` and
`RecoverSkips` the recovery thread, `Start`, `ReconcileOne`, `Serve`, `Shutdown`
and `Exit` the life of a process. `Exit` in any state is a crash: memory is
lost, the database stays.

**Faults.** With `Faults`, a transaction of a worker, watchdog, sweep or
submission may raise, and the file operation after a commit may fail. The
handler of `ExecuteRun` then finalizes once more, as the code does.

**Time** is a tick counter; `StaleAfter`, `BeatEvery` and `MaxMisses` are the
settings of `bootstrap/settings.py`. With `Punctual`, time does not pass while a
watchdog is overdue.

### Publication and the code

**Atomicity.** A step of a publisher is one transaction or one operation of the
file system: to look for the object, to move the staged file, to discard it, to
write a manifest (aside, then moved over its name: one step, since a reader sees
only the move), to mark the row. Between two steps another publisher may run or
the process may be gone.

**State.** `rows`, `entry` and `state` are the table `publication_outbox`; a
row's payload is what tells publications apart, the kind, the run, and the
staged file. `runs` and `status` are the runs as far as they publish. `staging`,
`content`, `objects` and `manifests` are the project directory. A staged file has
the number of the row that it was staged for, and its content is its physical
hash, fixed but unknown, so that outputs may share bytes. `todo` and `pc` are the
loop of a publisher: the thread of a worker, or the main thread of a process
that starts. `HostOf` places workers on processes.

**Actions.** `PersistStep` is the staging of the outputs with the transaction
that registers them, `EndRun` the terminal transaction of `FinalizeRun`.
`LookForObject`, `MoveFile`, `DropFile` and `WriteManifest` are
`PublicationPublisher.publish` with `FsArtifactStore` and `FsManifestPublisher`
behind it; a worker calls `finalize`, reconciliation `finalize_staged_file`, and
they differ in whether they look for the staged file first. `MarkPublished` and
`MarkFailed` are the transactions after it. `Published` and `Raised` are how
`publish` returns: reconciliation notes an error and goes on to the next row, a
worker gives its other rows up and fails its run. `Start`, `ListPending`, `Serve`
are `build_app` with `ReconcilePublications`, which is over before requests are
served. `FileFault`, `MarkFault` and `ListFault` raise for a reason of their own.

**Left out.** Files staged for a transaction that is refused are never read
again. `list_pending` sorts by a time in seconds and leaves the order of rows
inserted within one open; the model takes the order of insertion.

### ThreadDispatcher and the code

**Atomicity.** A step is what a thread does under the lock, or one operation on
the queue, or one call out of the dispatcher. `dispatch` puts its request on the
queue after it has released the lock (`Admit`, `Put`); a worker gets a request
and takes the lock afterwards (`Get`, then `Begin` or `Discard`); the run ends
(`Execute`), its result is noted (`Note`) and the request released (`Release`)
in steps of their own; shutdown holds the lock at its beginning (`Close`) and at
its end (`Report`), and cancels (`AskToStop`), puts sentinels (`Signal`) and
joins (`Join`) in between without it.

**State** are the fields of `ThreadRunDispatcher`, with the place of each worker
and of the one shutdown that does something. The histories are sequences, oldest
first, with the eviction of `_BoundedSet`. `DispatcherContract` is compared with
what `get_status` computes from those fields.

**Left out.** The time-out of a join is a choice: it may return although its
worker has not exited. In which order workers are joined does not matter, since
nothing else of the shutdown depends on it. Exceptions of `cancel_run` are
suppressed and change nothing here.

### PlanVersions and the code

**Atomicity.** Each use case opens one unit of work, so each is one action.
`SubmitRun` reads the version in a transaction of its own before it creates the
run; since a commit is never taken back (`CommittedIsFrozen`) the two are folded.

**State.** `stage` is a row of `plan_versions` with its `is_committed`; `params`
and `hashes` are the two columns of `plan_steps`, of which the model keeps the
three steps with a target, manual binning and one step that has neither. What the
parameters say is a target and a set of *facts*, one for each distinction that
the schema, the checks of the nodes or the readiness gate make; the header of the
module lists them. A hash is modelled by the parameters that it was computed
from, so that a column that was not recomputed shows. `runOf`, `executed` and
`manifest` are a run, the reading of the steps at its beginning, and the steps of
its manifest: their hashes come from the fingerprints, their parameters from a
second reading.

**Actions.** `Create` is `CreateCanonicalScorecardVersion`, whose configuration
is not validated; `ApplyManualBinningEdit` copies a committed version, with a key
that no schema knows in the edited step, which may be any step the request
names; `UpdateStepParams` is the edit with its propagation, `CommitPlanVersion`
the commit with the validation of every step and the canonical readiness.

**Left out.** Plans, version numbers and descriptions; the rows of reviews, whose
status any request may set and nothing reads; the refusals of an edit whose
source evidence is incomplete (the edit just does not happen).

### Binning, Pathway and the code

**Atomicity.** A step is the call of its node with everything the executor does
around it. Nothing is shared but the artifacts of the run, which never change.

**State.** `state` and `done` are the status of the run and its successful steps.
An artifact is named by step, role and kind (the schema version by which evidence
is found; a frame has none). Its record has its content and, since leakage is
about it, the sample roles whose rows went into it: the union over the artifacts
that the node has read. What is made before the split has none; the split gives
each sample its role.

**Order.** `validate_topology` is `IsNext`: of the steps whose parents are done the
smallest name runs. Names are compared by their place in `ByName`.

**Inputs.** `Sources`, `Resolved` and `Inputs` are `StepRunner` (the parents in
their order, then the roles of the input contract); `FirstOf`, `OfRole`, `OfKind`,
`Has` and `Ambiguous` are `StepInputCollection` and `EvidenceReader`, which refuse
two artifacts of the kind they are asked for. `Parents`, `Required` and `Optional`
are tables: the plan, and the contracts of its nodes.

**Nodes.** An action gives the conditions under which its node succeeds and what
it publishes. Computed are exclusions, the stratified split, treatment, numeric
and categorical bins, the masks, overrides with their validation, weights,
selection with its cluster rules, and what both exporters generate. A weight is
kept as the odds whose logarithm it is, a pair of integers. Left to choice are
the order of levels of equal frequency, correlations (any clustering),
the ranking by information value (a variable with any comes before one with
none), whether the regression converges, whether a metric passes its gate and
whether two different rows get different scores.

What the code computes in a loop that appends to a list (the overrides of a
variable, the two passes of the selection) is a function on `0 .. n`, its value at
k the result after k rounds (`Stages`, `Represented`, `Considered`), and a list
comprehension with a condition is `At` of the positions at which it holds.
`ParameterAssumption` says of parameters what the code has checked before they are
used: `max_bins` and `max_categorical_levels` go through `int`, `max_variables` is at
least 1 by its schema, the values that a treatment puts into a numeric column are
numbers, and what should be a list is one. `DataAssumption` says that a data set
is a finite table with the same columns in each row and numbers in those that are
numeric, as a data frame has; numbers are integers here, since bins depend on their
order and equality alone. `NullAssumption` keeps the missing value apart from them.

**Left out.** Steps outside the canonical plan; the numbers of a report; the
parameters that a node accepts and no property is about. A node that raises and
one that returns a failure are both `Fail`; only `validation-metrics` publishes
its report and fails.

**Definitions marked as variants.** A definition directly in front of the one it
varies (`ClaimableTwice` before `Claimable`) is a plausible bug; no
specification uses it. `PROJECT.json` pairs each with the property it breaks.

## Runs

| Run | Question | Instance |
|---|---|---|
| `lifecycle_one_run` | Does one run stay consistent, and implement `RunContract`, through every fault? | 1 process, 1 run, 2 steps with a summary, 2 ticks, 1 exit, faults |
| `lifecycle_submissions` | Do racing submissions keep one unforced active run per version, and has a run one owner at most, also when a second process starts and dispatches it again? | 2 processes, 2 runs, forced and not |
| `lifecycle_punctual` | Does the sweep spare a worker that renews? Who may fail a run? | 1 process, 1 run, 2 steps, 5 ticks, 1 exit, punctual watchdogs |
| `lifecycle_liveness` | Does every submitted run end, and is every abandoned run interrupted? | 1 process, 1 run, 3 ticks, 2 exits, fairness |
| `late_claim` | Violation: is the worker of a run that queued for long safe from the sweep? | 1 process, 1 run, 2 ticks |
| `publication_safety` | Do files and rows agree, and is nothing lost, in every race of publishers? | 2 processes, 1 worker each, 2 hashes, 3 rows, 2 runs, 1 fault, 1 crash |
| `publication_one_process` | Within one process: does anything fail without a fault, does a published row stay published, does each start repair what is left? | 1 process, 2 workers, 2 hashes, 3 rows, 2 runs, 1 fault, 2 crashes, fairness |
| `dispatcher_pool` | Is no request lost or executed twice, is every run that executes asked to stop, do the answers of `get_status` follow `DispatcherContract`, is every request taken, and does a shutdown end every worker? | 2 workers, 3 runs, 4 dispatches, histories of 1, fairness |
| `plan_versions` | Is there one target everywhere, is only what is ready committed, does it stay as it is, does an edit stay where it belongs, and do manifests show what was executed? | 2 versions, 1 run, 2 columns and a blank one, 2 steps that an edit may name |
| `pathway` | Does nothing leak, do weights account for the sample, do the three scorers agree, does a selection keep its limits, can a frozen bundle be applied, and does the manifest list the run? | 12 applicants, 3 variables, 4 data sets, 2 seeds, 2 treatments, 3 ways to bin, 3 to select, 7 lists of overrides, 4 ways to weigh |
| `grouped_twice` | Violation: do the bins of a variable have different ids? | the same |
| `missing_category` | Violation: can a bin of missing values be exported? | the same |

**Bounds, and why they are enough.** Except for the guard on concurrent
submissions (two runs in `lifecycle_submissions`), no transaction reads a row of
another run, so one run shows every behaviour of a run. Two processes are the
least with a foreign owner. What the runs of one process check beside liveness is
proved below for any number of processes with faults, exits and sweeps of each
other's runs, except for `OnlyTheOwnerFails`, which is a property of one process
(and proved of it), and `SweepSparesRenewingWorker`, which has no faults.
Two steps are the least with a summary of an earlier step and a failure after a success.
Two ticks with `StaleAfter = 1` are the least in which a heartbeat becomes
stale; `lifecycle_punctual` has five with `StaleAfter = 2`, so that a run can
wait, be claimed late, renew and be observed by a sweep between renewals. One
exit is a crash anywhere and a restart; the liveness run allows a second crash
during the recovery from the first. `RequestsWithinRuns` drops states with more
submissions under way than run identifiers left, which can only be refused.
Processes (and runs) are interchangeable, and the symmetry is used only where no
liveness is checked.

Three outbox rows are two outputs of a step, of the same bytes or not, and the
manifest of their run, or the steps of two runs; two hashes let outputs be
duplicates or not; with `Limit = 3` the list has room for every row, as 1000 has
in the program unless more rows than that are left behind. One fault and one
crash are enough to leave a row in each of its states with the file at each of
its places, and the one-process run allows a crash during the recovery from a
crash. Two workers of the pool are the least that race, three runs and four
dispatches let a run be dispatched again while others wait, execute and push it
out of a history of one.

Two versions of a plan are an original and its copy, which is what a transaction
reads at most; two columns and a blank one let a target change, disagree, or be
refused; of the steps that a manual-binning edit may name, manual binning itself
and one that is something else.

Twelve applicants, six of each class, are split by 70 and 16 percent into samples
of eight, two and two. The first data set has nulls in a numeric variable and one
in the variable with levels, the second a level in few rows, the third a row of a
class that must be excluded, the fourth no class but one. With the two seeds the
training sample has or lacks the null of the variable with levels and the largest
values, so that a value outside the training range, and one that no bin holds,
turn up in the other samples. Three numeric bins or more, of which one is of the
missing values, are the least for a merge of bins that are not neighbours; the
lists of overrides have one of each action that moves rows, two groups on one
variable, and combinations that must be refused. Selections have a limit that
binds, a rule for clusters, inclusions, exclusions and representatives. The
scorers are compared on every value from below the smallest break to above the
largest, on levels not seen in training, and on a null.

`CHECK_DEADLOCK FALSE` everywhere: run identifiers and clock
are bounded and an idle server may stay idle.

**Fairness** (`FairSpec`) is weak fairness of threads that the process keeps
running: the submission under way, a worker with a request in its queue, each
attempt, each watchdog and the recovery thread; of the startup of an application
that is down and the end of one that drains (the supervisor, or the user who
opens the desktop shell again); and of time. Nothing obliges anybody to submit,
cancel, crash or shut down. The conclusion of both liveness properties excepts a
run that would become stale only after the bounded clock ends. There are no
faults in that run: a dispatch that reconciliation cannot read waits for the
next start, which nothing obliges to come. In `Publication` a process that is
down starts (the same supervisor or user) and publisher threads run; no fairness
makes a fault, a crash or a run happen, and `EveryStartRepairs` begins where the
faults of the model are used up, that is, when the directory works again. In
`ThreadDispatcher` a `dispatch` under way reaches the queue, workers and a
shutdown that has begun go on, and a run that executes ends, which is what
`lifecycle_liveness` shows of a run that a process executes.

## What the checks show

* Through every interleaving of the instances, a dispatch row stands exactly for
  a waiting run (`PendingIffSubmitted`); a run has at most one owner in its life
  (`OneOwner`); terminal runs are immutable (`TerminalIsFinal`); manifests
  contain what the run recorded (`ManifestIsFaithful`); a run succeeds only
  complete and uncancelled (`SuccessIsComplete`); lost races leave no diagnostic
  (`DiagnosticsAreTrue`); two unforced runs of a version are never active together
  (`OneActivePerVersion`).
* `RunLifecycle` implements `RunContract` (`ImplementsContract`): steps are
  recorded only while the run is running and uncancelled, in order and after a
  success, and each way to end has its precondition.
* A sweep's old observation never interrupts a worker that has renewed its lease
  (`SweepSparesRenewingWorker`), and within one process only its own worker fails
  a running run (`OnlyTheOwnerFails`). With two processes the latter does not
  hold: an unfenced finalization after a failed validation or dispatch may reach a
  run that the other process has claimed in the meantime. The repository
  promises nothing about it.
* Submitted runs end and abandoned ones are interrupted.

* Whatever publishers crash, race or discard a duplicate, the bytes of a
  registered artifact are under their hash or where their row says they were
  staged (`NothingLost`); a row says published only of a file in place
  (`PublishedIsOnDisk`); the outputs of a run that succeeded can be read
  (`SuccessIsOnDisk`), though another process may have marked their rows failed.
  Within one process no publication fails without a fault
  (`FailureNeedsAFault`), and a start repairs what crashes have left
  (`EveryStartRepairs`).
* An admitted run is in one place until it is released (`EachRunInOnePlace`); a
  shutdown asks every run that executes to stop, also the one that begins while
  it takes its snapshot (`RunningIsAsked`); a drain that is not reported as
  failed leaves no run executing (`DrainIsReported`); histories that overflow and
  runs dispatched again never make `get_status` answer out of turn
  (`ImplementsContract`); a run that raises does not cost the pool its worker
  (`EveryRequestIsTaken`); workers exit though requests may reach the queue in
  front of, between and behind the sentinels (`WorkersExit`).

* In every version the three steps that depend on the target have the same one
  (`TargetsAgree`), and an edit makes no other step invalid (`EditIsLocal`), also where the edited step's
  node would accept a target that another one refuses. A committed version
  satisfies the gate (`CommittedIsReady`) and never changes (`CommittedIsFrozen`);
  a manifest shows the parameters that were executed (`ManifestAgrees`).

* Nothing of a scorecard is made of a row of the test or out-of-time sample
  (`NothingLeaks`). Every row of training counts once in the weights of each
  variable, after any overrides that are accepted (`WoeAccountsForTraining`). The
  masks, the Python function and the SQL expression give a value the same weight,
  or none (`ScorersAgree`), where the Python is syntactically valid: for a
  variable whose only bin is that of its missing values an `else:` without a body
  is generated. A selection keeps its limit and its rule for clusters
  (`SelectionIsSound`); after a freeze a run fails only for its data, and for the
  bin of `missing_category` (`FrozenIsApplied`); the manifest lists every step
  (`ManifestListsAll`).

Two behaviours of the model that no document speaks against, and no property
forbids: the copy that a manual-binning edit makes cannot be committed until the
parameters of its step have been written again, because `status` is a key that
the node's schema does not know; and in a draft from the template the target
cannot be changed through `validate-target` or `split` before `define-metadata`
is complete, because the propagation validates it.

Two more, of the pathway: a variable that was selected and afterwards rejected by
hand stops every freeze, because the model keeps the selected names as its source
variables; and a numeric bin that ends at the largest value of the sample, with
no row above the last break, does not contain that value, so that the
transformation of the training sample fails.

Three more follow from the older modules, without a run of their own: `CancelRun`
ends a submitted run without a manifest row (`CancelSubmitted`), though
`docs/architecture/execution-and-staleness.md` gives terminal transitions to
`FinalizeRun`; next to a second process that starts, a published row may be marked
failed by the publisher that found the staged file gone (`PublishedStays` is
checked and proved for one process); and `drain_failed` may be false while a worker that
executes nothing is still alive (`DrainIsReported` says no more).

Three runs end in a violation:

* `late_claim`: `_claim_run` does not renew `heartbeat_at`, which still holds the
  time of creation. A run that waited longer than the stale threshold (300 s by
  default, behind a pool of one worker) is stale at its claim, and until its
  first renewal a sweep may interrupt it, although `run_repo.py` says that the
  sweep "must not kill a live worker".
* `grouped_twice`: `apply_overrides` gives each group of a variable the id
  `{variable}_manual_grouped`. With two groups the table of weights, which is
  keyed by that id, has one of the two weights for the rows of both, although
  `LifecycleBinDefinition.validate` knows "Duplicate bin_id" as an error; the node
  does not call it.
* `missing_category`: the bin of missing values of a categorical variable has
  `categories` None, which `compile_scorecard` cannot turn into a tuple. The
  exporters fail, and the run with them, though `docs/architecture/domain-model.md`
  says of such a bin: "Treated as a distinct risk category at scoring time."

## What is proved

`RunLifecycleProofs` proves, for every number of processes, runs, versions and
steps, for every timing and both switches, from the assumptions named in
`RunLifecycle`:

| Theorem | Statement |
|---|---|
| `TypeCorrect` | `Spec => []TypeOK` |
| `PendingIsSubmitted` | `Spec => []PendingIffSubmitted` |
| `TerminalStaysFinal` | `Spec => TerminalIsFinal` |
| `ManifestStaysFaithful` | `Spec => []ManifestIsFaithful` |
| `DiagnosticsStayTrue` | `Spec => []DiagnosticsAreTrue` |
| `OneOwnerAtMost` | `Spec => []OneOwner` |
| `OneActiveRunPerVersion` | `Spec => []OneActivePerVersion` |
| `SuccessStaysComplete` (in `RunContractProofs`) | `Spec => []SuccessIsComplete` |
| `LifecycleKeepsContract` (in `RunContractProofs`) | `Spec => ImplementsContract`: the refinement of `RunContract` |

The argument: `StepIsTransaction` shows that every step of the program is one of
nine transactions on one run's rows, or leaves the database alone. The row
properties follow from the nine transactions without looking at processes
again. Manifests and diagnostics need the inductive invariant `RowsOK`, which
adds what an active row looks like: no manifest, no diagnostic, generation 0
while submitted and 1 while running, and the codes that go with each ending.
`OneOwner` needs `HeldIsClaimed` (an attempt past its claim has lease 1 and its
run has a generation of at least 1) and `OnlyClaimClaims`: the claim is the one
step by which an attempt comes to hold a run, and it needs a run that is still
submitted, hence of generation 0.

Completeness and the refinement need `SuccessOK`, which ties the place of an
attempt to the rows it wrote: while its run is running, an attempt before step n
has recorded n - 1 successes and the summaries among them (`PlacesOK`). A run
that is no longer running says nothing about the attempt, which may go on for a
while with an old view; the lease fences it, and no transaction outside
`ExecuteRun` touches what a running run has recorded (`RowsStay`). `Untouched`
is where the first attempt begins, and `HeldOnce`, from the proof of
`OneOwnerAtMost`, keeps a second one from writing into the first one's rows.
`CancelWasAsked` gives the contract its precondition for an ending as cancelled.

Two more theorems of `RunLifecycleProofs` hold under a setting of a run, for every
value of the other constants:

| Theorem | Setting | Statement |
|---|---|---|
| `RenewingWorkerIsSpared` | `Punctual`, no `Faults`; any number of processes | `Spec => []SweepSparesRenewingWorker` (an action property) |
| `OwnerFailsAlone` | one process (`SingleProcess`), with or without `Faults` | `Spec => OnlyTheOwnerFails` |

The first relates three clocks. A sweep acts on a heartbeat that it read some time
ago, and only while the heartbeat is still that one: `ObservedOK` says that whatever
a sweep has in hand is older than the stale threshold (`LongAgo`; time only passes).
`WatchdogOK` says that no watchdog is giving its run up, and that one that waits
belongs to an attempt past its claim and is not overdue; `FreshOK` that, once the
attempt has renewed its lease, its beat is due at most one interval after the
heartbeat. Since an interval is no longer than the threshold, a heartbeat cannot
be both. Without `Punctual` the second falls, and with `Faults` the watchdog may be
late or gone.

The second is about the finalizations without a generation: of a submission
whose dispatch failed, and of an attempt whose plan was refused. `WayOK` says that
a run has one way to its claim: it is being dispatched, or in the queue, or with an
attempt that has not claimed it, and while it is on that way it is not running.
`PhasesOK` ties the phases of a process to it: reconciliation, which puts runs in the
queue again, is over before the first submission, and begins with a process that
has lost everything it had in memory. With a second process all of this fails: the
reconciliation of one may queue a run that the other is about to dispatch.

`PublicationProofs` proves, for every number of processes, workers, hashes, rows,
runs, faults and crashes, from `PublisherAssumption` and `BoundAssumption`:

| Theorem | Statement |
|---|---|
| `TypeCorrect` | `Spec => []TypeOK` |
| `NothingGetsLost` | `Spec => []NothingLost` |
| `PublishedStaysOnDisk` | `Spec => []PublishedIsOnDisk` |
| `SuccessStaysOnDisk` | `Spec => []SuccessIsOnDisk` |
| `FailuresHaveACause` | `Spec => []FailureNeedsAFault`, for one process (`SingleProcess`) |
| `PublicationIsFinal` | `Spec => PublishedStays`, for one process |

The argument: `TableOK` says that the table has no gaps, that an entry is written
with its row and that publishers have only rows that exist; `Grows` that objects,
manifests and entries are only added and that a hash never changes. `FilesOK`
then adds to `NothingLost` and `PublishedIsOnDisk` the meaning of a publisher's
place (`PlaceOK`): one about to discard a staged file has seen its object, and one
about to mark a row published has the file in place. That is why a race for a
staged file loses nothing: it is moved to its object or discarded because of it.
`SuccessIsOnDisk` needs `RunsOK` beyond it: the outputs of a run are on disk or
still in the hands of its worker, unless a publication of that worker has failed,
and then the run cannot succeed.

In one process, publishers exclude each other in a way that is not written down
anywhere: a worker is at work only when reconciliation is over (`PhasesOK`), and no
two publishers have the same row in hand, or two rows with one staged file, or a
row that is published already (`HandsOK`). `NoFaultOK` adds that before the first fault
no row is marked failed, and that a publisher about to move or discard a staged
file will find it (`FileAtHand`). So it fails only if the operation raises, and nobody
is left to fail a row that another has published.

`ThreadDispatcherProofs` proves, for every number of runs, workers and dispatches
and every capacity of the histories, from `DispatcherAssumption`:

| Theorem | Statement |
|---|---|
| `TypeCorrect` | `Spec => []TypeOK` |
| `RunsStayInOnePlace` | `Spec => []EachRunInOnePlace` |
| `EveryRunIsAsked` | `Spec => []RunningIsAsked` |
| `DrainStaysReported` | `Spec => []DrainIsReported` |
| `DispatcherKeepsContract` | `Spec => ImplementsContract`: the refinement of `DispatcherContract` |

The argument: `EachRunInOnePlace` is inductive once a worker is known to hold a
request exactly between the queue and the release (`HandOK`). `ActiveOK` says
that `_active` is what the workers execute, so the snapshot of the shutdown
misses nothing, and `NoneBegins` that nothing is added behind it. The refinement
needs `HistoryOK`: a run is in one history at most, once, and, while it is queued
or active, only after its worker has noted the result. Otherwise `get_status`
would answer with an earlier attempt. `RoomForOne` bounds the runs that execute
by the workers. `WithoutMembers` and `RememberMembers` say what `_BoundedSet`
does to a history.

`PlanVersionsProofs` proves, for every number of versions, runs and columns and
every choice of the steps that an edit may name, from the three assumptions of
`PlanVersions`:

| Theorem | Statement |
|---|---|
| `TypeCorrect` | `Spec => []TypeOK` |
| `TargetsKeepAgreeing` | `Spec => []TargetsAgree` |
| `HashesKeepAgreeing` | `Spec => []HashesAgree` |
| `CommittedStaysReady` | `Spec => []CommittedIsReady` |
| `CommittedStaysFrozen` | `Spec => CommittedIsFrozen` |
| `EditsStayLocal` | `Spec => EditIsLocal` |
| `ManifestShowsExecuted` | `Spec => []ManifestAgrees` |

The argument: `PlanOK` is the conjunction of the invariants with `RunsOK`, a run
is of a committed version and what its worker has read is what that version still
says; without it nothing ties the second reading to the first. Only two steps
write rows of a version, a new draft (`CreateDraftPreserves`) and an edit
(`UpdateStepPreserves`); the lemmas about `Configured`, `BinningEdited` and
`WithTarget` say what they do to the target, and `ReadyMeansReady` that the
commit's checks give what a committed version promises.

`BinningProofs`, `PathwayProofs` and `ScorecardProofs` prove, for all data sets,
seeds, parameters and overrides, from `DataAssumption`, `ParameterAssumption` and
`NullAssumption`:

| Theorem | Statement |
|---|---|
| `TypeCorrect` | `Spec => []TypeOK` |
| `NothingEverLeaks` | `Spec => []NothingLeaks` |
| `ManifestListsEverything` | `Spec => []ManifestListsAll` |
| `ScorersStayInAgreement` | `Spec => []ScorersAgree` |
| `SelectionStaysSound` | `Spec => []SelectionIsSound` |
| `BinsStayApart` (in `BinningProofs`) | of operators: of any column, way to bin it and overrides that the code accepts, no value is in two of the bins that are left if each has a mask |
| `FrozenStaysApplicable` (in `ScorecardProofs`) | `Spec => []FrozenIsApplied` |
| `WoeStaysAccountable` (in `ScorecardProofs`) | `Spec => []WoeAccountsForTraining` |

They rest on three inductive invariants, each about more of what a run has
published: `Inv` for the first three, `ScorecardInv` for the next two, and `RunInv`,
the conjunction of both with `TrailInv`, for the last.

**Leakage.** `NothingLeaks` speaks of fitted kinds and training frames, but nodes
look by role, and they read the input frame, the model and the scorecard by
theirs. `Clean` adds these roles, and then each step that fits publishes only
what is made of clean artifacts (`CleanRole`, `CleanKind`), so one lemma for one
artifact (`InvPublish`), one for frames (`InvFrames`) and one for a table of four
(`InvWoeIv`) carry all 31 steps.

**The manifest.** `ManifestIsLast` walks from the six parents of its step
backwards through the plan (`Closed`, `Edges`) to everything but six steps. Five
of these have smaller names and are ready by then, so they must be done
(`NotReady`); `validate-target` has a larger one, and is done because
`variable-clustering`, which the manifest does depend on, has a larger one still
(`TargetIsValidated`). `Listed` carries this through the run.

**The scorers** read the same bins in three ways. The applied frames take the
first bin whose mask holds; the Python function looks at missing bins first and
then goes through an if-chain that ends at the other bin; the SQL expression goes
through all conditions and has the other bin as its ELSE. They agree on bins that
are `Ordered` (`ScorersAgreeOnBins`): a missing bin lists no levels, and behind the
other bin come only bins without levels, which get no condition. That is not
checked anywhere in the code, so the proof shows that whatever makes bins keeps it:
the numeric bins (`NumericBinsPlain`) and categorical ones
(`CategoricalBinsOrdered`), and each kind of override, in any number
(`OrderedOverridden`, `OrderedStages`). `ContentsOK` says of every artifact what
later steps rely on: definitions hold ordered bins and come from two steps only,
weights from two, models from one, frames are finite. `StepsOK` says that an
exporter has rendered the bins of `manual-binning` with the weights of
`final-woe-iv` for the features of `model-fit`: it finds them by kind and role, and
no other parent of it publishes any (`ExporterFinds`, `ExporterModel`). Without
that the two exporters could differ in their variables, and from the applied
frames. The theorem is about every value, not only those of `ScoredValues`.

**The selection.** `SoundSoFar` holds after every cluster and every candidate: no
variable twice, none excluded, within the limit if clusters have no rule, and of a
cluster at most one variable that the analyst has not included, whose cluster has
then been seen. The first pass needs that clusters are disjoint
(`ClustersAreDisjoint`, through the artifact that `variable-clustering` publishes)
and that a representative is of its cluster (`RepresentativeOf`); the second, that a
variable is added in two places only, with what each has checked (`IsAdded`,
`SoundConsider`). What the end takes back leaves a prefix (`SoundPart`).

**The trail.** The other two theorems are about what one step knows of another.
`Made` lists which of a step's outputs the others look for, by role and kind, and
`Layout` says that a finished step has published those, and that nobody has
published anything else of such a role or kind. From that and the tables of the
plan follows which single artifact a step finds (`RoleFound`, `KindFound` and the
lemmas `...Finds`, one for each step that looks for something). `Trail` says how the
contents fit: frames have a row, with numbers where the variable is numeric; the
automatic bins are fresh, those of the scorecard come from them; the final weights
are those of the scorecard's bins in the training sample; after `woe-transform-train`
every row of training has a weight; the model's features are the variables of the
bins; the bundle pins the model, the scaling, the bins, the weights and the
selection. `InTime` is needed since two steps before the bundle are not behind any
parent of it: `EarlierDone` shows that all 21 others are done when it is.

**A frozen bundle is applied.** `FrozenIsApplied` is a part of the invariant: a step
that fails behind the bundle has one of the four excuses of `MayStop`. For each of
these steps, what its action requires follows from `Layout` and `Trail`, except for
that excuse. Two cases need more. `apply-model` has two parents that publish a
scorecard and takes the first; `ScalingIsFirst` shows that this is the scaling, by the
order of its inputs. And the SQL exporter has no excuse of its own: it renders what
the Python exporter has rendered before it (`TrailSql`).

**The weights account for the sample.** That no row is lost is what the
transformation of the training sample checks, which finds a bin for each
(`AreMatched`). That no row counts twice nobody checks. The proof starts from
automatic bins, which are `Fresh`: at most one missing bin, which comes first, no
numeric bin beginning before the one in front of it ends, each level in one bin
(`NumericBinsFresh`, from breaks that are quantiles in order;
`CategoricalBinsFresh`). Overrides may merge, group and move them in any order, and
validation looks at the automatic bins only, not at what earlier overrides have left
of them. `Placed` is what survives: each bin takes the place of some of the fresh
ones, its span, no two spans meet, and the bin's bounds or levels are those of its
span. Every override keeps that (`PlacedMerged`, `PlacedGrouped`, `PlacedParts`,
`PlacedStages`). A merge of numeric bins needs that its sources are neighbours
(`AdjacentSpan`); a group of numeric bins has neither bounds nor levels and thus
no mask, which `final-woe-iv` refuses. So a value is in one bin at most
(`ApartPlaced`; `BinsStayApart` says it from the column to the last override), the
bins divide the rows of training (`TrainingIsDivided`), and the counts of a table's
rows add up to those of the sample (`RowsAreCounted`, by the sum over the first n
bins).

TLC has checked the parts of these invariants on the instance of `pathway`, with a
finite set in the place of the integers, before they were proved.

These proofs need induction over a list. The induction theorems of the library
take an operator as a parameter, which no installed prover can instantiate, so
`NaturalsInSet` states the principle with a set: one that holds 0 and the successor
of each of its elements has all naturals. That a recursive function exists is
proved with it too (`StagesExist`, `RepresentedExists`, `ConsideredExists`,
`TotalsExist`).

**Only model-checked** are the liveness properties (`SubmittedRunEnds`,
`AbandonedRunIsInterrupted`, `EveryStartRepairs`, `EveryRequestIsTaken`,
`WorkersExit`), which rest on fairness and are out of the prover's reach. Every
invariant and action property of a passing run has a theorem.

## Not modelled, and why

* The time-outs with which `watchdog.stop()` and the dispatcher join their
  threads: a join that gives up leaves a thread that a later model step still
  fences; `Exit` during draining covers the drain window.
* In `RunLifecycle`, pool size and FIFO order (its queue is a set from which any
  waiting run may be taken; `ThreadDispatcher` has them), and the file side of
  publication (it succeeds or raises; `Publication` has it).
* In `RunLifecycle`, the node's computation (any result; `Pathway` has it), and
  evidence and lineage rows written in the same transaction as the run step.
* Numbers: coefficients, scores, points, metrics, correlations and variance
  inflation. TLC has no real numbers, and the pathway's refusals depend on them in
  the few places where the model has a choice instead. Nodes that the canonical
  plan does not use.
* Reading an artifact back: `Pathway` takes it for what was written
  (`Publication` shows that it is in place).
* Removal of old staged files (`gc_staging`): no code path calls it. Lists of more
  unfinished rows than `list_pending` returns, where a row that fails at every
  start could keep its place.
* Missing or malformed heartbeats (no code path writes one), clocks that step
  back, and the one-second resolution of timestamps.
* The components listed as such in `PROJECT.json`.

## Plan

1. `RunContract`, `RunLifecycle`, their runs and first theorems: done.
2. `Publication`, its runs and its safety theorems: done. Left: the composition
   with the finalization of `RunLifecycle` through its manifest rows.
3. `DispatcherContract`, `ThreadDispatcher`, their run, the safety theorems and
   the refinement: done.
4. `PlanVersions`, its run and its theorems: done. Left: nodes beyond those that
   the readiness gate looks at.
5. `Binning`, `Pathway`, their run and a theorem for each of its invariants: done.
   Left: nodes outside the canonical plan, and runs that reuse the evidence of
   earlier ones.
6. `StepGraph`: validation and closures of any step graph, against a reference
   definition over all small graphs.
7. `EvidenceStaleness`: runs, evidence edges, the fallback of the resolver and
   the walk, against a definition of freshness.
8. `ExportAuditPack`, `WorkspacePolling`, and the desktop shell's start and stop
   of its server.
9. Proofs: of every safety property that a run checks: done. Left: the refinements
   and invariants of the modules above.
