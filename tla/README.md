# A TLA+ development of rosary

rosary is a work-item orchestrator written in Rust: issues ("beads") live in a
store beside each repository, a daemon scans them, decides which are ready,
starts a coding agent in a workspace for each, verifies what the agent left
behind, and moves the bead along a pipeline of agents until there is a pull
request, or the bead is given up as a dead letter.  This directory holds TLA+
models of the parts whose correctness depends on the order of events, the TLC
configurations that check them, and proofs of the main results.

Paths below are relative to `src/` of the repository's crate, so
`reconcile/mod.rs` is `src/src/reconcile/mod.rs` in `PROJECT.json`.

## 1. The system: components, state, interaction

| component | state | operations | what makes it correct |
|---|---|---|---|
| bead transition table (`bead.rs`, `bead_sqlite/`) | the status column of each bead | `update_status`, `close_bead`, `bead reopen` | no move outside the table; terminal states are left by hand only |
| pipeline engine (`pipeline.rs`, `config/`) | none (pure), reads and writes the backend store | `agents_for`, `next_agent`, `decide`, `record_dispatch`, `complete_dispatch` | retries are bounded; each phase is followed by the right one |
| reconciler (`reconcile/`) | `active`, `trackers`, `queue`, `deadlettered`, `completed_*` in memory; nothing of it survives a crash | `iterate()`: scan, commits, pull requests, owners, `check_completed`, `triage`, dispatch, `verify_completed`; `recover_stuck_beads` at start | one run per bead, the store follows the run, nothing lost, nothing started too early, everything settles |
| work queue (`queue.rs`) | heap, key set, backoff per key | `enqueue`, `dequeue`, `record_backoff`, `defer_until`, `clear_backoff` | heap and key set agree; best eligible first; holds honoured |
| targeted run (`reconcile/mod.rs` `run`, `reconcile/verify.rs` `wait_and_verify`) | as the reconciler, for one bead | scan, triage without the status gate, wait, judge, start the next phase inline | what it reports is what the store shows; bounded; it ends |
| feature orchestrator (`orchestrate/`, `reconcile/orchestration.rs`) | a state machine per bead, its phase and retries | `tick`, `worker_finished`, the daemon's tick of all of them | one worker at a time; bounded; it ends |
| MCP dispatch and sweeps (`serve/handlers/`, `session.rs`, `dispatch/sweep.rs`) | session registry on disk, worker processes | `rsry_dispatch`, orphan sweep, liveness sweep, merge, cleanup, rm | no sweep takes a bead that is worked; a dead worker's bead is found |
| workspaces (`workspace/`) | worktrees and branches | create, reuse, checkpoint, tear down, sweep | no work is destroyed |
| exchange of records (`jsonl_sync.rs`, `publish/`, `restore/`, `docs/git-hooks/`) | a store per clone, `.beads/beads.jsonl` on branches and trunk | commit and push hooks, trunk refresh, three-way merge, import, close-merged | no older record replaces a newer one; what is published arrives |
| threads and feature pull requests (`reconcile/threading.rs`, `epic.rs`, `store*.rs`) | threads, their decades and members | auto-thread, decompose, assign, reparent, assembly | a bead is in one thread; a feature PR opens, and holds its members' work |
| store switch (`bead_migrate.rs`, `bead_backend.rs`) | the Dolt directory, `beads.db`, `beads.db.new` | `bead migrate`, `connect_bead_store` | no bead is lost; no client is given an empty store |
| bead move (`bead_move.rs`) | a bead in two stores | `bead move` | lossless; the bead lives once |
| observations (`observation/`) | append-only log, folded views | insert, fold, join, backfill | the fold does not depend on order; a merge is witnessed once |
| handoff chain (`handoff.rs`, `manifest.rs`) | hash-linked files in the workspace | write, read, verify | a phase sees exactly its predecessors' handoffs |
| stores (`store*.rs`, `dolt/`, `bead_sqlite/`, `pool.rs`) | SQL tables | CRUD | - |
| trackers and GitHub (`sync.rs`, `linear*.rs`, `github*.rs`) | external | mirror both ways | no echo, no lost update |
| the rest | - | providers, verification tiers, MCP transport, hooks, capture, bdr, crypto, CLI | process control, parsing, I/O |

`PROJECT.json` lists every component with its sources and says why those that
are not modelled are not.

How they interact: the reconciler calls the pipeline engine, the queue, the
workspaces, the orchestrators and the threads.  It reads the bead store once per
iteration and acts on that snapshot for minutes, writing single statuses back
with `persist_status`, which only logs a write that fails or that the table
refuses.  Agents, operators, commits, the MCP server and other clones change the
stores and the repositories at any time; none of them takes a lock.  What the
daemon remembers is lost with the process; what the backend store remembers
(pipeline state, open dispatch records) rebuilds a part of it.  Agents are
processes of their own and may outlive the daemon.  Clones of a repository see
one another only through git.

Behaviours that are hard to test, and that the models are about:

- phases 3 and 4 (triage, dispatch) run between `check_completed`, which takes
  finished agents out of `active`, and `verify_completed`, which judges them.  In
  between only the stored status keeps the bead from being started again;
- every decision of triage and dispatch rests on a snapshot, a queue entry or an
  overlap check that has aged;
- status writes are best effort; a verdict may be reached and not be stored;
- retry budget, backoff, dead letters, feedback downgrades, operator reopenings
  and phase advances act on the same counters;
- a crash at any step, followed by a recovery that knows only what was stored;
- the four ways in which a bead can wait for ever;
- three registers of the same fact (stored status, `sessions.json`, worktree) that
  several processes update in steps and without a lock;
- two stores, or two clones, that must agree although each step of the protocol
  between them may be the last;
- state that is listed, then used: a cluster, a thread, a tombstone, a backend.

`PROJECT.json` lists these as hazards at the lines where they bite, with the
properties that cover them or a note saying why none does.

## 2. Modules

| module | models | kind |
|---|---|---|
| `BeadStates` | the statuses, the transition table, `update_status`, `bead reopen` | operators |
| `Pipeline` | `PipelineEngine`: agent sequences, truncation, next agent, `decide()` | operators and constants |
| `Reconciler` | the daemon in flat mode, its stores and its environment | specification |
| `BeadLifecycle` | what a bead's owner may expect of the daemon | abstract specification, implemented by `Reconciler` |
| `ReconcilerClaims` | statements of comments and documents that the code does not keep | properties |
| `WorkQueue` | heap, key set, backoff, `dequeue()` pop by pop | specification |
| `ReadyQueue` | what the daemon may expect of its queue | abstract specification, implemented by `WorkQueue` |
| `TargetedRun` | `rsry dispatch`, `rsry run --once --bead` | specification |
| `Orchestrator` | hierarchical mode | specification |
| `Workers` | MCP dispatch, session registry, worktrees, both sweeps, the daemon and the operator beside them | specification |
| `Exchange` | clones, forge, hooks, imports and the trunk refresh | specification |
| `StoreSwitch` | `bead migrate --to sqlite --commit` beside clients of both stores | specification |
| `BeadMove` | `bead move` beside writers and other movers | specification |
| `Threads` | auto-threading, bead and feature pull requests, the operator's thread commands | specification |
| `Observations` | the log and its fold; the backfill of merges | specification |
| `MCReconciler`, `MCWorkQueue` | instances of two and three beads | model-checking modules |
| `MCCompanions` | instances of `TargetedRun`, `Orchestrator`, `Workers` | model-checking module |
| `MCRecords` | instances of `Exchange`, `StoreSwitch`, `BeadMove`, `Threads`, `Observations` | model-checking module |
| `ReconcilerProofs`, `SafetyProofs` | theorems about `Reconciler`: types and one run; everything else | proofs |
| `QueueProofs`, `TargetedProofs`, `ThreadsProofs`, `ExchangeProofs` | theorems about one component each | proofs |
| `CompanionProofs` | theorems about `Orchestrator` and `Workers`, and about `MCCompanions`, which composes them with `TargetedRun` | proofs |
| `RecordsProofs` | theorems about `BeadMove`, `StoreSwitch` and `Observations`, and about `MCRecords`, which composes them with `Exchange` and `Threads` | proofs |

`MCCompanions` and `MCRecords` hold components that share no state.  The initial
state chooses one of them (`part`); the others rest.  So one run checks all of
them without multiplying their states.  That this is a composition of the
components, and not something else, is a theorem of each (`CompanionsImplement`,
`RecordsImplement`).

### How `Reconciler` corresponds to the code

State.  `status`, `assignee`, `content` are the columns of the bead store that
the daemon reads (`content` stands for title, description and priority, whose
hash is `Bead::generation`).  `pipe` and `records` are the backend store: the
pipeline state of a bead and the number of its dispatch records still open.
`snap` is the local variable `beads` of `iterate()`; `active`, `tracker`,
`queue`/`backoff` and `deadlettered` are the fields of `Reconciler`; `completed`
is the vector `check_completed` returns, and `current` the bead whose tiers are
running.  `refs` is what the recent commits say of a bead, `orphans` the beads
whose agents outlived a daemon, and `spent` counts the faults and operator
actions used (the bound `Limit` of a configuration is per kind).

Actions.  `pc` names the phase of `iterate()` that runs next, and a phase is one
action: `Scan` (1), `ScanVcs` (1.5), `PollPr` (1.6), `AutoAssign` (1.9),
`CheckCompleted` (2), `Triage` (3); dispatch (4) is one action per queue entry
(`DropEntry`, `SpawnFails`, `Spawn`, `DispatchDone`) and verification (5) one
or two per finished run (`AgentClosed`; `ExitFailed`; `BeginVerify` then
`FinishVerify`, because the tiers take minutes), then `VerifyDone`.  Between any
two of them the environment moves: agents exit, close their beads or commit,
operators close, edit and reopen, backoffs run out, the process dies (`Crash`)
and is started again (`Start`, `recover_stuck_beads`).  The outcome of a
verdict is `Advance`, `Terminal`, `Retry` or `DeadLetter`, each with every write
the code makes: tracker, backoff, pipeline state, assignee, marker, status.

A status write is `Persist`/`PersistAll`: it applies the transition table, and
under the fault `loss` it has no effect; both match `persist_status`, whose
callers never learn of it.  The other faults are `spawn` (the agent cannot be
started), `verifier` (a tier cannot be run), `handoff` (the previous phase's
handoff cannot be read) and `feedback` (an agent leaves no feedback event and
its pass is downgraded to a retry).  `meddle` is an operator's reopening of a
bead that is being worked, `reopen` that of any other.

Abstractions.  A dependency or a file scope is a relation given as a constant
(`DependsOn`, `BlockedBy`, `Overlaps`, `Similar`), and so are threads.  The
static triage filters (severity floor, issue type, scope, target) are the set
`Admitted`.  The queue is the abstraction that `WorkQueue` is shown to provide:
at most one entry per bead, taken when its backoff is over, in any order.
Issue types have the pipelines of a configuration constant.

### How `WorkQueue` corresponds to the code

`heap`, `inQueue` and `backoff` are the fields of the struct; `deferred` is the
local vector of `dequeue()`, `now` and `slots` belong to the loop of phase 4.
Each `heap.pop()` is a step (`PassOver`, `Return`), so the states in which
entries are out of the heap and their keys still in the set exist in the model,
as they do in the function.  Scores are ranks; their formula
(`triage_score`) reads only the bead and is not modelled.  An instant is a
natural number.

### How the companions of the loop correspond to the code

`TargetedRun` is one process: `tgStep` is the place in `run()` and in
`wait_and_verify`, `tgTold` what the loop has been told by `WaitOutcome`, and
`tgScan` the snapshot of the iteration.  The triage of a target overrides every
state but `done` and skips only a target that was processed and waits for no
retry.  The next phase starts inline (`SpawnNext`), with the transition that the
table may refuse.  The agent, a backoff's end and an operator who closes the bead
are the environment.

`Orchestrator` keeps `orState`, `orPhase` and `orRetries` of a
`FeatureOrchestrator` per bead.  `tick` and the daemon's reaction to its answer
are one action per orchestrator; the verdict is fed back in the verify phase.
`orLimit` is `max_concurrent`.  A crash forgets all orchestrators.  The states that
no line of the program enters (research, plan approval) are left out.

`Workers` has the three registers as variables.  A request (`rsry_dispatch`) loads
the registry, makes or reuses the tree, spawns, registers, saves, and marks the
bead, each a step.  The orphan sweep collects, looks and reverts in three steps;
the liveness sweep collects candidates and judges them later; the daemon
dispatches and judges runs of its own in the same trees.  Work is uncommitted,
only on a branch, or safe, so that a removal can be seen to destroy something.

### How the models of records correspond to the code

`Exchange` has, for each clone, a store, the trunk as last pulled and a branch; a
record is its `updated_at`, what an import carries over, what it leaves alone, and
its comments.  Git commands come with their hooks: `Commit` runs commit-msg,
`Push` the gate, `Pull` starts the post-merge hook, which goes on in steps
(`Importing`: the two passes of the import, close-merged, refresh, parking)
while others write the store.  A *world* fixes who edits and who can push.

`StoreSwitch` follows `bead_migrate_run`: copy the beads, wire edges and
comments, verify, stop the server, and the two renames, each a step that may
be the last.  Two clients hold connections, write through them, and connect again
according to `detect_backend`.

`BeadMove` has one step per call to a store, for each of several movers;
a comment is the number of its write, so that "everything the mover could see" is
a comparison of numbers.

`Threads` follows an iteration: the cluster is looked up bead by bead, then the
thread is written, then its members; completed agents get a pull request whose
base is found through the decade of the thread's id; the threads of beads newly at
`pr_open` are collected and read member by member.  Clusters come from `ThSimilar`
(text similarity is not modelled).  `thTouched` remembers the beads that an
operator or a failure came across, `thMoved` the threads that were under another
decade.

`Observations` has a log as a set of rows with the dedup key of
`Observation::dedup_key`, a fold that reads them in any order, and backfills
that read a bead's events once and then replay the merges of their window.

## 3. What the runs check

All instances of `Reconciler` have two beads, `MaxRetries = 1`, one verification
tier (`TopTier = 0`) and `MaxReverts = 3`; each run allows the faults its
question is about once.
Two beads are enough for every property here: each relates one bead to itself
over time, or two beads to one another.  A retry limit of one gives a first
attempt, a retry and the attempt that exhausts the budget.

| run | instance | checks | distinct states |
|---|---|---|---|
| `OneRun` | a one-phase and a two-phase bead, a crash, a reopening | `TypeOK`, `OneRunAtATime`, `WorkedIsClaimed`, `ImplementsLifecycle`, `DeadLettersKept` | 1.7 million |
| `Misfortune` | a three-phase bead, with a lost write, a missing feedback event, a broken handoff, a reopening and a reopening under the agent | `RetriesBounded`, `DeadLettersUntouched` | 5.8 million |
| `Scopes` | two beads of one repository with overlapping files, commits, a reopening | `OverlapExcluded` | 0.8 million |
| `Ledger` | the second bead waits for the first; edits, failed spawns, missing feedback, unrunnable tiers | `ClaimedIsWorked`, `LedgerAccounted`, `DependenciesFirst` | 0.6 million |
| `Settles` | two one-phase beads of one thread, one slot, an edit, a failed spawn; fair | `EveryBeadSettles` | 0.3 million |
| `Queue` | three beads, two scores, instants 0 to 3, holds of 1 to 3, two slots | `QueueConsistent`, `DispatchDrains`, `ImplementsReadyQueue` | 2.9 million |
| `Companions` | a targeted run, an orchestrator with a limit of one or two, two MCP requests for a bead; each with one misfortune | see below | 0.45 million |
| `Records` | two clones in ten worlds, a store switch, two movers, three similar beads, a log and two backfills | see below | 0.73 million |

What they show: in `OneRun`, `Scopes`, `Ledger` and `Settles` no status write is
lost and nobody reopens a bead under its agent.  Under those conditions a bead
has one run at a time, the stored status follows it, and the daemon implements
`BeadLifecycle`.  `Misfortune` shows what remains true without the conditions:
the retry budget is exceeded by at most one attempt per misfortune, and a dead
letter is not taken up again.  `ClaimedIsWorked` and `LedgerAccounted` are
checked without crashes and reopenings because the code does not promise them
there: a crash during verification leaves a bead `verifying`, which recovery
(it looks for `dispatched`) never touches.

`EveryBeadSettles` is checked for beads with one phase only.  For beads with
several phases it is false, which `ClaimPhaseContinues` shows.

`OneRun` truncates the pipelines to two phases (`MaxDepth`), which also exercises the
truncation; `Misfortune` needs the third for retries in a phase that is neither
first nor last.

`Companions` checks, beside the type invariants:

- of a targeted run: `ReportMatchesStore` (a run that reports success or a dead
  letter leaves a bead that is neither free nor claimed), `AttemptsBounded`
  (the agents started are at most the pipelines that the retry budget allows) and
  `TargetedRunEnds`;
- of orchestrators: `OneWorkerPerBead`, `OrchestratorBounded` (the agents started
  are at most the retries of every phase) and `OrchestratorsFinish`;
- of workers: `WorkKept` (no interleaving of requests, sweeps, judging and merging
  destroys work), `WorkersTracked` (a registered worker has an entry), `SweepSparesWorkers`
  (the orphan sweep does not reopen a bead that is worked) and
  `DeadWorkersAreFound` (a bead does not stay dispatched after its worker).

`Records` checks:

- of the exchange: `StampIdentifies` (`updated_at` identifies a bead's state),
  `NothingReverts` (neither a store nor the trunk goes back to an older record),
  `NamedArrives` (what the pre-push gate saw is on the trunk after the merge) and
  `PublishedArrives`;
- of the switch and the move: `SwitchKeepsBeads`, `MovedIsCopied`, `CopiesAccounted`
  (a bead lives once, but for moves that failed);
- of threads: `OneThread`, `FeatureHoldsWork`, `FeatureOpens`;
- of observations: `ViewIsJoin` (the folded status is the join over the sources of
  each one's greatest row), `WitnessedOnce`, `MergesWitnessed`.

Several of these name an exception in their premise.  Each exception is a
behaviour of the code that the model has and that breaks the property without it;
the comment of the property says which lines cause it, and the list below what
follows from it.

Bounds.  In `Reconciler` the fault limits bound operator edits, reopenings,
commits and crashes; nothing else needs a bound, since retries are bounded by the
code.  In `WorkQueue` the clock stops at `MaxClock` and retry counts at
`MaxRetries`; holds end after at most three instants, so entries that are held,
about to be released and released occur together.  In `Companions` each component
may meet one misfortune of each run (a targeted run one of each kind): every
exception of a property is one misfortune, and two beads or two requests are
enough for one to come between the steps of the other.  In `Records` a world allows
two edits in two seconds, three git commands of one clone and up to two of the
other, and one failed import: enough for both clones to write, one to publish and
the other to import it late.  A switch may run twice and fail twice; two movers
make two copies; three beads form a cluster that changes while a thread
exists; a commit closes a bead twice and another closes it again, while two of
three backfills run side by side.  `Companions` and `Records` do not check
deadlock: a targeted run ends, and bounded writers stop.

Fairness.  `Settles`, `ClaimPhaseContinues` and `ClaimBlockerDone`: the loop keeps
running (`WF Iterate`: `iterate()` is called in a loop with a sleep); every agent
ends (`WF AgentExits`: `check_completed` kills it after four hours); a backoff runs
out (`SF BackoffExpires`: time passes, but the dispatch phase compares with the
instant at which it began, so the step is disabled again and again).
`Companions`: the process of a targeted run, its agent and its backoff; the
daemon's iteration and the workers of orchestrators (killed by the same timeout);
for workers, the sweep (every status poll runs it), the daemon, and each request
and agent, which goes on or dies.  `Records` and `ClaimProjectionSettles`: a clone
goes on pulling (or, while its store is empty, is filled) and its post-merge hook
goes on; the daemon's iteration in `Threads`.  No fairness is assumed of crashes,
faults, operators, editors, pushes or merges.

### Where the code departs from what is written about it

Four runs are expected to be violated; each refutes a quoted statement:

- `ClaimPhaseContinues`: an advance keeps the tracker's generation and, when the
  phase needed no retry, retries 0: triage takes the bead for one already
  processed, and the next phase never starts in the loop (`triage.rs:210`);
- `ClaimPrOpenAfterLast`: the tracker stores the owner the scan saw, the spawn
  uses the pipeline's first agent; a bead created without an owner goes to
  `pr_open` after its first agent (`mod.rs:951`);
- `ClaimBlockerDone`: a cross-repository blocker that is done is no longer
  scanned, and one that is not scanned counts as open (`mod.rs:639`);
- `ClaimProjectionSettles`: an imported comment gets an id and a time of the
  importing clone while the record keeps its `updated_at`, so two clones that may
  push to the trunk replace each other's rendering for ever
  (`restore/mod.rs:297`, against `restore/edge_sync_tests.rs:145`).

Met while modelling and present in the models, without a run of their own:

*The loop.*
The phase
that recovery restores is overwritten at dispatch (`persistence.rs:194`,
`mod.rs:827`); retries are carried from phase to phase; the feedback downgrade
is a retry that `decide()` never sees (`verify.rs:568`); a closing commit asks
an open bead to become `done`, which the table refuses (`vcs.rs:27`); recovery
looks at the configured repositories only (`persistence.rs:213`); whether a
repository or thread is busy is asked when a bead is queued, not when it is
dispatched (`triage.rs:132,142`); a tier that cannot be started counts as a
pass (`completion.rs:140`); a dead letter reopened before the next scan stays
excluded (`triage.rs:53`); an attempt that passes no tier is not a regression
and resets the record of the best one (`completion.rs:198`).
If the write of `dispatched` is lost, triage starts a second agent before the
first run is judged (against `dispatch/mod.rs:294`).  The liveness sweep knows only
`sessions.json` and dead-letters a bead that the daemon itself works (against
`persistence.rs:292`).

*Targeted run.*  It goes round for ever if the target is closed while its retry
waits, and repeats a phase when the handoff chain is broken.  When the next phase
cannot be spawned it reports a dead letter, and the table refuses the move from
`open` (`verify.rs:890`).  With a pipeline that names an agent twice it goes round.

*Hierarchical mode.*  A bead stays `dispatched` at the end, since `pr_open` is refused
from there (`orchestration.rs:78`).  An orchestrator that is refused a worker waits
for ever (`orchestration.rs:108`, `:112`); a crash loses all of them.

*Workers.*  A failed push is ignored and tree and branch are removed; a failed spawn
removes a tree it took over; the start of the daemon removes the trees of workers
that run; two requests may overwrite each other's registry; a request that
fails after making the tree leaves a bead that neither sweep finds.

*Threads.*  A failed add or a crash in `auto_thread`, and a similar bead that comes
later, leave beads without a thread for ever, since a cluster with one threaded
bead is skipped as a whole.  All auto-clustered threads of one kind share one branch
(`feature/sharedscope-cluster`), so the feature PR of one complete thread carries the
unfinished work of another (against `threading.rs:162`).  A thread that was
reparented or is "ungrouped" is not found through its id: its beads' PRs go to the
default branch and its feature PR never opens.  If the last member is closed by
hand, by its agent or by a merge, or the daemon dies between `pr_open` and the assembly,
nothing triggers it again (against `verify.rs:490`).  `decompose` makes a bead before it
adds it, so auto-threading may take it first.  `thread_assign` may still overwrite
a decade that is written between its read and its write.

*Observations.*  Which of two rows with one key and different times stays depends on
the order of insertion (against `log.rs:34`).  A commit that closes two beads gives
both observations the same dedup key.  A backfill counts a write that was lost as
recorded, and two side by side record a merge twice (against `backfill.rs:33`).
"Audit FIRST" (`mod.rs:880`) is not what `verify.rs:516` and `:873` do.

*Store switch.*  Between the two renames, and after a crash there, every connect is
refused as ambiguous, where `bead_migrate.rs:272` says Dolt is served; the error text
recommends a migration that refuses ambiguous stores.  Two migrations at once may put
the other's partial file in place (against `main.rs:1244`; the model runs one at a
time).  A failed read of comments copies none, verification compares none, and
writes after the verification are lost.

*Bead move.*  A crash between tombstone and close leaves the source open, and every
repetition refuses.  Concurrent movers leave two copies (`bead_move.rs:49`).  A bead
closed between fetch and create lives on as an open copy.

*Exchange.*  A crash between the two passes of an import leaves gaps that no
repetition fills.  A conflict resolved by hand runs no hook, after which the older store
may publish over the newer trunk.  Whole-record replacement drops comments from the
trunk.  A failed import followed by close-merged stamps a stale record as the newest.  A
bead reopened after its merge is closed again at the next post-merge, and a held one
gets the same comment at each.  In linked worktrees commit and push publish nothing.

*Mirrors* (read, not modelled).  `list_closed_linked_beads` selects `closed` where
closings store `done`, so the close step of `rsry sync` (`linear.rs:578`) never finds a
bead; a status is mirrored even when the store refused it (`persistence.rs:48`); an
issue is created before its reference is stored (`linear.rs:535`); the webhook
unblocks dependents without looking at their other dependencies
(`github_webhook.rs:270`).

## 4. What is proved

The proofs hold for every set of beads, relation, pipeline, limit, bound, group of
clients or movers that satisfies the named assumptions of the modules, which the runs
evaluate on their instances. A theorem about a component is about its own specification
without fairness. The two compositions implement the specifications of their components,
so what is proved of a component holds in them as well (`CompanionsAreSafe`,
`RecordsAreSafe`).

| theorem | states | assumes |
|---|---|---|
| `TypeCorrect` | `[]TypeOK` | - |
| `OneRunWhileCalm` | `[](Calm => OneRunAtATime /\ WorkedIsClaimed)` | - |
| `ClaimWhileCalm` | `[](Calm => WorkedIsClaimed)` | - |
| `NothingStranded` | `[](Undisturbed => ClaimedIsWorked)` | - |
| `RetriesAlwaysBounded` | `[]RetriesBounded` | - |
| `LedgerAlwaysAccounted` | `[](Calm /\ NothingReopened => LedgerAccounted)` | - |
| `CalmSimulates` | `Lifecycle!Init /\ [][Calm' => [Lifecycle!Next]_(Lifecycle!vars)]_vars` | - |
| `CalmRefines` | `ImplementsLifecycle` | `[]Calm` |
| `DeadLettersStayOut` | `DeadLettersUntouched` | - |
| `DeadLettersWhileCalm` | the action of `DeadLettersKept`, for steps to calm states | - |
| `DeadLettersStayDead` | `DeadLettersKept` | `[]Calm` |
| `DependenciesUntilReopened` | the action of `DependenciesFirst`, until a bead is reopened | - |
| `DependenciesAlwaysFirst` | `DependenciesFirst` | nobody reopens a bead |
| `OverlapAlwaysExcluded` | `[](NoMeddling => OverlapExcluded)` | - |
| `QueueStaysConsistent` | `[]QueueConsistent` | - |
| `DispatchAlwaysDrains` | `DispatchDrains` | - |
| `QueueRefines` | `ImplementsReadyQueue` | - |
| `TargetTypeCorrect` | `[]TargetTypeOK` | - |
| `ReportCorrect` | `[]ReportMatchesStore` | - |
| `AttemptsCorrect` | `[]AttemptsBounded` | no pipeline names an agent twice |
| `OrchestratorTypeCorrect` | `[]OrchestratorTypeOK` | - |
| `OneWorkerHolds` | `[]OneWorkerPerBead` | - |
| `OrchestratorBudget` | `[]OrchestratorBounded` | - |
| `WorkersTypeCorrect` | `[]WorkersTypeOK` | - |
| `WorkAlwaysKept` | `[]WorkKept` | - |
| `WorkersAlwaysTracked` | `[]WorkersTracked` | - |
| `SweepAlwaysSpares` | `SweepSparesWorkers` | - |
| `CompanionsTypeCorrect` | `[]CompanionsTypeOK` | - |
| `CompanionsImplement` | `TargetSpec /\ OrchestratorSpec /\ WorkersSpec` of `CompanionsSpec` | - |
| `CompanionsAreSafe` | the safety properties of the three, of `CompanionsSpec` | for `AttemptsBounded` that no pipeline names an agent twice |
| `ExchangeTypeCorrect` | `[]ExchangeTypeOK` | - |
| `StampsIdentify` | `[]StampIdentifies` | - |
| `NothingEverReverts` | `NothingReverts` | - |
| `NamedAlwaysArrives` | `NamedArrives` | - |
| `ThreadsTypeCorrect` | `[]ThreadsTypeOK` | - |
| `OneThreadHolds` | `[]OneThread` | - |
| `FeatureAlwaysHoldsWork` | `FeatureHoldsWork` | - |
| `ObservationsTypeCorrect` | `[]ObservationsTypeOK` | - |
| `FoldIsJoin` | `[]ViewIsJoin` | - |
| `BackfillWitnessesOnce` | `[]WitnessedOnce` | - |
| `BackfillCompletes` | `MergesWitnessed` | - |
| `MoveTypeCorrect` | `[]BeadMoveTypeOK` | - |
| `MoveIsLossless` | `MovedIsCopied` | - |
| `CopiesAlwaysAccounted` | `[]CopiesAccounted` | - |
| `SwitchTypeCorrect` | `[]StoreSwitchTypeOK` | - |
| `SwitchKeepsEveryBead` | `[]SwitchKeepsBeads` | - |
| `RecordsTypeCorrect` | `[]RecordsTypeOK` | - |
| `RecordsImplement` | the specifications of the five components, of `RecordsSpec` | - |
| `RecordsAreSafe` | the safety properties of the five, of `RecordsSpec` | - |

`Calm` says that no status write has been lost and no worked bead reopened so far.
Crashes, closings, commits, edits, failed spawns and ordinary reopenings are all
allowed. `Undisturbed` says in addition that the daemon has not died, no commit has
claimed a bead and no handoff was unreadable. A theorem `[](Calm => P)` says more than
`Spec /\ []Calm => []P`: `P` holds up to the first such event, whatever follows it.
`NoMeddling` is the part of `Calm` about reopenings. The three theorems that do assume
that no event ever comes follow from the ones above them in the table, which do not.

*Types.* `records` is decremented when the tracker names an open record, so `TypeOK` is
inductive only together with `Booked`: a tracker that names an open record has one
(while the daemon is up).

*One run at a time.* The property is not inductive: triage decides with the snapshot.
`RunInv` follows the snapshot: `SnapshotFresh` says that, from the scan to the triage,
what the snapshot shows as open is worked by nobody and is still free in the store;
`QueuedFree` carries this over to the queue; `RunsApart` says that the store shows
worked beads as taken; `PhasesApart` that no finished run waits while the snapshot is
taken. Each action preserves `RunInv` as long as the step is calm, and a calm state has
calm predecessors (`CalmBefore`).

*Refinement.* `CalmSimulates` shows, for each action and each bead on its own, a step of
`BeadLifecycle` under the mapping `work`. It needs `RunInv` and that the store never
holds a status outside six of the eleven.

*Dead letters, dependencies, scopes.* `StatusStep` lists the ways in which a status ever
changes. From it: nothing but a verdict makes a dead letter, so between scan and triage
none appears (`DeadSeen`); what is closed stays closed unless reopened, so a dependency
that is absent from the snapshot is closed when the agent starts (`ClosedSeen`,
`QueuedReady`); an active bead that the snapshot does not show is closed (`ActiveSeen`).
None of the three needs the writes to arrive.

*Stranded beads.* `ClaimInv`: while undisturbed, what the store shows as dispatched or
verifying is worked, a bead whose tiers run is verifying or closed, and no commit refers
to a bead. Each excluded event does strand one: a crash loses the run (recovery looks
only at dispatched beads), a lost write leaves the claim behind, a commit claims a bead
nobody works on, an unreadable handoff returns before the verdict.

*Retries.* A bead can fail again for four reasons at most: it runs, its verdict is due,
it is queued, or the store shows it as open. `Tokens` counts those; there is one, and
one more for each reopening, lost write or missing feedback event (`Excuses`). `Within`
says that the tokens are at most `1 + Excuses`, and that no remembered number of retries
(tracker, queue, backoff) plus the tokens passes `MaxRetries + 1 + Excuses`: a failure
turns a token into a retry.

*Ledger.* `Balanced`: a worked bead has one open record, which its tracker names; a bead
that is not worked has none, unless it was `Left`, that is closed under its agent, out
of the queue and not shown as open to the coming triage, so that no second record is
ever added.

*Queue.* `PassedOver` says that the entries taken out of the heap are still held back at
the instant of the loop; hence the one returned is the best of all.

*Targeted run.* `ReportMatchesStore` needs to know which store states go with which
place in the process (`ReportInv`): no bead is free while its agent runs, none
`dispatched` once a passed run is judged, as long as no write was lost.
`AttemptsBounded` is a sum: the pipelines used up by retries plus the phases of the
present one bound the agents started. It needs that `NextAgent` of a phase is the next
entry, which fails if a name occurs twice.

*Orchestrators.* As long as the store never showed a bead as free under its
orchestrator, `Sound` holds of it: it waits for a worker exactly in `awaiting`, a bead
that is shown as free has no orchestrator, and its ledger is at most `phase * OrBudget +
retries`, plus one while a worker runs. A completed phase trades its `OrBudget` for the
reset of the retries, which gives the bound on all agents. `orRetries` has no bound in
the type: when a bead is misshown, two orchestrator lives share the counter.

*Workers.* `Kept`: until one of the five events, nothing is lost, and unpushed work sits
in a tree; creation takes over a tree that exists, and every other removal looks first
or pushes first. `SparesAll` relates the sweep's memory to the present: a bead it holds
for an orphan is worked by nobody and has no tree, unless exposed; a worked bead that is
not exposed has one.

*Exchange.* Records are carried between many places, by merges that pick record by
record. Types and stamps use one argument: a set of files that contains the empty file
and every mixture of its members (`Closed`) keeps holding all places, whatever is
carried (`CarriesShape`); only edits and imports add records (`WritesShape`). For the
stamps the sets are those of a table that gives each bead one edit and one status per
time (`Identified`); an edit makes a new time, unless it falls into a second already
used, which clouds the bead. `NothingReverts` and `NamedArrives` rest on `Floors`: until
an import fails, a clone knows all that its local trunk and the base of its branch hold,
in its store or in an import under way (`Above`, `Founded`), and what it has of a bead
is ordered (`Ordered`). A merge then takes the newer side. An import keeps what it
judged (`Decided`), unless another write clouds the bead.

*Threads.* `ThreadsInv` has six parts: shapes; `Looked` (the beads of a cluster that
were looked up have no thread, or were touched by a failure), which is what makes adding
them safe; `Standing` and `Based` (a bead without a PR is still to be worked; one that
is under review or done has its PR against the branch of each of its unmoved threads);
`Listing` (a listing of members has lost nothing but touched beads); `OneThread`.

*Observations.* `Kept`: the row kept of a source is superseded by no row read so far;
with no row left to read it is the greatest, since time and value order rows of a source
totally. `Accounts`: what a backfill has dealt with it has seen, and what it has seen is
witnessed or was lost. `Alone`: while runs are one at a time, a run that has read a
bead's events knows every merge they hold, so it repeats none.

*Move and switch.* `MoveInv`: movers own their copies (`OwnIds`), a mover's list of
comments covers what it could see (`Lists`), and copied plus left is listed (`Fills`,
`Finishes`). `SwitchInv`: `Placed` (there is always a store; while Dolt is in place it
is up to date and nobody holds a SQLite connection), `Served` (a store that is given to
clients is complete) and `Building` (the parts of a bead that the migration will not
read again are as last written, or were written late).

*Types of the records.* Fields and comments are numbered by their writes, so that a type
bounds them by the number of writes so far, and is inductive only if every hand they
pass through is bounded too. Of a move these are the source, the copies and what each
mover has fetched (`Dated`); of a switch the two stores, the file that is being built
and what the migration remembers of it (`SwTyped`). Of threads, `ThTypes` says that a
cluster which is about to be written has two beads, without which there would be no name
for its thread among `ThreadIds`. Of observations, what a fold keeps is a row of the log
or none (`LogTyped`), and a window holds closures of the trunk, which only grows
(`RunsTyped`).

*Move, more than one.* `OneMove`: as long as no two movers ran beside each other, at
most one is filling a copy, none once there is a tombstone, and each copy beyond is paid
for by a failure.

What the attempts at proof changed. `NamedArrives` was false: an import that fails in
another clone lets it publish an older store over the trunk, after which an unchanged
record on a branch changes nothing when it is merged. The instances were too small to
show it; the property now names the exception, which `NothingReverts` had.
`OrchestratorTypeOK` bounded `orRetries`, which two faults break. `Exchange` and
`Threads` had fairness in the specification that their theorems are about; it is now in
`ExchangeFairSpec` and `ThreadsFairSpec`, so that the theorems need none. Two sets were
written `UNION S \cup T` and `SUBSET S \ T`, which SANY and tlapm read differently; they
are parenthesised.

Only model-checked: liveness, which is out of the prover's reach: `EveryBeadSettles`,
`TargetedRunEnds`, `OrchestratorsFinish`, `DeadWorkersAreFound`, `PublishedArrives`,
`FeatureOpens`. Every invariant and every action property that a passing run checks is
stated by a theorem; `AttemptsBounded` for pipelines without a repeated agent, where
alone it holds.

## 5. Not modelled, and why

- Handoff chain: each link is written once; what a broken or missing one does to a
  phase is modelled in `Reconciler` and `TargetedRun`.  Hashes are left to tests.
- Trackers and GitHub: the state is in the services, and the code does not say what
  they promise.
- Verification tiers and providers: their result is a choice.  Plugins only veto, which
  `Admitted` covers.
- Threads: text similarity and overlap of paths are given as sets.  `thread_create`
  is an upsert like those of `Threads`.
- Observations: the other fields' algebras, quarantine, shadow comparison.
- Exchange: rebases, jj, Dolt remotes; dependency edges count as a field; the clocks of
  the clones agree; a git command and its hooks run one at a time in a clone; the last
  two commands of the post-merge hook are one step; the forge merges record by record.
- Workers: jj workspaces, thread branches, the sweep of agent branches.
- MCP transport, hooks, capture, bdr, crypto, command line, reports: parsing, text and
  files without a state machine of their own.

Next, if the development goes on: the
three-way merge of comments below the level of a record; the mirrors, once the
services' promises are written down.
