----------------------------- MODULE Reconciler -----------------------------
(***************************************************************************)
(* The reconciler daemon (src/reconcile/, flat mode): one loop that scans  *)
(* the bead store, polls its agents, triages, dispatches and verifies,     *)
(* beside the agents, the operators and the repositories it watches.       *)
(*                                                                         *)
(* The phases of iterate() run one after the other, but every `.await`     *)
(* between them lets the environment move: the snapshot of the scan, the   *)
(* exit of an agent and the stored status age at their own pace.  A phase  *)
(* (for the dispatch and verify phases, the handling of one bead) is one   *)
(* action; running the verification tiers of a bead takes minutes, so it   *)
(* is two.                                                                 *)
(***************************************************************************)
EXTENDS BeadStates, Pipeline, FiniteSets

CONSTANTS
    Beads,
    TypeOf,         \* bead -> issue type
    RepoOf,         \* bead -> repository
    ThreadOf,       \* bead -> thread, or NoThread
    NoThread,
    Overlaps,       \* unordered pairs of beads whose file scopes overlap
    Similar,        \* unordered pairs that epic::is_dominated_by relates
    DependsOn,      \* bead -> the beads of its repository it waits for
    BlockedBy,      \* bead -> the beads of other repositories that block it
    Admitted,       \* beads that pass the static triage filters
    DeclaresFiles,  \* beads that declare files or test files
    Remote,         \* beads of repositories registered at run time
    InitialOwner,   \* the owner a bead was created with, or NoAgent
    ReadOnlyAgents, \* agents that only research or review
    MaxConcurrent,
    TopTier,        \* index of the last verification tier
    Faults,
    Limit           \* how often each fault or operator action may happen

FaultKinds == {"loss", "crash", "edit", "reopen", "meddle", "commit",
               "feedback", "spawn", "verifier", "handoff"}

ASSUME ReconcilerAssumption ==
    /\ TypeOf \in [Beads -> IssueTypes]
    /\ DependsOn \in [Beads -> SUBSET Beads]
    /\ BlockedBy \in [Beads -> SUBSET Beads]
    /\ Admitted \subseteq Beads
    /\ Remote \subseteq Beads
    /\ InitialOwner \in [Beads -> Agents \cup {NoAgent}]
    /\ MaxConcurrent \in Nat
    /\ TopTier \in Nat
    /\ Faults = FaultKinds
    /\ Limit \in [Faults -> Nat]

VARIABLES
    \* --- the stores: they survive the daemon
    status,       \* bead store: the status column
    assignee,     \* bead store: the assignee column
    content,      \* bead store: version of title, description and priority
    pipe,         \* backend store: PipelineState, or NoPipe
    records,      \* backend store: number of dispatch records left open
    \* --- the daemon's memory
    pc,           \* the phase of iterate() that runs next, or "down"
    snap,         \* the beads as the scan of this iteration returned them
    active,       \* Reconciler.active: the run of each bead, or NoRun
    completed,    \* the runs check_completed() took out of active
    current,      \* the bead whose tiers are running, or NoBead
    tracker,      \* Reconciler.trackers
    queue,        \* WorkQueue: the entry of each bead, or NoEntry
    backoff,      \* WorkQueue.backoff
    deadlettered, \* Reconciler.deadlettered
    \* --- the environment
    refs,         \* what the recent commits say of each bead
    orphans,      \* beads worked by a process whose daemon has died
    spent         \* faults and operator actions used up

store  == <<status, assignee, content, pipe, records>>
memory == <<snap, active, completed, current, tracker, queue, backoff,
            deadlettered>>
world  == <<refs, orphans, spent>>
vars   == <<store, pc, memory, world>>
-----------------------------------------------------------------------------
(* Values *)

NoBead == "no bead"
NoRun  == [agent |-> NoAgent, exit |-> "none"]
Run(agent, exit) == [agent |-> agent, exit |-> exit]

NoPipe == [phase |-> 0, agent |-> NoAgent]
PipelineState(phase, agent) == [phase |-> phase, agent |-> agent]

NoTier == TopTier + 1       \* highest_tier = None
NoGeneration == 0           \* last_generation = 0: no content hashes to it

\* The BeadTracker that or_insert creates.
NewTracker ==
    [known |-> TRUE, generation |-> NoGeneration, retries |-> 0, reverts |-> 0,
     tier |-> NoTier, agent |-> NoAgent, phase |-> 0, dispatch |-> "none"]
NoTracker == [NewTracker EXCEPT !.known = FALSE]

NoEntry == [queued |-> FALSE, generation |-> NoGeneration, retries |-> 0]
Entry(generation, retries) ==
    [queued |-> TRUE, generation |-> generation, retries |-> retries]

NoBackoff == [set |-> FALSE, retries |-> 0, ready |-> TRUE]
Backoff(retries) == [set |-> TRUE, retries |-> retries, ready |-> FALSE]

\* list_beads leaves the done rows out, so a snapshot entry whose status is
\* "done" stands for a bead the scan did not return.
Absent == [status |-> "done", owner |-> NoAgent, content |-> NoGeneration]
NoSnapshot == [b \in Beads |-> Absent]
InScan(b) == snap[b].status # "done"

Active == {b \in Beads : active[b] # NoRun}
Completed == {b \in Beads : completed[b] # NoRun}
Queued == {b \in Beads : queue[b].queued}
-----------------------------------------------------------------------------
(* Faults, operator actions and best-effort writes *)

Use(faults) ==
    /\ \A f \in faults : spent[f] < Limit[f]
    /\ spent' = [f \in Faults |-> IF f \in faults THEN spent[f] + 1
                                                  ELSE spent[f]]

\* persist_status for every bead of `want`, a function to the wanted status.
\* The store refuses a move outside the table and the error is only logged; so
\* is the error of a store that cannot be reached ("loss", one per phase).
PersistAll(want, faults) ==
    \E lost \in {{}} \cup {{b} : b \in DOMAIN want} :
        /\ Use(IF lost = {} THEN faults ELSE faults \cup {"loss"})
        /\ status' = [b \in Beads |-> IF b \in DOMAIN want \ lost
                                        THEN UpdateStatus(status[b], want[b])
                                        ELSE status[b]]

Persist(b, state, faults) == PersistAll([x \in {b} |-> state], faults)
-----------------------------------------------------------------------------
(* Start-up and the end of the process *)

\* recover_stuck_beads: beads of the configured repositories that are recorded
\* as dispatched are reopened, their trackers rebuilt from the pipeline state,
\* and the dispatch records left open by the previous process are abandoned.

\* Faulty: every bead nobody works any more is reopened.
StuckOrDead == {b \in Beads \ Remote : status[b] \in {"dispatched", "dead_letter"}}

Stuck == {b \in Beads \ Remote : status[b] = "dispatched"}

Start ==
    /\ pc = "down" /\ pc' = "scan"
    /\ PersistAll([b \in Stuck |-> "open"], {})
    /\ tracker' = [b \in Beads |->
                     IF b \in Stuck /\ pipe[b] # NoPipe
                       THEN [NewTracker EXCEPT !.agent = pipe[b].agent,
                                               !.phase = pipe[b].phase]
                       ELSE tracker[b]]
    /\ records' = [b \in Beads |-> 0]
    /\ UNCHANGED <<assignee, content, pipe, snap, active, completed, current,
                   queue, backoff, deadlettered, refs, orphans>>

\* The process dies between two steps.  Agents are not killed with it.
Crash ==
    /\ pc # "down" /\ pc' = "down"
    /\ Use({"crash"})
    /\ \E survivors \in SUBSET {b \in Active : active[b].exit = "running"} :
           orphans' = orphans \cup survivors
    /\ snap' = NoSnapshot
    /\ active' = [b \in Beads |-> NoRun]
    /\ completed' = [b \in Beads |-> NoRun]
    /\ current' = NoBead
    /\ tracker' = [b \in Beads |-> NoTracker]
    /\ queue' = [b \in Beads |-> NoEntry]
    /\ backoff' = [b \in Beads |-> NoBackoff]
    /\ deadlettered' = {}
    /\ UNCHANGED <<store, refs>>
-----------------------------------------------------------------------------
(* Phases 1 to 2: scan, commits, pull requests, owners, finished agents *)

\* Phase 1: list_beads leaves the done rows out.
Scan ==
    /\ pc = "scan" /\ pc' = "vcs"
    /\ snap' = [b \in Beads |->
                  IF status[b] = "done" THEN Absent
                  ELSE [status |-> status[b], owner |-> assignee[b],
                        content |-> content[b]]]
    /\ UNCHANGED <<store, active, completed, current, tracker, queue, backoff,
                   deadlettered, world>>

\* Phase 1.5: a closing commit asks for done, a mere reference to an open bead
\* for dispatched; beads with a running agent are left alone.
VcsWant(b) == IF snap[b].status = "open" /\ "ref" \in refs[b]
                THEN "dispatched" ELSE "done"

ScanVcs ==
    /\ pc = "vcs" /\ pc' = "pr"
    /\ LET pending == {b \in Beads \ Active :
                         /\ InScan(b)
                         /\ \/ "close" \in refs[b]
                            \/ "ref" \in refs[b] /\ snap[b].status = "open"}
       IN  PersistAll([b \in pending |-> VcsWant(b)], {})
    /\ UNCHANGED <<assignee, content, pipe, records, memory, refs, orphans>>

\* Phase 1.6: merged pull requests close their beads.
PollPr ==
    /\ pc = "pr" /\ pc' = "assign"
    /\ \E merged \in SUBSET {b \in Beads : snap[b].status = "pr_open"} :
          /\ PersistAll([b \in merged |-> "done"], {})
          /\ pipe' = [b \in Beads |-> IF b \in merged THEN NoPipe ELSE pipe[b]]
    /\ UNCHANGED <<assignee, content, records, memory, refs, orphans>>

\* Phase 1.9: the first agent of the pipeline owns a bead without an owner.
\* The snapshot keeps the owner the scan saw.
AutoAssign ==
    /\ pc = "assign" /\ pc' = "check"
    /\ assignee' = [b \in Beads |->
                      IF InScan(b) /\ snap[b].owner = NoAgent
                        THEN DefaultAgent(TypeOf[b]) ELSE assignee[b]]
    /\ UNCHANGED <<status, content, pipe, records, memory, world>>

\* Phase 2: the agents that have exited (or were killed after four hours)
\* leave `active`.
CheckCompleted ==
    /\ pc = "check" /\ pc' = "triage"
    /\ LET exited == {b \in Active : active[b].exit # "running"}
       IN  /\ completed' = [b \in Beads |-> IF b \in exited THEN active[b]
                                                            ELSE NoRun]
           /\ active' = [b \in Beads |-> IF b \in exited THEN NoRun
                                                         ELSE active[b]]
    /\ UNCHANGED <<store, snap, current, tracker, queue, backoff,
                   deadlettered, world>>
-----------------------------------------------------------------------------
(* Phase 3: triage *)

\* Faulty: a dependency in progress counts as resolved.
WaitsForOpen(b) == \E d \in DependsOn[b] : snap[d].status = "open"

\* Dependencies inside a repository are resolved by the scan's query; those of
\* other repositories against the snapshot, where an absent bead counts as open.
Waits(b) == \E d \in DependsOn[b] : InScan(d)

CrossRepoBlocked(b) ==
    \E d \in BlockedBy[b] : (IF InScan(d) THEN snap[d].status ELSE "open") # "done"

RepoBusy(b) == \E a \in Active : tracker[a].known /\ RepoOf[a] = RepoOf[b]

ThreadBusy(b) ==
    /\ InScan(b) /\ ThreadOf[b] # NoThread
    /\ \E a \in Active : InScan(a) /\ ThreadOf[a] = ThreadOf[b]

\* Faulty: the retries are not looked at.
SameGeneration(b) == tracker[b].known /\ tracker[b].generation = snap[b].content

\* Skip a bead already processed at this generation unless a retry is pending.
AlreadyProcessed(b) ==
    /\ tracker[b].known
    /\ tracker[b].generation = snap[b].content
    /\ tracker[b].retries = 0

\* Faulty: every triage forgets the markers.
MarkersForgotten == {}

StillDeadlettered ==
    {b \in deadlettered : snap[b].status # "dead_letter"}

\* Faulty: the stored state is not looked at.
CandidatesOfAnyState ==
    {b \in Admitted :
        /\ InScan(b)
        /\ b \notin Active
        /\ b \notin StillDeadlettered
        /\ ~Waits(b)
        /\ ~CrossRepoBlocked(b)
        /\ ~RepoBusy(b)
        /\ ~ThreadBusy(b)
        /\ ~AlreadyProcessed(b)
        /\ ~queue[b].queued}

Candidates ==
    {b \in Admitted :
        /\ snap[b].status = "open"
        /\ b \notin Active
        /\ b \notin StillDeadlettered
        /\ ~Waits(b)
        /\ ~CrossRepoBlocked(b)
        /\ ~RepoBusy(b)
        /\ ~ThreadBusy(b)
        /\ ~AlreadyProcessed(b)
        /\ ~queue[b].queued}

Conflict(b, c) == {b, c} \in Overlaps \cup Similar

\* The beads are taken in the order of the scan and each one is compared with
\* the active beads and with those already queued: whatever the order, a
\* maximal set of candidates without a conflict is added.
Selections ==
    LET taken == {a \in Active \cup Queued : InScan(a)}
        Free(b, others) == \A c \in others \ {b} : ~Conflict(b, c)
    IN  {S \in SUBSET Candidates :
            /\ \A b \in S : Free(b, taken \cup S)
            /\ \A b \in Candidates \ S : ~Free(b, taken \cup S)}

Triage ==
    /\ pc = "triage" /\ pc' = "dispatch"
    /\ deadlettered' = StillDeadlettered
    /\ \E S \in Selections :
          queue' = [b \in Beads |-> IF b \in S
                                      THEN Entry(snap[b].content, backoff[b].retries)
                                      ELSE queue[b]]
    /\ UNCHANGED <<store, snap, active, completed, current, tracker, backoff,
                   world>>
-----------------------------------------------------------------------------
(* Phase 4: dispatch *)

Eligible == {b \in Queued : backoff[b].ready}

Dequeue(b) ==
    /\ pc = "dispatch"
    /\ Cardinality(Active) < MaxConcurrent
    /\ b \in Eligible
    /\ queue' = [queue EXCEPT ![b] = NoEntry]

\* Faulty: no second look at the file scopes.
DroppedIfAbsent(b) == ~InScan(b)

\* The scan no longer returns the bead, or its files overlap with those of a
\* bead dispatched earlier in this loop: the entry is dropped.
Dropped(b) == ~InScan(b) \/ \E a \in Active : InScan(a) /\ {a, b} \in Overlaps

DropEntry(b) ==
    /\ Dequeue(b)
    /\ Dropped(b)
    /\ UNCHANGED <<store, pc, snap, active, completed, current, tracker,
                   backoff, deadlettered, world>>

\* A stale owner is corrected in the store before the spawn.
CorrectOwner(b) ==
    assignee' = [assignee EXCEPT ![b] =
                   IF snap[b].owner # DefaultAgent(TypeOf[b])
                     THEN DefaultAgent(TypeOf[b]) ELSE @]

SpawnFails(b) ==
    /\ Dequeue(b)
    /\ ~Dropped(b)
    /\ CorrectOwner(b)
    /\ Use({"spawn"})
    /\ UNCHANGED <<status, content, pipe, records, pc, snap, active, completed,
                   current, tracker, backoff, deadlettered, refs, orphans>>

\* The agent that runs is the first one of the pipeline; the agent the tracker
\* remembers is the owner the snapshot holds.
Dispatched(t, entry, owner) ==
    [(IF t.known THEN t ELSE [NewTracker EXCEPT !.retries = entry.retries])
        EXCEPT !.generation = entry.generation,
               !.agent = owner,
               !.dispatch = "open"]

Spawn(b) ==
    /\ Dequeue(b)
    /\ ~Dropped(b)
    /\ CorrectOwner(b)
    /\ Persist(b, "dispatched", {})
    /\ active' = [active EXCEPT ![b] = Run(DefaultAgent(TypeOf[b]), "running")]
    /\ records' = [records EXCEPT ![b] = @ + 1]
    /\ tracker' = [tracker EXCEPT ![b] = Dispatched(@, queue[b], snap[b].owner)]
    /\ pipe' = [pipe EXCEPT ![b] = PipelineState(0, DefaultAgent(TypeOf[b]))]
    /\ UNCHANGED <<content, pc, snap, completed, current, backoff,
                   deadlettered, refs, orphans>>

DispatchDone ==
    /\ pc = "dispatch" /\ pc' = "verify"
    /\ Cardinality(Active) >= MaxConcurrent \/ Eligible = {}
    /\ UNCHANGED <<store, memory, world>>
-----------------------------------------------------------------------------
(* Phase 5: verification and the pipeline's decision *)

\* What a run left to judge: the highest tier it passed, nothing ("none": a
\* read-only phase, or a tier that could not be run), or a failed exit.
Result(verdict, tier) == [verdict |-> verdict, tier |-> tier]
FailedExit == Result("exit", NoTier)
NothingToVerify == Result("none", NoTier)
TierResults == {Result("passed", TopTier)}
               \cup {Result("failed", t) : t \in {NoTier} \cup 0..(TopTier - 1)}

Agent(b) == IF tracker[b].known THEN tracker[b].agent ELSE snap[b].owner

\* A read-only agent is only verified when it ends the pipeline of a bead that
\* declares files.
SkipsVerify(b) ==
    /\ tracker[b].agent \in ReadOnlyAgents
    /\ \/ NextAgent(TypeOf[b], tracker[b].agent) # NoAgent
       \/ InScan(b) /\ b \notin DeclaresFiles

\* Faulty: the attempts are counted down.
AfterFailureCountedDown(t, r) ==
    [t EXCEPT !.known = TRUE, !.retries = @ - 1, !.tier = r.tier]

\* on_fail, on_fail_exit: count the failure, and a tier regression.
AfterFailure(t, r) ==
    IF r.verdict = "none" THEN t ELSE
    [t EXCEPT !.known = TRUE,
              !.retries = @ + 1,
              !.tier = IF r.verdict = "exit" THEN @ ELSE r.tier,
              !.reverts = IF r.verdict = "exit" \/ NoTier \in {t.tier, r.tier} THEN @
                          ELSE IF r.tier < t.tier THEN @ + 1 ELSE 0]

\* complete_dispatch on the record the tracker names.
Close(t) == [t EXCEPT !.dispatch = IF @ = "none" THEN @ ELSE "closed"]

\* Faulty: only a run that exited cleanly closes its record.
CloseRecordOfSuccess(b) ==
    records' = [records EXCEPT ![b] = IF completed[b].exit = "ok" THEN @ - 1 ELSE @]

CloseRecord(b) ==
    records' = [records EXCEPT ![b] = IF tracker[b].dispatch = "open"
                                        THEN @ - 1 ELSE @]

\* The bead's place in the queue's books, under the tracker's repository.
SetBackoff(b, new) ==
    backoff' = IF tracker[b].known THEN [backoff EXCEPT ![b] = new] ELSE backoff

Finish(b) ==
    /\ completed' = [completed EXCEPT ![b] = NoRun]
    /\ current' = NoBead
    /\ pc' = "verify"
    /\ CloseRecord(b)
    /\ UNCHANGED <<content, snap, active, queue, refs, orphans>>

\* A phase passed: the next agent is recorded and the bead reopened.  When the
\* previous phase's handoff cannot be read, nothing is recorded.
Advance(b, faults) ==
    LET t == [tracker[b] EXCEPT !.reverts = 0]
        next == NextAgent(TypeOf[b], Agent(b))
        phase == tracker[b].phase + 1
    IN  /\ SetBackoff(b, NoBackoff)
        /\ \/ /\ tracker' = [tracker EXCEPT ![b] =
                   Close(IF t.known THEN [t EXCEPT !.agent = next, !.phase = phase]
                                    ELSE t)]
              /\ pipe' = [pipe EXCEPT ![b] = PipelineState(phase, next)]
              /\ assignee' = [assignee EXCEPT ![b] = next]
              /\ Persist(b, "open", faults)
           \/ /\ tracker[b].phase > 0
              /\ Use(faults \cup {"handoff"})
              /\ tracker' = [tracker EXCEPT ![b] = Close(t)]
              /\ UNCHANGED <<pipe, assignee, status>>
        /\ UNCHANGED deadlettered

\* Faulty: the end of the pipeline closes the bead, without a pull request.
TerminalCloses(b, faults) ==
    /\ SetBackoff(b, NoBackoff)
    /\ tracker' = [tracker EXCEPT ![b] = Close([@ EXCEPT !.reverts = 0])]
    /\ Persist(b, "done", faults)
    /\ UNCHANGED <<pipe, assignee, deadlettered>>

Terminal(b, faults) ==
    /\ SetBackoff(b, NoBackoff)
    /\ tracker' = [tracker EXCEPT ![b] = Close([@ EXCEPT !.reverts = 0])]
    /\ Persist(b, "pr_open", faults)
    /\ UNCHANGED <<pipe, assignee, deadlettered>>

Retry(b, r, faults) ==
    /\ tracker' = [tracker EXCEPT ![b] = Close(AfterFailure(@, r))]
    /\ IF r.verdict = "none" THEN UNCHANGED backoff
       ELSE SetBackoff(b, Backoff(tracker[b].retries + 1))
    /\ Persist(b, "open", faults)
    /\ UNCHANGED <<pipe, assignee, deadlettered>>

DeadLetter(b, r, faults) ==
    /\ tracker' = [tracker EXCEPT ![b] = Close(AfterFailure(@, r))]
    /\ SetBackoff(b, NoBackoff)
    /\ pipe' = [pipe EXCEPT ![b] = NoPipe]
    /\ deadlettered' = deadlettered \cup {b}
    /\ Persist(b, "dead_letter", faults)
    /\ UNCHANGED assignee

Perform(action, b, r, faults) ==
    \/ action = "advance" /\ Advance(b, faults)
    \/ action = "terminal" /\ Terminal(b, faults)
    \/ action = "retry" /\ Retry(b, r, faults)
    \/ action = "deadletter" /\ DeadLetter(b, r, faults)

DecideFor(b, r) ==
    Decide(TypeOf[b], Agent(b), r.verdict # "exit", r.verdict,
           tracker[b].retries, tracker[b].reverts)

Takes(b, exit) ==
    /\ pc = "verify"
    /\ completed[b].exit = exit

\* The agent closed its own bead: no verification, and the tracker is dropped.
AgentClosed(b) ==
    /\ pc = "verify"
    /\ completed[b] # NoRun
    /\ status[b] = "done"
    /\ completed' = [completed EXCEPT ![b] = NoRun]
    /\ tracker' = [tracker EXCEPT ![b] = NoTracker]
    /\ UNCHANGED <<store, pc, snap, active, current, queue, backoff,
                   deadlettered, world>>

ExitFailed(b) ==
    /\ Takes(b, "failed")
    /\ status[b] # "done"
    /\ Perform(DecideFor(b, FailedExit), b, FailedExit, {})
    /\ Finish(b)

BeginVerify(b) ==
    /\ Takes(b, "ok")
    /\ status[b] # "done"
    /\ Persist(b, "verifying", {})
    /\ current' = b
    /\ pc' = "verifying"
    /\ UNCHANGED <<assignee, content, pipe, records, snap, active, completed,
                   tracker, queue, backoff, deadlettered, refs, orphans>>

\* The tiers have run.  A run that would advance or complete the bead but left
\* no `feedback` event is downgraded to a retry.
FinishVerify(b) ==
    /\ pc = "verifying" /\ current = b
    /\ \E r \in IF SkipsVerify(b) THEN {NothingToVerify}
                ELSE TierResults \cup {NothingToVerify} :
       LET decision == DecideFor(b, r)
           errors == IF r.verdict = "none" /\ ~SkipsVerify(b) THEN {"verifier"} ELSE {}
       IN  \/ Perform(decision, b, r, errors)
           \/ /\ decision \in {"advance", "terminal"}
              /\ tracker[b].dispatch # "none"
              /\ Perform("retry", b, r, errors \cup {"feedback"})
    /\ Finish(b)

\* The end of iterate(): the snapshot goes out of scope.
VerifyDone ==
    /\ pc = "verify" /\ pc' = "scan"
    /\ Completed = {}
    /\ snap' = NoSnapshot
    /\ UNCHANGED <<store, active, completed, current, tracker, queue, backoff,
                   deadlettered, world>>
-----------------------------------------------------------------------------
(* The environment *)

AgentExits(b) ==
    /\ active[b].exit = "running"
    /\ \E exit \in {"ok", "failed"} :
           active' = [active EXCEPT ![b] = Run(@.agent, exit)]
    /\ UNCHANGED <<store, pc, snap, completed, current, tracker, queue,
                   backoff, deadlettered, world>>

OrphanExits(b) ==
    /\ b \in orphans
    /\ orphans' = orphans \ {b}
    /\ UNCHANGED <<store, pc, memory, refs, spent>>

\* rsry_bead_close, by an agent or by an operator: written unconditionally.
CloseBead(b) ==
    /\ status[b] # "done"
    /\ status' = [status EXCEPT ![b] = "done"]
    /\ UNCHANGED <<assignee, content, pipe, records, pc, memory, world>>

\* `rsry bead reopen`: of a bead nobody works, or ("meddle") of a bead whose
\* agent is still being run or judged.
ReopenBead(b) ==
    /\ Reopened(status[b]) # status[b]
    /\ Use({IF b \in Active \cup Completed THEN "meddle" ELSE "reopen"})
    /\ status' = [status EXCEPT ![b] = Reopened(@)]
    /\ UNCHANGED <<assignee, content, pipe, records, pc, memory, refs, orphans>>

EditBead(b) ==
    /\ status[b] # "done"
    /\ Use({"edit"})
    /\ content' = [content EXCEPT ![b] = @ + 1]
    /\ UNCHANGED <<status, assignee, pipe, records, pc, memory, refs, orphans>>

\* Anyone, an agent included, commits with a reference to the bead.
Commit(b) ==
    /\ Use({"commit"})
    /\ \E r \in {"ref", "close"} \ refs[b] :
           refs' = [refs EXCEPT ![b] = @ \cup {r}]
    /\ UNCHANGED <<store, pc, memory, orphans>>

\* Time passes; dequeue() compares with the instant the dispatch phase began.
BackoffExpires(b) ==
    /\ pc # "dispatch"
    /\ ~backoff[b].ready
    /\ backoff' = [backoff EXCEPT ![b].ready = TRUE]
    /\ UNCHANGED <<store, pc, snap, active, completed, current, tracker, queue,
                   deadlettered, world>>
-----------------------------------------------------------------------------
Init ==
    /\ status = [b \in Beads |-> "open"]
    /\ assignee = InitialOwner
    /\ content = [b \in Beads |-> NoGeneration + 1]
    /\ pipe = [b \in Beads |-> NoPipe]
    /\ records = [b \in Beads |-> 0]
    /\ pc = "down"
    /\ snap = NoSnapshot
    /\ active = [b \in Beads |-> NoRun]
    /\ completed = [b \in Beads |-> NoRun]
    /\ current = NoBead
    /\ tracker = [b \in Beads |-> NoTracker]
    /\ queue = [b \in Beads |-> NoEntry]
    /\ backoff = [b \in Beads |-> NoBackoff]
    /\ deadlettered = {}
    /\ refs = [b \in Beads |-> {}]
    /\ orphans = {}
    /\ spent = [f \in Faults |-> 0]

Iterate ==
    \/ Start \/ Scan \/ ScanVcs \/ PollPr \/ AutoAssign \/ CheckCompleted
    \/ Triage \/ DispatchDone \/ VerifyDone
    \/ \E b \in Beads :
          \/ DropEntry(b) \/ SpawnFails(b) \/ Spawn(b)
          \/ AgentClosed(b) \/ ExitFailed(b) \/ BeginVerify(b) \/ FinishVerify(b)

Environment ==
    \/ Crash
    \/ \E b \in Beads :
          \/ AgentExits(b) \/ OrphanExits(b) \/ CloseBead(b) \/ ReopenBead(b)
          \/ EditBead(b) \/ Commit(b) \/ BackoffExpires(b)

Next == Iterate \/ Environment

Spec == Init /\ [][Next]_vars

\* The loop keeps running, every agent ends (the four-hour limit kills it), and
\* time passes: a backoff ends at some instant, inside a dispatch phase (where
\* it is noticed one iteration later) or outside, hence strong fairness.
Fairness ==
    /\ WF_vars(Iterate)
    /\ \A b \in Beads : WF_vars(AgentExits(b)) /\ SF_vars(BackoffExpires(b))

FairSpec == Spec /\ Fairness
-----------------------------------------------------------------------------
(* Types *)

Phases == {"down", "scan", "vcs", "pr", "assign", "check", "triage",
           "dispatch", "verify", "verifying"}
MaybeAgents == Agents \cup {NoAgent}
Runs == [agent : MaybeAgents, exit : {"none", "running", "ok", "failed"}]
Trackers == [known : BOOLEAN, generation : Nat, retries : Nat, reverts : Nat,
             tier : 0..NoTier, agent : MaybeAgents, phase : Nat,
             dispatch : {"none", "open", "closed"}]

\* The values every variable ranges over.
TypeOK ==
    /\ status \in [Beads -> States]
    /\ assignee \in [Beads -> MaybeAgents]
    /\ content \in [Beads -> Nat]
    /\ pipe \in [Beads -> [phase : Nat, agent : MaybeAgents]]
    /\ records \in [Beads -> Nat]
    /\ pc \in Phases
    /\ snap \in [Beads -> [status : States, owner : MaybeAgents, content : Nat]]
    /\ active \in [Beads -> Runs]
    /\ completed \in [Beads -> Runs]
    /\ current \in Beads \cup {NoBead}
    /\ tracker \in [Beads -> Trackers]
    /\ queue \in [Beads -> [queued : BOOLEAN, generation : Nat, retries : Nat]]
    /\ backoff \in [Beads -> [set : BOOLEAN, retries : Nat, ready : BOOLEAN]]
    /\ deadlettered \subseteq Beads
    /\ refs \in [Beads -> SUBSET {"ref", "close"}]
    /\ orphans \subseteq Beads
    /\ spent \in [Faults -> Nat]
-----------------------------------------------------------------------------
(* Safety *)

Worked == Active \cup Completed

\* A bead is worked by one run at a time: no agent is started for a bead while
\* an earlier run still waits for its verdict, and no bead that is being worked
\* stays in the queue (Reconciler.active, WorkQueue, check_completed).
OneRunAtATime ==
    /\ Active \cap Completed = {}
    /\ Queued \cap Worked = {}

\* While a bead is worked the store never shows it as free (or as anything but
\* dispatched, verifying or closed), so no other reader of the store claims it.
WorkedIsClaimed ==
    \A b \in Worked : status[b] \in {"dispatched", "verifying", "done"}

\* The converse: what the store shows as dispatched or verifying has a run
\* whose end the daemon will see; nothing is stranded in those states.
ClaimedIsWorked ==
    pc # "down" =>
        \A b \in Beads : status[b] \in {"dispatched", "verifying"} => b \in Worked

\* The ledger of dispatches: one open record for a bead that is worked, none
\* for any other, except for a bead that was closed under its agent
\* (record_dispatch, complete_dispatch, the agent-closed path).
LedgerAccounted ==
    pc # "down" =>
        \A b \in Beads :
            \/ records[b] = (IF b \in Worked THEN 1 ELSE 0)
            \/ status[b] = "done" /\ records[b] = 1

\* Two agents never work on overlapping files, unless one of their beads has
\* been closed meanwhile (the scan no longer shows it to the overlap check).
OverlapExcluded ==
    \A a, b \in Active :
        a # b /\ {a, b} \in Overlaps => "done" \in {status[a], status[b]}

\* The retry counter passes its limit by the one attempt that exhausts it, plus
\* one for each downgrade the feedback contract makes behind decide()'s back,
\* one for each time an operator revives the bead, and one for each lost write
\* or reopening that leaves a worked bead open in the store.
RetriesBounded ==
    \A b \in Beads :
        tracker[b].retries <= MaxRetries + 1 + spent["feedback"] + spent["reopen"]
                              + spent["meddle"] + spent["loss"]

Started(b) == active[b] = NoRun /\ active'[b] # NoRun

\* A dead-lettered bead is not taken up again, not even when the status write
\* was lost: decide()'s verdict keeps it out of the queue until the store has
\* shown it and an operator has reopened it.
DeadLettersUntouched ==
    [][\A b \in Beads :
          b \in deadlettered \/ status[b] = "dead_letter" =>
             b \in Queued \/ b \notin Queued']_vars

\* A dead letter leaves that state only by an operator's hand or by being
\* closed, never by the daemon's own recovery, retry or phase logic.
DeadLettersKept ==
    [][\A b \in Beads :
          status[b] = "dead_letter" /\ status'[b] # "dead_letter" =>
             status'[b] = "done" \/ spent'["reopen"] = spent["reopen"] + 1]_vars

\* No agent starts on a bead before every bead it depends on is closed, however
\* long its entry waited in the queue.
DependenciesFirst ==
    [][\A b \in Beads :
          Started(b) => \A d \in DependsOn[b] : status[d] = "done"]_vars

work == [b \in Beads |-> IF b \in Completed THEN "ended"
                         ELSE IF b \in Active THEN "running" ELSE "idle"]

Lifecycle == INSTANCE BeadLifecycle

\* The daemon implements BeadLifecycle: what it does to a bead, seen from
\* outside, is one run after the other, each judged before the next.
ImplementsLifecycle == Lifecycle!Spec
-----------------------------------------------------------------------------
(* Liveness, under Fairness *)

Settled(b) == status[b] \in {"pr_open", "done", "dead_letter"}

\* Every admitted bead ends with a pull request, closed or dead-lettered.
EveryBeadSettles == \A b \in Admitted : <>Settled(b)
=============================================================================
