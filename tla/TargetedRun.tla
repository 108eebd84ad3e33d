----------------------------- MODULE TargetedRun -----------------------------
(***************************************************************************)
(* `rsry dispatch` / `rsry run --once --bead`: one process that drives one *)
(* bead through its pipeline (Reconciler::run with target_bead,            *)
(* wait_and_verify).  It scans and triages like the daemon, but without    *)
(* the status gate, then waits for the agent, judges it, starts the next   *)
(* phase inline, and decides after every pass whether to go on.            *)
(*                                                                         *)
(* The agent, an operator and the clock move between any two steps.  The   *)
(* verification tiers take minutes: judging is two steps.                  *)
(***************************************************************************)
EXTENDS BeadStates, Pipeline

CONSTANTS
    StartStates,    \* the stored states the target may have when it starts
    TargetFaults    \* how often each fault may happen

TargetFaultKinds == {"close", "handoff", "spawn", "loss"}

ASSUME TargetAssumption ==
    /\ StartStates \subseteq States
    /\ TargetFaults \in [TargetFaultKinds -> Nat]

VARIABLES
    tgType,      \* issue type of the target
    tgStatus,    \* its stored status
    tgOwner,     \* its stored assignee
    tgStep,      \* what the process does next
    tgScan,      \* status and owner as the last scan returned them
    tgTracker,   \* BeadTracker of the target
    tgRun,       \* the run in `active`: "none", "running", "ok" or "failed"
    tgQueued,    \* the target has an entry in the work queue
    tgBackoff,   \* its backoff record: "none", "waiting" or "over"
    tgTold,      \* what the run loop has been told so far
    tgSpent,     \* faults used up
    tgAttempts   \* agents started

targetVars == <<tgType, tgStatus, tgOwner, tgStep, tgScan, tgTracker, tgRun,
                tgQueued, tgBackoff, tgTold, tgSpent, tgAttempts>>

Forgotten == [known |-> FALSE, agent |-> NoAgent, phase |-> 0, retries |-> 0,
              reverts |-> 0]
Nothing == [passed |-> FALSE, dead |-> FALSE, dispatched |-> FALSE]

TargetUse(f) ==
    /\ tgSpent[f] < TargetFaults[f]
    /\ tgSpent' = [tgSpent EXCEPT ![f] = @ + 1]

\* persist_status: refused by the table, or lost, it is only logged.
TargetPersist(wanted) ==
    \/ tgStatus' = UpdateStatus(tgStatus, wanted) /\ UNCHANGED tgSpent
    \/ UNCHANGED tgStatus /\ TargetUse("loss")
-----------------------------------------------------------------------------
(* One pass of iterate(): scan, owner, triage, dispatch *)

\* The scan leaves a closed bead out; phase 1.9 gives an ownerless bead to the
\* first agent, but the snapshot keeps what the scan saw.
TargetScan ==
    /\ tgStep = "scan" /\ tgStep' = "triage"
    /\ tgScan' = [status |-> tgStatus, owner |-> tgOwner]
    /\ tgOwner' = IF tgStatus # "done" /\ tgOwner = NoAgent
                    THEN DefaultAgent(tgType) ELSE tgOwner
    /\ UNCHANGED <<tgType, tgStatus, tgTracker, tgRun, tgQueued, tgBackoff,
                   tgTold, tgSpent, tgAttempts>>

\* Faulty: a processed target is skipped even when a retry is due.
AdmitsOnce == tgScan.status # "done" /\ ~tgTracker.known

\* Any state but done is overridden; only a target that has been processed and
\* waits for no retry is skipped.
Admits == /\ tgScan.status # "done"
          /\ ~(tgTracker.known /\ tgTracker.retries = 0)

TargetTriage ==
    /\ tgStep = "triage" /\ tgStep' = "dispatch"
    /\ tgQueued' = (tgQueued \/ Admits)
    /\ tgTold' = [tgTold EXCEPT !.dispatched = FALSE]
    /\ UNCHANGED <<tgType, tgStatus, tgOwner, tgScan, tgTracker, tgRun,
                   tgBackoff, tgSpent, tgAttempts>>

\* An entry in backoff stays in the queue; the entry of a bead that the scan no
\* longer shows is dropped.
TargetIdle ==
    /\ tgStep = "dispatch" /\ tgStep' = "wait"
    /\ ~tgQueued \/ tgBackoff = "waiting" \/ tgScan.status = "done"
    /\ tgQueued' = (tgQueued /\ tgBackoff = "waiting")
    /\ UNCHANGED <<tgType, tgStatus, tgOwner, tgScan, tgTracker, tgRun,
                   tgBackoff, tgTold, tgSpent, tgAttempts>>

TargetDequeues ==
    /\ tgStep = "dispatch" /\ tgStep' = "wait"
    /\ tgQueued /\ tgBackoff # "waiting" /\ tgScan.status # "done"
    /\ tgQueued' = FALSE
    /\ tgOwner' = DefaultAgent(tgType)

\* The pipeline's first agent runs; the tracker remembers the scanned owner.
TargetSpawn ==
    /\ TargetDequeues
    /\ TargetPersist("dispatched")
    /\ tgRun' = "running"
    /\ tgTracker' = [tgTracker EXCEPT !.known = TRUE, !.agent = tgScan.owner]
    /\ tgTold' = [tgTold EXCEPT !.dispatched = TRUE]
    /\ tgAttempts' = tgAttempts + 1
    /\ UNCHANGED <<tgType, tgScan, tgBackoff>>

TargetSpawnFails ==
    /\ TargetDequeues
    /\ TargetUse("spawn")
    /\ UNCHANGED <<tgType, tgStatus, tgScan, tgTracker, tgRun, tgBackoff,
                   tgTold, tgAttempts>>
-----------------------------------------------------------------------------
(* wait_and_verify *)

\* A session limit is a failed exit (classify_completion); after half an hour
\* the remaining agents are killed, which is a failed exit as well.
TargetExits ==
    /\ tgRun = "running"
    /\ tgRun' \in {"ok", "failed"}
    /\ UNCHANGED <<tgType, tgStatus, tgOwner, tgStep, tgScan, tgTracker,
                   tgQueued, tgBackoff, tgTold, tgSpent, tgAttempts>>

\* A clean exit is announced as verifying, whatever the bead's stored state.
TargetJudge ==
    /\ tgStep = "wait" /\ tgStep' = "tiers"
    /\ tgRun \in {"ok", "failed"}
    /\ IF tgRun = "ok" THEN TargetPersist("verifying")
                       ELSE UNCHANGED <<tgStatus, tgSpent>>
    /\ UNCHANGED <<tgType, tgOwner, tgScan, tgTracker, tgRun, tgQueued,
                   tgBackoff, tgTold, tgAttempts>>

TargetResults == IF tgRun = "failed" THEN {"exit"} ELSE {"passed", "failed", "none"}

TargetDecide(result) ==
    Decide(tgType, tgTracker.agent, result # "exit", result,
           tgTracker.retries, tgTracker.reverts)

TargetJudged == tgStep = "tiers" /\ tgRun' = "none"

\* write_handoff_and_advance; with an unreadable previous handoff nothing is
\* recorded, but the caller starts the next agent all the same.
TargetAdvances ==
    /\ TargetJudged /\ tgStep' = "inline"
    /\ \E r \in TargetResults : TargetDecide(r) = "advance"
    /\ tgBackoff' = "none"
    /\ LET next == NextAgent(tgType, tgTracker.agent)
       IN  \/ /\ tgTracker' = [tgTracker EXCEPT !.reverts = 0, !.agent = next,
                                                !.phase = @ + 1]
              /\ tgOwner' = next
              /\ TargetPersist("open")
           \/ /\ tgTracker.phase > 0
              /\ TargetUse("handoff")
              /\ tgTracker' = [tgTracker EXCEPT !.reverts = 0]
              /\ UNCHANGED <<tgStatus, tgOwner>>
    /\ UNCHANGED <<tgType, tgScan, tgQueued, tgTold, tgAttempts>>

\* Faulty: every phase that passes is reported as a completed pipeline.
RecordsEveryPass(action, told) ==
    [told EXCEPT !.passed = @ \/ action \in {"terminal", "advance", "retry"},
                 !.dead = @ \/ action = "deadletter"]

\* WaitOutcome::record.
RecordOutcome(action, told) ==
    [told EXCEPT !.passed = @ \/ action = "terminal",
                 !.dead = @ \/ action = "deadletter"]

TargetCompletes ==
    /\ TargetJudged /\ tgStep' = "check"
    /\ \E r \in TargetResults : TargetDecide(r) = "terminal"
    /\ tgBackoff' = "none"
    /\ tgTracker' = [tgTracker EXCEPT !.reverts = 0]
    /\ TargetPersist("pr_open")
    /\ tgTold' = RecordOutcome("terminal", tgTold)
    /\ UNCHANGED <<tgType, tgOwner, tgScan, tgQueued, tgAttempts>>

\* on_fail, on_fail_exit: a failed exit leaves the tier history alone, a failed
\* verification may be a regression.
TargetCounts(r) ==
    \E reverts \in {tgTracker.reverts} \cup (IF r = "exit" THEN {}
                                              ELSE {0, tgTracker.reverts + 1}) :
        tgTracker' = [tgTracker EXCEPT !.retries = @ + 1, !.reverts = reverts]

TargetRetries ==
    /\ TargetJudged /\ tgStep' = "check"
    /\ \E r \in TargetResults : TargetDecide(r) = "retry" /\ TargetCounts(r)
    /\ tgBackoff' = "waiting"
    /\ TargetPersist("open")
    /\ tgTold' = RecordOutcome("retry", tgTold)
    /\ UNCHANGED <<tgType, tgOwner, tgScan, tgQueued, tgAttempts>>

TargetDies ==
    /\ TargetJudged /\ tgStep' = "check"
    /\ \E r \in TargetResults : TargetDecide(r) = "deadletter" /\ TargetCounts(r)
    /\ tgBackoff' = "none"
    /\ TargetPersist("dead_letter")
    /\ tgTold' = RecordOutcome("deadletter", tgTold)
    /\ UNCHANGED <<tgType, tgOwner, tgScan, tgQueued, tgAttempts>>

\* The next phase is dispatched inside the wait loop.
InlineSpawn ==
    /\ tgStep = "inline" /\ tgStep' = "wait"
    /\ tgRun' = "running"
    /\ TargetPersist("dispatched")
    /\ tgAttempts' = tgAttempts + 1
    /\ UNCHANGED <<tgType, tgOwner, tgScan, tgTracker, tgQueued, tgBackoff,
                   tgTold>>

\* The next agent cannot be started: dead-lettered, as far as the store lets it.
InlineSpawnFails ==
    /\ tgStep = "inline" /\ tgStep' = "check"
    /\ TargetUse("spawn")
    /\ tgStatus' = UpdateStatus(tgStatus, "dead_letter")
    /\ tgTracker' = Forgotten
    /\ tgTold' = RecordOutcome("deadletter", tgTold)
    /\ UNCHANGED <<tgType, tgOwner, tgScan, tgRun, tgQueued, tgBackoff,
                   tgAttempts>>

\* No agent is running: the wait is over before it began.
NothingToWaitFor ==
    /\ tgStep = "wait" /\ tgStep' = "check"
    /\ tgRun = "none"
    /\ UNCHANGED <<tgType, tgStatus, tgOwner, tgScan, tgTracker, tgRun,
                   tgQueued, tgBackoff, tgTold, tgSpent, tgAttempts>>
-----------------------------------------------------------------------------
(* The run loop's exit conditions *)

StillActive == tgTold.dispatched \/ tgBackoff # "none"

TargetEnds ==
    /\ tgStep = "check"
    /\ tgTold.dead \/ tgTold.passed \/ ~StillActive
    /\ tgStep' = "ended"
    /\ UNCHANGED <<tgType, tgStatus, tgOwner, tgScan, tgTracker, tgRun,
                   tgQueued, tgBackoff, tgTold, tgSpent, tgAttempts>>

TargetGoesOn ==
    /\ tgStep = "check"
    /\ ~tgTold.dead /\ ~tgTold.passed /\ StillActive
    /\ tgStep' = "scan"
    /\ UNCHANGED <<tgType, tgStatus, tgOwner, tgScan, tgTracker, tgRun,
                   tgQueued, tgBackoff, tgTold, tgSpent, tgAttempts>>

\* The retry comes due.
TargetBackoffEnds ==
    /\ tgBackoff = "waiting" /\ tgBackoff' = "over"
    /\ UNCHANGED <<tgType, tgStatus, tgOwner, tgStep, tgScan, tgTracker, tgRun,
                   tgQueued, tgTold, tgSpent, tgAttempts>>

\* rsry_bead_close, by the agent or an operator.
TargetClosed ==
    /\ tgStatus # "done" /\ tgStep # "ended"
    /\ TargetUse("close")
    /\ tgStatus' = "done"
    /\ UNCHANGED <<tgType, tgOwner, tgStep, tgScan, tgTracker, tgRun, tgQueued,
                   tgBackoff, tgTold, tgAttempts>>
-----------------------------------------------------------------------------
TargetInit ==
    /\ tgType \in IssueTypes
    /\ tgStatus \in StartStates
    /\ tgOwner \in {NoAgent, DefaultAgent(tgType)}
    /\ tgStep = "scan"
    /\ tgScan = [status |-> "done", owner |-> NoAgent]
    /\ tgTracker = Forgotten
    /\ tgRun = "none"
    /\ tgQueued = FALSE
    /\ tgBackoff = "none"
    /\ tgTold = Nothing
    /\ tgSpent = [f \in TargetFaultKinds |-> 0]
    /\ tgAttempts = 0

TargetProcess ==
    \/ TargetScan \/ TargetTriage \/ TargetIdle \/ TargetSpawn
    \/ TargetSpawnFails \/ TargetJudge \/ TargetAdvances \/ TargetCompletes
    \/ TargetRetries \/ TargetDies \/ InlineSpawn \/ InlineSpawnFails
    \/ NothingToWaitFor \/ TargetEnds \/ TargetGoesOn

TargetNext == TargetProcess \/ TargetExits \/ TargetBackoffEnds \/ TargetClosed

\* The process runs, its agent ends (it is killed after half an hour) and time
\* passes.
TargetFairness ==
    /\ WF_targetVars(TargetProcess)
    /\ WF_targetVars(TargetExits)
    /\ WF_targetVars(TargetBackoffEnds)

TargetSpec == TargetInit /\ [][TargetNext]_targetVars
TargetFairSpec == TargetSpec /\ TargetFairness
-----------------------------------------------------------------------------
TargetTypeOK ==
    /\ tgType \in IssueTypes
    /\ tgStatus \in States
    /\ tgOwner \in Agents \cup {NoAgent}
    /\ tgStep \in {"scan", "triage", "dispatch", "wait", "tiers", "inline",
                   "check", "ended"}
    /\ tgScan \in [status : States, owner : Agents \cup {NoAgent}]
    /\ tgTracker \in [known : BOOLEAN, agent : Agents \cup {NoAgent},
                      phase : Nat, retries : Nat, reverts : Nat]
    /\ tgRun \in {"none", "running", "ok", "failed"}
    /\ tgQueued \in BOOLEAN
    /\ tgBackoff \in {"none", "waiting", "over"}
    /\ tgTold \in [passed : BOOLEAN, dead : BOOLEAN, dispatched : BOOLEAN]
    /\ tgSpent \in [TargetFaultKinds -> Nat]
    /\ tgAttempts \in Nat

\* A bead in one of these states is owed to somebody.
Pending == {"open", "queued", "dispatched", "verifying"}

\* What the run reports is what the store shows when it ends: after a completed
\* pipeline or a dead letter the bead is no longer free or claimed, unless a
\* write was lost or the next phase could not be started (open -> dead_letter is
\* no legal move).  A target whose state the table does not let go keeps it, for
\* the run overrides the state gate but not the table (run, WaitOutcome::record,
\* persist_status).
ReportMatchesStore ==
    /\ tgStep = "ended"
    /\ tgTold.passed \/ tgTold.dead
    /\ tgSpent["loss"] = 0 /\ tgSpent["spawn"] = 0
    => tgStatus \notin Pending

\* The retry budget bounds the agents a run starts, although a retry begins
\* again at the first phase: as many pipelines as there are attempts allowed,
\* unless a broken handoff chain makes the run repeat a phase.
AttemptsBounded ==
    tgSpent["handoff"] = 0 =>
        tgAttempts <= (MaxRetries + 1)
                      * (IF AgentsFor(tgType) = <<>> THEN 1 ELSE Len(AgentsFor(tgType)))

\* A run that has begun ends, however its phases fail.  Two ways out of the
\* promise are the code's own: a bead closed while its retry waits (has_backoff
\* never expires, and the scan no longer shows the bead), and a phase whose
\* handoff chain is broken (the same next agent is started again and again).
TargetedRunEnds ==
    tgStep = "triage" ~>
        \/ tgStep = "ended"
        \/ tgStatus = "done" /\ tgBackoff # "none"
        \/ tgSpent["handoff"] > 0
=============================================================================
