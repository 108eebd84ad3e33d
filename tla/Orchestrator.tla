---------------------------- MODULE Orchestrator ----------------------------
(***************************************************************************)
(* Hierarchical mode (src/orchestrate/, src/reconcile/orchestration.rs):   *)
(* the daemon gives every dispatched bead a FeatureOrchestrator, a state   *)
(* machine that asks for one worker after the other and never starts one   *)
(* itself.  The daemon ticks all orchestrators between check_completed and *)
(* triage and feeds verdicts back in its verify phase.                     *)
(*                                                                         *)
(* The research, plan-approval and worker-handle branches of tick() are    *)
(* left out: nothing in the program enters those states or sets a handle.  *)
(***************************************************************************)
EXTENDS BeadStates, Pipeline, FiniteSets

CONSTANTS
    OrBeads,       \* beads of different repositories, threads and files
    OrTypeOf,      \* bead -> issue type
    OrLimits,      \* the values max_concurrent may be configured with
    Synthesis,     \* config: a synthesis step between two phases
    OrFaults       \* how many kinds of fault may happen, each of them once

OrFaultKinds == {"loss", "spawn", "crash", "close", "reopen"}

ASSUME OrchestratorAssumption ==
    /\ OrTypeOf \in [OrBeads -> IssueTypes]
    /\ OrLimits \subseteq Nat
    /\ Synthesis \in BOOLEAN
    /\ OrFaults \in Nat

VARIABLES
    orLimit,     \* max_concurrent of this daemon
    orStatus,    \* stored status of each bead
    orStep,      \* phase of iterate() that runs next
    orScan,      \* the snapshot: stored status when it was scanned
    orQueue,     \* beads with an entry in the work queue
    orState,     \* OrchestratorState of each bead, "none" without one
    orPhase,     \* current_phase
    orRetries,   \* retries in the current phase
    orTicked,    \* orchestrators ticked in this pass
    orActive,    \* Reconciler.active: the worker of each bead
    orCompleted, \* workers check_completed() took out of active
    orRefused,   \* beads whose orchestrator was refused a worker
    orLedger,    \* per bead: agents started by its present orchestrator
    orTwice,     \* beads for which a second agent was started beside the first
    orSpent      \* kinds of fault that have happened

orchestratorVars ==
    <<orLimit, orStatus, orStep, orScan, orQueue, orState, orPhase, orRetries,
      orTicked, orActive, orCompleted, orRefused, orLedger, orTwice, orSpent>>

Agenda(b) == AgentsFor(OrTypeOf[b])
OrWorked == {b \in OrBeads : orActive[b] # "none"}

OrUse(f) ==
    /\ f \notin orSpent
    /\ Cardinality(orSpent) < OrFaults
    /\ orSpent' = orSpent \cup {f}

\* persist_status: refused or lost, it is only logged.
OrPersist(b, wanted) ==
    \/ /\ orStatus' = [orStatus EXCEPT ![b] = UpdateStatus(@, wanted)]
       /\ UNCHANGED orSpent
    \/ OrUse("loss") /\ UNCHANGED orStatus
-----------------------------------------------------------------------------
(* iterate(): scan and finished workers *)

OrScan ==
    /\ orStep = "scan" /\ orStep' = "check"
    /\ orScan' = orStatus
    /\ UNCHANGED <<orStatus, orQueue, orState, orPhase, orRetries, orTicked,
                   orActive, orCompleted, orRefused, orLedger, orTwice, orSpent>>

OrCheck ==
    /\ orStep = "check" /\ orStep' = "tick"
    /\ LET exited == {b \in OrBeads : orActive[b] \in {"ok", "failed"}}
       IN  /\ orCompleted' = [b \in OrBeads |-> IF b \in exited THEN orActive[b]
                                                                ELSE "none"]
           /\ orActive' = [b \in OrBeads |-> IF b \in exited THEN "none"
                                                             ELSE orActive[b]]
    /\ orTicked' = {}
    /\ UNCHANGED <<orStatus, orScan, orQueue, orState, orPhase, orRetries,
                   orRefused, orLedger, orTwice, orSpent>>
-----------------------------------------------------------------------------
(* Phase 2.1: orchestrator_tick, one orchestrator at a time *)

Ticks(b) ==
    /\ orStep = "tick"
    /\ orState[b] # "none" /\ b \notin orTicked
    /\ orTicked' = orTicked \cup {b}

\* A worker is out: its handle is with the daemon, and tick() only waits.
TickWaits(b) ==
    /\ Ticks(b)
    /\ orState[b] = "awaiting"
    /\ UNCHANGED <<orStatus, orStep, orScan, orQueue, orState, orPhase,
                   orRetries, orActive, orCompleted, orRefused, orLedger,
                   orTwice, orSpent>>

\* Faulty: one that waits for its worker asks for another.
AsksWhileAwaiting(b) ==
    Ticks(b) /\ orState[b] \notin {"terminal", "failed"}
             /\ orPhase[b] < Len(Agenda(b))

\* tick() of an idle orchestrator, or of one that has synthesized: it moves to
\* "awaiting" before the daemon has found a slot.
AsksForWorker(b) ==
    /\ Ticks(b)
    /\ orState[b] \in {"idle", "synthesizing"}
    /\ orPhase[b] < Len(Agenda(b))

\* No slot is free, or the scan no longer shows the bead: nobody tells it.
TickRefused(b) ==
    /\ AsksForWorker(b)
    /\ Cardinality(OrWorked) >= orLimit \/ orScan[b] = "done"
    /\ orState' = [orState EXCEPT ![b] = "awaiting"]
    /\ orRefused' = orRefused \cup {b}
    /\ UNCHANGED <<orStatus, orStep, orScan, orQueue, orPhase, orRetries,
                   orActive, orCompleted, orLedger, orTwice, orSpent>>

HasSlot(b) == Cardinality(OrWorked) < orLimit /\ orScan[b] # "done"

TickSpawns(b) ==
    /\ AsksForWorker(b) /\ HasSlot(b)
    /\ orState' = [orState EXCEPT ![b] = "awaiting"]
    /\ orTwice' = IF b \in OrWorked THEN orTwice \cup {b} ELSE orTwice
    /\ orActive' = [orActive EXCEPT ![b] = "running"]
    /\ orLedger' = [orLedger EXCEPT ![b] = @ + 1]
    /\ UNCHANGED <<orStatus, orStep, orScan, orQueue, orPhase, orRetries,
                   orCompleted, orRefused, orSpent>>

\* Faulty: the next phase, or the retry, waits for a worker instead of asking
\* for one (the deadlock two comments in on_worker_completed tell of).
AwaitsNext(b, passed) ==
    /\ orRetries' = [orRetries EXCEPT ![b] = IF passed THEN 0 ELSE @ + 1]
    /\ orPhase' = [orPhase EXCEPT ![b] =
                      IF passed /\ @ + 1 < Len(Agenda(b)) THEN @ + 1 ELSE @]
    /\ orState' = [orState EXCEPT ![b] =
          IF passed /\ orPhase[b] + 1 = Len(Agenda(b)) THEN "terminal"
          ELSE IF ~passed /\ orRetries[b] + 1 >= MaxRetries THEN "failed"
          ELSE "awaiting"]

\* Faulty: the retry that exhausts the budget is still granted.
GrantsOneMore(b, passed) ==
    /\ orRetries' = [orRetries EXCEPT ![b] = IF passed THEN 0 ELSE @ + 1]
    /\ orPhase' = [orPhase EXCEPT ![b] =
                      IF passed /\ @ + 1 < Len(Agenda(b)) THEN @ + 1 ELSE @]
    /\ orState' = [orState EXCEPT ![b] =
          IF passed /\ orPhase[b] + 1 = Len(Agenda(b)) THEN "terminal"
          ELSE IF ~passed /\ orRetries[b] + 1 > MaxRetries THEN "failed"
          ELSE "idle"]

\* on_worker_completed: the next phase, the same phase again, or the end.
OnWorkerCompleted(b, passed) ==
    IF passed
      THEN /\ orRetries' = [orRetries EXCEPT ![b] = 0]
           /\ IF orPhase[b] + 1 < Len(Agenda(b))
                THEN /\ orPhase' = [orPhase EXCEPT ![b] = @ + 1]
                     /\ orState' = [orState EXCEPT ![b] =
                          IF Synthesis THEN "synthesizing" ELSE "idle"]
                ELSE /\ orState' = [orState EXCEPT ![b] = "terminal"]
                     /\ UNCHANGED orPhase
      ELSE /\ orRetries' = [orRetries EXCEPT ![b] = @ + 1]
           /\ orState' = [orState EXCEPT ![b] =
                IF orRetries[b] + 1 >= MaxRetries THEN "failed" ELSE "idle"]
           /\ UNCHANGED orPhase

TickSpawnFails(b) ==
    /\ AsksForWorker(b) /\ HasSlot(b)
    /\ OrUse("spawn")
    /\ OnWorkerCompleted(b, FALSE)
    /\ UNCHANGED <<orStatus, orStep, orScan, orQueue, orActive, orCompleted,
                   orRefused, orLedger, orTwice>>

\* A pipeline without agents is at its end at once: the orchestrator remembers,
\* and reports, that it is done.
Ends(b, state, wanted) ==
    /\ Ticks(b)
    /\ \/ orState[b] = state
       \/ state = "terminal" /\ orState[b] = "idle" /\ Agenda(b) = <<>>
    /\ orState' = [orState EXCEPT ![b] = "none"]
    /\ OrPersist(b, wanted)
    /\ UNCHANGED <<orStep, orScan, orQueue, orPhase, orRetries, orActive,
                   orCompleted, orRefused, orLedger, orTwice>>

TickTerminal(b) == Ends(b, "terminal", "pr_open")
TickFailed(b) == Ends(b, "failed", "dead_letter")

TicksDone ==
    /\ orStep = "tick" /\ orStep' = "triage"
    /\ \A b \in OrBeads : orState[b] = "none" \/ b \in orTicked
    /\ UNCHANGED <<orStatus, orScan, orQueue, orState, orPhase, orRetries,
                   orTicked, orActive, orCompleted, orRefused, orLedger,
                   orTwice, orSpent>>
-----------------------------------------------------------------------------
(* Triage, dispatch and verification *)

OrCandidates == {b \in OrBeads \ OrWorked : orScan[b] = "open"}

OrTriage ==
    /\ orStep = "triage" /\ orStep' = "dispatch"
    /\ orQueue' = orQueue \cup OrCandidates
    /\ UNCHANGED <<orStatus, orScan, orState, orPhase, orRetries, orTicked,
                   orActive, orCompleted, orRefused, orLedger, orTwice, orSpent>>

\* A new orchestrator takes no slot, so the loop goes on to the next entry.
CreateOrchestrator(b) ==
    /\ orStep = "dispatch"
    /\ b \in orQueue
    /\ Cardinality(OrWorked) < orLimit
    /\ orQueue' = orQueue \ {b}
    /\ IF orScan[b] = "done"
         THEN UNCHANGED <<orStatus, orState, orPhase, orRetries, orRefused,
                          orLedger, orSpent>>
         ELSE /\ orState' = [orState EXCEPT ![b] = "idle"]
              /\ orPhase' = [orPhase EXCEPT ![b] = 0]
              /\ orRetries' = [orRetries EXCEPT ![b] = 0]
              /\ orRefused' = orRefused \ {b}
              /\ orLedger' = [orLedger EXCEPT ![b] = 0]
              /\ OrPersist(b, "dispatched")
    /\ UNCHANGED <<orStep, orScan, orTicked, orActive, orCompleted, orTwice>>

OrDispatchDone ==
    /\ orStep = "dispatch" /\ orStep' = "verify"
    /\ orQueue = {} \/ Cardinality(OrWorked) >= orLimit
    /\ UNCHANGED <<orStatus, orScan, orQueue, orState, orPhase, orRetries,
                   orTicked, orActive, orCompleted, orRefused, orLedger,
                   orTwice, orSpent>>

\* verify_completed for a bead with an orchestrator: no status is written and
\* no tracker, handoff or dispatch record is touched.  The tiers decide.
OrVerify(b) ==
    /\ orStep = "verify"
    /\ orCompleted[b] # "none"
    /\ orCompleted' = [orCompleted EXCEPT ![b] = "none"]
    /\ IF orState[b] = "none"
         THEN UNCHANGED <<orState, orPhase, orRetries>>
         ELSE \E passed \in IF orCompleted[b] = "ok" THEN BOOLEAN ELSE {FALSE} :
                 OnWorkerCompleted(b, passed)
    /\ UNCHANGED <<orStatus, orStep, orScan, orQueue, orTicked, orActive,
                   orRefused, orLedger, orTwice, orSpent>>

OrVerifyDone ==
    /\ orStep = "verify" /\ orStep' = "scan"
    /\ \A b \in OrBeads : orCompleted[b] = "none"
    /\ orScan' = [b \in OrBeads |-> "done"]
    /\ UNCHANGED <<orStatus, orQueue, orState, orPhase, orRetries, orTicked,
                   orActive, orCompleted, orRefused, orLedger, orTwice, orSpent>>
-----------------------------------------------------------------------------
(* The environment *)

OrWorkerExits(b) ==
    /\ orActive[b] = "running"
    /\ \E exit \in {"ok", "failed"} : orActive' = [orActive EXCEPT ![b] = exit]
    /\ UNCHANGED <<orLimit, orStatus, orStep, orScan, orQueue, orState, orPhase,
                   orRetries, orTicked, orCompleted, orRefused, orLedger,
                   orTwice, orSpent>>

OrClose(b) ==
    /\ orStatus[b] # "done"
    /\ OrUse("close")
    /\ orStatus' = [orStatus EXCEPT ![b] = "done"]
    /\ UNCHANGED <<orLimit, orStep, orScan, orQueue, orState, orPhase, orRetries,
                   orTicked, orActive, orCompleted, orRefused, orLedger, orTwice>>

OrReopen(b) ==
    /\ Reopened(orStatus[b]) # orStatus[b]
    /\ OrUse("reopen")
    /\ orStatus' = [orStatus EXCEPT ![b] = Reopened(@)]
    /\ UNCHANGED <<orLimit, orStep, orScan, orQueue, orState, orPhase, orRetries,
                   orTicked, orActive, orCompleted, orRefused, orLedger, orTwice>>

\* The daemon dies and starts again.  The records of the orchestrators lie in
\* the repository root and are looked for in the workspaces: none is restored,
\* and recover_stuck_beads reopens what is dispatched.
OrRestart ==
    /\ OrUse("crash")
    /\ orStep' = "scan"
    /\ orStatus' = [b \in OrBeads |-> IF orStatus[b] = "dispatched" THEN "open"
                                      ELSE orStatus[b]]
    /\ orScan' = [b \in OrBeads |-> "done"]
    /\ orQueue' = {} /\ orTicked' = {} /\ orRefused' = {}
    /\ orState' = [b \in OrBeads |-> "none"]
    /\ orPhase' = [b \in OrBeads |-> 0]
    /\ orRetries' = [b \in OrBeads |-> 0]
    /\ orActive' = [b \in OrBeads |-> "none"]
    /\ orCompleted' = [b \in OrBeads |-> "none"]
    /\ orLedger' = [b \in OrBeads |-> 0]
    /\ UNCHANGED <<orLimit, orTwice>>
-----------------------------------------------------------------------------
OrchestratorInit ==
    /\ orLimit \in OrLimits
    /\ orStatus = [b \in OrBeads |-> "open"]
    /\ orStep = "scan"
    /\ orScan = [b \in OrBeads |-> "done"]
    /\ orQueue = {} /\ orTicked = {} /\ orRefused = {} /\ orTwice = {}
    /\ orState = [b \in OrBeads |-> "none"]
    /\ orPhase = [b \in OrBeads |-> 0]
    /\ orRetries = [b \in OrBeads |-> 0]
    /\ orActive = [b \in OrBeads |-> "none"]
    /\ orCompleted = [b \in OrBeads |-> "none"]
    /\ orLedger = [b \in OrBeads |-> 0]
    /\ orSpent = {}

OrIterate ==
    /\ UNCHANGED orLimit
    /\ \/ OrScan \/ OrCheck \/ TicksDone \/ OrTriage \/ OrDispatchDone
       \/ OrVerifyDone
       \/ \E b \in OrBeads :
             \/ TickWaits(b) \/ TickRefused(b) \/ TickSpawns(b)
             \/ TickSpawnFails(b) \/ TickTerminal(b) \/ TickFailed(b)
             \/ CreateOrchestrator(b) \/ OrVerify(b)

OrchestratorNext ==
    \/ OrIterate \/ OrRestart
    \/ \E b \in OrBeads : OrWorkerExits(b) \/ OrClose(b) \/ OrReopen(b)

\* The loop runs and every worker ends (the four-hour limit kills it).
OrchestratorFairness ==
    /\ WF_orchestratorVars(OrIterate)
    /\ \A b \in OrBeads : WF_orchestratorVars(OrWorkerExits(b))

OrchestratorSpec == OrchestratorInit /\ [][OrchestratorNext]_orchestratorVars
OrchestratorFairSpec == OrchestratorSpec /\ OrchestratorFairness
-----------------------------------------------------------------------------
\* What a write that got lost, or an operator, may have shown as free although
\* it was taken.
Misshown == orSpent \cap {"loss", "reopen"} # {}

OrchestratorTypeOK ==
    /\ orStatus \in [OrBeads -> States]
    /\ orStep \in {"scan", "check", "tick", "triage", "dispatch", "verify"}
    /\ orScan \in [OrBeads -> States]
    /\ orQueue \subseteq OrBeads /\ orTicked \subseteq OrBeads
    /\ orRefused \subseteq OrBeads /\ orTwice \subseteq OrBeads
    /\ orState \in [OrBeads -> {"none", "idle", "awaiting", "synthesizing",
                                "terminal", "failed"}]
    /\ orPhase \in [OrBeads -> Nat]
    /\ orRetries \in [OrBeads -> Nat]
    /\ orActive \in [OrBeads -> {"none", "running", "ok", "failed"}]
    /\ orCompleted \in [OrBeads -> {"none", "ok", "failed"}]
    /\ orLedger \in [OrBeads -> Nat]
    /\ orSpent \subseteq OrFaultKinds

\* One worker per bead: an orchestrator never has a second agent started beside
\* one that still runs, unless the store showed the bead as free in between
\* (orchestrator_tick inserts into active without looking).
OneWorkerPerBead == orTwice # {} => Misshown

\* The agents an orchestrator starts are bounded by the retries of every phase,
\* although its budget starts again with each phase it completes.
OrchestratorBounded ==
    ~Misshown =>
        \A b \in OrBeads :
            orLedger[b] <=
                Len(Agenda(b)) * (IF MaxRetries = 0 THEN 1 ELSE MaxRetries)

\* An orchestrator comes to its end, however its workers and its spawns fail.
\* The code makes one exception: one that was refused a worker (no free slot, or
\* a closed bead) waits for a worker nobody will start (tick, orchestrator_tick).
OrchestratorsFinish ==
    \A b \in OrBeads :
        orState[b] # "none" ~> orState[b] = "none" \/ b \in orRefused
=============================================================================
