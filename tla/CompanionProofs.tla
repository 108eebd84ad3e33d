--------------------------- MODULE CompanionProofs --------------------------
(***************************************************************************)
(* Theorems about the components beside the daemon's flat loop, for all    *)
(* beads, pipelines, limits, requests and faults: the orchestrators of     *)
(* hierarchical mode (Orchestrator), and the dispatches, the sweeps and    *)
(* the workspaces of the MCP server (Workers); last, their composition.    *)
(***************************************************************************)
EXTENDS MCCompanions, TargetedProofs

(***************************************************************************)
(* Lemmas about the transition table and the pipelines.                    *)
(***************************************************************************)

\* BeadStore::update_status leaves a legal status, and a bead is open
\* afterwards only when that was asked for or when it was open before.
LEMMA Updated ==
    ASSUME NEW s \in States, NEW n
    PROVE  /\ UpdateStatus(s, n) \in States
           /\ UpdateStatus(s, n) = "open" => s = "open" \/ n = "open"
<1>1. ValidTransitions[s] \subseteq States
  BY DEF ValidTransitions, States
<1> QED
  BY <1>1 DEF UpdateStatus, CanTransition

\* rsry bead reopen as well.
LEMMA ReopenedState == ASSUME NEW s \in States PROVE Reopened(s) \in States
  BY Updated DEF Reopened, States

\* A dispatch takes an open bead, so that none is open after one.
LEMMA NotOpenAfter ==
    ASSUME NEW s \in States PROVE UpdateStatus(s, "dispatched") # "open"
  BY DEF UpdateStatus, CanTransition, ValidTransitions, States

\* PipelineEngine::agents_for returns a finite sequence.
LEMMA AgendaLength == ASSUME NEW b PROVE Len(Agenda(b)) \in Nat
<1>1. ASSUME NEW agents \in Seq(Agents) PROVE Truncated(agents) \in Seq(Agents)
  <2>1. CASE MaxDepth > 0 /\ Len(agents) > MaxDepth
    <3>1. SubSeq(agents, 1, MaxDepth) \in Seq(Agents)
      BY <2>1, PipelineAssumption
    <3> QED
      BY <2>1, <3>1 DEF Truncated
  <2> QED
    BY <2>1 DEF Truncated
<1>2. <<FallbackAgent>> \in Seq(Agents)
  BY PipelineAssumption
<1>3. Agenda(b) \in Seq(Agents)
  BY <1>1, <1>2, PipelineAssumption DEF Agenda, AgentsFor
<1> QED
  BY <1>3
-----------------------------------------------------------------------------
(***************************************************************************)
(* The orchestrators.                                                      *)
(***************************************************************************)
Persisted ==
    /\ orStatus \in [OrBeads -> States]
    /\ orSpent \subseteq OrFaultKinds

LEMMA PersistType ==
    ASSUME Persisted, NEW b \in OrBeads, NEW wanted, OrPersist(b, wanted)
    PROVE  Persisted'
<1>1. CASE orStatus' = [orStatus EXCEPT ![b] = UpdateStatus(@, wanted)]
           /\ UNCHANGED orSpent
  BY <1>1, Updated DEF Persisted
<1>2. CASE OrUse("loss") /\ UNCHANGED orStatus
  BY <1>2 DEF Persisted, OrUse, OrFaultKinds
<1> QED
  BY <1>1, <1>2 DEF OrPersist

\* What on_worker_completed may do, whatever the verdict: the next phase with a
\* fresh budget, the end, or the same phase with one retry less.
OrOutcome(b, state, phase, retries) ==
    \/ /\ state \in {"idle", "synthesizing"}
       /\ phase = orPhase[b] + 1 /\ retries = 0
    \/ state = "terminal" /\ phase = orPhase[b] /\ retries = 0
    \/ state = "failed" /\ phase = orPhase[b] /\ retries = orRetries[b] + 1
    \/ /\ state = "idle" /\ phase = orPhase[b] /\ retries = orRetries[b] + 1
       /\ retries < MaxRetries

OrMoves(b, state, phase, retries) ==
    /\ orState' = [orState EXCEPT ![b] = state]
    /\ orPhase' = [orPhase EXCEPT ![b] = phase]
    /\ orRetries' = [orRetries EXCEPT ![b] = retries]

LEMMA Completion ==
    ASSUME OrchestratorTypeOK, NEW b \in OrBeads, NEW passed \in BOOLEAN,
           OnWorkerCompleted(b, passed)
    PROVE  \E state, phase, retries :
              OrOutcome(b, state, phase, retries) /\ OrMoves(b, state, phase, retries)
<1> DEFINE Goal == \E state, phase, retries :
              OrOutcome(b, state, phase, retries) /\ OrMoves(b, state, phase, retries)
<1>0. orPhase = [orPhase EXCEPT ![b] = orPhase[b]] /\ orRetries[b] \in Nat
  BY DEF OrchestratorTypeOK
<1>1. CASE passed = TRUE
  <2>0. orRetries' = [orRetries EXCEPT ![b] = 0]
    BY <1>1 DEF OnWorkerCompleted
  <2>1. CASE orPhase[b] + 1 < Len(Agenda(b))
    <3> DEFINE state == IF Synthesis THEN "synthesizing" ELSE "idle"
    <3>1. /\ orPhase' = [orPhase EXCEPT ![b] = orPhase[b] + 1]
          /\ orState' = [orState EXCEPT ![b] = state]
      BY <1>1, <2>1 DEF OnWorkerCompleted
    <3>2. OrMoves(b, state, orPhase[b] + 1, 0)
      BY <2>0, <3>1 DEF OrMoves
    <3>3. OrOutcome(b, state, orPhase[b] + 1, 0)
      BY DEF OrOutcome
    <3> QED
      BY <3>2, <3>3
  <2>2. CASE ~(orPhase[b] + 1 < Len(Agenda(b)))
    <3>1. orPhase' = orPhase /\ orState' = [orState EXCEPT ![b] = "terminal"]
      BY <1>1, <2>2 DEF OnWorkerCompleted
    <3>2. OrMoves(b, "terminal", orPhase[b], 0)
      BY <1>0, <2>0, <3>1 DEF OrMoves
    <3>3. OrOutcome(b, "terminal", orPhase[b], 0)
      BY DEF OrOutcome
    <3> QED
      BY <3>2, <3>3
  <2> QED
    BY <2>1, <2>2
<1>2. CASE passed = FALSE
  <2> DEFINE state == IF orRetries[b] + 1 >= MaxRetries THEN "failed" ELSE "idle"
  <2>1. /\ orPhase' = orPhase
        /\ orRetries' = [orRetries EXCEPT ![b] = orRetries[b] + 1]
        /\ orState' = [orState EXCEPT ![b] = state]
    BY <1>2 DEF OnWorkerCompleted
  <2>2. OrMoves(b, state, orPhase[b], orRetries[b] + 1)
    BY <1>0, <2>1 DEF OrMoves
  <2>3. OrOutcome(b, state, orPhase[b], orRetries[b] + 1)
    BY <1>0, PipelineAssumption DEF OrOutcome
  <2> QED
    BY <2>2, <2>3
<1> QED
  BY <1>1, <1>2

LEMMA CompletedType ==
    ASSUME OrchestratorTypeOK, NEW b \in OrBeads, NEW passed \in BOOLEAN,
           OnWorkerCompleted(b, passed)
    PROVE  /\ orPhase' \in [OrBeads -> Nat] /\ orRetries' \in [OrBeads -> Nat]
           /\ orState' \in [OrBeads -> {"none", "idle", "awaiting", "synthesizing",
                                        "terminal", "failed"}]
<1>1. PICK state, phase, retries :
        OrOutcome(b, state, phase, retries) /\ OrMoves(b, state, phase, retries)
  BY Completion
<1> QED
  BY <1>1 DEF OrOutcome, OrMoves, OrchestratorTypeOK

LEMMA OrTypeInit == OrchestratorInit => OrchestratorTypeOK
  BY DEF OrchestratorInit, OrchestratorTypeOK, States

LEMMA OrTypeStep ==
    ASSUME OrchestratorTypeOK, [OrchestratorNext]_orchestratorVars
    PROVE  OrchestratorTypeOK'
<1> USE DEF OrchestratorTypeOK
<1>0. CASE UNCHANGED orchestratorVars
  BY <1>0 DEF orchestratorVars
<1>1. CASE OrScan
  BY <1>1 DEF OrScan
<1>2. CASE OrCheck
  BY <1>2 DEF OrCheck
<1>3. CASE TicksDone \/ OrDispatchDone
  BY <1>3 DEF TicksDone, OrDispatchDone
<1>4. CASE OrTriage
  BY <1>4 DEF OrTriage, OrCandidates
<1>5. CASE OrVerifyDone
  BY <1>5 DEF OrVerifyDone, States
<1>6. ASSUME NEW b \in OrBeads,
             TickWaits(b) \/ TickRefused(b) \/ TickSpawns(b)
      PROVE  OrchestratorTypeOK'
  <2>1. CASE TickWaits(b)
    BY <2>1 DEF TickWaits, Ticks
  <2>2. CASE TickRefused(b)
    BY <2>2 DEF TickRefused, AsksForWorker, Ticks
  <2>3. CASE TickSpawns(b)
    BY <2>3 DEF TickSpawns, AsksForWorker, Ticks
  <2> QED
    BY <1>6, <2>1, <2>2, <2>3
<1>7. ASSUME NEW b \in OrBeads, TickSpawnFails(b) PROVE OrchestratorTypeOK'
  <2>1. OnWorkerCompleted(b, FALSE) /\ OrUse("spawn") /\ Ticks(b)
    BY <1>7 DEF TickSpawnFails, AsksForWorker
  <2>2. orSpent' \subseteq OrFaultKinds
    BY <2>1 DEF OrUse, OrFaultKinds
  <2> QED
    BY <1>7, <2>1, <2>2, CompletedType DEF TickSpawnFails, Ticks
<1>8. ASSUME NEW b \in OrBeads, TickTerminal(b) \/ TickFailed(b)
      PROVE  OrchestratorTypeOK'
  <2>1. PICK state, wanted : Ends(b, state, wanted)
    BY <1>8 DEF TickTerminal, TickFailed
  <2>2. Persisted'
    BY <2>1, PersistType DEF Persisted, Ends
  <2> QED
    BY <2>1, <2>2 DEF Ends, Ticks, Persisted
<1>9. ASSUME NEW b \in OrBeads, CreateOrchestrator(b) PROVE OrchestratorTypeOK'
  <2>1. Persisted'
    BY <1>9, PersistType DEF Persisted, CreateOrchestrator
  <2> QED
    BY <1>9, <2>1 DEF CreateOrchestrator, Persisted
<1>10. ASSUME NEW b \in OrBeads, OrVerify(b) PROVE OrchestratorTypeOK'
  <2>1. /\ orPhase' \in [OrBeads -> Nat] /\ orRetries' \in [OrBeads -> Nat]
        /\ orState' \in [OrBeads -> {"none", "idle", "awaiting", "synthesizing",
                                     "terminal", "failed"}]
    <3>1. CASE orState[b] = "none"
      BY <1>10, <3>1 DEF OrVerify
    <3>2. CASE orState[b] # "none"
      <4>1. PICK passed \in BOOLEAN : OnWorkerCompleted(b, passed)
        BY <1>10, <3>2 DEF OrVerify
      <4> QED
        BY <4>1, CompletedType
    <3> QED
      BY <3>1, <3>2
  <2> QED
    BY <1>10, <2>1 DEF OrVerify
<1>11. CASE OrRestart
  BY <1>11 DEF OrRestart, States, OrUse, OrFaultKinds
<1>12. ASSUME NEW b \in OrBeads, OrWorkerExits(b) PROVE OrchestratorTypeOK'
  BY <1>12 DEF OrWorkerExits
<1>13. ASSUME NEW b \in OrBeads, OrClose(b) \/ OrReopen(b) PROVE OrchestratorTypeOK'
  <2>1. CASE OrClose(b)
    BY <2>1 DEF OrClose, OrUse, OrFaultKinds, States
  <2>2. CASE OrReopen(b)
    <3>1. Reopened(orStatus[b]) \in States
      BY ReopenedState
    <3> QED
      BY <2>2, <3>1 DEF OrReopen, OrUse, OrFaultKinds
  <2> QED
    BY <1>13, <2>1, <2>2
<1> QED
  BY <1>0, <1>1, <1>2, <1>3, <1>4, <1>5, <1>6, <1>7, <1>8, <1>9, <1>10, <1>11,
     <1>12, <1>13 DEF OrchestratorNext, OrIterate

\* Every reachable state of the orchestrators is well-typed
\* (FeatureOrchestrator and the daemon's maps).
THEOREM OrchestratorTypeCorrect == OrchestratorSpec => []OrchestratorTypeOK
  BY OrTypeInit, OrTypeStep, PTL DEF OrchestratorSpec

(***************************************************************************)
(* As long as no write is lost and nobody reopens, an orchestrator whose   *)
(* bead has an agent, running or to be judged, waits for it, and a bead    *)
(* that is shown as open, was seen so before dispatching, or is queued has *)
(* no orchestrator and no agent.  The ledger stays within what the phases  *)
(* passed, and the retries of the present one, account for.                *)
(***************************************************************************)
OrBudget == IF MaxRetries = 0 THEN 1 ELSE MaxRetries

OrFree(b) == orState[b] = "none" /\ orActive[b] = "none" /\ orCompleted[b] = "none"

Waits(b) ==
    /\ orActive[b] # "none" \/ orCompleted[b] # "none" => orState[b] = "awaiting"
    /\ orActive[b] = "none" \/ orCompleted[b] = "none"

Shown(b) ==
    \/ orStatus[b] = "open"
    \/ orStep \in {"check", "tick", "triage"} /\ orScan[b] = "open"
    \/ b \in orQueue

Accounted(b) ==
    /\ orLedger[b] <= Len(Agenda(b)) * OrBudget
    /\ orState[b] \in {"idle", "synthesizing"} =>
          /\ orRetries[b] < OrBudget
          /\ orLedger[b] <= orPhase[b] * OrBudget + orRetries[b]
    /\ orState[b] = "awaiting" =>
          /\ orRetries[b] < OrBudget
          /\ orLedger[b] <= orPhase[b] * OrBudget + orRetries[b] + 1

Sound(b) == Waits(b) /\ (Shown(b) => OrFree(b)) /\ Accounted(b)
OrSound == orTwice = {} /\ \A b \in OrBeads : Sound(b)
OrInv == OrchestratorTypeOK /\ (~Misshown => OrSound)

\* A bead that a step leaves alone, and does not show as free, stays sound.
Same(b) ==
    /\ Shown(b)' => Shown(b)
    /\ orState'[b] = orState[b] /\ orPhase'[b] = orPhase[b]
    /\ orRetries'[b] = orRetries[b] /\ orLedger'[b] = orLedger[b]
    /\ orActive'[b] = orActive[b] /\ orCompleted'[b] = orCompleted[b]

LEMMA SameSound == ASSUME NEW b \in OrBeads, Sound(b), Same(b) PROVE Sound(b)'
<1>1. Waits(b)'
  BY DEF Sound, Same, Waits
<1>2. Shown(b)' => OrFree(b)'
  BY DEF Sound, Same, OrFree
<1>3. Accounted(b)'
  BY DEF Sound, Same, Accounted, OrBudget, Agenda
<1> QED
  BY <1>1, <1>2, <1>3 DEF Sound

\* A phase passed is worth the budget of one phase.
LEMMA PhaseBudget ==
    /\ OrBudget \in Nat \ {0}
    /\ \A p \in Nat : p * OrBudget \in Nat /\ (p + 1) * OrBudget = p * OrBudget + OrBudget
    /\ \A p, length \in Nat :
          p < length => p * OrBudget + OrBudget <= length * OrBudget
<1>1. OrBudget \in Nat \ {0}
  BY PipelineAssumption DEF OrBudget
<1>2. \A c, p \in Nat : p * c \in Nat /\ (p + 1) * c = p * c + c
  OBVIOUS
<1>3. \A c, p, length \in Nat : p + 1 <= length => (p + 1) * c <= length * c
  OBVIOUS
<1>4. ASSUME NEW p \in Nat, NEW length \in Nat, p < length
      PROVE  p * OrBudget + OrBudget <= length * OrBudget
  BY <1>1, <1>2, <1>3, <1>4
<1> QED
  BY <1>1, <1>2, <1>4

\* Sums, with the products of PhaseBudget as numbers of their own.
LEMMA Sums ==
    \A l, x, r, q \in Nat :
       /\ l <= x + r /\ r < q => l + 1 <= x + r + 1 /\ l + 1 <= x + q
       /\ l <= x + r + 1 /\ r < q => l <= x + q
       /\ l <= x + r => l <= x + r + 1
       /\ l <= x + r + 1 => l <= x + (r + 1)
  OBVIOUS

LEMMA OrSpentGrows ==
    ASSUME [OrchestratorNext]_orchestratorVars PROVE orSpent \subseteq orSpent'
  BY DEF OrchestratorNext, OrIterate, orchestratorVars, OrScan, OrCheck,
         TicksDone, OrTriage, OrDispatchDone, OrVerifyDone, TickWaits,
         TickRefused, TickSpawns, TickSpawnFails, TickTerminal, TickFailed, Ends,
         CreateOrchestrator, OrVerify, OrRestart, OrWorkerExits, OrClose,
         OrReopen, OrPersist, OrUse

\* persist_status, when nothing is lost.
LEMMA PersistShows ==
    ASSUME OrchestratorTypeOK, ~Misshown', NEW b \in OrBeads, NEW wanted,
           wanted # "open", OrPersist(b, wanted)
    PROVE  /\ orStatus' = [orStatus EXCEPT ![b] = UpdateStatus(@, wanted)]
           /\ \A c \in OrBeads : orStatus'[c] = "open" => orStatus[c] = "open"
<1>1. orStatus' = [orStatus EXCEPT ![b] = UpdateStatus(@, wanted)]
  BY DEF OrPersist, OrUse, Misshown
<1>2. orStatus[b] \in States /\ orStatus \in [OrBeads -> States]
  BY DEF OrchestratorTypeOK
<1> QED
  BY <1>1, <1>2, Updated

\* A step that takes one bead from a sound state to a sound state.
LEMMA OneBead ==
    ASSUME OrSound, NEW b \in OrBeads, orTwice' = {}, Sound(b)',
           \A c \in OrBeads \ {b} : Same(c)
    PROVE  OrSound'
  BY SameSound DEF OrSound

LEMMA IterateSound ==
    ASSUME OrInv, OrSound,
           OrScan \/ OrCheck \/ TicksDone \/ OrTriage \/ OrDispatchDone \/ OrVerifyDone
    PROVE  OrSound'
<1> USE DEF OrSound
<1>1. CASE OrScan \/ TicksDone \/ OrTriage \/ OrDispatchDone \/ OrVerifyDone
  <2>1. \A b \in OrBeads : Same(b)
    BY <1>1 DEF OrScan, TicksDone, OrTriage, OrDispatchDone, OrVerifyDone, Same,
                Shown, OrCandidates
  <2>2. orTwice' = orTwice
    BY <1>1 DEF OrScan, TicksDone, OrTriage, OrDispatchDone, OrVerifyDone
  <2> QED
    BY <2>1, <2>2, SameSound
<1>2. CASE OrCheck
  <2> SUFFICES ASSUME NEW b \in OrBeads PROVE Sound(b)'
    BY <1>2 DEF OrCheck
  <2>1. /\ orActive'[b] = IF orActive[b] \in {"ok", "failed"} THEN "none" ELSE orActive[b]
        /\ orCompleted'[b] =
              IF orActive[b] \in {"ok", "failed"} THEN orActive[b] ELSE "none"
        /\ UNCHANGED <<orState, orPhase, orRetries, orLedger>>
        /\ Shown(b)' => Shown(b)
    BY <1>2 DEF OrCheck, Shown
  <2>2. Waits(b)' /\ (OrFree(b) => OrFree(b)')
    BY <2>1 DEF Sound, Waits, OrFree
  <2>3. Accounted(b)'
    BY <2>1 DEF Sound, Accounted, OrBudget, Agenda
  <2> QED
    BY <2>1, <2>2, <2>3 DEF Sound
<1> QED
  BY <1>1, <1>2

LEMMA TickSound ==
    ASSUME OrInv, OrSound, ~Misshown', NEW b \in OrBeads,
           \/ TickWaits(b) \/ TickRefused(b) \/ TickSpawns(b)
           \/ TickTerminal(b) \/ TickFailed(b)
    PROVE  OrSound'
<1>0. Sound(b) /\ OrchestratorTypeOK
  BY DEF OrSound, OrInv
<1>1. CASE TickWaits(b)
  <2>1. \A c \in OrBeads : Same(c)
    BY <1>1 DEF TickWaits, Ticks, Same, Shown
  <2> QED
    BY <1>1, <2>1, SameSound DEF TickWaits, OrSound
<1>2. CASE TickRefused(b)
  <2>1. \A c \in OrBeads \ {b} : Same(c)
    BY <1>0, <1>2 DEF TickRefused, AsksForWorker, Ticks, Same, Shown, OrchestratorTypeOK
  <2>2. /\ orState[b] \in {"idle", "synthesizing"} /\ orState'[b] = "awaiting"
        /\ UNCHANGED <<orActive, orCompleted, orPhase, orRetries, orLedger, orTwice>>
        /\ Shown(b)' => Shown(b)
    BY <1>0, <1>2 DEF TickRefused, AsksForWorker, Ticks, Shown, OrchestratorTypeOK
  <2>3. Waits(b)' /\ ~Shown(b)'
    BY <1>0, <2>2 DEF Sound, Waits, OrFree
  <2>4. orLedger[b] \in Nat /\ orRetries[b] \in Nat /\ orPhase[b] \in Nat
    BY <1>0 DEF OrchestratorTypeOK
  <2>5. Accounted(b)'
    <3>1. /\ orLedger[b] <= Len(Agenda(b)) * OrBudget /\ orRetries[b] < OrBudget
          /\ orLedger[b] <= orPhase[b] * OrBudget + orRetries[b]
      BY <1>0, <2>2 DEF Sound, Accounted
    <3>2. orPhase[b] * OrBudget \in Nat
      BY <2>4, PhaseBudget
    <3>3. orLedger[b] <= orPhase[b] * OrBudget + orRetries[b] + 1
      BY <2>4, <3>1, <3>2, Sums
    <3> QED
      BY <2>2, <3>1, <3>3 DEF Accounted, Agenda, OrBudget
  <2> QED
    BY <2>1, <2>2, <2>3, <2>5, OneBead DEF Sound, OrSound
<1>3. CASE TickSpawns(b)
  <2>1. \A c \in OrBeads \ {b} : Same(c)
    BY <1>0, <1>3 DEF TickSpawns, AsksForWorker, Ticks, Same, Shown, OrchestratorTypeOK
  <2>2. /\ orState[b] \in {"idle", "synthesizing"} /\ orState'[b] = "awaiting"
        /\ orPhase[b] < Len(Agenda(b))
        /\ orLedger'[b] = orLedger[b] + 1
        /\ UNCHANGED <<orCompleted, orPhase, orRetries>>
        /\ Shown(b)' => Shown(b)
    BY <1>0, <1>3 DEF TickSpawns, AsksForWorker, Ticks, Shown, OrchestratorTypeOK
  <2>3. orActive[b] = "none" /\ orCompleted[b] = "none" /\ ~Shown(b)
    BY <1>0, <2>2 DEF Sound, Waits, OrFree
  <2>4. orTwice' = {}
    BY <1>3, <2>3 DEF TickSpawns, OrWorked, OrSound
  <2>5. Waits(b)'
    BY <2>2, <2>3 DEF Waits
  <2>6. orLedger[b] \in Nat /\ orRetries[b] \in Nat /\ orPhase[b] \in Nat
        /\ Len(Agenda(b)) \in Nat
    BY <1>0, AgendaLength DEF OrchestratorTypeOK
  <2>7. /\ orRetries[b] < OrBudget
        /\ orLedger[b] <= orPhase[b] * OrBudget + orRetries[b]
    BY <1>0, <2>2 DEF Sound, Accounted
  <2>8. orPhase[b] * OrBudget + OrBudget <= Len(Agenda(b)) * OrBudget
        /\ OrBudget \in Nat /\ orPhase[b] * OrBudget \in Nat
    BY <2>2, <2>6, PhaseBudget
  <2>9. orLedger[b] + 1 <= orPhase[b] * OrBudget + orRetries[b] + 1
        /\ orLedger[b] + 1 <= orPhase[b] * OrBudget + OrBudget
    BY <2>6, <2>7, <2>8, Sums
  <2>10. Len(Agenda(b)) * OrBudget \in Nat
    BY <2>6, PhaseBudget
  <2>11. orLedger[b] + 1 <= Len(Agenda(b)) * OrBudget
    BY <2>6, <2>8, <2>9, <2>10
  <2>12. Accounted(b)'
    BY <2>2, <2>7, <2>9, <2>11 DEF Accounted, Agenda, OrBudget
  <2> QED
    BY <2>1, <2>2, <2>3, <2>4, <2>5, <2>12, OneBead DEF Sound
<1>4. CASE TickTerminal(b) \/ TickFailed(b)
  <2>1. PICK state \in {"terminal", "failed"}, wanted \in {"pr_open", "dead_letter"} :
          Ends(b, state, wanted)
    BY <1>4 DEF TickTerminal, TickFailed
  <2>2. /\ orState[b] \in {"terminal", "failed", "idle"}
        /\ orState' = [orState EXCEPT ![b] = "none"]
        /\ orTicked' = orTicked \cup {b}
        /\ UNCHANGED <<orStep, orScan, orQueue, orPhase, orRetries, orActive,
                      orCompleted, orLedger, orTwice>>
    BY <2>1 DEF Ends, Ticks
  <2>3. \A c \in OrBeads : orStatus'[c] = "open" => orStatus[c] = "open"
    BY <1>0, <2>1, PersistShows DEF Ends
  <2>4. \A c \in OrBeads : Shown(c)' => Shown(c)
    BY <2>2, <2>3 DEF Shown
  <2>5. \A c \in OrBeads \ {b} : Same(c)
    BY <1>0, <2>2, <2>4 DEF Same, OrchestratorTypeOK
  <2>6. orState'[b] = "none"
    BY <1>0, <2>2 DEF OrchestratorTypeOK
  <2>7. Waits(b)' /\ OrFree(b)'
    BY <1>0, <2>2, <2>6 DEF Sound, Waits, OrFree
  <2>8. Accounted(b)'
    BY <1>0, <2>2, <2>6 DEF Sound, Accounted, Agenda, OrBudget
  <2> QED
    BY <2>2, <2>5, <2>7, <2>8, OneBead DEF Sound, OrSound
<1> QED
  BY <1>1, <1>2, <1>3, <1>4

\* A verdict, or a spawn that failed, leaves the ledger accounted for.
LEMMA CompletionSound ==
    ASSUME OrchestratorTypeOK, NEW b \in OrBeads, Sound(b), NEW passed \in BOOLEAN,
           OnWorkerCompleted(b, passed), orLedger'[b] = orLedger[b],
           orState[b] \in {"idle", "synthesizing", "awaiting"}
    PROVE  /\ Accounted(b)'
           /\ \A c \in OrBeads \ {b} : /\ orState'[c] = orState[c]
                                       /\ orPhase'[c] = orPhase[c]
                                       /\ orRetries'[c] = orRetries[c]
<1>1. PICK state, phase, retries :
        OrOutcome(b, state, phase, retries) /\ OrMoves(b, state, phase, retries)
  BY Completion
<1>2. /\ orState'[b] = state /\ orPhase'[b] = phase /\ orRetries'[b] = retries
      /\ \A c \in OrBeads \ {b} : /\ orState'[c] = orState[c]
                                  /\ orPhase'[c] = orPhase[c]
                                  /\ orRetries'[c] = orRetries[c]
  BY <1>1 DEF OrMoves, OrchestratorTypeOK
<1>3. /\ orLedger[b] \in Nat /\ orRetries[b] \in Nat /\ orPhase[b] \in Nat
      /\ OrBudget \in Nat \ {0} /\ orPhase[b] * OrBudget \in Nat
      /\ (orPhase[b] + 1) * OrBudget = orPhase[b] * OrBudget + OrBudget
  BY PhaseBudget DEF OrchestratorTypeOK
<1>4. /\ orLedger[b] <= Len(Agenda(b)) * OrBudget /\ orRetries[b] < OrBudget
      /\ orLedger[b] <= orPhase[b] * OrBudget + orRetries[b] + 1
  <2>1. CASE orState[b] = "awaiting"
    BY <2>1 DEF Sound, Accounted
  <2>2. CASE orState[b] \in {"idle", "synthesizing"}
    <3>1. /\ orLedger[b] <= Len(Agenda(b)) * OrBudget /\ orRetries[b] < OrBudget
          /\ orLedger[b] <= orPhase[b] * OrBudget + orRetries[b]
      BY <2>2 DEF Sound, Accounted
    <3> QED
      BY <1>3, <3>1, Sums
  <2> QED
    BY <2>1, <2>2
<1>5. /\ state # "awaiting"
      /\ state \in {"idle", "synthesizing"} =>
            retries < OrBudget /\ orLedger[b] <= phase * OrBudget + retries
  <2>1. CASE phase = orPhase[b] + 1 /\ retries = 0 /\ state \in {"idle", "synthesizing"}
    <3>1. orLedger[b] <= orPhase[b] * OrBudget + OrBudget
      BY <1>3, <1>4, Sums
    <3>2. orLedger[b] <= phase * OrBudget
      BY <1>3, <2>1, <3>1
    <3>3. phase * OrBudget \in Nat
      BY <1>3, <2>1
    <3> QED
      BY <1>3, <2>1, <3>2, <3>3
  <2>2. CASE phase = orPhase[b] /\ retries = orRetries[b] + 1 /\ retries < MaxRetries
             /\ state = "idle"
    <3>1. retries < OrBudget
      BY <1>3, <2>2, PipelineAssumption DEF OrBudget
    <3>2. orLedger[b] <= orPhase[b] * OrBudget + (orRetries[b] + 1)
      BY <1>3, <1>4, Sums
    <3> QED
      BY <2>2, <3>1, <3>2, Zenon
  <2>3. CASE state \in {"terminal", "failed"}
    BY <2>3
  <2> QED
    BY <1>1, <2>1, <2>2, <2>3 DEF OrOutcome
<1>6. Accounted(b)'
  BY <1>2, <1>4, <1>5 DEF Accounted, Agenda, OrBudget
<1> QED
  BY <1>2, <1>6

LEMMA JudgeSound ==
    ASSUME OrInv, OrSound, ~Misshown', NEW b \in OrBeads,
           TickSpawnFails(b) \/ OrVerify(b)
    PROVE  OrSound'
<1>0. Sound(b) /\ OrchestratorTypeOK
  BY DEF OrSound, OrInv
<1>1. CASE TickSpawnFails(b)
  <2>1. /\ OnWorkerCompleted(b, FALSE)
        /\ orState[b] \in {"idle", "synthesizing"}
        /\ UNCHANGED <<orStatus, orStep, orScan, orQueue, orActive, orCompleted,
                      orLedger, orTwice>>
    BY <1>1 DEF TickSpawnFails, AsksForWorker, Ticks
  <2>2. \A c \in OrBeads : Shown(c)' => Shown(c)
    BY <2>1 DEF Shown
  <2>3. /\ Accounted(b)'
        /\ \A c \in OrBeads \ {b} : Same(c)
    BY <1>0, <2>1, <2>2, CompletionSound DEF Same
  <2>4. Waits(b)' /\ ~Shown(b)
    BY <1>0, <2>1 DEF Sound, Waits, OrFree
  <2> QED
    BY <2>1, <2>2, <2>3, <2>4, OneBead DEF Sound, OrSound
<1>2. CASE OrVerify(b)
  <2>1. /\ orCompleted[b] # "none"
        /\ orCompleted' = [orCompleted EXCEPT ![b] = "none"]
        /\ UNCHANGED <<orStatus, orStep, orScan, orQueue, orActive, orLedger, orTwice>>
    BY <1>2 DEF OrVerify
  <2>2. orState[b] = "awaiting" /\ orActive[b] = "none" /\ ~Shown(b)
    BY <1>0, <2>1 DEF Sound, Waits, OrFree
  <2>3. PICK passed \in BOOLEAN : OnWorkerCompleted(b, passed)
    BY <1>2, <2>2 DEF OrVerify
  <2>4. \A c \in OrBeads : Shown(c)' => Shown(c)
    BY <2>1 DEF Shown
  <2>5. Accounted(b)' /\ \A c \in OrBeads \ {b} :
          /\ orState'[c] = orState[c] /\ orPhase'[c] = orPhase[c]
          /\ orRetries'[c] = orRetries[c]
    BY <1>0, <2>1, <2>2, <2>3, CompletionSound
  <2>6. \A c \in OrBeads \ {b} : Same(c)
    BY <1>0, <2>1, <2>4, <2>5 DEF Same, OrchestratorTypeOK
  <2>7. orCompleted'[b] = "none" /\ orActive'[b] = "none"
    BY <1>0, <2>1, <2>2 DEF OrchestratorTypeOK
  <2> QED
    BY <2>1, <2>2, <2>4, <2>5, <2>6, <2>7, OneBead DEF Sound, OrSound, Waits
<1> QED
  BY <1>1, <1>2

LEMMA CreateSound ==
    ASSUME OrInv, OrSound, ~Misshown', NEW b \in OrBeads, CreateOrchestrator(b)
    PROVE  OrSound'
<1>0. Sound(b) /\ OrchestratorTypeOK
  BY DEF OrSound, OrInv
<1>1. /\ b \in orQueue /\ orQueue' = orQueue \ {b} /\ orStep = "dispatch"
      /\ UNCHANGED <<orStep, orScan, orActive, orCompleted, orTwice>>
  BY DEF CreateOrchestrator
<1>2. OrFree(b)
  BY <1>0, <1>1 DEF Sound, Shown
<1>3. CASE orScan[b] = "done"
  <2>1. UNCHANGED <<orStatus, orState, orPhase, orRetries, orLedger>>
    BY <1>3 DEF CreateOrchestrator
  <2>2. \A c \in OrBeads : Same(c)
    BY <1>1, <2>1 DEF Same, Shown
  <2> QED
    BY <1>1, <2>2, SameSound DEF OrSound
<1>4. CASE orScan[b] # "done"
  <2>1. /\ orState' = [orState EXCEPT ![b] = "idle"]
        /\ orPhase' = [orPhase EXCEPT ![b] = 0]
        /\ orRetries' = [orRetries EXCEPT ![b] = 0]
        /\ orLedger' = [orLedger EXCEPT ![b] = 0]
        /\ OrPersist(b, "dispatched")
    BY <1>4 DEF CreateOrchestrator
  <2>2. /\ orStatus' = [orStatus EXCEPT ![b] = UpdateStatus(@, "dispatched")]
        /\ \A c \in OrBeads : orStatus'[c] = "open" => orStatus[c] = "open"
    BY <1>0, <2>1, PersistShows
  <2>3. \A c \in OrBeads \ {b} : Same(c)
    BY <1>0, <1>1, <2>1, <2>2 DEF Same, Shown, OrchestratorTypeOK
  <2>4. orStatus[b] \in States /\ orStatus'[b] = UpdateStatus(orStatus[b], "dispatched")
    BY <1>0, <2>2 DEF OrchestratorTypeOK
  <2>5. ~Shown(b)'
    BY <1>1, <2>4, NotOpenAfter DEF Shown
  <2>6. /\ orState'[b] = "idle" /\ orPhase'[b] = 0 /\ orRetries'[b] = 0
        /\ orLedger'[b] = 0
    BY <1>0, <2>1 DEF OrchestratorTypeOK
  <2>7. Waits(b)'
    BY <1>1, <1>2 DEF Waits, OrFree
  <2>8. OrBudget \in Nat \ {0} /\ Len(Agenda(b)) * OrBudget \in Nat
    BY PhaseBudget, AgendaLength
  <2>9. Accounted(b)'
    BY <2>6, <2>8 DEF Accounted, Agenda, OrBudget
  <2> QED
    BY <1>1, <2>3, <2>5, <2>7, <2>9, OneBead DEF Sound, OrSound
<1> QED
  BY <1>3, <1>4

LEMMA WorldSound ==
    ASSUME OrInv, OrSound, ~Misshown',
           OrRestart \/ \E b \in OrBeads : OrWorkerExits(b) \/ OrClose(b) \/ OrReopen(b)
    PROVE  OrSound'
<1>0. OrchestratorTypeOK
  BY DEF OrInv
<1>1. CASE OrRestart
  <2> SUFFICES ASSUME NEW b \in OrBeads PROVE Sound(b)'
    BY <1>1 DEF OrRestart, OrSound
  <2>1. /\ orState'[b] = "none" /\ orActive'[b] = "none" /\ orCompleted'[b] = "none"
        /\ orLedger'[b] = 0
    BY <1>1 DEF OrRestart
  <2>2. Len(Agenda(b)) * OrBudget \in Nat
    BY PhaseBudget, AgendaLength
  <2> QED
    BY <2>1, <2>2 DEF Sound, Waits, OrFree, Accounted, Agenda, OrBudget
<1>2. ASSUME NEW b \in OrBeads, OrWorkerExits(b) PROVE OrSound'
  <2>1. /\ orActive[b] = "running" /\ orActive'[b] \in {"ok", "failed"}
        /\ \A c \in OrBeads \ {b} : orActive'[c] = orActive[c]
        /\ UNCHANGED <<orStatus, orStep, orScan, orQueue, orState, orPhase, orRetries,
                      orCompleted, orLedger, orTwice>>
    BY <1>0, <1>2 DEF OrWorkerExits, OrchestratorTypeOK
  <2>2. Sound(b)'
    BY <2>1 DEF OrSound, Sound, Shown, OrFree, Waits, Accounted, Agenda, OrBudget
  <2>3. \A c \in OrBeads \ {b} : Same(c)
    BY <2>1 DEF Same, Shown
  <2> QED
    BY <2>1, <2>2, <2>3, OneBead DEF OrSound
<1>3. ASSUME NEW b \in OrBeads, OrClose(b) PROVE OrSound'
  <2>1. \A c \in OrBeads : Same(c)
    BY <1>0, <1>3 DEF OrClose, Same, Shown, OrchestratorTypeOK
  <2> QED
    BY <1>3, <2>1, SameSound DEF OrClose, OrSound
<1>4. ASSUME NEW b \in OrBeads, OrReopen(b) PROVE OrSound'
  BY <1>4 DEF OrReopen, OrUse, Misshown
<1> QED
  BY <1>1, <1>2, <1>3, <1>4

LEMMA OrInvInit == OrchestratorInit => OrInv
<1> SUFFICES ASSUME OrchestratorInit PROVE OrInv
  OBVIOUS
<1>1. ASSUME NEW b \in OrBeads PROVE Sound(b)
  <2>1. Len(Agenda(b)) * OrBudget \in Nat
    BY PhaseBudget, AgendaLength
  <2> QED
    BY <2>1 DEF OrchestratorInit, Sound, Shown, OrFree, Waits, Accounted
<1> QED
  BY <1>1, OrTypeInit DEF OrInv, OrSound, OrchestratorInit

LEMMA OrInvStep == OrInv /\ [OrchestratorNext]_orchestratorVars => OrInv'
<1> SUFFICES ASSUME OrInv, [OrchestratorNext]_orchestratorVars PROVE OrInv'
  OBVIOUS
<1>1. OrchestratorTypeOK'
  BY OrTypeStep DEF OrInv
<1>2. ASSUME ~Misshown' PROVE OrSound'
  <2>1. OrSound
    BY <1>2, OrSpentGrows DEF OrInv, Misshown
  <2>2. CASE UNCHANGED orchestratorVars
    BY <2>1, <2>2 DEF orchestratorVars, OrSound, Sound, Shown, OrFree, Waits,
                      Accounted, Agenda, OrBudget
  <2>3. CASE OrchestratorNext
    BY <1>2, <2>1, <2>3, IterateSound, TickSound, JudgeSound, CreateSound, WorldSound
       DEF OrchestratorNext, OrIterate
  <2> QED
    BY <2>2, <2>3
<1> QED
  BY <1>1, <1>2 DEF OrInv

LEMMA OrInvHolds == OrchestratorSpec => []OrInv
  BY OrInvInit, OrInvStep, PTL DEF OrchestratorSpec

\* An orchestrator never has a second agent started beside one that still runs,
\* unless a status write was lost or the bead was reopened (orchestrator_tick
\* inserts into active without looking).
THEOREM OneWorkerHolds == OrchestratorSpec => []OneWorkerPerBead
<1>1. OrInv => OneWorkerPerBead
  BY DEF OrInv, OrSound, OneWorkerPerBead
<1> QED
  BY <1>1, OrInvHolds, PTL

\* The agents of an orchestrator are bounded by the retries of every phase,
\* although its budget starts again with each phase (on_worker_completed).
THEOREM OrchestratorBudget == OrchestratorSpec => []OrchestratorBounded
<1>1. OrInv => OrchestratorBounded
  BY DEF OrInv, OrSound, OrchestratorBounded, Sound, Accounted, OrBudget
<1> QED
  BY <1>1, OrInvHolds, PTL
-----------------------------------------------------------------------------
(***************************************************************************)
(* Dispatches, sweeps and workspaces.  A request has a bead from its       *)
(* second step on, and a worker after it has spawned one.                  *)
(***************************************************************************)
RequestSteps ==
    /\ \A r \in Requests :
          /\ wkRequest[r].step # "new" => wkRequest[r].bead \in WkBeads
          /\ wkWorker[r] # "none" => wkRequest[r].step \in {"register", "mark", "done"}
    /\ wkSweep.step = "revert" => wkSweep.bead \in WkBeads

WkShape == WorkersTypeOK /\ RequestSteps

\* Workspace::create and the removal of trees keep the sets of beads in order.
DiskType ==
    /\ wkTree \subseteq WkBeads /\ wkDirty \subseteq wkTree
    /\ wkUnpushed \subseteq WkBeads /\ wkLost \subseteq WkBeads
    /\ wkExposed \subseteq WkBeads

LEMMA CreateDisk ==
    ASSUME DiskType, NEW b \in WkBeads, CreateWorkspace(b) PROVE DiskType'
  BY DEF DiskType, CreateWorkspace

LEMMA DiscardDisk ==
    ASSUME DiskType, NEW beads \in SUBSET WkBeads, Discard(beads),
           wkLost' = wkLost \/ wkLost' = wkLost \cup (beads \cap (wkDirty \cup wkUnpushed))
    PROVE  DiskType'
  BY DEF DiskType, Discard, Expose

\* What the registry and the requests may hold, and the sweep.
TableType ==
    /\ wkRegistry \in [WkBeads -> Requests \cup {"none"}]
    /\ wkWorker \in [Requests -> {"none", "running", "gone"}]
    /\ wkRequest \in [Requests ->
          [step : {"new", "spawn", "register", "mark", "done"},
           bead : WkBeads \cup {"none"}, seen : [WkBeads -> Requests \cup {"none"}]]]
    /\ RequestSteps

SweepType == wkSweep \in [step : {"ready", "judge", "revert"}, view : SUBSET WkBeads,
                          bead : WkBeads \cup {"none"}]
             /\ (wkSweep.step = "revert" => wkSweep.bead \in WkBeads)

LEMMA SweepStepType ==
    ASSUME WkShape, Sweeping PROVE SweepType' /\ wkStatus' \in [WkBeads -> States]
<1> USE DEF WkShape, WorkersTypeOK, RequestSteps
<1>1. ASSUME NEW beads \in SUBSET WkBeads
      PROVE  /\ SweepLeft(beads) \in [step : {"ready", "judge", "revert"},
                                      view : SUBSET WkBeads, bead : WkBeads \cup {"none"}]
             /\ SweepLeft(beads).step # "revert"
  BY DEF SweepLeft, NoSweep
<1>2. CASE SweepReads
  BY <1>1, <1>2 DEF SweepReads, SweepType
<1>3. CASE SweepJudges
  <2>1. PICK b \in wkSweep.view :
          wkSweep' = IF IsOrphan(b) THEN [wkSweep EXCEPT !.step = "revert", !.bead = b]
                                    ELSE SweepLeft(wkSweep.view \ {b})
    BY <1>3 DEF SweepJudges
  <2>2. CASE IsOrphan(b)
    BY <1>3, <2>1, <2>2 DEF SweepType, SweepJudges
  <2>3. CASE ~IsOrphan(b)
    BY <1>1, <1>3, <2>1, <2>3 DEF SweepType, SweepJudges
  <2> QED
    BY <2>2, <2>3
<1>4. CASE SweepReverts
  <2>1. wkSweep.bead \in WkBeads /\ wkSweep' = SweepLeft(wkSweep.view \ {wkSweep.bead})
    BY <1>4 DEF SweepReverts
  <2>2. wkStatus' \in [WkBeads -> States]
    BY <1>4, <2>1, Updated DEF SweepReverts, WkSet
  <2> QED
    BY <1>1, <2>1, <2>2 DEF SweepType
<1> QED
  BY <1>2, <1>3, <1>4 DEF Sweeping

\* A request that forgets the registry it has loaded keeps its bead.
LEMMA Forgets ==
    ASSUME WkShape, NEW r \in Requests, NEW step \in {"mark", "done"},
           wkRequest' = [wkRequest EXCEPT ![r].step = step, ![r].seen = NoSession]
    PROVE  /\ wkRequest' \in [Requests ->
                [step : {"new", "spawn", "register", "mark", "done"},
                 bead : WkBeads \cup {"none"}, seen : [WkBeads -> Requests \cup {"none"}]]]
           /\ wkRequest'[r].step = step
           /\ \A q \in Requests : wkRequest'[q].bead = wkRequest[q].bead
           /\ \A q \in Requests \ {r} : wkRequest'[q] = wkRequest[q]
<1> DEFINE Steps == {"new", "spawn", "register", "mark", "done"}
           Loads == [WkBeads -> Requests \cup {"none"}]
           Held == WkBeads \cup {"none"}
           Table == [Requests -> [step : Steps, bead : Held, seen : Loads]]
<1>1. NoSession \in Loads
  BY DEF NoSession
<1>2. wkRequest \in Table
  BY DEF WkShape, WorkersTypeOK
<1>3. step \in Steps
  OBVIOUS
<1> HIDE DEF Loads, Steps, Held
<1>4. /\ wkRequest' \in Table
      /\ wkRequest'[r].step = step /\ wkRequest'[r].bead = wkRequest[r].bead
      /\ \A q \in Requests \ {r} : wkRequest'[q] = wkRequest[q]
  BY <1>1, <1>2, <1>3
<1> QED
  BY <1>4 DEF Loads, Steps, Held

LEMMA ServingType ==
    ASSUME WkShape, NEW r \in Requests,
           Serving(r) \/ Dies(r) \/ \E b \in WkBeads : Prepares(r, b)
    PROVE  TableType'
<1> USE DEF WkShape, WorkersTypeOK, RequestSteps, TableType
<1>1. CASE Spawns(r)
  BY <1>1 DEF Spawns, AtStep, wkFile
<1>2. CASE SpawnFailsFor(r)
  <2>1. wkRequest[r].step = "spawn" /\ UNCHANGED <<wkWorker, wkSweep, wkRegistry>>
    BY <1>2 DEF SpawnFailsFor, wkFile
  <2> QED
    BY <1>2, <2>1, Forgets DEF SpawnFailsFor
<1>3. CASE Registers(r)
  <2>1. wkRequest[r].step = "register" /\ UNCHANGED <<wkWorker, wkSweep>>
    BY <1>3 DEF Registers
  <2>2. wkRegistry' \in [WkBeads -> Requests \cup {"none"}]
    BY <1>3, <2>1 DEF Registers, WithEntry
  <2>3. /\ wkRequest' \in [Requests ->
             [step : {"new", "spawn", "register", "mark", "done"},
              bead : WkBeads \cup {"none"}, seen : [WkBeads -> Requests \cup {"none"}]]]
        /\ wkRequest'[r].step \in {"mark", "done"}
        /\ \A q \in Requests : wkRequest'[q].bead = wkRequest[q].bead
        /\ \A q \in Requests \ {r} : wkRequest'[q] = wkRequest[q]
    BY <1>3, Forgets DEF Registers
  <2>4. RequestSteps'
    BY <2>1, <2>3
  <2> QED
    BY <2>1, <2>2, <2>3, <2>4
<1>4. CASE RegisterFails(r)
  <2>1. wkRequest[r].step = "register" /\ UNCHANGED <<wkSweep, wkRegistry>>
        /\ wkWorker' = [wkWorker EXCEPT ![r] = "gone"]
    BY <1>4 DEF RegisterFails, wkFile
  <2>2. /\ wkRequest' \in [Requests ->
             [step : {"new", "spawn", "register", "mark", "done"},
              bead : WkBeads \cup {"none"}, seen : [WkBeads -> Requests \cup {"none"}]]]
        /\ wkRequest'[r].step \in {"mark", "done"}
        /\ \A q \in Requests : wkRequest'[q].bead = wkRequest[q].bead
        /\ \A q \in Requests \ {r} : wkRequest'[q] = wkRequest[q]
    BY <1>4, Forgets DEF RegisterFails
  <2>3. wkWorker' \in [Requests -> {"none", "running", "gone"}]
    BY <2>1
  <2>4. RequestSteps'
    BY <2>1, <2>2
  <2> QED
    BY <2>1, <2>2, <2>3, <2>4
<1>5. CASE Marks(r)
  BY <1>5 DEF Marks, AtStep, wkFile
<1>6. CASE Dies(r)
  BY <1>6 DEF Dies, Working, wkFile
<1>7. ASSUME NEW b \in WkBeads, Prepares(r, b) PROVE TableType'
  BY <1>7 DEF Prepares, wkFile
<1> QED
  BY <1>1, <1>2, <1>3, <1>4, <1>5, <1>6, <1>7 DEF Serving

LEMMA WkTypeInit == WorkersInit => WkShape
<1> SUFFICES ASSUME WorkersInit PROVE WkShape
  OBVIOUS
<1>1. NoSession \in [WkBeads -> Requests \cup {"none"}]
  BY DEF NoSession
<1>2. wkRegistry \in [WkBeads -> Requests \cup {"none"}]
  BY <1>1 DEF WorkersInit
<1>3. wkRequest \in [Requests ->
        [step : {"new", "spawn", "register", "mark", "done"},
         bead : WkBeads \cup {"none"}, seen : [WkBeads -> Requests \cup {"none"}]]]
  BY <1>1 DEF WorkersInit
<1> QED
  BY <1>2, <1>3 DEF WorkersInit, WkShape, WorkersTypeOK, RequestSteps, NoSweep, States

LEMMA WkTypeStep ==
    ASSUME WkShape, [WorkersNext]_workersVars PROVE WkShape'
<1> DEFINE Rest == /\ wkDead \subseteq WkBeads
                   /\ wkRun \in [WkBeads -> {"none", "running", "exited"}]
                   /\ wkCrossed \in BOOLEAN /\ wkSpent \subseteq WkFaultKinds
           Goal == /\ wkStatus \in [WkBeads -> States]
                   /\ DiskType /\ TableType /\ SweepType /\ Rest
<1>0. Goal /\ (Goal' => WkShape')
  BY DEF WkShape, WorkersTypeOK, RequestSteps, DiskType, TableType, SweepType
<1> USE DEF wkDisk, wkDaemon, wkFile
<1>1. CASE UNCHANGED workersVars
  BY <1>1 DEF workersVars, WkShape, WorkersTypeOK, RequestSteps
<1>2. CASE Sweeping
  BY <1>0, <1>2, SweepStepType
     DEF Sweeping, DiskType, TableType, RequestSteps, SweepType
<1>3. ASSUME NEW r \in Requests, Serving(r) \/ Dies(r) PROVE WkShape'
  <2>1. TableType'
    BY <1>3, ServingType
  <2>2. wkSweep' = wkSweep /\ wkDead' = wkDead /\ wkRun' = wkRun
    BY <1>3 DEF Serving, Spawns, SpawnFailsFor, Registers, RegisterFails, Marks, Dies
  <2>3. wkSpent' \subseteq WkFaultKinds /\ wkCrossed' \in BOOLEAN
    BY <1>0, <1>3 DEF Serving, Spawns, SpawnFailsFor, Registers, RegisterFails, Marks,
                      Dies, WkUse
  <2>4. wkStatus' \in [WkBeads -> States]
    BY <1>0, <1>3, Updated DEF Serving, Spawns, SpawnFailsFor, Registers, RegisterFails,
                               Marks, Dies, WkSet
  <2>5. DiskType'
    BY <1>0, <1>3 DEF Serving, Spawns, SpawnFailsFor, Registers, RegisterFails, Marks,
                      Dies, DiskType
  <2> QED
    BY <1>0, <2>1, <2>2, <2>3, <2>4, <2>5 DEF SweepType
<1>4. ASSUME NEW r \in Requests, NEW b \in WkBeads, Prepares(r, b) PROVE WkShape'
  <2>1. TableType'
    BY <1>4, ServingType
  <2>2. DiskType'
    BY <1>0, <1>4, CreateDisk DEF Prepares
  <2> QED
    BY <1>0, <1>4, <2>1, <2>2 DEF Prepares, SweepType
<1>5. ASSUME NEW b \in WkBeads,
             \/ Exits(b) \/ Checkpoint(b) \/ Merge(b) \/ Cleanup(b) \/ RemoveTree(b)
             \/ Close(b) \/ Reopen(b) \/ OthersRegister(b)
      PROVE  WkShape'
  <2>1. wkWorker' = wkWorker /\ wkRequest' = wkRequest /\ wkSweep' = wkSweep
        /\ wkDead' = wkDead
    BY <1>5 DEF Exits, Checkpoint, Merge, Cleanup, RemoveTree, Close, Reopen,
                OthersRegister
  <2>2. wkRegistry' \in [WkBeads -> Requests \cup {"none"}]
    BY <1>0, <1>5 DEF Exits, Checkpoint, Merge, Cleanup, RemoveTree, Close, Reopen,
                      OthersRegister, TableType
  <2>3. Rest'
    BY <1>0, <1>5 DEF Exits, Checkpoint, Merge, Cleanup, RemoveTree, Close, Reopen,
                      OthersRegister, WkUse
  <2>4. wkStatus' \in [WkBeads -> States]
    <3>1. CASE Close(b) \/ Reopen(b)
      <4>1. Reopened(wkStatus[b]) \in States /\ "done" \in States
        BY <1>0, ReopenedState DEF States
      <4> QED
        BY <1>0, <3>1, <4>1 DEF Close, Reopen
    <3> QED
      BY <1>0, <1>5, <3>1 DEF Exits, Checkpoint, Merge, Cleanup, RemoveTree,
                              OthersRegister
  <2>5. DiskType'
    <3>1. CASE Cleanup(b)
      BY <1>0, <3>1, DiscardDisk DEF Cleanup, Destroy
    <3>2. CASE RemoveTree(b)
      BY <1>0, <3>2 DEF RemoveTree, Expose, DiskType
    <3> QED
      BY <1>0, <1>5, <3>1, <3>2 DEF Exits, Checkpoint, Merge, Close, Reopen,
                                    OthersRegister, DiskType
  <2> QED
    BY <1>0, <2>1, <2>2, <2>3, <2>4, <2>5 DEF TableType, RequestSteps, SweepType
<1>6. CASE Restart
  <2>1. wkStatus' \in [WkBeads -> States]
    BY <1>0, <1>6 DEF Restart, States
  <2>2. DiskType'
    BY <1>0, <1>6, DiscardDisk DEF Restart, Destroy
  <2> QED
    BY <1>0, <1>6, <2>1, <2>2 DEF Restart, TableType, RequestSteps, SweepType, WkUse
<1>7. CASE Daemon
  <2>1. wkWorker' = wkWorker /\ wkRequest' = wkRequest /\ wkSweep' = wkSweep
        /\ wkRegistry' = wkRegistry /\ wkCrossed' = wkCrossed
    BY <1>7 DEF Daemon, Looks, Buries, Dispatches, DispatchFails, Judges
  <2>2. CASE Looks
    BY <1>0, <2>1, <2>2 DEF Looks, DeadWorkers, TableType, RequestSteps, SweepType, DiskType
  <2>3. ASSUME NEW b \in WkBeads, Buries(b) PROVE WkShape'
    BY <1>0, <2>1, <2>3, Updated DEF Buries, WkSet, TableType, RequestSteps, SweepType,
                                     DiskType
  <2>4. ASSUME NEW b \in WkBeads, Dispatches(b) PROVE WkShape'
    <3>1. DiskType'
      BY <1>0, <2>4, CreateDisk DEF Dispatches
    <3> QED
      BY <1>0, <2>1, <2>4, <3>1, Updated
         DEF Dispatches, WkSet, TableType, RequestSteps, SweepType
  <2>5. ASSUME NEW b \in WkBeads, DispatchFails(b) PROVE WkShape'
    <3>1. DiskType'
      BY <1>0, <2>5, DiscardDisk DEF DispatchFails, Destroy
    <3> QED
      BY <1>0, <2>1, <2>5, <3>1
         DEF DispatchFails, TableType, RequestSteps, SweepType, WkUse
  <2>6. ASSUME NEW b \in WkBeads, Judges(b) PROVE WkShape'
    <3>1. DiskType'
      <4>1. CASE Discard({b}) /\ wkLost' = wkLost
        BY <1>0, <4>1, DiscardDisk
      <4>2. CASE Destroy({b})
        BY <1>0, <4>2, DiscardDisk DEF Destroy
      <4> QED
        BY <1>0, <2>6, <4>1, <4>2 DEF Judges, DiskType
    <3>2. wkStatus' \in [WkBeads -> States]
      <4>1. wkStatus[b] \in States
        BY <1>0
      <4>2. /\ \A n : UpdateStatus(wkStatus[b], n) \in States
            /\ UpdateStatus(UpdateStatus(wkStatus[b], "verifying"), "pr_open") \in States
        BY <4>1, Updated
      <4> QED
        BY <1>0, <2>6, <4>2 DEF Judges, WkSet
    <3> QED
      BY <1>0, <2>1, <2>6, <3>1, <3>2
         DEF Judges, TableType, RequestSteps, SweepType, WkUse
  <2> QED
    BY <1>7, <2>2, <2>3, <2>4, <2>5, <2>6 DEF Daemon
<1> QED
  BY <1>1, <1>2, <1>3, <1>4, <1>5, <1>6, <1>7 DEF WorkersNext

LEMMA WkShapeHolds == WorkersSpec => []WkShape
  BY WkTypeInit, WkTypeStep, PTL DEF WorkersSpec

\* Every reachable state of the workers, the registry, the sweeps and the trees
\* is well-typed; there is no uncommitted work without a tree.
THEOREM WorkersTypeCorrect == WorkersSpec => []WorkersTypeOK
<1>1. WkShape => WorkersTypeOK
  BY DEF WkShape
<1> QED
  BY <1>1, WkShapeHolds, PTL

\* Work that is only on a branch has its tree, as long as none of the five
\* events has happened that may take the one without the other, or both.
NoLoss == wkSpent \cap {"cleanup", "rm", "restart", "spawn", "push"} = {}
Kept == NoLoss => wkLost = {} /\ wkUnpushed \subseteq wkTree

LEMMA WkSpentGrows ==
    ASSUME [WorkersNext]_workersVars PROVE wkSpent \subseteq wkSpent'
<1> USE DEF wkDisk, wkDaemon, wkFile, WkUse
<1>1. CASE Sweeping \/ Daemon \/ Restart
  BY <1>1 DEF Sweeping, Daemon, Looks, Buries, Dispatches, DispatchFails, Judges, Restart
<1>2. ASSUME NEW r \in Requests,
             Serving(r) \/ Dies(r) \/ \E b \in WkBeads : Prepares(r, b)
      PROVE  wkSpent \subseteq wkSpent'
  BY <1>2 DEF Serving, Spawns, SpawnFailsFor, Registers, RegisterFails, Marks, Dies,
              Prepares
<1>3. ASSUME NEW b \in WkBeads,
             \/ Exits(b) \/ Checkpoint(b) \/ Merge(b) \/ Cleanup(b) \/ RemoveTree(b)
             \/ Close(b) \/ Reopen(b) \/ OthersRegister(b)
      PROVE  wkSpent \subseteq wkSpent'
  BY <1>3 DEF Exits, Checkpoint, Merge, Cleanup, RemoveTree, Close, Reopen,
              OthersRegister
<1> QED
  BY <1>1, <1>2, <1>3 DEF WorkersNext, workersVars

\* A workspace that is created takes over the tree that is there.
LEMMA CreateKeeps ==
    ASSUME wkLost = {}, wkUnpushed \subseteq wkTree, NEW b, CreateWorkspace(b)
    PROVE  wkLost' = {} /\ wkUnpushed' \subseteq wkTree'
  BY DEF CreateWorkspace

LEMMA KeptStep ==
    ASSUME WkShape, Kept, [WorkersNext]_workersVars PROVE Kept'
<1> SUFFICES ASSUME NoLoss' PROVE wkLost' = {} /\ wkUnpushed' \subseteq wkTree'
  BY DEF Kept
<1>0. wkLost = {} /\ wkUnpushed \subseteq wkTree
  BY WkSpentGrows DEF Kept, NoLoss
<1> USE DEF wkDisk, wkDaemon, wkFile
<1>1. CASE UNCHANGED workersVars
  BY <1>0, <1>1 DEF workersVars
<1>2. CASE Sweeping
  BY <1>0, <1>2 DEF Sweeping
<1>3. ASSUME NEW r \in Requests, Serving(r) \/ Dies(r)
      PROVE  wkLost' = {} /\ wkUnpushed' \subseteq wkTree'
  BY <1>0, <1>3 DEF Serving, Spawns, SpawnFailsFor, Registers, RegisterFails, Marks, Dies
<1>4. ASSUME NEW r \in Requests, NEW b \in WkBeads, Prepares(r, b)
      PROVE  wkLost' = {} /\ wkUnpushed' \subseteq wkTree'
  BY <1>0, <1>4, CreateKeeps DEF Prepares
<1>5. ASSUME NEW b \in WkBeads,
             \/ Exits(b) \/ Checkpoint(b) \/ Merge(b) \/ Cleanup(b) \/ RemoveTree(b)
             \/ Close(b) \/ Reopen(b) \/ OthersRegister(b)
      PROVE  wkLost' = {} /\ wkUnpushed' \subseteq wkTree'
  <2>1. ~Cleanup(b) /\ ~RemoveTree(b)
    BY DEF Cleanup, RemoveTree, WkUse, NoLoss
  <2> QED
    BY <1>0, <1>5, <2>1 DEF Exits, Checkpoint, Merge, Close, Reopen, OthersRegister
<1>6. CASE Restart
  BY <1>6 DEF Restart, WkUse, NoLoss
<1>7. CASE Daemon
  <2>1. CASE Looks
    BY <1>0, <2>1 DEF Looks
  <2>2. ASSUME NEW b \in WkBeads, Buries(b)
        PROVE  wkLost' = {} /\ wkUnpushed' \subseteq wkTree'
    BY <1>0, <2>2 DEF Buries
  <2>3. ASSUME NEW b \in WkBeads, Dispatches(b)
        PROVE  wkLost' = {} /\ wkUnpushed' \subseteq wkTree'
    BY <1>0, <2>3, CreateKeeps DEF Dispatches
  <2>4. ASSUME NEW b \in WkBeads, DispatchFails(b)
        PROVE  wkLost' = {} /\ wkUnpushed' \subseteq wkTree'
    BY <2>4 DEF DispatchFails, WkUse, NoLoss
  <2>5. ASSUME NEW b \in WkBeads, Judges(b)
        PROVE  wkLost' = {} /\ wkUnpushed' \subseteq wkTree'
    BY <1>0, <2>5 DEF Judges, Discard, WkUse, NoLoss
  <2> QED
    BY <1>7, <2>1, <2>2, <2>3, <2>4, <2>5 DEF Daemon
<1> QED
  BY <1>1, <1>2, <1>3, <1>4, <1>5, <1>6, <1>7 DEF WorkersNext

\* No work is destroyed by redispatching, sweeping, judging or merging, in any
\* order of the processes; only by the five events that WorkKept names
\* (Workspace::create reuses a tree, judging pushes before it removes one).
THEOREM WorkAlwaysKept == WorkersSpec => []WorkKept
<1>1. WorkersInit => Kept
  BY DEF WorkersInit, Kept
<1>2. Kept => WorkKept
  BY DEF Kept, NoLoss, WorkKept
<1> QED
  BY <1>1, <1>2, KeptStep, WkShapeHolds, PTL DEF WorkersSpec

\* A running worker whose request has registered it is found under its bead
\* (SessionRegistry::register), unless two loads and saves of the file crossed,
\* or the entry was dropped with a merge or a closing.
THEOREM WorkersAlwaysTracked == WorkersSpec => []WorkersTracked
<1>1. WorkersInit => WorkersTracked
  BY DEF WorkersInit, WorkersTracked, Working
<1>2. WorkersTracked /\ WkShape /\ [WorkersNext]_workersVars => WorkersTracked'
  <2> SUFFICES ASSUME WorkersTracked, WkShape, [WorkersNext]_workersVars,
                      ~wkCrossed', wkSpent' \cap {"merge", "close"} = {},
                      NEW q \in Requests, Working(q)',
                      wkRequest'[q].step \in {"mark", "done"}
               PROVE  wkRegistry'[wkRequest'[q].bead] # "none"
    BY DEF WorkersTracked
  <2> DEFINE Found == wkRegistry'[wkRequest'[q].bead] # "none"
  <2> USE DEF wkDisk, wkDaemon, wkFile
  <2>1. wkCrossed => wkCrossed'
    BY DEF WorkersNext, workersVars, Sweeping, Daemon, Looks, Buries, Dispatches,
           DispatchFails, Judges, Restart, Serving, Spawns, SpawnFailsFor, Registers,
           RegisterFails, Marks, Dies, Prepares, Exits, Checkpoint, Merge, Cleanup,
           RemoveTree, Close, Reopen, OthersRegister
  <2>2. Working(q) /\ wkRequest[q].step \in {"mark", "done"}
          => wkRegistry[wkRequest[q].bead] # "none"
    BY <2>1, WkSpentGrows DEF WorkersTracked
  <2>3. CASE UNCHANGED <<wkRegistry, wkRequest, wkWorker>>
    BY <2>2, <2>3 DEF Working
  <2>4. CASE Sweeping \/ Restart \/ Daemon \/ UNCHANGED workersVars
    BY <2>3, <2>4 DEF Sweeping, Restart, Daemon, Looks, Buries, Dispatches,
                      DispatchFails, Judges, workersVars
  <2>5. ASSUME NEW b \in WkBeads,
               \/ Exits(b) \/ Checkpoint(b) \/ Merge(b) \/ Cleanup(b) \/ RemoveTree(b)
               \/ Close(b) \/ Reopen(b) \/ OthersRegister(b)
        PROVE  Found
    BY <2>3, <2>5 DEF Exits, Checkpoint, Merge, Cleanup, RemoveTree, Close, Reopen,
                      OthersRegister, WkUse
  <2>6. ASSUME NEW r \in Requests, Dies(r) PROVE Found
    BY <2>2, <2>6 DEF Dies, Working, WkShape, WorkersTypeOK
  <2>7. ASSUME NEW r \in Requests, NEW b \in WkBeads, Prepares(r, b) PROVE Found
    BY <2>2, <2>7 DEF Prepares, Working, WkShape, WorkersTypeOK, RequestSteps
  <2>8. ASSUME NEW r \in Requests, Spawns(r) \/ Marks(r) PROVE Found
    <3>1. CASE Spawns(r)
      <4>1. wkRequest'[r].step = "register" /\ wkRegistry' = wkRegistry
        BY <3>1 DEF Spawns, AtStep, WkShape, WorkersTypeOK
      <4>2. q # r /\ wkRequest'[q] = wkRequest[q] /\ wkWorker'[q] = wkWorker[q]
        BY <3>1, <4>1 DEF Spawns, AtStep, WkShape, WorkersTypeOK
      <4> QED
        BY <2>2, <4>1, <4>2 DEF Working
    <3>2. CASE Marks(r)
      <4>1. wkRequest[r].step = "mark" /\ wkRegistry' = wkRegistry /\ wkWorker' = wkWorker
        BY <3>2 DEF Marks, AtStep
      <4>2. /\ wkRequest'[q].bead = wkRequest[q].bead
            /\ q # r => wkRequest'[q] = wkRequest[q]
        BY <3>2 DEF Marks, AtStep, WkShape, WorkersTypeOK
      <4> QED
        BY <2>2, <4>1, <4>2 DEF Working
    <3> QED
      BY <2>8, <3>1, <3>2
  <2>9. ASSUME NEW r \in Requests, SpawnFailsFor(r) \/ RegisterFails(r) PROVE Found
    <3>1. wkRegistry' = wkRegistry /\ wkRequest[r].step \in {"spawn", "register"}
          /\ wkRequest' = [wkRequest EXCEPT ![r].step = "done", ![r].seen = NoSession]
          /\ \/ wkWorker' = wkWorker /\ wkRequest[r].step = "spawn"
             \/ wkWorker' = [wkWorker EXCEPT ![r] = "gone"]
      BY <2>9 DEF SpawnFailsFor, RegisterFails
    <3>2. wkWorker'[r] # "running"
      BY <3>1 DEF WkShape, WorkersTypeOK, RequestSteps
    <3>3. q # r /\ wkWorker'[q] = wkWorker[q]
      BY <3>1, <3>2 DEF Working, WkShape, WorkersTypeOK
    <3>4. wkRequest'[q] = wkRequest[q]
      BY <3>1, <3>3, Forgets
    <3> QED
      BY <2>2, <3>1, <3>3, <3>4 DEF Working
  <2>10. ASSUME NEW r \in Requests, Registers(r) PROVE Found
    <3>1. /\ wkRequest[r].step = "register" /\ wkWorker' = wkWorker
          /\ wkRequest' = [wkRequest EXCEPT ![r].step = "mark", ![r].seen = NoSession]
          /\ wkRegistry' = [wkRegistry EXCEPT ![wkRequest[r].bead] = r]
      BY <2>10 DEF Registers, WithEntry
    <3>2. /\ wkRequest'[q].bead = wkRequest[q].bead
          /\ q # r => wkRequest'[q] = wkRequest[q]
      BY <3>1, Forgets
    <3>3. wkRequest[r].bead \in WkBeads /\ r # "none"
      BY <3>1, WorkersAssumption DEF WkShape, RequestSteps
    <3>4. CASE wkRequest[q].bead = wkRequest[r].bead
      BY <3>1, <3>2, <3>3, <3>4 DEF WkShape, WorkersTypeOK
    <3>5. CASE wkRequest[q].bead # wkRequest[r].bead
      <4>1. wkRegistry'[wkRequest[q].bead] = wkRegistry[wkRequest[q].bead]
        BY <3>1, <3>5 DEF WkShape, WorkersTypeOK
      <4> QED
        BY <2>2, <3>1, <3>2, <3>5, <4>1 DEF Working
    <3> QED
      BY <3>4, <3>5
  <2> QED
    BY <2>4, <2>5, <2>6, <2>7, <2>8, <2>9, <2>10 DEF WorkersNext, Serving
<1> QED
  BY <1>1, <1>2, WkShapeHolds, PTL DEF WorkersSpec

(***************************************************************************)
(* The orphan sweep.  A bead that is worked has its tree, and a bead that  *)
(* the sweep has found to be an orphan stays one until it is reverted,     *)
(* unless it has been exposed.                                             *)
(***************************************************************************)
Spares(b) ==
    /\ BeadWorked(b) /\ b \notin wkExposed => b \in wkTree
    /\ HeldOrphan(b) /\ b \notin wkExposed => ~BeadWorked(b) /\ b \notin wkTree

SparesAll == \A b \in WkBeads : Spares(b)

\* A step that starts no worker.
StartsNone ==
    /\ \A r \in Requests :
          Working(r)' => Working(r) /\ wkRequest'[r].bead = wkRequest[r].bead
    /\ \A b \in WkBeads : wkRun'[b] = "running" => wkRun[b] = "running"

LEMMA NoneStarted ==
    ASSUME StartsNone, NEW b \in WkBeads, BeadWorked(b)' PROVE BeadWorked(b)
<1>1. CASE wkRun'[b] = "running"
  BY <1>1 DEF StartsNone, BeadWorked
<1>2. CASE WorkersOf(b)' # {}
  <2>1. PICK r \in Requests : Working(r)' /\ wkRequest'[r].bead = b
    BY <1>2 DEF WorkersOf
  <2>2. Working(r) /\ wkRequest[r].bead = b
    BY <2>1 DEF StartsNone
  <2> QED
    BY <2>2 DEF BeadWorked, WorkersOf
<1> QED
  BY <1>1, <1>2 DEF BeadWorked

\* Nothing is started, no tree comes or goes, and no orphan is found.
LEMMA QuietSpares ==
    ASSUME SparesAll, StartsNone, wkTree' = wkTree, wkExposed \subseteq wkExposed',
           \A b \in WkBeads : HeldOrphan(b)' => HeldOrphan(b)
    PROVE  SparesAll'
  BY NoneStarted DEF SparesAll, Spares

\* Nothing is started, and of the beads whose tree goes the worked are exposed.
LEMMA RemovalSpares ==
    ASSUME SparesAll, StartsNone, NEW beads, wkTree' = wkTree \ beads, Expose(beads),
           wkSweep' = wkSweep
    PROVE  SparesAll'
<1> SUFFICES ASSUME NEW b \in WkBeads PROVE Spares(b)'
  BY DEF SparesAll
<1>1. /\ BeadWorked(b)' => BeadWorked(b)
      /\ HeldOrphan(b)' => HeldOrphan(b)
      /\ b \in wkExposed \/ (b \in beads /\ BeadWorked(b)) => b \in wkExposed'
  BY NoneStarted DEF Expose, HeldOrphan
<1> QED
  BY <1>1 DEF SparesAll, Spares

\* A workspace is made, and no bead but its own is worked that was not before:
\* an orphan that the sweep holds is exposed by it.
LEMMA CreateSpares ==
    ASSUME SparesAll, NEW b \in WkBeads, CreateWorkspace(b), wkSweep' = wkSweep,
           \A c \in WkBeads \ {b} : BeadWorked(c)' => BeadWorked(c)
    PROVE  SparesAll'
<1> SUFFICES ASSUME NEW c \in WkBeads PROVE Spares(c)'
  BY DEF SparesAll
<1>1. /\ wkTree' = wkTree \cup {b} /\ HeldOrphan(c)' = HeldOrphan(c)
      /\ c \in wkExposed' <=> c \in wkExposed \/ (c = b /\ HeldOrphan(b))
  BY DEF CreateWorkspace, HeldOrphan
<1>2. CASE c = b
  BY <1>1, <1>2 DEF Spares
<1>3. CASE c # b
  BY <1>1, <1>3 DEF SparesAll, Spares
<1> QED
  BY <1>2, <1>3

LEMMA SparesStep ==
    ASSUME WkShape, SparesAll, [WorkersNext]_workersVars PROVE SparesAll'
<1> USE DEF wkDisk, wkDaemon, wkFile
<1> DEFINE Idle == UNCHANGED <<wkWorker, wkRequest, wkRun>>
<1>0. /\ Idle => StartsNone
      /\ wkSweep' = wkSweep => \A b \in WkBeads : HeldOrphan(b)' => HeldOrphan(b)
  BY DEF StartsNone, HeldOrphan, Working
<1>1. CASE UNCHANGED workersVars
  BY <1>0, <1>1, QuietSpares DEF workersVars
<1>2. CASE Sweeping
  <2>1. Idle /\ wkTree' = wkTree /\ wkExposed' = wkExposed
    BY <1>2 DEF Sweeping
  <2>2. CASE SweepReads \/ SweepReverts
    <3>1. wkSweep'.step # "revert"
      BY <2>2 DEF SweepReads, SweepReverts, SweepLeft, NoSweep
    <3> QED
      BY <1>0, <2>1, <3>1, QuietSpares DEF HeldOrphan
  <2>3. CASE SweepJudges
    <3>1. PICK b \in wkSweep.view :
            wkSweep' = IF IsOrphan(b)
                         THEN [wkSweep EXCEPT !.step = "revert", !.bead = b]
                         ELSE SweepLeft(wkSweep.view \ {b})
      BY <2>3 DEF SweepJudges
    <3>2. CASE ~IsOrphan(b)
      <4>1. wkSweep'.step # "revert"
        BY <3>1, <3>2 DEF SweepLeft, NoSweep
      <4> QED
        BY <1>0, <2>1, <4>1, QuietSpares DEF HeldOrphan
    <3>3. CASE IsOrphan(b)
      <4>1. wkSweep'.bead = b /\ b \notin wkTree
        BY <3>1, <3>3 DEF IsOrphan, WkShape, WorkersTypeOK
      <4> SUFFICES ASSUME NEW c \in WkBeads PROVE Spares(c)'
        BY DEF SparesAll
      <4>2. BeadWorked(c)' => BeadWorked(c)
        BY <1>0, <2>1, NoneStarted
      <4>3. HeldOrphan(c)' => c \notin wkTree
        BY <4>1 DEF HeldOrphan
      <4> QED
        BY <2>1, <4>2, <4>3 DEF SparesAll, Spares
    <3> QED
      BY <3>2, <3>3
  <2> QED
    BY <1>2, <2>2, <2>3 DEF Sweeping
<1>3. ASSUME NEW r \in Requests, Spawns(r) PROVE SparesAll'
  <2>1. /\ wkTree' = wkTree /\ wkExposed' = wkExposed /\ wkSweep' = wkSweep
        /\ wkRun' = wkRun /\ wkRequest[r].bead \in wkTree
        /\ wkWorker' = [wkWorker EXCEPT ![r] = "running"]
    BY <1>3 DEF Spawns
  <2>2. \A q \in Requests : wkRequest'[q].bead = wkRequest[q].bead
    BY <1>3 DEF Spawns, AtStep, WkShape, WorkersTypeOK
  <2> SUFFICES ASSUME NEW c \in WkBeads PROVE Spares(c)'
    BY DEF SparesAll
  <2>3. ASSUME BeadWorked(c)' PROVE BeadWorked(c) \/ c = wkRequest[r].bead
    <3>1. CASE wkRun'[c] = "running"
      BY <2>1, <3>1 DEF BeadWorked
    <3>2. CASE WorkersOf(c)' # {}
      <4>1. PICK q \in Requests : Working(q)' /\ wkRequest'[q].bead = c
        BY <3>2 DEF WorkersOf
      <4>2. q = r \/ Working(q)
        BY <2>1, <4>1 DEF Working, WkShape, WorkersTypeOK
      <4> QED
        BY <2>2, <4>1, <4>2 DEF BeadWorked, WorkersOf
    <3> QED
      BY <2>3, <3>1, <3>2 DEF BeadWorked
  <2>4. HeldOrphan(c)' = HeldOrphan(c)
    BY <2>1 DEF HeldOrphan
  <2> QED
    BY <2>1, <2>3, <2>4 DEF SparesAll, Spares
<1>4. ASSUME NEW r \in Requests, SpawnFailsFor(r) \/ RegisterFails(r) \/ Registers(r)
      PROVE  SparesAll'
  <2>1. /\ wkTree' = wkTree /\ wkExposed' = wkExposed /\ wkSweep' = wkSweep
        /\ wkRun' = wkRun
        /\ wkWorker' = wkWorker \/ wkWorker' = [wkWorker EXCEPT ![r] = "gone"]
    BY <1>4 DEF SpawnFailsFor, RegisterFails, Registers
  <2>2. \A q \in Requests : wkRequest'[q].bead = wkRequest[q].bead
    BY <1>4, Forgets DEF SpawnFailsFor, RegisterFails, Registers
  <2>3. StartsNone
    BY <2>1, <2>2 DEF StartsNone, Working, WkShape, WorkersTypeOK
  <2> QED
    BY <1>0, <2>1, <2>3, QuietSpares
<1>5. ASSUME NEW r \in Requests, Marks(r) \/ Dies(r) PROVE SparesAll'
  <2>1. /\ wkTree' = wkTree /\ wkExposed' = wkExposed /\ wkSweep' = wkSweep
        /\ wkRun' = wkRun
        /\ wkWorker' = wkWorker \/ wkWorker' = [wkWorker EXCEPT ![r] = "gone"]
    BY <1>5 DEF Marks, Dies
  <2>2. \A q \in Requests : wkRequest'[q].bead = wkRequest[q].bead
    <3>1. CASE Marks(r)
      BY <3>1 DEF Marks, AtStep, WkShape, WorkersTypeOK
    <3>2. CASE Dies(r)
      BY <3>2 DEF Dies
    <3> QED
      BY <1>5, <3>1, <3>2
  <2>3. StartsNone
    BY <2>1, <2>2 DEF StartsNone, Working, WkShape, WorkersTypeOK
  <2> QED
    BY <1>0, <2>1, <2>3, QuietSpares
<1>6. ASSUME NEW r \in Requests, NEW b \in WkBeads, Prepares(r, b) PROVE SparesAll'
  <2>1. ~Working(r) /\ CreateWorkspace(b) /\ wkSweep' = wkSweep
        /\ wkWorker' = wkWorker /\ wkRun' = wkRun
    BY <1>6 DEF Prepares, Working, WkShape, WorkersTypeOK, RequestSteps
  <2>2. \A q \in Requests \ {r} : wkRequest'[q] = wkRequest[q]
    BY <1>6 DEF Prepares, WkShape, WorkersTypeOK
  <2>3. StartsNone
    BY <2>1, <2>2 DEF StartsNone, Working
  <2> QED
    BY <2>1, <2>3, NoneStarted, CreateSpares
<1>7. ASSUME NEW b \in WkBeads, Cleanup(b) \/ RemoveTree(b) PROVE SparesAll'
  <2>1. /\ wkTree' = wkTree \ {b} /\ Expose({b}) /\ wkSweep' = wkSweep /\ Idle
    BY <1>7 DEF Cleanup, RemoveTree, Destroy, Discard
  <2> QED
    BY <1>0, <2>1, RemovalSpares
<1>8. ASSUME NEW b \in WkBeads,
             \/ Checkpoint(b) \/ Merge(b) \/ Close(b) \/ Reopen(b) \/ OthersRegister(b)
      PROVE  SparesAll'
  <2>1. wkTree' = wkTree /\ wkExposed' = wkExposed /\ wkSweep' = wkSweep /\ Idle
    BY <1>8 DEF Checkpoint, Merge, Close, Reopen, OthersRegister
  <2> QED
    BY <1>0, <2>1, QuietSpares
<1>9. ASSUME NEW b \in WkBeads, Exits(b) PROVE SparesAll'
  <2>1. wkTree' = wkTree /\ wkExposed' = wkExposed /\ wkSweep' = wkSweep
    BY <1>9 DEF Exits
  <2>2. StartsNone
    BY <1>9 DEF Exits, StartsNone, Working, WkShape, WorkersTypeOK
  <2> QED
    BY <1>0, <2>1, <2>2, QuietSpares
<1>10. CASE Restart
  <2>1. /\ wkTree' = wkTree \ WkBeads /\ Expose(WkBeads) /\ wkSweep' = wkSweep
        /\ StartsNone
    BY <1>10 DEF Restart, Destroy, Discard, StartsNone, Working
  <2> QED
    BY <2>1, RemovalSpares
<1>11. CASE Daemon
  <2>1. wkSweep' = wkSweep /\ UNCHANGED <<wkWorker, wkRequest>>
    BY <1>11 DEF Daemon, Looks, Buries, Dispatches, DispatchFails, Judges
  <2>2. CASE Looks \/ \E b \in WkBeads : Buries(b)
    <3>1. wkTree' = wkTree /\ wkExposed' = wkExposed /\ Idle
      BY <2>1, <2>2 DEF Looks, Buries
    <3> QED
      BY <1>0, <2>1, <3>1, QuietSpares
  <2>3. ASSUME NEW b \in WkBeads, Dispatches(b) PROVE SparesAll'
    <3>1. CreateWorkspace(b) /\ \A c \in WkBeads \ {b} : wkRun'[c] = wkRun[c]
      BY <2>3 DEF Dispatches, WkShape, WorkersTypeOK
    <3>2. \A c \in WkBeads \ {b} : BeadWorked(c)' => BeadWorked(c)
      BY <2>1, <3>1 DEF BeadWorked, WorkersOf, Working
    <3> QED
      BY <2>1, <3>1, <3>2, CreateSpares
  <2>4. ASSUME NEW b \in WkBeads, DispatchFails(b) PROVE SparesAll'
    <3>1. wkTree' = wkTree \ {b} /\ Expose({b}) /\ Idle
      BY <2>1, <2>4 DEF DispatchFails, Destroy, Discard
    <3> QED
      BY <1>0, <2>1, <3>1, RemovalSpares
  <2>5. ASSUME NEW b \in WkBeads, Judges(b) PROVE SparesAll'
    <3>1. StartsNone
      BY <2>1, <2>5 DEF Judges, StartsNone, Working, WkShape, WorkersTypeOK
    <3>2. \/ wkTree' = wkTree /\ wkExposed' = wkExposed
          \/ wkTree' = wkTree \ {b} /\ Expose({b})
      BY <2>5 DEF Judges, Destroy, Discard
    <3> QED
      BY <1>0, <2>1, <3>1, <3>2, QuietSpares, RemovalSpares
  <2> QED
    BY <1>11, <2>2, <2>3, <2>4, <2>5 DEF Daemon
<1> QED
  BY <1>1, <1>2, <1>3, <1>4, <1>5, <1>6, <1>7, <1>8, <1>9, <1>10, <1>11
     DEF WorkersNext, Serving

\* sweep_orphan_dispatches never reopens a bead that somebody works on: the tree
\* protects the native sessions and the daemon's runs that it does not see.
THEOREM SweepAlwaysSpares == WorkersSpec => SweepSparesWorkers
<1>1. WorkersInit => SparesAll
  BY DEF WorkersInit, SparesAll, Spares, BeadWorked, WorkersOf, Working, HeldOrphan, NoSweep
<1>2. SparesAll /\ WkShape =>
        (wkSweep.step = "revert" /\ wkSweep.bead \notin wkExposed
           => ~BeadWorked(wkSweep.bead))
  BY DEF SparesAll, Spares, HeldOrphan, WkShape, RequestSteps
<1>3. SparesAll /\ WkShape =>
        [/\ wkSweep.step = "revert" /\ wkSweep'.step # "revert"
         /\ wkSweep.bead \notin wkExposed
         => ~BeadWorked(wkSweep.bead)]_workersVars
  BY <1>2
<1> QED
  BY <1>1, <1>3, SparesStep, WkShapeHolds, PTL DEF WorkersSpec, SweepSparesWorkers

-----------------------------------------------------------------------------
(***************************************************************************)
(* The instance that TLC checks.  It holds three components that share no  *)
(* state, one of which runs: each of them sees its own behaviour or rests, *)
(* so all that is proved of a component holds in it.                       *)
(***************************************************************************)
LEMMA CompanionsStep ==
    [CompanionsNext]_companionsVars =>
        /\ [TargetNext]_targetVars
        /\ [OrchestratorNext]_orchestratorVars
        /\ [WorkersNext]_workersVars
<1> SUFFICES ASSUME [CompanionsNext]_companionsVars
             PROVE  /\ [TargetNext]_targetVars
                    /\ [OrchestratorNext]_orchestratorVars
                    /\ [WorkersNext]_workersVars
  OBVIOUS
<1>1. CASE UNCHANGED companionsVars
  BY <1>1 DEF companionsVars
<1>2. CASE CompanionsNext
  BY <1>2 DEF CompanionsNext
<1> QED
  BY <1>1, <1>2

\* The composition implements each of its components (rsry dispatch, hierarchical
\* mode, the MCP server), which share no state.
THEOREM CompanionsImplement ==
    CompanionsSpec => TargetSpec /\ OrchestratorSpec /\ WorkersSpec
<1>1. CompanionsInit => TargetInit /\ OrchestratorInit /\ WorkersInit
  BY DEF CompanionsInit
<1> QED
  BY <1>1, CompanionsStep, PTL
     DEF CompanionsSpec, TargetSpec, OrchestratorSpec, WorkersSpec

\* Every reachable state of the composed instance is well-typed, for all
\* instances of its components.
THEOREM CompanionsTypeCorrect == CompanionsSpec => []CompanionsTypeOK
<1>1. TargetTypeOK /\ OrchestratorTypeOK /\ WorkersTypeOK => CompanionsTypeOK
  BY DEF CompanionsTypeOK
<1> QED
  BY <1>1, CompanionsImplement, TargetTypeCorrect, OrchestratorTypeCorrect,
     WorkersTypeCorrect, PTL

\* What is proved of the components holds in the composition; of the bound on the
\* agents of a targeted run, where no pipeline names an agent twice.
THEOREM CompanionsAreSafe ==
    CompanionsSpec =>
       /\ [](/\ ReportMatchesStore /\ OneWorkerPerBead /\ OrchestratorBounded
             /\ WorkKept /\ WorkersTracked)
       /\ SweepSparesWorkers
       /\ (DistinctAgents => []AttemptsBounded)
<1>1. OrchestratorSpec => []OneWorkerPerBead /\ []OrchestratorBounded
  BY OneWorkerHolds, OrchestratorBudget
<1>2. WorkersSpec => []WorkKept /\ []WorkersTracked /\ SweepSparesWorkers
  BY WorkAlwaysKept, WorkersAlwaysTracked, SweepAlwaysSpares
<1>3. DistinctAgents => (TargetSpec => []AttemptsBounded)
  BY AttemptsCorrect
<1> QED
  BY <1>1, <1>2, <1>3, ReportCorrect, CompanionsImplement, PTL
=============================================================================
