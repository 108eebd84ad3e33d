---------------------------- MODULE SafetyProofs ----------------------------
(***************************************************************************)
(* Theorems about Reconciler for all constants: dead letters stay out of   *)
(* the queue, dependencies come first, overlapping beads are kept apart,   *)
(* the daemon implements BeadLifecycle in every calm behaviour, retries    *)
(* stay bounded, the ledger balances and no claimed bead is stranded.      *)
(***************************************************************************)
EXTENDS ReconcilerProofs

\* No step gives a fault back, so what holds until the first fault of a kind is
\* preserved by the steps before which there was none either.
LEMMA SpentGrows ==
    ASSUME TypeOK, [Next]_vars, NEW f \in Faults
    PROVE  spent[f] \in Nat /\ spent'[f] \in Nat /\ spent'[f] >= spent[f]
<1> DEFINE Grows == spent[f] \in Nat /\ spent'[f] \in Nat /\ spent'[f] >= spent[f]
<1>0. spent[f] \in Nat
  BY DEF TypeOK
<1>1. ASSUME UNCHANGED spent PROVE Grows
  BY <1>0, <1>1
<1>2. ASSUME NEW faults, Use(faults) PROVE Grows
  BY <1>0, <1>2 DEF Use
<1>3. ASSUME NEW want, NEW faults, PersistAll(want, faults) PROVE Grows
  BY <1>2, <1>3 DEF PersistAll
<1>4. ASSUME NEW b, NEW action, NEW r, NEW faults, Perform(action, b, r, faults)
      PROVE  Grows
  BY <1>2, <1>3, <1>4 DEF Perform, Advance, Terminal, Retry, DeadLetter, Persist
<1> HIDE DEF Grows
<1>5. ASSUME Start \/ ScanVcs \/ PollPr PROVE Grows
  BY <1>3, <1>5 DEF Start, ScanVcs, PollPr
<1>6. ASSUME \/ Scan \/ AutoAssign \/ CheckCompleted \/ Triage \/ DispatchDone
             \/ VerifyDone
      PROVE  Grows
  BY <1>1, <1>6 DEF Scan, AutoAssign, CheckCompleted, Triage, DispatchDone,
                    VerifyDone, world
<1>7. ASSUME NEW b \in Beads, DropEntry(b) \/ AgentClosed(b) PROVE Grows
  BY <1>1, <1>7 DEF DropEntry, AgentClosed, world
<1>8. ASSUME NEW b \in Beads, SpawnFails(b) PROVE Grows
  BY <1>2, <1>8 DEF SpawnFails
<1>9. ASSUME NEW b \in Beads, Spawn(b) \/ BeginVerify(b) PROVE Grows
  BY <1>3, <1>9 DEF Spawn, BeginVerify, Persist
<1>10. ASSUME NEW b \in Beads, ExitFailed(b) \/ FinishVerify(b) PROVE Grows
  BY <1>4, <1>10 DEF ExitFailed, FinishVerify
<1>11. ASSUME Crash PROVE Grows
  BY <1>2, <1>11 DEF Crash
<1>12. ASSUME NEW b \in Beads, ReopenBead(b) \/ EditBead(b) \/ Commit(b) PROVE Grows
  BY <1>2, <1>12 DEF ReopenBead, EditBead, Commit
<1>13. ASSUME NEW b \in Beads,
              AgentExits(b) \/ OrphanExits(b) \/ CloseBead(b) \/ BackoffExpires(b)
       PROVE  Grows
  BY <1>1, <1>13 DEF AgentExits, OrphanExits, CloseBead, BackoffExpires, world
<1>14. ASSUME UNCHANGED vars PROVE Grows
  BY <1>1, <1>14 DEF vars, world
<1>15. Grows
  BY <1>5, <1>6, <1>7, <1>8, <1>9, <1>10, <1>11, <1>12, <1>13, <1>14
     DEF Next, Iterate, Environment
<1> QED
  BY <1>15 DEF Grows

\* What a best-effort write does to one bead, lost or not.
LEMMA PersistAllEither ==
    ASSUME TypeOK, NEW want, NEW faults, PersistAll(want, faults), NEW b \in Beads
    PROVE  \/ status'[b] = status[b]
           \/ b \in DOMAIN want /\ status'[b] = UpdateStatus(status[b], want[b])
  BY DEF PersistAll, TypeOK

LEMMA PersistEither ==
    ASSUME TypeOK, NEW c \in Beads, NEW state, NEW faults,
           Persist(c, state, faults), NEW b \in Beads
    PROVE  \/ status'[b] = status[b]
           \/ b = c /\ status'[b] = UpdateStatus(status[b], state)
<1>1. PersistAll([x \in {c} |-> state], faults)
  BY DEF Persist
<1> QED
  BY <1>1, PersistAllEither

LEMMA PerformEither ==
    ASSUME TypeOK, NEW c \in Beads, NEW action, NEW r, NEW faults,
           Perform(action, c, r, faults), NEW b \in Beads
    PROVE  \/ status'[b] = status[b]
           \/ /\ b = c
              /\ \E n \in {"open", "pr_open", "dead_letter"} :
                    status'[b] = UpdateStatus(status[b], n)
<1>1. ASSUME NEW n \in {"open", "pr_open", "dead_letter"}, NEW some,
             Persist(c, n, some)
      PROVE  \/ status'[b] = status[b]
             \/ b = c /\ status'[b] = UpdateStatus(status[b], n)
  BY <1>1, PersistEither
<1>2. CASE Advance(c, faults)
  BY <1>1, <1>2 DEF Advance
<1>3. CASE Terminal(c, faults)
  BY <1>1, <1>3 DEF Terminal
<1>4. CASE Retry(c, r, faults)
  BY <1>1, <1>4 DEF Retry
<1>5. CASE DeadLetter(c, r, faults)
  BY <1>1, <1>5 DEF DeadLetter
<1> QED
  BY <1>2, <1>3, <1>4, <1>5 DEF Perform

\* Every way in which the stored status of a bead ever changes.
Writes(b, states) ==
    \/ status'[b] = status[b]
    \/ \E n \in states : status'[b] = UpdateStatus(status[b], n)

Verdict(b) ==
    /\ pc \in {"verify", "verifying"}
    /\ b \in Completed \/ (pc = "verifying" /\ b = current)
    /\ Writes(b, {"open", "verifying", "pr_open", "dead_letter"})

LEMMA StatusStep ==
    ASSUME TypeOK, [Next]_vars, NEW b \in Beads
    PROVE  \/ Writes(b, {"dispatched", "done"})
           \/ status[b] = "dispatched" /\ Writes(b, {"open"})
           \/ status'[b] = "done"
           \/ ReopenBead(b)
           \/ Verdict(b)
<1> DEFINE Goal == \/ Writes(b, {"dispatched", "done"})
                   \/ status[b] = "dispatched" /\ Writes(b, {"open"})
                   \/ status'[b] = "done"
                   \/ ReopenBead(b)
                   \/ Verdict(b)
<1>1. ASSUME status'[b] = status[b] PROVE Goal
  BY <1>1 DEF Writes
<1>2. ASSUME NEW want, NEW faults, PersistAll(want, faults),
             \A c \in DOMAIN want : want[c] \in {"dispatched", "done"}
      PROVE  Goal
  BY <1>2, PersistAllEither DEF Writes
<1>3. CASE Start
  <2>1. PersistAll([c \in Stuck |-> "open"], {})
    BY <1>3 DEF Start
  <2>2. \/ status'[b] = status[b]
        \/ b \in Stuck /\ status'[b] = UpdateStatus(status[b], "open")
    BY <2>1, PersistAllEither
  <2> QED
    BY <2>2 DEF Writes, Stuck
<1>4. CASE ScanVcs
  BY <1>2, <1>4 DEF ScanVcs, VcsWant
<1>5. CASE PollPr
  BY <1>2, <1>5 DEF PollPr
<1>6. CASE Scan \/ AutoAssign \/ CheckCompleted \/ Triage \/ DispatchDone
           \/ VerifyDone \/ Crash \/ UNCHANGED vars
  BY <1>1, <1>6 DEF Scan, AutoAssign, CheckCompleted, Triage, DispatchDone,
                    VerifyDone, Crash, store, vars
<1>7. ASSUME NEW c \in Beads,
             \/ DropEntry(c) \/ SpawnFails(c) \/ AgentClosed(c)
             \/ AgentExits(c) \/ OrphanExits(c) \/ EditBead(c) \/ Commit(c)
             \/ BackoffExpires(c)
      PROVE  Goal
  BY <1>1, <1>7 DEF DropEntry, SpawnFails, AgentClosed, AgentExits, OrphanExits,
                    EditBead, Commit, BackoffExpires, store
<1>8. ASSUME NEW c \in Beads, Spawn(c) PROVE Goal
  BY <1>8, PersistEither DEF Spawn, Writes
<1>9. ASSUME NEW c \in Beads, BeginVerify(c) PROVE Goal
  <2>1. c \in Completed /\ pc = "verify" /\ Persist(c, "verifying", {})
    BY <1>9, RunIsNotNoRun DEF BeginVerify, Takes, Completed
  <2> QED
    BY <2>1, PersistEither DEF Verdict, Writes
<1>10. ASSUME NEW c \in Beads, ExitFailed(c) \/ FinishVerify(c) PROVE Goal
  <2>1. /\ pc \in {"verify", "verifying"}
        /\ c \in Completed \/ (pc = "verifying" /\ c = current)
    BY <1>10, RunIsNotNoRun DEF ExitFailed, FinishVerify, Takes, Completed
  <2>2. \E action, r, faults : Perform(action, c, r, faults)
    BY <1>10 DEF ExitFailed, FinishVerify
  <2>3. \/ status'[b] = status[b]
        \/ /\ b = c
           /\ \E n \in {"open", "pr_open", "dead_letter"} :
                 status'[b] = UpdateStatus(status[b], n)
    BY <2>2, PerformEither
  <2> QED
    BY <2>1, <2>3 DEF Verdict, Writes
<1>11. ASSUME NEW c \in Beads, CloseBead(c) PROVE Goal
  BY <1>1, <1>11 DEF CloseBead, TypeOK
<1>12. ASSUME NEW c \in Beads, ReopenBead(c) PROVE Goal
  BY <1>1, <1>12 DEF ReopenBead, TypeOK
<1> QED
  BY <1>3, <1>4, <1>5, <1>6, <1>7, <1>8, <1>9, <1>10, <1>11, <1>12
     DEF Next, Iterate, Environment

\* The store's table lets nothing but a verdict make a dead letter, and only a
\* reopening undo a closing.
LEMMA StatusFacts ==
    /\ \A s \in States, n \in {"open", "dispatched", "done"} :
          UpdateStatus(s, n) = "dead_letter" => s = "dead_letter"
    /\ \A n : UpdateStatus("done", n) = "done"
    /\ \A s : Reopened(s) # s => Reopened(s) = "open"
  BY DEF UpdateStatus, Reopened, CanTransition, ValidTransitions, States

LEMMA NoNewDeadLetter ==
    ASSUME TypeOK, [Next]_vars, pc \notin {"verify", "verifying"}, NEW b \in Beads,
           status'[b] = "dead_letter"
    PROVE  status[b] = "dead_letter"
<1>1. status[b] \in States
  BY DEF TypeOK
<1>2. ReopenBead(b) => status'[b] = "open"
  BY StatusFacts DEF ReopenBead, TypeOK
<1> QED
  BY <1>1, <1>2, StatusStep, StatusFacts DEF Writes, Verdict

LEMMA ClosedStays ==
    ASSUME TypeOK, [Next]_vars, NEW b \in Beads, status[b] = "done"
    PROVE  status'[b] = "done" \/ ReopenBead(b)
  BY StatusStep, StatusFacts DEF Writes, Verdict

\* The snapshot is taken by the scan and stays as it is until dispatch is over.
LEMMA SnapshotStep ==
    ASSUME [Next]_vars, pc' \in Scanned \cup {"dispatch"}
    PROVE  \/ Scan
           \/ /\ pc \in Scanned \cup {"dispatch"} /\ snap' = snap
              /\ pc' \in Scanned => pc \in Scanned
<1>1. CASE Iterate
  BY <1>1 DEF Iterate, Scanned, Start, ScanVcs, PollPr, AutoAssign, CheckCompleted,
              Triage, DispatchDone, VerifyDone, DropEntry, SpawnFails, Spawn,
              Dequeue, AgentClosed, ExitFailed, BeginVerify, FinishVerify, Finish,
              memory
<1>2. CASE Environment
  BY <1>2 DEF Environment, Scanned, Crash, AgentExits, OrphanExits, CloseBead,
              ReopenBead, EditBead, Commit, BackoffExpires, memory
<1>3. CASE UNCHANGED vars
  BY <1>3 DEF vars, memory
<1> QED
  BY <1>1, <1>2, <1>3 DEF Next

\* Only triage puts a bead into the queue.
LEMMA QueueStep ==
    ASSUME TypeOK, [Next]_vars, NEW b \in Beads, b \in Queued', b \notin Queued
    PROVE  pc = "triage" /\ b \in Candidates
<1>1. queue' # queue
  BY DEF Queued
<1>2. ASSUME NEW c \in Beads, Dequeue(c) PROVE FALSE
  BY <1>2 DEF Dequeue, Queued, NoEntry, TypeOK
<1>3. ~Crash
  BY DEF Crash, Queued, NoEntry
<1>4. Triage
  <2>1. CASE Iterate
    BY <1>1, <1>2, <2>1
       DEF Iterate, Start, Scan, ScanVcs, PollPr, AutoAssign, CheckCompleted,
           DispatchDone, VerifyDone, DropEntry, SpawnFails, Spawn, AgentClosed,
           ExitFailed, BeginVerify, FinishVerify, Finish, memory
  <2>2. CASE Environment
    BY <1>1, <1>3, <2>2
       DEF Environment, AgentExits, OrphanExits, CloseBead, ReopenBead, EditBead,
           Commit, BackoffExpires, memory
  <2>3. CASE UNCHANGED vars
    BY <1>1, <2>3 DEF vars, memory
  <2> QED
    BY <2>1, <2>2, <2>3 DEF Next
<1>5. PICK S \in Selections :
        queue' = [x \in Beads |-> IF x \in S
                                    THEN Entry(snap[x].content, backoff[x].retries)
                                    ELSE queue[x]]
  BY <1>4 DEF Triage
<1>6. b \in S
  BY <1>5 DEF Queued
<1>7. S \subseteq Candidates
  BY DEF Selections
<1> QED
  BY <1>4, <1>6, <1>7 DEF Triage
-----------------------------------------------------------------------------
(***************************************************************************)
(* Dead letters.  A bead that triage sees as open is not a dead letter in  *)
(* the store: the snapshot is younger than the last verdict.               *)
(***************************************************************************)

DeadSeen ==
    pc \in Scanned =>
        \A b \in Beads : status[b] = "dead_letter" => snap[b].status # "open"

LEMMA NextDeadSeen == TypeOK /\ DeadSeen /\ [Next]_vars => DeadSeen'
<1> SUFFICES ASSUME TypeOK, DeadSeen, [Next]_vars, pc' \in Scanned, NEW b \in Beads,
                    status'[b] = "dead_letter"
             PROVE  snap'[b].status # "open"
  BY DEF DeadSeen
<1>1. CASE Scan
  BY <1>1 DEF Scan, store
<1>2. CASE pc \in Scanned /\ snap' = snap
  <2>1. pc \notin {"verify", "verifying"}
    BY <1>2 DEF Scanned
  <2> QED
    BY <1>2, <2>1, NoNewDeadLetter DEF DeadSeen
<1> QED
  BY <1>1, <1>2, SnapshotStep

\* No step queues a bead that decide() has dead-lettered, lost status write or
\* not, before the store has shown it dead-lettered and it was reopened
\* (Reconciler.deadlettered, triage).
THEOREM DeadLettersStayOut == Spec => DeadLettersUntouched
<1>1. Init => DeadSeen
  BY DEF Init, DeadSeen, Scanned
<1>2. TypeOK /\ DeadSeen /\ [Next]_vars =>
        [\A b \in Beads :
            b \in deadlettered \/ status[b] = "dead_letter" =>
               b \in Queued \/ b \notin Queued']_vars
  <2> SUFFICES ASSUME TypeOK, DeadSeen, [Next]_vars, NEW b \in Beads,
                      b \in deadlettered \/ status[b] = "dead_letter",
                      b \notin Queued, b \in Queued'
               PROVE  FALSE
    OBVIOUS
  <2>1. pc = "triage" /\ b \in Candidates
    BY QueueStep
  <2>2. snap[b].status = "open" /\ b \notin StillDeadlettered
    BY <2>1 DEF Candidates
  <2>3. b \notin deadlettered
    BY <2>2 DEF StillDeadlettered
  <2> QED
    BY <2>1, <2>2, <2>3 DEF DeadSeen, Scanned
<1> QED
  BY TypeCorrect, <1>1, <1>2, NextDeadSeen, PTL DEF Spec, DeadLettersUntouched

\* Until the first status write is lost and the first worked bead reopened, a dead
\* letter is only closed or reopened by an operator: neither recovery nor a retry
\* nor a phase change moves it (BeadState::valid_transitions).
THEOREM DeadLettersWhileCalm ==
    Spec => [][Calm' => \A b \in Beads :
                 status[b] = "dead_letter" /\ status'[b] # "dead_letter" =>
                    status'[b] = "done" \/ spent'["reopen"] = spent["reopen"] + 1]_vars
<1>1. TypeOK /\ CalmInv /\ [Next]_vars =>
        [Calm' => \A b \in Beads :
            status[b] = "dead_letter" /\ status'[b] # "dead_letter" =>
               status'[b] = "done" \/ spent'["reopen"] = spent["reopen"] + 1]_vars
  <2> SUFFICES ASSUME TypeOK, CalmInv, Calm', [Next]_vars, NEW b \in Beads,
                      status[b] = "dead_letter", status'[b] # "dead_letter",
                      status'[b] # "done"
               PROVE  spent'["reopen"] = spent["reopen"] + 1
    OBVIOUS
  <2> Calm
    BY CalmBefore
  <2>1. status[b] \notin {"dispatched", "verifying", "done"} => b \notin Worked
    BY DEF CalmInv, RunInv, RunsApart, Worked
  <2>2. CASE ReopenBead(b)
    <3>1. Use({"reopen"})
      BY <2>1, <2>2 DEF ReopenBead, Worked
    <3>2. "reopen" \in Faults
      BY ReconcilerAssumption DEF FaultKinds
    <3> QED
      BY <3>1, <3>2 DEF Use
  <2>3. CASE Verdict(b)
    <3>1. b \in Completed
      BY <2>3 DEF Verdict, CalmInv, RunInv, PhasesApart
    <3> QED
      BY <2>1, <3>1 DEF Worked
  <2>4. CASE Writes(b, {"dispatched", "done"})
    BY <2>4 DEF Writes, UpdateStatus, CanTransition, ValidTransitions
  <2> QED
    BY <2>2, <2>3, <2>4, StatusStep
<1> QED
  BY TypeCorrect, InitRuns, NextRuns, <1>1, PTL DEF Spec

\* Hence in a behaviour in which that never happens dead letters stay dead.
THEOREM DeadLettersStayDead == Spec /\ []Calm => DeadLettersKept
  BY DeadLettersWhileCalm, PTL DEF DeadLettersKept

-----------------------------------------------------------------------------
(***************************************************************************)
(* Dependencies.  What a bead waits for is closed when triage queues it,   *)
(* and what is closed stays closed unless somebody reopens it: however     *)
(* long the entry waits, the agent starts after its dependencies.          *)
(***************************************************************************)

NothingReopened == spent["reopen"] = 0 /\ spent["meddle"] = 0

LEMMA NothingReopenedBefore == TypeOK /\ [Next]_vars /\ NothingReopened' => NothingReopened
<1> SUFFICES ASSUME TypeOK, [Next]_vars, NothingReopened' PROVE NothingReopened
  OBVIOUS
<1>1. {"reopen", "meddle"} \subseteq Faults
  BY ReconcilerAssumption DEF FaultKinds
<1> QED
  BY <1>1, SpentGrows DEF NothingReopened

LEMMA Unreopened ==
    ASSUME TypeOK, NothingReopened', NEW b \in Beads
    PROVE  ~ReopenBead(b)
<1>1. "reopen" \in Faults /\ "meddle" \in Faults
  BY ReconcilerAssumption DEF FaultKinds
<1>2. spent["reopen"] \in Nat /\ spent["meddle"] \in Nat
  BY <1>1 DEF TypeOK
<1> QED
  BY <1>1, <1>2 DEF NothingReopened, ReopenBead, Use

ClosedSeen ==
    pc \in Scanned =>
        \A d \in Beads : snap[d].status = "done" => status[d] = "done"

QueuedReady ==
    \A b \in Queued : \A d \in DependsOn[b] : status[d] = "done"

LEMMA NextDependencies ==
    TypeOK /\ ClosedSeen /\ QueuedReady /\ NothingReopened' /\ [Next]_vars
        => ClosedSeen' /\ QueuedReady'
<1> SUFFICES ASSUME TypeOK, ClosedSeen, QueuedReady, NothingReopened', [Next]_vars
             PROVE  ClosedSeen' /\ QueuedReady'
  OBVIOUS
<1>1. \A d \in Beads : status[d] = "done" => status'[d] = "done"
  BY ClosedStays, Unreopened
<1>2. ClosedSeen'
  <2> SUFFICES ASSUME pc' \in Scanned, NEW d \in Beads, snap'[d].status = "done"
               PROVE  status'[d] = "done"
    BY DEF ClosedSeen
  <2>1. CASE Scan
    BY <2>1 DEF Scan, store
  <2>2. CASE pc \in Scanned /\ snap' = snap
    BY <1>1, <2>2 DEF ClosedSeen
  <2> QED
    BY <2>1, <2>2, SnapshotStep
<1>3. QueuedReady'
  <2> SUFFICES ASSUME NEW b \in Queued', NEW d \in DependsOn[b]
               PROVE  status'[d] = "done"
    BY DEF QueuedReady
  <2>1. b \in Beads
    BY DEF Queued
  <2>2. d \in Beads
    BY <2>1, ReconcilerAssumption
  <2>3. CASE b \in Queued
    BY <1>1, <2>2, <2>3 DEF QueuedReady
  <2>4. CASE b \notin Queued
    <3>1. pc = "triage" /\ ~Waits(b)
      BY <2>1, <2>4, QueueStep DEF Candidates
    <3>2. snap[d].status = "done"
      BY <3>1, <2>2 DEF Waits, InScan
    <3> QED
      BY <1>1, <2>2, <3>1, <3>2 DEF ClosedSeen, Scanned
  <2> QED
    BY <2>3, <2>4
<1> QED
  BY <1>2, <1>3

\* Agents are started by Spawn and by nothing else.
LEMMA ActiveStep ==
    ASSUME TypeOK, [Next]_vars, NEW b \in Beads, b \in Active', b \notin Active
    PROVE  Spawn(b)
<1>1. active'[b] # active[b]
  BY DEF Active
<1>2. CASE Iterate
  <2>1. ASSUME NEW c \in Beads, Spawn(c) PROVE c = b
    BY <1>1, <2>1 DEF Spawn, TypeOK
  <2>2. ~CheckCompleted
    BY DEF CheckCompleted, Active
  <2> QED
    BY <1>1, <1>2, <2>1, <2>2
       DEF Iterate, Start, Scan, ScanVcs, PollPr, AutoAssign, Triage,
           DispatchDone, VerifyDone, DropEntry, SpawnFails, AgentClosed,
           ExitFailed, BeginVerify, FinishVerify, Finish, memory
<1>3. CASE Environment
  <2>1. ~Crash
    BY DEF Crash, Active
  <2>2. ASSUME NEW c \in Beads, AgentExits(c) PROVE FALSE
    <3>1. active[c] # NoRun
      BY <2>2, RunIsNotNoRun DEF AgentExits
    <3>2. c # b
      BY <3>1 DEF Active
    <3> QED
      BY <1>1, <2>2, <3>2 DEF AgentExits, TypeOK
  <2> QED
    BY <1>1, <1>3, <2>1, <2>2
       DEF Environment, OrphanExits, CloseBead, ReopenBead, EditBead, Commit,
           BackoffExpires, memory
<1>4. CASE UNCHANGED vars
  BY <1>1, <1>4 DEF vars, memory
<1> QED
  BY <1>2, <1>3, <1>4 DEF Next

UnreopenedReady == NothingReopened => ClosedSeen /\ QueuedReady

\* Until somebody first reopens a bead, no agent starts before every bead its own
\* depends on is closed, whatever crashes and lost writes there are
\* (list_beads' dependency count, triage, WorkQueue).
THEOREM DependenciesUntilReopened ==
    Spec => [][NothingReopened => \A b \in Beads :
                 Started(b) => \A d \in DependsOn[b] : status[d] = "done"]_vars
<1>1. Init => UnreopenedReady
  BY DEF Init, ClosedSeen, QueuedReady, Scanned, Queued, NoEntry, UnreopenedReady
<1>2. QueuedReady /\ TypeOK /\ [Next]_vars =>
        [\A b \in Beads :
            Started(b) => \A d \in DependsOn[b] : status[d] = "done"]_vars
  <2> SUFFICES ASSUME TypeOK, QueuedReady, [Next]_vars, NEW b \in Beads, Started(b),
                      NEW d \in DependsOn[b]
               PROVE  status[d] = "done"
    OBVIOUS
  <2>1. b \in Active' /\ b \notin Active
    BY DEF Started, Active
  <2>2. b \in Queued
    BY <2>1, ActiveStep DEF Spawn, Dequeue, Eligible
  <2> QED
    BY <2>2 DEF QueuedReady
<1>3. TypeOK /\ UnreopenedReady /\ [Next]_vars => UnreopenedReady'
  BY NothingReopenedBefore, NextDependencies DEF UnreopenedReady
<1>4. TypeOK /\ UnreopenedReady /\ [Next]_vars =>
        [NothingReopened => \A b \in Beads :
            Started(b) => \A d \in DependsOn[b] : status[d] = "done"]_vars
  BY <1>2 DEF UnreopenedReady
<1> QED
  BY TypeCorrect, <1>1, <1>3, <1>4, PTL DEF Spec

\* Hence, where nobody ever reopens a bead, dependencies always come first.
THEOREM DependenciesAlwaysFirst ==
    Spec /\ []NothingReopened => DependenciesFirst
  BY DependenciesUntilReopened, PTL DEF DependenciesFirst
-----------------------------------------------------------------------------
(***************************************************************************)
(* File scopes.  The dispatch loop looks for overlaps among the beads of   *)
(* the snapshot; an active bead the snapshot does not show has been        *)
(* closed, and stays so while its agent runs.                              *)
(***************************************************************************)

NoMeddling == spent["meddle"] = 0

LEMMA NoMeddlingBefore == TypeOK /\ [Next]_vars /\ NoMeddling' => NoMeddling
<1> SUFFICES ASSUME TypeOK, [Next]_vars, NoMeddling' PROVE NoMeddling
  OBVIOUS
<1>1. "meddle" \in Faults
  BY ReconcilerAssumption DEF FaultKinds
<1> QED
  BY <1>1, SpentGrows DEF NoMeddling

LEMMA Unmeddled ==
    ASSUME TypeOK, NoMeddling', NEW b \in Beads, ReopenBead(b)
    PROVE  b \notin Active
<1>1. "meddle" \in Faults
  BY ReconcilerAssumption DEF FaultKinds
<1>2. spent["meddle"] \in Nat
  BY <1>1 DEF TypeOK
<1> QED
  BY <1>1, <1>2 DEF NoMeddling, ReopenBead, Use

ActiveSeen ==
    pc \in Scanned \cup {"dispatch"} =>
        \A a \in Active : status[a] # "done" => InScan(a)

LEMMA NextOverlap ==
    TypeOK /\ ActiveSeen /\ OverlapExcluded /\ NoMeddling' /\ [Next]_vars
        => ActiveSeen' /\ OverlapExcluded'
<1> SUFFICES ASSUME TypeOK, ActiveSeen, OverlapExcluded, NoMeddling', [Next]_vars
             PROVE  ActiveSeen' /\ OverlapExcluded'
  OBVIOUS
<1>1. \A a \in Active : status[a] = "done" => status'[a] = "done"
  BY ClosedStays, Unmeddled DEF Active
<1>2. \A a \in Active' : a \in Beads /\ (a \in Active \/ Spawn(a))
  BY ActiveStep DEF Active
<1>3. ActiveSeen'
  <2> SUFFICES ASSUME pc' \in Scanned \cup {"dispatch"}, NEW a \in Active',
                      status'[a] # "done"
               PROVE  snap'[a].status # "done"
    BY DEF ActiveSeen, InScan
  <2>1. CASE Scan
    BY <1>2, <2>1 DEF Scan, store
  <2>2. CASE pc \in Scanned \cup {"dispatch"} /\ snap' = snap
    <3>1. CASE a \in Active
      BY <1>1, <2>2, <3>1 DEF ActiveSeen, InScan
    <3>2. CASE Spawn(a)
      BY <2>2, <3>2 DEF Spawn, Dropped, InScan
    <3> QED
      BY <1>2, <3>1, <3>2
  <2> QED
    BY <2>1, <2>2, SnapshotStep
<1>4. OverlapExcluded'
  <2>1. ASSUME NEW a \in Active, NEW b \in Active', b \notin Active,
               {a, b} \in Overlaps
        PROVE  status'[a] = "done"
    <3>1. Spawn(b) /\ pc = "dispatch"
      BY <1>2, <2>1 DEF Spawn, Dequeue
    <3>2. ~InScan(a)
      BY <2>1, <3>1 DEF Spawn, Dropped
    <3> QED
      BY <1>1, <3>1, <3>2 DEF ActiveSeen
  <2>2. ASSUME NEW a \in Active', NEW b \in Active', a # b, {a, b} \in Overlaps
        PROVE  "done" \in {status'[a], status'[b]}
    <3>1. CASE a \in Active /\ b \in Active
      BY <1>1, <2>2, <3>1 DEF OverlapExcluded
    <3>2. CASE a \in Active /\ b \notin Active
      BY <2>1, <2>2, <3>2
    <3>3. CASE a \notin Active /\ b \in Active
      <4>1. {b, a} = {a, b}
        OBVIOUS
      <4> QED
        BY <2>1, <2>2, <3>3, <4>1
    <3>4. CASE a \notin Active /\ b \notin Active
      <4>1. Spawn(a) /\ Spawn(b)
        BY <1>2, <3>4
      <4>2. active'[b] = active[b]
        BY <2>2, <4>1, <1>2 DEF Spawn, TypeOK
      <4> QED
        BY <1>2, <3>4, <4>2 DEF Active
    <3> QED
      BY <3>1, <3>2, <3>3, <3>4
  <2> QED
    BY <2>2 DEF OverlapExcluded
<1> QED
  BY <1>3, <1>4

\* Until somebody first reopens a bead under its agent, two agents never work on
\* overlapping files unless one of their beads has been closed meanwhile
\* (has_file_overlap in triage and in the dispatch loop).
THEOREM OverlapAlwaysExcluded == Spec => [](NoMeddling => OverlapExcluded)
<1> DEFINE Apart == NoMeddling => ActiveSeen /\ OverlapExcluded
<1>1. Init => Apart
  BY DEF Init, ActiveSeen, OverlapExcluded, Active
<1>2. TypeOK /\ Apart /\ [Next]_vars => Apart'
  BY NoMeddlingBefore, NextOverlap
<1> QED
  BY TypeCorrect, <1>1, <1>2, PTL DEF Spec
-----------------------------------------------------------------------------
(***************************************************************************)
(* The daemon implements BeadLifecycle in every behaviour in which no      *)
(* status write is lost and no worked bead is reopened.  The refinement    *)
(* mapping is the state function `work`; every action is shown to be, for  *)
(* each bead on its own, a step of BeadLifecycle.                          *)
(***************************************************************************)
\* The states a bead that was created "open" ever takes in the store.
Reached == {"open", "dispatched", "verifying", "pr_open", "done", "dead_letter"}
StatusReached == \A b \in Beads : status[b] \in Reached

LEMMA ReachedKept ==
    \A s, next \in Reached : UpdateStatus(s, next) \in Reached
  BY DEF UpdateStatus

LEMMA PersistAllReached ==
    ASSUME StatusReached, NEW want, NEW faults, PersistAll(want, faults),
           \A b \in DOMAIN want : want[b] \in Reached
    PROVE  StatusReached'
<1>1. PICK lost \in {{}} \cup {{b} : b \in DOMAIN want} :
        status' = [b \in Beads |-> IF b \in DOMAIN want \ lost
                                     THEN UpdateStatus(status[b], want[b])
                                     ELSE status[b]]
  BY DEF PersistAll
<1> QED
  BY <1>1, ReachedKept DEF StatusReached

LEMMA PersistReached ==
    ASSUME StatusReached, NEW b \in Beads, NEW state \in Reached, NEW faults,
           Persist(b, state, faults)
    PROVE  StatusReached'
  BY PersistAllReached DEF Persist

LEMMA PerformReached ==
    ASSUME StatusReached, NEW b \in Beads, NEW action, NEW r, NEW faults,
           Perform(action, b, r, faults)
    PROVE  StatusReached'
<1>1. ASSUME NEW state \in {"open", "pr_open", "dead_letter"}, NEW some,
             Persist(b, state, some)
      PROVE  StatusReached'
  BY <1>1, PersistReached DEF Reached
<1>2. CASE Advance(b, faults)
  BY <1>1, <1>2 DEF Advance, StatusReached
<1>3. CASE Terminal(b, faults) \/ Retry(b, r, faults) \/ DeadLetter(b, r, faults)
  BY <1>1, <1>3 DEF Terminal, Retry, DeadLetter
<1> QED
  BY <1>2, <1>3 DEF Perform

LEMMA NextReached == TypeOK /\ StatusReached /\ [Next]_vars => StatusReached'
<1> SUFFICES ASSUME TypeOK, StatusReached, [Next]_vars PROVE StatusReached'
  OBVIOUS
<1>1. ASSUME UNCHANGED status PROVE StatusReached'
  BY <1>1 DEF StatusReached
<1>2. ASSUME NEW want, NEW faults, PersistAll(want, faults),
             \A b \in DOMAIN want : want[b] \in {"open", "dispatched", "done"}
      PROVE  StatusReached'
  BY <1>2, PersistAllReached DEF Reached
<1>3. CASE Start
  BY <1>2, <1>3 DEF Start
<1>4. CASE ScanVcs
  BY <1>2, <1>4 DEF ScanVcs, VcsWant
<1>5. CASE PollPr
  BY <1>2, <1>5 DEF PollPr
<1>6. CASE Scan \/ AutoAssign \/ CheckCompleted \/ Triage \/ DispatchDone
           \/ VerifyDone \/ Crash
  BY <1>1, <1>6 DEF Scan, AutoAssign, CheckCompleted, Triage, DispatchDone,
                    VerifyDone, Crash, store
<1>7. ASSUME NEW b \in Beads,
             \/ DropEntry(b) \/ SpawnFails(b) \/ AgentClosed(b)
             \/ AgentExits(b) \/ OrphanExits(b) \/ EditBead(b) \/ Commit(b)
             \/ BackoffExpires(b)
      PROVE  StatusReached'
  BY <1>1, <1>7 DEF DropEntry, SpawnFails, AgentClosed, AgentExits, OrphanExits,
                    EditBead, Commit, BackoffExpires, store
<1>8. ASSUME NEW b \in Beads, Spawn(b) \/ BeginVerify(b) PROVE StatusReached'
  BY <1>8, PersistReached DEF Spawn, BeginVerify, Reached
<1>9. ASSUME NEW b \in Beads, ExitFailed(b) \/ FinishVerify(b)
      PROVE  StatusReached'
  <2>1. \E action, r, faults : Perform(action, b, r, faults)
    BY <1>9 DEF ExitFailed, FinishVerify
  <2> QED
    BY <2>1, PerformReached
<1>10. ASSUME NEW b \in Beads, CloseBead(b) \/ ReopenBead(b) PROVE StatusReached'
  <2>1. status'[b] \in {"done", "open"}
    BY <1>10 DEF CloseBead, ReopenBead, Reopened, UpdateStatus, TypeOK
  <2>2. \A x \in Beads \ {b} : status'[x] = status[x]
    BY <1>10 DEF CloseBead, ReopenBead, TypeOK
  <2> QED
    BY <2>1, <2>2 DEF StatusReached, Reached
<1>11. CASE UNCHANGED vars
  BY <1>1, <1>11 DEF vars, store
<1> QED
  BY <1>3, <1>4, <1>5, <1>6, <1>7, <1>8, <1>9, <1>10, <1>11
     DEF Next, Iterate, Environment
-----------------------------------------------------------------------------
(* The steps of one bead *)

LEMMA WorkOf ==
    /\ \A b \in Beads : work[b] = IF b \in Completed THEN "ended"
                                  ELSE IF b \in Active THEN "running" ELSE "idle"
    /\ work = [b \in Beads |-> work[b]]
    /\ work \in [Beads -> Lifecycle!WorkStates]
  BY DEF work, Lifecycle!WorkStates

LEMMA WorkKept == UNCHANGED <<Active, Completed>> => work' = work
  BY DEF work

\* The store's table is the table of the abstract specification.
LEMMA SameTable ==
    /\ \A s, next : Lifecycle!UpdateStatus(s, next) = UpdateStatus(s, next)
    /\ \A s : Lifecycle!Reopened(s) = Reopened(s)
    /\ Lifecycle!ValidTransitions = ValidTransitions
    /\ Lifecycle!States = States
  BY DEF Lifecycle!UpdateStatus, Lifecycle!Reopened, Lifecycle!ValidTransitions,
         Lifecycle!States, Lifecycle!CanTransition, Lifecycle!IsTerminal,
         UpdateStatus, Reopened, ValidTransitions, States, CanTransition, IsTerminal

\* A bead nobody works that the daemon moves is moved along BeadLifecycle!Idle.
LEMMA IdleMove ==
    ASSUME NEW b \in Beads, work[b] = "idle", work'[b] = "idle",
           status[b] \in Reached,
           \/ status'[b] = UpdateStatus(status[b], "done")
           \/ status'[b] = UpdateStatus(status[b], "dispatched")
           \/ status[b] = "dispatched" /\ status'[b] = UpdateStatus(status[b], "open")
    PROVE  Lifecycle!Step(b)
<1>1. \/ status'[b] = status[b]
      \/ <<status[b], status'[b]>> \in
           {<<"dispatched", "open">>, <<"open", "dispatched">>,
            <<"pr_open", "done">>, <<"dead_letter", "done">>,
            <<"verifying", "done">>}
  BY DEF UpdateStatus, CanTransition, ValidTransitions, Reached
<1> QED
  BY <1>1 DEF Lifecycle!Step, Lifecycle!Stays, Lifecycle!Idle

LEMMA Untouched ==
    ASSUME NEW b \in Beads, work'[b] = work[b], status'[b] = status[b]
    PROVE  Lifecycle!Step(b)
  BY DEF Lifecycle!Step, Lifecycle!Stays

\* What a verdict asks of the store is a move of BeadLifecycle!Settle.
LEMMA SettledMove ==
    ASSUME NEW b \in Beads, work[b] = "ended", work'[b] = "idle",
           status[b] \in {"dispatched", "verifying", "done"},
           \/ status'[b] = status[b]
           \/ \E state \in {"open", "pr_open", "dead_letter"} :
                 status'[b] = UpdateStatus(status[b], state)
    PROVE  Lifecycle!Step(b)
<1>1. \/ status'[b] = status[b]
      \/ /\ status[b] \in {"dispatched", "verifying"}
         /\ status'[b] \in ValidTransitions[status[b]]
                           \cap {"open", "pr_open", "dead_letter"}
  BY DEF UpdateStatus, CanTransition, ValidTransitions
<1>2. status[b] \in {"dispatched", "verifying"} =>
        Lifecycle!ValidTransitions[status[b]] = ValidTransitions[status[b]]
  BY SameTable
<1> QED
  BY <1>1, <1>2 DEF Lifecycle!Step, Lifecycle!Settle, Lifecycle!Stays

\* A judged run writes nothing or one of the three verdicts.
LEMMA PerformMove ==
    ASSUME TypeOK, NEW b \in Beads, NEW action, NEW r, NEW faults,
           Perform(action, b, r, faults), Calm'
    PROVE  \/ status'[b] = status[b]
           \/ \E state \in {"open", "pr_open", "dead_letter"} :
                 status'[b] = UpdateStatus(status[b], state)
<1>1. ASSUME NEW state \in {"open", "pr_open", "dead_letter"}, NEW some,
             Persist(b, state, some)
      PROVE  status'[b] = UpdateStatus(status[b], state)
  BY <1>1, PersistCalm DEF TypeOK
<1>2. CASE Advance(b, faults)
  BY <1>1, <1>2 DEF Advance
<1>3. CASE Terminal(b, faults)
  BY <1>1, <1>3 DEF Terminal
<1>4. CASE Retry(b, r, faults)
  BY <1>1, <1>4 DEF Retry
<1>5. CASE DeadLetter(b, r, faults)
  BY <1>1, <1>5 DEF DeadLetter
<1> QED
  BY <1>2, <1>3, <1>4, <1>5 DEF Perform

-----------------------------------------------------------------------------
(* Every action is a step of the abstract specification *)

Simulated == \A b \in Beads : Lifecycle!Step(b)
SimInv == TypeOK /\ RunInv /\ StatusReached

LEMMA StartSimulated == SimInv /\ Start /\ Calm' => Simulated
<1> SUFFICES ASSUME SimInv, Start, Calm', NEW b \in Beads PROVE Lifecycle!Step(b)
  BY DEF Simulated
<1>1. TypeOK /\ status[b] \in Reached
  BY DEF SimInv, StatusReached
<1>2. Active = {} /\ Completed = {} /\ UNCHANGED <<Active, Completed>>
  BY DEF SimInv, RunInv, PhasesApart, Start, Judging, Active, Completed
<1>3. work[b] = "idle" /\ work'[b] = work[b]
  BY <1>2, WorkOf, WorkKept
<1>4. status'[b] = IF b \in Stuck THEN UpdateStatus(status[b], "open") ELSE status[b]
  <2>1. PersistAll([x \in Stuck |-> "open"], {})
    BY DEF Start
  <2>2. status' = [c \in Beads |-> IF c \in DOMAIN [x \in Stuck |-> "open"]
                     THEN UpdateStatus(status[c], [x \in Stuck |-> "open"][c])
                     ELSE status[c]]
    BY <1>1, <2>1, PersistAllCalm
  <2> QED
    BY <2>2
<1>5. b \in Stuck => status[b] = "dispatched"
  BY DEF Stuck
<1> QED
  BY <1>1, <1>3, <1>4, <1>5, IdleMove, Untouched

LEMMA CrashSimulated == SimInv /\ Crash => Simulated
<1> SUFFICES ASSUME SimInv, Crash, NEW b \in Beads PROVE Lifecycle!Step(b)
  BY DEF Simulated
<1>1. Active' = {} /\ Completed' = {} /\ status' = status
  BY DEF Crash, Active, Completed, store
<1>2. work'[b] = "idle"
  BY <1>1 DEF work
<1> QED
  BY <1>1, <1>2 DEF Lifecycle!Step, Lifecycle!Abandon, Lifecycle!Stays

\* Commits and merged pull requests only move beads that nobody works.
LEMMA ScanVcsSimulated == SimInv /\ ScanVcs /\ Calm' => Simulated
<1> SUFFICES ASSUME SimInv, ScanVcs, Calm', NEW b \in Beads PROVE Lifecycle!Step(b)
  BY DEF Simulated
<1>1. TypeOK /\ status[b] \in Reached
  BY DEF SimInv, StatusReached
<1>2. Completed = {} /\ UNCHANGED <<Active, Completed>>
  BY DEF SimInv, RunInv, PhasesApart, ScanVcs, Judging, Active, Completed, memory
<1>3. work'[b] = work[b] /\ (b \notin Active => work[b] = "idle")
  BY <1>2, WorkOf, WorkKept
<1>4. \/ status'[b] = status[b]
      \/ /\ b \notin Active
         /\ \/ status'[b] = UpdateStatus(status[b], "done")
            \/ status'[b] = UpdateStatus(status[b], "dispatched")
  BY <1>1, PersistAllCalm DEF ScanVcs, VcsWant
<1> QED
  BY <1>1, <1>3, <1>4, IdleMove, Untouched

LEMMA PollPrSimulated == SimInv /\ PollPr /\ Calm' => Simulated
<1> SUFFICES ASSUME SimInv, PollPr, Calm', NEW b \in Beads PROVE Lifecycle!Step(b)
  BY DEF Simulated
<1>1. TypeOK /\ status[b] \in Reached
  BY DEF SimInv, StatusReached
<1>2. Completed = {} /\ UNCHANGED <<Active, Completed>>
  BY DEF SimInv, RunInv, PhasesApart, PollPr, Judging, Active, Completed, memory
<1>3. work'[b] = work[b] /\ (b \notin Active => work[b] = "idle")
  BY <1>2, WorkOf, WorkKept
<1>4. \/ status'[b] = status[b]
      \/ status'[b] = UpdateStatus(status[b], "done")
  BY <1>1, PersistAllCalm DEF PollPr
<1>5. b \in Active => status[b] \in {"dispatched", "done"}
  BY DEF SimInv, RunInv, RunsApart
<1>6. b \in Active => status'[b] = status[b]
  BY <1>4, <1>5, FreeKept
<1> QED
  BY <1>1, <1>3, <1>4, <1>6, IdleMove, Untouched

LEMMA CheckCompletedSimulated == SimInv /\ CheckCompleted => Simulated
<1> SUFFICES ASSUME SimInv, CheckCompleted, NEW b \in Beads PROVE Lifecycle!Step(b)
  BY DEF Simulated
<1>1. Completed = {} /\ status' = status
  BY DEF SimInv, RunInv, PhasesApart, CheckCompleted, Judging, store
<1>2. /\ Active' \cap Completed' = {}
      /\ Active' \cup Completed' = Active
  BY DEF CheckCompleted, Active, Completed
<1>3. \/ work'[b] = work[b]
      \/ work[b] = "running" /\ work'[b] = "ended"
  <2>1. b \in Completed' => b \in Active /\ b \notin Completed
    BY <1>1, <1>2
  <2>2. b \in Active' <=> b \in Active /\ b \notin Completed'
    BY <1>2
  <2> QED
    BY <1>1, <2>1, <2>2 DEF work
<1> QED
  BY <1>1, <1>3 DEF Lifecycle!Step, Lifecycle!End, Lifecycle!Stays

LEMMA SpawnSimulated ==
    ASSUME NEW b \in Beads
    PROVE  SimInv /\ Spawn(b) /\ Calm' => Simulated
<1> SUFFICES ASSUME SimInv, Spawn(b), Calm', NEW x \in Beads PROVE Lifecycle!Step(x)
  BY DEF Simulated
<1>1. TypeOK
  BY DEF SimInv
<1>2. b \notin Active /\ b \notin Completed
  BY DEF Spawn, Dequeue, Eligible, SimInv, RunInv, QueuedFree, Worked
<1>3. Active' = Active \cup {b} /\ Completed' = Completed
  BY <1>1, RunIsNotNoRun DEF Spawn, Active, Completed, TypeOK
<1>4. status' = [status EXCEPT ![b] = UpdateStatus(@, "dispatched")]
  BY <1>1, PersistCalm DEF Spawn
<1>5. CASE x = b
  <2>1. work[x] = "idle" /\ work'[x] = "running"
    BY <1>2, <1>3, <1>5 DEF work
  <2>2. status'[x] = Lifecycle!UpdateStatus(status[x], "dispatched")
    BY <1>1, <1>4, <1>5, SameTable DEF TypeOK
  <2> QED
    BY <2>1, <2>2 DEF Lifecycle!Step, Lifecycle!Begin
<1>6. CASE x # b
  <2>1. work'[x] = work[x] /\ status'[x] = status[x]
    BY <1>1, <1>3, <1>4, <1>6 DEF work, TypeOK
  <2> QED
    BY <2>1, Untouched
<1> QED
  BY <1>5, <1>6

LEMMA BeginVerifySimulated ==
    ASSUME NEW b \in Beads
    PROVE  SimInv /\ BeginVerify(b) /\ Calm' => Simulated
<1> SUFFICES ASSUME SimInv, BeginVerify(b), Calm', NEW x \in Beads
             PROVE  Lifecycle!Step(x)
  BY DEF Simulated
<1>1. TypeOK /\ b \in Completed
  BY RunIsNotNoRun DEF SimInv, BeginVerify, Takes, Completed
<1>2. work' = work
  BY WorkKept DEF BeginVerify, Active, Completed
<1>3. status' = [status EXCEPT ![b] = UpdateStatus(@, "verifying")]
  BY <1>1, PersistCalm DEF BeginVerify
<1>4. CASE x = b
  <2>1. work[x] = "ended" /\ work'[x] = "ended"
    BY <1>1, <1>2, <1>4, WorkOf
  <2>2. status'[x] = Lifecycle!UpdateStatus(status[x], "verifying")
    BY <1>1, <1>3, <1>4, SameTable DEF TypeOK
  <2> QED
    BY <2>1, <2>2 DEF Lifecycle!Step, Lifecycle!Verify
<1>5. CASE x # b
  BY <1>1, <1>2, <1>3, <1>5, Untouched DEF TypeOK
<1> QED
  BY <1>4, <1>5


LEMMA JudgedSimulated ==
    ASSUME NEW b \in Beads, SimInv, b \in Completed,
           completed' = [completed EXCEPT ![b] = NoRun], UNCHANGED active,
           \A x \in Beads \ {b} : status'[x] = status[x],
           \/ status'[b] = status[b]
           \/ \E state \in {"open", "pr_open", "dead_letter"} :
                 status'[b] = UpdateStatus(status[b], state)
    PROVE  Simulated
<1> SUFFICES ASSUME NEW x \in Beads PROVE Lifecycle!Step(x)
  BY DEF Simulated
<1>1. Completed' = Completed \ {b} /\ Active' = Active /\ b \notin Active
  BY DEF SimInv, RunInv, RunsApart, TypeOK, Completed, Active
<1>2. CASE x = b
  <2>1. work[x] = "ended" /\ work'[x] = "idle"
    BY <1>1, <1>2 DEF work
  <2>2. status[b] \in {"dispatched", "verifying", "done"}
    BY DEF SimInv, RunInv, RunsApart
  <2> QED
    BY <1>2, <2>1, <2>2, SettledMove
<1>3. CASE x # b
  <2>1. work'[x] = work[x]
    BY <1>1, <1>3 DEF work
  <2> QED
    BY <1>3, <2>1, Untouched
<1> QED
  BY <1>2, <1>3

LEMMA AgentClosedSimulated ==
    ASSUME NEW b \in Beads
    PROVE  SimInv /\ AgentClosed(b) => Simulated
  BY JudgedSimulated DEF AgentClosed, Completed, store

LEMMA ExitFailedSimulated ==
    ASSUME NEW b \in Beads
    PROVE  SimInv /\ ExitFailed(b) /\ Calm' => Simulated
<1> SUFFICES ASSUME SimInv, ExitFailed(b), Calm' PROVE Simulated
  OBVIOUS
<1>1. TypeOK /\ b \in Completed
  BY RunIsNotNoRun DEF SimInv, ExitFailed, Takes, Completed
<1>2. Perform(DecideFor(b, FailedExit), b, FailedExit, {})
  BY DEF ExitFailed
<1> QED
  BY <1>1, <1>2, PerformMove, PerformStatus, JudgedSimulated DEF ExitFailed, Finish

LEMMA FinishVerifySimulated ==
    ASSUME NEW b \in Beads
    PROVE  SimInv /\ FinishVerify(b) /\ Calm' => Simulated
<1> SUFFICES ASSUME SimInv, FinishVerify(b), Calm' PROVE Simulated
  OBVIOUS
<1>1. TypeOK /\ b \in Completed
  BY DEF SimInv, FinishVerify, RunInv, PhasesApart
<1>2. \E action, r, faults : Perform(action, b, r, faults)
  BY DEF FinishVerify
<1> QED
  BY <1>1, <1>2, PerformMove, PerformStatus, JudgedSimulated
     DEF FinishVerify, Finish

LEMMA OperatorSimulated ==
    ASSUME NEW b \in Beads
    PROVE  SimInv /\ (CloseBead(b) \/ ReopenBead(b)) /\ Calm' => Simulated
<1> SUFFICES ASSUME SimInv, CloseBead(b) \/ ReopenBead(b), Calm', NEW x \in Beads
             PROVE  Lifecycle!Step(x)
  BY DEF Simulated
<1>1. TypeOK
  BY DEF SimInv
<1>2. work' = work
  BY WorkKept DEF CloseBead, ReopenBead, memory, Active, Completed
<1>3. x # b => status'[x] = status[x]
  BY <1>1 DEF CloseBead, ReopenBead, TypeOK
<1>4. CASE x = b /\ CloseBead(b)
  BY <1>1, <1>2, <1>4 DEF CloseBead, TypeOK, Lifecycle!Step, Lifecycle!Close
<1>5. CASE x = b /\ ReopenBead(b)
  <2>1. b \notin Worked
    BY <1>1, <1>5, UseCalm DEF ReopenBead, Worked
  <2>2. work[x] = "idle" /\ work'[x] = "idle"
    BY <1>2, <1>5, <2>1, WorkOf DEF Worked
  <2>3. status'[x] = Lifecycle!Reopened(status[x])
    BY <1>1, <1>5, SameTable DEF ReopenBead, TypeOK
  <2> QED
    BY <2>2, <2>3 DEF Lifecycle!Step, Lifecycle!Reopen
<1> QED
  BY <1>2, <1>3, <1>4, <1>5, Untouched

LEMMA NextSimulated == SimInv /\ [Next]_vars /\ Calm' => Simulated
<1> SUFFICES ASSUME SimInv, [Next]_vars, Calm' PROVE Simulated
  OBVIOUS
<1>1. ASSUME UNCHANGED <<status, Active, Completed>> PROVE Simulated
  BY <1>1, WorkKept, Untouched DEF Simulated
<1>2. CASE Scan \/ AutoAssign \/ Triage \/ DispatchDone \/ VerifyDone
  BY <1>1, <1>2 DEF Scan, AutoAssign, Triage, DispatchDone, VerifyDone, store,
                    memory, Active, Completed
<1>3. ASSUME NEW b \in Beads,
             \/ DropEntry(b) \/ SpawnFails(b) \/ OrphanExits(b) \/ EditBead(b)
             \/ Commit(b) \/ BackoffExpires(b)
      PROVE  Simulated
  BY <1>1, <1>3 DEF DropEntry, SpawnFails, OrphanExits, EditBead, Commit,
                    BackoffExpires, store, memory, Active, Completed
<1>4. ASSUME NEW b \in Beads, AgentExits(b) PROVE Simulated
  <2>1. Active' = Active
    BY <1>4, RunIsNotNoRun DEF AgentExits, Active, SimInv, TypeOK
  <2> QED
    BY <1>1, <1>4, <2>1 DEF AgentExits, Completed, store
<1>5. CASE UNCHANGED vars
  BY <1>1, <1>5 DEF vars, store, memory, Active, Completed
<1> QED
  BY <1>2, <1>3, <1>4, <1>5, StartSimulated, ScanVcsSimulated, PollPrSimulated,
     CheckCompletedSimulated, SpawnSimulated, AgentClosedSimulated,
     ExitFailedSimulated, BeginVerifySimulated, FinishVerifySimulated,
     CrashSimulated, OperatorSimulated DEF Next, Iterate, Environment

\* Seen from outside, what the daemon does to a bead is one run after the
\* other, each judged before the next, and the stored status follows the run:
\* until the first status write is lost and the first worked bead reopened, every
\* step is one of BeadLifecycle (src/reconcile/mod.rs iterate, persist_status).
THEOREM CalmSimulates ==
    Spec => /\ Lifecycle!Init
            /\ [][Calm' => [Lifecycle!Next]_(Lifecycle!vars)]_vars
<1>1. Init => Lifecycle!Init
  <2> SUFFICES ASSUME Init PROVE Lifecycle!Init
    OBVIOUS
  <2>1. Active = {} /\ Completed = {}
    BY DEF Init, Active, Completed
  <2> QED
    BY <2>1 DEF Init, Lifecycle!Init, work
<1>2. Init => StatusReached
  BY DEF Init, StatusReached, Reached
<1>3. TypeInv /\ CalmInv /\ StatusReached /\ TypeOK' /\ [Next]_vars
        => [Calm' => [Lifecycle!Next]_(Lifecycle!vars)]_vars
  <2> SUFFICES ASSUME TypeInv, CalmInv, Calm', StatusReached, TypeOK', [Next]_vars
               PROVE  Lifecycle!Next
    OBVIOUS
  <2> TypeOK /\ Calm
    BY CalmBefore DEF TypeInv
  <2>1. Simulated
    BY NextSimulated DEF SimInv, TypeInv, CalmInv
  <2>2. status' \in [Beads -> Lifecycle!States]
    BY SameTable DEF TypeOK
  <2>3. work' \in [Beads -> Lifecycle!WorkStates]
    BY DEF work, Lifecycle!WorkStates
  <2> QED
    BY <2>1, <2>2, <2>3 DEF Simulated, Lifecycle!Next
<1>4. TypeInv => TypeOK
  BY DEF TypeInv
<1> QED
  BY <1>1, <1>2, <1>3, <1>4, InitType, NextType, InitRuns, NextRuns, NextReached,
     PTL DEF Spec

\* Hence a behaviour that stays calm is one of BeadLifecycle.
THEOREM CalmRefines == Spec /\ []Calm => ImplementsLifecycle
<1>1. UNCHANGED vars => UNCHANGED Lifecycle!vars
  BY DEF vars, store, memory, Lifecycle!vars, work, Completed, Active
<1>2. [Calm' => [Lifecycle!Next]_(Lifecycle!vars)]_vars /\ Calm'
        => [Lifecycle!Next]_(Lifecycle!vars)
  BY <1>1
<1> QED
  BY <1>2, CalmSimulates, PTL DEF ImplementsLifecycle, Lifecycle!Spec
-----------------------------------------------------------------------------
(***************************************************************************)
(* The retry counter.  A run that is judged may raise it once more after   *)
(* the limit is reached, so what has to be bounded are the runs that are   *)
(* still to come: each bead has at most one of them (a place in the queue, *)
(* a running agent, a verdict that is due, or a stored status that lets    *)
(* triage queue it), and one more for every loss or reopening.             *)
(***************************************************************************)

One(p) == IF p THEN 1 ELSE 0

Excuses == spent["feedback"] + spent["reopen"] + spent["meddle"] + spent["loss"]

\* The store shows the bead as open, or did so to the scan triage will read.
ShownOpen(b) ==
    /\ b \notin Queued
    /\ status[b] = "open" \/ (pc \in Scanned /\ snap[b].status = "open")

Tokens(b) == One(b \in Active) + One(b \in Completed) + One(b \in Queued)
             + One(ShownOpen(b))

\* Every place that remembers a number of retries.
Remembered(b) == {tracker[b].retries, queue[b].retries, backoff[b].retries}

Within(b) ==
    /\ Tokens(b) <= 1 + Excuses
    /\ \A n \in Remembered(b) : n + Tokens(b) <= MaxRetries + 1 + Excuses

\* A daemon that is down remembers nothing, and a bead whose tiers are running
\* waits for its verdict.
Grounded ==
    /\ pc = "down" => \A b \in Beads : /\ active[b] = NoRun /\ completed[b] = NoRun
                                       /\ tracker[b] = NoTracker
                                       /\ queue[b] = NoEntry
                                       /\ backoff[b] = NoBackoff
    /\ pc = "verifying" => current \in Completed

LEMMA IterateGrounded == TypeOK /\ Iterate => Grounded'
<1> SUFFICES ASSUME TypeOK, Iterate PROVE Grounded'
  OBVIOUS
<1>1. CASE Start \/ Scan \/ ScanVcs \/ PollPr \/ AutoAssign \/ CheckCompleted
           \/ Triage \/ DispatchDone \/ VerifyDone
  BY <1>1 DEF Start, Scan, ScanVcs, PollPr, AutoAssign, CheckCompleted, Triage,
              DispatchDone, VerifyDone, Grounded
<1>2. ASSUME NEW b \in Beads, DropEntry(b) \/ SpawnFails(b) \/ Spawn(b)
      PROVE  Grounded'
  BY <1>2 DEF DropEntry, SpawnFails, Spawn, Dequeue, Grounded
<1>3. ASSUME NEW b \in Beads, AgentClosed(b) \/ ExitFailed(b) \/ FinishVerify(b)
      PROVE  Grounded'
  BY <1>3 DEF AgentClosed, ExitFailed, FinishVerify, Finish, Grounded
<1>4. ASSUME NEW b \in Beads, BeginVerify(b) PROVE Grounded'
  BY <1>4, RunIsNotNoRun DEF BeginVerify, Takes, Grounded, Completed
<1> QED
  BY <1>1, <1>2, <1>3, <1>4 DEF Iterate

LEMMA NextGrounded == TypeOK /\ Grounded /\ [Next]_vars => Grounded'
<1> SUFFICES ASSUME TypeOK, Grounded, [Next]_vars PROVE Grounded'
  OBVIOUS
<1>1. ASSUME UNCHANGED <<pc, active, completed, tracker, queue, backoff, current>>
      PROVE  Grounded'
  BY <1>1 DEF Grounded, Completed
<1>2. CASE Crash
  BY <1>2 DEF Crash, Grounded
<1>3. ASSUME NEW b \in Beads, AgentExits(b) PROVE Grounded'
  BY <1>3, RunIsNotNoRun DEF AgentExits, Grounded, Completed
<1>4. ASSUME NEW b \in Beads, BackoffExpires(b) PROVE Grounded'
  BY <1>4 DEF BackoffExpires, Grounded, Completed, NoBackoff
<1>5. ASSUME NEW b \in Beads,
             OrphanExits(b) \/ CloseBead(b) \/ ReopenBead(b) \/ EditBead(b) \/ Commit(b)
      PROVE  Grounded'
  BY <1>1, <1>5 DEF OrphanExits, CloseBead, ReopenBead, EditBead, Commit, memory
<1>6. CASE UNCHANGED vars
  BY <1>1, <1>6 DEF vars, memory
<1> QED
  BY <1>2, <1>3, <1>4, <1>5, <1>6, IterateGrounded DEF Next, Environment

LEMMA InitGrounded == Init => Grounded
  BY DEF Init, Grounded

\* What a step costs.
Excusing == {"feedback", "reopen", "meddle", "loss"}

LEMMA SpentType ==
    ASSUME TypeOK
    PROVE  \A f \in Excusing : f \in Faults /\ spent[f] \in Nat
  BY ReconcilerAssumption DEF TypeOK, FaultKinds, Excusing

LEMMA UseCosts ==
    ASSUME TypeOK, NEW faults, Use(faults)
    PROVE  /\ Excuses \in Nat /\ Excuses' \in Nat /\ Excuses' >= Excuses
           /\ (\E f \in Excusing : f \in faults) => Excuses' >= Excuses + 1
<1>1. \A f \in Excusing : spent'[f] = IF f \in faults THEN spent[f] + 1 ELSE spent[f]
  BY SpentType DEF Use
<1> QED
  BY <1>1, SpentType DEF Excusing, Excuses

LEMMA PersistAllCosts ==
    ASSUME TypeOK, NEW want, NEW faults, PersistAll(want, faults)
    PROVE  /\ Excuses' >= Excuses
           /\ "feedback" \in faults => Excuses' >= Excuses + 1
           /\ \A b \in Beads \cap DOMAIN want :
                 \/ status'[b] = UpdateStatus(status[b], want[b])
                 \/ status'[b] = status[b] /\ Excuses' >= Excuses + 1
           /\ \A b \in Beads \ DOMAIN want : status'[b] = status[b]
<1>1. PICK lost \in {{}} \cup {{b} : b \in DOMAIN want} :
        /\ Use(IF lost = {} THEN faults ELSE faults \cup {"loss"})
        /\ status' = [b \in Beads |-> IF b \in DOMAIN want \ lost
                                        THEN UpdateStatus(status[b], want[b])
                                        ELSE status[b]]
  BY DEF PersistAll
<1>2. CASE lost = {}
  BY <1>1, <1>2, UseCosts DEF Excusing
<1>3. CASE lost # {}
  <2>1. Use(faults \cup {"loss"})
    BY <1>1, <1>3
  <2>2. Excuses' >= Excuses + 1
    BY <2>1, UseCosts DEF Excusing
  <2>3. Excuses \in Nat /\ Excuses' \in Nat
    BY <2>1, UseCosts
  <2> QED
    BY <1>1, <2>2, <2>3
<1> QED
  BY <1>2, <1>3

LEMMA PersistCosts ==
    ASSUME TypeOK, NEW c \in Beads, NEW state, NEW faults, Persist(c, state, faults)
    PROVE  /\ Excuses' >= Excuses
           /\ "feedback" \in faults => Excuses' >= Excuses + 1
           /\ \/ status'[c] = UpdateStatus(status[c], state)
              \/ status'[c] = status[c] /\ Excuses' >= Excuses + 1
           /\ \A b \in Beads \ {c} : status'[b] = status[b]
<1> DEFINE want == [x \in {c} |-> state]
<1>1. PersistAll(want, faults)
  BY DEF Persist
<1>2. DOMAIN want = {c} /\ want[c] = state
  OBVIOUS
<1> HIDE DEF want
<1> QED
  BY <1>1, <1>2, PersistAllCosts

LEMMA TokensType == \A b : Tokens(b) \in Nat /\ Tokens(b)' \in Nat
  BY DEF Tokens, One

\* A bead stays within its bounds when a step adds no more runs to come than
\* it costs, and no number of retries that was not there.
LEMMA WithinKept ==
    ASSUME TypeOK, TypeOK', NEW b \in Beads, Within(b), Excuses' >= Excuses,
           Tokens(b)' + Excuses <= Tokens(b) + Excuses',
           \A n \in Remembered(b)' : n \in Remembered(b) \/ n = 0
    PROVE  Within(b)'
<1>1. Excuses \in Nat /\ Excuses' \in Nat
  BY SpentType DEF Excuses, Excusing, TypeOK
<1>2. Remembered(b) \subseteq Nat
  BY DEF TypeOK, Remembered, Trackers
<1>3. MaxRetries \in Nat
  BY PipelineAssumption
<1>4. Tokens(b) \in Nat /\ Tokens(b)' \in Nat
  BY TokensType
<1> QED
  BY <1>1, <1>2, <1>3, <1>4 DEF Within

LEMMA TokensFewer ==
    ASSUME NEW b, b \in Active' => b \in Active, b \in Completed' => b \in Completed,
           b \in Queued' => b \in Queued, ShownOpen(b)' => ShownOpen(b)
    PROVE  Tokens(b)' <= Tokens(b)
  BY DEF Tokens, One

\* The common case: the books and the queue stay, and the store shows no bead
\* as open that it did not show so before.
LEMMA WithinUnmoved ==
    ASSUME TypeOK, TypeOK', NEW b \in Beads, Within(b), Excuses' >= Excuses,
           b \in Active' => b \in Active, b \in Completed' => b \in Completed,
           queue'[b] = queue[b], backoff'[b].retries = backoff[b].retries,
           tracker'[b].retries \in {tracker[b].retries, 0},
           ShownOpen(b)' => ShownOpen(b) \/ Excuses' >= Excuses + 1
    PROVE  Within(b)'
<1>1. b \in Queued' <=> b \in Queued
  BY DEF Queued
<1>2. Tokens(b)' + Excuses <= Tokens(b) + Excuses'
  <2>1. Excuses \in Nat /\ Excuses' \in Nat
    BY SpentType DEF Excuses, Excusing, TypeOK
  <2> HIDE DEF Excuses
  <2>2. CASE ShownOpen(b)' => ShownOpen(b)
    BY <1>1, <2>1, <2>2, TokensFewer, TokensType
  <2>3. CASE Excuses' >= Excuses + 1
    <3>1. Tokens(b)' <= Tokens(b) + 1
      BY <1>1 DEF Tokens, One
    <3> QED
      BY <2>1, <2>3, <3>1, TokensType
  <2> QED
    BY <2>2, <2>3
<1>3. \A n \in Remembered(b)' : n \in Remembered(b) \/ n = 0
  BY DEF Remembered
<1> QED
  BY <1>2, <1>3, WithinKept

AllWithin == \A b \in Beads : Within(b)

\* Before the first scan of a process nothing is remembered.
LEMMA WithinFresh ==
    ASSUME TypeOK', NEW b \in Beads, active'[b] = NoRun, completed'[b] = NoRun,
           queue'[b] = NoEntry, backoff'[b] = NoBackoff, tracker'[b].retries = 0
    PROVE  Within(b)'
<1>1. Excuses' \in Nat
  BY ReconcilerAssumption DEF Excuses, TypeOK, FaultKinds
<1>2. b \notin Active' /\ b \notin Completed' /\ b \notin Queued'
  BY DEF Active, Completed, Queued, NoEntry
<1>3. Tokens(b)' <= 1 /\ Tokens(b)' \in Nat
  BY <1>2 DEF Tokens, One
<1>4. \A n \in Remembered(b)' : n = 0
  BY DEF Remembered, NoEntry, NoBackoff
<1>5. MaxRetries \in Nat
  BY PipelineAssumption
<1> QED
  BY <1>1, <1>3, <1>4, <1>5 DEF Within

LEMMA StartWithin ==
    TypeOK' /\ Grounded /\ Start => AllWithin'
<1> SUFFICES ASSUME TypeOK', Grounded, Start, NEW b \in Beads PROVE Within(b)'
  BY DEF AllWithin
<1>1. active[b] = NoRun /\ completed[b] = NoRun /\ tracker[b] = NoTracker
      /\ queue[b] = NoEntry /\ backoff[b] = NoBackoff
  BY DEF Grounded, Start
<1>2. tracker'[b].retries = 0
  BY <1>1 DEF Start, NewTracker, NoTracker
<1> QED
  BY <1>1, <1>2, WithinFresh DEF Start

LEMMA CrashWithin == TypeOK' /\ Crash => AllWithin'
<1> SUFFICES ASSUME TypeOK', Crash, NEW b \in Beads PROVE Within(b)'
  BY DEF AllWithin
<1> QED
  BY WithinFresh DEF Crash, NoTracker, NewTracker

LEMMA ScanningWithin ==
    ASSUME TypeOK, TypeOK', AllWithin,
           Scan \/ ScanVcs \/ PollPr \/ AutoAssign \/ DispatchDone \/ VerifyDone
    PROVE  AllWithin'
<1> SUFFICES ASSUME NEW b \in Beads PROVE Within(b)'
  BY DEF AllWithin
<1>1. ASSUME Excuses' >= Excuses, UNCHANGED <<active, completed, queue, backoff, tracker>>,
             \/ status'[b] = "open" \/ (pc' \in Scanned /\ snap'[b].status = "open") =>
                  status[b] = "open" \/ (pc \in Scanned /\ snap[b].status = "open")
      PROVE  Within(b)'
  <2>1. UNCHANGED <<Active, Completed, Queued>>
    BY <1>1 DEF Active, Completed, Queued
  <2> QED
    BY <1>1, <2>1, WithinUnmoved DEF AllWithin, ShownOpen
<1>2. ASSUME UNCHANGED spent PROVE Excuses' >= Excuses
  BY <1>2, SpentType DEF Excuses, Excusing
<1>3. ASSUME NEW want, PersistAll(want, {}),
             \A c \in Beads \cap DOMAIN want : want[c] \in {"done", "dispatched"},
             status'[b] = "open"
      PROVE  status[b] = "open"
  BY <1>3, PersistAllCosts DEF UpdateStatus
<1>4. CASE Scan
  BY <1>1, <1>2, <1>4 DEF Scan, Absent, world, store
<1>5. CASE ScanVcs
  <2>1. PICK want : /\ PersistAll(want, {})
                    /\ \A c \in Beads \cap DOMAIN want : want[c] \in {"done", "dispatched"}
    BY <1>5 DEF ScanVcs, VcsWant
  <2>2. Excuses' >= Excuses /\ (status'[b] = "open" => status[b] = "open")
    BY <1>3, <2>1, PersistAllCosts
  <2> QED
    BY <1>1, <1>5, <2>2 DEF ScanVcs, memory, Scanned
<1>6. CASE PollPr
  <2>1. PICK want : /\ PersistAll(want, {})
                    /\ \A c \in Beads \cap DOMAIN want : want[c] \in {"done", "dispatched"}
    BY <1>6 DEF PollPr
  <2>2. Excuses' >= Excuses /\ (status'[b] = "open" => status[b] = "open")
    BY <1>3, <2>1, PersistAllCosts
  <2> QED
    BY <1>1, <1>6, <2>2 DEF PollPr, memory, Scanned
<1>7. CASE AutoAssign
  BY <1>1, <1>2, <1>7 DEF AutoAssign, memory, world, Scanned
<1>8. CASE DispatchDone \/ VerifyDone
  BY <1>1, <1>2, <1>8 DEF DispatchDone, VerifyDone, memory, world, store, Scanned
<1> QED
  BY <1>4, <1>5, <1>6, <1>7, <1>8

LEMMA CheckCompletedWithin ==
    ASSUME TypeOK, TypeOK', AllWithin, CheckCompleted
    PROVE  AllWithin'
<1> SUFFICES ASSUME NEW b \in Beads PROVE Within(b)'
  BY DEF AllWithin
<1>1. b \in Active' => b \in Active /\ b \notin Completed'
  BY DEF CheckCompleted, Active, Completed
<1>2. b \in Completed' => b \in Active
  BY DEF CheckCompleted, Active, Completed
<1>3. b \in Queued' <=> b \in Queued
  BY DEF CheckCompleted, Queued
<1>4. ShownOpen(b)' => ShownOpen(b)
  BY <1>3 DEF CheckCompleted, ShownOpen, Scanned, store
<1>5. Tokens(b)' <= Tokens(b)
  BY <1>1, <1>2, <1>3, <1>4 DEF Tokens, One
<1>6. Excuses' = Excuses /\ Excuses \in Nat
  BY SpentType DEF Excuses, Excusing, CheckCompleted, world
<1>7. Remembered(b)' = Remembered(b)
  BY DEF CheckCompleted, Remembered
<1> QED
  BY <1>5, <1>6, <1>7, WithinKept, TokensType DEF AllWithin

LEMMA TriageWithin ==
    ASSUME TypeOK, TypeOK', AllWithin, Triage
    PROVE  AllWithin'
<1> SUFFICES ASSUME NEW b \in Beads PROVE Within(b)'
  BY DEF AllWithin
<1>1. PICK S \in Selections :
        queue' = [c \in Beads |-> IF c \in S
                                    THEN Entry(snap[c].content, backoff[c].retries)
                                    ELSE queue[c]]
  BY DEF Triage
<1>2. UNCHANGED <<Active, Completed>>
  BY DEF Triage, Active, Completed
<1>3. Excuses' = Excuses /\ Excuses \in Nat
  BY SpentType DEF Excuses, Excusing, Triage, world
<1>4. CASE b \in S
  <2>1. b \notin Queued /\ ShownOpen(b)
    <3>1. b \in Candidates
      BY <1>4 DEF Selections
    <3> QED
      BY <3>1 DEF Candidates, Queued, ShownOpen, Triage, Scanned
  <2>2. b \in Queued' /\ ~ShownOpen(b)'
    BY <1>1, <1>4 DEF Queued, ShownOpen, Entry
  <2>3. Tokens(b)' <= Tokens(b)
    BY <1>2, <2>1, <2>2 DEF Tokens, One
  <2>4. \A n \in Remembered(b)' : n \in Remembered(b)
    BY <1>1, <1>4 DEF Triage, Remembered, Entry
  <2> QED
    BY <1>3, <2>3, <2>4, WithinKept, TokensType DEF AllWithin
<1>5. CASE b \notin S
  <2>1. queue'[b] = queue[b]
    BY <1>1, <1>5
  <2>2. ShownOpen(b)' => ShownOpen(b)
    BY <2>1 DEF ShownOpen, Queued, Triage, store, Scanned
  <2> QED
    BY <1>2, <1>3, <2>1, <2>2, WithinUnmoved DEF AllWithin, Triage
<1> QED
  BY <1>4, <1>5

\* An entry that leaves the queue without a run leaves at most an open bead.
LEMMA DequeueWithin ==
    ASSUME TypeOK, TypeOK', AllWithin, NEW c \in Beads, DropEntry(c) \/ SpawnFails(c)
    PROVE  AllWithin'
<1> SUFFICES ASSUME NEW b \in Beads PROVE Within(b)'
  BY DEF AllWithin
<1>1. UNCHANGED <<Active, Completed, status, pc, snap, tracker, backoff>>
  BY DEF DropEntry, SpawnFails, Active, Completed, store
<1>2. Excuses' >= Excuses /\ Excuses \in Nat /\ Excuses' \in Nat
  <2>1. CASE DropEntry(c)
    BY <2>1, SpentType DEF DropEntry, world, Excuses, Excusing
  <2>2. CASE SpawnFails(c)
    BY <2>2, UseCosts DEF SpawnFails
  <2> QED
    BY <2>1, <2>2
<1>3. c \in Queued /\ queue' = [queue EXCEPT ![c] = NoEntry]
  BY DEF DropEntry, SpawnFails, Dequeue, Eligible
<1>4. CASE b = c
  <2>1. b \in Queued /\ b \notin Queued'
    BY <1>3, <1>4 DEF Queued, NoEntry, TypeOK
  <2>2. Tokens(b)' <= Tokens(b)
    BY <1>1, <2>1 DEF Tokens, One, ShownOpen
  <2>3. \A n \in Remembered(b)' : n \in Remembered(b) \/ n = 0
    BY <1>1, <1>3, <1>4 DEF Remembered, NoEntry, TypeOK
  <2> QED
    BY <1>2, <2>2, <2>3, WithinKept, TokensType DEF AllWithin
<1>5. CASE b # c
  BY <1>1, <1>2, <1>3, <1>5, WithinUnmoved DEF AllWithin, ShownOpen, Queued, TypeOK
<1> QED
  BY <1>4, <1>5

\* A spawn turns the place in the queue into a run; when its status write is
\* lost, the bead stays open beside it.
LEMMA SpawnWithin ==
    ASSUME TypeOK, TypeOK', AllWithin, NEW c \in Beads, Spawn(c)
    PROVE  AllWithin'
<1> SUFFICES ASSUME NEW b \in Beads PROVE Within(b)'
  BY DEF AllWithin
<1>1. /\ UNCHANGED <<pc, snap, completed, backoff>> /\ pc = "dispatch"
      /\ c \in Queued /\ queue' = [queue EXCEPT ![c] = NoEntry]
      /\ active' = [active EXCEPT ![c] = Run(DefaultAgent(TypeOf[c]), "running")]
      /\ tracker' = [tracker EXCEPT ![c] = Dispatched(@, queue[c], snap[c].owner)]
  BY DEF Spawn, Dequeue, Eligible
<1>2. /\ Excuses' >= Excuses
      /\ \/ status'[c] = UpdateStatus(status[c], "dispatched")
         \/ Excuses' >= Excuses + 1
      /\ \A x \in Beads \ {c} : status'[x] = status[x]
  BY PersistCosts DEF Spawn
<1>3. Excuses \in Nat /\ Excuses' \in Nat
  BY SpentType DEF Excuses, Excusing, TypeOK
<1>4. CASE b = c
  <2>1. b \in Queued /\ b \notin Queued' /\ (b \in Completed' <=> b \in Completed)
    BY <1>1, <1>4 DEF Queued, NoEntry, TypeOK, Completed
  <2>2. ~ShownOpen(b)
    BY <2>1 DEF ShownOpen
  <2>3. ShownOpen(b)' => Excuses' >= Excuses + 1
    BY <1>1, <1>2, <1>4 DEF ShownOpen, Scanned, UpdateStatus, CanTransition,
                            ValidTransitions
  <2>4. Tokens(b)' <= Tokens(b) + One(ShownOpen(b)')
    BY <2>1, <2>2 DEF Tokens, One
  <2>5. Tokens(b)' + Excuses <= Tokens(b) + Excuses'
    <3> HIDE DEF Excuses
    <3> QED
      BY <1>2, <1>3, <2>3, <2>4, TokensType DEF One
  <2>6. \A n \in Remembered(b)' : n \in Remembered(b) \/ n = 0
    <3>1. tracker'[b].retries \in {tracker[b].retries, queue[b].retries}
      BY <1>1, <1>4 DEF Dispatched, NewTracker, TypeOK, Trackers
    <3>2. queue'[b].retries = 0
      BY <1>1, <1>4 DEF NoEntry, TypeOK
    <3> QED
      BY <1>1, <3>1, <3>2 DEF Remembered
  <2> QED
    BY <1>2, <2>5, <2>6, WithinKept DEF AllWithin
<1>5. CASE b # c
  <2>1. /\ b \in Active' => b \in Active
        /\ b \in Completed' => b \in Completed
        /\ queue'[b] = queue[b] /\ tracker'[b] = tracker[b]
    BY <1>1, <1>5 DEF Active, Completed, TypeOK
  <2>2. ShownOpen(b)' => ShownOpen(b)
    BY <1>1, <1>2, <1>5, <2>1 DEF ShownOpen, Queued
  <2> QED
    BY <1>1, <1>2, <2>1, <2>2, WithinUnmoved DEF AllWithin
<1> QED
  BY <1>4, <1>5

LEMMA EnvironmentWithin ==
    ASSUME TypeOK, TypeOK', AllWithin, Environment
    PROVE  AllWithin'
<1> SUFFICES ASSUME NEW b \in Beads, ~Crash PROVE Within(b)'
  BY CrashWithin DEF AllWithin
<1>1. ASSUME Excuses' >= Excuses, b \in Active' => b \in Active,
             UNCHANGED <<completed, queue, tracker, pc, snap>>,
             backoff'[b].retries = backoff[b].retries,
             status'[b] = "open" => status[b] = "open" \/ Excuses' >= Excuses + 1
      PROVE  Within(b)'
  <2>1. UNCHANGED <<Completed, Queued>>
    BY <1>1 DEF Completed, Queued
  <2> QED
    BY <1>1, <2>1, WithinUnmoved DEF AllWithin, ShownOpen
<1>2. ASSUME UNCHANGED spent PROVE Excuses' >= Excuses
  BY <1>2, SpentType DEF Excuses, Excusing
<1>3. ASSUME NEW c \in Beads, AgentExits(c) PROVE Within(b)'
  BY <1>1, <1>2, <1>3, RunIsNotNoRun DEF AgentExits, store, world, Active, TypeOK
<1>4. ASSUME NEW c \in Beads, OrphanExits(c) PROVE Within(b)'
  BY <1>1, <1>2, <1>4 DEF OrphanExits, store, memory, Active
<1>5. ASSUME NEW c \in Beads, CloseBead(c) PROVE Within(b)'
  BY <1>1, <1>2, <1>5 DEF CloseBead, world, memory, Active, TypeOK
<1>6. ASSUME NEW c \in Beads, ReopenBead(c) PROVE Within(b)'
  <2>1. Excuses' >= Excuses + 1 /\ Excuses' >= Excuses
    BY <1>6, UseCosts DEF ReopenBead, Excusing
  <2> QED
    BY <1>1, <1>6, <2>1 DEF ReopenBead, memory, Active
<1>7. ASSUME NEW c \in Beads, EditBead(c) \/ Commit(c) PROVE Within(b)'
  <2>1. Excuses' >= Excuses
    BY <1>7, UseCosts DEF EditBead, Commit
  <2> QED
    BY <1>1, <1>7, <2>1 DEF EditBead, Commit, store, memory, Active
<1>8. ASSUME NEW c \in Beads, BackoffExpires(c) PROVE Within(b)'
  <2>1. backoff'[b].retries = backoff[b].retries
    BY <1>8 DEF BackoffExpires, TypeOK
  <2> QED
    BY <1>1, <1>2, <1>8, <2>1 DEF BackoffExpires, store, world, Active
<1> QED
  BY <1>3, <1>4, <1>5, <1>6, <1>7, <1>8 DEF Environment

\* What a verdict does to the counters: only a retry or a dead letter raises
\* them, by one, and a dead letter opens no bead.
LEMMA PerformCounts ==
    ASSUME TypeOK, NEW b \in Beads, NEW action, NEW r, NEW faults,
           Perform(action, b, r, faults)
    PROVE  /\ Excuses' >= Excuses
           /\ "feedback" \in faults => Excuses' >= Excuses + 1
           /\ \A x \in Beads \ {b} : /\ status'[x] = status[x]
                                     /\ tracker'[x] = tracker[x]
                                     /\ backoff'[x] = backoff[x]
           /\ tracker'[b].retries \in
                 {tracker[b].retries} \cup
                 (IF action \in {"retry", "deadletter"}
                    THEN {tracker[b].retries + 1} ELSE {})
           /\ backoff'[b].retries \in
                 {backoff[b].retries, 0} \cup
                 (IF action = "retry" THEN {tracker[b].retries + 1} ELSE {})
           /\ action = "deadletter" /\ status'[b] = "open" => status[b] = "open"
<1>1. /\ Excuses' >= Excuses
      /\ "feedback" \in faults => Excuses' >= Excuses + 1
      /\ \A x \in Beads \ {b} : status'[x] = status[x]
  <2>1. ASSUME NEW state, NEW some, Persist(b, state, some), faults \subseteq some
        PROVE  <1>1!:
    BY <2>1, PersistCosts
  <2>2. ASSUME Use(faults \cup {"handoff"}), UNCHANGED status
        PROVE  <1>1!:
    BY <2>2, UseCosts DEF Excusing
  <2>3. CASE Advance(b, faults)
    BY <2>1, <2>2, <2>3 DEF Advance
  <2>4. CASE Terminal(b, faults) \/ Retry(b, r, faults) \/ DeadLetter(b, r, faults)
    BY <2>1, <2>4 DEF Terminal, Retry, DeadLetter
  <2> QED
    BY <2>3, <2>4 DEF Perform
<1>2. PICK t, k : /\ tracker' = [tracker EXCEPT ![b] = t]
                  /\ backoff' \in {backoff, [backoff EXCEPT ![b] = k]}
                  /\ t.retries \in {tracker[b].retries} \cup
                        (IF action \in {"retry", "deadletter"}
                           THEN {tracker[b].retries + 1} ELSE {})
                  /\ k.retries \in {0} \cup (IF action = "retry"
                                              THEN {tracker[b].retries + 1} ELSE {})
  <2> DEFINE Goal(t, k) ==
        /\ tracker' = [tracker EXCEPT ![b] = t]
        /\ backoff' \in {backoff, [backoff EXCEPT ![b] = k]}
        /\ t.retries \in {tracker[b].retries} \cup
              (IF action \in {"retry", "deadletter"}
                 THEN {tracker[b].retries + 1} ELSE {})
        /\ k.retries \in {0} \cup (IF action = "retry"
                                    THEN {tracker[b].retries + 1} ELSE {})
  <2>0. tracker[b] \in Trackers
    BY DEF TypeOK
  <2>1. ASSUME NEW t \in Trackers PROVE Close(t).retries = t.retries
    BY DEF Close, Trackers
  <2>2. AfterFailure(tracker[b], r).retries \in {tracker[b].retries, tracker[b].retries + 1}
    BY <2>0 DEF AfterFailure, Trackers
  <2>3. Close(AfterFailure(tracker[b], r)).retries = AfterFailure(tracker[b], r).retries
    BY <2>0 DEF AfterFailure, Trackers, Close
  <2>4. CASE action = "advance" /\ Advance(b, faults)
    <3> DEFINE t1 == [tracker[b] EXCEPT !.reverts = 0]
               t2 == [t1 EXCEPT !.agent = NextAgent(TypeOf[b], Agent(b)),
                                !.phase = tracker[b].phase + 1]
    <3>1. /\ Close(t1).retries = tracker[b].retries
          /\ Close(t2).retries = tracker[b].retries
      BY <2>0 DEF Close, Trackers
    <3>2. backoff' \in {backoff, [backoff EXCEPT ![b] = NoBackoff]} /\ NoBackoff.retries = 0
      BY <2>4 DEF Advance, SetBackoff, NoBackoff
    <3>3. \/ tracker' = [tracker EXCEPT ![b] = Close(t1)]
          \/ tracker' = [tracker EXCEPT ![b] = Close(t2)]
      BY <2>4 DEF Advance
    <3> HIDE DEF t1, t2
    <3>4. Goal(Close(t1), NoBackoff) \/ Goal(Close(t2), NoBackoff)
      BY <3>1, <3>2, <3>3
    <3> QED
      BY <3>4
  <2>5. CASE action = "terminal" /\ Terminal(b, faults)
    <3> DEFINE t1 == [tracker[b] EXCEPT !.reverts = 0]
    <3>1. Close(t1).retries = tracker[b].retries
      BY <2>0 DEF Close, Trackers
    <3>2. backoff' \in {backoff, [backoff EXCEPT ![b] = NoBackoff]} /\ NoBackoff.retries = 0
      BY <2>5 DEF Terminal, SetBackoff, NoBackoff
    <3>3. tracker' = [tracker EXCEPT ![b] = Close(t1)]
      BY <2>5 DEF Terminal
    <3> HIDE DEF t1
    <3>4. Goal(Close(t1), NoBackoff)
      BY <3>1, <3>2, <3>3
    <3> QED
      BY <3>4
  <2>6. CASE action = "retry" /\ Retry(b, r, faults)
    <3>1. Goal(Close(AfterFailure(tracker[b], r)), Backoff(tracker[b].retries + 1))
      BY <2>2, <2>3, <2>6 DEF Retry, SetBackoff, Backoff
    <3> QED
      BY <3>1
  <2>7. CASE action = "deadletter" /\ DeadLetter(b, r, faults)
    <3>1. Goal(Close(AfterFailure(tracker[b], r)), NoBackoff)
      BY <2>2, <2>3, <2>7 DEF DeadLetter, SetBackoff, NoBackoff
    <3> QED
      BY <3>1
  <2> QED
    BY <2>4, <2>5, <2>6, <2>7 DEF Perform
<1>3. action = "deadletter" /\ status'[b] = "open" => status[b] = "open"
  BY PersistCosts DEF Perform, DeadLetter, UpdateStatus
<1> QED
  BY <1>1, <1>2, <1>3 DEF TypeOK

LEMMA JudgedWithin ==
    ASSUME TypeOK, TypeOK', AllWithin, NEW c \in Beads, c \in Completed,
           NEW action, NEW r, NEW faults, Perform(action, c, r, faults), Finish(c),
           action = "retry" => tracker[c].retries < MaxRetries \/ "feedback" \in faults
    PROVE  AllWithin'
<1> SUFFICES ASSUME NEW b \in Beads PROVE Within(b)'
  BY DEF AllWithin
<1>1. /\ UNCHANGED <<snap, active, queue>> /\ pc' = "verify"
      /\ completed' = [completed EXCEPT ![c] = NoRun]
  BY DEF Finish
<1>2. UNCHANGED <<Active, Queued>>
  BY <1>1 DEF Active, Queued
<1>3. CASE b # c
  <2>1. b \in Completed' => b \in Completed
    BY <1>1, <1>3 DEF Completed, TypeOK
  <2>2. /\ Excuses' >= Excuses /\ status'[b] = status[b]
        /\ tracker'[b] = tracker[b] /\ backoff'[b] = backoff[b]
    BY <1>3, PerformCounts
  <2> QED
    BY <1>1, <1>2, <2>1, <2>2, WithinUnmoved DEF AllWithin, ShownOpen, Scanned
<1>4. CASE b = c
  <2> DEFINE n == tracker[b].retries
             k == backoff[b].retries
             q == queue[b].retries
             open == One(ShownOpen(b)')
  <2>0. /\ Excuses \in Nat /\ Excuses' \in Nat /\ MaxRetries \in Nat
        /\ n \in Nat /\ k \in Nat /\ q \in Nat
    <3>1. Excuses \in Nat
      BY SpentType DEF Excuses, Excusing
    <3>2. Excuses' \in Nat
      BY ReconcilerAssumption DEF Excuses, TypeOK, FaultKinds
    <3>3. n \in Nat /\ k \in Nat /\ q \in Nat
      BY DEF TypeOK, Trackers
    <3> QED
      BY <3>1, <3>2, <3>3, PipelineAssumption
  <2>1. b \notin Completed'
    BY <1>1, <1>4 DEF Completed, TypeOK
  <2>2. /\ Tokens(b)' <= Tokens(b) - 1 + open /\ open \in {0, 1}
        /\ Tokens(b)' \in Nat /\ Tokens(b) \in Nat
    BY <1>2, <1>4, <2>1, TokensType DEF Tokens, One
  <2>3. /\ Tokens(b) <= 1 + Excuses
        /\ n + Tokens(b) <= MaxRetries + 1 + Excuses
        /\ k + Tokens(b) <= MaxRetries + 1 + Excuses
        /\ q + Tokens(b) <= MaxRetries + 1 + Excuses
    BY DEF AllWithin, Within, Remembered
  <2>4. action = "deadletter" => Tokens(b)' <= Tokens(b) - 1
    <3>1. action = "deadletter" /\ ShownOpen(b)' => ShownOpen(b)
      BY <1>1, <1>2, <1>4, PerformCounts DEF ShownOpen, Scanned
    <3> QED
      BY <1>2, <1>4, <2>1, <3>1 DEF Tokens, One
  <2>5. /\ Excuses' >= Excuses
        /\ "feedback" \in faults => Excuses' >= Excuses + 1
        /\ tracker'[b].retries \in {n} \cup
              (IF action \in {"retry", "deadletter"} THEN {n + 1} ELSE {})
        /\ backoff'[b].retries \in {k, 0} \cup
              (IF action = "retry" THEN {n + 1} ELSE {})
    BY <1>4, PerformCounts
  <2>6. action = "retry" => n < MaxRetries \/ Excuses' >= Excuses + 1
    BY <1>4, <2>5
  <2>7. queue'[b].retries = q
    BY <1>1
  <2> HIDE DEF n, k, q, open, Excuses
  <2>8. Tokens(b)' <= 1 + Excuses'
    BY <2>0, <2>2, <2>3, <2>5
  <2>9. tracker'[b].retries + Tokens(b)' <= MaxRetries + 1 + Excuses'
    BY <2>0, <2>2, <2>3, <2>4, <2>5, <2>6
  <2>10. backoff'[b].retries + Tokens(b)' <= MaxRetries + 1 + Excuses'
    BY <2>0, <2>2, <2>3, <2>5, <2>6
  <2>11. queue'[b].retries + Tokens(b)' <= MaxRetries + 1 + Excuses'
    BY <2>0, <2>2, <2>3, <2>5, <2>7
  <2> QED
    BY <2>8, <2>9, <2>10, <2>11 DEF Within, Remembered
<1> QED
  BY <1>3, <1>4

\* decide() retries only below the limit.
LEMMA DecidedRetry ==
    ASSUME TypeOK, NEW b \in Beads, NEW r, DecideFor(b, r) = "retry"
    PROVE  tracker[b].retries < MaxRetries
<1>1. tracker[b].retries \in Nat /\ MaxRetries \in Nat
  BY PipelineAssumption DEF TypeOK, Trackers
<1> QED
  BY <1>1 DEF DecideFor, Decide, Exhausted

LEMMA VerifyingWithin ==
    ASSUME TypeOK, TypeOK', Grounded, AllWithin, NEW c \in Beads,
           AgentClosed(c) \/ ExitFailed(c) \/ BeginVerify(c) \/ FinishVerify(c)
    PROVE  AllWithin'
<1>1. CASE ExitFailed(c)
  <2>1. c \in Completed
    BY <1>1, RunIsNotNoRun DEF ExitFailed, Takes, Completed
  <2> QED
    BY <1>1, <2>1, JudgedWithin, DecidedRetry DEF ExitFailed
<1>2. CASE FinishVerify(c)
  <2>1. c \in Completed
    BY <1>2 DEF FinishVerify, Grounded
  <2>2. PICK action, r, faults :
          /\ Perform(action, c, r, faults)
          /\ action = "retry" => DecideFor(c, r) = "retry" \/ "feedback" \in faults
    BY <1>2 DEF FinishVerify
  <2> QED
    BY <1>2, <2>1, <2>2, JudgedWithin, DecidedRetry DEF FinishVerify
<1>3. CASE AgentClosed(c)
  <2> SUFFICES ASSUME NEW b \in Beads PROVE Within(b)'
    BY DEF AllWithin
  <2>1. /\ UNCHANGED <<Active, Queued, status, pc, snap, queue, backoff>>
        /\ b \in Completed' => b \in Completed
    BY <1>3, RunIsNotNoRun DEF AgentClosed, Active, Queued, store, Completed, TypeOK
  <2>2. Excuses' >= Excuses
    BY <1>3, SpentType DEF AgentClosed, world, Excuses, Excusing
  <2>3. tracker'[b].retries \in {tracker[b].retries, 0}
    BY <1>3 DEF AgentClosed, NoTracker, NewTracker, TypeOK
  <2> QED
    BY <2>1, <2>2, <2>3, WithinUnmoved DEF AllWithin, ShownOpen
<1>4. CASE BeginVerify(c)
  <2> SUFFICES ASSUME NEW b \in Beads PROVE Within(b)'
    BY DEF AllWithin
  <2>1. /\ UNCHANGED <<Active, Queued, Completed, snap, queue, backoff, tracker>>
        /\ pc' = "verifying"
    BY <1>4 DEF BeginVerify, Active, Queued, Completed
  <2>2. /\ Excuses' >= Excuses
        /\ status'[b] = "open" => status[b] = "open"
    BY <1>4, PersistCosts DEF BeginVerify, UpdateStatus
  <2> QED
    BY <2>1, <2>2, WithinUnmoved DEF AllWithin, ShownOpen, Scanned
<1> QED
  BY <1>1, <1>2, <1>3, <1>4

LEMMA NextWithin ==
    TypeOK /\ TypeOK' /\ Grounded /\ AllWithin /\ [Next]_vars => AllWithin'
<1> SUFFICES ASSUME TypeOK, TypeOK', Grounded, AllWithin, [Next]_vars PROVE AllWithin'
  OBVIOUS
<1>1. CASE UNCHANGED vars
  BY <1>1 DEF vars, store, memory, world, AllWithin, Within, Tokens, ShownOpen,
              Remembered, Excuses, Active, Completed, Queued
<1>2. CASE Iterate
  BY <1>2, StartWithin, ScanningWithin, CheckCompletedWithin, TriageWithin,
     DequeueWithin, SpawnWithin, VerifyingWithin DEF Iterate
<1> QED
  BY <1>1, <1>2, EnvironmentWithin DEF Next

LEMMA InitWithin == Init => AllWithin
<1> SUFFICES ASSUME Init, NEW b \in Beads PROVE Within(b)
  BY DEF AllWithin
<1>1. Excuses = 0
  BY ReconcilerAssumption DEF Excuses, FaultKinds, Init
<1>2. b \notin Active /\ b \notin Completed /\ b \notin Queued
  BY DEF Active, Completed, Queued, NoEntry, Init
<1>3. Tokens(b) <= 1 /\ Tokens(b) \in Nat
  BY <1>2 DEF Tokens, One
<1>4. \A n \in Remembered(b) : n = 0
  BY DEF Remembered, NoEntry, NoBackoff, NoTracker, NewTracker, Init
<1>5. MaxRetries \in Nat
  BY PipelineAssumption
<1> QED
  BY <1>1, <1>3, <1>4, <1>5 DEF Within

\* Whatever is lost, reopened, downgraded or crashes, in whatever order: the
\* retries counted for a bead pass the limit by one, and by one more for each
\* downgrade, reopening and lost write (on_fail, decide, the queue's backoff).
THEOREM RetriesAlwaysBounded == Spec => []RetriesBounded
<1>1. TypeOK /\ AllWithin => RetriesBounded
  <2> SUFFICES ASSUME TypeOK, AllWithin PROVE RetriesBounded
    OBVIOUS
  <2>1. ASSUME NEW b \in Beads PROVE tracker[b].retries <= MaxRetries + 1 + Excuses
    <3>1. Tokens(b) \in Nat /\ tracker[b].retries \in Nat /\ MaxRetries \in Nat
      BY TokensType, PipelineAssumption DEF TypeOK, Trackers
    <3>2. Excuses \in Nat
      BY SpentType DEF Excuses, Excusing
    <3>3. tracker[b].retries + Tokens(b) <= MaxRetries + 1 + Excuses
      BY DEF AllWithin, Within, Remembered
    <3> QED
      BY <3>1, <3>2, <3>3
  <2>2. \A f \in Excusing : spent[f] \in Nat
    BY SpentType
  <2>3. MaxRetries + 1 + Excuses
          = MaxRetries + 1 + spent["feedback"] + spent["reopen"]
              + spent["meddle"] + spent["loss"]
    BY <2>2, PipelineAssumption DEF Excuses, Excusing
  <2> QED
    BY <2>1, <2>3 DEF RetriesBounded
<1> QED
  BY TypeCorrect, InitGrounded, NextGrounded, InitWithin, NextWithin, <1>1, PTL
     DEF Spec
-----------------------------------------------------------------------------
(***************************************************************************)
(* The ledger of dispatches.  Each worked bead has one open record, which  *)
(* its tracker names.  The record of a bead that its own agent closed is   *)
(* left open, and nothing may start the bead again on top of it: it is     *)
(* neither queued nor about to be, as long as nobody reopens it.           *)
(***************************************************************************)

\* No status write was lost and nothing was reopened.
Unrevived == Calm /\ NothingReopened

LEMMA UnrevivedBefore == TypeOK /\ [Next]_vars /\ Unrevived' => Unrevived
<1> SUFFICES ASSUME TypeOK, [Next]_vars, Unrevived' PROVE Unrevived
  OBVIOUS
<1>1. {"loss", "meddle", "reopen"} \subseteq Faults
  BY ReconcilerAssumption DEF FaultKinds
<1> QED
  BY <1>1, SpentGrows DEF Unrevived, Calm, NothingReopened

Left(b) ==
    /\ records[b] = 1
    /\ status[b] = "done"
    /\ b \notin Queued
    /\ pc \in Scanned => snap[b].status # "open"

Balanced(b) ==
    IF b \in Worked THEN records[b] = 1 /\ tracker[b].dispatch = "open"
                    ELSE /\ tracker[b].dispatch # "open"
                         /\ records[b] = 0 \/ Left(b)

LedgerInv == Unrevived /\ pc # "down" => \A b \in Beads : Balanced(b)

LEMMA LeftStays ==
    ASSUME TypeOK, [Next]_vars, NothingReopened', NEW b \in Beads, Left(b),
           records'[b] = records[b]
    PROVE  Left(b)'
<1>1. status'[b] = "done"
  BY ClosedStays, Unreopened DEF Left
<1>2. b \notin Queued'
  <2>1. SUFFICES ASSUME b \in Queued' PROVE FALSE
    OBVIOUS
  <2>2. pc = "triage" /\ b \in Candidates
    BY <2>1, QueueStep DEF Left
  <2> QED
    BY <2>2 DEF Left, Candidates, Scanned
<1>3. pc' \in Scanned => snap'[b].status # "open"
  <2>1. CASE Scan
    BY <2>1 DEF Scan, Left, Absent
  <2> QED
    BY <2>1, SnapshotStep DEF Left
<1> QED
  BY <1>1, <1>2, <1>3 DEF Left

LEMMA BalanceStays ==
    ASSUME TypeOK, [Next]_vars, NothingReopened', NEW b \in Beads, Balanced(b),
           records'[b] = records[b], tracker'[b] = tracker[b],
           b \in Worked' <=> b \in Worked
    PROVE  Balanced(b)'
  BY LeftStays DEF Balanced

\* A verdict closes the record the tracker names.
LEMMA CloseShuts ==
    ASSUME NEW t, Close(t) \in Trackers PROVE Close(t).dispatch # "open"
  BY DEF Close, Trackers

LEMMA PerformCloses ==
    ASSUME TypeOK, TypeOK', NEW b \in Beads, NEW action, NEW r, NEW faults,
           Perform(action, b, r, faults)
    PROVE  tracker'[b].dispatch # "open"
<1>1. PICK t : tracker' = [tracker EXCEPT ![b] = Close(t)]
  <2>1. CASE Advance(b, faults)
    BY <2>1 DEF Advance
  <2>2. CASE Terminal(b, faults)
    BY <2>2 DEF Terminal
  <2>3. CASE Retry(b, r, faults)
    BY <2>3 DEF Retry
  <2>4. CASE DeadLetter(b, r, faults)
    BY <2>4 DEF DeadLetter
  <2> QED
    BY <2>1, <2>2, <2>3, <2>4 DEF Perform
<1>2. tracker'[b] = Close(t) /\ tracker'[b] \in Trackers
  BY <1>1 DEF TypeOK
<1> QED
  BY <1>2, CloseShuts

LEMMA JudgedBalanced ==
    ASSUME TypeOK, TypeOK', RunInv, [Next]_vars, NothingReopened',
           \A b \in Beads : Balanced(b), NEW c \in Beads, c \in Completed,
           NEW action, NEW r, NEW faults, Perform(action, c, r, faults), Finish(c)
    PROVE  \A b \in Beads : Balanced(b)'
<1> SUFFICES ASSUME NEW b \in Beads PROVE Balanced(b)'
  OBVIOUS
<1>1. /\ Completed' = Completed \ {c} /\ Active' = Active
      /\ records' = [records EXCEPT ![c] = IF tracker[c].dispatch = "open"
                                             THEN @ - 1 ELSE @]
  BY DEF Finish, CloseRecord, Completed, Active, TypeOK
<1>2. CASE b = c
  <2>1. b \notin Worked'
    BY <1>1, <1>2 DEF Worked, RunInv, RunsApart
  <2>2. records[b] = 1 /\ tracker[b].dispatch = "open"
    BY <1>2 DEF Balanced, Worked
  <2>3. records'[b] = 0
    BY <1>1, <1>2, <2>2 DEF TypeOK
  <2> QED
    BY <1>2, <2>1, <2>3, PerformCloses DEF Balanced
<1>3. CASE b # c
  <2>1. records'[b] = records[b] /\ tracker'[b] = tracker[b]
    BY <1>1, <1>3, PerformCounts DEF TypeOK
  <2>2. b \in Worked' <=> b \in Worked
    BY <1>1, <1>3 DEF Worked
  <2> QED
    BY <2>1, <2>2, BalanceStays
<1> QED
  BY <1>2, <1>3

LEMMA IterateBalanced ==
    ASSUME TypeOK, TypeOK', RunInv, [Next]_vars, NothingReopened', pc # "down",
           \A b \in Beads : Balanced(b), Iterate
    PROVE  \A b \in Beads : Balanced(b)'
<1> SUFFICES ASSUME NEW b \in Beads PROVE Balanced(b)'
  OBVIOUS
<1>1. ASSUME UNCHANGED <<records, tracker, active, completed>> PROVE Balanced(b)'
  BY <1>1, BalanceStays DEF Worked, Active, Completed
<1>2. ~Start
  BY DEF Start
<1>3. CASE Scan \/ ScanVcs \/ PollPr \/ AutoAssign \/ Triage \/ DispatchDone \/ VerifyDone
  BY <1>1, <1>3 DEF Scan, ScanVcs, PollPr, AutoAssign, Triage, DispatchDone,
                    VerifyDone, store, memory
<1>4. CASE CheckCompleted
  <2>1. Completed = {}
    BY <1>4 DEF CheckCompleted, RunInv, PhasesApart, Judging
  <2>2. Active' \cup Completed' = Active
    BY <1>4 DEF CheckCompleted, Active, Completed
  <2> QED
    BY <1>4, <2>1, <2>2, BalanceStays DEF CheckCompleted, store, Worked
<1>5. ASSUME NEW c \in Beads, DropEntry(c) \/ SpawnFails(c) \/ BeginVerify(c)
      PROVE  Balanced(b)'
  BY <1>1, <1>5 DEF DropEntry, SpawnFails, BeginVerify, store
<1>6. ASSUME NEW c \in Beads, Spawn(c) PROVE Balanced(b)'
  <2>1. c \in Queued /\ c \notin Worked /\ records[c] = 0
    BY <1>6 DEF Spawn, Dequeue, Eligible, RunInv, QueuedFree, Balanced, Left
  <2>2. Active' = Active \cup {c} /\ Completed' = Completed
    BY <1>6, RunIsNotNoRun DEF Spawn, Active, Completed, TypeOK
  <2>3. CASE b = c
    <3>1. records'[b] = 1
      BY <1>6, <2>1, <2>3 DEF Spawn, TypeOK
    <3>2. tracker'[b].dispatch = "open"
      BY <1>6, <2>3 DEF Spawn, Dispatched, NewTracker, TypeOK, Trackers
    <3> QED
      BY <2>2, <2>3, <3>1, <3>2 DEF Balanced, Worked
  <2>4. CASE b # c
    BY <1>6, <2>2, <2>4, BalanceStays DEF Spawn, Worked, TypeOK
  <2> QED
    BY <2>3, <2>4
<1>7. ASSUME NEW c \in Beads, AgentClosed(c) PROVE Balanced(b)'
  <2>1. /\ c \in Completed /\ c \notin Active /\ c \notin Queued /\ status[c] = "done"
        /\ records[c] = 1
    BY <1>7 DEF AgentClosed, Completed, RunInv, RunsApart, QueuedFree, Worked, Balanced
  <2>2. /\ Completed' = Completed \ {c} /\ UNCHANGED <<Active, Queued, records, status>>
        /\ pc' \notin Scanned
    BY <1>7 DEF AgentClosed, Active, Completed, Queued, store, TypeOK, Scanned
  <2>3. CASE b = c
    <3>1. tracker'[b].dispatch = "none"
      BY <1>7, <2>3 DEF AgentClosed, NoTracker, NewTracker, TypeOK
    <3> QED
      BY <2>1, <2>2, <2>3, <3>1 DEF Balanced, Left, Worked
  <2>4. CASE b # c
    <3>1. tracker'[b] = tracker[b]
      BY <1>7, <2>4 DEF AgentClosed
    <3> QED
      BY <2>2, <2>4, <3>1, BalanceStays DEF Worked
  <2> QED
    BY <2>3, <2>4
<1>8. ASSUME NEW c \in Beads, ExitFailed(c) PROVE Balanced(b)'
  <2>1. c \in Completed
    BY <1>8, RunIsNotNoRun DEF ExitFailed, Takes, Completed
  <2> QED
    BY <1>8, <2>1, JudgedBalanced DEF ExitFailed
<1>9. ASSUME NEW c \in Beads, FinishVerify(c) PROVE Balanced(b)'
  <2>1. c \in Completed
    BY <1>9 DEF FinishVerify, RunInv, PhasesApart
  <2>2. PICK action, r, faults : Perform(action, c, r, faults)
    BY <1>9 DEF FinishVerify
  <2> QED
    BY <1>9, <2>1, <2>2, JudgedBalanced DEF FinishVerify
<1> QED
  BY <1>2, <1>3, <1>4, <1>5, <1>6, <1>7, <1>8, <1>9 DEF Iterate

LEMMA NextLedger ==
    TypeOK /\ TypeOK' /\ Grounded /\ CalmInv /\ LedgerInv /\ [Next]_vars => LedgerInv'
<1> SUFFICES ASSUME TypeOK, TypeOK', Grounded, CalmInv, LedgerInv, [Next]_vars,
                    Unrevived', pc' # "down"
             PROVE  \A b \in Beads : Balanced(b)'
  BY DEF LedgerInv
<1>1. Unrevived /\ RunInv /\ NothingReopened'
  BY UnrevivedBefore DEF CalmInv, Unrevived
<1>2. CASE Start
  <2> SUFFICES ASSUME NEW b \in Beads PROVE Balanced(b)'
    OBVIOUS
  <2>1. active[b] = NoRun /\ completed[b] = NoRun /\ tracker[b] = NoTracker
    BY <1>2 DEF Grounded, Start
  <2>2. b \notin Worked'
    BY <1>2, <2>1 DEF Start, Worked, Active, Completed
  <2>3. tracker'[b].dispatch = "none"
    BY <1>2, <2>1 DEF Start, NewTracker, NoTracker
  <2>4. records'[b] = 0
    BY <1>2 DEF Start
  <2> QED
    BY <2>2, <2>3, <2>4 DEF Balanced
<1>3. CASE ~Start
  <2>1. pc # "down"
    BY <1>3 DEF Next, Iterate, Environment, Scan, ScanVcs, PollPr, AutoAssign,
       CheckCompleted, Triage, DispatchDone, VerifyDone, DropEntry, SpawnFails,
       Spawn, Dequeue, AgentClosed, ExitFailed, BeginVerify, FinishVerify, Takes,
       Crash, AgentExits, OrphanExits, CloseBead, ReopenBead, EditBead, Commit,
       BackoffExpires, vars
  <2>2. \A b \in Beads : Balanced(b)
    BY <1>1, <2>1 DEF LedgerInv
  <2>3. CASE Iterate
    BY <1>1, <2>1, <2>2, <2>3, IterateBalanced
  <2>4. ASSUME NEW b \in Beads, UNCHANGED <<records, tracker>>, Worked' = Worked
        PROVE  Balanced(b)'
    BY <1>1, <2>2, <2>4, BalanceStays
  <2>5. CASE Environment
    <3>1. ~Crash
      BY DEF Crash
    <3>2. UNCHANGED <<records, tracker, Completed>>
      BY <2>5, <3>1 DEF Environment, AgentExits, OrphanExits, CloseBead, ReopenBead,
         EditBead, Commit, BackoffExpires, store, memory, Completed
    <3>3. Active' = Active
      <4>1. ASSUME NEW c \in Beads, AgentExits(c) PROVE Active' = Active
        BY <4>1, RunIsNotNoRun DEF AgentExits, Active, TypeOK
      <4>2. ASSUME NEW c \in Beads,
                   \/ OrphanExits(c) \/ CloseBead(c) \/ ReopenBead(c) \/ EditBead(c)
                   \/ Commit(c) \/ BackoffExpires(c)
            PROVE  Active' = Active
        BY <4>2 DEF OrphanExits, CloseBead, ReopenBead, EditBead, Commit,
                    BackoffExpires, memory, Active
      <4> QED
        BY <2>5, <3>1, <4>1, <4>2 DEF Environment
    <3> QED
      BY <2>4, <3>2, <3>3 DEF Worked
  <2>6. CASE UNCHANGED vars
    BY <2>4, <2>6 DEF vars, store, memory, Worked, Active, Completed
  <2> QED
    BY <2>3, <2>5, <2>6 DEF Next
<1> QED
  BY <1>2, <1>3

\* As long as no status write is lost and nothing is reopened, the ledger holds
\* one open record for each worked bead and none for any other, except for beads
\* that were closed under their agents, through crashes, restarts, failing spawns,
\* commits and unreadable handoffs (record_dispatch, complete_dispatch).
THEOREM LedgerAlwaysAccounted ==
    Spec => [](Calm /\ NothingReopened => LedgerAccounted)
<1>1. LedgerInv => (Calm /\ NothingReopened => LedgerAccounted)
  BY DEF LedgerInv, Unrevived, LedgerAccounted, Balanced, Left
<1>2. Init => LedgerInv
  BY DEF Init, LedgerInv
<1> QED
  BY TypeCorrect, InitGrounded, NextGrounded, InitRuns, NextRuns, NextLedger,
     <1>1, <1>2, PTL DEF Spec
-----------------------------------------------------------------------------
(***************************************************************************)
(* Nothing is stranded.  A bead the store shows as dispatched or verifying *)
(* has a run, unless the daemon died under it, a status write was lost, a  *)
(* worked bead was reopened, a commit claimed it or a handoff could not be *)
(* read: each of these really does strand one.                             *)
(***************************************************************************)

Undisturbed ==
    /\ Calm
    /\ \A f \in {"crash", "commit", "handoff"} : spent[f] = 0

Taken == {"dispatched", "verifying"}

ClaimInv ==
    Undisturbed =>
        /\ \A b \in Beads : status[b] \in Taken => b \in Worked
        /\ pc = "verifying" => status[current] \in {"verifying", "done"}
        /\ \A b \in Beads : refs[b] = {}

LEMMA UndisturbedBefore == TypeOK /\ [Next]_vars /\ Undisturbed' => Undisturbed
<1> SUFFICES ASSUME TypeOK, [Next]_vars, Undisturbed' PROVE Undisturbed
  OBVIOUS
<1>1. {"loss", "meddle", "crash", "commit", "handoff"} \subseteq Faults
  BY ReconcilerAssumption DEF FaultKinds
<1> QED
  BY <1>1, SpentGrows DEF Undisturbed, Calm

LEMMA UseUndisturbed ==
    ASSUME TypeOK, NEW faults, Use(faults), Undisturbed'
    PROVE  faults \cap {"loss", "meddle", "crash", "commit", "handoff"} = {}
<1>1. \A f \in {"loss", "meddle", "crash", "commit", "handoff"} :
        f \in Faults /\ spent[f] \in Nat
  BY ReconcilerAssumption DEF FaultKinds, TypeOK
<1>2. \A f \in {"loss", "meddle", "crash", "commit", "handoff"} : spent'[f] = 0
  BY DEF Undisturbed, Calm
<1> QED
  BY <1>1, <1>2 DEF Use

\* What the table allows from the states of a bead that is judged.
LEMMA TakenLeft ==
    /\ \A s \in {"verifying", "done"}, n \in {"open", "pr_open", "dead_letter"} :
          UpdateStatus(s, n) \notin Taken
    /\ \A n \in {"open", "dead_letter"} : UpdateStatus("dispatched", n) \notin Taken
    /\ \A s : UpdateStatus(s, "done") \in {s, "done"}
    /\ \A s \in Taken : UpdateStatus(s, "verifying") = "verifying"
  BY DEF UpdateStatus, CanTransition, ValidTransitions, Taken

LEMMA PerformReleases ==
    ASSUME TypeOK, NEW b \in Beads, NEW action, NEW r, NEW faults,
           Perform(action, b, r, faults), Undisturbed',
           \/ status[b] \in {"verifying", "done"}
           \/ status[b] = "dispatched" /\ action \in {"retry", "deadletter"}
    PROVE  status'[b] \notin Taken
<1>1. ASSUME NEW n \in {"open", "pr_open", "dead_letter"}, Persist(b, n, faults),
             n = "pr_open" => status[b] \in {"verifying", "done"}
      PROVE  status'[b] \notin Taken
  <2>1. status'[b] = UpdateStatus(status[b], n)
    BY <1>1, PersistCalm DEF Undisturbed, TypeOK
  <2> QED
    BY <1>1, <2>1, TakenLeft
<1>2. CASE action = "advance" /\ Advance(b, faults)
  <2>1. ~Use(faults \cup {"handoff"})
    BY UseUndisturbed
  <2> QED
    BY <1>1, <1>2, <2>1 DEF Advance
<1>3. CASE action = "terminal" /\ Terminal(b, faults)
  BY <1>1, <1>3 DEF Terminal
<1>4. CASE action = "retry" /\ Retry(b, r, faults)
  BY <1>1, <1>4 DEF Retry
<1>5. CASE action = "deadletter" /\ DeadLetter(b, r, faults)
  BY <1>1, <1>5 DEF DeadLetter
<1> QED
  BY <1>2, <1>3, <1>4, <1>5 DEF Perform

LEMMA NextClaim ==
    TypeOK /\ CalmInv /\ ClaimInv /\ [Next]_vars => ClaimInv'
<1> SUFFICES ASSUME TypeOK, CalmInv, ClaimInv, [Next]_vars, Undisturbed'
             PROVE  /\ \A b \in Beads : status'[b] \in Taken => b \in Worked'
                    /\ pc' = "verifying" => status'[current'] \in {"verifying", "done"}
                    /\ \A b \in Beads : refs'[b] = {}
  BY DEF ClaimInv
<1> DEFINE Goal == /\ \A b \in Beads : status'[b] \in Taken => b \in Worked'
                   /\ pc' = "verifying" => status'[current'] \in {"verifying", "done"}
                   /\ \A b \in Beads : refs'[b] = {}
<1>1. /\ Undisturbed /\ Calm' /\ RunInv
      /\ \A b \in Beads : status[b] \in Taken => b \in Worked
      /\ pc = "verifying" => status[current] \in {"verifying", "done"}
      /\ \A b \in Beads : refs[b] = {}
  BY UndisturbedBefore DEF ClaimInv, CalmInv, Undisturbed
<1>2. ASSUME \A b \in Beads : status'[b] \in Taken => status'[b] = status[b],
             Worked' = Worked, refs' = refs, pc' # "verifying"
      PROVE  Goal
  BY <1>1, <1>2
<1>3. CASE Start
  <2>1. Worked = {} /\ Worked' = {}
    BY <1>1, <1>3 DEF Start, RunInv, PhasesApart, Judging, Worked, Active, Completed
  <2>2. PersistAll([b \in Stuck |-> "open"], {}) /\ Stuck = {}
    BY <1>1, <1>3, <2>1 DEF Start, Stuck, Taken
  <2>3. \A b \in Beads : status'[b] = status[b]
    BY <1>1, <2>2, PersistAllCalm
  <2> QED
    BY <1>2, <1>3, <2>1, <2>3 DEF Start
<1>4. CASE ScanVcs
  <2>1. \A b \in Beads : status'[b] = status[b]
    <3>1. PICK want : /\ PersistAll(want, {})
                      /\ \A b \in DOMAIN want : b \in Beads /\ refs[b] # {}
      BY <1>4 DEF ScanVcs
    <3>2. DOMAIN want = {}
      BY <1>1, <3>1
    <3> QED
      BY <1>1, <3>1, <3>2, PersistAllCalm
  <2> QED
    BY <1>2, <1>4, <2>1 DEF ScanVcs, memory, Worked, Active, Completed
<1>5. CASE PollPr
  <2>1. \A b \in Beads : status'[b] \in {status[b], "done"}
    <3>1. PICK merged : PersistAll([b \in merged |-> "done"], {})
      BY <1>5 DEF PollPr
    <3> QED
      BY <1>1, <3>1, PersistAllCalm, TakenLeft
  <2> QED
    BY <1>2, <1>5, <2>1 DEF PollPr, memory, Worked, Active, Completed, Taken
<1>6. CASE CheckCompleted
  <2>1. Worked' = Worked
    BY <1>1, <1>6 DEF CheckCompleted, RunInv, PhasesApart, Judging, Worked, Active,
                      Completed
  <2> QED
    BY <1>2, <1>6, <2>1 DEF CheckCompleted, store, world
<1>7. CASE Scan \/ AutoAssign \/ Triage \/ DispatchDone \/ VerifyDone
  BY <1>2, <1>7 DEF Scan, AutoAssign, Triage, DispatchDone, VerifyDone, store,
                    memory, world, Worked, Active, Completed
<1>8. ASSUME NEW c \in Beads, DropEntry(c) \/ SpawnFails(c) PROVE Goal
  BY <1>2, <1>8 DEF DropEntry, SpawnFails, Dequeue, store, world, Worked, Active,
                    Completed
<1>9. ASSUME NEW c \in Beads, Spawn(c) PROVE Goal
  <2>1. Worked' = Worked \cup {c}
    BY <1>9, RunIsNotNoRun DEF Spawn, Worked, Active, Completed, TypeOK
  <2>2. \A b \in Beads \ {c} : status'[b] = status[b]
    BY <1>1, <1>9, PersistCalm DEF Spawn, TypeOK
  <2> QED
    BY <1>1, <1>9, <2>1, <2>2 DEF Spawn, Dequeue
<1>10. ASSUME NEW c \in Beads, c \in Completed, status'[c] \notin Taken,
              \A b \in Beads \ {c} : status'[b] = status[b], pc' = "verify",
              active' = active, completed' = [completed EXCEPT ![c] = NoRun],
              refs' = refs
       PROVE  Goal
  <2>1. \A b \in Beads \ {c} : b \in Worked => b \in Worked'
    BY <1>10 DEF Worked, Active, Completed, TypeOK
  <2> QED
    BY <1>1, <1>10, <2>1
<1>11. ASSUME NEW c \in Beads, AgentClosed(c) PROVE Goal
  BY <1>10, <1>11 DEF AgentClosed, store, world, Completed, Taken
<1>12. ASSUME NEW c \in Beads, ExitFailed(c) PROVE Goal
  <2>1. c \in Completed
    BY <1>12, RunIsNotNoRun DEF ExitFailed, Takes, Completed
  <2>2. status[c] \in {"dispatched", "verifying"}
    BY <1>1, <1>12, <2>1 DEF ExitFailed, RunInv, RunsApart
  <2>3. DecideFor(c, FailedExit) \in {"retry", "deadletter"}
    BY DEF DecideFor, Decide, FailedExit, Result
  <2>4. status'[c] \notin Taken
    BY <1>12, <2>2, <2>3, PerformReleases DEF ExitFailed
  <2>5. \A b \in Beads \ {c} : status'[b] = status[b]
    BY <1>1, <1>12, PerformStatus DEF ExitFailed
  <2> QED
    BY <1>10, <1>12, <2>1, <2>4, <2>5 DEF ExitFailed, Finish
<1>13. ASSUME NEW c \in Beads, FinishVerify(c) PROVE Goal
  <2>1. c \in Completed /\ status[c] \in {"verifying", "done"}
    BY <1>1, <1>13 DEF FinishVerify, RunInv, PhasesApart
  <2>2. PICK action, r, faults : Perform(action, c, r, faults)
    BY <1>13 DEF FinishVerify
  <2>3. status'[c] \notin Taken
    BY <2>1, <2>2, PerformReleases
  <2>4. \A b \in Beads \ {c} : status'[b] = status[b]
    BY <1>1, <2>2, PerformStatus
  <2> QED
    BY <1>10, <1>13, <2>1, <2>3, <2>4 DEF FinishVerify, Finish
<1>14. ASSUME NEW c \in Beads, BeginVerify(c) PROVE Goal
  <2>1. c \in Completed /\ UNCHANGED <<active, completed, refs>> /\ current' = c
    BY <1>14, RunIsNotNoRun DEF BeginVerify, Takes, Completed
  <2>2. status[c] \in Taken
    BY <1>1, <1>14, <2>1 DEF BeginVerify, RunInv, RunsApart, Taken
  <2>3. status' = [status EXCEPT ![c] = UpdateStatus(@, "verifying")]
    BY <1>1, <1>14, PersistCalm DEF BeginVerify
  <2>4. status'[c] = "verifying" /\ \A b \in Beads \ {c} : status'[b] = status[b]
    BY <2>2, <2>3, TakenLeft DEF TypeOK
  <2> QED
    BY <1>1, <2>1, <2>4 DEF Worked, Active, Completed
<1>15. ASSUME \A b \in Beads : status'[b] \in {status[b], "done"},
              Worked' = Worked, UNCHANGED <<refs, pc, current>>
       PROVE  Goal
  <2>1. pc = "verifying" => current \in Beads
    BY <1>1 DEF RunInv, PhasesApart, Completed
  <2> QED
    BY <1>1, <1>15, <2>1 DEF Taken
<1>16. ASSUME NEW c \in Beads, AgentExits(c) PROVE Goal
  <2>1. Worked' = Worked
    BY <1>16, RunIsNotNoRun DEF AgentExits, Worked, Active, Completed, TypeOK
  <2> QED
    BY <1>15, <1>16, <2>1 DEF AgentExits, store, world
<1>17. ASSUME NEW c \in Beads,
              OrphanExits(c) \/ CloseBead(c) \/ EditBead(c) \/ BackoffExpires(c)
       PROVE  Goal
  <2>1. Worked' = Worked /\ UNCHANGED <<refs, pc, current>>
    BY <1>17 DEF OrphanExits, CloseBead, EditBead, BackoffExpires, memory, world,
                 Worked, Active, Completed
  <2>2. \A b \in Beads : status'[b] \in {status[b], "done"}
    BY <1>17 DEF OrphanExits, CloseBead, EditBead, BackoffExpires, store, TypeOK
  <2> QED
    BY <1>15, <2>1, <2>2
<1>18. ASSUME NEW c \in Beads, Commit(c) PROVE Goal
  BY <1>18, UseUndisturbed DEF Commit
<1>19. ASSUME NEW c \in Beads, ReopenBead(c) PROVE Goal
  <2>1. c \notin Worked
    BY <1>19, UseUndisturbed DEF ReopenBead, Worked
  <2>2. status'[c] = "open" /\ \A b \in Beads \ {c} : status'[b] = status[b]
    BY <1>19, StatusFacts DEF ReopenBead, TypeOK
  <2>3. UNCHANGED <<refs, pc, current, Worked>>
    BY <1>19 DEF ReopenBead, memory, Worked, Active, Completed
  <2>4. pc = "verifying" => current \in Beads \ {c}
    BY <1>1, <2>1 DEF RunInv, PhasesApart, Worked, Completed
  <2> QED
    BY <1>1, <2>2, <2>3, <2>4 DEF Taken
<1>20. CASE UNCHANGED vars
  BY <1>15, <1>20 DEF vars, store, memory, world, Worked, Active, Completed
<1>21. CASE Crash
  BY <1>21, UseUndisturbed DEF Crash
<1> QED
  BY <1>3, <1>4, <1>5, <1>6, <1>7, <1>8, <1>9, <1>11, <1>12, <1>13, <1>14, <1>16,
     <1>17, <1>18, <1>19, <1>20, <1>21 DEF Next, Iterate, Environment

\* What the store shows as dispatched or verifying has a run whose end the
\* daemon will see, through failing spawns and agents, errors of the verifier,
\* edits, closings and reopenings, until the first crash, lost status write,
\* reopening of a worked bead, commit that claims a bead or unreadable handoff
\* (persist_status, check_completed, on_pass, on_fail).
THEOREM NothingStranded == Spec => [](Undisturbed => ClaimedIsWorked)
<1>1. ClaimInv => (Undisturbed => ClaimedIsWorked)
  BY DEF ClaimInv, ClaimedIsWorked, Taken
<1>2. Init => ClaimInv
  BY DEF Init, ClaimInv, Taken
<1> QED
  BY TypeCorrect, InitRuns, NextRuns, NextClaim, <1>1, <1>2, PTL DEF Spec
=============================================================================
