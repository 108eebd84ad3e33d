--------------------------- MODULE TargetedProofs ---------------------------
(***************************************************************************)
(* Theorems about TargetedRun for all pipelines, limits, start states and  *)
(* faults: what the run reports is what the store shows, and the agents it *)
(* starts are bounded by its retry budget.                                 *)
(***************************************************************************)
EXTENDS TargetedRun, TLAPS

(***************************************************************************)
(* Lemmas about the pipeline and the writes.                               *)
(***************************************************************************)

\* BeadStore::update_status leaves a legal status, whatever it is asked for.
LEMMA UpdatedState ==
    ASSUME NEW s \in States, NEW n
    PROVE  UpdateStatus(s, n) \in States
<1>1. ValidTransitions[s] \subseteq States
  BY DEF ValidTransitions, States
<1> QED
  BY <1>1 DEF UpdateStatus, CanTransition

\* PipelineEngine::agents_for returns a sequence of agents.
LEMMA AgendaType == ASSUME NEW type PROVE AgentsFor(type) \in Seq(Agents)
<1>1. ASSUME NEW agents \in Seq(Agents) PROVE Truncated(agents) \in Seq(Agents)
  <2>1. CASE MaxDepth > 0 /\ Len(agents) > MaxDepth
    <3>1. SubSeq(agents, 1, MaxDepth) \in Seq(Agents)
      BY <2>1, PipelineAssumption
    <3> QED
      BY <2>1, <3>1 DEF Truncated
  <2> QED
    BY <2>1 DEF Truncated
<1>2. <<FallbackAgent>> \in Seq(Agents)
  BY PipelineAssumption
<1> QED
  BY <1>1, <1>2, PipelineAssumption DEF AgentsFor

\* The first agent of a pipeline always exists.
LEMMA FirstAgent == ASSUME NEW type PROVE DefaultAgent(type) \in Agents
<1>1. AgentsFor(type) \in Seq(Agents)
  BY AgendaType
<1>2. AgentsFor(type) # <<>> => AgentsFor(type)[1] \in Agents
  BY <1>1
<1> QED
  BY <1>2, PipelineAssumption DEF DefaultAgent

\* The next agent, if there is one, stands behind a place of the present one.
LEMMA NextPlace ==
    ASSUME NEW type, NEW agent, NextAgent(type, agent) # NoAgent
    PROVE  \E i \in 1..(Len(AgentsFor(type)) - 1) :
              /\ AgentsFor(type)[i] = agent
              /\ NextAgent(type, agent) = AgentsFor(type)[i + 1]
              /\ NextAgent(type, agent) \in Agents
<1> DEFINE agents == AgentsFor(type)
           Here(i) == IsFirstPlace(agents, agent, i)
           place == CHOOSE i \in 1..(Len(agents) - 1) : Here(i)
<1>1. agents \in Seq(Agents)
  BY AgendaType
<1>2. \E i \in 1..(Len(agents) - 1) : Here(i)
  BY DEF NextAgent
<1>3. place \in 1..(Len(agents) - 1) /\ Here(place)
  BY <1>2
<1>4. agents[place] = agent
  BY <1>3 DEF IsFirstPlace
<1>5. place + 1 \in 1..Len(agents) /\ 1 + place = place + 1
  BY <1>1, <1>3
<1>6. NextAgent(type, agent) = agents[place + 1]
  BY <1>2, <1>5 DEF NextAgent
<1>7. agents[place + 1] \in Agents
  BY <1>1, <1>5
<1> QED
  BY <1>3, <1>4, <1>6, <1>7

LEMMA NextAgentIsAgent ==
    ASSUME NEW type, NEW agent
    PROVE  NextAgent(type, agent) \in Agents \cup {NoAgent}
  BY NextPlace

\* A best-effort write: legal statuses, counters that only grow.
LEMMA PersistKeeps ==
    ASSUME TargetTypeOK, NEW wanted, TargetPersist(wanted)
    PROVE  /\ tgStatus' \in States
           /\ tgSpent' \in [TargetFaultKinds -> Nat]
           /\ \A f \in TargetFaultKinds : tgSpent'[f] >= tgSpent[f]
           /\ tgSpent'["loss"] = tgSpent["loss"] =>
                 tgStatus' = UpdateStatus(tgStatus, wanted)
<1>1. "loss" \in TargetFaultKinds
  BY DEF TargetFaultKinds
<1>2. CASE tgStatus' = UpdateStatus(tgStatus, wanted) /\ UNCHANGED tgSpent
  BY <1>2, UpdatedState DEF TargetTypeOK
<1>3. CASE UNCHANGED tgStatus /\ TargetUse("loss")
  BY <1>1, <1>3 DEF TargetUse, TargetTypeOK
<1> QED
  BY <1>2, <1>3 DEF TargetPersist

LEMMA FaultKeeps ==
    ASSUME TargetTypeOK, NEW f \in TargetFaultKinds, TargetUse(f)
    PROVE  /\ tgSpent' \in [TargetFaultKinds -> Nat]
           /\ \A g \in TargetFaultKinds : tgSpent'[g] >= tgSpent[g]
           /\ tgSpent'[f] > 0
  BY DEF TargetUse, TargetTypeOK

-----------------------------------------------------------------------------
(***************************************************************************)
(* Types.                                                                  *)
(***************************************************************************)

TrackerType == [known : BOOLEAN, agent : Agents \cup {NoAgent},
                phase : Nat, retries : Nat, reverts : Nat]
ToldType == [passed : BOOLEAN, dead : BOOLEAN, dispatched : BOOLEAN]

LEMMA TypeOKFields ==
    TargetTypeOK => tgTracker \in TrackerType /\ tgTold \in ToldType
  BY DEF TargetTypeOK, TrackerType, ToldType

\* One field of a tracker changes, the others stay.
LEMMA TrackerChange ==
    ASSUME NEW t \in TrackerType, NEW n \in Nat, NEW a \in Agents \cup {NoAgent}
    PROVE  /\ [t EXCEPT !.known = TRUE] \in TrackerType
           /\ [t EXCEPT !.known = TRUE].retries = t.retries
           /\ [t EXCEPT !.agent = a] \in TrackerType
           /\ [t EXCEPT !.agent = a].retries = t.retries
           /\ [t EXCEPT !.agent = a].phase = t.phase
           /\ [t EXCEPT !.agent = a].agent = a
           /\ [t EXCEPT !.phase = n] \in TrackerType
           /\ [t EXCEPT !.phase = n].retries = t.retries
           /\ [t EXCEPT !.phase = n].agent = t.agent
           /\ [t EXCEPT !.retries = n] \in TrackerType
           /\ [t EXCEPT !.retries = n].retries = n
           /\ [t EXCEPT !.retries = n].agent = t.agent
           /\ [t EXCEPT !.reverts = n] \in TrackerType
           /\ [t EXCEPT !.reverts = n].retries = t.retries
           /\ [t EXCEPT !.reverts = n].agent = t.agent
           /\ [t EXCEPT !.reverts = n].phase = t.phase
  BY DEF TrackerType

\* The tracker after a start, an advance and a counted failure.
LEMMA TrackerStarted ==
    ASSUME NEW t \in TrackerType, NEW a \in Agents \cup {NoAgent}
    PROVE  LET u == [t EXCEPT !.known = TRUE, !.agent = a]
           IN  u \in TrackerType /\ u.retries = t.retries /\ u.agent = a
<1> DEFINE t1 == [t EXCEPT !.known = TRUE]
<1>1. t1 \in TrackerType /\ t1.retries = t.retries
  BY TrackerChange
<1> HIDE DEF t1
<1>2. LET u == [t1 EXCEPT !.agent = a]
      IN  u \in TrackerType /\ u.retries = t.retries /\ u.agent = a
  BY <1>1, TrackerChange
<1> QED
  BY <1>2 DEF t1

LEMMA TrackerAdvanced ==
    ASSUME NEW t \in TrackerType, NEW a \in Agents \cup {NoAgent}
    PROVE  LET u == [t EXCEPT !.reverts = 0, !.agent = a, !.phase = @ + 1]
           IN  u \in TrackerType /\ u.retries = t.retries /\ u.agent = a
<1> DEFINE t1 == [t EXCEPT !.reverts = 0]
           t2 == [t1 EXCEPT !.agent = a]
<1>1. t1 \in TrackerType /\ t1.retries = t.retries /\ t1.phase = t.phase
  BY TrackerChange
<1> HIDE DEF t1
<1>2. /\ t2 \in TrackerType /\ t2.retries = t.retries /\ t2.agent = a
      /\ t2.phase = t.phase
  BY <1>1, TrackerChange
<1>3. t.phase + 1 \in Nat
  BY DEF TrackerType
<1> HIDE DEF t2
<1>4. LET u == [t2 EXCEPT !.phase = t.phase + 1]
      IN  u \in TrackerType /\ u.retries = t.retries /\ u.agent = a
  BY <1>2, <1>3, TrackerChange
<1> QED
  BY <1>4 DEF t1, t2

LEMMA TrackerCounted ==
    ASSUME NEW t \in TrackerType, NEW n \in Nat
    PROVE  LET u == [t EXCEPT !.retries = @ + 1, !.reverts = n]
           IN  u \in TrackerType /\ u.retries = t.retries + 1
<1> DEFINE t1 == [t EXCEPT !.retries = t.retries + 1]
<1>1. t.retries + 1 \in Nat
  BY DEF TrackerType
<1>2. t1 \in TrackerType /\ t1.retries = t.retries + 1
  BY <1>1, TrackerChange
<1> HIDE DEF t1
<1>3. LET u == [t1 EXCEPT !.reverts = n]
      IN  u \in TrackerType /\ u.retries = t.retries + 1
  BY <1>2, TrackerChange
<1> QED
  BY <1>3 DEF t1

LEMMA TargetInitType == TargetInit => TargetTypeOK
<1>1. TargetInit => tgOwner \in Agents \cup {NoAgent}
  BY FirstAgent DEF TargetInit
<1>2. TargetInit => tgSpent \in [TargetFaultKinds -> Nat]
  BY DEF TargetInit
<1>3. Forgotten \in TrackerType
  BY DEF Forgotten, TrackerType
<1>4. "done" \in States
  BY DEF States
<1>5. Nothing \in ToldType
  BY DEF Nothing, ToldType
<1>6. TargetInit => tgScan \in [status : States, owner : Agents \cup {NoAgent}]
  BY <1>4 DEF TargetInit
<1>7. TargetInit => tgTracker \in TrackerType /\ tgTold \in ToldType
  BY <1>3, <1>5 DEF TargetInit
<1>8. TargetInit => tgStatus \in States
  BY TargetAssumption DEF TargetInit
<1>9. TargetInit =>
         /\ tgType \in IssueTypes /\ tgStep = "scan" /\ tgRun = "none"
         /\ tgQueued \in BOOLEAN /\ tgBackoff = "none"
  BY Zenon DEF TargetInit
<1>10. TargetInit => tgAttempts \in Nat
  BY DEF TargetInit
<1> QED
  BY <1>1, <1>2, <1>6, <1>7, <1>8, <1>9, <1>10, Zenon DEF TargetTypeOK, TrackerType, ToldType

LEMMA DispatchType ==
    TargetTypeOK /\ (TargetSpawn \/ TargetSpawnFails \/ InlineSpawn) => TargetTypeOK'
<1> SUFFICES ASSUME TargetTypeOK, TargetSpawn \/ TargetSpawnFails \/ InlineSpawn
             PROVE  TargetTypeOK'
  OBVIOUS
<1> USE TargetAssumption
<1>1. CASE TargetSpawn
  <2>1. tgTracker' \in TrackerType
    BY <1>1, TypeOKFields, TrackerStarted DEF TargetSpawn, TargetTypeOK
  <2>2. tgOwner' \in Agents
    BY <1>1, FirstAgent DEF TargetSpawn, TargetDequeues
  <2>3. tgTold' \in ToldType
    BY <1>1, TypeOKFields DEF TargetSpawn, ToldType
  <2>4. tgStatus' \in States /\ tgSpent' \in [TargetFaultKinds -> Nat]
    BY <1>1, PersistKeeps DEF TargetSpawn
  <2>5. /\ UNCHANGED <<tgType, tgScan, tgBackoff>> /\ tgRun' = "running"
        /\ tgQueued' = FALSE /\ tgStep' = "wait" /\ tgAttempts' = tgAttempts + 1
    BY <1>1 DEF TargetSpawn, TargetDequeues
  <2>6. tgAttempts' \in Nat
    BY <2>5 DEF TargetTypeOK
  <2>7. /\ tgType' \in IssueTypes /\ tgQueued' \in BOOLEAN
        /\ tgScan' \in [status : States, owner : Agents \cup {NoAgent}]
        /\ tgBackoff' \in {"none", "waiting", "over"}
    BY <2>5, Zenon DEF TargetTypeOK
  <2> QED
    BY <2>1, <2>2, <2>3, <2>4, <2>5, <2>6, <2>7, Zenon
       DEF TargetTypeOK, TrackerType, ToldType
<1>2. CASE TargetSpawnFails
  <2>1. tgOwner' \in Agents
    BY <1>2, FirstAgent DEF TargetSpawnFails, TargetDequeues
  <2>2. tgSpent' \in [TargetFaultKinds -> Nat]
    BY <1>2, FaultKeeps DEF TargetSpawnFails, TargetFaultKinds
  <2> QED
    BY <1>2, <2>1, <2>2 DEF TargetSpawnFails, TargetDequeues, TargetTypeOK
<1>3. CASE InlineSpawn
  <2>1. tgStatus' \in States /\ tgSpent' \in [TargetFaultKinds -> Nat]
    BY <1>3, PersistKeeps DEF InlineSpawn
  <2> QED
    BY <1>3, <2>1 DEF InlineSpawn, TargetTypeOK
<1> QED
  BY <1>1, <1>2, <1>3

LEMMA RecordType ==
    ASSUME TargetTypeOK, NEW action
    PROVE  LET told == RecordOutcome(action, tgTold)
           IN  /\ told \in ToldType
               /\ told.passed = (tgTold.passed \/ action = "terminal")
               /\ told.dead = (tgTold.dead \/ action = "deadletter")
<1> DEFINE t1 == [tgTold EXCEPT !.passed = tgTold.passed \/ action = "terminal"]
           t2 == [t1 EXCEPT !.dead = t1.dead \/ action = "deadletter"]
<1>1. tgTold \in ToldType
  BY TypeOKFields
<1>2. /\ t1 \in ToldType /\ t1.dead = tgTold.dead
      /\ t1.passed = (tgTold.passed \/ action = "terminal")
  BY <1>1 DEF ToldType
<1> HIDE DEF t1
<1>3. /\ t2 \in ToldType /\ t2.passed = t1.passed
      /\ t2.dead = (t1.dead \/ action = "deadletter")
  BY <1>2 DEF ToldType
<1>4. RecordOutcome(action, tgTold) = t2
  BY <1>2 DEF RecordOutcome, t1
<1> QED
  BY <1>2, <1>3, <1>4

LEMMA CountsType ==
    ASSUME TargetTypeOK, NEW r, TargetCounts(r)
    PROVE  /\ tgTracker' \in TrackerType
           /\ tgTracker'.retries = tgTracker.retries + 1
<1>1. PICK n \in {tgTracker.reverts} \cup (IF r = "exit" THEN {}
                                           ELSE {0, tgTracker.reverts + 1}) :
         tgTracker' = [tgTracker EXCEPT !.retries = @ + 1, !.reverts = n]
  BY DEF TargetCounts
<1>2. tgTracker \in TrackerType /\ n \in Nat
  BY TypeOKFields DEF TrackerType
<1> QED
  BY <1>1, <1>2, TrackerCounted

LEMMA JudgedType ==
    /\ TargetTypeOK
    /\ TargetJudge \/ TargetAdvances \/ TargetCompletes \/ TargetRetries \/ TargetDies
    => TargetTypeOK'
<1> SUFFICES ASSUME TargetTypeOK,
                    TargetJudge \/ TargetAdvances \/ TargetCompletes
                       \/ TargetRetries \/ TargetDies
             PROVE  TargetTypeOK'
  OBVIOUS
<1>1. CASE TargetJudge
  <2>1. tgStatus' \in States /\ tgSpent' \in [TargetFaultKinds -> Nat]
    BY <1>1, PersistKeeps DEF TargetJudge, TargetTypeOK
  <2> QED
    BY <1>1, <2>1 DEF TargetJudge, TargetTypeOK
<1>2. CASE TargetAdvances
  <2> DEFINE next == NextAgent(tgType, tgTracker.agent)
  <2>1. next \in Agents \cup {NoAgent}
    BY NextAgentIsAgent
  <2>2. CASE /\ tgTracker' = [tgTracker EXCEPT !.reverts = 0, !.agent = next,
                                               !.phase = @ + 1]
             /\ tgOwner' = next
             /\ TargetPersist("open")
    <3>1. tgTracker' \in TrackerType
      BY <2>1, <2>2, TypeOKFields, TrackerAdvanced
    <3>2. tgStatus' \in States /\ tgSpent' \in [TargetFaultKinds -> Nat]
      BY <2>2, PersistKeeps
    <3> QED
      BY <1>2, <2>1, <2>2, <3>1, <3>2
         DEF TargetAdvances, TargetJudged, TargetTypeOK, TrackerType, ToldType
  <2>3. CASE /\ TargetUse("handoff")
             /\ tgTracker' = [tgTracker EXCEPT !.reverts = 0]
             /\ UNCHANGED <<tgStatus, tgOwner>>
    <3>1. tgSpent' \in [TargetFaultKinds -> Nat]
      BY <2>3, FaultKeeps DEF TargetFaultKinds
    <3>2. tgTracker' \in TrackerType
      BY <2>3 DEF TargetTypeOK, TrackerType
    <3> QED
      BY <1>2, <2>3, <3>1, <3>2
         DEF TargetAdvances, TargetJudged, TargetTypeOK, TrackerType, ToldType
  <2> QED
    BY <1>2, <2>2, <2>3 DEF TargetAdvances
<1>3. CASE TargetCompletes
  <2>1. tgStatus' \in States /\ tgSpent' \in [TargetFaultKinds -> Nat]
    BY <1>3, PersistKeeps DEF TargetCompletes
  <2>2. tgTracker' \in TrackerType
    BY <1>3 DEF TargetCompletes, TargetTypeOK, TrackerType
  <2> QED
    BY <1>3, <2>1, <2>2, RecordType
       DEF TargetCompletes, TargetJudged, TargetTypeOK, TrackerType, ToldType
<1>4. CASE TargetRetries
  <2>1. tgStatus' \in States /\ tgSpent' \in [TargetFaultKinds -> Nat]
    BY <1>4, PersistKeeps DEF TargetRetries
  <2>2. tgTracker' \in TrackerType
    BY <1>4, CountsType DEF TargetRetries
  <2> QED
    BY <1>4, <2>1, <2>2, RecordType
       DEF TargetRetries, TargetJudged, TargetTypeOK, TrackerType, ToldType
<1>5. CASE TargetDies
  <2>1. tgStatus' \in States /\ tgSpent' \in [TargetFaultKinds -> Nat]
    BY <1>5, PersistKeeps DEF TargetDies
  <2>2. tgTracker' \in TrackerType
    BY <1>5, CountsType DEF TargetDies
  <2> QED
    BY <1>5, <2>1, <2>2, RecordType
       DEF TargetDies, TargetJudged, TargetTypeOK, TrackerType, ToldType
<1> QED
  BY <1>1, <1>2, <1>3, <1>4, <1>5

LEMMA TargetNextType == TargetTypeOK /\ [TargetNext]_targetVars => TargetTypeOK'
<1> SUFFICES ASSUME TargetTypeOK, [TargetNext]_targetVars
             PROVE  TargetTypeOK'
  OBVIOUS
<1>1. CASE TargetScan
  <2>1. tgOwner' \in Agents \cup {NoAgent}
    BY <1>1, FirstAgent DEF TargetScan, TargetTypeOK
  <2> QED
    BY <1>1, <2>1 DEF TargetScan, TargetTypeOK
<1>2. CASE TargetTriage
  BY <1>2 DEF TargetTriage, TargetTypeOK, Admits
<1>3. CASE TargetIdle
  BY <1>3 DEF TargetIdle, TargetTypeOK
<1>4. CASE TargetSpawn \/ TargetSpawnFails \/ InlineSpawn
  BY <1>4, DispatchType
<1>5. CASE TargetJudge \/ TargetAdvances \/ TargetCompletes \/ TargetRetries \/ TargetDies
  BY <1>5, JudgedType
<1>6. CASE InlineSpawnFails
  <2>1. tgSpent' \in [TargetFaultKinds -> Nat]
    BY <1>6, FaultKeeps DEF InlineSpawnFails, TargetFaultKinds
  <2>2. tgStatus' \in States
    BY <1>6, UpdatedState DEF InlineSpawnFails, TargetTypeOK
  <2>3. tgTracker' \in TrackerType
    BY <1>6 DEF InlineSpawnFails, Forgotten, TrackerType
  <2> QED
    BY <1>6, <2>1, <2>2, <2>3, RecordType
       DEF InlineSpawnFails, TargetTypeOK, TrackerType, ToldType
<1>7. CASE NothingToWaitFor \/ TargetEnds \/ TargetGoesOn
  BY <1>7 DEF NothingToWaitFor, TargetEnds, TargetGoesOn, TargetTypeOK
<1>8. CASE TargetExits \/ TargetBackoffEnds
  BY <1>8 DEF TargetExits, TargetBackoffEnds, TargetTypeOK
<1>9. CASE TargetClosed
  <2>1. tgSpent' \in [TargetFaultKinds -> Nat]
    BY <1>9, FaultKeeps DEF TargetClosed, TargetFaultKinds
  <2> QED
    BY <1>9, <2>1 DEF TargetClosed, TargetTypeOK, States
<1>10. CASE UNCHANGED targetVars
  BY <1>10 DEF targetVars, TargetTypeOK
<1> QED
  BY <1>1, <1>2, <1>3, <1>4, <1>5, <1>6, <1>7, <1>8, <1>9, <1>10
     DEF TargetNext, TargetProcess

\* Every variable of a targeted run keeps to its values.
THEOREM TargetTypeCorrect == TargetSpec => []TargetTypeOK
  BY TargetInitType, TargetNextType, PTL DEF TargetSpec

-----------------------------------------------------------------------------
(***************************************************************************)
(* The report and the store.                                               *)
(***************************************************************************)

Reported == tgTold.passed \/ tgTold.dead

\* Where a run is when it has an agent or a report, and what the stored state
\* can be there while no write has been lost.
ReportInv ==
    /\ Reported => tgStep \in {"check", "ended"}
    /\ tgRun # "none" => tgStep \in {"wait", "tiers"}
    /\ tgStep = "tiers" => tgRun \in {"ok", "failed"}
    /\ tgSpent["loss"] = 0 =>
          /\ tgRun # "none" => tgStatus \notin {"open", "queued"}
          /\ tgStep = "tiers" /\ tgRun = "ok" => tgStatus # "dispatched"
          /\ tgSpent["spawn"] = 0 /\ Reported => tgStatus \notin Pending

\* Where the table lets the writes of a run lead.
LEMMA WrittenState ==
    ASSUME NEW s \in States
    PROVE  /\ UpdateStatus(s, "dispatched") \notin {"open", "queued"}
           /\ s \notin {"open", "queued"} =>
                 /\ UpdateStatus(s, "verifying")
                       \notin {"open", "queued", "dispatched"}
                 /\ UpdateStatus(s, "dead_letter") \notin Pending
           /\ s \notin {"open", "queued", "dispatched"} =>
                 UpdateStatus(s, "pr_open") \notin Pending
  BY DEF States, Pending, UpdateStatus, CanTransition, ValidTransitions

\* Faults are never forgotten.
LEMMA SpentGrows ==
    TargetTypeOK /\ [TargetNext]_targetVars =>
       \A f \in TargetFaultKinds :
          /\ tgSpent[f] \in Nat /\ tgSpent'[f] \in Nat
          /\ tgSpent'[f] >= tgSpent[f]
<1> SUFFICES ASSUME TargetTypeOK, [TargetNext]_targetVars
             PROVE  \A f \in TargetFaultKinds : tgSpent'[f] >= tgSpent[f]
  BY TargetNextType DEF TargetTypeOK
<1> USE DEF TargetFaultKinds
<1>1. CASE tgSpent' = tgSpent
  BY <1>1 DEF TargetTypeOK
<1>2. ASSUME NEW wanted, TargetPersist(wanted)
      PROVE  \A f \in TargetFaultKinds : tgSpent'[f] >= tgSpent[f]
  BY <1>2, PersistKeeps
<1>3. ASSUME NEW f \in TargetFaultKinds, TargetUse(f)
      PROVE  \A g \in TargetFaultKinds : tgSpent'[g] >= tgSpent[g]
  BY <1>3, FaultKeeps
<1>4. CASE TargetSpawn
  BY <1>2, <1>4 DEF TargetSpawn
<1>5. CASE TargetSpawnFails
  BY <1>3, <1>5 DEF TargetSpawnFails
<1>6. CASE TargetJudge
  BY <1>1, <1>2, <1>6 DEF TargetJudge
<1>7. CASE TargetAdvances
  <2>1. TargetPersist("open") \/ TargetUse("handoff")
    BY <1>7 DEF TargetAdvances
  <2> QED
    BY <1>2, <1>3, <2>1
<1>8. CASE TargetCompletes
  BY <1>2, <1>8 DEF TargetCompletes
<1>9. CASE TargetRetries
  BY <1>2, <1>9 DEF TargetRetries
<1>10. CASE TargetDies
  BY <1>2, <1>10 DEF TargetDies
<1>11. CASE InlineSpawn
  BY <1>2, <1>11 DEF InlineSpawn
<1>12. CASE InlineSpawnFails
  BY <1>3, <1>12 DEF InlineSpawnFails
<1>13. CASE TargetClosed
  BY <1>3, <1>13 DEF TargetClosed
<1>14. CASE \/ TargetScan \/ TargetTriage \/ TargetIdle \/ NothingToWaitFor
            \/ TargetEnds \/ TargetGoesOn \/ TargetExits \/ TargetBackoffEnds
            \/ UNCHANGED targetVars
  BY <1>1, <1>14
     DEF TargetScan, TargetTriage, TargetIdle, NothingToWaitFor, TargetEnds,
         TargetGoesOn, TargetExits, TargetBackoffEnds, targetVars
<1> QED
  BY <1>4, <1>5, <1>6, <1>7, <1>8, <1>9, <1>10, <1>11, <1>12, <1>13, <1>14
     DEF TargetNext, TargetProcess

\* A pass forgets that something was dispatched before it, and nothing else.
LEMMA ToldKept ==
    ASSUME TargetTypeOK, NEW d \in BOOLEAN,
           tgTold' = [tgTold EXCEPT !.dispatched = d]
    PROVE  Reported' = Reported
  BY TypeOKFields DEF ToldType, Reported

LEMMA ReportInit == TargetInit => ReportInv
<1>1. ~Nothing.passed /\ ~Nothing.dead
  BY DEF Nothing
<1>2. TargetInit => tgTold = Nothing /\ tgRun = "none" /\ tgStep = "scan"
  BY DEF TargetInit
<1> QED
  BY <1>1, <1>2 DEF ReportInv, Reported

LEMMA ReportNext ==
    TargetTypeOK /\ ReportInv /\ [TargetNext]_targetVars => ReportInv'
<1> SUFFICES ASSUME TargetTypeOK, ReportInv, [TargetNext]_targetVars
             PROVE  ReportInv'
  OBVIOUS
<1>1. /\ "loss" \in TargetFaultKinds /\ "spawn" \in TargetFaultKinds
      /\ tgStatus \in States
  BY DEF TargetFaultKinds, TargetTypeOK
<1>2. /\ tgSpent'["loss"] = 0 => tgSpent["loss"] = 0
      /\ tgSpent'["spawn"] = 0 => tgSpent["spawn"] = 0
  BY <1>1, SpentGrows
<1>3. ASSUME NEW wanted, TargetPersist(wanted), tgSpent'["loss"] = 0
      PROVE  tgStatus' = UpdateStatus(tgStatus, wanted)
  BY <1>1, <1>2, <1>3, PersistKeeps
<1>4. CASE TargetTriage
  <2>1. Reported' = Reported
    BY <1>4, ToldKept DEF TargetTriage
  <2> QED
    BY <1>2, <1>4, <2>1 DEF TargetTriage, ReportInv
<1>5. CASE TargetSpawn
  <2>1. Reported' = Reported
    BY <1>5, ToldKept DEF TargetSpawn
  <2>2. tgStep = "dispatch" /\ tgStep' = "wait" /\ TargetPersist("dispatched")
    BY <1>5 DEF TargetSpawn, TargetDequeues
  <2>3. ~Reported'
    BY <2>1, <2>2 DEF ReportInv
  <2>4. tgSpent'["loss"] = 0 => tgStatus' \notin {"open", "queued"}
    BY <1>1, <1>3, <2>2, WrittenState
  <2> QED
    BY <2>2, <2>3, <2>4 DEF ReportInv
<1>6. CASE InlineSpawn
  <2>1. /\ Reported' = Reported /\ tgStep = "inline" /\ tgStep' = "wait"
        /\ TargetPersist("dispatched")
    BY <1>6 DEF InlineSpawn, Reported
  <2>2. ~Reported'
    BY <2>1 DEF ReportInv
  <2>3. tgSpent'["loss"] = 0 => tgStatus' \notin {"open", "queued"}
    BY <1>1, <1>3, <2>1, WrittenState
  <2> QED
    BY <2>1, <2>2, <2>3 DEF ReportInv
<1>7. CASE TargetJudge
  <2>1. /\ Reported' = Reported /\ tgStep = "wait" /\ tgStep' = "tiers"
        /\ tgRun \in {"ok", "failed"} /\ tgRun' = tgRun
    BY <1>7 DEF TargetJudge, Reported
  <2>2. ~Reported'
    BY <2>1 DEF ReportInv
  <2>3. CASE tgRun = "ok"
    <3>1. TargetPersist("verifying")
      BY <1>7, <2>3 DEF TargetJudge
    <3>2. tgSpent'["loss"] = 0 => tgStatus' \notin {"open", "queued", "dispatched"}
      BY <1>1, <1>2, <1>3, <2>3, <3>1, WrittenState DEF ReportInv
    <3> QED
      BY <2>1, <2>2, <3>2 DEF ReportInv
  <2>4. CASE tgRun = "failed"
    <3>1. tgStatus' = tgStatus
      BY <1>7, <2>4 DEF TargetJudge
    <3> QED
      BY <1>2, <2>1, <2>2, <2>4, <3>1 DEF ReportInv
  <2> QED
    BY <2>1, <2>3, <2>4
<1>8. CASE TargetAdvances \/ TargetRetries
  <2>1. CASE TargetAdvances
    <3>1. /\ Reported' = Reported /\ tgStep = "tiers" /\ tgStep' = "inline"
          /\ tgRun' = "none"
      BY <2>1 DEF TargetAdvances, TargetJudged, Reported
    <3> QED
      BY <3>1 DEF ReportInv
  <2>2. CASE TargetRetries
    <3>1. /\ tgStep = "tiers" /\ tgStep' = "check" /\ tgRun' = "none"
          /\ tgTold' = RecordOutcome("retry", tgTold)
      BY <2>2 DEF TargetRetries, TargetJudged
    <3>2. Reported' = Reported
      BY <3>1, RecordType DEF Reported
    <3> QED
      BY <3>1, <3>2 DEF ReportInv
  <2> QED
    BY <1>8, <2>1, <2>2
<1>9. CASE TargetCompletes
  <2>1. /\ tgStep = "tiers" /\ tgStep' = "check" /\ tgRun' = "none"
        /\ TargetPersist("pr_open")
    BY <1>9 DEF TargetCompletes, TargetJudged
  <2>2. PICK r \in TargetResults : TargetDecide(r) = "terminal"
    BY <1>9 DEF TargetCompletes
  <2>3. tgRun = "ok"
    <3>1. r # "exit"
      BY <2>2 DEF TargetDecide, Decide
    <3>2. tgRun # "failed"
      BY <2>2, <3>1 DEF TargetResults
    <3> QED
      BY <2>1, <3>2 DEF ReportInv
  <2>4. tgSpent'["loss"] = 0 => tgStatus' \notin Pending
    BY <1>1, <1>2, <1>3, <2>1, <2>3, WrittenState DEF ReportInv
  <2> QED
    BY <2>1, <2>4 DEF ReportInv
<1>10. CASE TargetDies
  <2>1. /\ tgStep = "tiers" /\ tgStep' = "check" /\ tgRun' = "none"
        /\ TargetPersist("dead_letter")
    BY <1>10 DEF TargetDies, TargetJudged
  <2>2. tgSpent["loss"] = 0 => tgStatus \notin {"open", "queued"}
    BY <2>1 DEF ReportInv
  <2>3. tgSpent'["loss"] = 0 => tgStatus' \notin Pending
    BY <1>1, <1>2, <1>3, <2>1, <2>2, WrittenState
  <2> QED
    BY <2>1, <2>3 DEF ReportInv
<1>11. CASE InlineSpawnFails
  <2>1. tgStep = "inline" /\ tgStep' = "check" /\ tgRun' = tgRun
    BY <1>11 DEF InlineSpawnFails
  <2>2. tgSpent'["spawn"] > 0
    BY <1>1, <1>11, FaultKeeps DEF InlineSpawnFails
  <2>3. tgRun' = "none"
    BY <2>1 DEF ReportInv
  <2> QED
    BY <2>1, <2>2, <2>3 DEF ReportInv
<1>12. CASE TargetClosed
  <2>1. /\ Reported' = Reported /\ tgStep' = tgStep /\ tgRun' = tgRun
        /\ tgStatus' = "done"
    BY <1>12 DEF TargetClosed, Reported
  <2> QED
    BY <2>1 DEF ReportInv, Pending
<1>13. CASE TargetExits
  <2>1. /\ Reported' = Reported /\ tgStep' = tgStep /\ tgStatus' = tgStatus
        /\ tgRun = "running" /\ tgRun' \in {"ok", "failed"}
    BY <1>13 DEF TargetExits, Reported
  <2>2. tgStep = "wait"
    BY <2>1 DEF ReportInv
  <2> QED
    BY <1>2, <2>1, <2>2 DEF ReportInv
<1>14. CASE \/ TargetScan \/ TargetIdle \/ TargetSpawnFails \/ NothingToWaitFor
            \/ TargetGoesOn
  <2>1. /\ Reported' = Reported /\ tgRun' = tgRun /\ tgStatus' = tgStatus
        /\ tgStep # "ended" /\ tgStep' # "tiers"
        /\ tgStep \notin {"wait", "tiers"} \/ tgRun = "none"
    BY <1>14
       DEF TargetScan, TargetIdle, TargetSpawnFails, TargetDequeues,
           NothingToWaitFor, TargetGoesOn, Reported
  <2>2. tgRun' = "none"
    BY <2>1 DEF ReportInv
  <2>3. tgStep # "check" => ~Reported'
    BY <2>1 DEF ReportInv
  <2>4. tgStep = "check" => ~Reported'
    BY <1>14, <2>1
       DEF TargetScan, TargetIdle, TargetSpawnFails, TargetDequeues,
           NothingToWaitFor, TargetGoesOn, Reported
  <2> QED
    BY <2>1, <2>2, <2>3, <2>4 DEF ReportInv
<1>15. CASE TargetEnds \/ TargetBackoffEnds \/ UNCHANGED targetVars
  <2>1. /\ Reported' = Reported /\ tgRun' = tgRun /\ tgStatus' = tgStatus
        /\ \/ tgStep = "check" /\ tgStep' = "ended"
           \/ tgStep' = tgStep
    BY <1>15 DEF TargetEnds, TargetBackoffEnds, targetVars, Reported
  <2> QED
    BY <1>2, <2>1 DEF ReportInv
<1> QED
  BY <1>4, <1>5, <1>6, <1>7, <1>8, <1>9, <1>10, <1>11, <1>12, <1>13, <1>14, <1>15
     DEF TargetNext, TargetProcess

LEMMA ReportInvariant == TargetSpec => [](TargetTypeOK /\ ReportInv)
<1>1. TargetInit => TargetTypeOK /\ ReportInv
  BY TargetInitType, ReportInit
<1>2. TargetTypeOK /\ ReportInv /\ [TargetNext]_targetVars
         => (TargetTypeOK /\ ReportInv)'
  BY TargetNextType, ReportNext
<1> QED
  BY <1>1, <1>2, PTL DEF TargetSpec

\* What a targeted run reports when it ends is what the store shows, whatever
\* the pipelines, the limits and the faults are.
THEOREM ReportCorrect == TargetSpec => []ReportMatchesStore
<1>1. TargetTypeOK /\ ReportInv => ReportMatchesStore
  BY DEF ReportInv, ReportMatchesStore, Reported
<1> QED
  BY <1>1, ReportInvariant, PTL

-----------------------------------------------------------------------------
(***************************************************************************)
(* The retry budget bounds the agents.                                     *)
(***************************************************************************)

\* No pipeline names an agent twice.  (Iterator::position finds the FIRST place
\* of the present agent: with A, B, A the run would go round for ever.)
DistinctAgents ==
    \A type \in IssueTypes :
        \A i, j \in 1..Len(AgentsFor(type)) :
            AgentsFor(type)[i] = AgentsFor(type)[j] => i = j

\* The phases of the pipeline, at least the one of the fallback agent.
Phases == IF AgentsFor(tgType) = <<>> THEN 1 ELSE Len(AgentsFor(tgType))

\* What the pipelines begun so far may have started at most.
Budget == (tgTracker.retries + 1) * Phases

\* The budget holds n agents and those behind the present one.
Room(n) ==
    /\ n <= Budget
    /\ \A i \in 1..Len(AgentsFor(tgType)) :
          AgentsFor(tgType)[i] = tgTracker.agent =>
             n + Len(AgentsFor(tgType)) - i <= Budget

AttemptInv ==
    /\ ~Reported => tgTracker.retries <= MaxRetries
    /\ tgSpent["handoff"] = 0 =>
          /\ tgRun # "none" => Room(tgAttempts)
          /\ tgStep = "inline" => Room(tgAttempts + 1)
          /\ tgRun = "none" /\ tgStep # "inline" /\ ~Reported =>
                tgAttempts <= tgTracker.retries * Phases
          /\ Reported => tgAttempts <= (MaxRetries + 1) * Phases

LEMMA PhasesType ==
    /\ Phases \in Nat /\ Phases >= 1
    /\ Len(AgentsFor(tgType)) \in Nat
    /\ Len(AgentsFor(tgType)) <= Phases
<1>1. AgentsFor(tgType) \in Seq(Agents)
  BY AgendaType
<1>2. Len(AgentsFor(tgType)) \in Nat
  BY <1>1
<1>3. AgentsFor(tgType) # <<>> => Len(AgentsFor(tgType)) >= 1
  BY <1>1
<1> QED
  BY <1>2, <1>3 DEF Phases

\* More pipelines, more room.
LEMMA Pipelines ==
    ASSUME NEW k \in Nat, NEW m \in Nat, NEW l \in Nat, k <= m
    PROVE  /\ k * l \in Nat /\ k * l <= m * l
           /\ (k + 1) * l = k * l + l
  OBVIOUS

\* A fresh pipeline fits into the budget of one more attempt.
LEMMA FreshRoom ==
    ASSUME TargetTypeOK, tgAttempts <= tgTracker.retries * Phases
    PROVE  /\ Room(tgAttempts + 1)
           /\ tgAttempts + 1 <= Budget
           /\ \A i \in 1..Len(AgentsFor(tgType)) :
                 tgAttempts + 1 + Len(AgentsFor(tgType)) - i <= Budget
<1>1. tgTracker.retries \in Nat /\ tgAttempts \in Nat
  BY TypeOKFields DEF TrackerType, TargetTypeOK
<1>2. Budget = tgTracker.retries * Phases + Phases
  BY <1>1, PhasesType, Pipelines DEF Budget
<1>3. tgTracker.retries * Phases \in Nat
  BY <1>1, PhasesType, Pipelines
<1> QED
  BY <1>1, <1>2, <1>3, PhasesType DEF Room

\* The next phase takes the place that the pipeline kept for it.
LEMMA NextRoom ==
    ASSUME TargetTypeOK, DistinctAgents, Room(tgAttempts),
           NEW next, next = NextAgent(tgType, tgTracker.agent), next # NoAgent,
           NEW t, t.agent = next, t.retries = tgTracker.retries
    PROVE  /\ tgAttempts + 1 <= (t.retries + 1) * Phases
           /\ \A i \in 1..Len(AgentsFor(tgType)) :
                 AgentsFor(tgType)[i] = t.agent =>
                    tgAttempts + 1 + Len(AgentsFor(tgType)) - i
                       <= (t.retries + 1) * Phases
<1> DEFINE len == Len(AgentsFor(tgType))
<1>1. tgTracker.retries \in Nat /\ tgAttempts \in Nat
  BY TypeOKFields DEF TrackerType, TargetTypeOK
<1>2. Budget \in Nat /\ Budget = (t.retries + 1) * Phases
  BY <1>1, PhasesType, Pipelines DEF Budget
<1>3. PICK i \in 1..(len - 1) : /\ AgentsFor(tgType)[i] = tgTracker.agent
                                /\ next = AgentsFor(tgType)[i + 1]
  BY NextPlace
<1>4. i \in 1..len /\ i + 1 \in 1..len /\ len \in Nat
  BY <1>3, PhasesType
<1>5. tgAttempts + len - i <= Budget
  BY <1>3, <1>4 DEF Room
<1>6. ASSUME NEW j \in 1..len, AgentsFor(tgType)[j] = t.agent
      PROVE  j = i + 1
  BY <1>3, <1>4, <1>6 DEF DistinctAgents, TargetTypeOK
<1> HIDE DEF len
<1>7. tgAttempts + 1 <= Budget
  BY <1>1, <1>2, <1>4, <1>5
<1>8. ASSUME NEW j \in 1..len, AgentsFor(tgType)[j] = t.agent
      PROVE  tgAttempts + 1 + len - j <= Budget
  BY <1>1, <1>2, <1>4, <1>5, <1>6, <1>8
<1> QED
  BY <1>2, <1>7, <1>8 DEF len

\* What is left when a phase ends without a next one.
LEMMA SpentRoom ==
    ASSUME TargetTypeOK, Room(tgAttempts), tgTracker.retries <= MaxRetries
    PROVE  tgAttempts <= (MaxRetries + 1) * Phases
<1>1. tgTracker.retries + 1 \in Nat /\ tgAttempts \in Nat /\ MaxRetries + 1 \in Nat
  BY TypeOKFields, PipelineAssumption DEF TrackerType, TargetTypeOK
<1> DEFINE k == tgTracker.retries + 1
           m == MaxRetries + 1
<1>2. k \in Nat /\ m \in Nat /\ k <= m
  BY <1>1, PipelineAssumption, TypeOKFields DEF TrackerType
<1> HIDE DEF k, m
<1>3. /\ k * Phases \in Nat /\ m * Phases \in Nat /\ k * Phases <= m * Phases
  BY <1>2, PhasesType, Pipelines
<1>4. /\ Budget \in Nat /\ (MaxRetries + 1) * Phases \in Nat
      /\ Budget <= (MaxRetries + 1) * Phases
  BY <1>3 DEF Budget, k, m
<1> QED
  BY <1>1, <1>4 DEF Room

LEMMA AttemptInit == TargetInit => AttemptInv
<1>1. ~Nothing.passed /\ ~Nothing.dead /\ Forgotten.retries = 0
  BY DEF Nothing, Forgotten
<1>2. TargetInit => /\ tgTold = Nothing /\ tgRun = "none" /\ tgStep = "scan"
                    /\ tgTracker = Forgotten /\ tgAttempts = 0
  BY DEF TargetInit
<1>3. 0 <= 0 * Phases /\ 0 <= MaxRetries
  BY PhasesType, PipelineAssumption
<1> QED
  BY <1>1, <1>2, <1>3 DEF AttemptInv, Reported

LEMMA AttemptNext ==
    ASSUME DistinctAgents
    PROVE  TargetTypeOK /\ ReportInv /\ AttemptInv /\ [TargetNext]_targetVars
              => AttemptInv'
<1> SUFFICES ASSUME TargetTypeOK, ReportInv, AttemptInv, [TargetNext]_targetVars
             PROVE  AttemptInv'
  OBVIOUS
<1>1. tgSpent'["handoff"] = 0 => tgSpent["handoff"] = 0
  BY SpentGrows DEF TargetFaultKinds
<1>2. tgTracker \in TrackerType /\ tgAttempts \in Nat
  BY TypeOKFields DEF TargetTypeOK
<1>3. tgType' = tgType /\ Phases' = Phases
  <2>1. tgType' = tgType
    BY DEF TargetNext, TargetProcess, TargetScan, TargetTriage, TargetIdle,
           TargetSpawn, TargetSpawnFails, TargetJudge, TargetAdvances,
           TargetCompletes, TargetRetries, TargetDies, InlineSpawn,
           InlineSpawnFails, NothingToWaitFor, TargetEnds, TargetGoesOn,
           TargetExits, TargetBackoffEnds, TargetClosed, targetVars
  <2> QED
    BY <2>1 DEF Phases
<1>4. CASE TargetTriage
  <2>1. Reported' = Reported
    BY <1>4, ToldKept DEF TargetTriage
  <2>2. /\ tgRun' = tgRun /\ tgTracker' = tgTracker /\ tgAttempts' = tgAttempts
        /\ tgStep' # "inline" /\ tgStep = "triage" /\ tgSpent' = tgSpent
    BY <1>4 DEF TargetTriage
  <2>3. tgRun' = "none"
    BY <2>2 DEF ReportInv
  <2> QED
    BY <1>3, <2>1, <2>2, <2>3 DEF AttemptInv
<1>5. CASE TargetSpawn
  <2>1. /\ tgStep = "dispatch" /\ tgStep' = "wait" /\ tgRun' = "running"
        /\ tgAttempts' = tgAttempts + 1
    BY <1>5 DEF TargetSpawn, TargetDequeues
  <2>2. Reported' = Reported /\ ~Reported /\ tgRun = "none"
    BY <1>5, <2>1, ToldKept DEF TargetSpawn, ReportInv
  <2>3. tgTracker'.retries = tgTracker.retries
    BY <1>2, <1>5, TrackerStarted DEF TargetSpawn, TargetTypeOK
  <2>4. ASSUME tgSpent'["handoff"] = 0
        PROVE  Room(tgAttempts)'
    <3>1. tgAttempts <= tgTracker.retries * Phases
      BY <1>1, <2>1, <2>2, <2>4 DEF AttemptInv
    <3>2. /\ tgAttempts + 1 <= Budget
          /\ \A i \in 1..Len(AgentsFor(tgType)) :
                tgAttempts + 1 + Len(AgentsFor(tgType)) - i <= Budget
      BY <3>1, FreshRoom
    <3> QED
      BY <1>3, <2>1, <2>3, <3>2 DEF Room, Budget
  <2> QED
    BY <2>1, <2>2, <2>3, <2>4 DEF AttemptInv
<1>6. CASE InlineSpawn
  <2>1. /\ tgStep = "inline" /\ tgStep' = "wait" /\ tgRun' = "running"
        /\ tgAttempts' = tgAttempts + 1 /\ tgTracker' = tgTracker
        /\ Reported' = Reported
    BY <1>6 DEF InlineSpawn, Reported
  <2>2. ~Reported
    BY <2>1 DEF ReportInv
  <2>3. ASSUME tgSpent'["handoff"] = 0
        PROVE  Room(tgAttempts)'
    <3>1. Room(tgAttempts + 1)
      BY <1>1, <2>1, <2>3 DEF AttemptInv
    <3> QED
      BY <1>3, <2>1, <3>1 DEF Room, Budget
  <2> QED
    BY <2>1, <2>2, <2>3 DEF AttemptInv
<1>7. CASE TargetJudge
  <2>1. /\ tgStep = "wait" /\ tgStep' = "tiers" /\ tgRun' = tgRun
        /\ tgRun # "none" /\ tgTracker' = tgTracker
        /\ tgAttempts' = tgAttempts /\ Reported' = Reported
    BY <1>7 DEF TargetJudge, Reported
  <2>2. ~Reported
    BY <2>1 DEF ReportInv
  <2>3. Room(tgAttempts)' <=> Room(tgAttempts)
    BY <1>3, <2>1 DEF Room, Budget
  <2> QED
    BY <1>1, <2>1, <2>2, <2>3 DEF AttemptInv
<1>8. CASE TargetAdvances
  <2> DEFINE next == NextAgent(tgType, tgTracker.agent)
  <2>1. /\ tgStep = "tiers" /\ tgStep' = "inline" /\ tgRun' = "none"
        /\ tgAttempts' = tgAttempts /\ Reported' = Reported
    BY <1>8 DEF TargetAdvances, TargetJudged, Reported
  <2>2. ~Reported /\ tgRun # "none"
    BY <2>1 DEF ReportInv
  <2>3. next # NoAgent
    BY <1>8 DEF TargetAdvances, TargetDecide, Decide
  <2>4. CASE TargetUse("handoff")
    <3>1. tgSpent'["handoff"] > 0
      BY <2>4, FaultKeeps DEF TargetFaultKinds
    <3>2. tgTracker'.retries = tgTracker.retries
      <4>1. CASE tgTracker' = [tgTracker EXCEPT !.reverts = 0, !.agent = next,
                                                !.phase = @ + 1]
        BY <1>2, <4>1, NextAgentIsAgent, TrackerAdvanced
      <4>2. CASE tgTracker' = [tgTracker EXCEPT !.reverts = 0]
        BY <1>2, <4>2, TrackerChange
      <4> QED
        BY <1>8, <4>1, <4>2 DEF TargetAdvances
    <3> QED
      BY <2>1, <2>2, <3>1, <3>2 DEF AttemptInv
  <2>5. CASE tgTracker' = [tgTracker EXCEPT !.reverts = 0, !.agent = next,
                                            !.phase = @ + 1]
    <3>1. tgTracker'.agent = next /\ tgTracker'.retries = tgTracker.retries
      BY <1>2, <2>5, NextAgentIsAgent, TrackerAdvanced
    <3>2. ASSUME tgSpent'["handoff"] = 0
          PROVE  Room(tgAttempts + 1)'
      <4>1. Room(tgAttempts)
        BY <1>1, <2>2, <3>2 DEF AttemptInv
      <4>2. /\ tgAttempts + 1 <= (tgTracker'.retries + 1) * Phases
            /\ \A i \in 1..Len(AgentsFor(tgType)) :
                  AgentsFor(tgType)[i] = tgTracker'.agent =>
                     tgAttempts + 1 + Len(AgentsFor(tgType)) - i
                        <= (tgTracker'.retries + 1) * Phases
        BY <2>3, <3>1, <4>1, NextRoom
      <4> QED
        BY <1>3, <2>1, <4>2 DEF Room, Budget
    <3> QED
      BY <2>1, <2>2, <3>1, <3>2 DEF AttemptInv
  <2> QED
    BY <1>8, <2>4, <2>5 DEF TargetAdvances
<1>9. CASE TargetCompletes \/ TargetDies
  <2>1. /\ tgStep = "tiers" /\ tgStep' = "check" /\ tgRun' = "none"
        /\ tgAttempts' = tgAttempts
    BY <1>9 DEF TargetCompletes, TargetDies, TargetJudged
  <2>2. ~Reported /\ tgRun # "none"
    BY <2>1 DEF ReportInv
  <2>3. Reported'
    BY <1>9, RecordType DEF TargetCompletes, TargetDies, Reported
  <2>4. ASSUME tgSpent'["handoff"] = 0
        PROVE  tgAttempts <= (MaxRetries + 1) * Phases
    BY <1>1, <2>2, <2>4, SpentRoom DEF AttemptInv
  <2> QED
    BY <1>3, <2>1, <2>3, <2>4 DEF AttemptInv
<1>10. CASE TargetRetries
  <2>1. /\ tgStep = "tiers" /\ tgStep' = "check" /\ tgRun' = "none"
        /\ tgAttempts' = tgAttempts
        /\ tgTold' = RecordOutcome("retry", tgTold)
    BY <1>10 DEF TargetRetries, TargetJudged
  <2>2. ~Reported /\ tgRun # "none"
    BY <2>1 DEF ReportInv
  <2>3. ~Reported'
    BY <2>1, <2>2, RecordType DEF Reported
  <2>4. PICK r \in TargetResults : TargetDecide(r) = "retry" /\ TargetCounts(r)
    BY <1>10 DEF TargetRetries
  <2>5. tgTracker'.retries = tgTracker.retries + 1
    BY <2>4, CountsType
  <2>6. tgTracker.retries < MaxRetries
    BY <1>2, <2>4, PipelineAssumption
       DEF TargetDecide, Decide, Exhausted, TrackerType
  <2>7. tgTracker'.retries <= MaxRetries
    BY <1>2, <2>5, <2>6, PipelineAssumption DEF TrackerType
  <2>8. ASSUME tgSpent'["handoff"] = 0
        PROVE  tgAttempts <= (tgTracker.retries + 1) * Phases
    BY <1>1, <2>2, <2>8 DEF AttemptInv, Room, Budget
  <2> QED
    BY <1>3, <2>1, <2>3, <2>5, <2>7, <2>8 DEF AttemptInv
<1>11. CASE InlineSpawnFails
  <2>1. /\ tgStep = "inline" /\ tgStep' = "check" /\ tgRun' = tgRun
        /\ tgAttempts' = tgAttempts
    BY <1>11 DEF InlineSpawnFails
  <2>2. ~Reported /\ tgRun' = "none"
    BY <2>1 DEF ReportInv
  <2>3. Reported'
    BY <1>11, RecordType DEF InlineSpawnFails, Reported
  <2>4. ASSUME tgSpent'["handoff"] = 0
        PROVE  tgAttempts <= (MaxRetries + 1) * Phases
    <3>1. Room(tgAttempts + 1)
      BY <1>1, <2>1, <2>4 DEF AttemptInv
    <3>2. Room(tgAttempts)
      <4>1. Budget \in Nat /\ Len(AgentsFor(tgType)) \in Nat
        BY <1>2, PhasesType, Pipelines DEF Budget, TrackerType
      <4> QED
        BY <1>2, <3>1, <4>1 DEF Room
    <3> QED
      BY <2>2, <3>2, SpentRoom DEF AttemptInv
  <2> QED
    BY <1>3, <2>1, <2>2, <2>3, <2>4 DEF AttemptInv
<1>12. CASE \/ TargetScan \/ TargetIdle \/ TargetSpawnFails \/ NothingToWaitFor
            \/ TargetGoesOn \/ TargetEnds \/ TargetExits \/ TargetBackoffEnds
            \/ TargetClosed \/ UNCHANGED targetVars
  <2>1. /\ Reported' = Reported /\ tgTracker' = tgTracker
        /\ tgAttempts' = tgAttempts
        /\ tgRun' # "none" <=> tgRun # "none"
        /\ tgStep' = "inline" <=> tgStep = "inline"
    BY <1>12
       DEF TargetScan, TargetIdle, TargetSpawnFails, TargetDequeues,
           NothingToWaitFor, TargetGoesOn, TargetEnds, TargetExits,
           TargetBackoffEnds, TargetClosed, targetVars, Reported
  <2>2. /\ Room(tgAttempts)' <=> Room(tgAttempts)
        /\ Room(tgAttempts + 1)' <=> Room(tgAttempts + 1)
    BY <1>3, <2>1 DEF Room, Budget
  <2> QED
    BY <1>1, <1>3, <2>1, <2>2 DEF AttemptInv
<1> QED
  BY <1>4, <1>5, <1>6, <1>7, <1>8, <1>9, <1>10, <1>11, <1>12
     DEF TargetNext, TargetProcess

\* However its phases fail, a targeted run starts no more agents than its retry
\* budget allows pipelines, for all pipelines that name no agent twice.
THEOREM AttemptsCorrect ==
    ASSUME DistinctAgents
    PROVE  TargetSpec => []AttemptsBounded
<1>1. TargetInit => AttemptInv
  BY AttemptInit
<1>2. TargetTypeOK /\ ReportInv /\ AttemptInv /\ [TargetNext]_targetVars
         => AttemptInv'
  BY AttemptNext
<1>3. TargetTypeOK /\ ReportInv /\ AttemptInv => AttemptsBounded
  <2> SUFFICES ASSUME TargetTypeOK, ReportInv, AttemptInv, tgSpent["handoff"] = 0
               PROVE  tgAttempts <= (MaxRetries + 1) * Phases
    BY DEF AttemptsBounded, Phases
  <2>1. CASE Reported
    BY <2>1 DEF AttemptInv
  <2>2. CASE ~Reported /\ tgRun # "none"
    BY <2>2, SpentRoom DEF AttemptInv
  <2>3. CASE ~Reported /\ tgRun = "none"
    <3>1. Room(tgAttempts + 1) => Room(tgAttempts)
      <4>1. /\ Budget \in Nat /\ Len(AgentsFor(tgType)) \in Nat
            /\ tgAttempts \in Nat
        BY TypeOKFields, PhasesType, Pipelines
           DEF Budget, TrackerType, TargetTypeOK
      <4> QED
        BY <4>1 DEF Room
    <3>2. tgAttempts <= tgTracker.retries * Phases => Room(tgAttempts + 1)
      BY FreshRoom
    <3> QED
      BY <2>3, <3>1, <3>2, SpentRoom DEF AttemptInv
  <2> QED
    BY <2>1, <2>2, <2>3
<1> QED
  BY <1>1, <1>2, <1>3, ReportInvariant, PTL DEF TargetSpec
=============================================================================
