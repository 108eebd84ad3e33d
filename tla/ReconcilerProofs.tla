-------------------------- MODULE ReconcilerProofs --------------------------
(***************************************************************************)
(* Theorems about Reconciler for all beads, relations, limits and faults.  *)
(***************************************************************************)
EXTENDS Reconciler, TLAPS

(***************************************************************************)
(* Lemmas about the operators the model is built from.                     *)
(***************************************************************************)

\* BeadStore::update_status leaves a legal status, whatever it is asked for.
LEMMA UpdateStatusType ==
    ASSUME NEW s \in States, NEW n
    PROVE  UpdateStatus(s, n) \in States
<1>1. ValidTransitions[s] \subseteq States
  BY DEF ValidTransitions, States
<1> QED
  BY <1>1 DEF UpdateStatus, CanTransition

\* The same of the operator's reopening.
LEMMA ReopenedType == ASSUME NEW s \in States PROVE Reopened(s) \in States
  BY UpdateStatusType DEF Reopened, States

\* PipelineEngine::agents_for returns a sequence of agents.
LEMMA AgentsForType == ASSUME NEW type PROVE AgentsFor(type) \in Seq(Agents)
<1>1. ASSUME NEW agents \in Seq(Agents) PROVE Truncated(agents) \in Seq(Agents)
  <2>1. CASE MaxDepth > 0 /\ Len(agents) > MaxDepth
    <3>1. SubSeq(agents, 1, MaxDepth) \in Seq(Agents)
      BY <2>1, PipelineAssumption
    <3> QED
      BY <2>1, <3>1 DEF Truncated
  <2> QED
    BY <2>1 DEF Truncated
<1>2. <<FallbackAgent>> \in Seq(Agents)
  BY PipelineAssumption
<1> QED
  BY <1>1, <1>2, PipelineAssumption DEF AgentsFor

\* The first agent of a pipeline always exists.
LEMMA DefaultAgentType == ASSUME NEW type PROVE DefaultAgent(type) \in Agents
<1>1. AgentsFor(type) \in Seq(Agents)
  BY AgentsForType
<1>2. AgentsFor(type) # <<>> => AgentsFor(type)[1] \in Agents
  BY <1>1
<1> QED
  BY <1>2, PipelineAssumption DEF DefaultAgent

\* The next agent is an agent of the pipeline or none.
LEMMA NextAgentType ==
    ASSUME NEW type, NEW agent
    PROVE  NextAgent(type, agent) \in Agents \cup {NoAgent}
<1> DEFINE agents == AgentsFor(type)
           Here(i) == IsFirstPlace(agents, agent, i)
           place == CHOOSE i \in 1..(Len(agents) - 1) : Here(i)
<1>1. agents \in Seq(Agents)
  BY AgentsForType
<1>2. CASE \E i \in 1..(Len(agents) - 1) : Here(i)
  <2>1. place \in 1..(Len(agents) - 1)
    BY <1>2
  <2>2. 1 + place \in 1..Len(agents)
    BY <1>1, <2>1
  <2>3. agents[1 + place] \in Agents
    BY <1>1, <2>2
  <2> QED
    BY <1>2, <2>3 DEF NextAgent
<1> QED
  BY <1>2 DEF NextAgent

\* Counting faults keeps the counters natural numbers.
LEMMA UseType ==
    ASSUME TypeOK, NEW faults, Use(faults)
    PROVE  spent' \in [Faults -> Nat]
  BY DEF TypeOK, Use

\* A best-effort write leaves legal statuses and counters.
LEMMA PersistAllType ==
    ASSUME TypeOK, NEW want, NEW faults, PersistAll(want, faults)
    PROVE  /\ status' \in [Beads -> States]
           /\ spent' \in [Faults -> Nat]
<1>1. PICK lost \in {{}} \cup {{b} : b \in DOMAIN want} :
        /\ Use(IF lost = {} THEN faults ELSE faults \cup {"loss"})
        /\ status' = [b \in Beads |-> IF b \in DOMAIN want \ lost
                                        THEN UpdateStatus(status[b], want[b])
                                        ELSE status[b]]
  BY DEF PersistAll
<1>2. spent' \in [Faults -> Nat]
  BY <1>1, UseType
<1>3. \A b \in Beads : status[b] \in States
  BY DEF TypeOK
<1> QED
  BY <1>1, <1>2, <1>3, UpdateStatusType

LEMMA PersistType ==
    ASSUME TypeOK, NEW b, NEW state, NEW faults, Persist(b, state, faults)
    PROVE  /\ status' \in [Beads -> States]
           /\ spent' \in [Faults -> Nat]
  BY PersistAllType DEF Persist

LEMMA TierType == NoTier \in 0..NoTier /\ TopTier \in 0..NoTier
  BY ReconcilerAssumption DEF NoTier

LEMMA NewTrackerType == NewTracker \in Trackers /\ NoTracker \in Trackers
<1>1. NewTracker \in Trackers
  BY TierType DEF NewTracker, Trackers, NoGeneration, MaybeAgents
<1>2. NoTracker \in Trackers
  BY <1>1 DEF NoTracker, Trackers
<1> QED
  BY <1>1, <1>2

LEMMA NoRunType == NoRun \in Runs
  BY DEF NoRun, Runs, MaybeAgents

LEMMA RunType ==
    ASSUME NEW agent \in MaybeAgents, NEW exit \in {"running", "ok", "failed"}
    PROVE  Run(agent, exit) \in Runs
  BY DEF Run, Runs

LEMMA PipelineStateType ==
    /\ NoPipe \in [phase : Nat, agent : MaybeAgents]
    /\ \A phase \in Nat, agent \in MaybeAgents :
           PipelineState(phase, agent) \in [phase : Nat, agent : MaybeAgents]
  BY DEF NoPipe, PipelineState, MaybeAgents

\* What a run can leave to judge.
Results == [verdict : {"passed", "failed", "none", "exit"}, tier : 0..NoTier]

LEMMA ResultType ==
    FailedExit \in Results /\ NothingToVerify \in Results /\ TierResults \subseteq Results
<1>1. \A t \in 0..NoTier : Result("exit", t) \in Results /\ Result("none", t) \in Results
         /\ Result("passed", t) \in Results /\ Result("failed", t) \in Results
  BY DEF Result, Results
<1>2. \A t \in 0..(TopTier - 1) : t \in 0..NoTier
  BY ReconcilerAssumption DEF NoTier
<1> QED
  BY <1>1, <1>2, TierType DEF FailedExit, NothingToVerify, TierResults

\* on_fail and on_fail_exit keep the books of a tracker well-formed.
LEMMA AfterFailureType ==
    ASSUME NEW t \in Trackers, NEW r \in Results
    PROVE  /\ AfterFailure(t, r) \in Trackers
           /\ AfterFailure(t, r).dispatch = t.dispatch
<1>1. /\ t.retries + 1 \in Nat
      /\ t.reverts + 1 \in Nat
      /\ r.tier \in 0..NoTier
  BY DEF Trackers, Results
<1> QED
  BY <1>1 DEF AfterFailure, Trackers

\* complete_dispatch: no tracker is left with an open record.
LEMMA CloseType ==
    ASSUME NEW t \in Trackers
    PROVE  Close(t) \in Trackers /\ Close(t).dispatch # "open"
  BY DEF Close, Trackers
-----------------------------------------------------------------------------
(***************************************************************************)
(* Type correctness.  Two facts beyond the types are needed: a dead        *)
(* process remembers nothing, and a tracker with an open record finds one  *)
(* in the ledger, so that closing it does not take the count below zero.   *)
(***************************************************************************)

Booked ==
    /\ \A b \in Beads : tracker[b].dispatch = "open" => records[b] >= 1
    /\ pc = "down" => tracker = [b \in Beads |-> NoTracker]

TypeInv == TypeOK /\ Booked

LEMMA InitType == Init => TypeInv
<1> SUFFICES ASSUME Init PROVE TypeInv
  OBVIOUS
<1>1. \A b \in Beads : NoTracker.dispatch = "none"
  BY DEF NoTracker, NewTracker
<1>2. Booked
  BY <1>1 DEF Init, Booked
<1>3. TypeOK
  BY NewTrackerType, NoRunType, PipelineStateType, ReconcilerAssumption
     DEF Init, TypeOK, States, MaybeAgents, Phases, NoSnapshot, Absent, NoEntry,
         NoBackoff, NoGeneration
<1> QED
  BY <1>2, <1>3 DEF TypeInv

LEMMA StartType == TypeInv /\ Start => TypeInv'
<1> SUFFICES ASSUME TypeInv, Start PROVE TypeInv'
  OBVIOUS
<1>1. status' \in [Beads -> States] /\ spent' \in [Faults -> Nat]
  BY PersistAllType DEF TypeInv, Start
<1>2. tracker' \in [Beads -> Trackers]
  BY NewTrackerType DEF TypeInv, TypeOK, Start, Stuck, Trackers, NewTracker
<1>3. \A b \in Beads : tracker'[b].dispatch = "none"
  BY DEF TypeInv, Booked, Start, Stuck, NewTracker, NoTracker
<1>4. TypeOK'
  BY <1>1, <1>2 DEF TypeInv, TypeOK, Start, Phases
<1>5. Booked'
  BY <1>3 DEF Booked, Start
<1> QED
  BY <1>4, <1>5 DEF TypeInv

LEMMA CrashType == TypeInv /\ Crash => TypeInv'
<1> SUFFICES ASSUME TypeInv, Crash PROVE TypeInv'
  OBVIOUS
<1>1. spent' \in [Faults -> Nat]
  BY UseType DEF TypeInv, Crash
<1>2. orphans' \subseteq Beads
  BY DEF TypeInv, TypeOK, Crash, Active
<1>3. TypeOK'
  BY <1>1, <1>2, NewTrackerType, NoRunType
     DEF TypeInv, TypeOK, Crash, Phases, NoSnapshot, Absent, NoEntry, NoBackoff,
         NoGeneration, States, MaybeAgents, store
<1>4. Booked'
  BY DEF Booked, Crash, NoTracker, NewTracker
<1> QED
  BY <1>3, <1>4 DEF TypeInv

LEMMA ScanType == TypeInv /\ Scan => TypeInv'
<1> SUFFICES ASSUME TypeInv, Scan PROVE TypeInv'
  OBVIOUS
<1>1. snap' \in [Beads -> [status : States, owner : MaybeAgents, content : Nat]]
  BY DEF TypeInv, TypeOK, Scan, Absent, NoGeneration, States, MaybeAgents
<1> QED
  BY <1>1 DEF TypeInv, TypeOK, Booked, Scan, Phases, store, world

LEMMA ScanVcsType == TypeInv /\ ScanVcs => TypeInv'
<1> SUFFICES ASSUME TypeInv, ScanVcs PROVE TypeInv'
  OBVIOUS
<1>1. status' \in [Beads -> States] /\ spent' \in [Faults -> Nat]
  BY PersistAllType DEF TypeInv, ScanVcs
<1> QED
  BY <1>1 DEF TypeInv, TypeOK, Booked, ScanVcs, Phases, memory

LEMMA PollPrType == TypeInv /\ PollPr => TypeInv'
<1> SUFFICES ASSUME TypeInv, PollPr PROVE TypeInv'
  OBVIOUS
<1>1. status' \in [Beads -> States] /\ spent' \in [Faults -> Nat]
  BY PersistAllType DEF TypeInv, PollPr
<1>2. pipe' \in [Beads -> [phase : Nat, agent : MaybeAgents]]
  BY PipelineStateType DEF TypeInv, TypeOK, PollPr
<1> QED
  BY <1>1, <1>2 DEF TypeInv, TypeOK, Booked, PollPr, Phases, memory

LEMMA AutoAssignType == TypeInv /\ AutoAssign => TypeInv'
<1> SUFFICES ASSUME TypeInv, AutoAssign PROVE TypeInv'
  OBVIOUS
<1>1. assignee' \in [Beads -> MaybeAgents]
  BY DefaultAgentType DEF TypeInv, TypeOK, AutoAssign, MaybeAgents
<1> QED
  BY <1>1 DEF TypeInv, TypeOK, Booked, AutoAssign, Phases, memory, world

LEMMA CheckCompletedType == TypeInv /\ CheckCompleted => TypeInv'
<1> SUFFICES ASSUME TypeInv, CheckCompleted PROVE TypeInv'
  OBVIOUS
<1>1. active' \in [Beads -> Runs] /\ completed' \in [Beads -> Runs]
  BY NoRunType DEF TypeInv, TypeOK, CheckCompleted
<1> QED
  BY <1>1 DEF TypeInv, TypeOK, Booked, CheckCompleted, Phases, store, world

LEMMA TriageType == TypeInv /\ Triage => TypeInv'
<1> SUFFICES ASSUME TypeInv, Triage PROVE TypeInv'
  OBVIOUS
<1>1. queue' \in [Beads -> [queued : BOOLEAN, generation : Nat, retries : Nat]]
  BY DEF TypeInv, TypeOK, Triage, Entry
<1>2. deadlettered' \subseteq Beads
  BY DEF TypeInv, TypeOK, Triage, StillDeadlettered
<1> QED
  BY <1>1, <1>2 DEF TypeInv, TypeOK, Booked, Triage, Phases, store, world

LEMMA NoEntryType ==
    NoEntry \in [queued : BOOLEAN, generation : Nat, retries : Nat]
  BY DEF NoEntry, NoGeneration

LEMMA DropEntryType ==
    ASSUME NEW b \in Beads
    PROVE  TypeInv /\ DropEntry(b) => TypeInv'
  BY NoEntryType DEF TypeInv, TypeOK, Booked, DropEntry, Dequeue, store, world

LEMMA SpawnFailsType ==
    ASSUME NEW b \in Beads
    PROVE  TypeInv /\ SpawnFails(b) => TypeInv'
<1> SUFFICES ASSUME TypeInv, SpawnFails(b) PROVE TypeInv'
  OBVIOUS
<1>1. spent' \in [Faults -> Nat]
  BY UseType DEF TypeInv, SpawnFails
<1>2. assignee' \in [Beads -> MaybeAgents]
  BY DefaultAgentType DEF TypeInv, TypeOK, SpawnFails, CorrectOwner, MaybeAgents
<1> QED
  BY <1>1, <1>2, NoEntryType DEF TypeInv, TypeOK, Booked, SpawnFails, Dequeue

LEMMA DispatchDoneType == TypeInv /\ DispatchDone => TypeInv'
  BY DEF TypeInv, TypeOK, Booked, DispatchDone, Phases, store, memory, world

LEMMA VerifyDoneType == TypeInv /\ VerifyDone => TypeInv'
  BY DEF TypeInv, TypeOK, Booked, VerifyDone, Phases, store, world, NoSnapshot,
     Absent, NoGeneration, States, MaybeAgents

LEMMA SpawnType ==
    ASSUME NEW b \in Beads
    PROVE  TypeInv /\ Spawn(b) => TypeInv'
<1> SUFFICES ASSUME TypeInv, Spawn(b) PROVE TypeInv'
  OBVIOUS
<1>1. status' \in [Beads -> States] /\ spent' \in [Faults -> Nat]
  BY PersistType DEF TypeInv, Spawn
<1>2. assignee' \in [Beads -> MaybeAgents]
  BY DefaultAgentType DEF TypeInv, TypeOK, Spawn, CorrectOwner, MaybeAgents
<1>3. queue[b].generation \in Nat /\ queue[b].retries \in Nat
      /\ snap[b].owner \in MaybeAgents /\ tracker[b] \in Trackers
  BY DEF TypeInv, TypeOK
<1>4. Dispatched(tracker[b], queue[b], snap[b].owner) \in Trackers
  BY <1>3, NewTrackerType DEF Dispatched, Trackers
<1>5. tracker' \in [Beads -> Trackers]
  BY <1>4 DEF TypeInv, TypeOK, Spawn
<1>6. active' \in [Beads -> Runs]
  BY RunType, DefaultAgentType DEF TypeInv, TypeOK, Spawn, MaybeAgents
<1>7. pipe' \in [Beads -> [phase : Nat, agent : MaybeAgents]]
  BY PipelineStateType, DefaultAgentType DEF TypeInv, TypeOK, Spawn, MaybeAgents
<1>8. records' \in [Beads -> Nat] /\ \A x \in Beads : records'[x] >= records[x]
      /\ records'[b] >= 1
  BY DEF TypeInv, TypeOK, Spawn
<1>9. TypeOK'
  BY <1>1, <1>2, <1>5, <1>6, <1>7, <1>8, NoEntryType
     DEF TypeInv, TypeOK, Spawn, Dequeue
<1>10. Booked'
  <2>1. pc # "down" /\ pc' # "down"
    BY DEF Spawn, Dequeue
  <2>2. \A x \in Beads \ {b} : tracker'[x] = tracker[x]
    BY DEF TypeInv, TypeOK, Spawn
  <2>3. ASSUME NEW x \in Beads, tracker'[x].dispatch = "open"
        PROVE  records'[x] >= 1
    <3>1. records[x] \in Nat /\ records'[x] \in Nat
      BY <1>8 DEF TypeInv, TypeOK
    <3> QED
      BY <1>8, <2>2, <2>3, <3>1 DEF TypeInv, Booked
  <2> QED
    BY <2>1, <2>3 DEF Booked
<1> QED
  BY <1>9, <1>10 DEF TypeInv

LEMMA AgentClosedType ==
    ASSUME NEW b \in Beads
    PROVE  TypeInv /\ AgentClosed(b) => TypeInv'
<1> SUFFICES ASSUME TypeInv, AgentClosed(b) PROVE TypeInv'
  OBVIOUS
<1>1. tracker' \in [Beads -> Trackers] /\ completed' \in [Beads -> Runs]
  BY NewTrackerType, NoRunType DEF TypeInv, TypeOK, AgentClosed
<1>2. NoTracker.dispatch = "none"
  BY DEF NoTracker, NewTracker
<1> QED
  BY <1>1, <1>2 DEF TypeInv, TypeOK, Booked, AgentClosed, store, world

LEMMA BeginVerifyType ==
    ASSUME NEW b \in Beads
    PROVE  TypeInv /\ BeginVerify(b) => TypeInv'
<1> SUFFICES ASSUME TypeInv, BeginVerify(b) PROVE TypeInv'
  OBVIOUS
<1>1. status' \in [Beads -> States] /\ spent' \in [Faults -> Nat]
  BY PersistType DEF TypeInv, BeginVerify
<1> QED
  BY <1>1 DEF TypeInv, TypeOK, Booked, BeginVerify, Phases

\* SetBackoff writes an entry of the right shape or nothing.
LEMMA SetBackoffType ==
    ASSUME TypeOK, NEW b \in Beads,
           NEW new \in [set : BOOLEAN, retries : Nat, ready : BOOLEAN],
           SetBackoff(b, new)
    PROVE  backoff' \in [Beads -> [set : BOOLEAN, retries : Nat, ready : BOOLEAN]]
  BY DEF TypeOK, SetBackoff

LEMMA BackoffType ==
    /\ NoBackoff \in [set : BOOLEAN, retries : Nat, ready : BOOLEAN]
    /\ \A n \in Nat : Backoff(n) \in [set : BOOLEAN, retries : Nat, ready : BOOLEAN]
  BY DEF NoBackoff, Backoff

\* What every outcome of a judged run writes is well-typed, and the bead's
\* record is not left open.
LEMMA PerformType ==
    ASSUME TypeOK, NEW b \in Beads, NEW action, NEW r \in Results, NEW faults,
           Perform(action, b, r, faults)
    PROVE  /\ status' \in [Beads -> States]
           /\ spent' \in [Faults -> Nat]
           /\ assignee' \in [Beads -> MaybeAgents]
           /\ pipe' \in [Beads -> [phase : Nat, agent : MaybeAgents]]
           /\ backoff' \in [Beads -> [set : BOOLEAN, retries : Nat, ready : BOOLEAN]]
           /\ deadlettered' \subseteq Beads
           /\ \E t \in Trackers : /\ t.dispatch # "open"
                                  /\ tracker' = [tracker EXCEPT ![b] = t]
<1> DEFINE Goal ==
             /\ status' \in [Beads -> States]
             /\ spent' \in [Faults -> Nat]
             /\ assignee' \in [Beads -> MaybeAgents]
             /\ pipe' \in [Beads -> [phase : Nat, agent : MaybeAgents]]
             /\ backoff' \in [Beads -> [set : BOOLEAN, retries : Nat, ready : BOOLEAN]]
             /\ deadlettered' \subseteq Beads
             /\ \E t \in Trackers : /\ t.dispatch # "open"
                                    /\ tracker' = [tracker EXCEPT ![b] = t]
<1>1. tracker[b] \in Trackers /\ tracker[b].retries + 1 \in Nat
      /\ tracker[b].phase + 1 \in Nat
  BY DEF TypeOK, Trackers
<1>2. [tracker[b] EXCEPT !.reverts = 0] \in Trackers
  BY <1>1 DEF Trackers
<1>3. CASE Advance(b, faults)
  <2> DEFINE t == [tracker[b] EXCEPT !.reverts = 0]
             next == NextAgent(TypeOf[b], Agent(b))
             phase == tracker[b].phase + 1
             advanced == IF t.known THEN [t EXCEPT !.agent = next, !.phase = phase]
                                    ELSE t
  <2>1. next \in MaybeAgents
    BY NextAgentType DEF MaybeAgents
  <2>2. advanced \in Trackers
    BY <1>1, <1>2, <2>1 DEF Trackers
  <2>3. backoff' \in [Beads -> [set : BOOLEAN, retries : Nat, ready : BOOLEAN]]
    BY <1>3, BackoffType, SetBackoffType DEF Advance
  <2>4. deadlettered' = deadlettered
    BY <1>3 DEF Advance
  <2>5. CASE /\ tracker' = [tracker EXCEPT ![b] = Close(advanced)]
             /\ pipe' = [pipe EXCEPT ![b] = PipelineState(phase, next)]
             /\ assignee' = [assignee EXCEPT ![b] = next]
             /\ Persist(b, "open", faults)
    <3>1. status' \in [Beads -> States] /\ spent' \in [Faults -> Nat]
      BY <2>5, PersistType
    <3>2. Close(advanced) \in Trackers /\ Close(advanced).dispatch # "open"
      BY <2>2, CloseType
    <3>3. pipe' \in [Beads -> [phase : Nat, agent : MaybeAgents]]
      BY <1>1, <2>1, <2>5, PipelineStateType DEF TypeOK
    <3>4. assignee' \in [Beads -> MaybeAgents]
      BY <2>1, <2>5 DEF TypeOK
    <3> QED
      BY <2>3, <2>4, <2>5, <3>1, <3>2, <3>3, <3>4 DEF TypeOK
  <2>6. CASE /\ Use(faults \cup {"handoff"})
             /\ tracker' = [tracker EXCEPT ![b] = Close(t)]
             /\ UNCHANGED <<pipe, assignee, status>>
    <3>1. spent' \in [Faults -> Nat]
      BY <2>6, UseType
    <3>2. Close(t) \in Trackers /\ Close(t).dispatch # "open"
      BY <1>2, CloseType
    <3> QED
      BY <2>3, <2>4, <2>6, <3>1, <3>2 DEF TypeOK
  <2> QED
    BY <1>3, <2>5, <2>6 DEF Advance
<1>4. CASE Terminal(b, faults)
  <2>1. backoff' \in [Beads -> [set : BOOLEAN, retries : Nat, ready : BOOLEAN]]
    BY <1>4, BackoffType, SetBackoffType DEF Terminal
  <2>2. status' \in [Beads -> States] /\ spent' \in [Faults -> Nat]
    BY <1>4, PersistType DEF Terminal
  <2>3. tracker' = [tracker EXCEPT ![b] = Close([tracker[b] EXCEPT !.reverts = 0])]
    BY <1>4 DEF Terminal, TypeOK
  <2> QED
    BY <1>2, <1>4, <2>1, <2>2, <2>3, CloseType DEF Terminal, TypeOK
<1>5. AfterFailure(tracker[b], r) \in Trackers
  BY <1>1, AfterFailureType
<1>6. Close(AfterFailure(tracker[b], r)) \in Trackers
      /\ Close(AfterFailure(tracker[b], r)).dispatch # "open"
  BY <1>5, CloseType
<1>7. CASE Retry(b, r, faults)
  <2>1. backoff' \in [Beads -> [set : BOOLEAN, retries : Nat, ready : BOOLEAN]]
    BY <1>1, <1>7, BackoffType, SetBackoffType DEF Retry, TypeOK
  <2>2. status' \in [Beads -> States] /\ spent' \in [Faults -> Nat]
    BY <1>7, PersistType DEF Retry
  <2>3. tracker' = [tracker EXCEPT ![b] = Close(AfterFailure(tracker[b], r))]
    BY <1>7 DEF Retry, TypeOK
  <2> QED
    BY <1>6, <1>7, <2>1, <2>2, <2>3 DEF Retry, TypeOK
<1>8. CASE DeadLetter(b, r, faults)
  <2>1. backoff' \in [Beads -> [set : BOOLEAN, retries : Nat, ready : BOOLEAN]]
    BY <1>8, BackoffType, SetBackoffType DEF DeadLetter
  <2>2. status' \in [Beads -> States] /\ spent' \in [Faults -> Nat]
    BY <1>8, PersistType DEF DeadLetter
  <2>3. tracker' = [tracker EXCEPT ![b] = Close(AfterFailure(tracker[b], r))]
    BY <1>8 DEF DeadLetter, TypeOK
  <2>4. pipe' \in [Beads -> [phase : Nat, agent : MaybeAgents]]
    BY <1>8, PipelineStateType DEF DeadLetter, TypeOK
  <2> QED
    BY <1>6, <1>8, <2>1, <2>2, <2>3, <2>4 DEF DeadLetter, TypeOK
<1> QED
  BY <1>3, <1>4, <1>7, <1>8 DEF Perform

\* A judged run leaves the stores, the memory and the ledger well-formed.
LEMMA FinishType ==
    ASSUME TypeInv, NEW b \in Beads, NEW action, NEW r \in Results, NEW faults,
           Perform(action, b, r, faults), Finish(b), pc # "down"
    PROVE  TypeInv'
<1>1. TypeOK
  BY DEF TypeInv
<1>2. PICK t \in Trackers : t.dispatch # "open" /\ tracker' = [tracker EXCEPT ![b] = t]
  BY <1>1, PerformType
<1>3. tracker' \in [Beads -> Trackers] /\ tracker'[b].dispatch # "open"
      /\ \A x \in Beads \ {b} : tracker'[x] = tracker[x]
  BY <1>1, <1>2 DEF TypeOK
<1>4. records' \in [Beads -> Nat] /\ \A x \in Beads \ {b} : records'[x] = records[x]
  <2>1. tracker[b].dispatch = "open" => records[b] - 1 \in Nat
    BY <1>1 DEF TypeOK, TypeInv, Booked
  <2> QED
    BY <1>1, <2>1 DEF TypeOK, Finish, CloseRecord
<1>5. completed' \in [Beads -> Runs] /\ current' \in Beads \cup {NoBead}
      /\ pc' = "verify"
  BY <1>1, NoRunType DEF TypeOK, Finish
<1>6. UNCHANGED <<content, snap, active, queue, refs, orphans>>
  BY DEF Finish
<1>7. /\ status' \in [Beads -> States]
      /\ spent' \in [Faults -> Nat]
      /\ assignee' \in [Beads -> MaybeAgents]
      /\ pipe' \in [Beads -> [phase : Nat, agent : MaybeAgents]]
      /\ backoff' \in [Beads -> [set : BOOLEAN, retries : Nat, ready : BOOLEAN]]
      /\ deadlettered' \subseteq Beads
  BY <1>1, PerformType
<1>8. TypeOK'
  BY <1>1, <1>3, <1>4, <1>5, <1>6, <1>7 DEF TypeOK, Phases
<1>9. Booked'
  BY <1>3, <1>4, <1>5 DEF TypeInv, Booked
<1> QED
  BY <1>8, <1>9 DEF TypeInv

LEMMA ExitFailedType ==
    ASSUME NEW b \in Beads
    PROVE  TypeInv /\ ExitFailed(b) => TypeInv'
  BY FinishType, ResultType DEF ExitFailed, Takes

LEMMA FinishVerifyType ==
    ASSUME NEW b \in Beads
    PROVE  TypeInv /\ FinishVerify(b) => TypeInv'
<1> SUFFICES ASSUME TypeInv, FinishVerify(b) PROVE TypeInv'
  OBVIOUS
<1>1. \E r \in Results : \E action, faults : Perform(action, b, r, faults)
  <2>1. PICK r \in IF SkipsVerify(b) THEN {NothingToVerify}
                   ELSE TierResults \cup {NothingToVerify} :
          \E action, faults : Perform(action, b, r, faults)
    BY DEF FinishVerify
  <2> QED
    BY <2>1, ResultType
<1>2. Finish(b) /\ pc = "verifying"
  BY DEF FinishVerify
<1> QED
  BY <1>1, <1>2, FinishType

LEMMA EnvironmentType == TypeInv /\ Environment => TypeInv'
<1> SUFFICES ASSUME TypeInv, Environment PROVE TypeInv'
  OBVIOUS
<1>1. TypeOK /\ Booked
  BY DEF TypeInv
<1>2. CASE Crash
  BY <1>2, CrashType
<1>3. ASSUME NEW b \in Beads, AgentExits(b) PROVE TypeInv'
  <2>1. active[b].agent \in MaybeAgents
    BY <1>1 DEF TypeOK, Runs
  <2>2. active' \in [Beads -> Runs]
    BY <1>1, <1>3, <2>1, RunType DEF TypeOK, AgentExits
  <2> QED
    BY <1>1, <1>3, <2>2 DEF TypeInv, TypeOK, Booked, AgentExits, store, world
<1>4. ASSUME NEW b \in Beads, OrphanExits(b) PROVE TypeInv'
  BY <1>1, <1>4 DEF TypeInv, TypeOK, Booked, OrphanExits, store, memory
<1>5. ASSUME NEW b \in Beads, CloseBead(b) PROVE TypeInv'
  BY <1>1, <1>5 DEF TypeInv, TypeOK, Booked, CloseBead, memory, world, States
<1>6. ASSUME NEW b \in Beads, ReopenBead(b) PROVE TypeInv'
  <2>1. spent' \in [Faults -> Nat]
    BY <1>1, <1>6, UseType DEF ReopenBead
  <2>2. status' \in [Beads -> States]
    BY <1>1, <1>6, ReopenedType DEF TypeOK, ReopenBead
  <2> QED
    BY <1>1, <1>6, <2>1, <2>2 DEF TypeInv, TypeOK, Booked, ReopenBead, memory
<1>7. ASSUME NEW b \in Beads, EditBead(b) PROVE TypeInv'
  <2>1. spent' \in [Faults -> Nat]
    BY <1>1, <1>7, UseType DEF EditBead
  <2> QED
    BY <1>1, <1>7, <2>1 DEF TypeInv, TypeOK, Booked, EditBead, memory
<1>8. ASSUME NEW b \in Beads, Commit(b) PROVE TypeInv'
  <2>1. spent' \in [Faults -> Nat]
    BY <1>1, <1>8, UseType DEF Commit
  <2>2. refs' \in [Beads -> SUBSET {"ref", "close"}]
    BY <1>1, <1>8 DEF TypeOK, Commit
  <2> QED
    BY <1>1, <1>8, <2>1, <2>2 DEF TypeInv, TypeOK, Booked, Commit, store, memory
<1>9. ASSUME NEW b \in Beads, BackoffExpires(b) PROVE TypeInv'
  <2>1. backoff' \in [Beads -> [set : BOOLEAN, retries : Nat, ready : BOOLEAN]]
    BY <1>1, <1>9 DEF TypeOK, BackoffExpires
  <2> QED
    BY <1>1, <1>9, <2>1 DEF TypeInv, TypeOK, Booked, BackoffExpires, store, world
<1> QED
  BY <1>2, <1>3, <1>4, <1>5, <1>6, <1>7, <1>8, <1>9 DEF Environment

LEMMA NextType == TypeInv /\ [Next]_vars => TypeInv'
<1> SUFFICES ASSUME TypeInv, [Next]_vars PROVE TypeInv'
  OBVIOUS
<1>1. CASE Iterate
  BY <1>1, StartType, ScanType, ScanVcsType, PollPrType, AutoAssignType,
     CheckCompletedType, TriageType, DispatchDoneType, VerifyDoneType,
     DropEntryType, SpawnFailsType, SpawnType, AgentClosedType, ExitFailedType,
     BeginVerifyType, FinishVerifyType DEF Iterate
<1>2. CASE Environment
  BY <1>2, EnvironmentType
<1>3. CASE UNCHANGED vars
  BY <1>3 DEF TypeInv, TypeOK, Booked, vars, store, memory, world
<1> QED
  BY <1>1, <1>2, <1>3 DEF Next

\* Every reachable state of the daemon and its stores is well-typed; the
\* ledger of dispatches is never decremented below zero
\* (complete_dispatch, BeadTracker.dispatch_id).
THEOREM TypeCorrect == Spec => []TypeOK
<1>1. TypeInv => TypeOK
  BY DEF TypeInv
<1> QED
  BY InitType, NextType, <1>1, PTL DEF Spec
-----------------------------------------------------------------------------
(***************************************************************************)
(* One run at a time.  The invariants OneRunAtATime and WorkedIsClaimed    *)
(* hold as long as no status write is lost and nobody reopens a bead that  *)
(* is being worked.  They are not inductive: whether a bead may be queued  *)
(* is read from the snapshot, several steps before the store is written,   *)
(* so the invariant follows the snapshot from the scan to the triage.      *)
(***************************************************************************)

Calm == spent["loss"] = 0 /\ spent["meddle"] = 0

\* The phases between the scan and the triage that reads it.
Scanned == {"vcs", "pr", "assign", "check", "triage"}

\* The phases in which a finished run may wait for its verdict.
Judging == {"triage", "dispatch", "verify", "verifying"}

\* A run is either going on or waiting to be judged, and the store says so.
RunsApart ==
    /\ Active \cap Completed = {}
    /\ \A b \in Active : status[b] \in {"dispatched", "done"}
    /\ \A b \in Completed : status[b] \in {"dispatched", "verifying", "done"}

\* What may still become a run: a queued bead is worked by nobody, and its
\* state is one from which a dispatch leads to "dispatched" or leaves it closed.
Free == {"open", "dispatched", "done"}

QueuedFree == \A b \in Queued : b \notin Worked /\ status[b] \in Free

\* The snapshot that triage reads shows no worked bead as open, and what it
\* shows as open is still free.
SnapshotFresh ==
    pc \in Scanned =>
        \A b \in Beads : snap[b].status = "open" =>
            b \notin Worked /\ status[b] \in Free

\* Where the phases stand.
PhasesApart ==
    /\ pc \notin Judging => Completed = {}
    /\ pc = "verifying" => current \in Completed
    /\ pc = "down" => Active = {} /\ Queued = {}

RunInv == RunsApart /\ QueuedFree /\ SnapshotFresh /\ PhasesApart

CalmInv == Calm => RunInv

\* Nothing is ever given back: a calm state has only had calm predecessors,
\* and a calm step loses no write and reopens no worked bead.
LEMMA UseCalm ==
    ASSUME TypeOK, NEW faults, Use(faults), Calm'
    PROVE  Calm /\ "loss" \notin faults /\ "meddle" \notin faults
<1>1. "loss" \in Faults /\ "meddle" \in Faults
  BY ReconcilerAssumption DEF FaultKinds
<1>2. spent["loss"] \in Nat /\ spent["meddle"] \in Nat
  BY <1>1 DEF TypeOK
<1> QED
  BY <1>1, <1>2 DEF Use, Calm

LEMMA PersistAllCalm ==
    ASSUME TypeOK, NEW want, NEW faults, PersistAll(want, faults), Calm'
    PROVE  /\ Calm
           /\ status' = [b \in Beads |-> IF b \in DOMAIN want
                                           THEN UpdateStatus(status[b], want[b])
                                           ELSE status[b]]
<1>1. PICK lost \in {{}} \cup {{b} : b \in DOMAIN want} :
        /\ Use(IF lost = {} THEN faults ELSE faults \cup {"loss"})
        /\ status' = [b \in Beads |-> IF b \in DOMAIN want \ lost
                                        THEN UpdateStatus(status[b], want[b])
                                        ELSE status[b]]
  BY DEF PersistAll
<1>2. Calm /\ lost = {}
  BY <1>1, UseCalm
<1> QED
  BY <1>1, <1>2

LEMMA PersistCalm ==
    ASSUME TypeOK, NEW b \in Beads, NEW state, NEW faults,
           Persist(b, state, faults), Calm'
    PROVE  /\ Calm
           /\ status' = [status EXCEPT ![b] = UpdateStatus(@, state)]
<1>1. /\ Calm
      /\ status' = [c \in Beads |-> IF c \in {b} THEN UpdateStatus(status[c], state)
                                                 ELSE status[c]]
  BY PersistAllCalm DEF Persist
<1> QED
  BY <1>1 DEF TypeOK

\* What the writes of a calm step do to the states the invariant speaks of.
LEMMA FreeKept ==
    /\ \A s \in Free : UpdateStatus(s, "dispatched") \in {"dispatched", "done"}
    /\ \A s \in Free, next \in Free : UpdateStatus(s, next) \in Free
    /\ \A s \in {"dispatched", "done"} : UpdateStatus(s, "done") = s
    /\ \A s \in {"dispatched", "verifying", "done"} :
          UpdateStatus(s, "verifying") \in {"dispatched", "verifying", "done"}
  BY DEF Free, UpdateStatus, CanTransition, ValidTransitions

LEMMA RunIsNotNoRun ==
    /\ \A agent : \A exit \in {"running", "ok", "failed"} : Run(agent, exit) # NoRun
    /\ NoRun.exit = "none"
  BY DEF Run, NoRun

\* Judging a run writes the status of its bead and of no other.
LEMMA PerformStatus ==
    ASSUME TypeOK, NEW b \in Beads, NEW action, NEW r, NEW faults,
           Perform(action, b, r, faults), Calm'
    PROVE  Calm /\ \A x \in Beads \ {b} : status'[x] = status[x]
<1> DEFINE Goal == Calm /\ \A x \in Beads \ {b} : status'[x] = status[x]
<1>1. ASSUME NEW state, NEW some, Persist(b, state, some) PROVE Goal
  BY <1>1, PersistCalm DEF TypeOK
<1>2. CASE Advance(b, faults)
  <2>1. CASE Persist(b, "open", faults)
    BY <2>1, <1>1
  <2>2. CASE Use(faults \cup {"handoff"}) /\ UNCHANGED status
    BY <2>2, UseCalm
  <2> QED
    BY <1>2, <2>1, <2>2 DEF Advance
<1>3. CASE Terminal(b, faults)
  BY <1>1, <1>3 DEF Terminal
<1>4. CASE Retry(b, r, faults)
  BY <1>1, <1>4 DEF Retry
<1>5. CASE DeadLetter(b, r, faults)
  BY <1>1, <1>5 DEF DeadLetter
<1> QED
  BY <1>2, <1>3, <1>4, <1>5 DEF Perform
-----------------------------------------------------------------------------
(* The invariant RunInv, one action after the other *)

LEMMA StartRuns == TypeOK /\ RunInv /\ Start /\ Calm' => RunInv'
<1> SUFFICES ASSUME TypeOK, RunInv, Start, Calm' PROVE RunInv'
  OBVIOUS
<1>1. Active = {} /\ Completed = {} /\ Queued = {}
  BY DEF RunInv, PhasesApart, Start, Judging
<1>2. Active' = Active /\ Completed' = Completed /\ Queued' = Queued /\ pc' = "scan"
  BY DEF Active, Completed, Queued, Start
<1> QED
  BY <1>1, <1>2 DEF RunInv, RunsApart, QueuedFree, SnapshotFresh, PhasesApart,
                    Scanned, Judging, Worked

LEMMA CrashRuns == Crash => RunInv'
<1> SUFFICES ASSUME Crash PROVE RunInv'
  OBVIOUS
<1>1. Active' = {} /\ Completed' = {} /\ Queued' = {} /\ pc' = "down"
  BY DEF Crash, Active, Completed, Queued, NoEntry
<1> QED
  BY <1>1 DEF RunInv, RunsApart, QueuedFree, SnapshotFresh, PhasesApart,
              Scanned, Judging, Worked

LEMMA ScanRuns == TypeOK /\ RunInv /\ Scan => RunInv'
<1> SUFFICES ASSUME TypeOK, RunInv, Scan PROVE RunInv'
  OBVIOUS
<1>1. pc = "scan" /\ pc' = "vcs"
  BY DEF Scan
<1>2. UNCHANGED <<Active, Completed, Queued, status>>
  BY DEF Scan, Active, Completed, Queued, store
<1>3. Completed = {}
  BY <1>1 DEF RunInv, PhasesApart, Judging
<1>4. \A b \in Beads : snap'[b].status = "open" => status[b] = "open"
  BY DEF Scan, Absent
<1>5. SnapshotFresh'
  BY <1>2, <1>3, <1>4 DEF SnapshotFresh, RunInv, RunsApart, Worked, Free
<1> QED
  BY <1>1, <1>2, <1>3, <1>5
     DEF RunInv, RunsApart, QueuedFree, PhasesApart, Judging, Worked

\* Commits and pull requests move no bead out of the states the invariant
\* allows it, whatever the snapshot showed.
LEMMA ScanVcsRuns == TypeOK /\ RunInv /\ ScanVcs /\ Calm' => RunInv'
<1> SUFFICES ASSUME TypeOK, RunInv, ScanVcs, Calm' PROVE RunInv'
  OBVIOUS
<1>1. pc = "vcs" /\ pc' = "pr"
  BY DEF ScanVcs
<1>2. UNCHANGED <<Active, Completed, Queued, snap>> /\ Completed = {}
  BY <1>1 DEF ScanVcs, Active, Completed, Queued, memory, RunInv, PhasesApart, Judging
<1>3. PICK want : /\ DOMAIN want \subseteq Beads \ Active
                  /\ \A b \in DOMAIN want : want[b] \in Free
                  /\ PersistAll(want, {})
  BY DEF ScanVcs, VcsWant, Free
<1>4. \A b \in Beads : /\ b \in Active => status'[b] = status[b]
                       /\ status[b] \in Free => status'[b] \in Free
  BY <1>3, PersistAllCalm, FreeKept
<1> QED
  BY <1>1, <1>2, <1>4
     DEF RunInv, RunsApart, QueuedFree, SnapshotFresh, PhasesApart, Scanned,
         Judging, Worked, Active, Queued

LEMMA PollPrRuns == TypeOK /\ RunInv /\ PollPr /\ Calm' => RunInv'
<1> SUFFICES ASSUME TypeOK, RunInv, PollPr, Calm' PROVE RunInv'
  OBVIOUS
<1>1. pc = "pr" /\ pc' = "assign"
  BY DEF PollPr
<1>2. UNCHANGED <<Active, Completed, Queued, snap>> /\ Completed = {}
  BY <1>1 DEF PollPr, Active, Completed, Queued, memory, RunInv, PhasesApart, Judging
<1>3. PICK merged : PersistAll([b \in merged |-> "done"], {})
  BY DEF PollPr
<1>4. \A b \in Beads : status'[b] = status[b]
                       \/ status'[b] = UpdateStatus(status[b], "done")
  BY <1>3, PersistAllCalm
<1>5. \A b \in Beads :
        /\ status[b] \in {"dispatched", "done"} => status'[b] = status[b]
        /\ status[b] \in Free => status'[b] \in Free
  BY <1>4, FreeKept DEF Free
<1> QED
  BY <1>1, <1>2, <1>5
     DEF RunInv, RunsApart, QueuedFree, SnapshotFresh, PhasesApart, Scanned,
         Judging, Worked, Active, Queued

LEMMA AutoAssignRuns == RunInv /\ AutoAssign => RunInv'
  BY DEF AutoAssign, RunInv, RunsApart, QueuedFree, SnapshotFresh, PhasesApart,
         Scanned, Judging, Worked, Active, Completed, Queued, memory


\* The agents that have exited only change sides.
LEMMA CheckCompletedRuns == TypeOK /\ RunInv /\ CheckCompleted => RunInv'
<1> SUFFICES ASSUME TypeOK, RunInv, CheckCompleted PROVE RunInv'
  OBVIOUS
<1>1. pc = "check" /\ pc' = "triage"
  BY DEF CheckCompleted
<1>2. UNCHANGED <<Queued, snap, status>> /\ Completed = {}
  BY <1>1 DEF CheckCompleted, Queued, store, RunInv, PhasesApart, Judging
<1>3. /\ Active' \cap Completed' = {}
      /\ Active' \cup Completed' = Active
  BY DEF CheckCompleted, Active, Completed
<1> QED
  BY <1>1, <1>2, <1>3
     DEF RunInv, RunsApart, QueuedFree, SnapshotFresh, PhasesApart, Scanned,
         Judging, Worked

\* The step the hazard is about: triage queues what the snapshot shows as open.
LEMMA TriageRuns == TypeOK /\ RunInv /\ Triage => RunInv'
<1> SUFFICES ASSUME TypeOK, RunInv, Triage PROVE RunInv'
  OBVIOUS
<1>1. pc = "triage" /\ pc' = "dispatch"
  BY DEF Triage
<1>2. UNCHANGED <<Active, Completed, status>>
  BY DEF Triage, Active, Completed, store
<1>3. PICK S \in Selections :
        queue' = [b \in Beads |-> IF b \in S
                                    THEN Entry(snap[b].content, backoff[b].retries)
                                    ELSE queue[b]]
  BY DEF Triage
<1>4. \A b \in Queued' : b \in Queued \/ b \in S
  BY <1>3 DEF Queued
<1>5. \A b \in S : b \in Beads /\ snap[b].status = "open"
  <2>1. S \subseteq Candidates
    BY DEF Selections
  <2> QED
    BY <2>1, ReconcilerAssumption DEF Candidates
<1>6. QueuedFree'
  BY <1>1, <1>2, <1>4, <1>5
     DEF QueuedFree, RunInv, SnapshotFresh, Scanned, Worked, Queued
<1> QED
  BY <1>1, <1>2, <1>6
     DEF RunInv, RunsApart, SnapshotFresh, PhasesApart, Scanned, Judging

LEMMA DispatchDoneRuns == RunInv /\ DispatchDone => RunInv'
  BY DEF DispatchDone, RunInv, RunsApart, QueuedFree, SnapshotFresh, PhasesApart,
         Scanned, Judging, Worked, Active, Completed, Queued, memory, store

\* An entry that leaves the queue without a run takes nothing else with it.
LEMMA DequeueRuns ==
    ASSUME TypeOK, RunInv, NEW b \in Beads, Dequeue(b),
           UNCHANGED <<status, pc, active, completed, current>>
    PROVE  RunInv'
<1>1. Queued' \subseteq Queued
  BY DEF Dequeue, Queued, NoEntry, TypeOK
<1>2. UNCHANGED <<Active, Completed>> /\ pc = "dispatch"
  BY DEF Dequeue, Active, Completed
<1> QED
  BY <1>1, <1>2 DEF RunInv, RunsApart, QueuedFree, SnapshotFresh, PhasesApart,
                    Scanned, Judging, Worked

LEMMA SpawnRuns ==
    ASSUME NEW b \in Beads
    PROVE  TypeOK /\ RunInv /\ Spawn(b) /\ Calm' => RunInv'
<1> SUFFICES ASSUME TypeOK, RunInv, Spawn(b), Calm' PROVE RunInv'
  OBVIOUS
<1>1. pc = "dispatch" /\ pc' = "dispatch" /\ Completed' = Completed
  BY DEF Spawn, Dequeue, Completed
<1>2. b \in Queued /\ b \notin Worked /\ status[b] \in Free
  BY DEF Spawn, Dequeue, Eligible, RunInv, QueuedFree
<1>3. Active' = Active \cup {b}
  BY RunIsNotNoRun DEF Spawn, Active, TypeOK
<1>4. Queued' = Queued \ {b}
  BY DEF Spawn, Dequeue, Queued, NoEntry, TypeOK
<1>5. status' = [status EXCEPT ![b] = UpdateStatus(@, "dispatched")]
  BY PersistCalm DEF Spawn
<1>6. /\ status'[b] \in {"dispatched", "done"}
      /\ \A x \in Beads \ {b} : status'[x] = status[x]
  BY <1>2, <1>5, FreeKept DEF TypeOK
<1>7. RunsApart'
  BY <1>1, <1>2, <1>3, <1>6 DEF RunInv, RunsApart, Worked, Active, Completed
<1>8. QueuedFree'
  BY <1>1, <1>3, <1>4, <1>6 DEF RunInv, QueuedFree, Worked, Queued
<1> QED
  BY <1>1, <1>7, <1>8 DEF RunInv, SnapshotFresh, PhasesApart, Scanned, Judging

\* A run that is judged, or found closed by its own agent, is over.
LEMMA JudgedRuns ==
    ASSUME TypeOK, RunInv, NEW b \in Beads, pc' = "verify",
           completed' = [completed EXCEPT ![b] = NoRun],
           UNCHANGED <<active, queue>>, b \in Completed,
           \A x \in Beads \ {b} : status'[x] = status[x]
    PROVE  RunInv'
<1>1. Completed' = Completed \ {b} /\ Active' = Active /\ Queued' = Queued
  BY DEF Completed, Active, Queued, TypeOK
<1>2. b \notin Active /\ b \notin Queued
  BY DEF RunInv, RunsApart, QueuedFree, Worked
<1> QED
  BY <1>1, <1>2 DEF RunInv, RunsApart, QueuedFree, SnapshotFresh, PhasesApart,
                    Scanned, Judging, Worked, Active, Completed, Queued

LEMMA AgentClosedRuns ==
    ASSUME NEW b \in Beads
    PROVE  TypeOK /\ RunInv /\ AgentClosed(b) => RunInv'
  BY JudgedRuns DEF AgentClosed, Completed, TypeOK, store

LEMMA ExitFailedRuns ==
    ASSUME NEW b \in Beads
    PROVE  TypeOK /\ RunInv /\ ExitFailed(b) /\ Calm' => RunInv'
  BY JudgedRuns, PerformStatus, RunIsNotNoRun
     DEF ExitFailed, Takes, Finish, Completed

LEMMA BeginVerifyRuns ==
    ASSUME NEW b \in Beads
    PROVE  TypeOK /\ RunInv /\ BeginVerify(b) /\ Calm' => RunInv'
<1> SUFFICES ASSUME TypeOK, RunInv, BeginVerify(b), Calm' PROVE RunInv'
  OBVIOUS
<1>1. pc' = "verifying" /\ current' = b /\ b \in Completed
  BY RunIsNotNoRun DEF BeginVerify, Takes, Completed
<1>2. UNCHANGED <<Active, Completed, Queued>>
  BY DEF BeginVerify, Active, Completed, Queued
<1>3. status' = [status EXCEPT ![b] = UpdateStatus(@, "verifying")]
  BY PersistCalm DEF BeginVerify
<1>4. /\ status'[b] \in {"dispatched", "verifying", "done"}
      /\ \A x \in Beads \ {b} : status'[x] = status[x]
  BY <1>1, <1>3, FreeKept DEF TypeOK, RunInv, RunsApart
<1>5. b \notin Active /\ b \notin Queued
  BY <1>1 DEF RunInv, RunsApart, QueuedFree, Worked
<1> QED
  BY <1>1, <1>2, <1>4, <1>5
     DEF RunInv, RunsApart, QueuedFree, SnapshotFresh, PhasesApart, Scanned,
         Judging, Worked, Active, Completed, Queued

LEMMA FinishVerifyRuns ==
    ASSUME NEW b \in Beads
    PROVE  TypeOK /\ RunInv /\ FinishVerify(b) /\ Calm' => RunInv'
<1> SUFFICES ASSUME TypeOK, RunInv, FinishVerify(b), Calm' PROVE RunInv'
  OBVIOUS
<1>1. \E action, r, faults : Perform(action, b, r, faults)
  BY DEF FinishVerify
<1>2. \A x \in Beads \ {b} : status'[x] = status[x]
  BY <1>1, PerformStatus
<1>3. b \in Completed
  BY DEF FinishVerify, RunInv, PhasesApart
<1> QED
  BY <1>2, <1>3, JudgedRuns DEF FinishVerify, Finish

LEMMA VerifyDoneRuns == RunInv /\ VerifyDone => RunInv'
  BY DEF VerifyDone, RunInv, RunsApart, QueuedFree, SnapshotFresh, PhasesApart,
         Scanned, Judging, Worked, Active, Completed, Queued, store


LEMMA EnvironmentRuns == TypeOK /\ RunInv /\ Environment /\ Calm' => RunInv'
<1> SUFFICES ASSUME TypeOK, RunInv, Environment, Calm' PROVE RunInv'
  OBVIOUS
<1> USE DEF RunInv, RunsApart, QueuedFree, SnapshotFresh, PhasesApart, Scanned,
            Judging, Worked
<1>1. ASSUME UNCHANGED <<status, pc, snap, active, completed, queue, current>>
      PROVE  RunInv'
  BY <1>1 DEF Active, Completed, Queued
<1>2. CASE Crash
  BY <1>2, CrashRuns
<1>3. ASSUME NEW b \in Beads, AgentExits(b) PROVE RunInv'
  <2>1. Active' = Active
    BY <1>3, RunIsNotNoRun DEF AgentExits, Active, TypeOK
  <2>2. UNCHANGED <<Completed, Queued, status, pc, snap, current>>
    BY <1>3 DEF AgentExits, Completed, Queued, store
  <2> QED
    BY <2>1, <2>2
<1>4. ASSUME NEW b \in Beads, OrphanExits(b) PROVE RunInv'
  BY <1>1, <1>4 DEF OrphanExits, store, memory
<1>5. ASSUME NEW b \in Beads, status'[b] \in Free,
             b \in Worked => status'[b] = "done",
             \A x \in Beads \ {b} : status'[x] = status[x],
             UNCHANGED <<pc, memory>>
      PROVE  RunInv'
  <2>1. UNCHANGED <<Active, Completed, Queued, snap, current>>
    BY <1>5 DEF memory, Active, Completed, Queued
  <2> QED
    BY <1>5, <2>1 DEF Active, Completed, Queued
<1>6. ASSUME NEW b \in Beads, CloseBead(b) PROVE RunInv'
  BY <1>5, <1>6 DEF CloseBead, TypeOK, Free
<1>7. ASSUME NEW b \in Beads, ReopenBead(b) PROVE RunInv'
  <2>1. b \notin Worked
    BY <1>7, UseCalm DEF ReopenBead
  <2>2. status'[b] = "open" /\ \A x \in Beads \ {b} : status'[x] = status[x]
    BY <1>7 DEF ReopenBead, Reopened, UpdateStatus, TypeOK
  <2>3. UNCHANGED <<pc, memory>>
    BY <1>7 DEF ReopenBead
  <2> QED
    BY <1>5, <2>1, <2>2, <2>3 DEF Free
<1>8. ASSUME NEW b \in Beads, EditBead(b) \/ Commit(b) PROVE RunInv'
  BY <1>1, <1>8 DEF EditBead, Commit, store, memory
<1>9. ASSUME NEW b \in Beads, BackoffExpires(b) PROVE RunInv'
  BY <1>1, <1>9 DEF BackoffExpires, store
<1> QED
  BY <1>2, <1>3, <1>4, <1>6, <1>7, <1>8, <1>9 DEF Environment

LEMMA IterateRuns == TypeOK /\ RunInv /\ Iterate /\ Calm' => RunInv'
<1> SUFFICES ASSUME TypeOK, RunInv, Iterate, Calm' PROVE RunInv'
  OBVIOUS
<1>1. ASSUME NEW b \in Beads, DropEntry(b) PROVE RunInv'
  BY <1>1, DequeueRuns DEF DropEntry, store
<1>2. ASSUME NEW b \in Beads, SpawnFails(b) PROVE RunInv'
  BY <1>2, DequeueRuns DEF SpawnFails
<1> QED
  BY <1>1, <1>2, StartRuns, ScanRuns, ScanVcsRuns, PollPrRuns, AutoAssignRuns,
     CheckCompletedRuns, TriageRuns, DispatchDoneRuns, VerifyDoneRuns, SpawnRuns,
     AgentClosedRuns, ExitFailedRuns, BeginVerifyRuns, FinishVerifyRuns DEF Iterate

\* Calm is lost for ever: no step takes a fault back.
LEMMA CalmBefore == TypeOK /\ [Next]_vars /\ Calm' => Calm
<1> SUFFICES ASSUME TypeOK, [Next]_vars, Calm' PROVE Calm
  OBVIOUS
<1>1. ASSUME UNCHANGED spent PROVE Calm
  BY <1>1 DEF Calm
<1>2. ASSUME NEW want, PersistAll(want, {}) PROVE Calm
  BY <1>2, PersistAllCalm
<1>3. CASE Start \/ ScanVcs \/ PollPr
  BY <1>2, <1>3 DEF Start, ScanVcs, PollPr
<1>4. CASE Scan \/ AutoAssign \/ CheckCompleted \/ Triage \/ DispatchDone \/ VerifyDone
  BY <1>1, <1>4 DEF Scan, AutoAssign, CheckCompleted, Triage, DispatchDone,
                    VerifyDone, world
<1>5. ASSUME NEW b \in Beads, DropEntry(b) \/ AgentClosed(b) PROVE Calm
  BY <1>1, <1>5 DEF DropEntry, AgentClosed, world
<1>6. ASSUME NEW b \in Beads, SpawnFails(b) PROVE Calm
  BY <1>6, UseCalm DEF SpawnFails
<1>7. ASSUME NEW b \in Beads, Spawn(b) \/ BeginVerify(b) PROVE Calm
  BY <1>7, PersistCalm DEF Spawn, BeginVerify
<1>8. ASSUME NEW b \in Beads, ExitFailed(b) \/ FinishVerify(b) PROVE Calm
  BY <1>8, PerformStatus DEF ExitFailed, FinishVerify
<1>9. CASE Environment
  <2>1. CASE Crash
    BY <2>1, UseCalm DEF Crash
  <2>2. ASSUME NEW b \in Beads, ReopenBead(b) \/ EditBead(b) \/ Commit(b) PROVE Calm
    BY <2>2, UseCalm DEF ReopenBead, EditBead, Commit
  <2>3. ASSUME NEW b \in Beads,
               AgentExits(b) \/ OrphanExits(b) \/ CloseBead(b) \/ BackoffExpires(b)
        PROVE  Calm
    BY <1>1, <2>3 DEF AgentExits, OrphanExits, CloseBead, BackoffExpires, world
  <2> QED
    BY <1>9, <2>1, <2>2, <2>3 DEF Environment
<1>10. CASE UNCHANGED vars
  BY <1>1, <1>10 DEF vars, world
<1> QED
  BY <1>3, <1>4, <1>5, <1>6, <1>7, <1>8, <1>9, <1>10 DEF Next, Iterate

LEMMA NextRuns == TypeOK /\ CalmInv /\ [Next]_vars => CalmInv'
<1> SUFFICES ASSUME TypeOK, RunInv, [Next]_vars, Calm' PROVE RunInv'
  BY CalmBefore DEF CalmInv
<1>1. CASE UNCHANGED vars
  BY <1>1 DEF vars, store, memory, RunInv, RunsApart, QueuedFree, SnapshotFresh,
              PhasesApart, Scanned, Judging, Worked, Active, Completed, Queued
<1> QED
  BY <1>1, IterateRuns, EnvironmentRuns DEF Next

LEMMA InitRuns == Init => CalmInv
<1> SUFFICES ASSUME Init PROVE RunInv
  BY DEF CalmInv
<1>1. Active = {} /\ Completed = {} /\ Queued = {} /\ pc = "down"
  BY DEF Init, Active, Completed, Queued, NoEntry
<1> QED
  BY <1>1 DEF RunInv, RunsApart, QueuedFree, SnapshotFresh, PhasesApart,
              Scanned, Judging, Worked

\* Until the first status write is lost and the first worked bead is reopened,
\* no bead is queued or run while an earlier run of it goes on or waits for its
\* verdict, and the store shows every worked bead as taken, whatever crashes,
\* exits, edits, commits and closings come in between
\* (Reconciler.active, WorkQueue, check_completed, persist_status).
THEOREM OneRunWhileCalm == Spec => [](Calm => OneRunAtATime /\ WorkedIsClaimed)
<1>1. CalmInv => (Calm => OneRunAtATime /\ WorkedIsClaimed)
  BY DEF CalmInv, RunInv, RunsApart, QueuedFree, OneRunAtATime, WorkedIsClaimed,
         Worked
<1> QED
  BY InitRuns, NextRuns, TypeCorrect, <1>1, PTL DEF Spec

\* The part of it that readers of the store rely on: until then, no bead that
\* is worked or waits for its verdict is shown as anything but dispatched,
\* verifying or closed (persist_status, BeadState::valid_transitions).
THEOREM ClaimWhileCalm == Spec => [](Calm => WorkedIsClaimed)
<1>1. CalmInv => (Calm => WorkedIsClaimed)
  BY DEF CalmInv, RunInv, RunsApart, WorkedIsClaimed, Worked
<1> QED
  BY InitRuns, NextRuns, TypeCorrect, <1>1, PTL DEF Spec
=============================================================================
