---------------------------- MODULE MCCompanions ----------------------------
(***************************************************************************)
(* Small instances for TLC of the components beside the daemon's flat      *)
(* loop.  They share no state with one another: an instance is one of them *)
(* alone, chosen by the initial state, while the others rest.              *)
(***************************************************************************)
EXTENDS TargetedRun, Orchestrator, Workers, TLC

CONSTANTS
    Parts,          \* the components this instance looks at
    b1, b2,         \* two beads of the orchestrators
    w1, q1, q2      \* the bead of the workers and two requests

ASSUME Parts \subseteq {"targeted", "hierarchical", "workers"}

VARIABLE part

MCAgents == {"scoping-agent", "dev-agent", "staging-agent"}
MCIssueTypes == {"bug", "chore", "review"}
MCDefinitions == [bug    |-> <<"scoping-agent", "dev-agent", "staging-agent">>,
                  chore  |-> <<"dev-agent">>,
                  review |-> <<"staging-agent">>]

MCStartStates == {"open", "blocked", "dispatched"}
MCTargetFaults == [f \in TargetFaultKinds |-> 1]
MCOrBeads == {b1, b2}
MCOrTypeOf == (b1 :> "bug") @@ (b2 :> "chore")
MCWkBeads == {w1}
MCRequests == {q1, q2}
MCNativeRequests == {q2}
MCWkFaultKinds == {"spawn", "save", "merge", "cleanup", "rm", "close", "reopen",
                   "restart", "push", "stale"}

companionsVars == <<part, targetVars, orchestratorVars, workersVars>>

CompanionsInit ==
    /\ part \in Parts
    /\ TargetInit /\ OrchestratorInit /\ WorkersInit
    /\ part # "targeted" =>
          tgType = "bug" /\ tgStatus = "open" /\ tgOwner = NoAgent
    /\ part # "hierarchical" => \A n \in OrLimits : orLimit <= n
    /\ part # "workers" => wkStatus = [b \in WkBeads |-> "open"]

CompanionsNext ==
    /\ UNCHANGED part
    /\ \/ /\ part = "targeted" /\ TargetNext
          /\ UNCHANGED <<orchestratorVars, workersVars>>
       \/ /\ part = "hierarchical" /\ OrchestratorNext
          /\ UNCHANGED <<targetVars, workersVars>>
       \/ /\ part = "workers" /\ WorkersNext
          /\ UNCHANGED <<targetVars, orchestratorVars>>

\* The fairness of each component, where it is the one that runs.
CompanionsFairness ==
    /\ WF_targetVars(part = "targeted" /\ TargetProcess)
    /\ WF_targetVars(part = "targeted" /\ TargetExits)
    /\ WF_targetVars(part = "targeted" /\ TargetBackoffEnds)
    /\ WF_orchestratorVars(part = "hierarchical" /\ OrIterate)
    /\ \A b \in OrBeads :
          WF_orchestratorVars(part = "hierarchical" /\ OrWorkerExits(b))
    /\ WF_workersVars(part = "workers" /\ Sweeping)
    /\ WF_workersVars(part = "workers" /\ Daemon)
    /\ \A r \in Requests :
          WF_workersVars(part = "workers" /\ (Serving(r) \/ Dies(r)))
    /\ \A b \in WkBeads : WF_workersVars(part = "workers" /\ Exits(b))

CompanionsSpec ==
    CompanionsInit /\ [][CompanionsNext]_companionsVars /\ CompanionsFairness

\* The type invariants of the components.
CompanionsTypeOK == TargetTypeOK /\ OrchestratorTypeOK /\ WorkersTypeOK
=============================================================================
