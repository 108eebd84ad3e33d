---------------------------- MODULE MCReconciler ----------------------------
(***************************************************************************)
(* Small instances of Reconciler for TLC.  Every instance has two beads;   *)
(* the configurations choose their types, repositories and relations, and  *)
(* which faults happen how often.                                          *)
(***************************************************************************)
EXTENDS ReconcilerClaims, TLC

CONSTANTS b1, b2

MCBeads == {b1, b2}
MCAgents == {"scoping-agent", "dev-agent", "staging-agent"}
MCIssueTypes == {"bug", "chore", "review"}

\* Three of config::default_pipelines(): three agents, one, and a read-only one.
MCDefinitions == [bug    |-> <<"scoping-agent", "dev-agent", "staging-agent">>,
                  chore  |-> <<"dev-agent">>,
                  review |-> <<"staging-agent">>]
MCReadOnly == {"scoping-agent", "staging-agent"}

AllChores == [b \in MCBeads |-> "chore"]
ChoreAndBug == (b1 :> "chore") @@ (b2 :> "bug")
OneRepo == [b \in MCBeads |-> "r1"]
TwoRepos == (b1 :> "r1") @@ (b2 :> "r2")
NoThreads == [b \in MCBeads |-> "none"]
OneThread == [b \in MCBeads |-> "t1"]
NoPairs == {}
BothBeads == {MCBeads}
NoBeads == {}
NoWaiting == [b \in MCBeads |-> {}]
FirstBeforeSecond == (b1 :> {}) @@ (b2 :> {b1})

NoOwners == [b \in MCBeads |-> "none"]
DefaultOwners == [b \in MCBeads |-> DefaultAgent(TypeOf[b])]
OnlySecond == {b2}

\* How often each fault or operator action may happen: never, except for those
\* listed.
AtMost(n, faults) == [f \in FaultKinds |-> IF f \in faults THEN n ELSE 0]
NoFaults == AtMost(0, {})
CrashAndReopen == AtMost(1, {"crash", "reopen"})
Misfortunes == AtMost(1, {"loss", "feedback", "meddle", "reopen", "handoff"})
EditAndSpawn == AtMost(1, {"edit", "spawn"})
ReopenAndCommit == AtMost(1, {"reopen", "commit"})
NoOperator == AtMost(1, {"spawn", "feedback", "edit", "verifier"})
OneLoss == AtMost(1, {"loss"})
=============================================================================
