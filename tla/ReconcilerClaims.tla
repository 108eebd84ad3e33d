-------------------------- MODULE ReconcilerClaims --------------------------
(***************************************************************************)
(* What comments and documents of the repository say of the reconciler and *)
(* the code does not do.  Each claim is quoted where it is stated, and a   *)
(* run finds a behaviour of Reconciler that contradicts it.                *)
(***************************************************************************)
EXTENDS Reconciler

\* "verify_completed [...] defers to the next triage pass" (verify.rs:784): a
\* bead that advanced to its next phase is picked up again.  Triage skips it as
\* already processed at this generation.
PhaseContinues ==
    \A b \in Beads :
        tracker[b].known /\ tracker[b].phase > 0 /\ status[b] = "open"
            ~> status[b] # "open"

\* "Pipeline complete, PR created, awaiting merge" (bead.rs:38): the run that
\* takes a bead to pr_open is the last agent's.  The tracker names the owner
\* the snapshot held, not the agent that was spawned.
PrOpenAfterLastAgent ==
    [][\A b \in Beads :
          status[b] # "pr_open" /\ status'[b] = "pr_open" /\ pc = "verifying"
             => NextAgent(TypeOf[b], completed[b].agent) = NoAgent]_vars

\* "When B:bead-12 closes, A:bead-7 unblocks at the next reconciler tick"
\* (adr/0009:55).  Closed beads are not in the scan, and a bead that is not in
\* the scan counts as open.
BlockerDoneUnblocks ==
    \A b \in Beads :
        /\ BlockedBy[b] # {} /\ status[b] = "open"
        /\ \A d \in BlockedBy[b] : status[d] = "done"
            ~> status[b] # "open"
=============================================================================
