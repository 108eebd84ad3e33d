---------------------------- MODULE BeadLifecycle ---------------------------
(***************************************************************************)
(* What a bead and its owner may expect of the daemon, whatever the queue, *)
(* the retries and the pipeline do inside it: a bead is worked by at most  *)
(* one agent at a time, a run that has ended is judged before another one  *)
(* starts, and the stored status follows the run.                          *)
(*                                                                         *)
(* One step of the daemon or of its environment may concern several beads  *)
(* (a crash, the start-up recovery, a poll of all agents), so a step is a  *)
(* relation that every bead satisfies on its own.                          *)
(***************************************************************************)
EXTENDS BeadStates

CONSTANT Beads

VARIABLES status,   \* what the store says of each bead
          work      \* what the daemon does with it

vars == <<status, work>>

WorkStates == {"idle", "running", "ended"}

Init == /\ status = [b \in Beads |-> "open"]
        /\ work = [b \in Beads |-> "idle"]

Stays(b) == status'[b] = status[b]

\* An agent starts; only an idle bead gets one.  A bead that was closed or
\* claimed after it was scanned keeps its status.
Begin(b) ==
    /\ work[b] = "idle" /\ work'[b] = "running"
    /\ status'[b] = UpdateStatus(status[b], "dispatched")

End(b) == work[b] = "running" /\ work'[b] = "ended" /\ Stays(b)

Verify(b) ==
    /\ work[b] = "ended" /\ work'[b] = "ended"
    /\ status'[b] = UpdateStatus(status[b], "verifying")

\* The run is judged: only here does a bead leave for a pull request or for
\* the dead letters.
Settle(b) ==
    /\ work[b] = "ended" /\ work'[b] = "idle"
    /\ \/ Stays(b)
       \/ /\ status[b] \in {"dispatched", "verifying"}
          /\ status'[b] \in ValidTransitions[status[b]]
                            \cap {"open", "pr_open", "dead_letter"}

\* The process dies: nobody works any bead any more.
Abandon(b) == work'[b] = "idle" /\ Stays(b)

\* Moves that concern a bead the daemon is not working: start-up recovery, a
\* reference or a closing commit, a merged pull request.
Idle(b) ==
    /\ work[b] = "idle" /\ work'[b] = "idle"
    /\ <<status[b], status'[b]>> \in
         {<<"dispatched", "open">>, <<"open", "dispatched">>,
          <<"pr_open", "done">>, <<"dead_letter", "done">>,
          <<"verifying", "done">>}

\* An operator or the agent itself closes the bead; an operator reopens a bead
\* that nobody works.
Close(b) == work'[b] = work[b] /\ status'[b] = "done"

Reopen(b) ==
    /\ work[b] = "idle" /\ work'[b] = "idle"
    /\ status'[b] = Reopened(status[b])

Step(b) ==
    \/ work'[b] = work[b] /\ Stays(b)
    \/ Begin(b) \/ End(b) \/ Verify(b) \/ Settle(b)
    \/ Abandon(b) \/ Idle(b) \/ Close(b) \/ Reopen(b)

Next ==
    /\ status' \in [Beads -> States]
    /\ work' \in [Beads -> WorkStates]
    /\ \A b \in Beads : Step(b)

Spec == Init /\ [][Next]_vars
=============================================================================
