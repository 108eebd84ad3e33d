----------------------------- MODULE BeadStates -----------------------------
(***************************************************************************)
(* The labelled transition system of a bead's status (src/bead.rs) and the *)
(* way the bead store applies it when a status is written.                 *)
(***************************************************************************)

States == {"backlog", "open", "queued", "dispatched", "verifying", "pr_open",
           "done", "rejected", "blocked", "stale", "dead_letter"}

\* BeadState::valid_transitions.
ValidTransitions ==
    [backlog     |-> {"open"},
     open        |-> {"queued", "dispatched"},
     queued      |-> {"dispatched"},
     dispatched  |-> {"verifying", "open", "dead_letter"},
     verifying   |-> {"done", "rejected", "blocked", "pr_open", "open",
                      "dead_letter"},
     pr_open     |-> {"done"},
     rejected    |-> {"open"},
     blocked     |-> {"open"},
     stale       |-> {"open"},
     dead_letter |-> {"open", "done"},
     done        |-> {}]

\* Faulty, for the mutation runs: a bead must be queued before it is dispatched.
CanTransitionQueued(from, to) ==
    to \in ValidTransitions[from] \ (IF from = "open" THEN {"dispatched"} ELSE {})

\* Faulty: a bead under verification cannot be reopened.
CanTransitionForward(from, to) ==
    to \in ValidTransitions[from] \ (IF from = "verifying" THEN {"open"} ELSE {})

CanTransition(from, to) == to \in ValidTransitions[from]

IsTerminal(s) == ValidTransitions[s] = {}

\* BeadStore::update_status: a move the table does not list is refused and the
\* row keeps its status.
UpdateStatus(current, next) ==
    IF CanTransition(current, next) THEN next ELSE current

\* `rsry bead reopen`: a terminal bead is corrected (written verbatim), any
\* other one goes through the transition table.
Reopened(s) == IF IsTerminal(s) THEN "open" ELSE UpdateStatus(s, "open")
=============================================================================
