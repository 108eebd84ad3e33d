----------------------------- MODULE MCRecords -----------------------------
(***************************************************************************)
(* Small instances for TLC of what happens to the records of beads: their  *)
(* exchange between clones, the switch of a store, a move to another       *)
(* repository, their threads, and the observations about them.  These      *)
(* share no state: an instance is one of them alone, chosen by the initial *)
(* state, while the others rest.                                           *)
(***************************************************************************)
EXTENDS Exchange, StoreSwitch, BeadMove, Threads, Observations, TLC

CONSTANTS
    Parts,       \* the components this instance looks at
    x1, x2,      \* two beads of the exchange
    WorldNames   \* which of World this instance looks at

ASSUME Parts \subseteq {"exchange", "switch", "move", "threads", "fold", "backfill"}

VARIABLE part

MCClones == {"left", "right"}
MCExBeads == {x1, x2}
Git(l, r) == ("left" :> l) @@ ("right" :> r)

\* The left clone can bring one branch to the trunk; both write and pull.
Plain == [published |-> {x1}, fresh |-> {}, held |-> {}, direct |-> TRUE,
          worktree |-> FALSE, edits |-> {"text"}, maxEdits |-> 2,
          maxClock |-> 2, maxGit |-> Git(3, 0), maxFailed |-> 0]
Commented == [Plain EXCEPT !.edits = {"text", "note"}]

World ==
    [authors  |-> [Plain EXCEPT !.maxGit = Git(3, 2)],
     reviewed |-> [Plain EXCEPT !.maxGit = Git(3, 2), !.direct = FALSE],
     comments |-> Commented,
     fresh    |-> [Commented EXCEPT !.fresh = {"right"}],
     created  |-> [Plain EXCEPT !.published = {}, !.edits = {"create", "text"},
                                !.maxGit = Git(3, 2)],
     failing  |-> [Commented EXCEPT !.maxFailed = 1],
     worktree |-> [Plain EXCEPT !.worktree = TRUE, !.maxGit = Git(3, 1)],
     held     |-> [Commented EXCEPT !.held = {x1}],
     reopened |-> [Plain EXCEPT !.edits = {"reopen", "files"}],
     two      |-> [Plain EXCEPT !.published = {x1, x2}]]
MCWorlds == {World[name] : name \in WorldNames}

\* One commit names a bead twice, another names it again.
MCClosures == {<<"c1", "x", 1>>, <<"c1", "x", 2>>, <<"c2", "x", 1>>}

recordsVars == <<part, exchangeVars, storeSwitchVars, beadMoveVars, threadsVars,
                 observationsVars>>

RecordsInit ==
    /\ part \in Parts
    /\ ExchangeInit /\ StoreSwitchInit /\ BeadMoveInit /\ ThreadsInit
    /\ ObservationsInit
    /\ part # "exchange" => exWorld = World["comments"]
    /\ part # "move" => mvSource.status = "open"

RecordsNext ==
    /\ UNCHANGED part
    /\ \/ /\ part = "exchange" /\ ExchangeNext
          /\ UNCHANGED <<storeSwitchVars, beadMoveVars, threadsVars,
                         observationsVars>>
       \/ /\ part = "switch" /\ StoreSwitchNext
          /\ UNCHANGED <<exchangeVars, beadMoveVars, threadsVars, observationsVars>>
       \/ /\ part = "move" /\ BeadMoveNext
          /\ UNCHANGED <<exchangeVars, storeSwitchVars, threadsVars,
                         observationsVars>>
       \/ /\ part = "threads" /\ ThreadsNext
          /\ UNCHANGED <<exchangeVars, storeSwitchVars, beadMoveVars,
                         observationsVars>>
       \/ /\ part = "fold" /\ FoldNext
          /\ UNCHANGED <<exchangeVars, storeSwitchVars, beadMoveVars, threadsVars>>
       \/ /\ part = "backfill" /\ BackfillNext
          /\ UNCHANGED <<exchangeVars, storeSwitchVars, beadMoveVars, threadsVars>>

\* The fairness of each component, where it is the one that runs.
RecordsFairness ==
    /\ \A c \in Clones :
          /\ WF_exchangeVars(part = "exchange" /\ (Pull(c) \/ Bootstrap(c)))
          /\ WF_exchangeVars(part = "exchange" /\ Importing(c))
    /\ WF_threadsVars(part = "threads" /\ ThIteration)

RecordsSpec == RecordsInit /\ [][RecordsNext]_recordsVars /\ RecordsFairness

\* The type invariant of the component that runs.
RecordsTypeOK ==
    /\ part = "exchange" => ExchangeTypeOK
    /\ part = "switch" => StoreSwitchTypeOK
    /\ part = "move" => BeadMoveTypeOK
    /\ part = "threads" => ThreadsTypeOK
    /\ part \in {"fold", "backfill"} => ObservationsTypeOK
=============================================================================
