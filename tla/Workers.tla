------------------------------ MODULE Workers ------------------------------
(***************************************************************************)
(* Agents started through the MCP server (rsry_dispatch) beside the daemon *)
(* (src/serve/handlers/mod.rs, src/session.rs, src/dispatch/sweep.rs,      *)
(* src/workspace/).  Three things tell the world that a bead is worked: the*)
(* stored status, the entry in ~/.rsry/sessions.json and the worktree.     *)
(* Several processes write them without a lock: every request is a         *)
(* sequence of steps, every status poll sweeps, the daemon sweeps, starts  *)
(* and judges runs of its own, and operators merge, clean up and close.    *)
(*                                                                         *)
(* One repository; git worktrees (the jj variants differ in the commands). *)
(* Work is dirty (uncommitted), unpushed (only on the branch) or safe.     *)
(***************************************************************************)
EXTENDS Naturals, FiniteSets, BeadStates

CONSTANTS
    WkBeads,         \* the beads looked at; others have requests as well
    Requests,        \* rsry_dispatch calls; each starts at most one worker
    NativeRequests,  \* those whose provider has a session_ref and no pid
    WkFaultKinds,    \* the misfortunes and interventions of this instance
    WkFaults         \* how many of them may happen, each once

ASSUME WorkersAssumption ==
    /\ NativeRequests \subseteq Requests
    /\ WkFaults \in Nat
    /\ "none" \notin Requests

VARIABLES
    wkStatus,    \* stored status of each bead
    wkTree,      \* beads with a worktree (and its branch fix/<bead>)
    wkDirty,     \* beads with uncommitted work in the tree
    wkUnpushed,  \* beads with commits that are only on the branch
    wkLost,      \* beads whose work has been destroyed
    wkRegistry,  \* sessions.json: bead -> request of the worker, or "none"
    wkWorker,    \* request -> "none", "running" or "gone"
    wkRequest,   \* request -> its step, bead and the registry it has loaded
    wkSweep,     \* the orphan sweep: its step and the beads still to judge
    wkRun,       \* bead -> the daemon's own run: "none", "running", "exited"
    wkDead,      \* the liveness sweep's candidates
    wkCrossed,   \* a registry was saved that had changed since it was loaded
    wkExposed,   \* beads whose worker came between a sweep's look and its
                 \* write, or has had its tree removed
    wkSpent      \* misfortunes that have happened

workersVars == <<wkStatus, wkTree, wkDirty, wkUnpushed, wkLost, wkRegistry,
                 wkWorker, wkRequest, wkSweep, wkRun, wkDead,
                 wkCrossed, wkExposed, wkSpent>>
wkDisk == <<wkTree, wkDirty, wkUnpushed, wkLost, wkExposed>>
wkDaemon == <<wkRun, wkDead>>
wkFile == <<wkRegistry, wkCrossed>>

NoSession == [b \in WkBeads |-> "none"]
NoSweep == [step |-> "ready", view |-> {}, bead |-> "none"]

WkUse(f) ==
    /\ f \in WkFaultKinds \ wkSpent
    /\ Cardinality(wkSpent) < WkFaults
    /\ wkSpent' = wkSpent \cup {f}

WkSet(b, wanted) == wkStatus' = [wkStatus EXCEPT ![b] = UpdateStatus(@, wanted)]

Working(r) == wkWorker[r] = "running"
PidAlive(r) == r \in Requests \ NativeRequests /\ Working(r)
WorkersOf(b) == {r \in Requests : Working(r) /\ wkRequest[r].bead = b}
BeadWorked(b) == WorkersOf(b) # {} \/ wkRun[b] = "running"

Expose(beads) == wkExposed' = wkExposed \cup {b \in beads : BeadWorked(b)}

\* cleanup_git_worktree: tree and branch go, with whatever is on them.
Discard(beads) ==
    /\ wkTree' = wkTree \ beads
    /\ wkDirty' = wkDirty \ beads
    /\ wkUnpushed' = wkUnpushed \ beads
    /\ Expose(beads)

Destroy(beads) ==
    /\ Discard(beads)
    /\ wkLost' = wkLost \cup (beads \cap (wkDirty \cup wkUnpushed))

\* Faulty: a workspace is always cut anew (a missed existing_workspace_dir).
CreateAnew(b) ==
    /\ wkTree' = wkTree \cup {b}
    /\ wkDirty' = wkDirty \ {b} /\ wkUnpushed' = wkUnpushed \ {b}
    /\ wkLost' = wkLost \cup ({b} \cap (wkDirty \cup wkUnpushed))
    /\ UNCHANGED wkExposed

HeldOrphan(b) == wkSweep.step = "revert" /\ wkSweep.bead = b

\* Workspace::create with reuse: an existing tree is taken over as it is; a
\* branch without a tree is deleted and cut again (create_git_worktree).
CreateWorkspace(b) ==
    /\ wkTree' = wkTree \cup {b}
    /\ UNCHANGED wkDirty
    /\ wkUnpushed' = IF b \in wkTree THEN wkUnpushed ELSE wkUnpushed \ {b}
    /\ wkLost' = IF b \in wkUnpushed \ wkTree THEN wkLost \cup {b} ELSE wkLost
    /\ wkExposed' = wkExposed \cup {c \in {b} : HeldOrphan(c)}
-----------------------------------------------------------------------------
(* sweep_orphan_dispatches, run by every status poll and every dispatch *)

\* The sweep is over when the last bead of its list has been judged.
SweepLeft(beads) ==
    IF beads = {} THEN NoSweep
                  ELSE [step |-> "judge", bead |-> "none", view |-> beads]

SweepReads ==
    /\ wkSweep.step = "ready"
    /\ wkSweep' = SweepLeft({b \in WkBeads : wkStatus[b] = "dispatched"})
    /\ UNCHANGED wkStatus

\* Faulty: a tree does not protect a bead from the sweep.
IsOrphanTreeless(b) == ~PidAlive(wkRegistry[b])

\* No session whose process lives, and no tree.  (The registry is loaded once per
\* sweep; a worker that is entered later comes with a tree.)
IsOrphan(b) == ~PidAlive(wkRegistry[b]) /\ b \notin wkTree

SweepJudges ==
    /\ wkSweep.step = "judge"
    /\ \E b \in wkSweep.view :
          wkSweep' = IF IsOrphan(b)
                       THEN [wkSweep EXCEPT !.step = "revert", !.bead = b]
                       ELSE SweepLeft(wkSweep.view \ {b})
    /\ UNCHANGED wkStatus

\* update_status "open": nothing is looked at again.
SweepReverts ==
    /\ wkSweep.step = "revert"
    /\ WkSet(wkSweep.bead, "open")
    /\ wkSweep' = SweepLeft(wkSweep.view \ {wkSweep.bead})

Sweeping ==
    /\ SweepReads \/ SweepJudges \/ SweepReverts
    /\ UNCHANGED <<wkDisk, wkDaemon, wkWorker, wkRequest, wkFile,
                   wkSpent>>
-----------------------------------------------------------------------------
(* tool_dispatch *)

AtStep(r, from, to) ==
    /\ wkRequest[r].step = from
    /\ wkRequest' = [wkRequest EXCEPT ![r].step = to]

\* The orphan sweep that comes first is one of Sweeping's.  Then the workspace,
\* and the registry as it is before the spawn; the bead's status is not looked
\* at.
Prepares(r, b) ==
    /\ wkRequest[r].step = "new"
    /\ CreateWorkspace(b)
    /\ wkRequest' = [wkRequest EXCEPT ![r] =
                        [step |-> "spawn", bead |-> b, seen |-> wkRegistry]]
    /\ UNCHANGED <<wkDaemon, wkStatus, wkWorker, wkSweep, wkFile,
                   wkSpent>>

Spawns(r) ==
    /\ AtStep(r, "spawn", "register")
    /\ wkRequest[r].bead \in wkTree
    /\ wkWorker' = [wkWorker EXCEPT ![r] = "running"]
    /\ wkDirty' = wkDirty \cup {wkRequest[r].bead}
    /\ UNCHANGED <<wkTree, wkUnpushed, wkLost, wkExposed, wkDaemon, wkStatus,
                   wkSweep, wkFile, wkSpent>>

\* Also when its working directory has been removed.
SpawnFailsFor(r) ==
    /\ wkRequest[r].step = "spawn"
    /\ wkRequest' = [wkRequest EXCEPT ![r].step = "done", ![r].seen = NoSession]
    /\ \/ wkRequest[r].bead \notin wkTree /\ UNCHANGED wkSpent
       \/ WkUse("spawn")
    /\ UNCHANGED <<wkDisk, wkDaemon, wkStatus, wkWorker, wkSweep,
                   wkFile>>

\* SessionRegistry::register: replaces the bead's entry in the loaded copy.
WithEntry(registry, b, r) == [registry EXCEPT ![b] = r]

Registers(r) ==
    /\ wkRequest[r].step = "register"
    /\ wkRequest' = [wkRequest EXCEPT ![r].step = "mark", ![r].seen = NoSession]
    /\ wkRegistry' = WithEntry(wkRequest[r].seen, wkRequest[r].bead, r)
    /\ wkCrossed' = (wkCrossed \/ wkRegistry # wkRequest[r].seen)
    /\ UNCHANGED <<wkDisk, wkDaemon, wkStatus, wkWorker, wkSweep, wkSpent>>

\* Faulty: a worker that cannot be tracked runs on.
RegisterFailsQuietly(r) ==
    /\ wkRequest[r].step = "register"
    /\ wkRequest' = [wkRequest EXCEPT ![r].step = "done", ![r].seen = NoSession]
    /\ WkUse("save")
    /\ UNCHANGED <<wkDisk, wkDaemon, wkStatus, wkFile, wkWorker, wkSweep>>

\* A worker that cannot be tracked is killed.
RegisterFails(r) ==
    /\ wkRequest[r].step = "register"
    /\ wkRequest' = [wkRequest EXCEPT ![r].step = "done", ![r].seen = NoSession]
    /\ WkUse("save")
    /\ wkWorker' = [wkWorker EXCEPT ![r] = "gone"]
    /\ UNCHANGED <<wkDisk, wkDaemon, wkStatus, wkSweep, wkFile>>

\* Refused by the table, it is an error for the caller; the worker runs on.
Marks(r) ==
    /\ AtStep(r, "mark", "done")
    /\ WkSet(wkRequest[r].bead, "dispatched")
    /\ UNCHANGED <<wkDisk, wkDaemon, wkWorker, wkSweep, wkFile,
                   wkSpent>>

\* A request about a bead outside WkBeads does the same: the entries here are
\* again what they were when it loaded the file.
OthersRegister(b) ==
    /\ WkUse("stale")
    /\ \E earlier \in {"none"} \cup
                       {r \in Requests : /\ wkRequest[r].bead = b
                                         /\ wkRequest[r].step \in {"mark", "done"}} :
          /\ earlier # wkRegistry[b]
          /\ wkRegistry' = [wkRegistry EXCEPT ![b] = earlier]
    /\ wkCrossed' = TRUE
    /\ UNCHANGED <<wkDisk, wkDaemon, wkStatus, wkWorker, wkRequest, wkSweep>>

Serving(r) ==
    \/ Spawns(r) \/ SpawnFailsFor(r)
    \/ Registers(r) \/ RegisterFails(r) \/ Marks(r)
-----------------------------------------------------------------------------
(* Workers and the workspace tools *)

\* Faulty: a worker whose tree is gone still leaves work in it.
DiesWriting(r) ==
    /\ Working(r)
    /\ wkWorker' = [wkWorker EXCEPT ![r] = "gone"]
    /\ wkDirty' = wkDirty \cup {wkRequest[r].bead}
    /\ UNCHANGED <<wkDaemon, wkStatus, wkTree, wkUnpushed, wkLost, wkExposed,
                   wkRequest, wkSweep, wkFile, wkSpent>>

\* A worker works in its tree, if it still has one, until it ends.
Dies(r) ==
    /\ Working(r)
    /\ wkWorker' = [wkWorker EXCEPT ![r] = "gone"]
    /\ wkDirty' = wkDirty \cup ({wkRequest[r].bead} \cap wkTree)
    /\ UNCHANGED <<wkDaemon, wkStatus, wkTree, wkUnpushed, wkLost, wkExposed,
                   wkRequest, wkSweep, wkFile, wkSpent>>

\* rsry_workspace_checkpoint
Checkpoint(b) ==
    /\ b \in wkTree \cap wkDirty
    /\ wkDirty' = wkDirty \ {b} /\ wkUnpushed' = wkUnpushed \cup {b}
    /\ UNCHANGED <<wkDaemon, wkStatus, wkTree, wkLost, wkExposed, wkWorker,
                   wkRequest, wkSweep, wkFile, wkSpent>>

\* rsry_workspace_merge: what is committed is pushed; the session is dropped
\* whether or not its worker has ended.  The tree stays.
Merge(b) ==
    /\ b \in wkTree
    /\ WkUse("merge")
    /\ wkUnpushed' = wkUnpushed \ {b}
    /\ wkRegistry' = [wkRegistry EXCEPT ![b] = "none"]
    /\ UNCHANGED <<wkDaemon, wkStatus, wkTree, wkDirty, wkLost, wkExposed,
                   wkWorker, wkRequest, wkSweep, wkCrossed>>

\* rsry_workspace_cleanup; the session's entry stays.
Cleanup(b) ==
    /\ b \in wkTree
    /\ WkUse("cleanup")
    /\ Destroy({b})
    /\ UNCHANGED <<wkDaemon, wkStatus, wkWorker, wkRequest, wkSweep,
                   wkFile>>

\* The directory is removed by hand; the branch stays.
RemoveTree(b) ==
    /\ b \in wkTree
    /\ WkUse("rm")
    /\ wkTree' = wkTree \ {b} /\ wkDirty' = wkDirty \ {b}
    /\ wkLost' = wkLost \cup ({b} \cap wkDirty)
    /\ Expose({b})
    /\ UNCHANGED <<wkDaemon, wkStatus, wkUnpushed, wkWorker,
                   wkRequest, wkSweep, wkFile>>

\* tool_bead_close
Close(b) ==
    /\ wkStatus[b] # "done"
    /\ WkUse("close")
    /\ wkStatus' = [wkStatus EXCEPT ![b] = "done"]
    /\ wkRegistry' = [wkRegistry EXCEPT ![b] = "none"]
    /\ UNCHANGED <<wkDisk, wkDaemon, wkWorker, wkRequest, wkSweep, wkCrossed>>

Reopen(b) ==
    /\ Reopened(wkStatus[b]) # wkStatus[b]
    /\ WkUse("reopen")
    /\ wkStatus' = [wkStatus EXCEPT ![b] = Reopened(@)]
    /\ UNCHANGED <<wkDisk, wkDaemon, wkWorker, wkRequest, wkSweep,
                   wkFile>>
-----------------------------------------------------------------------------
(* The daemon *)

\* It forgets its runs, reopens every dispatched bead and removes every
\* workspace (sweep_orphaned: nothing is active yet).
Restart ==
    /\ WkUse("restart")
    /\ wkStatus' = [b \in WkBeads |-> IF wkStatus[b] = "dispatched" THEN "open"
                                                                   ELSE wkStatus[b]]
    /\ Destroy(WkBeads)
    /\ wkDead' = {}
    /\ wkRun' = [b \in WkBeads |-> "none"]
    /\ UNCHANGED <<wkWorker, wkRequest, wkSweep, wkFile>>

\* Faulty: a tree protects a dead worker's bead from the liveness sweep too.
DeadWorkersTreeless ==
    {b \in WkBeads \ wkTree : /\ wkStatus[b] = "dispatched"
                              /\ wkRegistry[b] \in Requests \ NativeRequests
                              /\ ~PidAlive(wkRegistry[b])}

\* sweep_dead_workers: dispatched, with a registered pid that is gone.
DeadWorkers ==
    {b \in WkBeads : /\ wkStatus[b] = "dispatched"
                     /\ wkRegistry[b] \in Requests \ NativeRequests
                     /\ ~PidAlive(wkRegistry[b])}

Looks ==
    /\ wkDead = {} /\ DeadWorkers # {}
    /\ wkDead' = DeadWorkers
    /\ UNCHANGED <<wkDisk, wkStatus, wkWorker, wkRequest, wkSweep,
                   wkRun, wkFile, wkSpent>>

\* persist_status of one candidate.
Buries(b) ==
    /\ b \in wkDead
    /\ wkDead' = wkDead \ {b}
    /\ WkSet(b, "dead_letter")
    /\ UNCHANGED <<wkDisk, wkWorker, wkRequest, wkSweep,
                   wkRun, wkFile, wkSpent>>

\* spawn(): the registry is not told.
Dispatches(b) ==
    /\ wkDead = {} /\ wkStatus[b] = "open" /\ wkRun[b] = "none"
    /\ CreateWorkspace(b)
    /\ wkRun' = [wkRun EXCEPT ![b] = "running"]
    /\ WkSet(b, "dispatched")
    /\ UNCHANGED <<wkWorker, wkRequest, wkSweep, wkDead, wkFile,
                   wkSpent>>

\* spawn() cleans up after a failure, also a tree that was there before.
DispatchFails(b) ==
    /\ wkDead = {} /\ wkStatus[b] = "open" /\ wkRun[b] = "none"
    /\ WkUse("spawn")
    /\ Destroy({b})
    /\ UNCHANGED <<wkStatus, wkWorker, wkRequest, wkSweep, wkRun,
                   wkDead, wkFile>>

Exits(b) ==
    /\ wkRun[b] = "running"
    /\ wkRun' = [wkRun EXCEPT ![b] = "exited"]
    /\ wkDirty' = wkDirty \cup ({b} \cap wkTree)
    /\ UNCHANGED <<wkTree, wkUnpushed, wkLost, wkExposed, wkStatus, wkWorker,
                   wkRequest, wkSweep, wkDead, wkFile, wkSpent>>

\* execute_action.  A retry leaves the tree to the next run, an advance commits
\* first; the end of the pipeline commits, pushes and removes the tree, and the
\* tree is removed and the status written also when the push has failed; a dead
\* letter's tree is thrown away.
Judges(b) ==
    /\ wkRun[b] = "exited"
    /\ wkRun' = [wkRun EXCEPT ![b] = "none"]
    /\ \/ WkSet(b, "open") /\ UNCHANGED <<wkDisk, wkSpent>>
       \/ /\ WkSet(b, "open")
          /\ b \in wkTree \cap wkDirty
          /\ wkDirty' = wkDirty \ {b} /\ wkUnpushed' = wkUnpushed \cup {b}
          /\ UNCHANGED <<wkTree, wkLost, wkExposed, wkSpent>>
       \/ /\ wkStatus' = [wkStatus EXCEPT ![b] =
                            UpdateStatus(UpdateStatus(@, "verifying"), "pr_open")]
          /\ \/ Discard({b}) /\ UNCHANGED <<wkLost, wkSpent>>
             \/ Destroy({b}) /\ WkUse("push")
       \/ WkSet(b, "dead_letter") /\ Discard({b}) /\ UNCHANGED <<wkLost, wkSpent>>
    /\ UNCHANGED <<wkWorker, wkRequest, wkSweep, wkDead,
                   wkFile>>

Daemon ==
    \/ Looks
    \/ \E b \in WkBeads : Buries(b) \/ Dispatches(b) \/ DispatchFails(b) \/ Judges(b)
-----------------------------------------------------------------------------
WorkersInit ==
    /\ wkStatus \in [WkBeads -> {"open", "dispatched"}]
    /\ wkTree = {} /\ wkDirty = {} /\ wkUnpushed = {} /\ wkLost = {}
    /\ wkRegistry = NoSession
    /\ wkWorker = [r \in Requests |-> "none"]
    /\ wkRequest = [r \in Requests |->
                      [step |-> "new", bead |-> "none", seen |-> NoSession]]
    /\ wkSweep = NoSweep
    /\ wkDead = {}
    /\ wkRun = [b \in WkBeads |-> "none"]
    /\ wkCrossed = FALSE /\ wkExposed = {} /\ wkSpent = {}

WorkersNext ==
    \/ Sweeping \/ Daemon \/ Restart
    \/ \E r \in Requests : Serving(r) \/ Dies(r)
    \/ \E r \in Requests, b \in WkBeads : Prepares(r, b)
    \/ \E b \in WkBeads : \/ Exits(b) \/ Checkpoint(b) \/ Merge(b)
                          \/ Cleanup(b) \/ RemoveTree(b) \/ Close(b) \/ Reopen(b)
                          \/ OthersRegister(b)

WorkersSpec == WorkersInit /\ [][WorkersNext]_workersVars

\* The server serves what it was asked (a request has few steps), the daemon's
\* loop runs, every agent ends, and the statusline polls.
WorkersFairness ==
    /\ WF_workersVars(Sweeping)
    /\ WF_workersVars(Daemon)
    /\ \A r \in Requests : WF_workersVars(Serving(r) \/ Dies(r))
    /\ \A b \in WkBeads : WF_workersVars(Exits(b))

WorkersFairSpec == WorkersSpec /\ WorkersFairness
-----------------------------------------------------------------------------
WorkersTypeOK ==
    /\ wkStatus \in [WkBeads -> States]
    /\ wkTree \subseteq WkBeads /\ wkDirty \subseteq wkTree
    /\ wkUnpushed \subseteq WkBeads /\ wkLost \subseteq WkBeads
    /\ wkRegistry \in [WkBeads -> Requests \cup {"none"}]
    /\ wkWorker \in [Requests -> {"none", "running", "gone"}]
    /\ wkRequest \in [Requests ->
          [step : {"new", "spawn", "register", "mark", "done"},
           bead : WkBeads \cup {"none"}, seen : [WkBeads -> Requests \cup {"none"}]]]
    /\ wkSweep \in
          [step : {"ready", "judge", "revert"}, view : SUBSET WkBeads,
           bead : WkBeads \cup {"none"}]
    /\ wkDead \subseteq WkBeads
    /\ wkRun \in [WkBeads -> {"none", "running", "exited"}]
    /\ wkCrossed \in BOOLEAN /\ wkExposed \subseteq WkBeads
    /\ wkSpent \subseteq WkFaultKinds

\* No work is destroyed by redispatching, sweeping, judging or merging, in any
\* order of the processes.  It is destroyed by the five events named here: an
\* operator's cleanup or rm, a start of the daemon (sweep_orphaned), a failed
\* spawn (spawn() removes the tree it took over) and a failed push
\* (checkpoint_and_cleanup removes tree and branch all the same).
WorkKept ==
    wkSpent \cap {"cleanup", "rm", "restart", "spawn", "push"} = {} => wkLost = {}

\* A running worker whose request has registered it has an entry under its bead,
\* so that somebody finds it: unless two requests' loads and saves of the file
\* crossed, or the entry was dropped with a merge or a closing.
WorkersTracked ==
    /\ ~wkCrossed
    /\ wkSpent \cap {"merge", "close"} = {}
    => \A r \in Requests :
          Working(r) /\ wkRequest[r].step \in {"mark", "done"} =>
             wkRegistry[wkRequest[r].bead] # "none"

\* The orphan sweep never reopens a bead that somebody works on, although it
\* sees neither native sessions nor the daemon's runs: the tree protects them.
\* The exceptions: the tree was taken from under the worker (also by the daemon,
\* which judges its own run of the bead), or the worker came between the sweep's
\* look and its write.
SweepSparesWorkers ==
    [][/\ wkSweep.step = "revert" /\ wkSweep'.step # "revert"
       /\ wkSweep.bead \notin wkExposed
       => ~BeadWorked(wkSweep.bead)]_workersVars

\* A bead whose worker died does not stay dispatched for ever: one of the two
\* sweeps finds it.  Neither finds it while there is a tree and no entry with a
\* pid: a native session, an entry lost, merged or closed away, and a request
\* that failed after it had made the tree, which tool_dispatch leaves behind.
DeadWorkersAreFound ==
    \A b \in WkBeads :
        wkStatus[b] = "dispatched" /\ ~BeadWorked(b) ~>
            \/ wkStatus[b] # "dispatched" \/ BeadWorked(b)
            \/ wkRegistry[b] \in NativeRequests
            \/ wkCrossed
            \/ wkSpent \cap {"merge", "close", "spawn", "save"} # {}
=============================================================================
