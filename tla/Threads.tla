------------------------------ MODULE Threads ------------------------------
(***************************************************************************)
(* Threads group beads on one feature branch.  The daemon clusters similar *)
(* open beads (src/reconcile/threading.rs auto_thread), opens a bead's PR  *)
(* against the branch of its thread (workspace_ops.rs), and the thread's   *)
(* own PR when its last member is done (assemble_feature_prs); meanwhile   *)
(* an operator assigns, decomposes, reparents, closes and reopens          *)
(* (serve/handlers/mod.rs, main.rs).  Each call to a store is one step.    *)
(*                                                                         *)
(* Beads are numbered in the order of clusters (priority, age).  The id of *)
(* a thread is the pair of beads it is named after, Named for another one. *)
(***************************************************************************)
EXTENDS Integers, FiniteSets

CONSTANTS
    ThBeads,
    ThSimilar,      \* the beads that cluster_beads puts together when open
    ThFirst,        \* the beads there are from the start
    ThMaxOps,       \* bound: what the operator does
    ThMaxFaults     \* bound: failed calls and crashes of the daemon

ASSUME ThreadsAssumption ==
    /\ ThBeads \subseteq Nat /\ IsFiniteSet(ThBeads)
    /\ ThSimilar \subseteq ThBeads /\ ThFirst \subseteq ThBeads
    /\ {ThMaxOps, ThMaxFaults} \subseteq Nat

Named == {}
AutoThreads == {{i, j} : i, j \in ThSimilar} \ {{i} : i \in ThSimilar}
ThreadIds == AutoThreads \cup {Named}

VARIABLES
    thDecade,    \* thread -> "none", "home" (the prefix of its id) or "away"
    thMembers,   \* <<thread, bead>>
    thStatus,    \* bead -> its status; "exited" is dispatched, the agent gone
    thBase,      \* bead -> the branch its PR was opened against
    thFeatures,  \* threads that a feature PR was opened for
    thStep,      \* where the daemon's iteration is
    thTodo,      \* the beads that the loop of this step has left
    thCluster, thCompleted, thNewly,   \* what the iteration has found so far
    thWaiting,   \* assemble_feature_prs: candidates, <<thread, members listed>>
    thCandidate, \* ... and the one whose members are being read
    thOp,        \* the operator's command
    thTouched,   \* beads that an operator's command or a failure came across
    thMoved,     \* threads that have been under another decade
    thOps, thFaults

threadsVars == <<thDecade, thMembers, thStatus, thBase, thFeatures, thStep,
                 thTodo, thCluster, thCompleted, thNewly, thWaiting,
                 thCandidate, thOp, thTouched, thMoved, thOps, thFaults>>
thStoreVars == <<thDecade, thMembers, thMoved>>
thBeadVars == <<thStatus, thBase>>
thAssemblyVars == <<thWaiting, thCandidate>>
thLoopVars == <<thStep, thTodo, thCluster, thCompleted, thNewly, thAssemblyVars>>

Least(S) == CHOOSE b \in S : \A c \in S : b <= c
MembersOf(t) == {b \in ThBeads : <<t, b>> \in thMembers}
ThreadsOf(b) == {t \in ThreadIds : <<t, b>> \in thMembers}
NoCandidate == <<Named, {}>>
IdleOp == [step |-> "idle", thread |-> Named, bead |-> 0]

\* thread_branch_name of "SharedScope cluster": one branch for all of them.
Branch(t) == IF t = Named THEN "named" ELSE "cluster"

\* list_threads of the decade that the id names, searched for the id.
Listed(t) == thDecade[t] = "home"

ThFault == thFaults < ThMaxFaults /\ thFaults' = thFaults + 1
-----------------------------------------------------------------------------
(* auto_thread *)

\* The iteration lists the beads; open similar ones make a cluster.
ThScan ==
    /\ thStep = "scan"
    /\ LET open == {b \in ThSimilar : thStatus[b] = "open"}
       IN  /\ thCluster' = IF Cardinality(open) >= 2 THEN open ELSE {}
           /\ thTodo' = thCluster'
           /\ thStep' = IF thCluster' = {} THEN "work" ELSE "check"
    /\ thCompleted' = {b \in ThBeads : thStatus[b] = "exited"}
    /\ thNewly' = {}
    /\ UNCHANGED <<thStoreVars, thBeadVars, thFeatures, thAssemblyVars, thOp,
                   thTouched, thOps, thFaults>>

\* Faulty: only the first bead of the cluster is looked up.
FirstThreaded(b) == b = Least(thCluster) /\ ThreadsOf(b) # {}

AlreadyThreaded(b) == ThreadsOf(b) # {}

\* find_thread_for_bead, in order, until one has a thread; a lookup that fails
\* counts as none.
ThCheck ==
    /\ thStep = "check"
    /\ LET b == Least(thTodo)
           passes == /\ thTodo' = thTodo \ {b}
                     /\ thStep' = IF thTodo' = {} THEN "create" ELSE "check"
       IN  \/ /\ IF AlreadyThreaded(b) THEN thTodo' = {} /\ thStep' = "work"
                                       ELSE passes
              /\ UNCHANGED <<thTouched, thFaults>>
           \/ passes /\ ThFault /\ thTouched' = thTouched \cup {b}
    /\ UNCHANGED <<thStoreVars, thBeadVars, thFeatures, thCluster, thCompleted,
                   thNewly, thAssemblyVars, thOp, thOps>>

NewThread == {Least(thCluster), Least(thCluster \ {Least(thCluster)})}

\* upsert_thread: the decade is written whether the thread is new or not.
ThCreate ==
    /\ thStep = "create"
    /\ \/ /\ thDecade' = [thDecade EXCEPT ![NewThread] = "home"]
          /\ thStep' = "add" /\ thTodo' = thCluster /\ UNCHANGED thFaults
       \/ thStep' = "work" /\ ThFault /\ UNCHANGED <<thDecade, thTodo>>
    /\ UNCHANGED <<thMembers, thMoved, thBeadVars, thFeatures, thCluster,
                   thCompleted, thNewly, thAssemblyVars, thOp, thTouched, thOps>>

\* add_bead_to_thread, bead by bead; an error is ignored.
ThAdd ==
    /\ thStep = "add"
    /\ LET b == Least(thTodo)
       IN  /\ thTodo' = thTodo \ {b}
           /\ \/ thMembers' = thMembers \cup {<<NewThread, b>>} /\ UNCHANGED thFaults
              \/ ThFault /\ UNCHANGED thMembers
    /\ thStep' = IF thTodo' = {} THEN "work" ELSE "add"
    /\ UNCHANGED <<thDecade, thMoved, thBeadVars, thFeatures, thCluster,
                   thCompleted, thNewly, thAssemblyVars, thOp, thTouched, thOps>>
-----------------------------------------------------------------------------
(* Dispatch, agents, and the terminal step *)

ThDispatch(b) ==
    /\ thStep = "work" /\ thStatus[b] = "open"
    /\ thStatus' = [thStatus EXCEPT ![b] = "dispatched"]
    /\ UNCHANGED <<thStoreVars, thBase, thFeatures, thLoopVars, thOp, thTouched,
                   thOps, thFaults>>

ThAgentExits(b) ==
    /\ thStatus[b] = "dispatched"
    /\ thStatus' = [thStatus EXCEPT ![b] = "exited"]
    /\ UNCHANGED <<thStoreVars, thBase, thFeatures, thLoopVars, thOp, thTouched,
                   thOps, thFaults>>

\* verify_completed: another try.
ThRetry(b) ==
    /\ thStep = "work" /\ b \in thCompleted
    /\ thCompleted' = thCompleted \ {b}
    /\ thStatus' = [thStatus EXCEPT ![b] = IF @ = "exited" THEN "open" ELSE @]
    /\ UNCHANGED <<thStoreVars, thBase, thFeatures, thStep, thTodo, thCluster,
                   thNewly, thAssemblyVars, thOp, thTouched, thOps, thFaults>>

\* The base that checkpoint_and_cleanup finds; one of its threads if several.
BaseFound(b) ==
    IF ThreadsOf(b) = {} THEN {"default"}
    ELSE {IF Listed(t) THEN Branch(t) ELSE "default" : t \in ThreadsOf(b)}

\* A bead closed meanwhile is passed over (is_bead_agent_closed); otherwise it
\* is verifying and its PR is opened.  A second PR for its branch is refused.
ThOpenPR(b) ==
    /\ thStep = "work" /\ b \in thCompleted /\ thStatus[b] # "done"
    /\ thStep' = "persist" /\ thTodo' = {b}
    /\ thStatus' = [thStatus EXCEPT ![b] = IF @ = "exited" THEN "verifying" ELSE @]
    /\ \/ /\ \E base \in BaseFound(b) :
                thBase' = [thBase EXCEPT ![b] = IF @ = "none" THEN base ELSE @]
          /\ UNCHANGED <<thTouched, thFaults>>
       \/ /\ ThFault /\ thTouched' = thTouched \cup {b}
          /\ \E base \in {"none", "default"} :
                thBase' = [thBase EXCEPT ![b] = IF @ = "none" THEN base ELSE @]
    /\ UNCHANGED <<thStoreVars, thFeatures, thCluster, thCompleted, thNewly,
                   thAssemblyVars, thOp, thOps>>

ThPassOver(b) ==
    /\ thStep = "work" /\ b \in thCompleted /\ thStatus[b] = "done"
    /\ thCompleted' = thCompleted \ {b}
    /\ UNCHANGED <<thStoreVars, thBeadVars, thFeatures, thStep, thTodo, thCluster,
                   thNewly, thAssemblyVars, thOp, thTouched, thOps, thFaults>>

\* persist_status(pr_open): refused when the bead has left the pipeline, and it
\* counts as newly open all the same.
ThPersist ==
    /\ thStep = "persist" /\ thStep' = "work" /\ thTodo' = {}
    /\ thCompleted' = thCompleted \ thTodo /\ thNewly' = thNewly \cup thTodo
    /\ \/ /\ thStatus' = [b \in ThBeads |->
                IF b \in thTodo /\ thStatus[b] = "verifying" THEN "pr_open"
                                                           ELSE thStatus[b]]
          /\ UNCHANGED <<thTouched, thFaults>>
       \/ ThFault /\ thTouched' = thTouched \cup thTodo /\ UNCHANGED thStatus
    /\ UNCHANGED <<thStoreVars, thBase, thFeatures, thCluster, thAssemblyVars, thOp,
                   thOps>>

\* poll_pr_status: a bead whose PR was merged is done.
ThMerged(b) ==
    /\ thStep = "scan" /\ thStatus[b] = "pr_open" /\ thBase[b] # "none"
    /\ thStatus' = [thStatus EXCEPT ![b] = "done"]
    /\ UNCHANGED <<thStoreVars, thBase, thFeatures, thLoopVars, thOp, thTouched,
                   thOps, thFaults>>
-----------------------------------------------------------------------------
(* assemble_feature_prs *)

\* The threads of beads newly at pr_open are found, looked up by the decade of
\* their id and listed with their members; what cannot be read is passed over.
ThCollect ==
    /\ thStep = "work" /\ thCompleted = {}
    /\ \E pick \in [{b \in thNewly : ThreadsOf(b) # {}} -> ThreadIds] :
          /\ \A b \in DOMAIN pick : pick[b] \in ThreadsOf(b)
          /\ LET found == {pick[b] : b \in DOMAIN pick}
                 candidates(S) == {<<t, MembersOf(t)>> : t \in {u \in S : Listed(u)}}
             IN  \/ /\ thWaiting' = candidates(found)
                    /\ UNCHANGED <<thTouched, thFaults>>
                 \/ /\ ThFault
                    /\ \E lost \in found :
                          /\ thWaiting' = candidates(found \ {lost})
                          /\ thTouched' = thTouched \cup MembersOf(lost)
    /\ thStep' = IF thWaiting' = {} THEN "scan" ELSE "assemble"
    /\ thCluster' = {} /\ thTodo' = {} /\ thNewly' = {}
    /\ UNCHANGED <<thStoreVars, thBeadVars, thFeatures, thCompleted,
                   thCandidate, thOp, thOps>>

\* Faulty: a bead that has left the queue counts as complete ...
HasLeft(s) == s \notin {"none", "open"}

\* ... and one whose PR was merged does not.
UnderReview(s) == s = "pr_open"

\* A member at a terminal state of the developers.
Complete(s) == s \in {"pr_open", "done"}

NextCandidate(left) == IF left = {} THEN "scan" ELSE "assemble"

ThChoose(w) ==
    /\ thStep = "assemble" /\ thStep' = "read"
    /\ thCandidate' = w /\ thWaiting' = thWaiting \ {w} /\ thTodo' = w[2]
    /\ UNCHANGED <<thStoreVars, thBeadVars, thFeatures, thCluster, thCompleted,
                   thNewly, thOp, thTouched, thOps, thFaults>>

\* get_status, member by member, until one is not complete or cannot be read.
ThRead ==
    /\ thStep = "read" /\ thTodo # {}
    /\ \/ /\ IF Complete(thStatus[Least(thTodo)])
                THEN /\ thTodo' = thTodo \ {Least(thTodo)}
                     /\ UNCHANGED <<thStep, thCandidate>>
                ELSE /\ thTodo' = {} /\ thStep' = NextCandidate(thWaiting)
                     /\ thCandidate' = NoCandidate
          /\ UNCHANGED <<thTouched, thFaults>>
       \/ /\ ThFault /\ thTouched' = thTouched \cup thCandidate[2]
          /\ thTodo' = {} /\ thStep' = NextCandidate(thWaiting)
          /\ thCandidate' = NoCandidate
    /\ UNCHANGED <<thStoreVars, thBeadVars, thFeatures, thCluster, thCompleted,
                   thNewly, thWaiting, thOp, thOps>>

\* merge_or_pr_with_base of the feature branch; its result is ignored.
ThOpenFeature ==
    /\ thStep = "read" /\ thTodo = {} /\ thStep' = NextCandidate(thWaiting)
    /\ thCandidate' = NoCandidate
    /\ \/ /\ thFeatures' = thFeatures \cup {thCandidate[1]}
          /\ UNCHANGED <<thTouched, thFaults>>
       \/ /\ ThFault /\ thTouched' = thTouched \cup thCandidate[2]
          /\ UNCHANGED thFeatures
    /\ UNCHANGED <<thStoreVars, thBeadVars, thCluster, thCompleted, thNewly,
                   thTodo, thWaiting, thOp, thOps>>

\* The daemon dies, wherever it is; recovery reopens what was dispatched, and a
\* bead that was verifying stays so.
ThCrash ==
    /\ ThFault /\ thStep' = "scan"
    /\ thTodo' = {} /\ thCluster' = {} /\ thCompleted' = {} /\ thNewly' = {}
    /\ thWaiting' = {} /\ thCandidate' = NoCandidate
    /\ thStatus' = [b \in ThBeads |->
          IF thStatus[b] \in {"dispatched", "exited"} THEN "open" ELSE thStatus[b]]
    /\ thTouched' = thTouched \cup thNewly \cup thCandidate[2]
                       \cup (UNION {w[2] : w \in thWaiting})
                       \cup (IF thStep = "persist" THEN thTodo ELSE {})
    /\ UNCHANGED <<thStoreVars, thBase, thFeatures, thOp, thOps>>
-----------------------------------------------------------------------------
(* The operator *)

ThBegins == thOps < ThMaxOps /\ thOps' = thOps + 1
ThDaemonAlone ==
    UNCHANGED <<thBase, thFeatures, thLoopVars, thFaults>>

\* thread_assign, get_thread: only a thread that is not there is written.
AssignThread(t, b) ==
    /\ thOp.step = "idle" /\ thStatus[b] # "none" /\ ThBegins
    /\ thOp' = [step |-> IF thDecade[t] = "none" THEN "create" ELSE "add",
                thread |-> t, bead |-> b]
    /\ ThDaemonAlone /\ UNCHANGED <<thStoreVars, thStatus, thTouched>>

\* Its decade is the one that was passed, or "ungrouped".
AssignCreates ==
    /\ thOp.step = "create" /\ thOp' = [thOp EXCEPT !.step = "add"]
    /\ \E decade \in {"home", "away"} :
          /\ thDecade' = [thDecade EXCEPT ![thOp.thread] = decade]
          /\ thMoved' = IF decade = "away" THEN thMoved \cup {thOp.thread} ELSE thMoved
    /\ ThDaemonAlone /\ UNCHANGED <<thMembers, thStatus, thTouched, thOps>>

\* add_bead_to_thread of an assignment or a decomposition.
OperatorAdds ==
    /\ thOp.step = "add" /\ thOp' = IdleOp
    /\ thMembers' = thMembers \cup {<<thOp.thread, thOp.bead>>}
    /\ thTouched' = thTouched \cup {thOp.bead}
    /\ ThDaemonAlone /\ UNCHANGED <<thDecade, thMoved, thStatus, thOps>>

\* The call fails, or the command ends.
OperatorFails ==
    /\ thOp.step # "idle" /\ ThFault /\ thOp' = IdleOp
    /\ UNCHANGED <<thStoreVars, thBeadVars, thFeatures, thLoopVars, thTouched,
                   thOps>>

\* decompose: the decade and its threads are written, ...
Decompose(b) ==
    /\ thOp.step = "idle" /\ thStatus[b] = "none" /\ ThBegins
    /\ thDecade' = [thDecade EXCEPT ![Named] = "home"]
    /\ thOp' = [step |-> "make", thread |-> Named, bead |-> b]
    /\ ThDaemonAlone /\ UNCHANGED <<thMembers, thMoved, thStatus, thTouched>>

\* ... then the bead is made, open at once, and only then added to its thread.
DecomposeMakes ==
    /\ thOp.step = "make" /\ thOp' = [thOp EXCEPT !.step = "add"]
    /\ thStatus' = [thStatus EXCEPT ![thOp.bead] = "open"]
    /\ ThDaemonAlone /\ UNCHANGED <<thStoreVars, thTouched, thOps>>

\* reparent_thread, for a thread that some decade lists.
Reparent(t) ==
    /\ thOp.step = "idle" /\ thDecade[t] # "none" /\ ThBegins
    /\ \E decade \in {"home", "away"} \ {thDecade[t]} :
          thDecade' = [thDecade EXCEPT ![t] = decade]
    /\ thMoved' = thMoved \cup {t}
    /\ ThDaemonAlone /\ UNCHANGED <<thMembers, thStatus, thOp, thTouched>>

\* A bead is closed or reopened by hand.
SetByHand(b) ==
    /\ thOp.step = "idle" /\ ThBegins
    /\ \/ /\ thStatus[b] \notin {"none", "done"}
          /\ thStatus' = [thStatus EXCEPT ![b] = "done"]
       \/ /\ Complete(thStatus[b])
          /\ thStatus' = [thStatus EXCEPT ![b] = "open"]
    /\ thTouched' = thTouched \cup {b}
    /\ ThDaemonAlone /\ UNCHANGED <<thStoreVars, thOp>>
-----------------------------------------------------------------------------
ThreadsInit ==
    /\ thDecade = [t \in ThreadIds |-> "none"] /\ thMembers = {}
    /\ thStatus = [b \in ThBeads |-> IF b \in ThFirst THEN "open" ELSE "none"]
    /\ thBase = [b \in ThBeads |-> "none"] /\ thFeatures = {}
    /\ thStep = "scan" /\ thTodo = {} /\ thCluster = {}
    /\ thCompleted = {} /\ thNewly = {}
    /\ thWaiting = {} /\ thCandidate = NoCandidate
    /\ thOp = IdleOp /\ thTouched = {} /\ thMoved = {}
    /\ thOps = 0 /\ thFaults = 0

\* One iteration of the daemon after another.
ThIteration ==
    \/ ThScan \/ ThCheck \/ ThCreate \/ ThAdd
    \/ \E b \in ThBeads :
          ThDispatch(b) \/ ThRetry(b) \/ ThOpenPR(b) \/ ThPassOver(b) \/ ThMerged(b)
    \/ ThPersist \/ ThCollect
    \/ \E w \in thWaiting : ThChoose(w)
    \/ ThRead \/ ThOpenFeature

ThOperator ==
    \/ \E b \in ThBeads :
          \/ \E t \in ThreadIds : AssignThread(t, b)
          \/ Decompose(b) \/ SetByHand(b)
    \/ \E t \in ThreadIds : Reparent(t)
    \/ AssignCreates \/ DecomposeMakes \/ OperatorAdds \/ OperatorFails

ThreadsNext ==
    \/ ThIteration \/ ThOperator \/ ThCrash
    \/ \E b \in ThBeads : ThAgentExits(b)

ThreadsSpec == ThreadsInit /\ [][ThreadsNext]_threadsVars
ThreadsFairSpec == ThreadsSpec /\ WF_threadsVars(ThIteration)
-----------------------------------------------------------------------------
ThreadsTypeOK ==
    /\ thDecade \in [ThreadIds -> {"none", "home", "away"}]
    /\ thMembers \subseteq ThreadIds \X ThBeads
    /\ thStatus \in [ThBeads -> {"none", "open", "dispatched", "exited",
                                "verifying", "pr_open", "done"}]
    /\ thBase \in [ThBeads -> {"none", "default", "named", "cluster"}]
    /\ thFeatures \subseteq ThreadIds /\ thMoved \subseteq ThreadIds
    /\ thStep \in {"scan", "check", "create", "add", "work", "persist",
                   "assemble", "read"}
    /\ UNION {thTodo, thCluster, thCompleted, thNewly, thTouched} \subseteq ThBeads
    /\ thWaiting \subseteq ThreadIds \X SUBSET ThBeads
    /\ thCandidate \in ThreadIds \X SUBSET ThBeads
    /\ thOp.step \in {"idle", "create", "make", "add"}
    /\ thOps \in 0..ThMaxOps /\ thFaults \in 0..ThMaxFaults

\* "Every bead lives in exactly one thread" as far as the daemon goes: auto_thread
\* puts a bead into a second one only if an operator assigned it or a lookup
\* failed, whatever clusters form, break off and form anew.
OneThread == \A b \in ThBeads \ thTouched : \A t, u \in ThreadsOf(b) : t = u

\* When the feature PR of a thread is opened, the work of every member listed is
\* done or under review against the thread's branch, unless an operator or a
\* failure came across the bead, or the thread has been under another decade.
FeatureHoldsWork ==
    [][(thStep = "read" /\ thFeatures' # thFeatures) =>
          \A b \in thCandidate[2] \ thTouched :
             thCandidate[1] \in thMoved
             \/ /\ thStatus[b] \in {"pr_open", "done"}
                /\ thBase[b] = Branch(thCandidate[1])]_threadsVars

\* "When the last bead in a thread reaches pr_open, open the feature branch PR"
\* (reconcile/mod.rs:1006), for threads and beads that no operator and no
\* failure came across.
Undisturbed(t) == t \notin thMoved /\ MembersOf(t) \cap thTouched = {}
AllComplete(t) ==
    MembersOf(t) # {} /\ \A b \in MembersOf(t) : thStatus[b] \in {"pr_open", "done"}
FeatureOpens ==
    []<>(\A t \in ThreadIds : AllComplete(t) /\ Undisturbed(t) => t \in thFeatures)
=============================================================================
