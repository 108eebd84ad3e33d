---------------------------- MODULE Observations ----------------------------
(***************************************************************************)
(* The observation log (src/observation).  Sources report statuses of a    *)
(* work item, in any order and more than once; the log keeps the first row *)
(* of a dedup key, and a fold reads it row by row (log.rs, fold.rs).       *)
(* Besides, `rsry lattice backfill` replays the merges on the trunk into   *)
(* the events of the beads (backfill.rs); runs may be side by side, and a  *)
(* write may be lost.                                                      *)
(*                                                                         *)
(* A status is a number that also stands for its payload hash, which is    *)
(* computed from the source, the field and the value.                      *)
(***************************************************************************)
EXTENDS Integers, FiniteSets

CONSTANTS
    ObSources, ObEvents, ObValues,
    ObMaxClock,      \* bound: seconds
    ObMaxRows,       \* bound: rows of the log
    ObClosures,      \* <<sha, bead, n>>: the nth time a commit names a bead
    ObBackfills,     \* processes that may run the backfill
    ObMaxRuns,       \* bound: backfills started
    ObMaxLost        \* bound: writes of an event that are lost

ASSUME ObservationsAssumption ==
    /\ ObValues \subseteq Nat
    /\ {ObMaxClock, ObMaxRows, ObMaxRuns, ObMaxLost} \subseteq Nat

VARIABLES
    obClock, obLog,              \* the log: rows of source, event, value, at
    obSnapshot, obLeft,          \* the fold: its rows and those it has not read
    obLatest,                    \* source -> the row that counts so far
    obTrunk,                     \* the closures of merges on the trunk
    obGit,                       \* closure -> git observations in the bead's events
    obRun,                       \* backfill -> its window, what is left, seen, lost
    obRuns, obLost, obBeside

foldVars == <<obClock, obLog, obSnapshot, obLeft, obLatest>>
backfillVars == <<obTrunk, obGit, obRun, obRuns, obLost, obBeside>>
observationsVars == <<foldVars, backfillVars>>

NoRow == [source |-> "", event |-> "", value |-> 0, at |-> -1]
-----------------------------------------------------------------------------
(* The log and its fold *)

\* Observation::dedup_key; the time of the observation is no part of it.
SameKey(r, q) == r.source = q.source /\ r.event = q.event /\ r.value = q.value

\* insert: the observer stamps its own time, and a row that is there stays.
Observe(s, e, v) ==
    LET row == [source |-> s, event |-> e, value |-> v, at |-> obClock]
    IN  /\ Cardinality(obLog) < ObMaxRows
        /\ \A r \in obLog : ~SameKey(r, row)
        /\ obLog' = obLog \cup {row}
        /\ UNCHANGED <<obClock, obSnapshot, obLeft, obLatest, backfillVars>>

ObTick ==
    /\ obClock < ObMaxClock /\ obClock' = obClock + 1
    /\ UNCHANGED <<obLog, obSnapshot, obLeft, obLatest, backfillVars>>

StartFold ==
    /\ obLeft = {} /\ obSnapshot # obLog
    /\ obSnapshot' = obLog /\ obLeft' = obLog
    /\ obLatest' = [s \in ObSources |-> NoRow]
    /\ UNCHANGED <<obClock, obLog, backfillVars>>

\* Faulty: the last row read counts.
ReadLater(r, q) == TRUE

\* Within a source the later observation counts, then the greater hash.
Supersedes(r, q) == r.at > q.at \/ (r.at = q.at /\ r.value > q.value)

FoldRow(r) ==
    /\ r \in obLeft /\ obLeft' = obLeft \ {r}
    /\ obLatest' = IF Supersedes(r, obLatest[r.source])
                     THEN [obLatest EXCEPT ![r.source] = r] ELSE obLatest
    /\ UNCHANGED <<obClock, obLog, obSnapshot, backfillVars>>

\* join_per_source: nothing, the one status all agree on, or every witness.
Witnesses == {<<obLatest[s].value, s>> : s \in {t \in ObSources : obLatest[t] # NoRow}}
Agreed == \A w, x \in Witnesses : w[1] = x[1]
Status ==
    [kind |-> IF Witnesses = {} THEN "empty" ELSE IF Agreed THEN "single" ELSE "top",
     of   |-> IF Agreed THEN {w[1] : w \in Witnesses} ELSE Witnesses]
-----------------------------------------------------------------------------
(* The backfill *)

IdleRun == [step |-> "idle", window |-> {}, left |-> {}, seen |-> {},
            read |-> {}, lost |-> {}]
KeyOf(c) == <<c[1], c[2]>>    \* the sha, and the bead whose events hold it
Witnessed == {KeyOf(c) : c \in {d \in ObClosures : obGit[d] > 0}}
BeadsOf(C) == {c[2] : c \in C}

\* A commit is merged, with all that it closes.
Merge(sha) ==
    /\ \E c \in ObClosures \ obTrunk : c[1] = sha
    /\ obTrunk' = obTrunk \cup {c \in ObClosures : c[1] = sha}
    /\ UNCHANGED <<foldVars, obGit, obRun, obRuns, obLost, obBeside>>

\* scan_merge_commits, once; commits older than the limit are left out.
StartBackfill(p) ==
    /\ obRun[p].step = "idle" /\ obRuns < ObMaxRuns /\ obRuns' = obRuns + 1
    /\ \E shas \in SUBSET {c[1] : c \in obTrunk} :
          LET window == {c \in obTrunk : c[1] \in shas}
          IN  obRun' = [obRun EXCEPT ![p] = [IdleRun EXCEPT !.step = "replaying",
                                               !.window = window, !.left = window]]
    /\ obBeside' = (obBeside \/ \E q \in ObBackfills : obRun[q].step # "idle")
    /\ UNCHANGED <<foldVars, obTrunk, obGit, obLost>>

\* existing_git_event_ids: the events of a bead are read at its first closure.
ReadBead(p, b) ==
    /\ b \in BeadsOf(obRun[p].left) \ obRun[p].read
    /\ obRun' = [obRun EXCEPT ![p].read = @ \cup {b},
                              ![p].seen = @ \cup {k \in Witnessed : k[2] = b}]
    /\ UNCHANGED <<foldVars, obTrunk, obGit, obRuns, obLost, obBeside>>

\* Faulty: any merge that a bead's events hold will do ...
AnyMergeSeen(seen, c) == \E k \in seen : k[2] = c[2]

AlreadyPresent(seen, c) == KeyOf(c) \in seen

\* ... or a commit is remembered only if it was there before.
RememberNone(seen, c) == seen

Remember(seen, c) == seen \cup {KeyOf(c)}

\* write_merge_observation unless the sha is there; log_event returns nothing,
\* and a write that is lost counts as made.
Replay(p, c) ==
    /\ c \in obRun[p].left /\ c[2] \in obRun[p].read
    /\ IF AlreadyPresent(obRun[p].seen, c)
         THEN /\ obRun' = [obRun EXCEPT ![p].left = @ \ {c}]
              /\ UNCHANGED <<obGit, obLost>>
         ELSE \E lost \in {{}, {KeyOf(c)}} :
              /\ obRun' = [obRun EXCEPT ![p].left = @ \ {c},
                                        ![p].seen = Remember(@, c),
                                        ![p].lost = @ \cup lost]
              /\ obGit' = IF lost = {} THEN [obGit EXCEPT ![c] = @ + 1] ELSE obGit
              /\ obLost' = obLost + Cardinality(lost) /\ obLost' <= ObMaxLost
    /\ UNCHANGED <<foldVars, obTrunk, obRuns, obBeside>>

EndBackfill(p) ==
    /\ obRun[p].step = "replaying" /\ obRun[p].left = {}
    /\ obRun' = [obRun EXCEPT ![p] = IdleRun]
    /\ UNCHANGED <<foldVars, obTrunk, obGit, obRuns, obLost, obBeside>>

\* A read fails, or the process ends.
BackfillFails(p) ==
    /\ obRun[p].step = "replaying"
    /\ obRun' = [obRun EXCEPT ![p] = IdleRun]
    /\ UNCHANGED <<foldVars, obTrunk, obGit, obRuns, obLost, obBeside>>
-----------------------------------------------------------------------------
ObservationsInit ==
    /\ obClock = 0 /\ obLog = {} /\ obSnapshot = {} /\ obLeft = {}
    /\ obLatest = [s \in ObSources |-> NoRow]
    /\ obTrunk = {} /\ obGit = [c \in ObClosures |-> 0]
    /\ obRun = [p \in ObBackfills |-> IdleRun]
    /\ obRuns = 0 /\ obLost = 0 /\ obBeside = FALSE

FoldNext ==
    \/ \E s \in ObSources, e \in ObEvents, v \in ObValues : Observe(s, e, v)
    \/ ObTick \/ StartFold
    \/ \E r \in obLeft : FoldRow(r)

BackfillNext ==
    \/ \E c \in ObClosures : Merge(c[1])
    \/ \E p \in ObBackfills :
          \/ StartBackfill(p)
          \/ \E c \in ObClosures : ReadBead(p, c[2]) \/ Replay(p, c)
          \/ EndBackfill(p) \/ BackfillFails(p)

ObservationsNext == FoldNext \/ BackfillNext

ObservationsSpec == ObservationsInit /\ [][ObservationsNext]_observationsVars
-----------------------------------------------------------------------------
ObIsRow(r) ==
    /\ r.source \in ObSources /\ r.event \in ObEvents
    /\ r.value \in ObValues /\ r.at \in 0..obClock

ObservationsTypeOK ==
    /\ obClock \in 0..ObMaxClock
    /\ obLeft \subseteq obSnapshot /\ obSnapshot \subseteq obLog
    /\ \A r \in obLog : ObIsRow(r)
    /\ \A s \in ObSources : obLatest[s] = NoRow \/ ObIsRow(obLatest[s])
    /\ obTrunk \subseteq ObClosures
    /\ \A c \in ObClosures : obGit[c] \in Nat
    /\ \A p \in ObBackfills :
          /\ obRun[p].left \subseteq obRun[p].window
          /\ obRun[p].window \subseteq obTrunk
    /\ obRuns \in 0..ObMaxRuns /\ obLost \in 0..ObMaxLost /\ obBeside \in BOOLEAN

\* "Same input set, same output" (fold.rs:53): in whatever order the rows were
\* inserted and read, the folded status is the join over the sources of the value
\* of each one's greatest row.
Greatest(s) == {r \in obSnapshot : r.source = s /\
                   \A q \in obSnapshot : q.source = s =>
                      q.at < r.at \/ (q.at = r.at /\ q.value <= r.value)}
ViewIsJoin ==
    obLeft = {} =>
       LET values == UNION {{<<r.value, s>> : r \in Greatest(s)} : s \in ObSources}
       IN  IF \A v, w \in values : v[1] = w[1]
             THEN /\ Status.kind = IF obSnapshot = {} THEN "empty" ELSE "single"
                  /\ Status.of = {v[1] : v \in values}
             ELSE Status.kind = "top" /\ Status.of = values

\* "A second run records zero" (backfill.rs:33): as long as no two runs were side
\* by side a bead has at most one observation of a merge, however often runs fail
\* and are repeated and however often a commit names the bead.
WitnessesOf(k) == {c \in ObClosures : KeyOf(c) = k /\ obGit[c] > 0}
WitnessedOnce ==
    ~obBeside => \A c \in ObClosures : obGit[c] <= 1 /\ Cardinality(WitnessesOf(KeyOf(c))) <= 1

\* A run that ends leaves every merge of its window witnessed in the events of
\* the beads that it closed, except by a write that was lost.
MergesWitnessed ==
    [][\A p \in ObBackfills : EndBackfill(p) =>
          \A c \in obRun[p].window :
             KeyOf(c) \in Witnessed \cup obRun[p].lost]_observationsVars
=============================================================================
