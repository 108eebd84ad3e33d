----------------------------- MODULE Exchange -----------------------------
(***************************************************************************)
(* How bead records travel between clones of one repository               *)
(* (src/jsonl_sync.rs, src/publish/, src/restore/, docs/git-hooks/).  Each *)
(* clone has a store of its own; the git-tracked .beads/beads.jsonl is the *)
(* channel.  A commit publishes the records its subject names, a push is   *)
(* refused where they are stale, the forge merges the branch, a pull       *)
(* imports what it brought (last writer wins, by the second), closes the   *)
(* beads merged commits name and re-renders the published records.         *)
(*                                                                         *)
(* Clones, the forge and the processes that write a store (daemon, MCP     *)
(* server, operators) interleave; a git command and its hooks run one at a *)
(* time in a clone.  Clocks agree and tell seconds.                        *)
(*                                                                         *)
(* A record is its updated_at, what an import carries over (edit, done),   *)
(* what it leaves alone (files: files, test_files, external_ref,           *)
(* derived_from) and its comments: the text and the clone that numbered it.*)
(***************************************************************************)
EXTENDS Integers, FiniteSets

CONSTANTS
    Clones,
    ExBeads,
    Worlds       \* what clones, trunk and writers are like in this instance

ASSUME ExchangeAssumption ==
    \A w \in Worlds :
       /\ w.held \subseteq ExBeads      \* beads a merge alone does not close
       /\ w.published \subseteq ExBeads \* the others are yet to be created
       /\ w.fresh \subseteq Clones      \* stores that have yet to be filled
       /\ w.direct \in BOOLEAN          \* the trunk accepts a direct push
       /\ w.worktree \in BOOLEAN        \* branches live in linked worktrees
       /\ w.edits \subseteq {"create", "text", "files", "note", "reopen"}
       /\ w.maxEdits \in Nat            \* bound: writes to the stores
       /\ w.maxClock \in Nat \ {0}      \* bound: seconds in which they fall
       /\ w.maxGit \in [Clones -> Nat]  \* bound: commits, pushes, merges
       /\ w.maxFailed \in Nat           \* bound: imports that fail

VARIABLES
    exStore,     \* clone -> bead -> its record
    exTrunk,     \* the remote trunk: records, beads that merged commits name
    exLocal,     \* clone -> the trunk as last pulled
    exBranch,    \* clone -> its feature branch
    exImport,    \* clone -> the post-merge hook: step, file, beads it writes
    exParked,    \* clone -> rsry/trunk-refresh
    exWorld,     \* which of the worlds this is
    exClock, exEdits, exGit,
    exFailed,    \* imports that have failed
    exClouded,   \* beads written twice in a second, or during their import
    exUnread     \* beads that a merge resolved by hand brought to a branch

exchangeVars == <<exStore, exTrunk, exLocal, exBranch, exImport, exParked,
                  exWorld, exClock, exEdits, exGit, exFailed, exClouded,
                  exUnread>>
exForge == <<exTrunk, exParked>>
exCheckout == <<exLocal, exBranch, exUnread>>
exWriters == <<exStore, exClouded>>
exTime == <<exClock, exEdits>>

\* One more git command on a branch.
GitCommand(c) == exGit[c] < exWorld.maxGit[c] /\ exGit' = [exGit EXCEPT ![c] = @ + 1]

NoRecord == [at |-> -1, edit |-> 0, done |-> FALSE, files |-> 0, notes |-> {}]
FirstRecord == [NoRecord EXCEPT !.at = 0]
NoFile == [b \in ExBeads |-> NoRecord]
NoBranch == [open |-> FALSE, base |-> NoFile, tip |-> NoFile,
             named |-> {}, pushed |-> NoFile, claims |-> {},
             shown |-> [b \in ExBeads |-> -1]]
NoImport == [step |-> "idle", file |-> NoFile, beads |-> {}, place |-> "none"]
NoParked == [open |-> FALSE, base |-> NoFile, tip |-> NoFile]

Held(file) == {b \in ExBeads : file[b] # NoRecord}
Idle(c) == exImport[c].step = "idle"

\* A store no `rsry init` has filled refuses every command.
Initialised(c) == Held(exStore[c]) # {} \/ Held(exLocal[c].recs) = {}
-----------------------------------------------------------------------------
(* Writers of a store *)

\* The record as other places hold it.
Copies(c, b) ==
    {exTrunk.recs[b]} \cup {exLocal[d].recs[b] : d \in Clones}
    \cup {exStore[d][b] : d \in Clones \ {c}}
    \cup UNION {{exBranch[d].base[b], exBranch[d].tip[b], exBranch[d].pushed[b],
                 exParked[d].tip[b], exImport[d].file[b]} : d \in Clones}

\* The beads whose write by c at this second is not the only one of it, or
\* meets an import that is already decided to write them.
Crossed(c, beads) ==
    {b \in beads : \/ \E r \in Copies(c, b) : r.at = exClock
                   \/ b \in exImport[c].beads}

\* Any write of a bead stamps updated_at.
Edited(kind, r, c, n) ==
    CASE kind = "text"   -> [r EXCEPT !.edit = n, !.at = exClock]
      [] kind = "files"  -> [r EXCEPT !.files = n, !.at = exClock]
      [] kind = "note"   -> [r EXCEPT !.notes = @ \cup {<<n, c>>},
                                      !.at = exClock]
      [] kind = "reopen" -> [r EXCEPT !.done = FALSE, !.at = exClock]
      [] kind = "create" -> [FirstRecord EXCEPT !.edit = n, !.at = exClock]

\* A new id is one nobody has.
Applies(kind, c, b) ==
    CASE kind = "create" -> \A d \in Clones : exStore[d][b] = NoRecord
      [] kind = "reopen" -> exStore[c][b].done
      [] OTHER           -> exStore[c][b] # NoRecord

Edit(c, b, kind) ==
    /\ Initialised(c)
    /\ exEdits < exWorld.maxEdits
    /\ Applies(kind, c, b)
    /\ exEdits' = exEdits + 1
    /\ exStore' = [exStore EXCEPT ![c][b] = Edited(kind, @, c, exEdits')]
    /\ exClouded' = exClouded \cup Crossed(c, {b})
    /\ UNCHANGED <<exForge, exGit, exCheckout, exImport, exWorld, exClock,
                   exFailed>>

\* Seconds in which no store is written are not told apart.
Tick ==
    /\ exClock < exWorld.maxClock
    /\ \E c \in Clones, b \in ExBeads : exStore[c][b].at = exClock
    /\ exClock' = exClock + 1
    /\ UNCHANGED <<exForge, exGit, exCheckout, exWriters, exImport, exWorld,
                   exEdits, exFailed>>
-----------------------------------------------------------------------------
(* commit-msg and pre-push *)

\* A branch is cut from the local trunk.
Opened(c) ==
    IF exBranch[c].open THEN exBranch[c]
    ELSE [NoBranch EXCEPT !.open = TRUE, !.base = exLocal[c].recs,
                          !.tip = exLocal[c].recs]

\* publish_from_commit: every bead of the subject must be in the store.
Publishes(c, beads) == beads \subseteq Held(exStore[c])

\* The subject's records go into the commit; a linked worktree's hook skips.
Commit(c, beads) ==
    /\ Idle(c) /\ Initialised(c) /\ GitCommand(c)
    /\ exWorld.worktree \/ Publishes(c, beads)
    /\ exBranch' = [exBranch EXCEPT ![c] =
          [Opened(c) EXCEPT
             !.named = @ \cup beads,
             !.tip = [b \in ExBeads |-> IF b \in beads /\ ~exWorld.worktree
                                          THEN exStore[c][b] ELSE @[b]]]]
    /\ UNCHANGED <<exForge, exLocal, exUnread, exWriters, exImport, exWorld,
                   exTime, exFailed>>

\* Faulty: only a missing line is refused.
AgreesIfPresent(c) ==
    \A b \in exBranch[c].named :
       exStore[c][b] = NoRecord \/ exBranch[c].tip[b] # NoRecord

\* compare: the store's rendering is the pushed line; other ids are not ours.
Agrees(c) ==
    \A b \in exBranch[c].named :
       exStore[c][b] \in {NoRecord, exBranch[c].tip[b]}

\* verify_pushed judges the ids of the commits the remote does not have yet.
Push(c) ==
    LET br == exBranch[c]
    IN  /\ Idle(c) /\ br.open /\ GitCommand(c)
        /\ br.named # {} \/ br.tip # br.pushed
        /\ exWorld.worktree \/ Agrees(c)
        /\ exBranch' = [exBranch EXCEPT
              ![c].pushed = br.tip,
              ![c].claims = @ \cup br.named,
              ![c].named = {},
              ![c].shown = [b \in ExBeads |->
                  IF b \in br.named /\ ~exWorld.worktree THEN exStore[c][b].at
                                                    ELSE @[b]]]
        /\ UNCHANGED <<exForge, exLocal, exUnread, exWriters, exImport,
                       exWorld, exTime, exFailed>>
-----------------------------------------------------------------------------
(* merge_contract, and the forge *)

Clashes(base, ours, theirs) ==
    {b \in Held(ours) \cap Held(theirs) :
        Cardinality({base[b], ours[b], theirs[b]}) = 3}

MergedRecord(base, ours, theirs) ==
    IF theirs = NoRecord \/ (base = theirs /\ ours # NoRecord) THEN ours
                                                               ELSE theirs

Merged(base, ours, theirs) ==
    [b \in ExBeads |-> MergedRecord(base[b], ours[b], theirs[b])]

\* A squash merge: its subject names what the branch's subjects named.
MergeIntoTrunk(c, base, tip, beads) ==
    /\ GitCommand(c)
    /\ Clashes(base, exTrunk.recs, tip) = {}
    /\ exTrunk' = [recs |-> Merged(base, exTrunk.recs, tip),
                   named |-> exTrunk.named \cup beads]
    /\ UNCHANGED <<exLocal, exUnread, exWriters, exImport, exWorld, exTime,
                   exFailed>>

MergePR(c) ==
    /\ exBranch[c].open /\ exBranch[c].claims # {}
    /\ exBranch[c].tip = exBranch[c].pushed /\ exBranch[c].named = {}
    /\ MergeIntoTrunk(c, exBranch[c].base, exBranch[c].pushed, exBranch[c].claims)
    /\ exBranch' = [exBranch EXCEPT ![c] = NoBranch]
    /\ UNCHANGED exParked

\* A pull request from rsry/trunk-refresh; the subject names a changed bead.
MergeParked(c) ==
    /\ exParked[c].open
    /\ \E b \in ExBeads :
          /\ exParked[c].tip[b] # exParked[c].base[b]
          /\ MergeIntoTrunk(c, exParked[c].base, exParked[c].tip, {b})
    /\ exParked' = [exParked EXCEPT ![c] = NoParked]
    /\ UNCHANGED exBranch
-----------------------------------------------------------------------------
(* post-merge: restore_beads_from_contract, close-merged, trunk-refresh *)

\* Faulty: a bead that is already here is left alone.
Missing(r, local) == local = NoRecord /\ r # NoRecord

\* Faulty: any other record is taken over.
Differs(r, local) == r # local /\ r # NoRecord

\* Last writer wins; a tie keeps the local record.
Newer(r, local) == r.at > local.at

StartImport(c, file, place) ==
    exImport' = [exImport EXCEPT ![c] =
        [step |-> "judged", file |-> file, place |-> place,
         beads |-> {b \in ExBeads : Newer(file[b], exStore[c][b])}]]

\* git pull on the trunk.
Pull(c) ==
    /\ Idle(c)
    /\ exLocal[c] # exTrunk
    /\ exLocal' = [exLocal EXCEPT ![c] = exTrunk]
    /\ StartImport(c, exTrunk.recs, "trunk")
    /\ UNCHANGED <<exForge, exGit, exBranch, exUnread, exWriters, exWorld,
                   exTime, exFailed>>

\* rsry init in a fresh clone: bootstrap_git_tracked_beads.
Bootstrap(c) ==
    /\ Idle(c) /\ ~Initialised(c)
    /\ StartImport(c, exLocal[c].recs, "branch")
    /\ UNCHANGED <<exForge, exGit, exCheckout, exWriters, exWorld, exTime,
                   exFailed>>

\* git merge of the trunk into the branch.  A conflict is resolved by hand,
\* and then no hook imports what the merge brought.
UpdateBranch(c) ==
    LET br == exBranch[c]
        clashes == Clashes(br.base, br.tip, exTrunk.recs)
        merged == Merged(br.base, br.tip, exTrunk.recs)
    IN  /\ Idle(c) /\ br.open /\ br.base # exTrunk.recs /\ GitCommand(c)
        /\ \E theirs \in SUBSET clashes :
              exBranch' = [exBranch EXCEPT
                 ![c].base = exTrunk.recs,
                 ![c].tip = [b \in ExBeads |->
                     IF b \notin clashes THEN merged[b]
                     ELSE IF b \in theirs THEN exTrunk.recs[b] ELSE br.tip[b]]]
        /\ IF clashes # {} THEN UNCHANGED exImport
           ELSE StartImport(c, merged, IF exWorld.worktree THEN "worktree"
                                                      ELSE "branch")
        /\ exUnread' = IF clashes = {} THEN exUnread
             ELSE exUnread \cup {b \in ExBeads : br.base[b] # exTrunk.recs[b]}
        /\ UNCHANGED <<exForge, exLocal, exWriters, exWorld, exTime, exFailed>>

\* Faulty: the status stays (no restore_status for a bead that exists).
AppliedButStatus(local, r) ==
    IF local = NoRecord THEN [r EXCEPT !.notes = {}]
    ELSE [local EXCEPT !.edit = r.edit, !.at = r.at]

\* create_bead_full with the record's extensions, or apply_incoming; both
\* end by stamping the record's own time.
Applied(local, r) ==
    IF local = NoRecord THEN [r EXCEPT !.notes = {}]
    ELSE [local EXCEPT !.edit = r.edit, !.done = r.done, !.at = r.at]

HookStep(c, from, next) ==
    /\ exImport[c].step = from
    /\ exImport' = [exImport EXCEPT ![c] = next]
    /\ UNCHANGED <<exForge, exGit, exCheckout, exWorld, exTime>>

Closing(c) == [NoImport EXCEPT !.step = "closing", !.place = exImport[c].place]

ImportRecords(c) ==
    /\ HookStep(c, "judged", [exImport[c] EXCEPT !.step = "wiring"])
    /\ exStore' = [exStore EXCEPT ![c] = [b \in ExBeads |->
          IF b \in exImport[c].beads THEN Applied(@[b], exImport[c].file[b])
                                     ELSE @[b]]]
    /\ UNCHANGED <<exClouded, exFailed>>

\* A comment whose text is new is added as one of this clone's.
Texts(r) == {note[1] : note \in r.notes}

\* Faulty: the record's time is rounded up to a second.
WiredRoundedUp(local, r, c) ==
    [local EXCEPT !.notes = @ \cup {<<n, c>> : n \in Texts(r) \ Texts(local)},
                  !.at = r.at + 1]

Wired(local, r, c) ==
    [local EXCEPT !.notes = @ \cup {<<n, c>> : n \in Texts(r) \ Texts(local)},
                  !.at = r.at]

ImportNotes(c) ==
    /\ HookStep(c, "wiring", Closing(c))
    /\ exStore' = [exStore EXCEPT ![c] = [b \in ExBeads |->
          IF b \in exImport[c].beads THEN Wired(@[b], exImport[c].file[b], c)
                                     ELSE @[b]]]
    /\ UNCHANGED <<exClouded, exFailed>>

\* The hook goes on (`|| true`), whatever the import had written by then.
ImportFails(c) ==
    /\ exFailed < exWorld.maxFailed
    /\ \E step \in {"judged", "wiring"} : HookStep(c, step, Closing(c))
    /\ exFailed' = exFailed + 1
    /\ UNCHANGED exWriters

\* close_merged_in_repo: the open beads that the fetched trunk's commits name.
\* (In a linked worktree `--repo` names a directory no configuration knows.)
ToClose(c) ==
    {b \in exTrunk.named \cap Held(exStore[c]) :
        ~exStore[c][b].done /\ exImport[c].place # "worktree"}

ClosedRecord(r, b, c) ==
    [r EXCEPT !.done = b \notin exWorld.held, !.notes = @ \cup {<<0, c>>},
              !.at = exClock]

ClosedStore(c) ==
    [b \in ExBeads |-> IF b \in ToClose(c) THEN ClosedRecord(exStore[c][b], b, c)
                                           ELSE exStore[c][b]]

\* export_published: the records already published, as the store has them.
Rendered(file, store) ==
    [b \in ExBeads |-> IF NoRecord \in {file[b], store[b]} THEN file[b]
                                                           ELSE store[b]]

\* refresh_trunk: committed and pushed, or parked and the trunk reset.
RefreshTrunk(c, store) ==
    LET fresh == [exLocal[c] EXCEPT !.recs = Rendered(@, store)]
        accepted == exWorld.direct /\ exTrunk = exLocal[c]
    IN  /\ exTrunk' = IF accepted THEN fresh ELSE exTrunk
        /\ exLocal' = IF accepted THEN [exLocal EXCEPT ![c] = fresh] ELSE exLocal
        /\ exParked' = IF accepted \/ fresh = exLocal[c] THEN exParked
             ELSE [exParked EXCEPT ![c] = [open |-> TRUE, tip |-> fresh.recs,
                                           base |-> exLocal[c].recs]]

\* The last two commands of the hook, one after the other.
CloseAndRefresh(c) ==
    /\ exImport[c].step = "closing"
    /\ exImport' = [exImport EXCEPT ![c] = NoImport]
    /\ exStore' = [exStore EXCEPT ![c] = ClosedStore(c)]
    /\ exClouded' = exClouded \cup Crossed(c, ToClose(c))
    /\ IF exImport[c].place = "trunk" THEN RefreshTrunk(c, ClosedStore(c))
                                      ELSE UNCHANGED <<exForge, exLocal>>
    /\ UNCHANGED <<exBranch, exUnread, exWorld, exTime, exGit, exFailed>>
-----------------------------------------------------------------------------
\* Each bead is published everywhere or not yet created; a store may be empty.
ExchangeInit ==
    /\ exWorld \in Worlds
    /\ exTrunk = [named |-> {},
                  recs |-> [b \in ExBeads |-> IF b \in exWorld.published
                                               THEN FirstRecord ELSE NoRecord]]
    /\ exStore = [c \in Clones |-> IF c \in exWorld.fresh THEN NoFile
                                                          ELSE exTrunk.recs]
    /\ exLocal = [c \in Clones |-> exTrunk]
    /\ exBranch = [c \in Clones |-> NoBranch]
    /\ exImport = [c \in Clones |-> NoImport]
    /\ exParked = [c \in Clones |-> NoParked]
    /\ exClock = 1 /\ exEdits = 0 /\ exFailed = 0
    /\ exGit = [c \in Clones |-> 0]
    /\ exClouded = {} /\ exUnread = {}

Importing(c) == ImportRecords(c) \/ ImportNotes(c) \/ CloseAndRefresh(c)

ExchangeNext ==
    \/ Tick
    \/ \E c \in Clones :
          \/ \E b \in ExBeads, kind \in exWorld.edits : Edit(c, b, kind)
          \/ \E beads \in (SUBSET ExBeads) \ {{}} : Commit(c, beads)
          \/ Push(c) \/ MergePR(c) \/ MergeParked(c)
          \/ Pull(c) \/ Bootstrap(c) \/ UpdateBranch(c)
          \/ Importing(c) \/ ImportFails(c)

\* Hooks finish, new clones are set up and clones go on pulling.
ExchangeFairness ==
    \A c \in Clones : /\ WF_exchangeVars(Pull(c) \/ Bootstrap(c))
                      /\ WF_exchangeVars(Importing(c))

ExchangeSpec == ExchangeInit /\ [][ExchangeNext]_exchangeVars
ExchangeFairSpec == ExchangeSpec /\ ExchangeFairness
-----------------------------------------------------------------------------
IsRecord(r) ==
    /\ DOMAIN r = DOMAIN NoRecord
    /\ r = NoRecord \/ r.at \in 0..exClock
    /\ {r.edit, r.files} \subseteq 0..exEdits
    /\ r.done \in BOOLEAN /\ r.notes \subseteq (0..exEdits) \X Clones
IsFile(f) == DOMAIN f = ExBeads /\ \A b \in ExBeads : IsRecord(f[b])

ExchangeTypeOK ==
    /\ exWorld \in Worlds
    /\ IsFile(exTrunk.recs) /\ exTrunk.named \subseteq ExBeads
    /\ \A c \in Clones :
          /\ IsFile(exStore[c]) /\ IsFile(exLocal[c].recs)
          /\ IsFile(exBranch[c].base) /\ IsFile(exBranch[c].tip)
          /\ IsFile(exBranch[c].pushed) /\ IsFile(exParked[c].tip)
          /\ exBranch[c].named \cup exBranch[c].claims \subseteq ExBeads
          /\ exImport[c].step \in {"idle", "judged", "wiring", "closing"}
          /\ exImport[c].beads \subseteq ExBeads
          /\ exGit[c] \in 0..exWorld.maxGit[c]
    /\ exClock \in 1..exWorld.maxClock
    /\ exEdits \in 0..exWorld.maxEdits
    /\ exFailed \in 0..exWorld.maxFailed
    /\ exClouded \cup exUnread \subseteq ExBeads

Places(b) == UNION {Copies(c, b) : c \in Clones}

\* updated_at identifies a bead's state: wherever two places hold a record of
\* the same second, title, description and status are the same, so a tie may
\* keep the local one.  (Unless two writes fell in one second, or a write met
\* the import that was overwriting the bead: exClouded.)
StampIdentifies ==
    \A b \in ExBeads \ exClouded : \A r, s \in Places(b) :
       r.at = s.at => r.edit = s.edit /\ r.done = s.done

\* Neither a store nor the trunk goes back to an older record, through imports,
\* merges, refreshes and their interleavings: not the store, unless a write met
\* an import, and not the trunk, unless an import failed or a merge resolved by
\* hand was never imported, after which the older store is published again.
NothingReverts ==
    [][\A b \in ExBeads :
          /\ \/ b \in exClouded'
             \/ \A c \in Clones : exStore'[c][b].at >= exStore[c][b].at
          /\ \/ b \in exUnread \/ exFailed > 0
             \/ exTrunk'.recs[b].at >= exTrunk.recs[b].at]_exchangeVars

\* What the pre-push gate let through arrives: once the pull request is merged,
\* the trunk's records of the beads it names are as new as the pusher's store
\* was at the push, whatever was edited, merged or pulled in between (with the
\* exceptions of NothingReverts: over a trunk that went back, an unchanged
\* record on the branch changes nothing).
NamedArrives ==
    [][\A c \in Clones : MergePR(c) =>
          \A b \in ExBeads \ exUnread :
             \/ exFailed > 0
             \/ exTrunk'.recs[b].at >= exBranch[c].shown[b]]_exchangeVars

\* A published record reaches every clone that goes on pulling (post-merge
\* imports it), or the clone has a newer one.
PublishedArrives ==
    []<>(\A c \in Clones, b \in ExBeads : exStore[c][b].at >= exTrunk.recs[b].at)

\* "no LWW ping-pong, and the tracked projection doesn't churn on every
\* post-merge import" (restore/edge_sync_tests.rs:145): once nobody writes, the
\* trunk comes to rest.  An imported comment gets an id and a time of the clone
\* that imports it, the record keeps its updated_at, and each clone's refresh
\* replaces the other's rendering for ever.
ProjectionSettles == <>[][UNCHANGED exTrunk]_exchangeVars
=============================================================================
